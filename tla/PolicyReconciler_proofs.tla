----------------------- MODULE PolicyReconciler_proofs -----------------------
(***************************************************************************)
(* Proofs about PolicyReconciler, for any policies, specs and events.      *)
(*                                                                         *)
(* The worker reads from caches that lag. What it made stays good because  *)
(* nothing a policy has is taken from it while the policy exists: what the *)
(* cache once held is still there.                                         *)
(***************************************************************************)
EXTENDS PolicyReconciler, TLAPS

\* Two policies with one work namespace take it from each other: it goes with
\* the one that made it, and everything of the other that is in it.
Unshared == \A p, q \in Policies : WorkNamespaces[p] \cap WorkNamespaces[q] # {} => p = q
OnePolicy == \A p, q \in Policies : p = q

Busy == worker.pc # "idle"

\* The types. The worker has a policy in its hands whenever it is not idle.
Typed ==
  /\ objects \in Store /\ cached \in Store
  /\ worker \in Worker /\ names \in Nat
  /\ happened \in [EventKinds -> Nat]
  /\ Busy => worker.job \in Policies /\ worker.read \in Policy /\ worker.read # None

\* Nobody but the policy itself and its user makes one of its namespaces, and whatever
\* it has is in these.
Owned ==
  /\ \A p \in Policies : \A n \in WorkNamespaces[p] : objects.ns[n] \in {None, "user", p}
  /\ \A p \in Policies : Exists(p) => objects.policy[p].space \in WorkNamespaces[p]
  /\ \A o \in objects.cj \cup objects.ds : o.space \in WorkNamespaces[o.owner]

\* So are the policies in the cache and in the worker's hands.
Placed ==
  /\ \A p \in Policies :
       cached.policy[p] # None => cached.policy[p].space \in WorkNamespaces[p]
  /\ Busy => Space \in WorkNamespaces[worker.job]

\* The worker has gone through the service account, or the binding too.
HasAccount == worker.pc \notin {"idle", "namespace", "settings", "account"}
HasBinding == HasAccount /\ worker.pc # "binding"

\* The service account is in a namespace of a policy if the cache says so, if the
\* worker relies on it, and if a scanner is scheduled there.
Accounts ==
  \A p \in Policies : \A n \in WorkNamespaces[p] : Exists(p) =>
    \/ n \in objects.sa
    \/ /\ n \notin cached.sa
       /\ ~(worker.job = p /\ HasAccount /\ Space = n)
       /\ \A scanner \in Scanners : ~ScheduledIn(p, scanner, n)

\* Likewise some binding. Nobody ever deletes it.
Bindings ==
  \/ objects.crb # None
  \/ /\ cached.crb = None /\ ~HasBinding
     /\ \A p \in Policies, scanner \in Scanners, n \in Spaces : ~ScheduledIn(p, scanner, n)

\* The cache, and the worker, know a policy's work namespace.
CacheKnows(p) == cached.policy[p] # None => cached.policy[p].space = objects.policy[p].space
WorkerKnows(p) == Busy => Space = objects.policy[p].space

\* As long as the one policy was given another work namespace at most once: before
\* that everything is in the one it has. The binding is not moved to the new one, and
\* nothing is scheduled there, but by a worker that knows it; and once the binding
\* is there everyone knows, so that nobody brings it back.
BindingFollows ==
  \A p \in Policies : Exists(p) /\ happened["move"] <= 1 =>
    LET space == objects.policy[p].space IN
    /\ objects.crb = space \/ happened["move"] = 0 => CacheKnows(p) /\ WorkerKnows(p)
    /\ Busy /\ Space = space => CacheKnows(p)
    /\ \/ objects.crb = space
       \/ /\ cached.crb # space /\ ~(HasBinding /\ Space = space)
          /\ \A scanner \in Scanners : ~ScheduledIn(p, scanner, space)
    /\ happened["move"] = 0 =>
         /\ objects.crb \in {None, space} /\ cached.crb \in {None, space}
         /\ \A scanner \in Scanners, n \in Spaces : ScheduledIn(p, scanner, n) => n = space

Calm == happened["stale"] = 0 /\ happened["deletion"] = 0

\* An executor, or the CronJob the worker has just made, is one the policy has.
Backed(p, name) == name # 0 => \E c \in objects.cj : c.owner = p /\ c.name = name

Executors ==
  \A p \in Policies : Exists(p) =>
    /\ Backed(p, objects.policy[p].executor)
    /\ cached.policy[p] # None => Backed(p, cached.policy[p].executor)
    /\ worker.job = p => Backed(p, worker.executor) /\ Backed(p, worker.new)

IInv ==
  /\ Typed /\ Owned /\ Placed /\ Accounts /\ Bindings
  /\ Calm => Executors
  /\ OnePerType

----------------------------------------------------------------------------
(* Facts about the operators. *)

\* Reconcile's next position is one of its positions.
LEMMA NamedAfterType ==
  ASSUME NEW r \in Nat, worker.read.spec.images \subseteq Scanners
  PROVE  NamedAfter(r) \in PCs
<1> DEFINE rest == {s \in Images : Rank[s] > r}
<1>1. rest \subseteq Scanners BY DEF Images
<1>2. ASSUME rest # {} PROVE \E s \in rest : \A t \in rest : Rank[s] <= Rank[t]
  <2>1. \A t \in rest : t \in {"Image", "Kubebench", "Risk", "PkgLoad", "Workload"}
    BY <1>1 DEF Scanners, CronJobTypes, DaemonSetTypes
  <2> HIDE DEF rest
  <2>2. CASE "Image" \in rest BY <2>1, <2>2 DEF Rank
  <2>3. CASE "Image" \notin rest /\ "Kubebench" \in rest BY <2>1, <2>3 DEF Rank
  <2>4. CASE "Image" \notin rest /\ "Kubebench" \notin rest /\ "Risk" \in rest
    BY <2>1, <2>4 DEF Rank
  <2>5. CASE /\ "Image" \notin rest /\ "Kubebench" \notin rest /\ "Risk" \notin rest
             /\ "PkgLoad" \in rest
    BY <2>1, <2>5 DEF Rank
  <2>6. CASE rest = {"Workload"} BY <2>6 DEF Rank
  <2> QED BY <1>2, <2>1, <2>2, <2>3, <2>4, <2>5, <2>6
<1>3. NamedAfter(r) = IF rest = {} THEN "status"
                      ELSE CHOOSE s \in rest : \A t \in rest : Rank[s] <= Rank[t]
  BY DEF NamedAfter
<1>4. ASSUME rest # {}
      PROVE  (CHOOSE s \in rest : \A t \in rest : Rank[s] <= Rank[t]) \in rest
  <2> HIDE DEF rest
  <2> QED BY <1>2, <1>4
<1> QED BY <1>1, <1>3, <1>4 DEF PCs

LEMMA AfterType ==
  ASSUME worker.read.spec.images \subseteq Scanners,
         NEW pc \in Scanners \cup {"namespace", "settings", "account", "binding"}
  PROVE  /\ After(pc) \in PCs
         /\ pc = "namespace" => After(pc) = "settings"
         /\ pc = "settings" => After(pc) = "account"
         /\ pc = "account" => After(pc) = "binding"
<1>1. CASE pc \in Scanners
  <2>1. Rank[pc] \in Nat BY <1>1 DEF Rank, Scanners, CronJobTypes, DaemonSetTypes
  <2>2. After(pc) = NamedAfter(Rank[pc])
    BY <1>1 DEF After, Scanners, CronJobTypes, DaemonSetTypes
  <2>3. NamedAfter(Rank[pc]) \in PCs BY <2>1, NamedAfterType
  <2> QED BY <1>1, <2>2, <2>3 DEF Scanners, CronJobTypes, DaemonSetTypes
<1>2. CASE pc \in {"namespace", "settings", "account"} BY <1>2 DEF After, PCs
<1>3. CASE pc = "binding" BY <1>3, NamedAfterType DEF After
<1> QED BY <1>1, <1>2, <1>3

\* What is put on the API server.
LEMMA PutFacts ==
  ASSUME objects \in Store, NEW value
  PROVE  /\ Put("policy", value) =>
              /\ objects'.policy = value
              /\ /\ objects'.ns = objects.ns /\ objects'.sa = objects.sa
                 /\ objects'.crb = objects.crb /\ objects'.cj = objects.cj /\ objects'.ds = objects.ds
              /\ value \in [Policies -> Policy \cup {None}] => objects' \in Store
         /\ Put("ns", value) =>
              /\ objects'.ns = value
              /\ /\ objects'.policy = objects.policy /\ objects'.sa = objects.sa
                 /\ objects'.crb = objects.crb /\ objects'.cj = objects.cj /\ objects'.ds = objects.ds
              /\ value \in [Spaces -> Policies \cup {None, "user"}] => objects' \in Store
         /\ Put("sa", value) =>
              /\ objects'.sa = value
              /\ /\ objects'.policy = objects.policy /\ objects'.ns = objects.ns
                 /\ objects'.crb = objects.crb /\ objects'.cj = objects.cj /\ objects'.ds = objects.ds
              /\ value \in SUBSET Spaces => objects' \in Store
         /\ Put("crb", value) =>
              /\ objects'.crb = value
              /\ /\ objects'.policy = objects.policy /\ objects'.ns = objects.ns
                 /\ objects'.sa = objects.sa /\ objects'.cj = objects.cj /\ objects'.ds = objects.ds
              /\ value \in Spaces \cup {None} => objects' \in Store
         /\ Put("cj", value) =>
              /\ objects'.cj = value
              /\ /\ objects'.policy = objects.policy /\ objects'.ns = objects.ns
                 /\ objects'.sa = objects.sa /\ objects'.crb = objects.crb /\ objects'.ds = objects.ds
              /\ value \in SUBSET CronJob => objects' \in Store
         /\ Put("ds", value) =>
              /\ objects'.ds = value
              /\ /\ objects'.policy = objects.policy /\ objects'.ns = objects.ns
                 /\ objects'.sa = objects.sa /\ objects'.crb = objects.crb /\ objects'.cj = objects.cj
              /\ value \in SUBSET DaemonSet => objects' \in Store
<1> DEFINE P == [Policies -> Policy \cup {None}]
           N == [Spaces -> Policies \cup {None, "user"}]
           D == SUBSET DaemonSet
<1>1. Store = [policy : P, ns : N, sa : SUBSET Spaces, crb : Spaces \cup {None},
               cj : SUBSET CronJob, ds : D]
  BY DEF Store
<1> HIDE DEF P, N, D
<1>2. objects \in [policy : P, ns : N, sa : SUBSET Spaces, crb : Spaces \cup {None},
               cj : SUBSET CronJob, ds : D]
  BY <1>1
<1> QED BY <1>1, <1>2 DEF Put, P, N, D

----------------------------------------------------------------------------
(* What a step does to the worker. *)

\* It takes a policy; it goes on with the one it has.
Took(p) ==
  /\ cached.policy[p] # None
  /\ worker' = [Idle EXCEPT !.pc = "namespace", !.job = p, !.read = cached.policy[p],
                            !.executor = cached.policy[p].executor]
  /\ UNCHANGED <<objects, cached, names>>

Moved(pc, executor, need, err, new) ==
  /\ Busy
  /\ worker' = [pc |-> pc, job |-> worker.job, read |-> worker.read, executor |-> executor,
                need |-> need, err |-> err, new |-> new]

\* The API server's part that an action of the worker may change keeps its type.
LEMMA WorkerFacts ==
  ASSUME Typed
  PROVE  /\ worker = [pc |-> worker.pc, job |-> worker.job, read |-> worker.read,
                      executor |-> worker.executor, need |-> worker.need,
                      err |-> worker.err, new |-> worker.new]
         /\ worker.pc \in PCs /\ worker.executor \in Nat /\ worker.new \in Nat
         /\ worker.need \in BOOLEAN /\ worker.err \in BOOLEAN
         /\ Busy => /\ worker.job \in Policies /\ Space \in Spaces
                    /\ worker.read.spec.images \subseteq Scanners
                    /\ worker.read.spec.suspend \in BOOLEAN
                    /\ worker.read \in Policy /\ worker.read # None
<1>1. worker \in Worker BY DEF Typed
<1>2. ASSUME Busy
      PROVE  /\ worker.job \in Policies /\ Space \in Spaces
             /\ worker.read.spec.images \subseteq Scanners
             /\ worker.read.spec.suspend \in BOOLEAN
             /\ worker.read \in Policy /\ worker.read # None
  <2>1. worker.job \in Policies /\ worker.read \in Policy /\ worker.read # None
    BY <1>2 DEF Typed
  <2>2. worker.read.spec \in Specs BY <2>1 DEF Policy
  <2>3. worker.read.spec \in [images : SUBSET Scanners, suspend : BOOLEAN]
    BY <2>2, ConstantsAssumption
  <2>4. worker.read.space \in Spaces BY <2>1 DEF Policy
  <2> QED BY <2>1, <2>3, <2>4 DEF Space
<1> QED BY <1>1, <1>2 DEF Worker

\* Advance, with the objects changed or not.
LEMMA AdvanceFacts ==
  ASSUME Typed, Advance, worker.pc \in {"namespace", "settings", "account", "binding"}
  PROVE  /\ Moved(After(worker.pc), worker.executor, worker.need, worker.err, worker.new)
         /\ After(worker.pc) \in PCs
<1>1. worker' = [worker EXCEPT !.pc = After(worker.pc)] BY DEF Advance
<1>2. Busy BY DEF Busy
<1>3. After(worker.pc) \in PCs BY <1>2, WorkerFacts, AfterType
<1>4. [worker EXCEPT !.pc = After(worker.pc)] =
        [pc |-> After(worker.pc), job |-> worker.job, read |-> worker.read,
         executor |-> worker.executor, need |-> worker.need, err |-> worker.err,
         new |-> worker.new]
  BY WorkerFacts
<1> QED BY <1>1, <1>2, <1>3, <1>4 DEF Moved

\* The worker goes on, for a scanner.
LEMMA NextScannerFacts ==
  ASSUME Typed, NEW e \in BOOLEAN, NextScanner(e), worker.pc \in Scanners
  PROVE  \E err \in BOOLEAN :
           Moved(After(worker.pc), worker.executor, worker.need, err, 0)
<1> DEFINE err == e /\ Type = "Workload"
<1>1. err \in BOOLEAN OBVIOUS
<1>2. Busy BY DEF Busy, Scanners, CronJobTypes, DaemonSetTypes
<1>3. worker' = [worker EXCEPT !.pc = After(worker.pc), !.err = err, !.new = 0]
  BY DEF NextScanner, Type
<1> HIDE DEF err
<1>4. worker' = [pc |-> After(worker.pc), job |-> worker.job, read |-> worker.read,
         executor |-> worker.executor, need |-> worker.need, err |-> err, new |-> 0]
  BY <1>3, WorkerFacts
<1> QED BY <1>1, <1>2, <1>4 DEF Moved

LEMMA SettleFacts ==
  ASSUME Typed, NEW c \in CronJob, NEW e \in BOOLEAN, Settle(c, e), worker.pc \in Scanners
  PROVE  \E need \in BOOLEAN :
           Moved(After(worker.pc), IF worker.executor = 0 THEN c.name ELSE worker.executor,
                 need, FALSE, 0)
<1> DEFINE need == worker.need \/ (e /\ c.suspend # worker.read.spec.suspend)
                     \/ worker.executor = 0
           executor == IF worker.executor = 0 THEN c.name ELSE worker.executor
<1>1. need \in BOOLEAN OBVIOUS
<1>2. Busy BY DEF Busy, Scanners, CronJobTypes, DaemonSetTypes
<1>3. worker' = [worker EXCEPT !.pc = After(worker.pc), !.err = FALSE, !.new = 0,
                               !.need = need, !.executor = executor]
  <2>1. worker' = [worker EXCEPT !.pc = After(Type), !.err = FALSE, !.new = 0,
          !.need = @ \/ (e /\ c.suspend # worker.read.spec.suspend) \/ worker.executor = 0,
          !.executor = IF @ = 0 THEN c.name ELSE @]
    BY DEF Settle
  <2> QED BY <2>1, WorkerFacts DEF Type
<1> HIDE DEF need, executor
<1>4. worker' = [pc |-> After(worker.pc), job |-> worker.job, read |-> worker.read,
         executor |-> executor, need |-> need, err |-> FALSE, new |-> 0]
  BY <1>3, WorkerFacts
<1> QED BY <1>1, <1>2, <1>4 DEF Moved, executor

\* A worker that moves, takes a policy or puts it down has its types.
LEMMA MovedType ==
  ASSUME Typed, NEW pc \in PCs, NEW executor \in Nat, NEW need \in BOOLEAN,
         NEW err \in BOOLEAN, NEW new \in Nat, Moved(pc, executor, need, err, new)
  PROVE  worker' \in Worker
         /\ (Busy' => worker'.job \in Policies /\ worker'.read \in Policy /\ worker'.read # None)
  BY WorkerFacts DEF Moved, Worker, Busy, Typed

LEMMA IdleType ==
  ASSUME worker' = Idle
  PROVE  worker' \in Worker /\ ~Busy' /\ worker'.job = None
  BY DEF Idle, Worker, Busy, PCs

LEMMA TookType ==
  ASSUME Typed, NEW p \in Policies, Took(p)
  PROVE  /\ worker' \in Worker
         /\ worker'.job \in Policies /\ worker'.read \in Policy /\ worker'.read # None
         /\ worker'.pc = "namespace" /\ worker'.job = p /\ worker'.read = cached.policy[p]
         /\ worker'.executor = cached.policy[p].executor /\ worker'.new = 0
<1> DEFINE r == cached.policy[p]
<1>1. r \in Policy /\ r # None BY DEF Typed, Took, Store
<1>2. r.executor \in Nat BY <1>1 DEF Policy
<1>3. worker' = [pc |-> "namespace", job |-> p, read |-> r, executor |-> r.executor,
                 need |-> FALSE, err |-> FALSE, new |-> 0]
  BY DEF Took, Idle
<1> QED BY <1>1, <1>2, <1>3 DEF Worker, PCs

----------------------------------------------------------------------------
(* What each action of the worker does. *)

\* An event is counted, and a run that was calm is not calm afterwards for it.
LEMMA HappensFacts ==
  ASSUME Typed, UNCHANGED happened \/ \E kind \in EventKinds : Happens(kind)
  PROVE  /\ happened' \in [EventKinds -> Nat]
         /\ Calm' => Calm /\ ~Happens("stale") /\ ~Happens("deletion")
<1>1. happened \in [EventKinds -> Nat] /\ {"stale", "deletion"} \subseteq EventKinds
  BY DEF Typed, EventKinds
<1>2. CASE UNCHANGED happened
  <2>1. ASSUME NEW kind \in {"stale", "deletion"}, Happens(kind) PROVE FALSE
    <3>1. happened' = [happened EXCEPT ![kind] = @ + 1] BY <2>1 DEF Happens
    <3>2. happened'[kind] = happened[kind] + 1 /\ happened[kind] \in Nat BY <1>1, <3>1
    <3> QED BY <1>2, <3>2
  <2> QED BY <1>1, <1>2, <2>1 DEF Calm
<1>3. ASSUME NEW kind \in EventKinds, Happens(kind)
      PROVE  /\ happened' \in [EventKinds -> Nat]
             /\ Calm' => Calm /\ kind \notin {"stale", "deletion"}
  <2>1. happened' = [happened EXCEPT ![kind] = @ + 1] BY <1>3 DEF Happens
  <2>2. \A k \in EventKinds : happened'[k] = IF k = kind THEN happened[k] + 1 ELSE happened[k]
    BY <1>1, <2>1
  <2>3. \A k \in EventKinds : happened[k] \in Nat BY <1>1
  <2>4. happened' \in [EventKinds -> Nat] BY <1>1, <2>1, <2>3
  <2> QED BY <1>1, <2>2, <2>3, <2>4 DEF Calm
<1> QED BY <1>1, <1>2, <1>3

\* Changes of a work namespace are only ever added to.
LEMMA MoveFacts ==
  ASSUME Typed, UNCHANGED happened \/ \E kind \in EventKinds : Happens(kind)
  PROVE  /\ happened["move"] \in Nat /\ happened'["move"] \in Nat
         /\ happened'["move"] >= happened["move"]
         /\ Happens("move") => happened'["move"] = happened["move"] + 1
<1>1. happened \in [EventKinds -> Nat] /\ "move" \in EventKinds BY DEF Typed, EventKinds
<1>2. happened["move"] \in Nat BY <1>1
<1>3. CASE UNCHANGED happened
  <2>1. ~Happens("move")
    <3>1. Happens("move") => happened'["move"] = happened["move"] + 1 BY <1>1 DEF Happens
    <3> QED BY <1>2, <1>3, <3>1
  <2> QED BY <1>2, <1>3, <2>1
<1>4. ASSUME NEW kind \in EventKinds, Happens(kind)
      PROVE  /\ happened'["move"] \in {happened["move"], happened["move"] + 1}
             /\ Happens("move") => happened'["move"] = happened["move"] + 1
  BY <1>1, <1>4 DEF Happens
<1> QED BY <1>2, <1>3, <1>4

\* The worker makes the namespace, and goes on, or it stops.
LEMMA NamespaceFacts ==
  ASSUME Typed, EnsureWorkNamespace
  PROVE  /\ worker.pc = "namespace" /\ UNCHANGED <<cached, names>>
         /\ \/ objects' = objects
            \/ ~HasSpace /\ Put("ns", [objects.ns EXCEPT ![Space] = worker.job])
         /\ \/ worker' = Idle
            \/ Moved("settings", worker.executor, worker.need, worker.err, worker.new)
         /\ UNCHANGED happened \/ \E kind \in EventKinds : Happens(kind)
<1>1. worker.pc = "namespace" BY DEF EnsureWorkNamespace
<1>2. worker' = Idle \/ Advance BY DEF EnsureWorkNamespace, Requeue
<1>3. After("namespace") = "settings" BY DEF After
<1>4. Advance => Moved("settings", worker.executor, worker.need, worker.err, worker.new)
  BY <1>1, <1>3, AdvanceFacts
<1> QED BY <1>1, <1>2, <1>4 DEF EnsureWorkNamespace, Fault, EventKinds

LEMMA SettingsFacts ==
  ASSUME Typed, EnsureSettings
  PROVE  /\ worker.pc = "settings" /\ UNCHANGED <<objects, cached, names>>
         /\ \/ worker' = Idle
            \/ Moved("account", worker.executor, worker.need, worker.err, worker.new)
         /\ UNCHANGED happened \/ \E kind \in EventKinds : Happens(kind)
<1>1. worker.pc = "settings" BY DEF EnsureSettings
<1>2. worker' = Idle \/ Advance BY DEF EnsureSettings, Requeue
<1>3. After("settings") = "account" BY DEF After
<1>4. Advance => Moved("account", worker.executor, worker.need, worker.err, worker.new)
  BY <1>1, <1>3, AdvanceFacts
<1> QED BY <1>1, <1>2, <1>4 DEF EnsureSettings, Fault, EventKinds

\* It does not go on without a service account that the API server or the cache has.
LEMMA AccountFacts ==
  ASSUME Typed, EnsureServiceAccount
  PROVE  /\ worker.pc = "account" /\ UNCHANGED <<cached, names>>
         /\ objects' = objects \/ Put("sa", objects.sa \cup {Space})
         /\ \/ worker' = Idle
            \/ /\ Moved("binding", worker.executor, worker.need, worker.err, worker.new)
               /\ Space \in cached.sa \/ Put("sa", objects.sa \cup {Space})
         /\ UNCHANGED happened \/ \E kind \in EventKinds : Happens(kind)
<1>1. worker.pc = "account" BY DEF EnsureServiceAccount
<1>2. worker' = Idle \/ (Advance /\ (Space \in cached.sa \/ Put("sa", objects.sa \cup {Space})))
  BY DEF EnsureServiceAccount, Requeue
<1>3. After("account") = "binding" BY DEF After
<1>4. Advance => Moved("binding", worker.executor, worker.need, worker.err, worker.new)
  BY <1>1, <1>3, AdvanceFacts
<1> QED BY <1>1, <1>2, <1>4 DEF EnsureServiceAccount, Fault, EventKinds

LEMMA BindingFacts ==
  ASSUME Typed, EnsureRoleBinding
  PROVE  /\ worker.pc = "binding" /\ UNCHANGED <<cached, names>>
         /\ objects' = objects \/ Put("crb", Space)
         /\ \/ worker' = Idle
            \/ /\ \E pc \in PCs :
                    Moved(pc, worker.executor, worker.need, worker.err, worker.new)
               /\ cached.crb = Space \/ Put("crb", Space)
         /\ UNCHANGED happened \/ \E kind \in EventKinds : Happens(kind)
<1>1. worker.pc = "binding" BY DEF EnsureRoleBinding
<1>2. worker' = Idle \/ (Advance /\ (cached.crb = Space \/ Put("crb", Space)))
  BY DEF EnsureRoleBinding, Requeue
<1>3. Advance => \E pc \in PCs :
        Moved(pc, worker.executor, worker.need, worker.err, worker.new)
  BY <1>1, AdvanceFacts
<1> QED BY <1>1, <1>2, <1>3 DEF EnsureRoleBinding, Fault, EventKinds

\* checkCronJob: one that the cache has is settled on; otherwise one may be made, which the
\* worker retrieves next or, its reply lost, does not know.
LEMMA CheckFacts ==
  ASSUME Typed, CheckCronJob
  PROVE  /\ worker.pc \in CronJobTypes /\ UNCHANGED cached
         /\ \/ /\ UNCHANGED <<objects, names>>
               /\ cached.cj = objects.cj \/ Happens("stale")
               /\ \E c \in Found, need \in BOOLEAN, pc \in PCs :
                    Moved(pc, IF worker.executor = 0 THEN c.name ELSE worker.executor,
                          need, FALSE, 0)
            \/ /\ AddCronJob /\ Found = {}
               /\ cached.cj = objects.cj \/ Happens("stale")
               /\ Moved(worker.pc, worker.executor, worker.need, worker.err, names + 1)
            \/ /\ UNCHANGED <<objects, names>> \/ (AddCronJob /\ Found = {} /\ cached.cj = objects.cj)
               /\ \E err \in BOOLEAN, pc \in PCs :
                    Moved(pc, worker.executor, worker.need, err, 0)
         /\ UNCHANGED happened \/ \E kind \in EventKinds : Happens(kind)
<1>1. worker.pc \in CronJobTypes /\ worker.pc \in Scanners BY DEF CheckCronJob, Type, Scanners
<1>2. Busy /\ After(worker.pc) \in PCs
  <2>1. Busy BY <1>1 DEF Busy, CronJobTypes
  <2> QED BY <1>1, <2>1, WorkerFacts, AfterType
<1>3. UNCHANGED cached /\ (UNCHANGED happened \/ \E kind \in EventKinds : Happens(kind))
  BY DEF CheckCronJob, ReadCronJobs, Fault, EventKinds
<1>4. CASE ReadCronJobs /\ (\E c \in Found : Settle(c, TRUE)) /\ UNCHANGED <<objects, names>>
  <2>1. PICK c \in Found : Settle(c, TRUE) BY <1>4
  <2>2. c \in CronJob BY DEF Found, Typed, Store
  <2> HIDE DEF Found
  <2>3. \E need \in BOOLEAN, pc \in PCs :
          Moved(pc, IF worker.executor = 0 THEN c.name ELSE worker.executor, need, FALSE, 0)
    BY <1>1, <1>2, <2>1, <2>2, SettleFacts
  <2> QED BY <1>1, <1>3, <1>4, <2>3 DEF ReadCronJobs
<1>5. CASE ReadCronJobs /\ Found = {} /\ HasSpace /\ AddCronJob
           /\ worker' = [worker EXCEPT !.new = names + 1]
  <2>1. Moved(worker.pc, worker.executor, worker.need, worker.err, names + 1)
    BY <1>2, <1>5, WorkerFacts DEF Moved
  <2> QED BY <1>1, <1>3, <1>5, <2>1 DEF ReadCronJobs
<1>6. CASE NextScanner(TRUE) /\ (\/ UNCHANGED <<objects, names>>
                                 \/ cached.cj = objects.cj /\ Found = {} /\ AddCronJob)
  <2>1. \E err \in BOOLEAN, pc \in PCs :
                    Moved(pc, worker.executor, worker.need, err, 0)
    BY <1>1, <1>2, <1>6, NextScannerFacts
  <2> QED BY <1>1, <1>3, <1>6, <2>1
<1> QED BY <1>4, <1>5, <1>6 DEF CheckCronJob

LEMMA RetrieveFacts ==
  ASSUME Typed, RetrieveCronJob
  PROVE  /\ worker.pc \in CronJobTypes /\ UNCHANGED <<objects, cached, names>>
         /\ \E executor \in {worker.executor, worker.new}, need, err \in BOOLEAN, pc \in PCs :
              Moved(pc, executor, need, err, 0)
         /\ UNCHANGED happened \/ \E kind \in EventKinds : Happens(kind)
<1>1. worker.pc \in CronJobTypes /\ worker.pc \in Scanners BY DEF RetrieveCronJob, Type, Scanners
<1>2. Busy /\ After(worker.pc) \in PCs
  <2>1. Busy BY <1>1 DEF Busy, CronJobTypes
  <2> QED BY <1>1, <2>1, WorkerFacts, AfterType
<1>3. /\ UNCHANGED <<objects, cached, names>>
      /\ UNCHANGED happened \/ \E kind \in EventKinds : Happens(kind)
  BY DEF RetrieveCronJob, Fault, EventKinds
<1>4. ASSUME NEW c \in cached.cj, c.name = worker.new, Settle(c, FALSE)
      PROVE \E executor \in {worker.executor, worker.new}, need, err \in BOOLEAN, pc \in PCs :
              Moved(pc, executor, need, err, 0)
  <2>1. c \in CronJob BY DEF Typed, Store
  <2>2. \E need \in BOOLEAN :
          Moved(After(worker.pc), IF worker.executor = 0 THEN c.name ELSE worker.executor, need, FALSE, 0)
    BY <1>1, <1>4, <2>1, SettleFacts
  <2> QED BY <1>2, <1>4, <2>2
<1>5. CASE NextScanner(TRUE)
  <2>1. \E err \in BOOLEAN : Moved(After(worker.pc), worker.executor, worker.need, err, 0)
    BY <1>1, <1>5, NextScannerFacts
  <2> QED BY <1>1, <1>2, <1>3, <2>1, WorkerFacts
<1>6. NextScanner(TRUE) \/ \E c \in cached.cj : c.name = worker.new /\ Settle(c, FALSE)
  BY DEF RetrieveCronJob
<1> QED BY <1>1, <1>3, <1>4, <1>5, <1>6

LEMMA DaemonSetFacts ==
  ASSUME Typed, CheckKubebench \/ CheckPkgLoad
  PROVE  /\ worker.pc \in DaemonSetTypes /\ UNCHANGED <<cached, names>>
         /\ objects' = objects \/ AddDaemonSet
         /\ \E need, err \in BOOLEAN, new \in {0, worker.new}, pc \in PCs :
              Moved(pc, worker.executor, need, err, new)
         /\ UNCHANGED happened \/ \E kind \in EventKinds : Happens(kind)
<1>1. worker.pc \in DaemonSetTypes /\ worker.pc \in Scanners /\ EnsureDaemonSet
  BY DEF CheckKubebench, CheckPkgLoad, Type, Scanners, DaemonSetTypes
<1>2. Busy /\ After(worker.pc) \in PCs
  <2>1. Busy BY <1>1 DEF Busy, DaemonSetTypes
  <2> QED BY <1>1, <2>1, WorkerFacts, AfterType
<1>3. /\ UNCHANGED <<cached, names>> /\ (objects' = objects \/ AddDaemonSet)
      /\ UNCHANGED happened \/ \E kind \in EventKinds : Happens(kind)
      /\ NextScanner(FALSE) \/ worker' = [worker EXCEPT !.pc = After(worker.pc), !.need = TRUE]
  BY <1>1 DEF EnsureDaemonSet, Fault, EventKinds, Type
<1>4. CASE NextScanner(FALSE)
  <2>1. \E err \in BOOLEAN : Moved(After(worker.pc), worker.executor, worker.need, err, 0)
    BY <1>1, <1>4, NextScannerFacts
  <2> QED BY <1>1, <1>2, <1>3, <2>1, WorkerFacts
<1>5. CASE worker' = [worker EXCEPT !.pc = After(worker.pc), !.need = TRUE]
  <2>1. Moved(After(worker.pc), worker.executor, TRUE, worker.err, worker.new)
    BY <1>2, <1>5, WorkerFacts DEF Moved
  <2> QED BY <1>1, <1>2, <1>3, <2>1, WorkerFacts
<1> QED BY <1>3, <1>4, <1>5

\* The status is written only over the policy the worker read.
LEMMA StatusFacts ==
  ASSUME Typed, UpdateStatus
  PROVE  /\ worker' = Idle /\ Busy /\ UNCHANGED <<cached, names>>
         /\ \/ objects' = objects
            \/ /\ objects.policy[worker.job] = worker.read
               /\ \E text \in {"", "Standby", "Suspend"} :
                    Put("policy", [objects.policy EXCEPT ![worker.job] =
                        [worker.read EXCEPT !.text = text, !.executor = worker.executor]])
         /\ UNCHANGED happened \/ \E kind \in EventKinds : Happens(kind)
<1>1. StatusText(worker.read.spec) \in {"", "Standby", "Suspend"} BY DEF StatusText
<1>2. worker' = Idle /\ Busy /\ UNCHANGED <<cached, names>> BY DEF UpdateStatus, Requeue, Busy
<1> QED BY <1>1, <1>2 DEF UpdateStatus, Fault, EventKinds

\* Taking a policy.
LEMMA StartFacts ==
  ASSUME Typed, NEW p \in Policies, Start(p)
  PROVE  /\ UNCHANGED <<objects, cached, names>>
         /\ worker' = worker \/ worker' = Idle \/ Took(p)
         /\ UNCHANGED happened \/ \E kind \in EventKinds : Happens(kind)
  BY DEF Start, Took, Fault, EventKinds

----------------------------------------------------------------------------
(* What happens around the worker. *)

\* Part of the cache is brought up to date.
LEMMA SyncFacts ==
  ASSUME Typed, NEW kind \in Kinds, Sync(kind)
  PROVE  /\ UNCHANGED <<objects, worker, names, happened>> /\ cached' \in Store
         /\ cached'.policy \in {cached.policy, objects.policy}
         /\ cached'.sa \in {cached.sa, objects.sa}
         /\ cached'.crb \in {cached.crb, objects.crb}
<1> DEFINE P == [Policies -> Policy \cup {None}]
           N == [Spaces -> Policies \cup {None, "user"}]
           D == SUBSET DaemonSet
           S == [policy : P, ns : N, sa : SUBSET Spaces, crb : Spaces \cup {None},
                 cj : SUBSET CronJob, ds : D]
<1>1. objects \in S /\ cached \in S BY DEF Typed, Store
<1> HIDE DEF P, N, D
<1>2. cached' = [cached EXCEPT ![kind] = objects[kind]] BY DEF Sync
<1>3. kind \in {"policy", "ns", "sa", "crb", "cj", "ds"} BY DEF Kinds
<1>4. cached' \in S BY <1>1, <1>2, <1>3
<1>5. /\ cached'.policy \in {cached.policy, objects.policy}
      /\ cached'.sa \in {cached.sa, objects.sa}
      /\ cached'.crb \in {cached.crb, objects.crb}
  BY <1>1, <1>2, <1>3
<1> QED BY <1>4, <1>5 DEF Sync, Store, P, N, D

\* The garbage that is collected is not a policy's that exists.
LEMMA GarbageFacts ==
  ASSUME Typed, CollectGarbage
  PROVE  /\ UNCHANGED <<cached, worker, names, happened>> /\ objects' \in Store
         /\ objects'.policy = objects.policy /\ objects'.crb = objects.crb
         /\ objects'.cj \subseteq objects.cj /\ objects'.ds \subseteq objects.ds
         /\ \A n \in Spaces : objects'.ns[n] \in {None, objects.ns[n]}
         /\ Owned => \A p \in Policies : Exists(p) =>
              /\ \A n \in WorkNamespaces[p] : n \in objects.sa => n \in objects'.sa
              /\ \A c \in objects.cj : c.owner = p => c \in objects'.cj
<1> DEFINE Live(p) == p = "user" \/ objects.policy[p] # None
           gone == {n \in Spaces : objects.ns[n] # None /\ ~Live(objects.ns[n])}
           Stays(o) == Live(o.owner) /\ o.space \notin gone
           cj == {c \in objects.cj : Stays(c)}
           ds == {d \in objects.ds : Stays(d)}
           sa == objects.sa \ gone
           ns == [n \in Spaces |-> IF n \in gone THEN None ELSE objects.ns[n]]
           P == [Policies -> Policy \cup {None}]
           N == [Spaces -> Policies \cup {None, "user"}]
           D == SUBSET DaemonSet
           S == [policy : P, ns : N, sa : SUBSET Spaces, crb : Spaces \cup {None},
                 cj : SUBSET CronJob, ds : D]
<1>1. objects \in S BY DEF Typed, Store
<1>2. objects' = [objects EXCEPT !.cj = cj, !.ds = ds, !.sa = sa, !.ns = ns]
  <2>1. objects' = [objects EXCEPT !.cj = {c \in @ : Stays(c)},
                              !.ds = {d \in @ : Stays(d)},
                              !.sa = @ \ gone,
                              !.ns = [n \in Spaces |-> IF n \in gone THEN None ELSE @[n]]]
    BY DEF CollectGarbage
  <2> HIDE DEF gone, Stays
  <2> QED BY <1>1, <2>1
<1>3. cj \in SUBSET CronJob /\ sa \in SUBSET Spaces /\ cj \subseteq objects.cj BY <1>1
<1>4. ds \in D /\ ds \subseteq objects.ds BY <1>1
<1>5. ns \in N /\ \A n \in Spaces : ns[n] \in {None, objects.ns[n]} BY <1>1
<1>6. ASSUME Owned, NEW p \in Policies, Exists(p)
      PROVE  /\ \A n \in WorkNamespaces[p] : n \in objects.sa => n \in sa
             /\ \A c \in objects.cj : c.owner = p => c \in cj
  <2>1. \A n \in WorkNamespaces[p] : objects.ns[n] \in {None, "user", p} BY <1>6 DEF Owned
  <2>2. \A n \in WorkNamespaces[p] : n \notin gone BY <1>6, <2>1 DEF Exists
  <2>3. \A c \in objects.cj : c.owner = p => c.space \in WorkNamespaces[p]
    BY <1>6 DEF Owned
  <2> HIDE DEF gone
  <2>4. \A c \in objects.cj : c.owner = p => Stays(c) BY <1>6, <2>2, <2>3 DEF Exists
  <2> HIDE DEF Stays
  <2> QED BY <2>2, <2>4
<1> HIDE DEF cj, ds, sa, ns, P, N, D
<1>7. objects' \in S BY <1>1, <1>2, <1>3, <1>4, <1>5
<1>8. /\ objects'.policy = objects.policy /\ objects'.crb = objects.crb
      /\ objects'.cj = cj /\ objects'.ds = ds /\ objects'.sa = sa /\ objects'.ns = ns
  BY <1>1, <1>2
<1>9. UNCHANGED <<cached, worker, names, happened>> BY DEF CollectGarbage
<1>10. objects' \in Store BY <1>7 DEF Store, P, N, D
<1> QED BY <1>3, <1>4, <1>5, <1>6, <1>8, <1>9, <1>10

\* A user edits or deletes a policy.
LEMMA UserFacts ==
  ASSUME Typed, NEW p \in Policies, Edit(p) \/ Delete(p)
  PROVE  /\ UNCHANGED <<cached, worker, names>> /\ Exists(p)
         /\ \E policy \in [Policies -> Policy \cup {None}] :
              /\ Put("policy", policy)
              /\ \A q \in Policies : q # p => policy[q] = objects.policy[q]
              /\ \/ policy[p] = None
                 \/ /\ policy[p].executor = objects.policy[p].executor
                    /\ policy[p].space \in WorkNamespaces[p]
                    /\ policy[p].space = objects.policy[p].space \/ Happens("move")
         /\ \E kind \in EventKinds : Happens(kind)
<1>1. objects.policy \in [Policies -> Policy \cup {None}] BY DEF Typed, Store
<1>2. UNCHANGED <<cached, worker, names>> /\ Exists(p) /\ \E kind \in EventKinds : Happens(kind)
  BY DEF Edit, Delete, Exists, EventKinds
<1>3. CASE Delete(p)
  <2>1. Put("policy", [objects.policy EXCEPT ![p] = None]) BY <1>3 DEF Delete
  <2> QED BY <1>1, <1>2, <2>1
<1>4. CASE Edit(p)
  <2>1. PICK spec \in Specs, space \in WorkNamespaces[p] :
          /\ space = objects.policy[p].space \/ Happens("move")
          /\ Put("policy", [objects.policy EXCEPT ![p].spec = spec, ![p].space = space,
                                                 ![p].generation = @ + 1])
    BY <1>4 DEF Edit
  <2> DEFINE old == objects.policy[p]
             next == old.generation + 1
             new == [old EXCEPT !.spec = spec, !.space = space, !.generation = next]
  <2>2. old \in Policy BY <1>1, <1>2 DEF Exists
  <2>3. next \in Nat
    <3> HIDE DEF old
    <3>1. old.generation \in Nat BY <2>2 DEF Policy
    <3> QED BY <3>1
  <2>4. [objects.policy EXCEPT ![p].spec = spec, ![p].space = space, ![p].generation = @ + 1]
          = [objects.policy EXCEPT ![p] = new]
    BY <1>1, <2>2 DEF Policy
  <2>5. new \in Policy /\ new.executor = objects.policy[p].executor /\ new.space = space
    <3> HIDE DEF next
    <3>1. old \in Policy /\ next \in Nat /\ space \in Spaces BY <2>2, <2>3 DEF Spaces
    <3>2. old.executor = objects.policy[p].executor OBVIOUS
    <3> HIDE DEF old
    <3> QED BY <3>1, <3>2 DEF Policy
  <2> HIDE DEF new
  <2> QED BY <1>1, <1>2, <2>1, <2>4, <2>5
<1> QED BY <1>3, <1>4

----------------------------------------------------------------------------
(* What a step does to the objects, and that it takes nothing from a policy *)
(* that exists.                                                            *)

WriteStatus ==
  /\ objects.policy[worker.job] = worker.read
  /\ \E text \in {"", "Standby", "Suspend"} :
       Put("policy", [objects.policy EXCEPT ![worker.job] =
                       [worker.read EXCEPT !.text = text, !.executor = worker.executor]])

Change ==
  \/ objects' = objects
  \/ Busy /\ Put("ns", [objects.ns EXCEPT ![Space] = worker.job])
  \/ Busy /\ Put("sa", objects.sa \cup {Space})
  \/ worker.pc = "binding" /\ Put("crb", Space)
  \/ /\ worker.pc \in CronJobTypes /\ AddCronJob /\ Found = {}
     /\ Calm' => cached.cj = objects.cj
  \/ worker.pc \in DaemonSetTypes /\ AddDaemonSet
  \/ Busy /\ WriteStatus
  \/ \E p \in Policies : Edit(p) \/ Delete(p)
  \/ ~Calm' /\ \E c \in objects.cj : Put("cj", objects.cj \ {c})
  \/ CollectGarbage

\* Every step counts its event, makes one of these changes, and gives a name or none.
LEMMA StepFacts ==
  ASSUME Typed, [Next]_vars
  PROVE  /\ Change /\ (UNCHANGED names \/ AddCronJob)
         /\ happened' \in [EventKinds -> Nat] /\ (Calm' => Calm)
         /\ UNCHANGED happened \/ \E kind \in EventKinds : Happens(kind)
<1>1. CASE EnsureWorkNamespace BY <1>1, NamespaceFacts, HappensFacts DEF Change, Busy
<1>2. CASE EnsureSettings BY <1>2, SettingsFacts, HappensFacts DEF Change
<1>3. CASE EnsureServiceAccount BY <1>3, AccountFacts, HappensFacts DEF Change, Busy
<1>4. CASE EnsureRoleBinding BY <1>4, BindingFacts, HappensFacts DEF Change, Busy
<1>5. CASE CheckCronJob BY <1>5, CheckFacts, HappensFacts DEF Change
<1>6. CASE RetrieveCronJob BY <1>6, RetrieveFacts, HappensFacts DEF Change
<1>7. CASE CheckKubebench \/ CheckPkgLoad BY <1>7, DaemonSetFacts, HappensFacts DEF Change
<1>8. CASE UpdateStatus BY <1>8, StatusFacts, HappensFacts DEF Change, WriteStatus
<1>9. ASSUME NEW p \in Policies, Start(p)
      PROVE  /\ Change /\ (UNCHANGED names \/ AddCronJob)
             /\ happened' \in [EventKinds -> Nat] /\ (Calm' => Calm)
             /\ UNCHANGED happened \/ \E kind \in EventKinds : Happens(kind)
  BY <1>9, StartFacts, HappensFacts DEF Change
<1>10. ASSUME NEW k \in Kinds, Sync(k)
      PROVE  /\ Change /\ (UNCHANGED names \/ AddCronJob)
             /\ happened' \in [EventKinds -> Nat] /\ (Calm' => Calm)
             /\ UNCHANGED happened \/ \E kind \in EventKinds : Happens(kind)
  BY <1>10, SyncFacts, HappensFacts DEF Change
<1>11. CASE Resync \/ FixSetting \/ UNCHANGED vars
  BY <1>11, HappensFacts DEF Resync, FixSetting, vars, Change
<1>12. CASE Crash
  <2>1. UNCHANGED <<objects, names>> /\ \E kind \in EventKinds : Happens(kind)
    BY <1>12 DEF Crash, Fault, EventKinds
  <2> QED BY <2>1, HappensFacts DEF Change
<1>13. CASE CollectGarbage BY <1>13, GarbageFacts, HappensFacts DEF Change
<1>14. CASE DeleteCronJob
  <2>1. Happens("deletion") /\ UNCHANGED names /\ \E c \in objects.cj : Put("cj", objects.cj \ {c})
    BY <1>14 DEF DeleteCronJob
  <2>2. "deletion" \in EventKinds BY DEF EventKinds
  <2>3. ~Calm' /\ happened' \in [EventKinds -> Nat] BY <2>1, <2>2, HappensFacts
  <2> QED BY <2>1, <2>2, <2>3 DEF Change
<1>15. ASSUME NEW p \in Policies, Edit(p) \/ Delete(p)
      PROVE  /\ Change /\ (UNCHANGED names \/ AddCronJob)
             /\ happened' \in [EventKinds -> Nat] /\ (Calm' => Calm)
             /\ UNCHANGED happened \/ \E kind \in EventKinds : Happens(kind)
  BY <1>15, UserFacts, HappensFacts DEF Change
<1> QED
  BY <1>1, <1>2, <1>3, <1>4, <1>5, <1>6, <1>7, <1>8, <1>9, <1>10, <1>11, <1>12, <1>13, <1>14, <1>15
  DEF Next, ReconcileStep

\* A CronJob is made.
LEMMA AddCronJobFacts ==
  ASSUME Typed, worker.pc \in CronJobTypes, AddCronJob
  PROVE  /\ objects' \in Store /\ names' = names + 1
         /\ /\ objects'.policy = objects.policy /\ objects'.ns = objects.ns
            /\ objects'.sa = objects.sa /\ objects'.crb = objects.crb
            /\ objects'.ds = objects.ds
         /\ \E c \in CronJob :
              /\ c.name = names + 1 /\ c.owner = worker.job /\ c.type = worker.pc
              /\ c.space = Space /\ objects'.cj = objects.cj \cup {c}
<1> DEFINE c == [name |-> names + 1, owner |-> worker.job, type |-> worker.pc,
                 suspend |-> worker.read.spec.suspend, space |-> Space]
<1>1. objects \in Store /\ names \in Nat /\ objects.cj \in SUBSET CronJob BY DEF Typed, Store
<1>2. Busy BY DEF Busy, CronJobTypes
<1>3. c \in CronJob BY <1>1, <1>2, WorkerFacts DEF CronJob
<1>4. c.name = names + 1 /\ c.owner = worker.job /\ c.type = worker.pc /\ c.space = Space
  OBVIOUS
<1>5. Put("cj", objects.cj \cup {c}) /\ names' = names + 1 BY DEF AddCronJob, Type
<1> HIDE DEF c
<1>6. objects.cj \cup {c} \in SUBSET CronJob BY <1>1, <1>3
<1> QED BY <1>1, <1>3, <1>4, <1>5, <1>6, PutFacts

\* A DaemonSet is made.
LEMMA AddDaemonSetFacts ==
  ASSUME Typed, worker.pc \in DaemonSetTypes, AddDaemonSet
  PROVE  /\ objects' \in Store
         /\ /\ objects'.policy = objects.policy /\ objects'.ns = objects.ns
            /\ objects'.sa = objects.sa /\ objects'.crb = objects.crb
            /\ objects'.cj = objects.cj
         /\ \E d \in DaemonSet :
              /\ d.owner = worker.job /\ d.type = worker.pc /\ d.space = Space
              /\ objects'.ds = objects.ds \cup {d}
<1>1. objects \in Store /\ objects.ds \in SUBSET DaemonSet BY DEF Typed, Store
<1>2. Busy BY DEF Busy, DaemonSetTypes
<1> DEFINE d == [owner |-> worker.job, type |-> worker.pc, space |-> Space]
<1>3. d \in DaemonSet BY <1>2, WorkerFacts DEF DaemonSet
<1>4. d.owner = worker.job /\ d.type = worker.pc /\ d.space = Space OBVIOUS
<1>5. Put("ds", objects.ds \cup {d}) BY DEF AddDaemonSet, ScannerSet, Type
<1> HIDE DEF d
<1>6. objects.ds \cup {d} \in SUBSET DaemonSet BY <1>1, <1>3
<1> QED BY <1>1, <1>3, <1>4, <1>5, <1>6, PutFacts

\* The status that is written is one of a policy.
LEMMA WriteFacts ==
  ASSUME Typed, Busy, WriteStatus
  PROVE  /\ objects' \in Store /\ Exists(worker.job)
         /\ /\ objects'.ns = objects.ns /\ objects'.sa = objects.sa
            /\ objects'.crb = objects.crb /\ objects'.cj = objects.cj /\ objects'.ds = objects.ds
         /\ objects'.policy[worker.job].executor = worker.executor
         /\ objects'.policy[worker.job].space = objects.policy[worker.job].space
         /\ \A p \in Policies : p # worker.job => objects'.policy[p] = objects.policy[p]
<1>1. objects \in Store /\ objects.policy \in [Policies -> Policy \cup {None}]
  BY DEF Typed, Store
<1>2. PICK text \in {"", "Standby", "Suspend"} :
        Put("policy", [objects.policy EXCEPT ![worker.job] =
                        [worker.read EXCEPT !.text = text, !.executor = worker.executor]])
  BY DEF WriteStatus
<1> DEFINE new == [worker.read EXCEPT !.text = text, !.executor = worker.executor]
           policy == [objects.policy EXCEPT ![worker.job] = new]
<1>3. worker.job \in Policies /\ worker.read \in Policy /\ worker.read # None /\ worker.executor \in Nat
  BY WorkerFacts
<1>4. new \in Policy /\ new.executor = worker.executor /\ new.space = worker.read.space
  BY <1>3 DEF Policy
<1>9. objects.policy[worker.job] = worker.read BY DEF WriteStatus
<1> HIDE DEF new
<1>5. /\ policy \in [Policies -> Policy \cup {None}] /\ policy[worker.job] = new
      /\ \A p \in Policies : p # worker.job => policy[p] = objects.policy[p]
  BY <1>1, <1>3, <1>4
<1>6. Put("policy", policy) BY <1>2 DEF new
<1> HIDE DEF policy
<1>7. objects' \in Store /\ objects'.policy = policy BY <1>1, <1>5, <1>6, PutFacts
<1>8. Exists(worker.job) BY <1>3 DEF WriteStatus, Exists
<1> QED BY <1>1, <1>4, <1>5, <1>6, <1>7, <1>8, <1>9, PutFacts

\* A policy is given another work namespace, and nothing else changes.
Moves ==
  /\ Happens("move") /\ UNCHANGED <<cached, worker>>
  /\ objects'.crb = objects.crb /\ objects'.cj = objects.cj /\ objects'.ds = objects.ds

\* What a policy that exists has is kept, and only the worker at a scanner makes
\* something for its own policy.
Kept ==
  /\ objects'.crb = objects.crb \/ (worker.pc = "binding" /\ objects'.crb = Space)
  /\ \A p \in Policies : Exists(p)' =>
       /\ Exists(p)
       /\ \A n \in WorkNamespaces[p] : n \in objects.sa => n \in objects'.sa
       /\ Calm' => \A c \in objects.cj : c.owner = p => c \in objects'.cj
       /\ \/ objects'.policy[p].executor = objects.policy[p].executor
          \/ worker.job = p /\ objects'.policy[p].executor = worker.executor
       /\ objects'.policy[p].space = objects.policy[p].space \/ Moves
  /\ \A p \in Policies, scanner \in Scanners, n \in Spaces : ScheduledIn(p, scanner, n)' =>
       \/ ScheduledIn(p, scanner, n)
       \/ p = worker.job /\ n = Space /\ worker.pc \in Scanners

LEMMA KeptStep ==
  ASSUME Typed, Owned, Placed, Unshared, Change
  PROVE  objects' \in Store /\ Owned' /\ Kept
<1>1. /\ objects \in Store /\ objects.policy \in [Policies -> Policy \cup {None}]
      /\ objects.ns \in [Spaces -> Policies \cup {None, "user"}]
      /\ objects.sa \in SUBSET Spaces /\ objects.cj \in SUBSET CronJob
  BY DEF Typed, Store
<1>2. \A p \in Policies : WorkNamespaces[p] \subseteq Spaces BY DEF Spaces
<1>3. CASE objects' = objects BY <1>1, <1>3 DEF Owned, Kept, Exists, ScheduledIn
<1>4. CASE Busy /\ Put("ns", [objects.ns EXCEPT ![Space] = worker.job])
  <2> DEFINE ns == [objects.ns EXCEPT ![Space] = worker.job]
  <2>1. worker.job \in Policies /\ Space \in WorkNamespaces[worker.job]
    BY <1>4, WorkerFacts DEF Placed
  <2>2. ns \in [Spaces -> Policies \cup {None, "user"}]
        /\ \A n \in Spaces : ns[n] = IF n = Space THEN worker.job ELSE objects.ns[n]
    BY <1>1, <2>1
  <2>3. Put("ns", ns) BY <1>4
  <2> HIDE DEF ns
  <2>4. /\ objects' \in Store /\ objects'.ns = ns /\ objects'.policy = objects.policy
        /\ objects'.sa = objects.sa /\ objects'.crb = objects.crb /\ objects'.cj = objects.cj
        /\ objects'.ds = objects.ds
    BY <1>1, <2>2, <2>3, PutFacts
  <2>5. ASSUME NEW p \in Policies, NEW n \in WorkNamespaces[p]
        PROVE  objects'.ns[n] \in {None, "user", p}
    <3>1. n \in Spaces /\ objects.ns[n] \in {None, "user", p} BY <1>2 DEF Owned
    <3>2. n = Space => p = worker.job BY <2>1 DEF Unshared
    <3> QED BY <2>2, <2>4, <3>1, <3>2
  <2>6. Owned' BY <2>4, <2>5 DEF Owned, Exists
  <2> QED BY <2>4, <2>6 DEF Kept, Exists, ScheduledIn
<1>5. CASE Busy /\ Put("sa", objects.sa \cup {Space})
  <2> DEFINE sa == objects.sa \cup {Space}
  <2>1. sa \in SUBSET Spaces BY <1>1, <1>5, WorkerFacts
  <2>2. Put("sa", sa) BY <1>5
  <2>3. objects.sa \subseteq sa OBVIOUS
  <2> HIDE DEF sa
  <2>4. /\ objects' \in Store /\ objects'.sa = sa /\ objects'.policy = objects.policy
        /\ objects'.ns = objects.ns /\ objects'.crb = objects.crb /\ objects'.cj = objects.cj
        /\ objects'.ds = objects.ds
    BY <1>1, <2>1, <2>2, PutFacts
  <2> QED BY <2>3, <2>4 DEF Owned, Kept, Exists, ScheduledIn
<1>6. CASE worker.pc = "binding" /\ Put("crb", Space)
  <2>1. Space \in Spaces BY <1>6, WorkerFacts DEF Busy
  <2>2. /\ objects' \in Store /\ objects'.crb = Space /\ objects'.policy = objects.policy
        /\ objects'.ns = objects.ns /\ objects'.sa = objects.sa /\ objects'.cj = objects.cj
        /\ objects'.ds = objects.ds
    BY <1>1, <1>6, <2>1, PutFacts
  <2> QED BY <1>6, <2>2 DEF Owned, Kept, Exists, ScheduledIn
<1>7. CASE worker.pc \in CronJobTypes /\ AddCronJob
  <2>1. PICK c \in CronJob : c.owner = worker.job /\ c.type = worker.pc
                             /\ c.space = Space /\ objects'.cj = objects.cj \cup {c}
    BY <1>7, AddCronJobFacts
  <2>2. /\ objects' \in Store /\ objects'.policy = objects.policy
        /\ objects'.ns = objects.ns /\ objects'.sa = objects.sa /\ objects'.crb = objects.crb
        /\ objects'.ds = objects.ds
    BY <1>7, AddCronJobFacts
  <2>3. worker.pc \in Scanners /\ Space \in WorkNamespaces[worker.job]
    BY <1>7 DEF Scanners, CronJobTypes, Placed, Busy
  <2> QED BY <2>1, <2>2, <2>3 DEF Owned, Kept, Exists, ScheduledIn
<1>8. CASE worker.pc \in DaemonSetTypes /\ AddDaemonSet
  <2>1. PICK d \in DaemonSet : d.owner = worker.job /\ d.type = worker.pc
                               /\ d.space = Space /\ objects'.ds = objects.ds \cup {d}
    BY <1>8, AddDaemonSetFacts
  <2>2. /\ objects' \in Store /\ objects'.policy = objects.policy
        /\ objects'.ns = objects.ns /\ objects'.sa = objects.sa /\ objects'.crb = objects.crb
        /\ objects'.cj = objects.cj
    BY <1>8, AddDaemonSetFacts
  <2>3. worker.pc \in Scanners /\ Space \in WorkNamespaces[worker.job]
    BY <1>8 DEF Scanners, DaemonSetTypes, Placed, Busy
  <2> QED BY <2>1, <2>2, <2>3 DEF Owned, Kept, Exists, ScheduledIn
<1>9. CASE Busy /\ WriteStatus
  <2>1. /\ objects' \in Store /\ Exists(worker.job)
        /\ objects'.ns = objects.ns /\ objects'.sa = objects.sa
        /\ objects'.crb = objects.crb /\ objects'.cj = objects.cj /\ objects'.ds = objects.ds
        /\ objects'.policy[worker.job].executor = worker.executor
        /\ objects'.policy[worker.job].space = objects.policy[worker.job].space
        /\ \A p \in Policies : p # worker.job => objects'.policy[p] = objects.policy[p]
    BY <1>9, WriteFacts
  <2> QED BY <2>1 DEF Owned, Kept, Exists, ScheduledIn
<1>10. ASSUME NEW p \in Policies, Edit(p) \/ Delete(p)
       PROVE  objects' \in Store /\ Owned' /\ Kept
  <2>1. PICK policy \in [Policies -> Policy \cup {None}] :
              /\ Put("policy", policy)
              /\ \A q \in Policies : q # p => policy[q] = objects.policy[q]
              /\ \/ policy[p] = None
                 \/ /\ policy[p].executor = objects.policy[p].executor
                    /\ policy[p].space \in WorkNamespaces[p]
                    /\ policy[p].space = objects.policy[p].space \/ Happens("move")
    BY <1>10, UserFacts
  <2>2. Exists(p) /\ UNCHANGED <<cached, worker>> BY <1>10, UserFacts
  <2>3. /\ objects' \in Store /\ objects'.policy = policy
        /\ objects'.ns = objects.ns /\ objects'.sa = objects.sa /\ objects'.crb = objects.crb
        /\ objects'.cj = objects.cj /\ objects'.ds = objects.ds
    BY <1>1, <2>1, PutFacts
  <2>4. Owned' BY <2>1, <2>2, <2>3 DEF Owned, Exists
  <2> QED BY <2>1, <2>2, <2>3, <2>4 DEF Kept, Moves, Exists, ScheduledIn
<1>11. CASE ~Calm' /\ \E c \in objects.cj : Put("cj", objects.cj \ {c})
  <2>1. PICK c \in objects.cj : Put("cj", objects.cj \ {c}) BY <1>11
  <2>2. objects.cj \ {c} \in SUBSET CronJob BY <1>1
  <2>3. /\ objects' \in Store /\ objects'.policy = objects.policy
        /\ objects'.ns = objects.ns /\ objects'.sa = objects.sa /\ objects'.crb = objects.crb
        /\ objects'.cj = objects.cj \ {c} /\ objects'.ds = objects.ds
    BY <1>1, <2>1, <2>2, PutFacts
  <2> QED BY <1>11, <2>3 DEF Owned, Kept, Exists, ScheduledIn
<1>12. CASE CollectGarbage
  <2>1. /\ objects' \in Store
        /\ objects'.policy = objects.policy /\ objects'.crb = objects.crb
        /\ objects'.cj \subseteq objects.cj /\ objects'.ds \subseteq objects.ds
        /\ \A n \in Spaces : objects'.ns[n] \in {None, objects.ns[n]}
        /\ \A p \in Policies : Exists(p) =>
              /\ \A n \in WorkNamespaces[p] : n \in objects.sa => n \in objects'.sa
              /\ \A c \in objects.cj : c.owner = p => c \in objects'.cj
    BY <1>12, GarbageFacts
  <2>2. Owned' BY <1>2, <2>1 DEF Owned, Exists
  <2> QED BY <2>1, <2>2 DEF Kept, Exists, ScheduledIn
<1> QED
  BY <1>3, <1>4, <1>5, <1>6, <1>7, <1>8, <1>9, <1>10, <1>11, <1>12 DEF Change

----------------------------------------------------------------------------
(* What a step does to the worker, in order: no step of Reconcile is passed *)
(* over, and an executor or a new CronJob comes from what there is.        *)

Goes(pc, executor, new) ==
  /\ worker.pc = "namespace" => pc = "settings"
  /\ worker.pc = "settings" => pc = "account"
  /\ worker.pc = "account" =>
       pc = "binding" /\ (Space \in cached.sa \/ Space \in objects'.sa)
  /\ worker.pc = "binding" => cached.crb = Space \/ objects'.crb = Space
  /\ \/ executor \in {worker.executor, worker.new}
     \/ Calm' => \E c \in objects.cj : c.owner = worker.job /\ c.name = executor
  /\ new \in {0, worker.new} \/ \E c \in objects'.cj : c.owner = worker.job /\ c.name = new

WorkerStep ==
  \/ worker' = worker
  \/ worker' = Idle
  \/ \E p \in Policies : Took(p)
  \/ \E pc \in PCs, executor, new \in Nat, need, err \in BOOLEAN :
       Moved(pc, executor, need, err, new) /\ Goes(pc, executor, new)

LEMMA CheckStep == ASSUME Typed, CheckCronJob PROVE WorkerStep
<1>1. worker.pc \in CronJobTypes BY CheckFacts
<1>2. worker.pc \notin {"namespace", "settings", "account", "binding"}
  BY <1>1 DEF CronJobTypes
<1>3. worker.executor \in Nat /\ worker.pc \in PCs /\ worker.err \in BOOLEAN
      /\ worker.need \in BOOLEAN /\ names \in Nat
  BY WorkerFacts DEF Typed
<1>4. CASE /\ cached.cj = objects.cj \/ Happens("stale")
           /\ \E c \in Found, need \in BOOLEAN, pc \in PCs :
                    Moved(pc, IF worker.executor = 0 THEN c.name ELSE worker.executor,
                          need, FALSE, 0)
  <2>1. PICK c \in Found, need \in BOOLEAN, pc \in PCs :
          Moved(pc, IF worker.executor = 0 THEN c.name ELSE worker.executor, need, FALSE, 0)
    BY <1>4
  <2> DEFINE executor == IF worker.executor = 0 THEN c.name ELSE worker.executor
  <2>2. c \in cached.cj /\ (worker.executor = 0 => c.owner = worker.job)
    BY DEF Found, ExecutorOf
  <2>3. c \in CronJob BY <2>2 DEF Typed, Store
  <2>4. executor \in Nat BY <1>3, <2>3 DEF CronJob
  <2>5. Calm' => cached.cj = objects.cj
    <3>1. UNCHANGED happened \/ \E kind \in EventKinds : Happens(kind) BY CheckFacts
    <3> QED BY <1>4, <3>1, HappensFacts
  <2>6. \/ executor = worker.executor
        \/ Calm' => \E d \in objects.cj : d.owner = worker.job /\ d.name = executor
    BY <2>2, <2>5
  <2>7. Moved(pc, executor, need, FALSE, 0) BY <2>1
  <2> HIDE DEF executor
  <2>8. Goes(pc, executor, 0) BY <1>2, <2>6 DEF Goes
  <2> QED BY <2>4, <2>7, <2>8 DEF WorkerStep
<1>5. CASE AddCronJob /\ Moved(worker.pc, worker.executor, worker.need, worker.err, names + 1)
  <2>1. \E c \in objects'.cj : c.owner = worker.job /\ c.name = names + 1
    BY <1>1, <1>5, AddCronJobFacts
  <2>2. Goes(worker.pc, worker.executor, names + 1) BY <1>2, <2>1 DEF Goes
  <2>3. names + 1 \in Nat BY <1>3
  <2> QED BY <1>3, <1>5, <2>2, <2>3 DEF WorkerStep
<1>6. CASE \E err \in BOOLEAN, pc \in PCs : Moved(pc, worker.executor, worker.need, err, 0)
  <2>1. PICK err \in BOOLEAN, pc \in PCs : Moved(pc, worker.executor, worker.need, err, 0)
    BY <1>6
  <2>2. Goes(pc, worker.executor, 0) BY <1>2 DEF Goes
  <2> QED BY <1>3, <2>1, <2>2 DEF WorkerStep
<1> QED BY <1>4, <1>5, <1>6, CheckFacts

LEMMA RetrieveStep == ASSUME Typed, RetrieveCronJob PROVE WorkerStep
<1>1. PICK executor \in {worker.executor, worker.new}, need \in BOOLEAN, err \in BOOLEAN, pc \in PCs :
        Moved(pc, executor, need, err, 0)
  BY RetrieveFacts
<1>2. executor \in Nat BY WorkerFacts
<1>3. Goes(pc, executor, 0) BY RetrieveFacts DEF Goes, CronJobTypes
<1> QED BY <1>1, <1>2, <1>3 DEF WorkerStep

LEMMA DaemonSetStep == ASSUME Typed, CheckKubebench \/ CheckPkgLoad PROVE WorkerStep
<1>1. PICK need \in BOOLEAN, err \in BOOLEAN, new \in {0, worker.new}, pc \in PCs :
        Moved(pc, worker.executor, need, err, new)
  BY DaemonSetFacts
<1>2. worker.executor \in Nat /\ new \in Nat BY WorkerFacts
<1>3. Goes(pc, worker.executor, new) BY DaemonSetFacts DEF Goes, DaemonSetTypes
<1> QED BY <1>1, <1>2, <1>3 DEF WorkerStep

\* The steps before the scanners.
LEMMA PrepareStep ==
  ASSUME Typed, EnsureWorkNamespace \/ EnsureSettings \/ EnsureServiceAccount \/ EnsureRoleBinding
  PROVE  WorkerStep
<1>1. /\ worker.executor \in Nat /\ worker.need \in BOOLEAN /\ worker.err \in BOOLEAN
      /\ worker.new \in Nat /\ objects \in Store
      /\ {"settings", "account", "binding"} \subseteq PCs
  BY WorkerFacts DEF Typed, PCs
<1>2. CASE EnsureWorkNamespace
  <2>1. Goes("settings", worker.executor, worker.new)
    BY <1>2, NamespaceFacts DEF Goes
  <2> QED BY <1>1, <1>2, <2>1, NamespaceFacts DEF WorkerStep
<1>3. CASE EnsureSettings
  <2>1. Goes("account", worker.executor, worker.new)
    BY <1>3, SettingsFacts DEF Goes
  <2> QED BY <1>1, <1>3, <2>1, SettingsFacts DEF WorkerStep
<1>4. CASE EnsureServiceAccount
  <2>1. CASE worker' = Idle BY <2>1 DEF WorkerStep
  <2>2. CASE /\ Moved("binding", worker.executor, worker.need, worker.err, worker.new)
             /\ Space \in cached.sa \/ Put("sa", objects.sa \cup {Space})
    <3>1. Put("sa", objects.sa \cup {Space}) => Space \in objects'.sa BY <1>1, PutFacts
    <3>2. Goes("binding", worker.executor, worker.new) BY <1>4, <2>2, <3>1, AccountFacts DEF Goes
    <3> QED BY <1>1, <2>2, <3>2 DEF WorkerStep
  <2> QED BY <1>4, <2>1, <2>2, AccountFacts
<1>5. CASE EnsureRoleBinding
  <2>1. CASE worker' = Idle BY <2>1 DEF WorkerStep
  <2>2. CASE /\ \E pc \in PCs : Moved(pc, worker.executor, worker.need, worker.err, worker.new)
             /\ cached.crb = Space \/ Put("crb", Space)
    <3>1. PICK pc \in PCs : Moved(pc, worker.executor, worker.need, worker.err, worker.new)
      BY <2>2
    <3>2. Busy /\ worker.pc = "binding" BY <1>5, BindingFacts DEF Busy
    <3>4. Put("crb", Space) => objects'.crb = Space BY <1>1, PutFacts
    <3>5. Goes(pc, worker.executor, worker.new)
      BY <2>2, <3>2, <3>4 DEF Goes
    <3> QED BY <1>1, <3>1, <3>5 DEF WorkerStep
  <2> QED BY <1>5, <2>1, <2>2, BindingFacts
<1> QED BY <1>2, <1>3, <1>4, <1>5

\* Every step. What the cache holds was or is so, and it changes alone.
LEMMA StepOfWorker ==
  ASSUME Typed, [Next]_vars
  PROVE  /\ WorkerStep /\ cached' \in Store
         /\ cached'.policy \in {cached.policy, objects.policy}
         /\ cached'.sa \in {cached.sa, objects.sa} /\ cached'.crb \in {cached.crb, objects.crb}
         /\ cached' # cached => UNCHANGED objects
<1> DEFINE Goal == /\ WorkerStep /\ cached' \in Store
                   /\ cached'.policy \in {cached.policy, objects.policy}
                   /\ cached'.sa \in {cached.sa, objects.sa}
                   /\ cached'.crb \in {cached.crb, objects.crb}
                   /\ cached' # cached => UNCHANGED objects
<1>1. objects \in Store /\ cached \in Store BY DEF Typed
<1>2. ASSUME UNCHANGED cached, WorkerStep PROVE Goal BY <1>1, <1>2
<1>3. CASE EnsureWorkNamespace \/ EnsureSettings \/ EnsureServiceAccount \/ EnsureRoleBinding
  BY <1>2, <1>3, PrepareStep, NamespaceFacts, SettingsFacts, AccountFacts, BindingFacts
<1>4. CASE CheckCronJob \/ RetrieveCronJob
  BY <1>2, <1>4, CheckStep, RetrieveStep, CheckFacts, RetrieveFacts
<1>5. CASE CheckKubebench \/ CheckPkgLoad BY <1>2, <1>5, DaemonSetStep, DaemonSetFacts
<1>6. CASE UpdateStatus BY <1>2, <1>6, StatusFacts DEF WorkerStep
<1>7. ASSUME NEW p \in Policies, Start(p) PROVE Goal
  BY <1>2, <1>7, StartFacts DEF WorkerStep
<1>8. ASSUME NEW kind \in Kinds, Sync(kind) PROVE Goal
  BY <1>8, SyncFacts DEF WorkerStep
<1>9. CASE Crash BY <1>1, <1>9 DEF Crash, WorkerStep
<1>10. CASE Resync \/ FixSetting \/ DeleteCronJob \/ UNCHANGED vars
  <2>1. UNCHANGED <<worker, cached>> BY <1>10 DEF Resync, FixSetting, DeleteCronJob, vars
  <2> QED BY <1>2, <2>1 DEF WorkerStep
<1>11. CASE CollectGarbage BY <1>2, <1>11, GarbageFacts DEF WorkerStep
<1>12. ASSUME NEW p \in Policies, Edit(p) \/ Delete(p) PROVE Goal
  BY <1>2, <1>12, UserFacts DEF WorkerStep
<1> HIDE DEF Goal
<1>13. Goal
  BY <1>3, <1>4, <1>5, <1>6, <1>7, <1>8, <1>9, <1>10, <1>11, <1>12 DEF Next, ReconcileStep, Goal
<1> QED BY <1>13 DEF Goal

\* The types are kept.
LEMMA TypeStep ==
  ASSUME Typed, Owned, Placed, Unshared, [Next]_vars
  PROVE  Typed' /\ Owned' /\ Placed' /\ Kept
<1>1. Change /\ (UNCHANGED names \/ AddCronJob) /\ happened' \in [EventKinds -> Nat] BY StepFacts
<1>2. objects' \in Store /\ Owned' /\ Kept BY <1>1, KeptStep
<1>3. WorkerStep /\ cached' \in Store BY StepOfWorker
<1>4. names' \in Nat BY <1>1 DEF AddCronJob, Typed
<1>5. worker' \in Worker
      /\ (Busy' => worker'.job \in Policies /\ worker'.read \in Policy /\ worker'.read # None)
  BY <1>3, MovedType, IdleType, TookType DEF WorkerStep, Typed, Busy
<1>6. \A p \in Policies : cached'.policy[p] # None =>
        cached'.policy[p].space \in WorkNamespaces[p]
  BY StepOfWorker DEF Owned, Placed, Exists
<1>7. Busy' => (Space \in WorkNamespaces[worker.job])'
  <2>1. CASE worker' = worker BY <2>1 DEF Placed, Busy, Space
  <2>2. CASE worker' = Idle BY <2>2, IdleType
  <2>3. ASSUME NEW p \in Policies, Took(p) PROVE (Space \in WorkNamespaces[worker.job])'
    BY <2>3, TookType DEF Took, Placed, Space
  <2>4. ASSUME NEW pc, NEW executor, NEW need, NEW err, NEW new,
               Moved(pc, executor, need, err, new)
        PROVE  (Space \in WorkNamespaces[worker.job])'
    BY <2>4 DEF Moved, Placed, Space
  <2> QED BY <1>3, <2>1, <2>2, <2>3, <2>4 DEF WorkerStep
<1>8. Placed' BY <1>6, <1>7 DEF Placed
<1> QED BY <1>1, <1>2, <1>3, <1>4, <1>5, <1>8 DEF Typed

----------------------------------------------------------------------------
(* Each part of the invariant is kept. *)

LEMMA AccountsStep ==
  ASSUME Typed, Accounts, Kept, [Next]_vars
  PROVE  Accounts'
<1> SUFFICES ASSUME NEW p \in Policies, NEW n \in WorkNamespaces[p], Exists(p)', n \notin objects'.sa
             PROVE  /\ n \notin cached'.sa
                    /\ ~(worker.job = p /\ HasAccount /\ Space = n)'
                    /\ \A scanner \in Scanners : ~ScheduledIn(p, scanner, n)'
  BY DEF Accounts
<1>1. Exists(p) /\ n \notin objects.sa BY DEF Kept
<1>2. /\ n \notin cached.sa /\ ~(worker.job = p /\ HasAccount /\ Space = n)
      /\ \A scanner \in Scanners : ~ScheduledIn(p, scanner, n)
  BY <1>1 DEF Accounts
<1>3. n \notin cached'.sa BY <1>1, <1>2, StepOfWorker
<1>4. ASSUME NEW scanner \in Scanners, ScheduledIn(p, scanner, n)' PROVE FALSE
  <2>1. n \in Spaces BY DEF Spaces
  <2>2. p = worker.job /\ n = Space /\ worker.pc \in Scanners BY <1>2, <1>4, <2>1 DEF Kept
  <2>3. HasAccount BY <2>2 DEF HasAccount, Scanners, CronJobTypes, DaemonSetTypes
  <2> QED BY <1>2, <2>2, <2>3
<1>5. ASSUME worker'.job = p, HasAccount', Space' = n PROVE FALSE
  <2>1. CASE worker' = worker BY <1>2, <1>5, <2>1 DEF HasAccount, Space
  <2>2. CASE worker' = Idle BY <1>5, <2>2, IdleType DEF HasAccount, Busy
  <2>3. ASSUME NEW q \in Policies, Took(q) PROVE FALSE
    BY <1>5, <2>3, TookType DEF HasAccount
  <2>4. ASSUME NEW pc, NEW executor, NEW need, NEW err, NEW new,
               Moved(pc, executor, need, err, new), Goes(pc, executor, new)
        PROVE  FALSE
    <3>1. Busy /\ worker'.pc = pc /\ worker'.job = worker.job /\ Space' = Space
      BY <2>4 DEF Moved, Space
    <3>2. worker.pc \in {"namespace", "settings", "account"}
      BY <1>2, <1>5, <3>1 DEF HasAccount, Busy
    <3>3. worker.pc = "account" /\ (Space \in cached.sa \/ Space \in objects'.sa)
      BY <1>5, <2>4, <3>1, <3>2 DEF Goes, HasAccount
    <3> QED BY <1>2, <1>5, <3>1, <3>3
  <2> QED BY <2>1, <2>2, <2>3, <2>4, StepOfWorker DEF WorkerStep
<1> QED BY <1>3, <1>4, <1>5

LEMMA BindingsStep ==
  ASSUME Typed, Bindings, Kept, [Next]_vars
  PROVE  Bindings'
<1> SUFFICES ASSUME objects'.crb = None
             PROVE  /\ cached'.crb = None /\ ~HasBinding'
                    /\ \A p \in Policies, scanner \in Scanners, n \in Spaces :
                         ~ScheduledIn(p, scanner, n)'
  BY DEF Bindings
<1>0. Busy => Space # None BY WorkerFacts, ConstantsAssumption
<1>1. objects.crb = None BY <1>0 DEF Kept, Busy
<1>2. /\ cached.crb = None /\ ~HasBinding
      /\ \A p \in Policies, scanner \in Scanners, n \in Spaces : ~ScheduledIn(p, scanner, n)
  BY <1>1 DEF Bindings
<1>3. cached'.crb = None BY <1>1, <1>2, StepOfWorker
<1>4. ASSUME NEW p \in Policies, NEW scanner \in Scanners, NEW n \in Spaces,
             ScheduledIn(p, scanner, n)'
      PROVE  FALSE
  <2>1. worker.pc \in Scanners BY <1>2, <1>4 DEF Kept
  <2>2. HasBinding BY <2>1 DEF HasBinding, HasAccount, Scanners, CronJobTypes, DaemonSetTypes
  <2> QED BY <1>2, <2>2
<1>5. ASSUME HasBinding' PROVE FALSE
  <2>1. CASE worker' = worker BY <1>2, <1>5, <2>1 DEF HasBinding, HasAccount
  <2>2. CASE worker' = Idle BY <1>5, <2>2, IdleType DEF HasBinding, HasAccount, Busy
  <2>3. ASSUME NEW q \in Policies, Took(q) PROVE FALSE
    BY <1>5, <2>3, TookType DEF HasBinding, HasAccount
  <2>4. ASSUME NEW pc, NEW executor, NEW need, NEW err, NEW new,
               Moved(pc, executor, need, err, new), Goes(pc, executor, new)
        PROVE  FALSE
    <3>1. Busy /\ worker'.pc = pc BY <2>4 DEF Moved
    <3>2. worker.pc \in {"namespace", "settings", "account", "binding"}
      BY <1>2, <3>1 DEF HasBinding, HasAccount, Busy
    <3>3. worker.pc = "binding"
      BY <1>5, <2>4, <3>1, <3>2 DEF Goes, HasBinding, HasAccount
    <3> QED BY <1>0, <1>2, <2>4, <3>1, <3>3 DEF Goes
  <2> QED BY <2>1, <2>2, <2>3, <2>4, StepOfWorker DEF WorkerStep
<1> QED BY <1>3, <1>4, <1>5

\* With one policy, every worker has that one in its hands.
LEMMA FollowsStep ==
  ASSUME OnePolicy, Typed, Typed', Kept, BindingFollows, [Next]_vars
  PROVE  BindingFollows'
<1> SUFFICES ASSUME NEW p \in Policies, Exists(p)', happened'["move"] <= 1
             PROVE  LET space == objects'.policy[p].space IN
    /\ objects'.crb = space \/ happened'["move"] = 0 => CacheKnows(p)' /\ WorkerKnows(p)'
    /\ Busy' /\ Space' = space => CacheKnows(p)'
    /\ \/ objects'.crb = space
       \/ /\ cached'.crb # space /\ ~(HasBinding' /\ Space' = space)
          /\ \A scanner \in Scanners : ~ScheduledIn(p, scanner, objects.policy[p].space)'
    /\ happened'["move"] = 0 =>
         /\ objects'.crb \in {None, space} /\ cached'.crb \in {None, space}
         /\ \A scanner \in Scanners, n \in Spaces : ScheduledIn(p, scanner, n)' => n = space
  BY DEF BindingFollows
<1> DEFINE space == objects.policy[p].space
           next == objects'.policy[p].space
<1>1. /\ happened["move"] \in Nat /\ happened'["move"] \in Nat
      /\ happened["move"] <= happened'["move"]
      /\ Happens("move") => happened'["move"] = happened["move"] + 1
  BY StepFacts, MoveFacts
<1>2. Exists(p) /\ (next = space \/ Moves) BY DEF Kept
<1>3. happened["move"] <= 1 BY <1>1
<1>4. space \in Spaces /\ next \in Spaces /\ next # None
  <2>1. objects.policy[p] \in Policy /\ objects'.policy[p] \in Policy
    BY <1>2 DEF Typed, Store, Exists
  <2>2. space \in Spaces /\ next \in Spaces BY <2>1 DEF Policy
  <2> QED BY <2>2, ConstantsAssumption
<1> DEFINE Before(n) == \A scanner \in Scanners : ~ScheduledIn(p, scanner, n)
<1>5. /\ objects.crb = space \/ happened["move"] = 0 => CacheKnows(p) /\ WorkerKnows(p)
      /\ Busy /\ Space = space => CacheKnows(p)
      /\ \/ objects.crb = space
         \/ cached.crb # space /\ ~(HasBinding /\ Space = space) /\ Before(space)
      /\ happened["move"] = 0 =>
           /\ objects.crb \in {None, space} /\ cached.crb \in {None, space}
           /\ \A scanner \in Scanners, n \in Spaces : ScheduledIn(p, scanner, n) => n = space
  BY <1>2, <1>3 DEF BindingFollows
<1>6. HasBinding => Busy BY DEF HasBinding, HasAccount, Busy
<1>7. CASE next # space
  <2>1. Moves /\ happened["move"] = 0 /\ happened'["move"] = 1 BY <1>1, <1>2, <1>7 DEF Moves
  <2>2. /\ objects'.crb = objects.crb /\ cached' = cached /\ worker' = worker
        /\ objects'.cj = objects.cj /\ objects'.ds = objects.ds
    BY <2>1 DEF Moves
  <2>3. /\ CacheKnows(p) /\ WorkerKnows(p)
        /\ objects.crb \in {None, space} /\ cached.crb \in {None, space}
        /\ \A scanner \in Scanners, n \in Spaces : ScheduledIn(p, scanner, n) => n = space
    BY <1>5, <2>1
  <2>4. objects'.crb # next /\ cached'.crb # next BY <1>4, <1>7, <2>2, <2>3
  <2>5. Busy' => Space' # next BY <1>7, <2>2, <2>3 DEF WorkerKnows, Busy, Space
  <2>6. HasBinding' => Busy' BY <1>6, <2>2 DEF HasBinding, HasAccount, Busy
  <2>7. \A scanner \in Scanners : ~ScheduledIn(p, scanner, objects.policy[p].space)'
    BY <1>4, <1>7, <2>2, <2>3 DEF ScheduledIn
  <2> QED BY <2>1, <2>4, <2>5, <2>6, <2>7
<1>8. CASE next = space
  <2>1. objects'.crb = objects.crb \/ (worker.pc = "binding" /\ objects'.crb = Space)
    BY DEF Kept
  <2>2. worker.pc = "binding" => Busy BY DEF Busy
  <2>3. objects'.crb = space \/ happened'["move"] = 0 => CacheKnows(p) /\ WorkerKnows(p)
    <3>1. happened'["move"] = 0 => happened["move"] = 0 BY <1>1
    <3> QED BY <1>5, <2>1, <2>2, <3>1 DEF WorkerKnows
  <2>4. CacheKnows(p) => CacheKnows(p)'
    BY <1>8, StepOfWorker DEF CacheKnows
  <2>5. WorkerKnows(p) /\ CacheKnows(p) => WorkerKnows(p)'
    <3>1. CASE worker' = worker BY <1>8, <3>1 DEF WorkerKnows, Busy, Space
    <3>2. CASE worker' = Idle BY <3>2, IdleType DEF WorkerKnows
    <3>3. ASSUME NEW q \in Policies, Took(q) PROVE CacheKnows(p) => WorkerKnows(p)'
      <4>1. q = p BY DEF OnePolicy
      <4> QED BY <1>8, <3>3, <4>1, TookType DEF Took, CacheKnows, WorkerKnows, Space
    <3>4. ASSUME NEW pc, NEW executor, NEW need, NEW err, NEW new,
                 Moved(pc, executor, need, err, new)
          PROVE  WorkerKnows(p) => WorkerKnows(p)'
      BY <1>8, <3>4 DEF Moved, WorkerKnows, Space
    <3> QED BY <3>1, <3>2, <3>3, <3>4, StepOfWorker DEF WorkerStep
  <2>6. ASSUME Busy', Space' = space PROVE CacheKnows(p)'
    <3>1. CASE worker' = worker BY <1>5, <2>4, <2>6, <3>1 DEF Busy, Space
    <3>2. CASE worker' = Idle BY <2>6, <3>2, IdleType
    <3>3. ASSUME NEW q \in Policies, Took(q) PROVE CacheKnows(p)'
      <4>1. q = p BY DEF OnePolicy
      <4> QED BY <1>8, <2>6, <3>3, <4>1, TookType DEF Took, CacheKnows, Space
    <3>4. ASSUME NEW pc, NEW executor, NEW need, NEW err, NEW new,
                 Moved(pc, executor, need, err, new)
          PROVE  CacheKnows(p)'
      BY <1>5, <2>4, <2>6, <3>4 DEF Moved, Space
    <3> QED BY <3>1, <3>2, <3>3, <3>4, StepOfWorker DEF WorkerStep
  <2>7. ASSUME objects'.crb # space
        PROVE  /\ cached'.crb # space /\ ~(HasBinding' /\ Space' = space)
               /\ \A scanner \in Scanners : ~ScheduledIn(p, scanner, objects.policy[p].space)'
    <3>1. objects.crb # space BY <1>5, <2>1, <2>2, <2>7 DEF WorkerKnows
    <3>2. cached.crb # space /\ ~(HasBinding /\ Space = space) /\ Before(space)
      BY <1>5, <3>1
    <3>3. cached'.crb # space BY <3>1, <3>2, StepOfWorker
    <3>4. ASSUME HasBinding', Space' = space PROVE FALSE
      <4>1. CASE worker' = worker BY <3>2, <3>4, <4>1 DEF HasBinding, HasAccount, Space
      <4>2. CASE worker' = Idle BY <3>4, <4>2, IdleType DEF HasBinding, HasAccount, Busy
      <4>3. ASSUME NEW q \in Policies, Took(q) PROVE FALSE
        BY <3>4, <4>3, TookType DEF HasBinding, HasAccount
      <4>4. ASSUME NEW pc, NEW executor, NEW need, NEW err, NEW new,
                   Moved(pc, executor, need, err, new), Goes(pc, executor, new)
            PROVE  FALSE
        <5>1. Busy /\ worker'.pc = pc /\ Space' = Space BY <4>4 DEF Moved, Space
        <5>2. worker.pc \in {"namespace", "settings", "account", "binding"}
          BY <3>2, <3>4, <5>1 DEF HasBinding, HasAccount, Busy
        <5>3. worker.pc = "binding"
          BY <3>4, <4>4, <5>1, <5>2 DEF Goes, HasBinding, HasAccount
        <5> QED BY <2>7, <3>2, <3>4, <4>4, <5>1, <5>3 DEF Goes
      <4> QED BY <4>1, <4>2, <4>3, <4>4, StepOfWorker DEF WorkerStep
    <3>5. ASSUME NEW scanner \in Scanners, ScheduledIn(p, scanner, objects.policy[p].space)'
          PROVE  FALSE
      <4> PICK n \in Spaces : n = space BY <1>4
      <4>1. ScheduledIn(p, scanner, n)' BY <1>8, <3>5 DEF ScheduledIn
      <4>2. space = Space /\ worker.pc \in Scanners BY <3>2, <4>1 DEF Kept
      <4>3. HasBinding
        BY <4>2 DEF HasBinding, HasAccount, Scanners, CronJobTypes, DaemonSetTypes
      <4> QED BY <3>2, <4>2, <4>3
    <3> QED BY <3>3, <3>4, <3>5
  <2>8. ASSUME happened'["move"] = 0
        PROVE  /\ objects'.crb \in {None, space} /\ cached'.crb \in {None, space}
               /\ \A scanner \in Scanners, n \in Spaces :
                    ScheduledIn(p, scanner, n)' => n = space
    <3>1. happened["move"] = 0 BY <1>1, <2>8
    <3>2. Busy => Space = space BY <2>3, <2>8 DEF WorkerKnows
    <3>3. objects'.crb \in {None, space} BY <1>5, <2>1, <2>2, <3>1, <3>2
    <3>4. cached'.crb \in {None, space} BY <1>5, <3>1, StepOfWorker
    <3>5. ASSUME NEW scanner \in Scanners, NEW n \in Spaces, ScheduledIn(p, scanner, n)'
          PROVE  n = space
      <4>1. worker.pc \in Scanners => Busy
        BY DEF Busy, Scanners, CronJobTypes, DaemonSetTypes
      <4> QED BY <1>5, <3>1, <3>2, <3>5, <4>1 DEF Kept
    <3> QED BY <3>3, <3>4, <3>5
  <2> HIDE DEF space, next
  <2> QED BY <1>8, <2>3, <2>4, <2>5, <2>6, <2>7, <2>8 DEF next
<1> QED BY <1>7, <1>8

LEMMA ExecutorsStep ==
  ASSUME Typed, Executors, Kept, [Next]_vars, Calm'
  PROVE  Executors'
<1> SUFFICES ASSUME NEW p \in Policies, Exists(p)'
             PROVE  /\ Backed(p, objects.policy[p].executor)'
                    /\ cached'.policy[p] # None => Backed(p, cached.policy[p].executor)'
                    /\ worker'.job = p => Backed(p, worker.executor)' /\ Backed(p, worker.new)'
  BY DEF Executors
<1> DEFINE Has(name) == name # 0 => \E c \in objects'.cj : c.owner = p /\ c.name = name
<1>1. /\ Exists(p) /\ \A c \in objects.cj : c.owner = p => c \in objects'.cj
      /\ \/ objects'.policy[p].executor = objects.policy[p].executor
         \/ worker.job = p /\ objects'.policy[p].executor = worker.executor
  BY DEF Kept
<1>2. \A name : Backed(p, name) => Has(name) BY <1>1 DEF Backed
<1>3. /\ Has(objects.policy[p].executor)
      /\ cached.policy[p] # None => Has(cached.policy[p].executor)
      /\ worker.job = p => Has(worker.executor) /\ Has(worker.new)
  BY <1>1, <1>2 DEF Executors
<1>4. Has(objects'.policy[p].executor)
  <2> HIDE DEF Has
  <2> QED BY <1>1, <1>3
<1>5. cached'.policy[p] # None => Has(cached'.policy[p].executor)
  <2> HIDE DEF Has
  <2> QED BY <1>3, StepOfWorker
<1>6. ASSUME worker'.job = p PROVE Has(worker'.executor) /\ Has(worker'.new)
  <2>1. CASE worker' = worker BY <1>3, <1>6, <2>1
  <2>2. CASE worker' = Idle BY <1>6, <2>2, IdleType, ConstantsAssumption
  <2>3. ASSUME NEW q \in Policies, Took(q) PROVE Has(worker'.executor) /\ Has(worker'.new)
    <3>1. q = p /\ worker'.executor = cached.policy[p].executor /\ worker'.new = 0
      BY <1>6, <2>3, TookType
    <3> QED BY <1>3, <2>3, <3>1 DEF Took
  <2>4. ASSUME NEW pc, NEW executor, NEW need, NEW err, NEW new,
               Moved(pc, executor, need, err, new), Goes(pc, executor, new)
        PROVE  Has(worker'.executor) /\ Has(worker'.new)
    <3>1. worker'.job = worker.job /\ worker'.executor = executor /\ worker'.new = new
      BY <2>4 DEF Moved
    <3>2. \/ executor \in {worker.executor, worker.new}
          \/ \E c \in objects.cj : c.owner = p /\ c.name = executor
      BY <1>6, <2>4, <3>1 DEF Goes
    <3>3. Has(executor) BY <1>1, <1>3, <1>6, <3>1, <3>2
    <3>4. Has(new) BY <1>3, <1>6, <2>4, <3>1 DEF Goes
    <3> QED BY <3>1, <3>3, <3>4
  <2> QED BY <2>1, <2>2, <2>3, <2>4, StepOfWorker DEF WorkerStep
<1> QED BY <1>4, <1>5, <1>6 DEF Backed


\* No second CronJob is made for a policy: the first one is found, in a cache that does
\* not lag, by the executor or else by its owner and type.
LEMMA OnceStep ==
  ASSUME Typed, Owned, Placed, Unshared, OnePerType, Calm => Executors, [Next]_vars
  PROVE  OnePerType'
<1> SUFFICES ASSUME Calm', NEW c \in objects'.cj, NEW d \in objects'.cj,
                    Exists(c.owner)', c.owner = d.owner, c.type = d.type
             PROVE  c = d
  BY DEF OnePerType, Calm
<1>1. Calm /\ Change /\ Kept /\ objects' \in Store BY StepFacts, KeptStep
<1>2. c \in CronJob /\ d \in CronJob /\ c.owner \in Policies BY <1>1 DEF Store, CronJob
<1>3. Exists(c.owner) BY <1>1, <1>2 DEF Kept
<1>4. CASE c \in objects.cj /\ d \in objects.cj
  BY <1>1, <1>3, <1>4 DEF OnePerType, Calm
<1>5. CASE c \notin objects.cj \/ d \notin objects.cj
  <2>1. worker.pc \in CronJobTypes /\ AddCronJob /\ Found = {} /\ cached.cj = objects.cj
    <3>1. objects \in Store /\ objects.cj \in SUBSET CronJob BY DEF Typed, Store
    <3>2. ASSUME objects'.cj \subseteq objects.cj PROVE FALSE BY <1>5, <3>2
    <3>3. ASSUME Busy, NEW value, Put("ns", value) \/ Put("sa", value) \/ Put("crb", value)
          PROVE  FALSE
      BY <3>1, <3>2, <3>3, PutFacts
    <3>4. ASSUME worker.pc \in DaemonSetTypes, AddDaemonSet PROVE FALSE
      BY <3>2, <3>4, AddDaemonSetFacts
    <3>5. ASSUME Busy, WriteStatus PROVE FALSE BY <3>2, <3>5, WriteFacts
    <3>6. ASSUME NEW p \in Policies, Edit(p) \/ Delete(p) PROVE FALSE
      BY <3>1, <3>2, <3>6, UserFacts, PutFacts
    <3>7. ASSUME CollectGarbage PROVE FALSE BY <3>2, <3>7, GarbageFacts
    <3>8. worker.pc = "binding" => Busy BY DEF Busy
    <3> QED BY <1>1, <3>2, <3>3, <3>4, <3>5, <3>6, <3>7, <3>8 DEF Change
  <2>2. PICK e \in CronJob : e.owner = worker.job /\ e.type = worker.pc
                             /\ objects'.cj = objects.cj \cup {e}
    BY <2>1, AddCronJobFacts
  <2>3. ASSUME NEW old \in objects.cj, old.owner = worker.job, old.type = worker.pc,
               Exists(worker.job)
        PROVE  FALSE
    <3>1. CASE ExecutorOf(Type) = 0
      BY <2>1, <2>3, <3>1 DEF Found, Type
    <3>2. CASE ExecutorOf(Type) # 0
      <4>1. ExecutorOf(Type) = worker.executor /\ worker.executor # 0
        BY <3>2 DEF ExecutorOf
      <4>2. worker.job \in Policies
        BY <2>1, WorkerFacts DEF Busy, CronJobTypes
      <4>3. Backed(worker.job, worker.executor) BY <1>1, <2>3, <4>2 DEF Executors
      <4>4. \E f \in objects.cj : f.name = worker.executor BY <4>1, <4>3 DEF Backed
      <4> QED BY <2>1, <4>1, <4>4 DEF Found
    <3> QED BY <3>1, <3>2
  <2> QED BY <1>3, <1>5, <2>2, <2>3
<1> QED BY <1>4, <1>5

----------------------------------------------------------------------------
(* The invariant, and what it implies. *)

LEMMA InitIInv == Init => IInv /\ BindingFollows
<1> SUFFICES ASSUME Init PROVE IInv /\ BindingFollows OBVIOUS
<1>1. PICK spec \in [Policies -> Specs], space \in [Policies -> Spaces],
           ns \in [Spaces -> {None, "user"}] :
        /\ \A p \in Policies : space[p] \in WorkNamespaces[p]
        /\ objects = [policy |-> [p \in Policies |->
                                    [spec |-> spec[p], space |-> space[p], generation |-> 1,
                                     text |-> "", executor |-> 0]],
                      ns |-> ns, sa |-> {}, crb |-> None, cj |-> {}, ds |-> {}]
  BY DEF Init
<1>2. /\ cached = objects /\ worker = Idle /\ names = 0
      /\ happened = [kind \in EventKinds |-> 0]
  BY DEF Init
<1> DEFINE policy == [p \in Policies |->
                       [spec |-> spec[p], space |-> space[p], generation |-> 1,
                        text |-> "", executor |-> 0]]
<1>3. policy \in [Policies -> Policy \cup {None}]
      /\ \A p \in Policies : policy[p].executor = 0 /\ policy[p].space = space[p]
  BY DEF Policy
<1> HIDE DEF policy
<1>4. /\ objects.policy = policy /\ objects.ns = ns /\ objects.sa = {} /\ objects.crb = None
      /\ objects.cj = {} /\ objects.ds = {}
  BY <1>1 DEF policy
<1>5. objects \in Store
  <2>1. objects = [policy |-> policy, ns |-> ns, sa |-> {}, crb |-> None, cj |-> {}, ds |-> {}]
    BY <1>1 DEF policy
  <2>2. ns \in [Spaces -> Policies \cup {None, "user"}] OBVIOUS
  <2> QED BY <1>3, <2>1, <2>2 DEF Store
<1>6. worker \in Worker /\ ~Busy /\ worker.executor = 0 /\ worker.new = 0
  BY <1>2 DEF Idle, Worker, PCs, Busy
<1>7. happened \in [EventKinds -> Nat] BY <1>2
<1>8. Typed BY <1>2, <1>5, <1>6, <1>7 DEF Typed
<1>9. Owned /\ Placed
  <2>1. \A p \in Policies : objects.policy[p].space \in WorkNamespaces[p]
    BY <1>1, <1>3, <1>4
  <2>2. \A n \in Spaces : ns[n] \in {None, "user"} OBVIOUS
  <2>3. \A p \in Policies : WorkNamespaces[p] \subseteq Spaces BY DEF Spaces
  <2>4. Owned BY <1>4, <2>1, <2>2, <2>3 DEF Owned
  <2> QED BY <1>2, <1>6, <2>1, <2>4 DEF Placed
<1>10. \A p, scanner, n : ~ScheduledIn(p, scanner, n) BY <1>4 DEF ScheduledIn
<1>11. Accounts /\ Bindings
  BY <1>2, <1>4, <1>6, <1>10 DEF Accounts, Bindings, HasBinding, HasAccount, Busy
<1>12. Executors BY <1>2, <1>3, <1>4, <1>6 DEF Executors, Backed
<1>13. OnePerType BY <1>4 DEF OnePerType
<1>14. BindingFollows
  <2>1. \A p \in Policies : objects.policy[p].space # None
    BY <1>3, <1>4, ConstantsAssumption
  <2> QED
    BY <1>2, <1>4, <1>6, <1>10, <2>1
    DEF BindingFollows, CacheKnows, WorkerKnows, HasBinding, HasAccount, Busy
<1> QED BY <1>8, <1>9, <1>11, <1>12, <1>13, <1>14 DEF IInv

LEMMA InvStep == Unshared /\ IInv /\ [Next]_vars => IInv'
<1> SUFFICES ASSUME Unshared, IInv, [Next]_vars PROVE IInv' OBVIOUS
<1>1. Typed /\ Owned /\ Placed /\ Accounts /\ Bindings /\ (Calm => Executors) /\ OnePerType
  BY DEF IInv
<1>2. Typed' /\ Owned' /\ Placed' /\ Kept BY <1>1, TypeStep
<1>3. Accounts' /\ Bindings' BY <1>1, <1>2, AccountsStep, BindingsStep
<1>4. ASSUME Calm' PROVE Executors'
  <2>1. Calm BY <1>1, <1>4, StepFacts
  <2> QED BY <1>1, <1>2, <1>4, <2>1, ExecutorsStep
<1>5. OnePerType' BY <1>1, OnceStep
<1> QED BY <1>2, <1>3, <1>4, <1>5 DEF IInv

\* IInv is an inductive invariant.
LEMMA Invariance == ASSUME Unshared PROVE Spec => []IInv
<1>1. IInv /\ [Next]_vars => IInv' BY InvStep
<1> QED BY InitIInv, <1>1, PTL DEF Spec

\* A scanner is scheduled once per policy, for any policies that do not share their
\* namespace, any specs, and whatever else happens.
THEOREM ScheduledOnce == ASSUME Unshared PROVE Spec => []OnePerType
<1>1. IInv => OnePerType BY DEF IInv
<1> QED BY <1>1, Invariance, PTL

\* Where a scanner of an existing policy is scheduled, there is the service account, and
\* some namespace is bound to the role, for any such policies and however often their
\* work namespaces are changed.
THEOREM AccountsInPlace ==
  ASSUME Unshared
  PROVE  Spec => []\A p \in Policies, scanner \in Scanners, n \in Spaces :
                    Exists(p) /\ ScheduledIn(p, scanner, n) =>
                      n \in objects.sa /\ objects.crb # None
<1>1. ASSUME IInv, NEW p \in Policies, NEW scanner \in Scanners, NEW n \in Spaces,
             Exists(p), ScheduledIn(p, scanner, n)
      PROVE  n \in objects.sa /\ objects.crb # None
  <2>1. n \in WorkNamespaces[p] BY <1>1 DEF IInv, Owned, ScheduledIn
  <2> QED BY <1>1, <2>1 DEF IInv, Accounts, Bindings
<1>2. IInv => \A p \in Policies, scanner \in Scanners, n \in Spaces :
                Exists(p) /\ ScheduledIn(p, scanner, n) =>
                  n \in objects.sa /\ objects.crb # None
  BY <1>1
<1> QED BY <1>2, Invariance, PTL

\* With one policy, what is scheduled in the work namespace it has has the service
\* account and the role, also after the namespace was changed and the binding updated,
\* over any caches, failing calls and crashes.
THEOREM RoleInPlace == ASSUME OnePolicy PROVE Spec => []RunsWithRole
<1>1. Unshared BY DEF OnePolicy, Unshared
<1>2. ASSUME IInv, BindingFollows, [Next]_vars PROVE BindingFollows'
  <2>1. Typed /\ Typed' /\ Kept BY <1>1, <1>2, TypeStep DEF IInv
  <2> QED BY <1>2, <2>1, FollowsStep
<1>3. ASSUME IInv, BindingFollows PROVE RunsWithRole
  <2> SUFFICES ASSUME NEW p \in Policies, NEW n \in Spaces, Exists(p),
                      NEW scanner \in Scanners, ScheduledIn(p, scanner, n)
               PROVE  /\ n \in objects.sa
                      /\ happened["move"] <= 1 /\ n = objects.policy[p].space
                           => objects.crb = n
    BY DEF RunsWithRole
  <2>1. n \in WorkNamespaces[p] BY <1>3 DEF IInv, Owned, ScheduledIn
  <2>2. n \in objects.sa BY <1>3, <2>1 DEF IInv, Accounts
  <2>3. happened["move"] <= 1 /\ n = objects.policy[p].space => objects.crb = n
    BY <1>3 DEF BindingFollows
  <2> QED BY <2>2, <2>3
<1>4. IInv /\ BindingFollows /\ [Next]_vars => BindingFollows' BY <1>2
<1>5. IInv /\ BindingFollows => RunsWithRole BY <1>3
<1> QED BY <1>1, <1>4, <1>5, InitIInv, Invariance, PTL DEF Spec

==============================================================================
