-------------------------- MODULE PolicyReconciler --------------------------
(***************************************************************************)
(* InspectionPolicyReconciler of cnsi-manager: one worker takes policies   *)
(* from the work queue and makes the API server hold what they ask for: a  *)
(* work namespace, a service account with its role, a CronJob or DaemonSet *)
(* per scanner, and the policy's status.                                   *)
(*                                                                         *)
(* Writes go to the API server, reads come from the informers' cache, which *)
(* follows kind by kind and whenever it likes. Only policies are watched.  *)
(***************************************************************************)
EXTENDS Naturals, FiniteSets

CONSTANTS
  Policies,
  WorkNamespaces,   \* the work namespaces that each policy's user may give it
  Specs,            \* the specs users write: images named, and suspend
  None,
  Events,           \* the kinds of events that may happen, see EventKinds
  MaxEvents,        \* bound on how many of them happen
  MaxNames          \* no resync is awaited once so many CronJobs were made

CronJobTypes == {"Image", "Risk", "Workload"}
DaemonSetTypes == {"Kubebench", "PkgLoad"}
Scanners == CronJobTypes \cup DaemonSetTypes

\* Policies are edited or deleted; a policy is given another work namespace;
\* somebody deletes a CronJob; an API call fails or the manager crashes; CronJobs
\* are listed, or a policy that is gone is found, in a cache that lags.
EventKinds == {"edit", "move", "deletion", "fault", "stale"}

Spaces == UNION {WorkNamespaces[p] : p \in Policies}

ASSUME ConstantsAssumption ==
  /\ DOMAIN WorkNamespaces = Policies /\ "user" \notin Policies /\ None \notin Policies \cup Spaces
  /\ Specs \subseteq [images : SUBSET Scanners, suspend : BOOLEAN]
  /\ Events \subseteq EventKinds /\ MaxEvents \in Nat /\ MaxNames \in Nat

VARIABLES
  objects,          \* what the API server holds
  cached,           \* what the informers hold
  ready,            \* the Setting exists and its data source is enabled
  queue,            \* the work queue
  worker,           \* the worker's position and locals
  names,            \* CronJob names given so far; they are never reused
  happened          \* how often each kind of event happened

vars == <<objects, cached, ready, queue, worker, names, happened>>

----------------------------------------------------------------------------
\* A policy: its spec, of which the work namespace is kept apart,
\* metadata.generation, and of its status the text and InspectionExecutor. No
\* code sets the other executors.
Policy == [spec : Specs, space : Spaces, generation : Nat,
           text : {"", "Standby", "Suspend"}, executor : Nat]
CronJob == [name : Nat, owner : Policies, type : CronJobTypes, suspend : BOOLEAN,
            space : Spaces]
DaemonSet == [owner : Policies, type : DaemonSetTypes, space : Spaces]

\* ns: who owns each namespace that exists. sa: the namespaces that have the
\* service account. crb: the namespace of the one ClusterRoleBinding's one subject.
Kinds == {"policy", "ns", "sa", "crb", "cj", "ds"}
Store == [policy : [Policies -> Policy \cup {None}],
          ns : [Spaces -> Policies \cup {None, "user"}], sa : SUBSET Spaces, crb : Spaces \cup {None},
          cj : SUBSET CronJob, ds : SUBSET DaemonSet]

Idle == [pc |-> "idle", job |-> None, read |-> None, executor |-> 0,
         need |-> FALSE, err |-> FALSE, new |-> 0]

PCs == {"idle", "namespace", "settings", "account", "binding", "status"}
         \cup Scanners
Worker == [pc : PCs, job : Policies \cup {None}, read : Policy \cup {None},
           executor : Nat, need : BOOLEAN, err : BOOLEAN, new : Nat]

Space == worker.read.space
Images == worker.read.spec.images

\* Reconcile's order. A scanner that the policy does not name is passed over.
Rank == [Image |-> 1, Kubebench |-> 2, Risk |-> 3, PkgLoad |-> 4, Workload |-> 5]

NamedAfter(rank) ==
  LET rest == {s \in Images : Rank[s] > rank} IN
  IF rest = {} THEN "status"
  ELSE CHOOSE s \in rest : \A t \in rest : Rank[s] <= Rank[t]

After(pc) ==
  CASE pc = "namespace" -> "settings"
    [] pc = "settings"  -> "account"
    [] pc = "account"   -> "binding"
    [] pc = "binding"   -> NamedAfter(0)
    [] OTHER            -> NamedAfter(Rank[pc])

Advance == worker' = [worker EXCEPT !.pc = After(@)] /\ UNCHANGED queue

\* Reconcile returns an error, and the policy is queued again.
Requeue == worker' = Idle /\ queue' = queue \cup {worker.job}

Happens(kind) ==
  /\ kind \in Events
  /\ happened["edit"] + happened["move"] + happened["deletion"] + happened["fault"]
       + happened["stale"] < MaxEvents
  /\ happened' = [happened EXCEPT ![kind] = @ + 1]

Fault == Happens("fault")

\* The API server holds `value` for `kind`.
Put(kind, value) == objects' = [objects EXCEPT ![kind] = value]

----------------------------------------------------------------------------
Init ==
  /\ \E spec \in [Policies -> Specs], space \in [Policies -> Spaces],
        ns \in [Spaces -> {None, "user"}] :
       /\ \A p \in Policies : space[p] \in WorkNamespaces[p]
       /\ objects = [policy |-> [p \in Policies |->
                                   [spec |-> spec[p], space |-> space[p], generation |-> 1,
                                    text |-> "", executor |-> 0]],
                     ns |-> ns, sa |-> {}, crb |-> None, cj |-> {}, ds |-> {}]
  /\ cached = objects
  /\ ready \in BOOLEAN
  /\ queue = Policies
  /\ worker = Idle
  /\ names = 0
  /\ happened = [kind \in EventKinds |-> 0]

\* The worker takes a policy and gets it; a policy that is gone is done with.
Start(p) ==
  /\ worker.pc = "idle" /\ p \in queue
  /\ \/ /\ queue' = queue \ {p}
        /\ worker' = IF cached.policy[p] = None THEN Idle
                     ELSE [Idle EXCEPT !.pc = "namespace", !.job = p,
                                       !.read = cached.policy[p],
                                       !.executor = cached.policy[p].executor]
        /\ IF cached.policy[p] # None /\ objects.policy[p] = None
           THEN Happens("stale") ELSE UNCHANGED happened
     \/ Fault /\ UNCHANGED <<queue, worker>>
  /\ UNCHANGED <<objects, cached, ready, names>>

\* The namespace is there. Whatever is created in it needs that.
HasSpace == objects.ns[Space] # None

\* The namespace is created if the cache has none, and fails if it exists after
\* all. It belongs to the policy.
EnsureWorkNamespace ==
  LET Create == Put("ns", [objects.ns EXCEPT ![Space] = worker.job]) IN
  /\ worker.pc = "namespace"
  /\ \/ cached.ns[Space] # None /\ Advance /\ UNCHANGED <<objects, happened>>
     \/ /\ cached.ns[Space] = None
        /\ IF HasSpace THEN Requeue /\ UNCHANGED objects ELSE Advance /\ Create
        /\ UNCHANGED happened
     \/ /\ Fault /\ Requeue
        /\ UNCHANGED objects \/ (cached.ns[Space] = None /\ ~HasSpace /\ Create)
  /\ UNCHANGED <<cached, ready, names>>

\* EnsureSettings is called unless the workload scanner is the only one named.
EnsureSettings ==
  /\ worker.pc = "settings"
  /\ \/ (ready \/ Images \subseteq {"Workload"}) /\ Advance /\ UNCHANGED happened
     \/ ~ready /\ ~(Images \subseteq {"Workload"}) /\ Requeue /\ UNCHANGED happened
     \/ ~(Images \subseteq {"Workload"}) /\ Fault /\ Requeue
  /\ UNCHANGED <<objects, cached, ready, names>>

\* The first half of ensureRBAC, in the same manner.
EnsureServiceAccount ==
  LET Create == Put("sa", objects.sa \cup {Space})
      CanCreate == HasSpace /\ Space \notin objects.sa
  IN
  /\ worker.pc = "account"
  /\ \/ Space \in cached.sa /\ Advance /\ UNCHANGED <<objects, happened>>
     \/ /\ Space \notin cached.sa
        /\ IF CanCreate THEN Advance /\ Create ELSE Requeue /\ UNCHANGED objects
        /\ UNCHANGED happened
     \/ /\ Fault /\ Requeue
        /\ UNCHANGED objects \/ (Space \notin cached.sa /\ CanCreate /\ Create)
  /\ UNCHANGED <<cached, ready, names>>

\* Mutant: an error of the binding is not returned.
RoleBindingIgnored ==
  /\ worker.pc = "binding" /\ Advance
  /\ \/ Put("crb", Space) /\ UNCHANGED happened
     \/ Fault /\ UNCHANGED objects
  /\ UNCHANGED <<cached, ready, names>>

\* Mutant: a binding that exists is left as it is.
RoleBindingKept ==
  /\ worker.pc = "binding"
  /\ \/ cached.crb # None /\ Advance /\ UNCHANGED <<objects, happened>>
     \/ /\ cached.crb = None
        /\ IF objects.crb # None THEN Requeue /\ UNCHANGED objects
                                ELSE Advance /\ Put("crb", Space)
        /\ UNCHANGED happened
     \/ Fault /\ Requeue /\ UNCHANGED objects
  /\ UNCHANGED <<cached, ready, names>>

\* The rest of ensureRBAC: the binding is created, or pointed to the policy's work
\* namespace, away from the one it named, by an Update that carries no
\* resourceVersion.
EnsureRoleBinding ==
  /\ worker.pc = "binding"
  /\ \/ cached.crb = Space /\ Advance /\ UNCHANGED <<objects, happened>>
     \/ /\ cached.crb # Space
        /\ IF cached.crb = None /\ objects.crb # None
           THEN Requeue /\ UNCHANGED objects
           ELSE Advance /\ Put("crb", Space)
        /\ UNCHANGED happened
     \/ /\ Fault /\ Requeue
        /\ \/ UNCHANGED objects
           \/ /\ cached.crb # Space
              /\ cached.crb = None => objects.crb = None
              /\ Put("crb", Space)
  /\ UNCHANGED <<cached, ready, names>>

----------------------------------------------------------------------------
(* The scanners. Reconcile keeps their errors in one variable, where that of *)
(* any scanner but the last is overwritten: only the workload scanner's counts. *)

Type == worker.pc

\* The executor the status holds for a type.
ExecutorOf(type) == IF type = "Image" THEN worker.executor ELSE 0

\* Mutants: without an executor nothing is found; the label of the type is not
\* asked for.
FoundByName ==
  {c \in cached.cj : ExecutorOf(Type) # 0 /\ c.name = ExecutorOf(Type)}

FoundOfAnyType ==
  IF ExecutorOf(Type) # 0 THEN {c \in cached.cj : c.name = ExecutorOf(Type)}
  ELSE {c \in cached.cj : c.owner = worker.job}

\* checkCronJob: by the executor if there is one, whatever type it has,
\* otherwise any with this policy's labels. Either way in any namespace.
Found ==
  IF ExecutorOf(Type) # 0 THEN {c \in cached.cj : c.name = ExecutorOf(Type)}
  ELSE {c \in cached.cj : c.owner = worker.job /\ c.type = Type}

NextScanner(err) ==
  worker' = [worker EXCEPT !.pc = After(Type), !.err = err /\ Type = "Workload",
                           !.new = 0]

\* A CronJob was found or made: the status needs an update if the policy's
\* suspend is not the CronJob's, or if the status had no executor yet.
Settle(c, existed) ==
  worker' = [worker EXCEPT
    !.pc = After(Type), !.err = FALSE, !.new = 0,
    !.need = @ \/ (existed /\ c.suspend # worker.read.spec.suspend)
               \/ worker.executor = 0,
    !.executor = IF @ = 0 THEN c.name ELSE @]

\* A list from a cache that lags is counted, to bound it.
ReadCronJobs ==
  IF cached.cj = objects.cj THEN UNCHANGED happened ELSE Happens("stale")

AddCronJob ==
  /\ names' = names + 1
  /\ Put("cj", objects.cj \cup {[name |-> names + 1, owner |-> worker.job,
                                 type |-> Type, suspend |-> worker.read.spec.suspend,
                                 space |-> Space]})

\* cronjobForInspection. If nothing was found the CronJob is created, and its
\* Create fails in a namespace that is gone.
CheckCronJob ==
  /\ Type \in CronJobTypes /\ worker.new = 0
  /\ \/ /\ ReadCronJobs
        /\ \E c \in Found : Settle(c, TRUE)
        /\ UNCHANGED <<objects, names>>
     \/ /\ ReadCronJobs /\ Found = {} /\ HasSpace
        /\ AddCronJob
        /\ worker' = [worker EXCEPT !.new = names + 1]
     \/ /\ ReadCronJobs /\ Found = {} /\ ~HasSpace
        /\ NextScanner(TRUE)
        /\ UNCHANGED <<objects, names>>
     \/ /\ Fault /\ NextScanner(TRUE)
        /\ \/ UNCHANGED <<objects, names>>
           \/ cached.cj = objects.cj /\ Found = {} /\ HasSpace /\ AddCronJob
  /\ UNCHANGED <<cached, ready, queue>>

\* The new CronJob is retrieved again, from the cache, which may not know it.
RetrieveCronJob ==
  /\ Type \in CronJobTypes /\ worker.new # 0
  /\ \/ /\ \E c \in cached.cj : c.name = worker.new /\ Settle(c, FALSE)
        /\ UNCHANGED happened
     \/ /\ \A c \in cached.cj : c.name # worker.new
        /\ NextScanner(TRUE) /\ UNCHANGED happened
     \/ Fault /\ NextScanner(TRUE)
  /\ UNCHANGED <<objects, cached, ready, queue, names>>

\* The DaemonSet of a scanner in the work namespace, owned by the policy.
ScannerSet == [owner |-> worker.job, type |-> Type, space |-> Space]

AddDaemonSet == Put("ds", objects.ds \cup {ScannerSet})

\* A DaemonSet has a name of its own, which is looked up in the work namespace.
EnsureDaemonSet ==
  LET missing == ScannerSet \notin cached.ds
      canCreate == HasSpace /\ ScannerSet \notin objects.ds
      Broken == worker' = [worker EXCEPT !.pc = After(Type), !.need = TRUE]
  IN
  /\ \/ ~missing /\ NextScanner(FALSE) /\ UNCHANGED <<objects, happened>>
     \/ /\ missing
        /\ IF canCreate THEN NextScanner(FALSE) /\ AddDaemonSet ELSE Broken /\ UNCHANGED objects
        /\ UNCHANGED happened
     \/ /\ Fault /\ Broken
        /\ UNCHANGED objects \/ (missing /\ canCreate /\ AddDaemonSet)
  /\ UNCHANGED <<cached, ready, queue, names>>

CheckKubebench == Type = "Kubebench" /\ EnsureDaemonSet
CheckPkgLoad == Type = "PkgLoad" /\ EnsureDaemonSet

----------------------------------------------------------------------------
\* Mutant: a suspended policy is not told apart.
StatusStandby(spec) == "Standby"

StatusText(spec) == IF spec.suspend THEN "Suspend" ELSE "Standby"

\* updatePolicyStatus writes what Reconcile made of the policy it read; a
\* conflict, or any other error of it, is only logged.
UpdateStatus ==
  LET w == worker
      Write == Put("policy", [objects.policy EXCEPT ![w.job] =
                 [w.read EXCEPT !.text = StatusText(w.read.spec), !.executor = w.executor]])
  IN
  /\ w.pc = "status"
  /\ \/ /\ w.need \/ w.read.text = ""
        /\ IF objects.policy[w.job] = w.read THEN Write ELSE UNCHANGED objects
        /\ UNCHANGED happened
     \/ /\ ~w.need /\ w.read.text # ""
        /\ UNCHANGED <<objects, happened>>
     \/ /\ w.need \/ w.read.text = ""
        /\ Fault
        /\ UNCHANGED objects \/ (objects.policy[w.job] = w.read /\ Write)
  /\ IF w.err THEN Requeue ELSE worker' = Idle /\ UNCHANGED queue
  /\ UNCHANGED <<cached, ready, names>>

----------------------------------------------------------------------------
(* What happens around the worker. *)

\* An informer catches up. Changed policies are queued.
Sync(kind) ==
  /\ cached[kind] # objects[kind]
  /\ cached' = [cached EXCEPT ![kind] = objects[kind]]
  /\ queue' = IF kind = "policy"
              THEN queue \cup {p \in Policies : cached.policy[p] # objects.policy[p]}
              ELSE queue
  /\ UNCHANGED <<objects, ready, worker, names, happened>>

\* Every ten hours all policies are queued. By then the informers have caught
\* up and the worker has been idle.
Resync ==
  /\ queue = {} /\ worker = Idle /\ cached = objects
  /\ queue' = IF names < MaxNames THEN Policies ELSE {}
  /\ UNCHANGED <<objects, cached, ready, worker, names, happened>>

\* The manager is restarted: it lists everything and queues every policy.
Crash ==
  /\ Fault
  /\ worker' = Idle /\ cached' = objects /\ queue' = Policies
  /\ UNCHANGED <<objects, ready, names>>

\* A policy's user changes its spec, and may give it another work namespace.
Edit(p) ==
  LET old == objects.policy[p] IN
  /\ old # None
  /\ \E spec \in Specs, space \in WorkNamespaces[p] :
       /\ IF space = old.space THEN spec # old.spec /\ Happens("edit") ELSE Happens("move")
       /\ Put("policy", [objects.policy EXCEPT ![p].spec = spec, ![p].space = space,
                                               ![p].generation = @ + 1])
  /\ UNCHANGED <<cached, ready, queue, worker, names>>

\* A policy is deleted by its user.
Delete(p) ==
  /\ Happens("edit")
  /\ objects.policy[p] # None
  /\ Put("policy", [objects.policy EXCEPT ![p] = None])
  /\ UNCHANGED <<cached, ready, queue, worker, names>>

\* Mutant: DaemonSets without an owner reference.
CollectButDaemonSets ==
  LET Live(p) == p = "user" \/ objects.policy[p] # None
      gone == {n \in Spaces : objects.ns[n] # None /\ ~Live(objects.ns[n])}
      Stays(o) == Live(o.owner) /\ o.space \notin gone
      kept == [objects EXCEPT !.cj = {c \in @ : Stays(c)},
                              !.ds = {d \in @ : d.space \notin gone},
                              !.sa = @ \ gone,
                              !.ns = [n \in Spaces |-> IF n \in gone THEN None ELSE @[n]]]
  IN
  /\ kept # objects
  /\ objects' = kept
  /\ UNCHANGED <<cached, ready, queue, worker, names, happened>>

\* What a deleted policy owned goes: its CronJobs and DaemonSets, and the
\* namespace it made with everything in it. The binding has no owner.
CollectGarbage ==
  LET Live(p) == p = "user" \/ objects.policy[p] # None
      gone == {n \in Spaces : objects.ns[n] # None /\ ~Live(objects.ns[n])}
      Stays(o) == Live(o.owner) /\ o.space \notin gone
      kept == [objects EXCEPT !.cj = {c \in @ : Stays(c)},
                              !.ds = {d \in @ : Stays(d)},
                              !.sa = @ \ gone,
                              !.ns = [n \in Spaces |-> IF n \in gone THEN None ELSE @[n]]]
  IN
  /\ kept # objects
  /\ objects' = kept
  /\ UNCHANGED <<cached, ready, queue, worker, names, happened>>

\* Somebody deletes a CronJob that the controller made.
DeleteCronJob ==
  /\ Happens("deletion")
  /\ \E c \in objects.cj : Put("cj", objects.cj \ {c})
  /\ UNCHANGED <<cached, ready, queue, worker, names>>

FixSetting ==
  /\ ~ready /\ ready' = TRUE
  /\ UNCHANGED <<objects, cached, queue, worker, names, happened>>

ReconcileStep ==
  \/ \E p \in Policies : Start(p)
  \/ EnsureWorkNamespace \/ EnsureSettings \/ EnsureServiceAccount
  \/ EnsureRoleBinding
  \/ CheckCronJob \/ RetrieveCronJob \/ CheckKubebench \/ CheckPkgLoad
  \/ UpdateStatus

Next ==
  \/ ReconcileStep
  \/ \E kind \in Kinds : Sync(kind)
  \/ Resync \/ Crash \/ CollectGarbage \/ DeleteCronJob \/ FixSetting
  \/ \E p \in Policies : Edit(p) \/ Delete(p)

Spec == Init /\ [][Next]_vars

\* The worker runs, informers catch up, the resync period passes, garbage is
\* collected. Nobody has to edit, delete or fix anything.
Fairness ==
  /\ WF_vars(ReconcileStep)
  /\ WF_vars(\E kind \in Kinds : Sync(kind))
  /\ WF_vars(Resync) /\ WF_vars(CollectGarbage)

FairSpec == Spec /\ Fairness

----------------------------------------------------------------------------
Exists(p) == objects.policy[p] # None
Names(p, scanner) == Exists(p) /\ scanner \in objects.policy[p].spec.images

\* What a policy has scheduled, and where.
ScheduledIn(p, scanner, n) ==
  \E o \in objects.cj \cup objects.ds : o.owner = p /\ o.type = scanner /\ o.space = n

Scheduled(p, scanner) == \E n \in Spaces : ScheduledIn(p, scanner, n)

\* A scan that a CronJob runs is scheduled once per policy: as long as the CronJobs
\* were never listed from a cache that lags and nobody deletes one, no retry, crash,
\* edit, change of the work namespace or lost reply makes a second one, which would
\* run every scan twice. (A DaemonSet is made again in each work namespace.)
OnePerType ==
  happened["stale"] = 0 /\ happened["deletion"] = 0 =>
    \A c, d \in objects.cj :
      Exists(c.owner) /\ c.owner = d.owner /\ c.type = d.type => c = d

\* "Make sure the service account for running inspection has the correct role in
\* the work namespace": a scanner is scheduled only where the service account is. If
\* the one policy was given another work namespace once at the most, what is scheduled
\* in the work namespace it has now has the role too: the worker never schedules
\* before it has moved the binding there, nor brings the binding back. (It does not look
\* at CronJobs in the former namespace: they stay there, and lose the role.)
RunsWithRole ==
  \A p \in Policies, n \in Spaces :
    Exists(p) /\ (\E scanner \in Scanners : ScheduledIn(p, scanner, n)) =>
      /\ n \in objects.sa
      /\ happened["move"] <= 1 /\ n = objects.policy[p].space => objects.crb = n

\* The one policy's work namespace has the service account, and the binding names it,
\* in the end, however often the namespace was changed: a worker that found the
\* binding in place, in a cache that lags, looks again when the policies are resynced.
\* (Nothing is done for a policy before its Setting is ready.)
RoleFollows ==
  \A p \in Policies :
    <>[](ready /\ Exists(p) => /\ objects.policy[p].space \in objects.sa
                               /\ objects.crb = objects.policy[p].space)

\* A node scanner is scheduled in the work namespace, the others wherever they first were.
ScheduledAsNamed(p, scanner) ==
  Names(p, scanner) =>
    IF scanner \in DaemonSetTypes THEN ScheduledIn(p, scanner, objects.policy[p].space)
    ELSE Scheduled(p, scanner)

\* The scanners that a policy names in the end get scheduled. Calls fail, caches lag,
\* edits race with the worker, and of the scanners' errors only the last one's counts;
\* CronJobs are deleted, though not so that a new one is made at each resync. Of
\* the image scanner it is said only if nothing fails or is deleted and the policy names
\* it from the start: see ImageScannerScheduled. (A CronJob keeps the schedule, image and
\* suspend it was made with.)
ScannersScheduled ==
  \A p \in Policies :
    /\ <>[](ready /\ names < MaxNames =>
              \A scanner \in Scanners \ {"Image"} : ScheduledAsNamed(p, scanner))
    /\ [](Exists(p) => Names(p, "Image")) =>
         <>[](ready /\ happened["fault"] = 0 /\ happened["deletion"] = 0 =>
                ScheduledAsNamed(p, "Image"))

\* A policy's CronJobs, of which it names one, were made when its suspend was another.
MadeOtherwise(p) ==
  LET own == {c \in objects.cj : c.owner = p} IN
  /\ \E c \in own : Names(p, c.type)
  /\ \A c \in own : c.suspend # objects.policy[p].spec.suspend

NeverEdited == happened["edit"] = 0 /\ happened["move"] = 0

\* The status of a policy is right in the end, if it was never edited or its suspend is
\* not the one its CronJobs were made with, though an update of the status that fails
\* or conflicts is neither returned nor retried. (If suspend is edited and edited
\* back, the status stays what it was in between.)
StatusReported ==
  \A p \in Policies :
    <>[](ready /\ names < MaxNames /\ Exists(p) /\ (NeverEdited \/ MadeOtherwise(p)) =>
           objects.policy[p].text =
             IF objects.policy[p].spec.suspend THEN "Suspend" ELSE "Standby")

\* A policy has the scanners it names in the end, and a status that says what it asks.
PolicyConverges == ScannersScheduled /\ StatusReported

\* No scanner outlives its policy, not even one that a worker which still had the
\* policy in its hands made after the deletion. (The service account in a namespace of
\* the user's, and the binding, have no owner and stay.)
ScannersDoNotOutlivePolicy ==
  \A p \in Policies :
    <>[](\A scanner \in Scanners : Scheduled(p, scanner) => Exists(p))

\* "Create new when cronjob is not existing": an image scanner that a policy
\* names is scheduled in the end.
ImageScannerScheduled ==
  \A p \in Policies :
    (<>[](ready /\ Names(p, "Image"))) => <>Scheduled(p, "Image")

=============================================================================
