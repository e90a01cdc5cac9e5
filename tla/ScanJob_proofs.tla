--------------------------- MODULE ScanJob_proofs ---------------------------
(***************************************************************************)
(* Proofs about ScanJob, for any jobs, workers and bounds.                 *)
(*                                                                         *)
(* The invariants of ScanJob are not inductive by themselves. Placed says  *)
(* that a job is in one place of the queueing machinery, the dead and the  *)
(* acknowledged ones included, so that a worker is alone with its job;     *)
(* Stored relates the handler's progress to the record, so that a late     *)
(* Create cannot hit a job that is being worked on; Working says what a    *)
(* worker may rely on at each of its steps.                                *)
(***************************************************************************)
EXTENDS ScanJob, TLAPS

Queued(j) == \E i \in 1..Len(queue) : queue[i] = j
Fetched(j) == \E w \in Workers : inProgress[w] = j

Placed ==
  /\ InOnePlace
  /\ \A j \in acked \cup dead : j \notin Aside /\ ~Queued(j) /\ ~Fetched(j)
  /\ \A j \in Jobs : handler[j] \in {"new", "enqueue"} =>
       j \notin acked \cup dead \cup Aside /\ ~Queued(j) /\ ~Fetched(j)

Stored ==
  /\ \A j \in Jobs : store[j] # None => j \in created
  /\ \A j \in Jobs : handler[j] \in {"new", "enqueue", "create"} => j \notin created
  /\ acked \subseteq created

\* A worker has a job unless it is idle: TypeOK needs it to be inductive.
Busy == \A w \in Workers : inProgress[w] = None <=> pc[w] = "idle"

TypeInv == TypeOK /\ Busy

Working ==
  \A w \in Workers :
    LET j == inProgress[w] IN
    /\ copy[w] # None => pc[w] \in StoreOps
    /\ copy[w] # None \/ pc[w] \in {"trivy", "Report", "Finished", "done"}
         => j \in created
    /\ pc[w] = "Finished" => /\ copy[w] # None => copy[w].report
                             /\ store[j] # None => store[j].report
    /\ pc[w] = "done" => store[j] = None \/ store[j].status \in {"Finished", "Failed"}

IInv == Placed /\ Stored /\ Working /\ FinishedHasReport /\ AckedIsFinal

----------------------------------------------------------------------------
(* Facts about the queue. *)

\* What Enqueue and Reap do to the queue: one more job at its end.
LEMMA AppendFacts ==
  ASSUME NEW q \in Seq(Jobs), NEW j \in Jobs
  PROVE  /\ Append(q, j) \in Seq(Jobs)
         /\ Len(Append(q, j)) = Len(q) + 1
         /\ \A i \in 1..Len(q) : Append(q, j)[i] = q[i]
         /\ Append(q, j)[Len(q) + 1] = j
  OBVIOUS

\* What Fetch takes from the queue and what it leaves.
LEMMA TailFacts ==
  ASSUME NEW q \in Seq(Jobs), q # <<>>
  PROVE  /\ Head(q) \in Jobs /\ Head(q) = q[1]
         /\ Tail(q) \in Seq(Jobs)
         /\ Len(q) \in Nat \ {0} /\ Len(Tail(q)) = Len(q) - 1
         /\ \A i \in 1..Len(q) - 1 : Tail(q)[i] = q[i + 1]
  OBVIOUS

----------------------------------------------------------------------------
(* Type correctness. *)

\* What the store operations write is a record.
LEMMA ApplyType ==
  ASSUME NEW op \in StoreOps, NEW r \in Record
  PROVE  /\ Apply(op, r) \in Record
         /\ op = "Report" => Apply(op, r) = [r EXCEPT !.report = TRUE]
         /\ op # "Report" => Apply(op, r) = [r EXCEPT !.status = op]
         /\ AfterSuccess(op) \in WorkerStates
         /\ AfterError(op) \in WorkerStates
  BY DEF Apply, Record, Statuses, StoreOps, AfterSuccess, AfterError, WorkerStates

\* Every variable keeps its type, whatever the step.
LEMMA TypeStep == TypeInv /\ [Next]_vars => TypeInv'
<1> SUFFICES ASSUME TypeInv, [Next]_vars PROVE TypeInv' OBVIOUS
<1> USE ConstantsAssumption DEF TypeInv, TypeOK, Busy, httpVars, queueVars, asideVars, endVars, workerVars, storeVars, envVars
<1>1. ASSUME NEW j \in Jobs, Accept(j) PROVE TypeInv'
  BY <1>1 DEF Accept, HandlerStates
<1>2. ASSUME NEW j \in Jobs, Enqueue(j) PROVE TypeInv'
  <2>1. queue' = queue \/ queue' = Append(queue, j) BY <1>2 DEF Enqueue
  <2>2. Append(queue, j) \in Seq(Jobs) BY AppendFacts
  <2>3. queue' \in Seq(Jobs) BY <2>1, <2>2
  <2>4. faults' \in Nat BY <1>2 DEF Enqueue, Fault
  <2>5. handler' \in [Jobs -> HandlerStates] BY <1>2 DEF Enqueue, HandlerStates
  <2> QED BY <1>2, <2>3, <2>4, <2>5 DEF Enqueue
<1>3. ASSUME NEW j \in Jobs, Create(j) PROVE TypeInv'
  <2>1. [status |-> "Queued", report |-> FALSE] \in Record BY DEF Record, Statuses
  <2>2. \/ StoreQueued(j)
        \/ UNCHANGED <<store, created>>
    BY <1>3 DEF Create
  <2>3. StoreQueued(j) => store' \in [Jobs -> Record \cup {None}]
    BY <2>1 DEF StoreQueued
  <2>4. StoreQueued(j) => created' \subseteq Jobs BY DEF StoreQueued
  <2>5. store' \in [Jobs -> Record \cup {None}] /\ created' \subseteq Jobs
    BY <2>2, <2>3, <2>4
  <2>6. faults' \in Nat BY <1>3 DEF Create, Fault
  <2>7. handler' \in [Jobs -> HandlerStates] BY <1>3 DEF Create, HandlerStates
  <2> QED BY <1>3, <2>5, <2>6, <2>7 DEF Create
<1>4. ASSUME NEW j \in Jobs, Expire(j) PROVE TypeInv'
  BY <1>4 DEF Expire
<1>5. ASSUME NEW j \in Jobs, Reap(j) PROVE TypeInv'
  <2>1. queue' \in Seq(Jobs)
    <3>1. queue' \in {queue, Append(queue, j)} BY <1>5 DEF Reap
    <3>2. Append(queue, j) \in Seq(Jobs) BY AppendFacts
    <3> QED BY <3>1, <3>2
  <2>2. orphans' \subseteq Jobs /\ forgotten' \subseteq Jobs BY <1>5 DEF Reap
  <2>3. faults' \in Nat BY <1>5 DEF Reap, Fault
  <2> QED BY <1>5, <2>1, <2>2, <2>3 DEF Reap
<1>6. ASSUME NEW w \in Workers, Fetch(w) PROVE TypeInv'
  <2>1. queue' \in Seq(Jobs) /\ Head(queue) \in Jobs BY <1>6, TailFacts DEF Fetch
  <2>2. faults' \in Nat BY <1>6 DEF Fetch, Fault
  <2> QED BY <1>6, <2>1, <2>2 DEF Fetch, WorkerStates, StoreOps
<1>7. ASSUME NEW w \in Workers, StoreGet(w) PROVE TypeInv'
  <2>1. inProgress[w] \in Jobs BY <1>7 DEF StoreGet, StoreOps
  <2>2. AfterError(pc[w]) \in WorkerStates \ {"idle"}
    BY <1>7 DEF StoreGet, AfterError, WorkerStates, StoreOps
  <2>3. faults' \in Nat BY <1>7 DEF StoreGet, Fault
  <2>4. copy' \in [Workers -> Record \cup {None}] BY <1>7, <2>1 DEF StoreGet
  <2>5. pc' \in [Workers -> WorkerStates]
    BY <1>7, <2>2 DEF StoreGet
  <2>6. \A v \in Workers : pc'[v] = "idle" <=> pc[v] = "idle"
    BY <1>7, <2>2 DEF StoreGet, StoreOps
  <2> QED BY <1>7, <2>3, <2>4, <2>5, <2>6 DEF StoreGet
<1>8. ASSUME NEW w \in Workers, StoreSet(w) PROVE TypeInv'
  <2>1. inProgress[w] \in Jobs /\ copy[w] \in Record BY <1>8 DEF StoreSet, StoreOps
  <2>2. {AfterError(pc[w]), AfterSuccess(pc[w])} \subseteq WorkerStates \ {"idle"}
    BY <1>8 DEF StoreSet, AfterError, AfterSuccess, WorkerStates, StoreOps
  <2>3. faults' \in Nat BY <1>8 DEF StoreSet, Fault
  <2>4. Apply(pc[w], copy[w]) \in Record BY <1>8, <2>1, ApplyType DEF StoreSet
  <2>5. store' \in [Jobs -> Record \cup {None}] BY <1>8, <2>1, <2>4 DEF StoreSet, SetXX
  <2>6. /\ pc' \in [Workers -> WorkerStates]
        /\ \A v \in Workers : pc'[v] = "idle" <=> pc[v] = "idle"
    BY <1>8, <2>2 DEF StoreSet, StoreOps
  <2> QED BY <1>8, <2>3, <2>5, <2>6 DEF StoreSet
<1>9. ASSUME NEW w \in Workers, Trivy(w) PROVE TypeInv'
  BY <1>9 DEF Trivy, WorkerStates, StoreOps
<1>10. ASSUME NEW w \in Workers, Ack(w) PROVE TypeInv'
  <2>1. inProgress[w] \in Jobs BY <1>10 DEF Ack
  <2>2. faults' \in Nat BY <1>10 DEF Ack, Fault
  <2>3. acked' \subseteq Jobs /\ dead' \subseteq Jobs /\ stuck' \subseteq Jobs
    BY <1>10, <2>1 DEF Ack, Remove
  <2> QED BY <1>10, <2>2, <2>3 DEF Ack, WorkerStates
<1>11. CASE Crash
  <2>1. handler' \in [Jobs -> HandlerStates] BY <1>11 DEF Crash, HandlerStates
  <2>2. pc' \in [Workers -> WorkerStates] BY <1>11 DEF Crash, WorkerStates
  <2>3. crashes' \in Nat /\ orphans' \subseteq Jobs /\ stuck' \subseteq Jobs BY <1>11 DEF Crash
  <2> QED BY <1>11, <2>1, <2>2, <2>3 DEF Crash
<1>12. CASE Restart
  BY <1>12 DEF Restart
<1>13. CASE UNCHANGED vars
  BY <1>13 DEF vars
<1> QED BY <1>1, <1>2, <1>3, <1>4, <1>5, <1>6, <1>7, <1>8, <1>9, <1>10, <1>11, <1>12,
           <1>13 DEF Next, Quiet

\* The invariant TypeOK of the runs, for every value of the constants.
THEOREM TypeCorrect == Spec => []TypeOK
<1>1. Init => TypeInv
  BY ConstantsAssumption
     DEF Init, TypeInv, TypeOK, Busy, HandlerStates, WorkerStates, StoreOps
<1>2. TypeInv => TypeOK BY DEF TypeInv
<1> QED BY <1>1, <1>2, TypeStep, PTL DEF Spec

----------------------------------------------------------------------------
(* The steps of the handler and of the environment. *)

\* AcceptScanRequest's decisions, and Enqueue: the job was nowhere before.
LEMMA HandlerStep ==
  ASSUME TypeInv, IInv, NEW j \in Jobs, Accept(j) \/ Enqueue(j)
  PROVE  IInv'
<1> USE DEF TypeInv, TypeOK, queueVars, asideVars, endVars, workerVars, storeVars, envVars
<1>1. /\ UNCHANGED <<orphans, stuck, forgotten, acked, dead, inProgress, pc, copy, store, created>>
      /\ \A i \in Jobs : /\ handler'[i] \in {"new", "enqueue"} => handler[i] \in {"new", "enqueue"}
                         /\ handler'[i] \in {"new", "enqueue", "create"}
                              => handler[i] \in {"new", "enqueue", "create"}
  BY DEF Accept, Enqueue
<1> USE DEF Aside
<1>2. Stored' /\ Working' /\ FinishedHasReport' /\ AckedIsFinal'
  BY <1>1 DEF IInv, Stored, Working, FinishedHasReport, AckedIsFinal
<1>3. CASE queue' = queue
  BY <1>1, <1>2, <1>3 DEF IInv, Placed, InOnePlace, Queued, Fetched, Aside
<1>4. CASE Enqueue(j) /\ queue' = Append(queue, j)
  <2>1. handler[j] = "enqueue" /\ handler'[j] \notin {"new", "enqueue"}
    BY <1>4 DEF Enqueue
  <2>2. j \notin acked \cup dead \cup Aside /\ ~Queued(j) /\ ~Fetched(j)
    BY <2>1 DEF IInv, Placed
  <2>3. /\ Len(queue') = Len(queue) + 1 /\ Len(queue) \in Nat
        /\ \A i \in 1..Len(queue) : queue'[i] = queue[i]
        /\ queue'[Len(queue) + 1] = j
    BY <1>4, AppendFacts
  <2>4. \A i \in 1..Len(queue') : i \in 1..Len(queue) \/ i = Len(queue) + 1
    BY <2>3
  <2>5. InOnePlace'
    BY <1>1, <2>2, <2>3, <2>4 DEF IInv, Placed, InOnePlace, Queued, Fetched, Aside
  <2>6. \A i \in Jobs : Queued(i)' => Queued(i) \/ i = j
    BY <2>3, <2>4 DEF Queued
  <2>7. Placed'
    BY <1>1, <2>1, <2>2, <2>5, <2>6 DEF IInv, Placed, Fetched
  <2> QED BY <1>2, <2>7 DEF IInv
<1> QED BY <1>3, <1>4 DEF Accept, Enqueue

\* Create: nobody works on a job whose record is yet to be created.
LEMMA CreateStep ==
  ASSUME TypeInv, IInv, NEW j \in Jobs, Create(j)
  PROVE  IInv'
<1> USE DEF TypeInv, TypeOK, queueVars, asideVars, endVars, workerVars, storeVars, envVars
<1>1. /\ UNCHANGED <<queue, orphans, stuck, forgotten, acked, dead, inProgress, pc, copy>>
      /\ handler[j] = "create" /\ handler'[j] \in {"202", "500"}
      /\ \A i \in Jobs \ {j} : handler'[i] = handler[i]
      /\ UNCHANGED <<store, created>> \/ StoreQueued(j)
  BY DEF Create
<1>2. Placed'
  BY <1>1 DEF IInv, Placed, InOnePlace, Queued, Fetched, Aside
<1>3. j \notin created /\ store[j] = None /\ j \notin acked
  BY <1>1 DEF IInv, Stored
<1>4. /\ \A i \in Jobs \ {j} : store'[i] = store[i]
      /\ store'[j] \in {None, [status |-> "Queued", report |-> FALSE]}
      /\ created' \in {created, created \cup {j}}
      /\ store'[j] # None => j \in created'
  BY <1>1, <1>3 DEF StoreQueued
<1>5. Stored'
  BY <1>1, <1>3, <1>4 DEF IInv, Stored
<1>6. \A w \in Workers : copy[w] # None \/ pc[w] \in {"trivy", "Report", "Finished", "done"}
        => inProgress[w] \in Jobs \ {j}
  BY <1>3 DEF IInv, Working
<1>7. Working'
  BY <1>1, <1>4, <1>6 DEF IInv, Working
<1>8. FinishedHasReport' /\ AckedIsFinal'
  BY <1>1, <1>3, <1>4 DEF IInv, FinishedHasReport, AckedIsFinal
<1> QED BY <1>2, <1>5, <1>7, <1>8 DEF IInv

\* A key that is gone violates nothing.
LEMMA ExpireStep ==
  ASSUME TypeInv, IInv, NEW j \in Jobs, Expire(j)
  PROVE  IInv'
<1> USE DEF TypeInv, TypeOK, httpVars, queueVars, asideVars, endVars, workerVars
<1>1. /\ UNCHANGED <<handler, queue, orphans, stuck, forgotten, acked, dead,
                  inProgress, pc, copy, created>>
      /\ \A i \in Jobs : store'[i] = store[i] \/ store'[i] = None
  BY DEF Expire
<1>2. Placed'
  BY <1>1 DEF IInv, Placed, InOnePlace, Queued, Fetched, Aside
<1>3. Stored' /\ FinishedHasReport'
  BY <1>1 DEF IInv, Stored, FinishedHasReport
<1>4. AckedIsFinal'
  BY <1>1 DEF IInv, AckedIsFinal
<1>5. Working'
  BY <1>1 DEF IInv, Working, Stored
<1> QED BY <1>2, <1>3, <1>4, <1>5 DEF IInv

\* The pod's death moves what was fetched, and what was stuck, to the orphans.
LEMMA CrashStep ==
  ASSUME TypeInv, IInv, Crash
  PROVE  IInv'
<1> USE ConstantsAssumption DEF TypeInv, TypeOK, asideVars, endVars, storeVars
<1>1. /\ UNCHANGED <<queue, forgotten, acked, dead, store, created>>
      /\ \A w \in Workers : inProgress'[w] = None /\ pc'[w] = "idle" /\ copy'[w] = None
      /\ \A i \in Jobs : handler'[i] = handler[i] \/ handler'[i] = "lost"
      /\ \A i \in Jobs : i \in orphans' <=> i \in orphans \cup stuck \/ Fetched(i)
      /\ stuck' = {}
  BY DEF Crash, Fetched
<1>2. None \notin Aside' /\ Aside' \subseteq Jobs
  BY DEF Crash, Aside
<1>3. \A i \in 1..Len(queue) : queue[i] \in Jobs /\ queue[i] \notin Aside /\ ~Fetched(queue[i])
  BY DEF IInv, Placed, InOnePlace, Fetched
<1>4. \A i \in Jobs : i \in Aside' <=> i \in Aside \/ Fetched(i)
  BY <1>1 DEF Aside
<1>5. \A i \in 1..Len(queue) : queue[i] \notin Aside' /\ queue[i] # None
  BY <1>3, <1>4
<1>6. \A i \in forgotten : i \notin orphans' /\ i \notin stuck'
  BY <1>1 DEF IInv, Placed, InOnePlace, Fetched, Aside
<1>7. InOnePlace'
  BY <1>1, <1>2, <1>5, <1>6 DEF IInv, Placed, InOnePlace
<1>8. \A i \in Jobs : ~Fetched(i)' /\ (Queued(i)' <=> Queued(i))
  BY <1>1 DEF Fetched, Queued
<1>9. Placed'
  BY <1>1, <1>4, <1>7, <1>8 DEF IInv, Placed
<1>10. Stored' /\ FinishedHasReport' /\ AckedIsFinal' /\ Working'
  BY <1>1 DEF IInv, Stored, FinishedHasReport, AckedIsFinal, Working
<1> QED BY <1>9, <1>10 DEF IInv

\* The reaper moves one job from the orphans to the end of the queue, or leaves some
\* of the orphans where nobody looks.
LEMMA ReapStep ==
  ASSUME TypeInv, IInv, NEW j \in Jobs, Reap(j)
  PROVE  IInv'
<1> USE DEF TypeInv, TypeOK, asideVars, endVars, httpVars, workerVars, storeVars
<1>1. UNCHANGED <<handler, stuck, acked, dead, inProgress, pc, copy, store, created>> /\ j \in orphans
  BY DEF Reap
<1>2. Stored' /\ FinishedHasReport' /\ AckedIsFinal' /\ Working'
  BY <1>1 DEF IInv, Stored, FinishedHasReport, AckedIsFinal, Working
<1>3. \/ orphans' = orphans \ {j} /\ queue' = Append(queue, j) /\ UNCHANGED forgotten
      \/ \E lost \in SUBSET orphans :
           /\ orphans' = orphans \ lost /\ forgotten' = forgotten \cup lost /\ queue' = queue
      \/ \E lost \in SUBSET (orphans \ {j}) :
           /\ orphans' = (orphans \ {j}) \ lost /\ forgotten' = forgotten \cup lost
           /\ queue' = Append(queue, j)
  BY DEF Reap
<1>4. Aside' \subseteq Aside /\ stuck' = stuck
  BY <1>1, <1>3 DEF Aside
<1>5. /\ orphans' \cap stuck' = {} /\ forgotten' \cap (orphans' \cup stuck') = {}
      /\ queue' = queue \/ (queue' = Append(queue, j) /\ j \notin Aside')
  BY <1>1, <1>3 DEF IInv, Placed, InOnePlace, Aside
<1>6. CASE queue' = queue
  <2>1. \A i \in Jobs : (Queued(i)' <=> Queued(i)) /\ (Fetched(i)' <=> Fetched(i))
    BY <1>1, <1>6 DEF Queued, Fetched
  <2>2. InOnePlace'
    BY <1>1, <1>4, <1>5, <1>6 DEF IInv, Placed, InOnePlace
  <2> QED BY <1>1, <1>2, <1>4, <2>1, <2>2 DEF IInv, Placed
<1>7. CASE queue' = Append(queue, j) /\ j \notin Aside'
  <2>1. /\ Len(queue') = Len(queue) + 1 /\ Len(queue) \in Nat
        /\ \A i \in 1..Len(queue) : queue'[i] = queue[i]
        /\ queue'[Len(queue) + 1] = j
    BY <1>7, AppendFacts
  <2>2. \A i \in 1..Len(queue') : i \in 1..Len(queue) \/ i = Len(queue) + 1
    BY <2>1
  <2>3. j \in Aside /\ \A i \in 1..Len(queue) : queue[i] # j
    BY <1>1 DEF IInv, Placed, InOnePlace, Aside
  <2>4. InOnePlace'
    BY <1>1, <1>4, <1>5, <1>7, <2>1, <2>2, <2>3 DEF IInv, Placed, InOnePlace
  <2>5. \A i \in Jobs : /\ Queued(i)' => Queued(i) \/ i = j
                        /\ Fetched(i)' <=> Fetched(i)
    BY <1>1, <2>1, <2>2 DEF Queued, Fetched
  <2>6. Placed'
    BY <1>1, <1>4, <2>3, <2>4, <2>5 DEF IInv, Placed
  <2> QED BY <1>2, <2>6 DEF IInv
<1> QED BY <1>5, <1>6, <1>7

----------------------------------------------------------------------------
(* The steps of the workers. *)

\* A worker is alone with its job, and the job is nowhere else.
LEMMA Alone ==
  ASSUME TypeInv, IInv, NEW w \in Workers, inProgress[w] \in Jobs
  PROVE  /\ \A v \in Workers \ {w} : inProgress[v] # inProgress[w]
         /\ inProgress[w] \notin acked \cup dead \cup Aside
         /\ ~Queued(inProgress[w])
         /\ handler[inProgress[w]] \notin {"new", "enqueue"}
<1>1. inProgress[w] # None BY ConstantsAssumption
<1>2. Fetched(inProgress[w]) BY DEF Fetched
<1>3. \A v \in Workers \ {w} : inProgress[v] # inProgress[w]
  BY <1>1 DEF IInv, Placed, InOnePlace
<1>4. inProgress[w] \notin acked \cup dead \cup Aside
  BY <1>2 DEF IInv, Placed, InOnePlace
<1>5. ~Queued(inProgress[w])
  BY DEF IInv, Placed, InOnePlace, Queued
<1>6. handler[inProgress[w]] \notin {"new", "enqueue"}
  BY <1>2 DEF IInv, Placed
<1> QED BY <1>3, <1>4, <1>5, <1>6

\* What a worker does to the queueing machinery while it keeps its job: nothing.
LEMMA PlacedStays ==
  ASSUME TypeInv, IInv,
         UNCHANGED <<handler, queue, orphans, stuck, forgotten, acked, dead, inProgress>>
  PROVE  Placed'
  BY DEF IInv, Placed, InOnePlace, Queued, Fetched, Aside

\* Fetch moves the head of the queue to a worker that had no job, or leaves it stuck.
LEMMA FetchStep ==
  ASSUME TypeInv, IInv, NEW w \in Workers, Fetch(w)
  PROVE  IInv'
<1> DEFINE j == Head(queue)
<1> USE ConstantsAssumption DEF TypeInv, TypeOK, Busy, asideVars, endVars, httpVars, storeVars, envVars
<1>1. /\ UNCHANGED <<handler, orphans, forgotten, acked, dead, copy, store, created>>
      /\ pc[w] = "idle" /\ inProgress[w] = None /\ queue # <<>>
  BY DEF Fetch
<1>2. \/ /\ inProgress' = [inProgress EXCEPT ![w] = j] /\ stuck' = stuck
         /\ pc' = [pc EXCEPT ![w] = "Pending"] /\ queue' = Tail(queue)
      \/ /\ UNCHANGED <<inProgress, pc>> /\ stuck' = stuck \cup {j}
         /\ queue' = Tail(queue)
      \/ UNCHANGED <<queue, stuck, inProgress, pc>>
  BY DEF Fetch
<1>3. Stored' /\ FinishedHasReport' /\ AckedIsFinal'
  BY <1>1 DEF IInv, Stored, FinishedHasReport, AckedIsFinal
<1>4. copy[w] = None
  BY <1>1 DEF IInv, Working, StoreOps
<1>5. CASE UNCHANGED <<queue, stuck, inProgress, pc>>
  BY <1>1, <1>3, <1>5, PlacedStays DEF IInv, Working
<1>6. CASE queue' = Tail(queue)
  <2>1. /\ j \in Jobs /\ j = queue[1] /\ Len(queue) \in Nat \ {0}
        /\ Len(queue') = Len(queue) - 1
        /\ \A i \in 1..Len(queue') : queue'[i] = queue[i + 1]
    BY <1>1, <1>6, TailFacts
  <2> HIDE DEF j
  <2>2. \A i \in 1..Len(queue') : i + 1 \in 1..Len(queue) /\ i + 1 # 1
    BY <2>1
  <2>3. 1 \in 1..Len(queue) BY <2>1
  <2>4. j \notin Aside /\ (\A v \in Workers : inProgress[v] # j) /\ Queued(j)
    BY <2>1, <2>3 DEF IInv, Placed, InOnePlace, Queued
  <2>5. \A i \in 1..Len(queue') : queue'[i] # j
    BY <2>1, <2>2, <2>3 DEF IInv, Placed, InOnePlace
  <2>6. j \notin acked \cup dead /\ handler[j] \notin {"new", "enqueue"}
    BY <2>1, <2>4 DEF IInv, Placed
  <2>7. \A i, k \in 1..Len(queue') : queue'[i] = queue'[k] => i = k
    BY <2>1, <2>2 DEF IInv, Placed, InOnePlace
  <2>8. \A i \in Jobs : Queued(i)' => Queued(i) /\ i # j
    BY <2>1, <2>2, <2>5 DEF Queued
  <2>9. \A i \in 1..Len(queue') :
          queue'[i] \notin Aside /\ \A v \in Workers : inProgress[v] # queue'[i]
    BY <2>1, <2>2 DEF IInv, Placed, InOnePlace
  <2>10. ASSUME inProgress' = [inProgress EXCEPT ![w] = j], stuck' = stuck PROVE Placed'
    <3>1. \A v \in Workers : inProgress'[v] = IF v = w THEN j ELSE inProgress[v]
      BY <2>10
    <3>2. Aside' = Aside BY <1>1, <2>10 DEF Aside
    <3>3. \A u, v \in Workers : inProgress'[u] = inProgress'[v] => u = v \/ inProgress'[u] = None
      BY <2>4, <3>1 DEF IInv, Placed, InOnePlace
    <3>4. /\ \A i \in 1..Len(queue') :
               queue'[i] \notin Aside' /\ \A v \in Workers : inProgress'[v] # queue'[i]
          /\ \A v \in Workers : inProgress'[v] \notin Aside'
      BY <2>4, <2>5, <2>9, <3>1, <3>2 DEF IInv, Placed, InOnePlace
    <3>5. InOnePlace'
      BY <1>1, <2>7, <2>10, <3>3, <3>4 DEF IInv, Placed, InOnePlace
    <3>6. \A i \in Jobs : Fetched(i)' => Fetched(i) \/ i = j
      BY <3>1 DEF Fetched
    <3> QED BY <1>1, <2>6, <2>8, <3>2, <3>5, <3>6 DEF IInv, Placed
  <2>11. ASSUME UNCHANGED inProgress, stuck' = stuck \cup {j} PROVE Placed'
    <3>1. Aside' = Aside \cup {j} BY <1>1, <2>11 DEF Aside
    <3>2. /\ orphans' \cap stuck' = {} /\ forgotten' \cap (orphans' \cup stuck') = {}
      BY <1>1, <2>4, <2>11 DEF IInv, Placed, InOnePlace, Aside
    <3>3. InOnePlace'
      BY <2>4, <2>5, <2>7, <2>9, <2>11, <3>1, <3>2 DEF IInv, Placed, InOnePlace
    <3>4. \A i \in Jobs : Fetched(i)' <=> Fetched(i)
      BY <2>11 DEF Fetched
    <3> QED BY <1>1, <2>6, <2>8, <3>1, <3>3, <3>4 DEF IInv, Placed
  <2>12. Placed'
    <3>1. CASE UNCHANGED <<queue, stuck, inProgress>> BY <1>1, <3>1, PlacedStays
    <3> QED BY <1>2, <2>10, <2>11, <3>1 DEF j
  <2>13. Working'
    BY <1>1, <1>2, <1>4 DEF IInv, Working, StoreOps
  <2> QED BY <1>3, <2>12, <2>13 DEF IInv
<1> QED BY <1>2, <1>5, <1>6

\* The GET of a store operation: the worker now holds the current record.
LEMMA StoreGetStep ==
  ASSUME TypeInv, IInv, NEW w \in Workers, StoreGet(w)
  PROVE  IInv'
<1> DEFINE j == inProgress[w]
<1> USE ConstantsAssumption DEF TypeInv, TypeOK, Busy, httpVars, queueVars, asideVars, endVars, storeVars, envVars
<1>1. /\ UNCHANGED <<handler, queue, orphans, stuck, forgotten, acked, dead,
                  inProgress, store, created>>
      /\ pc[w] \in StoreOps /\ copy[w] = None
      /\ \/ /\ store[j] # None /\ copy' = [copy EXCEPT ![w] = store[j]] /\ pc' = pc
         \/ /\ copy' = copy /\ pc' = [pc EXCEPT ![w] = AfterError(pc[w])]
  BY DEF StoreGet
<1>2. j \in Jobs
  BY <1>1 DEF StoreOps
<1>3. Placed' BY <1>1, PlacedStays
<1>4. Stored' /\ FinishedHasReport' /\ AckedIsFinal'
  BY <1>1 DEF IInv, Stored, FinishedHasReport, AckedIsFinal
<1>5. AfterError(pc[w]) \in {"Failed", "error"}
  BY <1>1 DEF AfterError
<1>6. CASE store[j] # None /\ copy' = [copy EXCEPT ![w] = store[j]] /\ pc' = pc
  <2>1. j \in created BY <1>2, <1>6 DEF IInv, Stored
  <2>2. pc[w] = "Finished" => store[j].report BY <1>6 DEF IInv, Working
  <2> QED BY <1>1, <1>3, <1>4, <1>6, <2>1, <2>2 DEF IInv, Working
<1>7. CASE copy' = copy /\ pc' = [pc EXCEPT ![w] = AfterError(pc[w])]
  BY <1>1, <1>3, <1>4, <1>5, <1>7 DEF IInv, Working, StoreOps
<1> QED BY <1>1, <1>6, <1>7

\* The SET: the worker is the only one that writes the record of its job, so
\* what it writes is what it read, updated.
LEMMA StoreSetStep ==
  ASSUME TypeInv, IInv, NEW w \in Workers, StoreSet(w)
  PROVE  IInv'
<1> DEFINE j == inProgress[w]
           new == Apply(pc[w], copy[w])
<1> USE ConstantsAssumption DEF TypeInv, TypeOK, Busy, httpVars, queueVars, asideVars, endVars, envVars
<1>1. /\ UNCHANGED <<handler, queue, orphans, stuck, forgotten, acked, dead,
                  inProgress, created>>
      /\ pc[w] \in StoreOps /\ copy[w] # None
      /\ copy' = [copy EXCEPT ![w] = None]
      /\ SetXX(j, new) \/ UNCHANGED store
      /\ \/ pc' = [pc EXCEPT ![w] = AfterSuccess(pc[w])] /\ SetXX(j, new)
         \/ pc' = [pc EXCEPT ![w] = AfterError(pc[w])]
  BY DEF StoreSet
<1>2. j \in Jobs /\ copy[w] \in Record
  BY <1>1 DEF StoreOps
<1>3. /\ new \in Record
      /\ pc[w] = "Report" => new = [copy[w] EXCEPT !.report = TRUE]
      /\ pc[w] # "Report" => new = [copy[w] EXCEPT !.status = pc[w]]
  BY <1>1, <1>2, ApplyType
<1> HIDE DEF new
<1>4. /\ \A i \in Jobs \ {j} : store'[i] = store[i]
      /\ store'[j] = None <=> store[j] = None
      /\ store'[j] = store[j] \/ store'[j] = new
  BY <1>1, <1>2, <1>3 DEF SetXX
<1>5. j \in created /\ j \notin acked /\ \A v \in Workers \ {w} : inProgress[v] # j
  BY <1>1, <1>2, Alone DEF IInv, Working
<1>6. Placed' BY <1>1, PlacedStays
<1>7. Stored'
  BY <1>1, <1>4 DEF IInv, Stored
<1>8. /\ pc[w] = "Report" => new.report
      /\ pc[w] = "Finished" => new.report /\ new.status = "Finished"
      /\ pc[w] \in {"Pending", "Failed"} => new.status = pc[w]
  BY <1>1, <1>2, <1>3 DEF IInv, Working, Record
<1>9. new.status = "Finished" => new.report
  BY <1>1, <1>8 DEF StoreOps
<1>10. FinishedHasReport'
  BY <1>4, <1>9 DEF IInv, FinishedHasReport
<1>11. AckedIsFinal'
  BY <1>1, <1>4, <1>5 DEF IInv, AckedIsFinal
<1>12. \/ pc'[w] \in {"Failed", "error"}
       \/ /\ pc'[w] = AfterSuccess(pc[w])
          /\ store'[j] = IF store[j] = None THEN None ELSE new
  BY <1>1, <1>2 DEF AfterError, SetXX
<1>13. /\ pc'[w] \in {"trivy", "Finished", "done", "Failed", "error"}
       /\ pc'[w] = "Finished" => (store'[j] # None => store'[j].report)
       /\ pc'[w] = "done" => store'[j] = None \/ store'[j].status \in {"Finished", "Failed"}
  BY <1>1, <1>8, <1>12 DEF AfterSuccess, StoreOps
<1>14. copy'[w] = None /\ \A v \in Workers \ {w} : pc'[v] = pc[v] /\ copy'[v] = copy[v]
  BY <1>1
<1>15. \A v \in Workers \ {w} : pc[v] # "idle" => store'[inProgress[v]] = store[inProgress[v]]
  BY <1>4, <1>5
<1>16. Working'
  BY <1>1, <1>5, <1>13, <1>14, <1>15 DEF IInv, Working, StoreOps
<1> QED BY <1>6, <1>7, <1>10, <1>11, <1>16 DEF IInv

\* Trivy ends: the worker is about to save the report or to mark the failure.
LEMMA TrivyStep ==
  ASSUME TypeInv, IInv, NEW w \in Workers, Trivy(w)
  PROVE  IInv'
<1> USE DEF TypeInv, TypeOK, httpVars, queueVars, asideVars, endVars, storeVars, envVars
<1>1. /\ UNCHANGED <<handler, queue, orphans, stuck, forgotten, acked, dead,
                  inProgress, copy, store, created>>
      /\ pc[w] = "trivy"
      /\ \A v \in Workers \ {w} : pc'[v] = pc[v]
      /\ pc'[w] = "Report" \/ pc'[w] = "Failed"
  BY DEF Trivy
<1>2. Placed' BY <1>1, PlacedStays
<1>3. Stored' /\ FinishedHasReport' /\ AckedIsFinal'
  BY <1>1 DEF IInv, Stored, FinishedHasReport, AckedIsFinal
<1>4. Working'
  BY <1>1 DEF IInv, Working, StoreOps
<1> QED BY <1>2, <1>3, <1>4 DEF IInv

\* The job leaves the worker, for good or to be stuck in its list.
LEMMA AckStep ==
  ASSUME TypeInv, IInv, NEW w \in Workers, Ack(w)
  PROVE  IInv'
<1> DEFINE j == inProgress[w]
<1> USE ConstantsAssumption DEF TypeInv, TypeOK, Busy, asideVars, endVars, httpVars, storeVars, envVars
<1>1. /\ UNCHANGED <<handler, queue, orphans, forgotten, copy, store, created>>
      /\ inProgress' = [inProgress EXCEPT ![w] = None]
      /\ pc' = [pc EXCEPT ![w] = "idle"]
      /\ pc[w] \in {"done", "error"}
      /\ \/ pc[w] = "done" /\ acked' = acked \cup {j} /\ dead' = dead /\ stuck' = stuck
         \/ acked' = acked /\ dead' = dead \cup {j} /\ stuck' = stuck
         \/ acked' = acked /\ dead' = dead /\ stuck' = stuck \cup {j}
  BY DEF Ack, Remove
<1>2. j \in Jobs /\ j # None
  BY <1>1
<1>3. /\ \A v \in Workers \ {w} : inProgress[v] # j
      /\ j \notin acked \cup dead \cup Aside /\ ~Queued(j)
      /\ handler[j] \notin {"new", "enqueue"}
  BY <1>2, Alone
<1>4. \A v \in Workers : inProgress'[v] = IF v = w THEN None ELSE inProgress[v]
  BY <1>1
<1>5. /\ Aside \subseteq Jobs /\ None \notin Aside
      /\ \A i \in 1..Len(queue) : queue[i] # None /\ queue[i] # j
  BY <1>2, <1>3 DEF Aside, Queued
<1>6. \/ Aside' = Aside /\ acked' \cup dead' = acked \cup dead \cup {j}
      \/ Aside' = Aside \cup {j} /\ acked' \cup dead' = acked \cup dead
  BY <1>1 DEF Aside
<1>7. /\ orphans' \cap stuck' = {} /\ forgotten' \cap (orphans' \cup stuck') = {}
  BY <1>1, <1>3 DEF IInv, Placed, InOnePlace, Aside
<1>8. InOnePlace'
  <2>1. \A i \in 1..Len(queue) :
          queue[i] \notin Aside' /\ \A v \in Workers : inProgress'[v] # queue[i]
    BY <1>4, <1>5, <1>6 DEF IInv, Placed, InOnePlace
  <2>2. \A u, v \in Workers : inProgress'[u] = inProgress'[v] => u = v \/ inProgress'[u] = None
    BY <1>4 DEF IInv, Placed, InOnePlace
  <2>3. \A v \in Workers : inProgress'[v] \notin Aside'
    BY <1>2, <1>3, <1>4, <1>5, <1>6 DEF IInv, Placed, InOnePlace
  <2> QED BY <1>1, <1>7, <2>1, <2>2, <2>3 DEF IInv, Placed, InOnePlace
<1>9. \A i \in Jobs : /\ Queued(i)' <=> Queued(i)
                      /\ Fetched(i)' => Fetched(i) /\ i # j
  BY <1>1, <1>2, <1>3, <1>4 DEF Queued, Fetched
<1>10. Placed'
  BY <1>1, <1>2, <1>3, <1>6, <1>8, <1>9 DEF IInv, Placed
<1>11. pc[w] = "done" => j \in created /\ (store[j] = None \/ store[j].status \in {"Finished", "Failed"})
  BY DEF IInv, Working
<1>12. Stored' /\ FinishedHasReport' /\ AckedIsFinal'
  BY <1>1, <1>11 DEF IInv, Stored, FinishedHasReport, AckedIsFinal
<1>13. copy[w] = None
  BY <1>1 DEF IInv, Working, StoreOps
<1>14. Working'
  BY <1>1, <1>4, <1>13 DEF IInv, Working
<1> QED BY <1>10, <1>12, <1>14 DEF IInv

----------------------------------------------------------------------------
(* The invariant and what follows from it. *)

\* The initial state, where nothing has been requested.
LEMMA InitInv == Init => TypeInv /\ IInv
<1> SUFFICES ASSUME Init PROVE TypeInv /\ IInv OBVIOUS
<1>1. TypeInv
  BY ConstantsAssumption
     DEF Init, TypeInv, TypeOK, Busy, HandlerStates, WorkerStates, StoreOps
<1>2. Len(queue) = 0 /\ \A j \in Jobs : ~Queued(j) /\ ~Fetched(j)
  BY ConstantsAssumption DEF Init, Queued, Fetched
<1>3. InOnePlace
  BY <1>2 DEF Init, InOnePlace, Aside
<1>4. Placed
  BY <1>2, <1>3 DEF Init, Placed, Aside
<1>5. Stored /\ Working /\ FinishedHasReport /\ AckedIsFinal
  BY DEF Init, Stored, Working, FinishedHasReport, AckedIsFinal
<1> QED BY <1>1, <1>4, <1>5 DEF IInv

\* Every step keeps the invariant: one lemma per action.
LEMMA InvStep == TypeInv /\ IInv /\ [Next]_vars => IInv'
<1> SUFFICES ASSUME TypeInv, IInv, [Next]_vars PROVE IInv' OBVIOUS
<1>1. CASE UNCHANGED <<handler, queue, orphans, stuck, forgotten, acked, dead,
                  inProgress, store, pc, copy, created>>
  BY <1>1, PlacedStays DEF IInv, Stored, Working, FinishedHasReport, AckedIsFinal
<1>2. Restart \/ UNCHANGED vars =>
        UNCHANGED <<handler, queue, orphans, stuck, forgotten, acked, dead,
                  inProgress, store, pc, copy, created>>
  BY DEF Restart, vars, httpVars, queueVars, asideVars, endVars, workerVars, storeVars
<1> QED BY <1>1, <1>2, HandlerStep, CreateStep, ExpireStep, ReapStep, FetchStep, StoreGetStep,
           StoreSetStep, TrivyStep, AckStep, CrashStep DEF Next, Quiet

\* All the parts of the invariant together.
LEMMA Invariant == Spec => [](TypeInv /\ IInv)
  BY InitInv, TypeStep, InvStep, PTL DEF Spec

\* A job is in one place: two workers never run the same job, however often the
\* pod crashes and the reaper requeues what it left.
THEOREM JobInOnePlace == Spec => []InOnePlace
<1>1. IInv => InOnePlace BY DEF IInv, Placed
<1> QED BY <1>1, Invariant, PTL

\* Every client that reads Finished reads a report with it: scan() writes the
\* report first, and no crash, expiry or rerun separates the two.
THEOREM FinishedComesWithReport == Spec => []FinishedHasReport
<1>1. IInv => FinishedHasReport BY DEF IInv
<1> QED BY <1>1, Invariant, PTL

\* A job that gocraft was told is done stays Finished or Failed until its key
\* expires.
THEOREM AckedStaysFinal == Spec => []AckedIsFinal
<1>1. IInv => AckedIsFinal BY DEF IInv
<1> QED BY <1>1, Invariant, PTL

----------------------------------------------------------------------------
(* The dead set while Redis answers. *)

\* Without faults a worker gives up on a job only when its record is missing;
\* afterwards nobody but Create can write it.
GaveUp ==
  faults = 0 => \A w \in Workers : pc[w] = "error" =>
    store[inProgress[w]] = None \/ store[inProgress[w]].status = "Queued"

\* Steps that write no existing record and end no job.
LEMMA CalmStays ==
  ASSUME TypeInv, GaveUp, DeadNeverStarted, UNCHANGED dead, faults' = 0 => faults = 0,
         \A j \in Jobs : store'[j] \in {store[j], None} \/ store'[j].status = "Queued",
         \A w \in Workers : pc'[w] = "error" => pc[w] = "error" /\ inProgress'[w] = inProgress[w]
  PROVE  GaveUp' /\ DeadNeverStarted'
<1> USE ConstantsAssumption DEF TypeInv, TypeOK, Busy
<1>1. DeadNeverStarted'
  BY DEF DeadNeverStarted
<1>2. \A w \in Workers : pc[w] = "error" => inProgress[w] \in Jobs
  OBVIOUS
<1>3. GaveUp'
  BY <1>2 DEF GaveUp
<1> QED BY <1>1, <1>3

\* Every step keeps both.
LEMMA CalmStep ==
  TypeInv /\ IInv /\ GaveUp /\ DeadNeverStarted /\ [Next]_vars => GaveUp' /\ DeadNeverStarted'
<1> SUFFICES ASSUME TypeInv, IInv, GaveUp, DeadNeverStarted, [Next]_vars
             PROVE  GaveUp' /\ DeadNeverStarted'
  OBVIOUS
<1> USE ConstantsAssumption
    DEF TypeInv, TypeOK, Busy, httpVars, queueVars, asideVars, endVars, workerVars, storeVars, envVars
<1>1. ASSUME NEW j \in Jobs, Accept(j) \/ Enqueue(j) \/ Reap(j) PROVE GaveUp' /\ DeadNeverStarted'
  BY <1>1, CalmStays DEF Accept, Enqueue, Reap, Fault
<1>2. ASSUME NEW j \in Jobs, Create(j) PROVE GaveUp' /\ DeadNeverStarted'
  <2>1. \A i \in Jobs : store'[i] = store[i] \/ store'[i].status = "Queued"
    BY <1>2 DEF Create, StoreQueued
  <2> QED BY <1>2, <2>1, CalmStays DEF Create, Fault
<1>3. ASSUME NEW j \in Jobs, Expire(j) PROVE GaveUp' /\ DeadNeverStarted'
  BY <1>3, CalmStays DEF Expire
<1>4. ASSUME NEW w \in Workers, Fetch(w) PROVE GaveUp' /\ DeadNeverStarted'
  BY <1>4, CalmStays DEF Fetch, Fault
<1>5. ASSUME NEW w \in Workers, Trivy(w) PROVE GaveUp' /\ DeadNeverStarted'
  BY <1>5, CalmStays DEF Trivy
<1>6. CASE Crash \/ Restart \/ UNCHANGED vars
  BY <1>6, CalmStays DEF Crash, Restart, vars
<1>7. ASSUME NEW w \in Workers, StoreGet(w) PROVE GaveUp' /\ DeadNeverStarted'
  <2>1. /\ UNCHANGED <<store, dead, inProgress>>
        /\ \A v \in Workers \ {w} : pc'[v] = pc[v]
        /\ faults' = faults \/ faults' = faults + 1
        /\ pc[w] # "error"
        /\ faults' = faults => pc'[w] = pc[w] \/ store[inProgress[w]] = None
    BY <1>7 DEF StoreGet, Fault, StoreOps
  <2> QED BY <2>1 DEF GaveUp, DeadNeverStarted
<1>8. ASSUME NEW w \in Workers, StoreSet(w) PROVE GaveUp' /\ DeadNeverStarted'
  <2> DEFINE j == inProgress[w]
  <2>1. /\ UNCHANGED <<dead, inProgress>> /\ pc[w] \in StoreOps
        /\ \A v \in Workers \ {w} : pc'[v] = pc[v]
        /\ faults' = faults \/ faults' = faults + 1
        /\ faults' = faults => pc'[w] = AfterSuccess(pc[w])
    BY <1>8 DEF StoreSet, Fault
  <2>2. j \in Jobs BY <2>1 DEF StoreOps
  <2>3. \A i \in Jobs \ {j} : store'[i] = store[i]
    BY <1>8, <2>2 DEF StoreSet, SetXX
  <2>4. j \notin dead /\ \A v \in Workers \ {w} : inProgress[v] # j
    BY <2>2, Alone
  <2>5. faults' = faults => pc'[w] # "error"
    BY <2>1 DEF AfterSuccess, StoreOps
  <2>6. DeadNeverStarted'
    BY <2>1, <2>3, <2>4 DEF DeadNeverStarted
  <2>7. \A v \in Workers : pc[v] = "error" => inProgress[v] \in Jobs
    OBVIOUS
  <2>8. GaveUp'
    BY <2>1, <2>3, <2>4, <2>5, <2>7 DEF GaveUp
  <2> QED BY <2>6, <2>8
<1>9. ASSUME NEW w \in Workers, Ack(w) PROVE GaveUp' /\ DeadNeverStarted'
  <2>1. /\ UNCHANGED store /\ (faults' = faults \/ faults' = faults + 1)
        /\ \A v \in Workers \ {w} : pc'[v] = pc[v] /\ inProgress'[v] = inProgress[v]
        /\ pc'[w] = "idle"
    BY <1>9 DEF Ack, Fault
  <2>2. dead' = dead \/ (pc[w] = "error" /\ dead' = dead \cup {inProgress[w]})
    BY <1>9 DEF Ack, Remove
  <2>3. GaveUp'
    BY <2>1 DEF GaveUp
  <2>4. inProgress[w] \in Jobs \/ dead' = dead
    BY <2>2
  <2>5. faults = 0 /\ pc[w] = "error"
          => store[inProgress[w]] = None \/ store[inProgress[w]].status = "Queued"
    BY DEF GaveUp
  <2>6. DeadNeverStarted'
    BY <2>1, <2>2, <2>4, <2>5 DEF DeadNeverStarted
  <2> QED BY <2>3, <2>6
<1> QED BY <1>1, <1>2, <1>3, <1>4, <1>5, <1>6, <1>7, <1>8, <1>9 DEF Next, Quiet

\* While Redis answers, the dead set holds no job that is being scanned or has
\* an outcome: Scan() marks every failure in the store before it returns.
THEOREM DeadJobsNeverStarted == Spec => []DeadNeverStarted
<1>1. Init => GaveUp /\ DeadNeverStarted
  BY DEF Init, GaveUp, DeadNeverStarted
<1> QED BY <1>1, CalmStep, Invariant, PTL DEF Spec

----------------------------------------------------------------------------
(***************************************************************************)
(* ScanJob implements ReportService, for any jobs, workers and bounds: the *)
(* replies a client polls for change only as the abstract service allows.  *)
(*                                                                         *)
(* Beyond the invariant this needs to know what the record says while a    *)
(* worker is at it (Held), and that before the first fault or crash every  *)
(* scan is the job's first (FirstRun): otherwise a rerun would take back an *)
(* answer that a client already has.                                       *)
(***************************************************************************)

InStatus(j, statuses) == store[j] = None \/ store[j].status \in statuses

\* A worker's copy is the current record, and a scan under way is Pending.
Held ==
  \A w \in Workers :
    /\ copy[w] # None /\ store[inProgress[w]] # None => copy[w] = store[inProgress[w]]
    /\ pc[w] \in {"trivy", "Report", "Finished"} => InStatus(inProgress[w], {"Pending"})

\* Until something fails, no job comes back to the queue with a record that a
\* worker has touched, and none is marked Failed after it Finished.
FirstRun ==
  faults = 0 /\ crashes = 0 =>
    /\ Aside = {}
    /\ \A j \in Jobs : Queued(j) => InStatus(j, {"Queued"})
    /\ \A w \in Workers :
         /\ pc[w] = "Pending" => InStatus(inProgress[w], {"Queued"})
         /\ pc[w] = "Failed" => InStatus(inProgress[w], {"Queued", "Pending"})

RInv == TypeInv /\ IInv /\ Held /\ FirstRun

----------------------------------------------------------------------------
(* What each action does to the records and the workers, in one place. *)

\* Create writes a record nobody has seen.
LEMMA CreateEffect ==
  ASSUME RInv, NEW j \in Jobs, Create(j)
  PROVE  /\ UNCHANGED <<queue, orphans, stuck, forgotten, inProgress, pc, copy, crashes>>
         /\ faults' \in {faults, faults + 1}
         /\ \/ UNCHANGED <<store, created>>
            \/ /\ store[j] = None /\ j \notin created /\ created' = created \cup {j}
               /\ store' = [store EXCEPT ![j] = [status |-> "Queued", report |-> FALSE]]
<1> USE DEF RInv, TypeInv, TypeOK, queueVars, asideVars, endVars, workerVars, storeVars, envVars
<1>1. store[j] = None /\ j \notin created
  BY DEF IInv, Stored, Create
<1>2. UNCHANGED <<store, created>> \/ StoreQueued(j)
  BY DEF Create
<1>3. StoreQueued(j) => /\ created' = created \cup {j}
                        /\ store' = [store EXCEPT ![j] = [status |-> "Queued", report |-> FALSE]]
  BY <1>1 DEF StoreQueued
<1>4. UNCHANGED <<queue, orphans, stuck, forgotten, inProgress, pc, copy, crashes>> /\ faults' \in {faults, faults + 1}
  BY DEF Create, Fault
<1> QED BY <1>1, <1>2, <1>3, <1>4

\* A SET changes the record of its own job only, and only if it is there.
LEMMA StoreSetEffect ==
  ASSUME RInv, NEW w \in Workers, StoreSet(w)
  PROVE  LET j == inProgress[w]
             new == Apply(pc[w], copy[w])
         IN /\ UNCHANGED <<queue, orphans, stuck, forgotten, inProgress, created, crashes>>
            /\ pc[w] \in StoreOps /\ j \in Jobs /\ copy[w] \in Record
            /\ \A i \in Jobs \ {j} : store'[i] = store[i]
            /\ \A v \in Workers \ {w} : /\ inProgress[v] # j
                                        /\ pc'[v] = pc[v] /\ copy'[v] = copy[v]
            /\ copy'[w] = None
            /\ ~Queued(j)
            /\ \/ store' = store
               \/ /\ store[j] # None /\ copy[w] = store[j]
                  /\ store' = [store EXCEPT ![j] = new]
            /\ \/ /\ faults' = faults /\ pc'[w] = AfterSuccess(pc[w])
                  /\ store'[j] = IF store[j] = None THEN None ELSE new
               \/ faults' = faults + 1 /\ pc'[w] \in {"Failed", "error"}
<1> DEFINE j == inProgress[w]
           new == Apply(pc[w], copy[w])
<1> USE ConstantsAssumption DEF RInv, TypeInv, TypeOK, Busy, httpVars, queueVars, asideVars, endVars, envVars
<1>1. /\ UNCHANGED <<queue, orphans, stuck, forgotten, inProgress, created, crashes>>
      /\ pc[w] \in StoreOps /\ copy[w] # None
      /\ copy' = [copy EXCEPT ![w] = None]
  BY DEF StoreSet
<1>2. j \in Jobs /\ copy[w] \in Record
  BY <1>1 DEF StoreOps
<1>3. \/ /\ faults' = faults /\ pc' = [pc EXCEPT ![w] = AfterSuccess(pc[w])] /\ SetXX(j, new)
      \/ /\ faults' = faults + 1 /\ pc' = [pc EXCEPT ![w] = AfterError(pc[w])]
         /\ SetXX(j, new) \/ store' = store
  BY DEF StoreSet, Fault
<1>4. AfterError(pc[w]) \in {"Failed", "error"}
  BY DEF AfterError
<1>5. ~Queued(j) /\ \A v \in Workers \ {w} : inProgress[v] # j
  BY <1>2, Alone
<1>6. store[j] # None => copy[w] = store[j]
  BY <1>1 DEF Held
<1> HIDE DEF new
<1>7. \/ store' = store
      \/ store[j] # None /\ store' = [store EXCEPT ![j] = new]
  BY <1>3 DEF SetXX
<1>8. \A i \in Jobs \ {j} : store'[i] = store[i]
  BY <1>2, <1>7
<1>9. SetXX(j, new) => store'[j] = IF store[j] = None THEN None ELSE new
  BY <1>2 DEF SetXX
<1>10. \A v \in Workers \ {w} : pc'[v] = pc[v] /\ copy'[v] = copy[v]
  BY <1>1, <1>3
<1>11. \/ /\ faults' = faults /\ pc'[w] = AfterSuccess(pc[w])
          /\ store'[j] = IF store[j] = None THEN None ELSE new
       \/ faults' = faults + 1 /\ pc'[w] \in {"Failed", "error"}
  BY <1>3, <1>4, <1>9
<1>12. copy'[w] = None
  BY <1>1
<1> QED BY <1>1, <1>2, <1>5, <1>6, <1>7, <1>8, <1>10, <1>11, <1>12 DEF new

----------------------------------------------------------------------------
(* Held and FirstRun are inductive together with the invariant. *)

LEMMA HeldStep == RInv /\ [Next]_vars => Held'
<1> SUFFICES ASSUME RInv, [Next]_vars PROVE Held' OBVIOUS
<1> USE ConstantsAssumption DEF RInv, TypeInv, TypeOK, Busy
<1>1. ASSUME NEW j \in Jobs, Accept(j) \/ Enqueue(j) \/ Reap(j) PROVE Held'
  BY <1>1 DEF Accept, Enqueue, Reap, Held, InStatus, workerVars, storeVars
<1>2. ASSUME NEW j \in Jobs, Create(j) PROVE Held'
  <2>1. \A w \in Workers : copy[w] # None \/ pc[w] \in {"trivy", "Report", "Finished"}
          => inProgress[w] \in created
    BY DEF IInv, Working
  <2>2. \A w \in Workers : copy[w] # None => inProgress[w] \in Jobs
    BY DEF IInv, Working, StoreOps
  <2> QED BY <1>2, <2>1, <2>2, CreateEffect DEF Held, InStatus
<1>3. ASSUME NEW j \in Jobs, Expire(j) PROVE Held'
  <2>1. \A i \in Jobs : store'[i] = store[i] \/ store'[i] = None
    BY <1>3 DEF Expire
  <2>2. \A w \in Workers : copy[w] # None => inProgress[w] \in Jobs
    BY DEF IInv, Working, StoreOps
  <2> QED BY <1>3, <2>1, <2>2 DEF Expire, Held, InStatus, workerVars
<1>4. ASSUME NEW w \in Workers, Fetch(w) PROVE Held'
  <2>1. copy[w] = None
    BY <1>4 DEF Fetch, IInv, Working, StoreOps
  <2> QED BY <1>4, <2>1 DEF Fetch, Held, InStatus, storeVars
<1>5. ASSUME NEW w \in Workers, StoreGet(w) PROVE Held'
  <2>1. AfterError(pc[w]) \in {"Failed", "error"} BY DEF AfterError
  <2> QED BY <1>5, <2>1 DEF StoreGet, Held, InStatus, storeVars
<1>6. ASSUME NEW w \in Workers, StoreSet(w) PROVE Held'
  <2> DEFINE j == inProgress[w]
             new == Apply(pc[w], copy[w])
  <2>1. /\ UNCHANGED inProgress
        /\ pc[w] \in StoreOps /\ j \in Jobs /\ copy[w] \in Record
        /\ \A i \in Jobs \ {j} : store'[i] = store[i]
        /\ \A v \in Workers \ {w} : inProgress[v] # j /\ pc'[v] = pc[v] /\ copy'[v] = copy[v]
        /\ copy'[w] = None
    BY <1>6, StoreSetEffect
  <2>2. \A v \in Workers : copy[v] # None => inProgress[v] \in Jobs
    BY DEF IInv, Working, StoreOps
  <2>3. \A v \in Workers \ {w} :
          /\ copy'[v] # None /\ store'[inProgress[v]] # None => copy'[v] = store'[inProgress[v]]
          /\ pc'[v] \in {"trivy", "Report", "Finished"} => InStatus(inProgress[v], {"Pending"})'
    BY <2>1, <2>2 DEF Held, InStatus
  <2>4. CASE pc'[w] \in {"Failed", "error"}
    BY <2>1, <2>3, <2>4 DEF Held
  <2>5. CASE pc'[w] = AfterSuccess(pc[w]) /\ store'[j] = IF store[j] = None THEN None ELSE new
    <3>1. pc[w] \in {"Finished", "Failed"} => pc'[w] = "done"
      BY <2>5 DEF AfterSuccess
    <3>2. pc[w] = "Pending" => new.status = "Pending"
      BY <2>1, ApplyType DEF Record
    <3>3. pc[w] = "Report" => new.status = copy[w].status
      BY <2>1, ApplyType DEF Record
    <3>4. pc[w] = "Report" /\ store[j] # None => copy[w].status = "Pending"
      BY <2>1 DEF Held, InStatus, Record
    <3>5. pc'[w] \in {"trivy", "Report", "Finished"} => InStatus(j, {"Pending"})'
      BY <2>1, <2>5, <3>1, <3>2, <3>3, <3>4 DEF InStatus, StoreOps
    <3> QED BY <2>1, <2>3, <3>5 DEF Held
  <2> QED BY <1>6, <2>4, <2>5, StoreSetEffect
<1>7. ASSUME NEW w \in Workers, Trivy(w) PROVE Held'
  BY <1>7 DEF Trivy, Held, InStatus, storeVars
<1>8. ASSUME NEW w \in Workers, Ack(w) PROVE Held'
  <2>1. copy[w] = None
    BY <1>8 DEF Ack, IInv, Working, StoreOps
  <2> QED BY <1>8, <2>1 DEF Ack, Held, InStatus, storeVars
<1>9. CASE Crash \/ Restart \/ UNCHANGED vars
  BY <1>9 DEF Crash, Restart, vars, Held, InStatus, workerVars, storeVars
<1> QED BY <1>1, <1>2, <1>3, <1>4, <1>5, <1>6, <1>7, <1>8, <1>9 DEF Next, Quiet

LEMMA FirstRunStep == RInv /\ [Next]_vars => FirstRun'
<1> SUFFICES ASSUME RInv, [Next]_vars, faults' = 0 /\ crashes' = 0 PROVE FirstRun'
  BY DEF FirstRun
<1> USE ConstantsAssumption DEF RInv, TypeInv, TypeOK, Busy
<1>1. ASSUME NEW j \in Jobs, Accept(j) \/ Enqueue(j) PROVE FirstRun'
  <2>1. /\ UNCHANGED <<orphans, stuck, forgotten, inProgress, pc, store, crashes>> /\ faults = 0
        /\ queue' = queue \/ (queue' = Append(queue, j) /\ store[j] = None)
    BY <1>1 DEF Accept, Enqueue, Fault, queueVars, asideVars, endVars, workerVars, storeVars, envVars, IInv, Stored
  <2>2. \A i \in Jobs : Queued(i)' => Queued(i) \/ (i = j /\ store[j] = None)
    <3>1. CASE queue' = queue BY <3>1 DEF Queued
    <3>2. CASE queue' = Append(queue, j) /\ store[j] = None
      BY <3>2, AppendFacts DEF Queued
    <3> QED BY <2>1, <3>1, <3>2
  <2> QED BY <2>1, <2>2 DEF FirstRun, InStatus, Aside
<1>2. ASSUME NEW j \in Jobs, Create(j) PROVE FirstRun'
  <2>1. /\ UNCHANGED <<queue, orphans, stuck, forgotten, inProgress, pc, crashes>> /\ faults = 0
        /\ \A i \in Jobs : store'[i] = store[i] \/ store'[i].status = "Queued"
    BY <1>2, CreateEffect
  <2>2. \A w \in Workers : pc[w] \in {"Pending", "Failed"} => inProgress[w] \in Jobs
    OBVIOUS
  <2> QED BY <2>1, <2>2 DEF FirstRun, InStatus, Aside, Queued
<1>3. ASSUME NEW j \in Jobs, Expire(j) PROVE FirstRun'
  <2>1. /\ UNCHANGED <<queue, orphans, stuck, forgotten, inProgress, pc, crashes, faults>>
        /\ \A i \in Jobs : store'[i] = store[i] \/ store'[i] = None
    BY <1>3 DEF Expire, queueVars, asideVars, endVars, workerVars
  <2>2. \A w \in Workers : pc[w] \in {"Pending", "Failed"} => inProgress[w] \in Jobs
    OBVIOUS
  <2> QED BY <2>1, <2>2 DEF FirstRun, InStatus, Aside, Queued
<1>4. ASSUME NEW j \in Jobs, Reap(j) PROVE FirstRun'
  BY <1>4 DEF Reap, FirstRun, Aside, Fault, envVars
<1>5. ASSUME NEW w \in Workers, Fetch(w) PROVE FirstRun'
  <2>1. /\ UNCHANGED <<orphans, stuck, forgotten, store, crashes, faults>>
        /\ queue # <<>> /\ queue' = Tail(queue)
        /\ inProgress' = [inProgress EXCEPT ![w] = Head(queue)]
        /\ pc' = [pc EXCEPT ![w] = "Pending"]
    BY <1>5 DEF Fetch, Fault, storeVars, envVars
  <2>2. /\ Head(queue) \in Jobs /\ Head(queue) = queue[1] /\ Len(queue) \in Nat \ {0}
        /\ Len(queue') = Len(queue) - 1
        /\ \A i \in 1..Len(queue') : queue'[i] = queue[i + 1]
    BY <2>1, TailFacts
  <2>3. \A i \in Jobs : Queued(i)' => Queued(i)
    BY <2>2 DEF Queued
  <2>4. Queued(Head(queue))
    BY <2>2 DEF Queued
  <2> QED BY <2>1, <2>2, <2>3, <2>4 DEF FirstRun, InStatus, Aside
<1>6. ASSUME NEW w \in Workers, StoreGet(w) PROVE FirstRun'
  <2>1. /\ UNCHANGED <<queue, orphans, stuck, forgotten, inProgress, store, crashes>> /\ faults = 0
        /\ \A v \in Workers \ {w} : pc'[v] = pc[v]
        /\ \/ pc'[w] = pc[w]
           \/ store[inProgress[w]] = None /\ pc'[w] # "Pending"
    BY <1>6 DEF StoreGet, Fault, AfterError, queueVars, asideVars, endVars, storeVars, envVars
  <2> QED BY <2>1 DEF FirstRun, InStatus, Aside, Queued
<1>7. ASSUME NEW w \in Workers, StoreSet(w) PROVE FirstRun'
  <2> DEFINE j == inProgress[w]
  <2>1. /\ UNCHANGED <<queue, orphans, stuck, forgotten, inProgress, crashes>> /\ pc[w] \in StoreOps
        /\ \A i \in Jobs \ {j} : store'[i] = store[i]
        /\ \A v \in Workers \ {w} : inProgress[v] # j /\ pc'[v] = pc[v]
        /\ ~Queued(j) /\ faults = 0 /\ pc'[w] = AfterSuccess(pc[w])
    BY <1>7, StoreSetEffect
  <2>2. pc'[w] \notin {"Pending", "Failed"}
    BY <2>1 DEF AfterSuccess, StoreOps
  <2>3. \A v \in Workers : pc[v] \in {"Pending", "Failed"} => inProgress[v] \in Jobs
    OBVIOUS
  <2>4. \A i \in Jobs : Queued(i)' => Queued(i) /\ i # j
    BY <2>1 DEF Queued
  <2> QED BY <2>1, <2>2, <2>3, <2>4 DEF FirstRun, InStatus, Aside
<1>8. ASSUME NEW w \in Workers, Trivy(w) PROVE FirstRun'
  BY <1>8 DEF Trivy, FirstRun, Aside, Held, InStatus, Queued, queueVars, asideVars, endVars, storeVars, envVars
<1>9. ASSUME NEW w \in Workers, Ack(w) PROVE FirstRun'
  <2>1. UNCHANGED <<queue, orphans, stuck, forgotten, store, crashes, faults>>
    BY <1>9 DEF Ack, Fault, storeVars, envVars
  <2>2. \A v \in Workers : pc'[v] # "idle" => pc'[v] = pc[v] /\ inProgress'[v] = inProgress[v]
    BY <1>9 DEF Ack
  <2> QED BY <2>1, <2>2 DEF FirstRun, InStatus, Queued, Aside
<1>10. CASE Crash
  BY <1>10 DEF Crash
<1>11. CASE Restart \/ UNCHANGED vars
  BY <1>11 DEF Restart, vars, FirstRun, Aside, InStatus, Queued, queueVars, asideVars, endVars, workerVars, storeVars
<1> QED BY <1>1, <1>2, <1>3, <1>4, <1>5, <1>6, <1>7, <1>8, <1>9, <1>10, <1>11 DEF Next, Quiet

\* All that the refinement rests on.
LEMMA RInvariant == Spec => []RInv
<1>1. Init => Held /\ FirstRun
  BY DEF Init, Held, FirstRun, InStatus, Queued, Aside
<1> QED BY <1>1, Invariant, HeldStep, FirstRunStep, PTL DEF Spec, RInv

----------------------------------------------------------------------------
(* Steps of ScanJob are steps of ReportService. *)

\* The codes GetScanReport chooses.
LEMMA Replies ==
  ASSUME NEW r \in Record \cup {None}, r # None /\ r.status = "Finished" => r.report
  PROVE  /\ r = None => Reply(r) = "404"
         /\ r # None /\ r.status \in {"Queued", "Pending"} => Reply(r) = "302"
         /\ r # None /\ r.status = "Finished" => Reply(r) = "200"
         /\ r # None /\ r.status = "Failed" => Reply(r) = "500"
  BY ConstantsAssumption DEF Reply, Record

\* Calm ends with the first fault or crash and never comes back.
LEMMA CalmFalls ==
  ASSUME TypeInv, [Next]_vars
  PROVE  (faults' = 0 /\ crashes' = 0) => (faults = 0 /\ crashes = 0)
<1> USE DEF TypeInv, TypeOK, Fault, envVars
<1>1. ASSUME NEW j \in Jobs, Accept(j) \/ Enqueue(j) \/ Create(j) \/ Expire(j) \/ Reap(j)
      PROVE  faults' \in {faults, faults + 1} /\ crashes' = crashes
  BY <1>1 DEF Accept, Enqueue, Create, Expire, Reap
<1>2. ASSUME NEW w \in Workers, Fetch(w) \/ StoreGet(w) \/ StoreSet(w) \/ Trivy(w) \/ Ack(w)
      PROVE  faults' \in {faults, faults + 1} /\ crashes' = crashes
  BY <1>2 DEF Fetch, StoreGet, StoreSet, Trivy, Ack
<1>3. Crash \/ Restart \/ UNCHANGED vars
        => faults' = faults /\ crashes' \in {crashes, crashes + 1}
  BY DEF Crash, Restart, vars
<1> QED BY <1>1, <1>2, <1>3 DEF Next, Quiet

\* Only Create, StoreSet and Expire touch what a client can see.
LEMMA Unseen ==
  ASSUME [Next]_vars
  PROVE  \/ UNCHANGED <<store, created>>
         \/ \E j \in Jobs : Create(j) \/ Expire(j)
         \/ \E w \in Workers : StoreSet(w)
  BY DEF Next, Accept, Enqueue, Reap, Fetch, StoreGet, Trivy, Ack, Crash, Restart, Quiet, vars,
         storeVars

\* What one write of a record, by whatever action, may look like to a client.
LEMMA Visible ==
  ASSUME RInv, RInv', [Next]_vars
  PROVE  \/ UNCHANGED created /\ \A i \in Jobs : GetScanReport(i)' = GetScanReport(i)
         \/ \E j \in Jobs :
              /\ \A i \in Jobs \ {j} : store'[i] = store[i]
              /\ \/ /\ j \notin created /\ created' = created \cup {j}
                    /\ GetScanReport(j)' = "302"
                 \/ /\ created' = created
                    /\ \/ GetScanReport(j)' = "404"
                       \/ GetScanReport(j) = "302" /\ GetScanReport(j)' \in {"200", "500"}
                       \/ /\ ~(faults' = 0 /\ crashes' = 0)
                          /\ GetScanReport(j) \in {"200", "500"}
                          /\ GetScanReport(j)' \in {"302", "500"}
<1> USE ConstantsAssumption DEF RInv, TypeInv, TypeOK
<1>1. \A i \in Jobs :
        /\ store[i] # None /\ store[i].status = "Finished" => store[i].report
        /\ store'[i] # None /\ store'[i].status = "Finished" => store'[i].report
  BY DEF IInv, FinishedHasReport
<1>2. CASE UNCHANGED <<store, created>>
  BY <1>2 DEF GetScanReport
<1>3. ASSUME NEW j \in Jobs, Create(j), ~UNCHANGED <<store, created>>
      PROVE  /\ \A i \in Jobs \ {j} : store'[i] = store[i]
             /\ j \notin created /\ created' = created \cup {j}
             /\ GetScanReport(j)' = "302"
  <2>1. /\ j \notin created /\ created' = created \cup {j}
        /\ store' = [store EXCEPT ![j] = [status |-> "Queued", report |-> FALSE]]
    BY <1>3, CreateEffect
  <2>2. store'[j] \in Record /\ store'[j].status = "Queued" BY <2>1 DEF Record, Statuses
  <2>3. store'[j] # None BY <2>2
  <2>4. Reply(store'[j]) = "302" BY <1>1, <2>2, <2>3, Replies
  <2> QED BY <2>1, <2>4 DEF GetScanReport
<1>4. ASSUME NEW j \in Jobs, Expire(j)
      PROVE  /\ \A i \in Jobs \ {j} : store'[i] = store[i]
             /\ created' = created /\ GetScanReport(j)' = "404"
  BY <1>1, <1>4, Replies DEF Expire, GetScanReport
<1>5. ASSUME NEW w \in Workers, StoreSet(w), store' # store, NEW j \in Jobs, j = inProgress[w]
      PROVE  /\ \A i \in Jobs \ {j} : store'[i] = store[i]
             /\ created' = created
             /\ \/ GetScanReport(j)' = GetScanReport(j)
                \/ GetScanReport(j) = "302" /\ GetScanReport(j)' \in {"200", "500"}
                \/ /\ ~(faults' = 0 /\ crashes' = 0)
                   /\ GetScanReport(j) \in {"200", "500"}
                   /\ GetScanReport(j)' \in {"302", "500"}
  <2> DEFINE old == store[j]
             new == Apply(pc[w], copy[w])
  <2>1. /\ pc[w] \in StoreOps /\ created' = created /\ crashes' = crashes
        /\ old # None /\ copy[w] = old /\ copy[w] \in Record
        /\ store' = [store EXCEPT ![j] = new]
        /\ faults' \in {faults, faults + 1}
        /\ \A i \in Jobs \ {j} : store'[i] = store[i]
    BY <1>5, StoreSetEffect
  <2>2. /\ new \in Record
        /\ pc[w] = "Report" => new.status = old.status
        /\ pc[w] # "Report" => new.status = pc[w]
    <3>1. /\ new \in Record
          /\ pc[w] = "Report" => new = [copy[w] EXCEPT !.report = TRUE]
          /\ pc[w] # "Report" => new = [copy[w] EXCEPT !.status = pc[w]]
      BY <2>1, ApplyType
    <3> HIDE DEF new
    <3> QED BY <2>1, <3>1 DEF Record
  <2>3. store'[j] = new /\ new # None BY <2>1, <2>2
  <2> HIDE DEF new
  <2>4. /\ old.status \in {"Queued", "Pending"} => GetScanReport(j) = "302"
        /\ old.status = "Finished" => GetScanReport(j) = "200"
        /\ old.status = "Failed" => GetScanReport(j) = "500"
    BY <1>1, <2>1, Replies DEF GetScanReport
  <2>5. /\ new.status \in {"Queued", "Pending"} => GetScanReport(j)' = "302"
        /\ new.status = "Finished" => GetScanReport(j)' = "200"
        /\ new.status = "Failed" => GetScanReport(j)' = "500"
    <3>1. GetScanReport(j)' = Reply(new) BY <2>3 DEF GetScanReport
    <3>2. new.status = "Finished" => new.report BY <1>1, <2>1, <2>3
    <3> QED BY <2>2, <2>3, <3>1, <3>2, Replies
  <2>6. old.status \in Statuses BY <2>1 DEF Record
  <2>7. faults' = 0 /\ crashes' = 0 => faults = 0 /\ crashes = 0
    BY CalmFalls
  <2>8. CASE pc[w] = "Report"
    BY <2>1, <2>2, <2>4, <2>5, <2>6, <2>8 DEF Statuses
  <2>9. CASE pc[w] = "Pending"
    <3>1. faults' = 0 /\ crashes' = 0 => old.status = "Queued"
      BY <1>5, <2>1, <2>7, <2>9 DEF FirstRun, InStatus
    <3> QED BY <2>1, <2>2, <2>4, <2>5, <2>6, <2>9, <3>1 DEF Statuses
  <2>10. CASE pc[w] = "Finished"
    <3>1. old.status = "Pending"
      BY <1>5, <2>1, <2>10 DEF Held, InStatus
    <3> QED BY <2>1, <2>2, <2>4, <2>5, <2>10, <3>1
  <2>11. CASE pc[w] = "Failed"
    <3>1. faults' = 0 /\ crashes' = 0 => old.status \in {"Queued", "Pending"}
      BY <1>5, <2>1, <2>7, <2>11 DEF FirstRun, InStatus
    <3> QED BY <2>1, <2>2, <2>4, <2>5, <2>6, <2>11, <3>1 DEF Statuses
  <2> QED BY <2>1, <2>8, <2>9, <2>10, <2>11 DEF StoreOps
<1>6. ASSUME NEW w \in Workers, StoreSet(w), store' = store PROVE UNCHANGED <<store, created>>
  BY <1>6, StoreSetEffect
<1>7. \A w \in Workers : StoreSet(w) => inProgress[w] \in Jobs
  BY StoreSetEffect
<1>8. CASE \E j \in Jobs : Create(j) \/ Expire(j)
  BY <1>2, <1>3, <1>4, <1>8
<1>9. CASE \E w \in Workers : StoreSet(w)
  <2>1. PICK w \in Workers : StoreSet(w) BY <1>9
  <2>2. PICK j \in Jobs : j = inProgress[w] BY <1>7, <2>1
  <2>3. CASE store' = store BY <1>2, <1>6, <2>1, <2>3
  <2>4. CASE store' # store /\ GetScanReport(j)' = GetScanReport(j)
    BY <1>5, <2>1, <2>2, <2>4 DEF GetScanReport
  <2>5. CASE store' # store /\ GetScanReport(j)' # GetScanReport(j)
    BY <1>5, <2>1, <2>2, <2>5
  <2> QED BY <2>3, <2>4, <2>5
<1> QED BY <1>2, <1>8, <1>9, Unseen

\* The same, as a step of the abstract service.
LEMMA ServiceStep == RInv /\ RInv' /\ [Next]_vars => [Service!Next]_(Service!vars)
<1> SUFFICES ASSUME RInv, RInv', [Next]_vars PROVE [Service!Next]_(Service!vars) OBVIOUS
<1> DEFINE reply == [j \in Jobs |-> GetScanReport(j)]
           calm == faults = 0 /\ crashes = 0
<1>1. calm' => calm
  BY CalmFalls DEF RInv
<1>2. calm' \in {calm, FALSE}
  <2>1. calm \in BOOLEAN /\ calm' \in BOOLEAN OBVIOUS
  <2> HIDE DEF calm
  <2> QED BY <1>1, <2>1, Zenon
<1>3. CASE UNCHANGED created /\ \A i \in Jobs : GetScanReport(i)' = GetScanReport(i)
  <2>1. reply' = reply BY <1>3, Zenon
  <2> QED BY <1>2, <1>3, <2>1, Zenon DEF Service!Next
<1>4. ASSUME NEW j \in Jobs, NEW code, \A i \in Jobs \ {j} : store'[i] = store[i],
             GetScanReport(j)' = code
      PROVE  reply' = [reply EXCEPT ![j] = code]
  BY <1>4 DEF GetScanReport
<1>5. ASSUME NEW j \in Jobs, \A i \in Jobs \ {j} : store'[i] = store[i],
             j \notin created, created' = created \cup {j}, GetScanReport(j)' = "302"
      PROVE  Service!Next
  BY <1>2, <1>4, <1>5, Zenon DEF Service!Next, Service!Open
<1>6. ASSUME NEW j \in Jobs, \A i \in Jobs \ {j} : store'[i] = store[i],
             created' = created, GetScanReport(j)' = "404"
      PROVE  Service!Next
  BY <1>2, <1>4, <1>6, Zenon DEF Service!Next, Service!Expire
<1>7. ASSUME NEW j \in Jobs, \A i \in Jobs \ {j} : store'[i] = store[i], created' = created,
             GetScanReport(j) = "302", NEW code \in {"200", "500"}, GetScanReport(j)' = code
      PROVE  Service!Next
  <2>1. reply[j] = "302" BY <1>7
  <2>2. reply' = [reply EXCEPT ![j] = code] BY <1>4, <1>7
  <2> QED BY <1>2, <1>7, <2>1, <2>2, Zenon DEF Service!Next, Service!Settle
<1>8. ASSUME NEW j \in Jobs, \A i \in Jobs \ {j} : store'[i] = store[i], created' = created,
             ~calm', GetScanReport(j) \in {"200", "500"},
             NEW code \in {"302", "500"}, GetScanReport(j)' = code
      PROVE  Service!Next
  <2>1. reply[j] \in {"200", "500"} BY <1>8
  <2>2. reply' = [reply EXCEPT ![j] = code] BY <1>4, <1>8
  <2> QED BY <1>2, <1>8, <2>1, <2>2, Zenon DEF Service!Next, Service!Rework
<1> QED BY <1>3, <1>5, <1>6, <1>7, <1>8, Visible

\* The adapter implements the report service: whatever Redis calls fail, pods
\* crash and keys expire, a polling client sees each scan open once, unfinished,
\* then a final reply, and without faults and crashes that reply stays.
THEOREM AdapterImplementsService == Spec => ServiceSpec
<1>1. Init => Service!Init
  <2> SUFFICES ASSUME Init PROVE Service!Init OBVIOUS
  <2>1. \A j \in Jobs : GetScanReport(j) = "404"
    BY Replies DEF Init, GetScanReport
  <2>2. [j \in Jobs |-> GetScanReport(j)] = [j \in Jobs |-> "404"]
    BY <2>1, Zenon
  <2>3. (faults = 0 /\ crashes = 0) = TRUE /\ created = {}
    BY DEF Init
  <2> QED BY <2>2, <2>3, Zenon DEF Service!Init
<1> QED BY <1>1, RInvariant, ServiceStep, PTL DEF Spec, ServiceSpec, Service!Spec

=============================================================================
