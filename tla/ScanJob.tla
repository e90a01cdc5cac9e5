------------------------------ MODULE ScanJob ------------------------------
(***************************************************************************)
(* The scan-job pipeline of cnsi-scanner-trivy: the HTTP handlers that     *)
(* accept scan requests, the gocraft/work queue and the job store, both in *)
(* Redis, and the workers that run Trivy and write the outcome.            *)
(*                                                                         *)
(* One step is one Redis command or one local decision; everything that    *)
(* the two goroutines and Redis can do in between may interleave. Redis    *)
(* survives a crash of the adapter's pod, local state does not.            *)
(***************************************************************************)
EXTENDS Naturals, Sequences, FiniteSets

CONSTANTS
  Jobs,             \* scan requests; gocraft gives each an ID of its own
  Workers,          \* goroutines of the worker pool
  None,             \* no job, no record
  MaxFaults,        \* bound on failing Redis calls
  MaxCrashes,       \* bound on crashes of the pod
  MaxExpiries       \* bound on keys whose TTL passes

VARIABLES
  handler,          \* AcceptScanRequest of each job: its next call or its reply
  queue,            \* gocraft's list of waiting jobs (Redis)
  inProgress,       \* job a worker has fetched and not acknowledged (Redis)
  orphans,          \* fetched jobs of a pool that crashed (Redis)
  stuck,            \* jobs in a live pool's in-progress lists that no worker runs (Redis)
  forgotten,        \* those of a dead pool that the reaper has struck off (Redis)
  acked, dead,      \* jobs acknowledged as done; jobs in gocraft's dead set
  store,            \* the scan-job keys (Redis)
  pc,               \* what each worker does next
  copy,             \* the record a worker got from the store and will write back
  up,               \* the pod runs
  created,          \* history: jobs whose key was written by Create
  faults, crashes, expiries   \* how often each happened, to bound them

httpVars   == <<handler>>
asideVars  == <<orphans, stuck, forgotten>>
endVars    == <<acked, dead>>
queueVars  == <<queue, asideVars, endVars>>
workerVars == <<inProgress, pc, copy>>
storeVars  == <<store, created>>
envVars    == <<up, crashes, expiries>>
vars == <<handler, queue, inProgress, orphans, stuck, forgotten, acked, dead, store,
          pc, copy, up, created, faults, crashes, expiries>>

----------------------------------------------------------------------------
\* job.ScanJob: the status and whether the record carries Trivy's report.
Statuses == {"Queued", "Pending", "Finished", "Failed"}
Record == [status : Statuses, report : BOOLEAN]

ASSUME ConstantsAssumption ==
  /\ None \notin Jobs \cup Record
  /\ \A n \in {MaxFaults, MaxCrashes, MaxExpiries} : n \in Nat

\* The store operations a worker performs, in the order of scan().
StoreOps == {"Pending", "Report", "Finished", "Failed"}

HandlerStates == {"new", "enqueue", "create", "202", "400", "500", "lost"}
WorkerStates == StoreOps \cup {"idle", "trivy", "done", "error"}

\* Mutant: UpdateReport treated like a status.
ApplyStatusOnly(op, record) == [record EXCEPT !.status = op]

\* The record UpdateStatus or UpdateReport writes back.
Apply(op, record) ==
  IF op = "Report" THEN [record EXCEPT !.report = TRUE]
  ELSE [record EXCEPT !.status = op]

\* Where scan() and Scan() go after a store operation that returned nil.
AfterSuccess(op) ==
  CASE op = "Pending"  -> "trivy"
    [] op = "Report"   -> "Finished"
    [] op = "Finished" -> "done"
    [] op = "Failed"   -> "done"

\* Mutant: Scan() drops the error of UpdateStatus(Failed).
AfterErrorDropped(op) == IF op = "Failed" THEN "done" ELSE "Failed"

\* Where they go after an error or a recovered panic: scan() hands it to
\* Scan(), which marks the job Failed; if that fails too, gocraft gets it.
AfterError(op) == IF op = "Failed" THEN "error" ELSE "Failed"

\* Mutant: SET without XX.
SetAlways(j, record) == store' = [store EXCEPT ![j] = record]

\* SET key .. XX: only a key that still exists is written.
SetXX(j, record) ==
  store' = IF store[j] = None THEN store ELSE [store EXCEPT ![j] = record]

----------------------------------------------------------------------------
Init ==
  /\ handler = [j \in Jobs |-> "new"]
  /\ queue = <<>>
  /\ inProgress = [w \in Workers |-> None]
  /\ orphans = {} /\ stuck = {} /\ forgotten = {} /\ acked = {} /\ dead = {}
  /\ store = [j \in Jobs |-> None]
  /\ pc = [w \in Workers |-> "idle"]
  /\ copy = [w \in Workers |-> None]
  /\ up = TRUE
  /\ created = {}
  /\ faults = 0 /\ crashes = 0 /\ expiries = 0

\* A Redis call fails. A lost reply leaves its effect in place, so the caller
\* allows both.
Fault ==
  /\ faults < MaxFaults
  /\ faults' = faults + 1

----------------------------------------------------------------------------
\* AcceptScanRequest decodes and validates the request.
Accept(j) ==
  /\ up /\ handler[j] = "new"
  /\ \E next \in {"enqueue", "400"} : handler' = [handler EXCEPT ![j] = next]
  /\ UNCHANGED <<queueVars, workerVars, storeVars, envVars, faults>>

\* Enqueue puts the job on the queue before anything is stored about it.
Enqueue(j) ==
  /\ up /\ handler[j] = "enqueue"
  /\ \/ /\ handler' = [handler EXCEPT ![j] = "create"]
        /\ queue' = Append(queue, j)
        /\ UNCHANGED faults
     \/ /\ Fault
        /\ handler' = [handler EXCEPT ![j] = "500"]
        /\ queue' \in {queue, Append(queue, j)}
  /\ UNCHANGED <<asideVars, endVars, workerVars, storeVars, envVars>>

\* Then store.Create writes the Queued record: SET NX.
StoreQueued(j) ==
  /\ store' = [store EXCEPT ![j] =
        IF @ = None THEN [status |-> "Queued", report |-> FALSE] ELSE @]
  /\ created' = created \cup {j}

Create(j) ==
  /\ up /\ handler[j] = "create"
  /\ \/ /\ handler' = [handler EXCEPT ![j] = "202"]
        /\ StoreQueued(j)
        /\ UNCHANGED faults
     \/ /\ Fault
        /\ handler' = [handler EXCEPT ![j] = "500"]
        /\ StoreQueued(j) \/ UNCHANGED storeVars
  /\ UNCHANGED <<queueVars, workerVars, envVars>>

----------------------------------------------------------------------------
\* gocraft moves the oldest job to the worker's in-progress list and calls
\* ScanArtifact, which calls Scan. A reply that is lost leaves the job in that
\* list: the worker, which has been given none, asks for the next one.
Fetch(w) ==
  /\ up /\ pc[w] = "idle" /\ queue # <<>>
  /\ \/ /\ inProgress' = [inProgress EXCEPT ![w] = Head(queue)]
        /\ queue' = Tail(queue)
        /\ pc' = [pc EXCEPT ![w] = "Pending"]
        /\ UNCHANGED <<stuck, faults>>
     \/ /\ Fault
        /\ queue' = Tail(queue) /\ stuck' = stuck \cup {Head(queue)}
        /\ UNCHANGED <<inProgress, pc>>
     \/ Fault /\ UNCHANGED <<queue, stuck, inProgress, pc>>
  /\ UNCHANGED <<httpVars, orphans, forgotten, endVars, copy, storeVars, envVars>>

\* The GET of UpdateStatus and UpdateReport. A missing key is a nil record,
\* and writing through it panics; scan() recovers the panic as an error.
StoreGet(w) ==
  LET j == inProgress[w] IN
  /\ up /\ pc[w] \in StoreOps /\ copy[w] = None
  /\ \/ /\ store[j] # None
        /\ copy' = [copy EXCEPT ![w] = store[j]]
        /\ UNCHANGED <<pc, faults>>
     \/ /\ store[j] = None
        /\ pc' = [pc EXCEPT ![w] = AfterError(pc[w])]
        /\ UNCHANGED <<copy, faults>>
     \/ /\ Fault
        /\ pc' = [pc EXCEPT ![w] = AfterError(pc[w])]
        /\ UNCHANGED copy
  /\ UNCHANGED <<httpVars, queueVars, inProgress, storeVars, envVars>>

\* Their SET.
StoreSet(w) ==
  LET j == inProgress[w] IN
  /\ up /\ pc[w] \in StoreOps /\ copy[w] # None
  /\ copy' = [copy EXCEPT ![w] = None]
  /\ \/ /\ SetXX(j, Apply(pc[w], copy[w]))
        /\ pc' = [pc EXCEPT ![w] = AfterSuccess(pc[w])]
        /\ UNCHANGED faults
     \/ /\ Fault
        /\ SetXX(j, Apply(pc[w], copy[w])) \/ UNCHANGED store
        /\ pc' = [pc EXCEPT ![w] = AfterError(pc[w])]
  /\ UNCHANGED <<httpVars, queueVars, inProgress, created, envVars>>

\* Mutant: an error of Trivy goes to gocraft, the job is not marked Failed.
TrivyUnmarked(w) ==
  /\ up /\ pc[w] = "trivy"
  /\ \E next \in {"Report", "error"} : pc' = [pc EXCEPT ![w] = next]
  /\ UNCHANGED <<httpVars, queueVars, inProgress, copy, storeVars, envVars, faults>>

\* GetImageRef and the Trivy command, with either outcome.
Trivy(w) ==
  /\ up /\ pc[w] = "trivy"
  /\ \E next \in {"Report", "Failed"} : pc' = [pc EXCEPT ![w] = next]
  /\ UNCHANGED <<httpVars, queueVars, inProgress, copy, storeVars, envVars, faults>>

\* One EXEC takes the job from the list and, with an error of ScanArtifact, puts it
\* into the dead set.
Remove(j, result) ==
  IF result = "done" THEN acked' = acked \cup {j} /\ UNCHANGED dead
                     ELSE dead' = dead \cup {j} /\ UNCHANGED acked

\* ScanArtifact returned. With MaxFails 1 an error or a panic sends the job to
\* the dead set, and nothing else does. A removal that fails is only logged.
Ack(w) ==
  LET j == inProgress[w] IN
  /\ up /\ pc[w] \in {"done", "error"}
  /\ inProgress' = [inProgress EXCEPT ![w] = None]
  /\ pc' = [pc EXCEPT ![w] = "idle"]
  /\ \/ Remove(j, pc[w]) /\ UNCHANGED stuck /\ (UNCHANGED faults \/ Fault)
     \/ Fault /\ stuck' = stuck \cup {j} /\ UNCHANGED endVars
  /\ UNCHANGED <<httpVars, queue, orphans, forgotten, copy, storeVars, envVars>>

----------------------------------------------------------------------------
\* A scan-job key reaches its TTL.
Expire(j) ==
  /\ store[j] # None
  /\ expiries < MaxExpiries
  /\ expiries' = expiries + 1
  /\ store' = [store EXCEPT ![j] = None]
  /\ UNCHANGED <<httpVars, queueVars, workerVars, created, up, crashes, faults>>

\* Mutant: fetched jobs are not kept in Redis, so they die with the pod.
CrashForgets ==
  /\ up /\ crashes < MaxCrashes
  /\ up' = FALSE
  /\ crashes' = crashes + 1
  /\ handler' = [j \in Jobs |->
        IF handler[j] \in {"enqueue", "create"} THEN "lost" ELSE handler[j]]
  /\ inProgress' = [w \in Workers |-> None]
  /\ pc' = [w \in Workers |-> "idle"]
  /\ copy' = [w \in Workers |-> None]
  /\ UNCHANGED <<queueVars, storeVars, expiries, faults>>

\* The pod dies: requests in flight and the workers' locals are gone, and what
\* the workers had fetched stays in the dead pool's in-progress lists.
Crash ==
  /\ up /\ crashes < MaxCrashes
  /\ up' = FALSE
  /\ crashes' = crashes + 1
  /\ handler' = [j \in Jobs |->
        IF handler[j] \in {"enqueue", "create"} THEN "lost" ELSE handler[j]]
  /\ orphans' = orphans \cup stuck \cup {j \in Jobs : \E w \in Workers : inProgress[w] = j}
  /\ stuck' = {}
  /\ inProgress' = [w \in Workers |-> None]
  /\ pc' = [w \in Workers |-> "idle"]
  /\ copy' = [w \in Workers |-> None]
  /\ UNCHANGED <<queue, forgotten, endVars, storeVars, expiries, faults>>

Restart ==
  /\ ~up
  /\ up' = TRUE
  /\ UNCHANGED <<httpVars, queueVars, workerVars, storeVars, crashes, expiries, faults>>

\* Mutant: the reaper pushes a job before it removes it from the dead pool.
ReapTwice(j) ==
  /\ up /\ j \in orphans
  /\ orphans' \in {orphans, orphans \ {j}}
  /\ queue' = Append(queue, j)
  /\ Len(queue) <= Cardinality(Jobs)
  /\ UNCHANGED <<httpVars, stuck, forgotten, endVars, workerVars, storeVars, envVars, faults>>

\* gocraft's reaper puts a dead pool's jobs back on the queue, one by one. When a call
\* fails it leaves the jobs to its next round, or strikes the pool off with what is
\* left in its lists, which nobody looks at again; the one it asked for last may
\* be back on the queue all the same.
Reap(j) ==
  /\ up /\ j \in orphans
  /\ \/ /\ orphans' = orphans \ {j} /\ queue' = Append(queue, j)
        /\ UNCHANGED <<forgotten, faults>>
     \/ /\ Fault
        /\ queue' \in {queue, Append(queue, j)}
        /\ LET left == IF queue' = queue THEN orphans ELSE orphans \ {j} IN
           \E lost \in SUBSET left :
             orphans' = left \ lost /\ forgotten' = forgotten \cup lost
  /\ UNCHANGED <<httpVars, stuck, endVars, workerVars, storeVars, envVars>>

\* Nothing is left to do: the adapter waits for requests.
Quiet ==
  /\ up /\ queue = <<>> /\ orphans = {}
  /\ \A j \in Jobs : handler[j] \in {"202", "400", "500", "lost"}
  /\ \A w \in Workers : pc[w] = "idle"
  /\ UNCHANGED vars

Next ==
  \/ \E j \in Jobs : \/ Accept(j) \/ Enqueue(j) \/ Create(j)
                     \/ Expire(j) \/ Reap(j)
  \/ \E w \in Workers : \/ Fetch(w) \/ StoreGet(w) \/ StoreSet(w)
                        \/ Trivy(w) \/ Ack(w)
  \/ Crash \/ Restart \/ Quiet

Spec == Init /\ [][Next]_vars

\* Goroutines are scheduled, Trivy ends (TRIVY_TIMEOUT), the deployment restarts
\* the pod and the reaper runs every few minutes. No request has to arrive,
\* and no key has to expire.
Fairness ==
  /\ \A j \in Jobs : WF_vars(Enqueue(j)) /\ WF_vars(Create(j)) /\ WF_vars(Reap(j))
  /\ \A w \in Workers : /\ WF_vars(Fetch(w)) /\ WF_vars(StoreGet(w))
                        /\ WF_vars(StoreSet(w)) /\ WF_vars(Trivy(w)) /\ WF_vars(Ack(w))
  /\ WF_vars(Restart)

FairSpec == Spec /\ Fairness

----------------------------------------------------------------------------
TypeOK ==
  /\ handler \in [Jobs -> HandlerStates]
  /\ queue \in Seq(Jobs)
  /\ inProgress \in [Workers -> Jobs \cup {None}]
  /\ \A jobs \in {orphans, stuck, forgotten, acked, dead} : jobs \subseteq Jobs
  /\ store \in [Jobs -> Record \cup {None}]
  /\ pc \in [Workers -> WorkerStates]
  /\ copy \in [Workers -> Record \cup {None}]
  /\ up \in BOOLEAN
  /\ created \subseteq Jobs
  /\ faults \in Nat /\ crashes \in Nat /\ expiries \in Nat

\* The jobs in an in-progress list that no worker runs.
Aside == orphans \cup stuck \cup forgotten

\* What GetScanReport answers for a job when Redis answers it.
Reply(record) ==
  CASE record = None                              -> "404"
    [] record # None /\ record.status = "Queued"  -> "302"
    [] record # None /\ record.status = "Pending" -> "302"
    [] record # None /\ record.status = "Failed"  -> "500"
    [] record # None /\ record.status = "Finished" ->
         IF record.report THEN "200" ELSE "empty"

GetScanReport(j) == Reply(store[j])

\* A client that is told a scan has finished gets its report with it, whatever
\* failed, expired or ran twice before: scan() saves the report before the
\* status, and only one worker at a time writes a job's record.
FinishedHasReport ==
  \A j \in Jobs : store[j] # None /\ store[j].status = "Finished" => store[j].report

\* A job is in one place: waiting, fetched by one worker, or in an in-progress list
\* without a worker, after a crash or a call that failed. Two workers on one job
\* would overwrite each other's records.
InOnePlace ==
  /\ \A i, k \in 1..Len(queue) : queue[i] = queue[k] => i = k
  /\ \A v, w \in Workers : inProgress[v] = inProgress[w] => v = w \/ inProgress[v] = None
  /\ \A i \in 1..Len(queue) :
        queue[i] \notin Aside /\ \A w \in Workers : inProgress[w] # queue[i]
  /\ \A w \in Workers : inProgress[w] \notin Aside
  /\ orphans \cap stuck = {} /\ forgotten \cap (orphans \cup stuck) = {}

\* Once gocraft has been told that a job is done, its key, while it lives, says
\* how it ended: Scan() returns nil only after a final status was written, and
\* no late Create or repeated run puts the job back to Queued or Pending.
AckedIsFinal ==
  \A j \in acked : store[j] = None \/ store[j].status \in {"Finished", "Failed"}

\* As long as Redis answers, no job in the dead set has a record that says it
\* is being scanned or has ended: it never started, because a worker asked for
\* its record before Enqueue had created it, or its key has expired.
DeadNeverStarted ==
  faults = 0 => \A j \in dead : store[j] = None \/ store[j].status = "Queued"

\* An accepted job is not lost by a crash of the pod, an expired key, or a call of the
\* job store that fails: some worker runs it to an end that gocraft records. What
\* does lose it is a call of gocraft's own, for its fetch, its removal or its
\* reaper; a job stuck by one of the first two comes back when the pod crashes.
AcceptedIsDisposedOf ==
  \A j \in Jobs : handler[j] = "202" ~> [](j \in acked \cup dead \cup stuck \cup forgotten)

\* What polling clients see is the abstract ReportService.
Service == INSTANCE ReportService WITH
  reply <- [j \in Jobs |-> GetScanReport(j)],
  opened <- created,
  calm <- (faults = 0 /\ crashes = 0)

ServiceSpec == Service!Spec

=============================================================================
