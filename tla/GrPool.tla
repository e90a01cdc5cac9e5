------------------------------ MODULE GrPool ------------------------------
(***************************************************************************)
(* The goroutine pool of cnsi-manager/pkg/runtime/grpool, which the image  *)
(* scanner runs one job per namespace on: its processor goroutine, one     *)
(* goroutine per running job, and the caller, who plans a batch, queues    *)
(* its jobs and waits for them, batch after batch, and closes the pool.    *)
(*                                                                         *)
(* Channels are modelled by what Go gives them: `queue` blocks when full   *)
(* and panics a sender once closed, `workers` is a counter of its tokens,  *)
(* `stopChan` is a rendezvous, and a select with several ready cases takes *)
(* any of them.                                                            *)
(***************************************************************************)
EXTENDS Naturals, Sequences, FiniteSets

CONSTANTS
  Batches,          \* the sets of jobs the caller plans, in order; disjoint
  MaxWorkers,       \* capacity of the workers channel
  MaxQueueSize,     \* capacity of the job queue
  MayCancel,        \* whether the context may be cancelled
  None              \* no job

Jobs == UNION {Batches[b] : b \in 1..Len(Batches)}

ASSUME PoolAssumption ==
  /\ Batches \in Seq(SUBSET Jobs)
  /\ MaxWorkers \in Nat \ {0} /\ MaxQueueSize \in Nat \ {0}
  /\ MayCancel \in BOOLEAN
  /\ \A b, c \in 1..Len(Batches) : b # c => Batches[b] \cap Batches[c] = {}
  /\ \A b \in 1..Len(Batches) : IsFiniteSet(Batches[b])
  /\ None \notin Jobs

VARIABLES
  caller,           \* what the caller does next
  batch, unsent,    \* the batch it is at, and the jobs of it not queued yet
  result,           \* errors in what its last Wait returned
  wg,               \* the wait group's counter
  queue, closed,    \* the job queue, and whether it and `workers` are closed
  workers,          \* tokens in the workers channel
  processor, held,  \* the processor goroutine, and the job it needs a worker for
  run,              \* the goroutine of each job
  answer,           \* what the channel the job returned holds
  lastErr,          \* jobs whose errors lastErr wraps
  stopped,          \* sigChan is closed
  cancelled         \* the context is done

callerVars    == <<caller, batch, unsent, result>>
processorVars == <<processor, held, stopped>>
jobVars       == <<run, answer, lastErr>>
poolVars == <<caller, batch, unsent, result, wg, queue, closed, workers, processor,
             held, run, answer, lastErr, stopped, cancelled>>

CallerStates == {"plan", "queue", "wait", "close", "ack", "closed", "panic"}
RunStates == {"none", "running", "select", "finish", "release", "gone"}

Init ==
  /\ caller = "plan" /\ batch = 1 /\ unsent = {} /\ result = {}
  /\ wg = 0
  /\ queue = <<>> /\ closed = FALSE /\ workers = 0
  /\ processor = "select" /\ held = None
  /\ run = [j \in Jobs |-> "none"]
  /\ answer = [j \in Jobs |-> "none"]
  /\ lastErr = {}
  /\ stopped = FALSE /\ cancelled = FALSE

----------------------------------------------------------------------------
(* The caller. *)

\* Plan refuses an empty batch, and the caller returns to its deferred Close.
Plan ==
  /\ caller = "plan" /\ batch \in 1..Len(Batches)
  /\ IF Batches[batch] = {}
     THEN caller' = "close" /\ UNCHANGED <<unsent, wg>>
     ELSE /\ caller' = "queue"
          /\ unsent' = Batches[batch]
          /\ wg' = wg + Cardinality(Batches[batch])
  /\ UNCHANGED <<batch, result, queue, closed, workers, processorVars, jobVars, cancelled>>

\* Mutant: a full queue makes Queue drop the job.
QueueOrDrop(j) ==
  /\ caller = "queue" /\ j \in unsent /\ ~closed
  /\ queue' = IF Len(queue) < MaxQueueSize THEN Append(queue, j) ELSE queue
  /\ unsent' = unsent \ {j}
  /\ caller' = IF unsent = {j} THEN "wait" ELSE "queue"
  /\ UNCHANGED <<batch, result, wg, closed, workers, processorVars, jobVars, cancelled>>

\* Queue blocks while the queue is full; a send on a closed channel panics.
Queue(j) ==
  /\ caller = "queue" /\ j \in unsent
  /\ \/ /\ ~closed /\ Len(queue) < MaxQueueSize
        /\ queue' = Append(queue, j)
        /\ unsent' = unsent \ {j}
        /\ caller' = IF unsent = {j} THEN "wait" ELSE "queue"
     \/ /\ closed
        /\ caller' = "panic"
        /\ UNCHANGED <<queue, unsent>>
  /\ UNCHANGED <<batch, result, wg, closed, workers, processorVars, jobVars, cancelled>>

Wait ==
  /\ caller = "wait" /\ wg = 0
  /\ result' = lastErr
  /\ batch' = batch + 1
  /\ caller' = IF batch < Len(Batches) THEN "plan" ELSE "close"
  /\ UNCHANGED <<unsent, wg, queue, closed, workers, processorVars, jobVars, cancelled>>

\* The first half of Close meets the processor in its select.
Close ==
  /\ caller = "close" /\ processor = "select"
  /\ caller' = "ack"
  /\ stopped' = TRUE
  /\ processor' = "exit"
  /\ UNCHANGED <<batch, unsent, result, wg, queue, closed, workers, held, jobVars, cancelled>>

\* The second half receives from the queue: a job left in it, or its closing.
CloseAck ==
  /\ caller = "ack" /\ (queue # <<>> \/ closed)
  /\ queue' = IF queue = <<>> THEN queue ELSE Tail(queue)
  /\ caller' = "closed"
  /\ UNCHANGED <<batch, unsent, result, wg, closed, workers, processorVars, jobVars, cancelled>>

----------------------------------------------------------------------------
(* The processor goroutine. *)

TakeJob ==
  /\ processor = "select" /\ queue # <<>>
  /\ held' = Head(queue)
  /\ queue' = Tail(queue)
  /\ processor' = "acquire"
  /\ UNCHANGED <<callerVars, wg, closed, workers, jobVars, stopped, cancelled>>

\* Mutant: the job is started without waiting for a worker.
StartAtOnce ==
  /\ processor = "acquire"
  /\ workers' = workers + 1
  /\ run' = [run EXCEPT ![held] = "running"]
  /\ held' = None
  /\ processor' = "select"
  /\ UNCHANGED <<callerVars, wg, queue, closed, answer, lastErr, stopped, cancelled>>

\* Sending on `workers` blocks while all workers are busy.
Start ==
  /\ processor = "acquire" /\ workers < MaxWorkers
  /\ workers' = workers + 1
  /\ run' = [run EXCEPT ![held] = "running"]
  /\ held' = None
  /\ processor' = "select"
  /\ UNCHANGED <<callerVars, wg, queue, closed, answer, lastErr, stopped, cancelled>>

SeeCancel ==
  /\ processor = "select" /\ cancelled
  /\ processor' = "exit"
  /\ UNCHANGED <<callerVars, wg, queue, closed, workers, held, jobVars, stopped, cancelled>>

\* Its deferred function closes both channels, then sends on stopChan, which
\* nobody receives from: the goroutine stays there.
CloseChannels ==
  /\ processor = "exit"
  /\ closed' = TRUE
  /\ processor' = "sending"
  /\ UNCHANGED <<callerVars, wg, queue, workers, held, jobVars, stopped, cancelled>>

----------------------------------------------------------------------------
(* The goroutine of a job. *)

\* The job answers on its channel, before or after it returns the channel.
Answer(j) ==
  /\ run[j] \in {"running", "select"} /\ answer[j] = "none"
  /\ \E e \in {"nil", "error"} : answer' = [answer EXCEPT ![j] = e]
  /\ UNCHANGED <<callerVars, wg, queue, closed, workers, processorVars, run, lastErr, cancelled>>

Return(j) ==
  /\ run[j] = "running"
  /\ run' = [run EXCEPT ![j] = "select"]
  /\ UNCHANGED <<callerVars, wg, queue, closed, workers, processorVars, answer, lastErr, cancelled>>

\* Mutant: lastErr is written without looking at what it holds.
SelectOverwriting(j) ==
  /\ run[j] = "select"
  /\ \/ /\ answer[j] # "none"
        /\ lastErr' = IF answer[j] = "error" THEN {j} ELSE lastErr
     \/ /\ stopped \/ cancelled
        /\ UNCHANGED lastErr
  /\ run' = [run EXCEPT ![j] = "finish"]
  /\ UNCHANGED <<callerVars, wg, queue, closed, workers, processorVars, answer, cancelled>>

\* The select: the answer, a stopped pool and a done context compete, and only
\* the first hands the error to handleLastError.
Select(j) ==
  /\ run[j] = "select"
  /\ \/ /\ answer[j] # "none"
        /\ lastErr' = IF answer[j] = "error" THEN lastErr \cup {j} ELSE lastErr
     \/ /\ stopped \/ cancelled
        /\ UNCHANGED lastErr
  /\ run' = [run EXCEPT ![j] = "finish"]
  /\ UNCHANGED <<callerVars, wg, queue, closed, workers, processorVars, answer, cancelled>>

\* The deferred calls: first the wait group, then the worker's token. Receiving
\* from the closed channel never blocks.
Done(j) ==
  /\ run[j] = "finish"
  /\ wg' = wg - 1
  /\ run' = [run EXCEPT ![j] = "release"]
  /\ UNCHANGED <<callerVars, queue, closed, workers, processorVars, answer, lastErr, cancelled>>

\* Mutant: the token is not returned.
ReleaseNothing(j) ==
  /\ run[j] = "release"
  /\ run' = [run EXCEPT ![j] = "gone"]
  /\ UNCHANGED <<callerVars, wg, queue, closed, workers, processorVars, answer, lastErr, cancelled>>

Release(j) ==
  /\ run[j] = "release" /\ (workers > 0 \/ closed)
  /\ workers' = IF workers > 0 THEN workers - 1 ELSE 0
  /\ run' = [run EXCEPT ![j] = "gone"]
  /\ UNCHANGED <<callerVars, wg, queue, closed, processorVars, answer, lastErr, cancelled>>

----------------------------------------------------------------------------
Cancel ==
  /\ MayCancel /\ ~cancelled
  /\ cancelled' = TRUE
  /\ UNCHANGED <<callerVars, wg, queue, closed, workers, processorVars, jobVars>>

PoolNext ==
  \/ Plan \/ Wait \/ Close \/ CloseAck
  \/ TakeJob \/ Start \/ SeeCancel \/ CloseChannels \/ Cancel
  \/ \E j \in Jobs : \/ Queue(j)
                     \/ Answer(j) \/ Return(j) \/ Select(j) \/ Done(j) \/ Release(j)

PoolSpec == Init /\ [][PoolNext]_poolVars

\* The Go scheduler runs every goroutine that can run, and jobs end. Nothing
\* says that the context is ever cancelled.
PoolFairness ==
  /\ WF_poolVars(Plan) /\ WF_poolVars(Wait) /\ WF_poolVars(Close) /\ WF_poolVars(CloseAck)
  /\ WF_poolVars(TakeJob \/ Start \/ SeeCancel \/ CloseChannels)
  /\ WF_poolVars(\E j \in Jobs : Queue(j))
  /\ \A j \in Jobs :
       /\ WF_poolVars(Answer(j)) /\ WF_poolVars(Return(j)) /\ WF_poolVars(Select(j))
       /\ WF_poolVars(Done(j)) /\ WF_poolVars(Release(j))

FairPoolSpec == PoolSpec /\ PoolFairness

----------------------------------------------------------------------------
TypeOK ==
  /\ caller \in CallerStates
  /\ batch \in 1..Len(Batches) + 1 /\ unsent \subseteq Jobs /\ result \subseteq Jobs
  /\ wg \in Nat
  /\ queue \in Seq(Jobs) /\ closed \in BOOLEAN /\ workers \in 0..MaxWorkers
  /\ processor \in {"select", "acquire", "exit", "sending"}
  /\ held \in Jobs \cup {None}
  /\ run \in [Jobs -> RunStates]
  /\ answer \in [Jobs -> {"none", "nil", "error"}]
  /\ lastErr \subseteq Jobs
  /\ stopped \in BOOLEAN /\ cancelled \in BOOLEAN

\* The jobs of the batches whose Wait has returned.
Waited == UNION {Batches[b] : b \in 1..batch - 1}

\* Wait returns only when every job planned so far has run, and unless the
\* context was cancelled its result holds every error any of them answered:
\* handleLastError comes before wg.Done, and no goroutine is between the two.
WaitSeesEveryError ==
  caller \in {"plan", "close", "ack", "closed"} =>
    /\ \A j \in Waited : run[j] \in {"release", "gone"}
    /\ ~cancelled => result = {j \in Waited : answer[j] = "error"}

\* The goroutines that run jobs and the tokens in `workers` are the same in
\* number while the pool is open, so at most MaxWorkers jobs run at once.
OneTokenPerJob ==
  ~closed => workers = Cardinality({j \in Jobs : run[j] \notin {"none", "gone"}})

\* The wait group counts the jobs that were planned and are not done: the ones
\* unsent, queued, held or running. A lost job would make Wait hang for good.
WaitGroupCountsJobs ==
  caller # "panic" =>
    wg = Cardinality(unsent) + Len(queue) + (IF held = None THEN 0 ELSE 1)
         + Cardinality({j \in Jobs : run[j] \in {"running", "select", "finish"}})

\* Both counters of the pool agree with its goroutines at every moment.
CountersAreExact == OneTokenPerJob /\ WaitGroupCountsJobs

\* The caller gets through all its batches and out of Close, however small the
\* queue and the number of workers, unless the context is cancelled: nothing else
\* closes the queue under a caller that still queues.
CallerFinishes == <>(caller = "closed" \/ cancelled)

=============================================================================
