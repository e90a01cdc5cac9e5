\* More jobs than workers and queue slots; the context may be cancelled at any
\* moment, after which Wait and Close may block for good: hence no deadlock check.
SPECIFICATION FairPoolSpec
CONSTANTS
  Batches <- TwoBatches
  MaxWorkers = 2
  MaxQueueSize = 1
  MayCancel = TRUE
  None = None
INVARIANTS
  TypeOK
  WaitSeesEveryError
  CountersAreExact
PROPERTIES
  CallerFinishes
CHECK_DEADLOCK FALSE
