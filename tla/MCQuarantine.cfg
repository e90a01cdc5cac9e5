\* Scans follow one another. Verdicts change three times, and twice a call
\* fails, the scan is killed, or a pod is written, created or removed.
SPECIFICATION FairSpec
CONSTANTS
  Workloads = {"web", "db"}
  Pods <- ThreePods
  Owner <- TwoOwners
  Runs = {r1}
  None = None
  MaxFlips = 3
  MaxDisturbances = 2
INVARIANTS
  TypeOK
  LabelledIsIsolated
PROPERTIES
  FailedIsQuarantined
  ReleasedIfUndisturbed
CHECK_DEADLOCK FALSE
