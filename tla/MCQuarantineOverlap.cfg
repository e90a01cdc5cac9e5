\* Two scans overlap and nothing fails.
SPECIFICATION FairSpec
CONSTANTS
  Workloads = {"web", "db"}
  Pods <- TwoPods
  Owner <- OneEach
  Runs = {r1, r2}
  None = None
  MaxFlips = 3
  MaxDisturbances = 0
PROPERTIES
  FailedIsQuarantined
CHECK_DEADLOCK FALSE
