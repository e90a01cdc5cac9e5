\* Any two calls fail and any one container is killed, or two goroutines meet in
\* the maps. The server waits for ever if nobody tells it to exit, and so does a
\* client that is killed after it did: hence no deadlock check.
SPECIFICATION FairSpec
CONSTANTS
  Pods = {"web", "job"}
  Services = {"svc"}
  Images = {"base", "extra"}
  Vulns = {"remote", "local"}
  Labels <- PodLabels
  Selector <- Selects
  Containers <- Runs
  Found <- Reports
  Network = {"remote"}
  LowPrivilege = {"remote", "local"}
  Serious = {"remote"}
  Analyses = {a1, a2}
  MaxFaults = 2
  MaxCrashes = 1
INVARIANTS
  ReportIsExact
  ExitLosesNothing
PROPERTIES
  JobEnds
CHECK_DEADLOCK FALSE
