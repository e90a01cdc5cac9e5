\* One node of any kind; two are modified, with one failing call. Between events
\* a scanner whose clock has run out of the cool-down has nothing to do: hence no
\* deadlock check.
CONSTANTS
  Nothing = Nothing
  d1 = d1
  d2 = d2
  VersionMapping <- MCVersionMapping
  TargetMapping <- MCTargetMapping
  TestFiles <- MCTargetMapping
  PlatformBench <- MCPlatformBench
  Default <- MCDefault
  Nodes <- MCNodes
  Dirs = {d1, d2}
  CoolDown = 1
  MaxEdits = 2
  MaxFailures = 1
SPECIFICATION BenchSpec
INVARIANTS TypeOK NewestIsLatest ChecksFitNode
PROPERTIES ModificationsReported
CHECK_DEADLOCK FALSE
