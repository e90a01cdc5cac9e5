\* Three pods in two namespaces, created and deleted at any moment; one call fails.
CONSTANTS
  Namespaces <- MCNamespaces
  WorkNamespace = "cnsi"
  Pods <- MCPods
  ReplicaSets <- MCReplicaSets
  NamespaceOf <- MCNamespaceOf
  OwnersOf <- MCOwnersOf
  ContainersOf <- MCContainersOf
  Labels <- MCLabels
  NamespaceSelector <- MCSelector
  WorkloadSelector <- MCSelector
  MaxFaults = 1
SPECIFICATION Spec
INVARIANT ReportIsExact
PROPERTY ReportsSettle
