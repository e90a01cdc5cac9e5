\* Two of the containers start once, one twice; one call fails, or the scanner or
\* its child dies.
CONSTANTS
  Namespaces <- MCNamespaces
  WorkNamespace = "cnsi"
  Containers <- MCContainers
  Images <- MCImages
  NamespaceOf <- MCNamespaceOf
  ImageOf <- MCImageOf
  Labels <- MCLabels
  NamespaceSelector <- MCNamespaceSelector
  WorkloadSelector <- MCWorkloadSelector
  OnNode <- MCContainers
  CgroupOf <- MCCgroupOf
  Shortened = {"pinned"}
  Found <- MCFound
  Installed <- MCInstalled
  Mapped <- MCMapped
  Lives <- MCLives
  MaxFaults = 1
SPECIFICATION Spec
PROPERTIES
  NothingStaleIsReported
  LoadedIsReported
