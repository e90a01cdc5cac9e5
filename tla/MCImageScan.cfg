\* The manager with one scanner, or scanners without the manager; which of the
\* images, faults and rescans a behaviour has is chosen in the initial state.
CONSTANTS
  s1 = s1
  s2 = s2
  i1 = i1
  i2 = i2
  i3 = i3
  i4 = i4
  i5 = i5
  r1 = r1
  r2 = r2
  p1 = p1
  Scanners = {s1, s2}
  Images = {i1, i2, i3, i4, i5}
  Registries = {r1, r2}
  Projects = {p1}
  Known <- MCKnown
  Enabled = {1, 2}
  Deployments <- MCDeployments
  RegistryOf <- MCRegistryOf
  ProjectOf <- MCProjectOf
  Pushed = {i5}
  Tagged = {i1, i2, i4, i5}
  Moved = {i4}
  MaxFaults = 1
  MaxRescans = 1
SPECIFICATION Spec
INVARIANTS ScanTypeOK PassedIsInHarbor
PROPERTIES HealthyIsTrue SettingConverges ImagesAreScanned VerdictFollowsReports
