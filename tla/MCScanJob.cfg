\* Two requests and two workers; two Redis calls fail or lose their replies, the
\* pod crashes once and one key expires, each at any moment.
SPECIFICATION FairSpec
CONSTANTS
  Jobs = {j1, j2}
  Workers = {w1, w2}
  None = None
  MaxFaults = 2
  MaxCrashes = 1
  MaxExpiries = 1
INVARIANTS
  TypeOK
  InOnePlace
  AckedIsFinal
  DeadNeverStarted
PROPERTIES
  ServiceSpec
  AcceptedIsDisposedOf
