\* A report for Governor and a lookup in VAC compete for the token. Tokens live
\* for a tick or for longer than the cap, and time goes beyond the first. One
\* failure.
SPECIFICATION ExporterSpec
CONSTANTS
  Reports = {"workloads"}
  Lookups = {"image"}
  Products = {"image"}
  Callers = {"workloads", "image"}
  Content <- WorkloadsOf
  Unknown = Unknown
  Absent = Absent
  Lifetimes = {1, 3}
  MaxAge = 2
  MaxAttempts = 3
  MaxTime = 2
  MaxFaults = 1
INVARIANTS
  ReportingTypeOK
  StoredExpiryIsSafe
PROPERTIES
  FreshTokenIsKept
  DeliveredUnlessExcused
CHECK_DEADLOCK FALSE
