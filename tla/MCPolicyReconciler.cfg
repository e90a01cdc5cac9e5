\* One policy with two work namespaces to choose from, and any two events: an edit, a
\* change of the work namespace, a deletion, a failing call, a crash of the manager,
\* a CronJob deleted by hand, a list from a stale cache.
SPECIFICATION SpecOfThree
CONSTANTS
  Policies = {"a"}
  WorkNamespaces <- TwoSpaces
  Specs <- SomeSpecs
  None = None
  Events <- EventKinds
  MaxEvents = 2
  MaxNames = 5
INVARIANTS
  OnePerType
  RunsWithRole
PROPERTIES
  RoleFollows
  PolicyConverges
  ScannersDoNotOutlivePolicy
