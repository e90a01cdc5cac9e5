\* A policy that names the risk scanner gets the image scanner by an edit.
\* Nothing fails and nothing is deleted.
SPECIFICATION FairSpec
CONSTANTS
  Policies = {"a"}
  WorkNamespaces <- OneSpace
  Specs <- RiskThenImage
  None = None
  Events <- EditsOnly
  MaxEvents = 1
  MaxNames = 4
PROPERTIES
  ImageScannerScheduled
