------------------------- MODULE MCPolicyReconciler -------------------------
(* Constants for checking PolicyReconciler with TLC. *)
EXTENDS PolicyReconciler

Asks(images, suspend) == [images |-> images, suspend |-> suspend]

OneSpace == [p \in {"a"} |-> {"work"}]
TwoSpaces == [p \in {"a"} |-> {"work", "other"}]

\* The image scanner with the risk scanner and one of the node scanners; or with the
\* workload scanner and the other one, suspended.
Two == Asks({"Image", "PkgLoad", "Risk"}, FALSE)
Three == Asks({"Image", "Kubebench", "Workload"}, TRUE)
SomeSpecs == {Two, Three}

\* The policy begins with the latter, in a namespace that is not there yet; the other
\* namespace is its user's.
InitOfThree ==
  /\ Init
  /\ objects.policy["a"].spec = Three /\ objects.policy["a"].space = "work"
  /\ objects.ns = [work |-> None, other |-> "user"]

SpecOfThree == InitOfThree /\ [][Next]_vars /\ Fairness

\* The risk scanner, later the image scanner too.
RiskThenImage == {Asks({"Risk"}, FALSE), Asks({"Risk", "Image"}, FALSE)}

EditsOnly == {"edit"}
=============================================================================
