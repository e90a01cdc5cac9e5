---------------------------- MODULE MCQuarantine ----------------------------
(* Constants for checking Quarantine with TLC. *)
EXTENDS Quarantine

\* Two workloads, one of them with two pods.
ThreePods == {"web-1", "web-2", "db-1"}
TwoOwners == [p \in ThreePods |-> IF p = "db-1" THEN "db" ELSE "web"]

\* A pod of each of two workloads.
TwoPods == {"web-1", "db-1"}
OneEach == [p \in TwoPods |-> IF p = "db-1" THEN "db" ELSE "web"]
=============================================================================
