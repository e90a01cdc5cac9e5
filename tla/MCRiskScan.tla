----------------------------- MODULE MCRiskScan -----------------------------
(* Constants for checking RiskScan with TLC. *)
EXTENDS RiskScan

\* Two pods and a service that selects one of them; the other has a label of its
\* own. The pods share an image, which the first runs in two containers.
PodLabels == [p \in {"web", "job"} |-> IF p = "web" THEN {"app", "tier"} ELSE {"tier"}]
Selects == [s \in {"svc"} |-> {"app", "tier"}]
Runs == [p \in {"web", "job"} |-> [i \in {"base", "extra"} |->
           IF i = "base" THEN (IF p = "web" THEN 2 ELSE 1) ELSE IF p = "web" THEN 1 ELSE 0]]
Reports == [i \in {"base", "extra"} |-> IF i = "base" THEN {"remote"} ELSE {"local"}]
=============================================================================
