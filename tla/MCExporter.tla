----------------------------- MODULE MCExporter -----------------------------
(* Constants for checking Exporter with TLC. *)
EXTENDS Exporter

\* Two workloads, the first with two pods, one of which has two containers.
TwoWorkloads == << << <<"a", "b">>, <<"c">> >>, << <<"d">> >> >>

WorkloadsOf == [r \in {"workloads"} |-> TwoWorkloads]
=============================================================================
