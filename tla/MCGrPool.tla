------------------------------ MODULE MCGrPool ------------------------------
(* Constants for checking GrPool with TLC. *)
EXTENDS GrPool

\* Two batches, as in TestRun, the first larger than the queue and the workers
\* together; then an empty one, which Plan refuses.
TwoBatches == <<{"a", "b", "c", "d"}, {"e"}, {}>>
=============================================================================
