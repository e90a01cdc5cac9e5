----------------------------- MODULE MCScanJob -----------------------------
(* ScanJob for TLC; its constants are model values of the configuration. *)
EXTENDS ScanJob
=============================================================================
