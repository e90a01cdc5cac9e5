--------------------------- MODULE ReportService ---------------------------
(***************************************************************************)
(* What the Trivy scanner adapter promises a client that polls             *)
(* GET /scan/{id}/report, whatever happens between the HTTP server, Redis  *)
(* and the workers: the status codes GetScanReport may answer for a scan   *)
(* and the order in which it may answer them.                              *)
(*                                                                         *)
(*   404  no such scan (not stored yet, or expired)                        *)
(*   302  the scan is queued or running                                    *)
(*   200  the finished report                                              *)
(*   500  the scan failed                                                  *)
(*                                                                         *)
(* A finished scan without a report ("empty") is no answer at all here.    *)
(***************************************************************************)
CONSTANTS Jobs      \* scan requests, each with the ID its job gets

VARIABLES
  reply,            \* the code a GET would be answered with now, per scan
  opened,           \* scans a client has been able to see
  calm              \* FALSE once a Redis call failed or the pod crashed

vars == <<reply, opened, calm>>

Init ==
  /\ reply = [j \in Jobs |-> "404"]
  /\ opened = {}
  /\ calm = TRUE

\* A scan becomes visible once in its life, and unfinished.
Open(j) ==
  /\ j \notin opened
  /\ opened' = opened \cup {j}
  /\ reply' = [reply EXCEPT ![j] = "302"]

\* Its outcome is known.
Settle(j) ==
  /\ reply[j] = "302"
  /\ \E code \in {"200", "500"} : reply' = [reply EXCEPT ![j] = code]
  /\ UNCHANGED opened

\* The TTL passes. Nothing brings an expired scan back.
Expire(j) ==
  /\ reply' = [reply EXCEPT ![j] = "404"]
  /\ UNCHANGED opened

\* Only after a fault or a crash does an outcome change: the scan runs again,
\* or a report is overruled by a failure.
Rework(j) ==
  /\ ~calm'
  /\ reply[j] \in {"200", "500"}
  /\ \E code \in {"302", "500"} : reply' = [reply EXCEPT ![j] = code]
  /\ UNCHANGED opened

Next ==
  /\ calm' \in {calm, FALSE}
  /\ \/ \E j \in Jobs : Open(j) \/ Settle(j) \/ Expire(j) \/ Rework(j)
     \/ UNCHANGED <<reply, opened>>

Spec == Init /\ [][Next]_vars

=============================================================================
