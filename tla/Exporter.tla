------------------------------ MODULE Exporter ------------------------------
(***************************************************************************)
(* Reporting: the scanners post their reports to the exporter, which       *)
(* forwards each to the outputs of the policy's ExportConfig, in a         *)
(* goroutine per output. The goroutine for Governor needs an access token, *)
(* as does the image scanner when it asks Governor's VAC for a product, so *)
(* both compete for the secret of TokenProvider.                           *)
(*                                                                         *)
(* Governor's UpdateTelemetry is a PUT: it replaces what the cluster told  *)
(* it before. A report is the sequence of its workloads, a workload the    *)
(* sequence of its pods, a pod the sequence of its containers.             *)
(***************************************************************************)
EXTENDS TokenProvider, Sequences

CONSTANTS
  Reports,      \* reports of scanners
  Lookups,      \* images looked up in VAC
  Products,     \* images VAC has a product for
  Content,      \* the workloads of the workload scanner's reports
  Unknown       \* Governor has been told nothing

ASSUME ReportingAssumption ==
  /\ Callers = Reports \cup Lookups /\ Reports \cap Lookups = {}
  /\ DOMAIN Content \subseteq Reports

VARIABLES
  config,       \* the outputs the policy configures
  scanner,      \* what PostReport returned to the scanner
  search,       \* the goroutine that posts a report to OpenSearch
  put,          \* the goroutine that posts it to Governor, once it has a token
  telemetry,    \* what Governor knows of the cluster
  answer        \* what GetVacProductInfo returned

vars == <<tokenVars, config, scanner, search, put, telemetry, answer>>
outputs == <<scanner, search, put, telemetry>>

----------------------------------------------------------------------------
\* getAPIPayload: the containers of all pods of each workload.
Payload(workloads) ==
  [w \in DOMAIN workloads |->
     LET pods == workloads[w]
         first[n \in 0 .. Len(pods)] == IF n = 0 THEN <<>> ELSE first[n - 1] \o pods[n]
     IN first[Len(pods)]]

\* The report of any other scanner has no field in common with a WorkloadReport:
\* it decodes without an error, into an empty one.
Decoded(r) == IF r \in DOMAIN Content THEN Content[r] ELSE <<>>

----------------------------------------------------------------------------
ExporterInit ==
  /\ Init
  /\ config \in [openSearch : {"off", "badURL", "on"}, governor : BOOLEAN]
  /\ scanner = [r \in Reports |-> "ready"]
  /\ search = [r \in Reports |-> "none"]
  /\ put = [r \in Reports |-> "none"]
  /\ telemetry = Unknown
  /\ answer = [v \in Lookups |-> "none"]

\* Mutant: the first output that cannot be launched ends the forwarding.
ForwardUntilError(r) ==
  /\ search' = [search EXCEPT ![r] =
                  IF config.openSearch = "on" THEN "posting" ELSE "none"]
  /\ call' = IF config.governor /\ config.openSearch # "badURL"
             THEN [call EXCEPT ![r].pc = "get"] ELSE call

\* forwardEvent: what is configured completely is launched. An OpenSearch URL no
\* client can be made for is only logged.
ForwardEvent(r) ==
  /\ search' = [search EXCEPT ![r] =
                  IF config.openSearch = "on" THEN "posting" ELSE "none"]
  /\ call' = IF config.governor THEN [call EXCEPT ![r].pc = "get"] ELSE call

\* mainHandler: a body that cannot be read or decoded is refused.
Refuse == Fault /\ UNCHANGED <<search, call>>

\* PostReport: the scanner gets 200 before anything is delivered. A refusal is
\* logged, but no error is returned. A lost reply is an error, whatever happened
\* to the report.
PostReport(r) ==
  /\ scanner[r] = "ready"
  /\ \/ ForwardEvent(r) /\ scanner' = [scanner EXCEPT ![r] = "ok"] /\ UNCHANGED faults
     \/ Fault /\ ForwardEvent(r) /\ scanner' = [scanner EXCEPT ![r] = "error"]
     \/ Refuse /\ \E s \in {"ok", "error"} : scanner' = [scanner EXCEPT ![r] = s]
  /\ UNCHANGED <<clock, secret, apiToken, stale, config, put, telemetry, answer>>

\* OpenSearchPost: any status but 200, 201, 202 and 204 is an error, and a panic
\* is recovered; errors are logged.
OpenSearchPost(r) ==
  /\ search[r] = "posting"
  /\ \E s \in {"delivered", "lost"} : search' = [search EXCEPT ![r] = s]
  /\ UNCHANGED <<tokenVars, config, scanner, put, telemetry, answer>>

\* SendReport with the token: any status but 204 is an error, which is logged.
\* Governor refuses a token that has expired meanwhile.
SendReport(r) ==
  /\ At(r, "done") /\ put[r] = "none"
  /\ \/ /\ clock <= call[r].copy.token
        /\ telemetry' = Payload(Decoded(r))
        /\ \/ put' = [put EXCEPT ![r] = "delivered"] /\ UNCHANGED faults
           \/ put' = [put EXCEPT ![r] = "lost"] /\ Fault
     \/ /\ \/ clock > call[r].copy.token /\ UNCHANGED faults
           \/ Fault
        /\ put' = [put EXCEPT ![r] = "lost"]
        /\ UNCHANGED telemetry
  /\ UNCHANGED <<clock, secret, apiToken, call, stale, config, scanner, search, answer>>

\* GetBearerToken failed, and with it SendReport.
SendFails(r) ==
  /\ At(r, "failed") /\ put[r] = "none"
  /\ put' = [put EXCEPT ![r] = "lost"]
  /\ UNCHANGED <<tokenVars, config, scanner, search, telemetry, answer>>

\* The exporter is killed and started again: its goroutines are forgotten.
Restart ==
  /\ Fault /\ Die(Reports)
  /\ search' = [r \in Reports |-> IF search[r] = "posting" THEN "lost" ELSE search[r]]
  /\ put' = [r \in Reports |-> IF put[r] = "none" /\ call[r].pc # "idle"
                               THEN "lost" ELSE put[r]]
  /\ UNCHANGED <<clock, secret, apiToken, stale, config, scanner, telemetry, answer>>

----------------------------------------------------------------------------
\* The image scanner looks up the images of a workload.
StartLookup(v) == Start(v) /\ UNCHANGED <<config, outputs, answer>>

\* GetProductExecute: 200 with the product, or 404.
Product(v) == IF v \in Products THEN "trusted" ELSE "untrusted"

\* GetVacProductInfo. A 404 that does not say "Product not found", and a 200 that
\* cannot be decoded, return neither product nor error, which the scanner reads as
\* untrusted. Without a response the nil response is dereferenced.
GetVacProductInfo(v) ==
  /\ answer[v] = "none"
  /\ \/ /\ At(v, "failed") \/ (At(v, "done") /\ clock > call[v].copy.token)
        /\ answer' = [answer EXCEPT ![v] = "error"]
        /\ UNCHANGED faults
     \/ /\ At(v, "done") /\ clock <= call[v].copy.token
        /\ answer' = [answer EXCEPT ![v] = Product(v)]
        /\ UNCHANGED faults
     \/ /\ At(v, "done") /\ Fault
        /\ \E a \in {"error", "untrusted", "panic"} : answer' = [answer EXCEPT ![v] = a]
  /\ UNCHANGED <<clock, secret, apiToken, call, stale, config, outputs>>

TokenStep(c) == GetBearerToken(c) /\ UNCHANGED <<config, outputs, answer>>
Post(r) == OpenSearchPost(r) \/ SendReport(r) \/ SendFails(r)
TickClock == Tick /\ UNCHANGED <<config, outputs, answer>>

ExporterNext ==
  \/ \E c \in Callers : TokenStep(c)
  \/ \E r \in Reports : PostReport(r) \/ Post(r)
  \/ \E v \in Lookups : StartLookup(v) \/ GetVacProductInfo(v)
  \/ TickClock \/ Restart

\* Goroutines run, calls return, and a CronJob posts the report it made. Time
\* passes or not.
ExporterSpec ==
  /\ ExporterInit /\ [][ExporterNext]_vars
  /\ \A c \in Callers : WF_vars(TokenStep(c))
  /\ \A r \in Reports : WF_vars(Post(r)) /\ WF_vars(PostReport(r))
  /\ \A v \in Lookups : WF_vars(GetVacProductInfo(v))

----------------------------------------------------------------------------
ReportingTypeOK ==
  /\ TypeOK
  /\ config \in [openSearch : {"off", "badURL", "on"}, governor : BOOLEAN]
  /\ scanner \in [Reports -> {"ready", "ok", "error"}]
  /\ search \in [Reports -> {"none", "posting", "delivered", "lost"}]
  /\ put \in [Reports -> {"none", "delivered", "lost"}]
  /\ telemetry \in {Unknown} \cup {Payload(Decoded(r)) : r \in Reports}
  /\ answer \in [Lookups -> {"none", "trusted", "untrusted", "error", "panic"}]

\* A report the exporter took reaches Governor, unless a call failed, the exporter
\* crashed, the API token is bad, the token ran out on the way, or another caller
\* wrote the secret while this one was at it. OpenSearch, wrongly configured or
\* refusing the report, is no reason. Nor does a refresh that is refused again and
\* again hold up what came after it: the report is given up then, and each lookup
\* for the image scanner is answered.
Excused(r) ==
  \/ faults > 0 \/ ~apiToken \/ r \in stale
  \/ At(r, "done") /\ clock > call[r].copy.token

DeliveredUnlessExcused ==
  /\ \A r \in Reports :
       /\ scanner[r] = "ok" /\ config.governor ~> put[r] = "delivered" \/ Excused(r)
       /\ At(r, "get") ~> put[r] # "none"
  /\ \A v \in Lookups : At(v, "get") ~> answer[v] # "none"

=============================================================================
