------------------------------ MODULE RiskScan ------------------------------
(***************************************************************************)
(* One Job of the risk scanner: a pod with two containers that talk HTTP.  *)
(* The client collects the cluster's resources, posts them one by one, asks *)
(* for their analysis, polls until it is over and tells the server to exit. *)
(* The server keeps what was posted in maps, analyses it in a goroutine of *)
(* its own and sends the report to the exporter.                           *)
(*                                                                         *)
(* Both containers restart on failure. Nothing in the server is locked.    *)
(***************************************************************************)
EXTENDS Naturals, Sequences, FiniteSets

CONSTANTS
  Pods, Services,   \* the resources an analysis looks at
  Images, Vulns,    \* images, and vulnerabilities of images
  Labels,           \* the labels of each pod
  Selector,         \* the labels each service selects
  Containers,       \* of each pod: how many containers run each image
  Found,            \* the vulnerabilities in the Harbor report of each image
  Network, LowPrivilege, Serious,   \* vulnerabilities by vector and severity
  Analyses,         \* goroutines that may run Analyze at once
  MaxFaults,        \* bound on failing calls to Kubernetes, Harbor, exporter
  MaxCrashes        \* bound on containers that are killed

Resources == Pods \cup Services
Kinds == {"exposure", "privilege", "serious"}
Risks == [pod : Pods, image : Images, vuln : Vulns, kind : Kinds]

ASSUME ConstantsAssumption ==
  /\ Pods \cap Services = {} /\ IsFiniteSet(Resources)
  /\ Labels \in [Pods -> SUBSET UNION {Labels[p] : p \in Pods}]
  /\ Containers \in [Pods -> [Images -> Nat]]
  /\ Found \in [Images -> SUBSET Vulns]
  /\ MaxFaults \in Nat /\ MaxCrashes \in Nat

VARIABLES
  client, todo,     \* what the client does next; resources still to be posted
  server,           \* the server container
  exiting,          \* it was told to exit and sleeps
  running,          \* Server.IsRunning
  maps,             \* Server.Images and Server.Workloads; Clear makes new ones
  analysis,         \* each goroutine: where it is, and what it still iterates
  exported,         \* the reports the exporter was sent
  scanned,          \* Harbor: the images whose scan has ended
  early,            \* history: a poll overtook a goroutine's first step
  panicked,         \* history: the server died of an image not scanned yet
  faults, crashes   \* how often each happened, to bound them

clientVars == <<client, todo>>
serverVars == <<server, exiting, running, maps, analysis>>
historyVars == <<early, panicked>>
envVars    == <<scanned, faults, crashes>>
vars == <<client, todo, server, exiting, running, maps, analysis, exported, early,
          panicked, scanned, faults, crashes>>

----------------------------------------------------------------------------
ClientStates == {"start", "collect", "post", "poll", "exit", "done", "empty"}

\* Server.Images as how often each image has each pod related to it, and the
\* two maps of Server.Workloads.
Maps == [related : [Pods -> [Images -> Nat]], items : SUBSET Resources, risks : [Risks -> Nat]]
NoMaps == [related |-> [p \in Pods |-> [i \in Images |-> 0]],
           items |-> {}, risks |-> [x \in Risks |-> 0]]

NoAnalysis == [pc |-> "none", of |-> 0, left |-> {}]
Quiet == [a \in Analyses |-> NoAnalysis]

Current == Len(maps)
Keys(m) == {i \in Images : \E p \in Pods : m.related[p][i] > 0}

\* Mutant: one label in common is enough.
GetServicesByAny(labels, items) ==
  {s \in items \cap Services : Selector[s] \cap labels # {}}

\* GetWorkloads with the category Service: matchLabel lets everything pass if
\* the pod has no labels. Nobody looks at namespaces.
GetServices(labels, items) ==
  {s \in items \cap Services :
     labels = {} \/ (Selector[s] # {} /\ Selector[s] \subseteq labels)}

\* DefaultEvaluator.Eval for one vulnerability of a pod.
Eval(p, v, items) ==
  LET exposed == GetServices(Labels[p], items) # {} IN
  {k \in Kinds : CASE k = "exposure"  -> v \in Network /\ exposed
                   [] k = "privilege" -> v \in LowPrivilege /\ exposed
                   [] k = "serious"   -> v \in Serious}

\* Analyze evaluates every pod related to image i, as often as it is related;
\* AddRiskItem drops what is not among the items.
AddRisks(m, of, i) ==
  [m EXCEPT !.risks = [x \in Risks |->
     @[x] + IF /\ x.image = i /\ x.vuln \in Found[i] /\ x.pod \in m.items
               /\ x.kind \in Eval(x.pod, x.vuln, m.items)
            THEN of.related[x.pod][i] ELSE 0]]

----------------------------------------------------------------------------
Init ==
  /\ client = "start" /\ todo = {}
  /\ server = "down" /\ exiting = FALSE /\ running = FALSE
  /\ maps = <<NoMaps>> /\ analysis = Quiet
  /\ exported = <<>> /\ scanned \in SUBSET Images
  /\ early = FALSE /\ panicked = FALSE
  /\ faults = 0 /\ crashes = 0

Fault == faults < MaxFaults /\ faults' = faults + 1

----------------------------------------------------------------------------
(* The client. A call to a server that is not up is refused. *)

\* checkServerRunning.
WaitForServer ==
  /\ client = "start" /\ server = "up"
  /\ client' = "collect"
  /\ UNCHANGED <<todo, serverVars, exported, historyVars, envVars>>

\* The namespaces and what is in them. Without a namespace the client returns
\* nil there and then; if listing them fails, the container exits with 1. A kind
\* of resource that cannot be listed is skipped.
Collect ==
  /\ client = "collect"
  /\ \/ client' = "post" /\ todo' = Resources /\ UNCHANGED faults
     \/ client' = "empty" /\ UNCHANGED <<todo, faults>>
     \/ Fault /\ client' = "start" /\ UNCHANGED todo
     \/ Fault /\ client' = "post" /\ todo' \in {Pods, Services}
  /\ UNCHANGED <<serverVars, exported, historyVars, scanned, crashes>>

\* GetImages: only a pod has any. On the way each is read from Harbor, or requested,
\* which changes nothing here.
GetImages(r, i) == IF r \in Pods THEN Containers[r][i] ELSE 0

\* postResource. An analysis that iterates the same map meets a new image or not.
Store(r) ==
  LET m == maps[Current]
      related == [p \in Pods |-> IF p # r THEN m.related[p]
                   ELSE [i \in Images |-> m.related[p][i] + GetImages(r, i)]]
      stored == [m EXCEPT !.related = related, !.items = @ \cup {r}]
  IN
  /\ maps' = [maps EXCEPT ![Current] = stored]
  /\ \E met \in SUBSET (Keys(stored) \ Keys(m)) :
       analysis' = [a \in Analyses |->
         IF analysis[a].pc = "fetch" /\ analysis[a].of = Current
         THEN [analysis[a] EXCEPT !.left = @ \cup met] ELSE analysis[a]]

\* An error of PostResource is logged, and the loop goes on.
PostResource(r) ==
  /\ client = "post" /\ r \in todo
  /\ todo' = todo \ {r}
  /\ IF server = "up" THEN Store(r) ELSE UNCHANGED <<maps, analysis>>
  /\ UNCHANGED <<client, server, exiting, running, exported, historyVars, envVars>>

\* postAnalyze looks at IsRunning, which only the new goroutine will set. The
\* client takes every answer, and none, for success: its err is nil.
PostAnalyze ==
  /\ client = "post" /\ todo = {}
  /\ client' = "poll"
  /\ \/ /\ server = "up" /\ ~running
        /\ \E a \in Analyses :
             /\ analysis[a].pc = "none"
             /\ analysis' = [analysis EXCEPT ![a].pc = "spawned"]
     \/ /\ server # "up" \/ running
        /\ UNCHANGED analysis
  /\ UNCHANGED <<todo, server, exiting, running, maps, exported, historyVars, envVars>>

\* An error makes the client ask again, like a yes.
IsAnalyzeRunning == server = "up" => running

Poll ==
  /\ client = "poll" /\ ~IsAnalyzeRunning
  /\ client' = "exit"
  /\ early' = (early \/ \E a \in Analyses : analysis[a].pc = "spawned")
  /\ UNCHANGED <<todo, serverVars, exported, panicked, envVars>>

\* SendExitInstruction, whose error is dropped.
SendExit ==
  /\ client = "exit"
  /\ client' = "done"
  /\ exiting' = (exiting \/ server = "up")
  /\ UNCHANGED <<todo, server, running, maps, analysis, exported, historyVars, envVars>>

----------------------------------------------------------------------------
(* The server's goroutines that run Analyze. *)

\* A process that ends takes everything with it.
Gone(state) ==
  /\ server' = state
  /\ exiting' = FALSE /\ running' = FALSE
  /\ maps' = <<NoMaps>> /\ analysis' = Quiet

Begin(a) ==
  /\ analysis[a].pc = "spawned"
  /\ running' = TRUE
  /\ analysis' = [analysis EXCEPT ![a] =
        [pc |-> "fetch", of |-> Current, left |-> Keys(maps[Current])]]
  /\ UNCHANGED <<clientVars, server, exiting, maps, exported, historyVars, envVars>>

\* Mutant: the flag is reset with the last image, before the report is sent.
FetchUnflagged(a, i) ==
  /\ analysis[a].pc = "fetch" /\ i \in analysis[a].left \cap scanned
  /\ analysis' = [analysis EXCEPT ![a].left = @ \ {i}]
  /\ running' = (analysis[a].left # {i})
  /\ maps' = [maps EXCEPT ![Current] = AddRisks(@, maps[analysis[a].of], i)]
  /\ UNCHANGED <<clientVars, server, exiting, exported, historyVars, envVars>>

\* FetchHarborReport of one image and the evaluation of its pods. An image whose
\* report fails, or that Harbor does not have, is skipped.
FetchReport(a, i) ==
  /\ analysis' = [analysis EXCEPT ![a].left = @ \ {i}]
  /\ \/ /\ i \in scanned
        /\ maps' = [maps EXCEPT ![Current] = AddRisks(@, maps[analysis[a].of], i)]
        /\ UNCHANGED faults
     \/ Fault /\ UNCHANGED maps
  /\ UNCHANGED <<clientVars, server, exiting, running, exported, historyVars, scanned, crashes>>

\* Of an image not scanned yet Harbor answers without a report: nil, and no error.
\* Analyze dereferences it, in a goroutine nobody recovers.
FetchNil(i) ==
  /\ i \notin scanned
  /\ panicked' = TRUE /\ Gone("down")
  /\ UNCHANGED <<clientVars, exported, early, envVars>>

Fetch(a, i) ==
  /\ analysis[a].pc = "fetch" /\ i \in analysis[a].left
  /\ FetchReport(a, i) \/ FetchNil(i)

\* exportRiskReport; its error is logged.
Export(a) ==
  /\ analysis[a].pc = "fetch" /\ analysis[a].left = {}
  /\ analysis' = [analysis EXCEPT ![a].pc = "finish"]
  /\ \/ exported' = Append(exported, maps[Current].risks) /\ UNCHANGED faults
     \/ Fault /\ UNCHANGED exported
  /\ UNCHANGED <<clientVars, server, exiting, running, maps, historyVars, scanned, crashes>>

\* Mutant: IsRunning is not reset.
FinishRunning(a) ==
  /\ analysis[a].pc = "finish"
  /\ analysis' = [analysis EXCEPT ![a] = NoAnalysis]
  /\ maps' = Append(maps, NoMaps)
  /\ UNCHANGED <<clientVars, server, exiting, running, exported, historyVars, envVars>>

\* The deferred function: IsRunning is reset, and Clear makes new maps.
Finish(a) ==
  /\ analysis[a].pc = "finish"
  /\ analysis' = [analysis EXCEPT ![a] = NoAnalysis]
  /\ running' = FALSE
  /\ maps' = Append(maps, NoMaps)
  /\ UNCHANGED <<clientVars, server, exiting, exported, historyVars, envVars>>

----------------------------------------------------------------------------
(* The containers. *)

ServerStart ==
  /\ server = "down"
  /\ server' = "up"
  /\ UNCHANGED <<clientVars, exiting, running, maps, analysis, exported, historyVars, envVars>>

\* getExit's deferred function, three seconds after the answer.
ServerExit ==
  /\ exiting
  /\ Gone("exited")
  /\ UNCHANGED <<clientVars, exported, historyVars, envVars>>

ServerCrash ==
  /\ server = "up"
  /\ crashes < MaxCrashes /\ crashes' = crashes + 1
  /\ Gone("down")
  /\ UNCHANGED <<clientVars, exported, historyVars, scanned, faults>>

\* Two goroutines on the same maps, one of them writing: the Go runtime may
\* notice and end the process.
Fatal ==
  LET fetching == {a \in Analyses : analysis[a].pc = "fetch"} IN
  /\ fetching # {} /\ (Cardinality(fetching) > 1 \/ (client = "post" /\ todo # {}))
  /\ Gone("down")
  /\ UNCHANGED <<clientVars, exported, historyVars, envVars>>

\* The client is killed and started again.
ClientCrash ==
  /\ client \notin {"start", "done", "empty"}
  /\ crashes < MaxCrashes /\ crashes' = crashes + 1
  /\ client' = "start" /\ todo' = {}
  /\ UNCHANGED <<serverVars, exported, historyVars, scanned, faults>>

\* Harbor ends the scan of an image.
HarborScans(i) ==
  /\ i \notin scanned
  /\ scanned' = scanned \cup {i}
  /\ UNCHANGED <<clientVars, serverVars, exported, historyVars, faults, crashes>>

ClientStep ==
  \/ WaitForServer \/ Collect \/ PostAnalyze \/ Poll \/ SendExit
  \/ \E r \in Resources : PostResource(r)

AnalysisStep(a) ==
  \/ Begin(a) \/ Export(a) \/ Finish(a)
  \/ \E i \in Images : Fetch(a, i)

Next ==
  \/ ClientStep
  \/ \E a \in Analyses : AnalysisStep(a)
  \/ ServerStart \/ ServerExit
  \/ ServerCrash \/ Fatal \/ ClientCrash
  \/ \E i \in Images : HarborScans(i)

Spec == Init /\ [][Next]_vars

\* The kubelet starts the server, both processes are scheduled, and calls return.
Fairness ==
  /\ WF_vars(ClientStep) /\ WF_vars(ServerStart) /\ WF_vars(ServerExit)
  /\ \A a \in Analyses : WF_vars(AnalysisStep(a))

FairSpec == Spec /\ Fairness

----------------------------------------------------------------------------
TypeOK ==
  /\ client \in ClientStates /\ todo \subseteq Resources
  /\ server \in {"down", "up", "exited"}
  /\ exiting \in BOOLEAN /\ running \in BOOLEAN
  /\ maps \in Seq(Maps) /\ maps # <<>>
  /\ analysis \in [Analyses -> [pc : {"none", "spawned", "fetch", "finish"},
                                of : 0..Current, left : SUBSET Images]]
  /\ exported \in Seq([Risks -> Nat])
  /\ scanned \subseteq Images
  /\ early \in BOOLEAN /\ panicked \in BOOLEAN /\ faults \in Nat /\ crashes \in Nat

\* A service routes to a pod if it selects labels and the pod has them.
Exposed(p) == \E s \in Services : Selector[s] # {} /\ Selector[s] \subseteq Labels[p]

\* What a report should say of risk x: how many containers run it.
Expected(x) ==
  IF /\ x.vuln \in Found[x.image]
     /\ CASE x.kind = "exposure"  -> x.vuln \in Network /\ Exposed(x.pod)
          [] x.kind = "privilege" -> x.vuln \in LowPrivilege /\ Exposed(x.pod)
          [] x.kind = "serious"   -> x.vuln \in Serious
  THEN Containers[x.pod][x.image] ELSE 0

\* The user guide has the vectors of serious vulnerabilities evaluated, the code
\* those of all.
Agreed(x) == Labels[x.pod] # {} /\ (x.kind = "serious" \/ x.vuln \in Serious)

Undisturbed == faults = 0 /\ crashes = 0

\* If nothing fails, a report says of every labelled pod exactly what its
\* images, its serious vulnerabilities and the cluster's services make true: the
\* analysis waits for the last resource, is not cleared under way, and is not sent
\* without the images that were not scanned when it came to them. Of the
\* vectors of other vulnerabilities the property demands neither what the guide says
\* nor what the code does.
ReportIsExact ==
  Undisturbed => \A n \in 1..Len(exported) : \A x \in Risks :
                   Agreed(x) => exported[n][x] = Expected(x)

\* The report of a scan is lost only to a failing call, a kill, a client whose
\* first poll overtakes the goroutine that sets IsRunning, or an image that Harbor
\* has not scanned yet: then it is lost for sure, of all the other images, too.
ExitLosesNothing ==
  Undisturbed /\ ~early =>
    (exiting \/ server = "exited" => Len(exported) = IF panicked THEN 0 ELSE 1)

\* The Job ends if nobody kills a container, whatever calls fail, unless there is
\* no namespace to scan, or the client, too early, has told the server to exit
\* and the server dies of its analysis first: then nobody tells it again.
JobEnds ==
  [](crashes = 0 /\ client # "empty" /\ ~(early /\ panicked))
    => <>(client = "done" /\ server = "exited")

=============================================================================
