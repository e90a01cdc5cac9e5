-------------------------- MODULE ImageScan_proofs --------------------------
(***************************************************************************)
(* Proofs about SettingReconciler and ImageScan, for any settings,         *)
(* scanners, images, registries, projects and bounds; and, at the end,     *)
(* about GrPool, the pool whose jobs scan, for any batches, workers, size  *)
(* of the queue, and moment of the cancellation.                           *)
(*                                                                         *)
(* DoneSoFar: what the conditions of a Setting say has been done in Harbor *)
(* for the version its controller reads, however the calls fail and        *)
(* whatever the user edits meanwhile. Scanners share the cache and Harbor  *)
(* and do not know of each other; what makes their verdicts right is that  *)
(* what Harbor has it keeps (Good is for good), that the cache holds       *)
(* nothing it never had (Real), and that a scanner with an image Harbor did *)
(* not have no longer passes the workload (Working).                       *)
(***************************************************************************)
EXTENDS ImageScan, GrPool, FiniteSetTheorems, TLAPS

\* Harbor has all registries of the version read.
AllRegistered == \A r \in Known[ctl.read] : registered[r] = ctl.read

\* What was done so far, at each step and under each condition.
DoneSoFar ==
  /\ ctl.pc = "register" =>
       \A r \in Known[ctl.read] \ ctl.todo : registered[r] = ctl.read
  /\ /\ ctl.pc \in {"getSchedule", "setSchedule", "projects", "open", "status"}
     /\ ctl.conds.registries = "True"
     => AllRegistered
  /\ ctl.pc \in {"projects", "open"} => schedule = ctl.read
  /\ ctl.pc = "status" /\ ctl.conds.applied = "True" => schedule = ctl.read

SettingInv == SettingTypeOK /\ DoneSoFar

----------------------------------------------------------------------------
\* A failing call is counted, within the bound.
LEMMA FaultFacts == SettingTypeOK /\ (Fault \/ UNCHANGED faults) => faults' \in 0 .. MaxFaults
  BY SettingAssumption DEF SettingTypeOK, Fault

\* The known registries are registries.
LEMMA KnownFacts == \A v \in Versions : Known[v] \subseteq Registries
  BY SettingAssumption

\* The end of the part about the registries.
LEMMA RegistriesConcluded ==
  ASSUME SettingTypeOK, NEW value \in {"True", "False"}, NEW pc \in PCs,
         Concludes("registries", value, pc, {})
  PROVE  /\ ctl' \in Locals /\ ctl'.pc = pc /\ ctl'.read = ctl.read
         /\ ctl'.conds.registries = value
  BY DEF SettingTypeOK, Concludes, Locals, Conditions

\* The end of the part about schedule and projects.
LEMMA ConfigConcluded ==
  ASSUME SettingTypeOK, NEW value \in {"True", "False"},
         Concludes("applied", value, "status", {})
  PROVE  /\ ctl' \in Locals /\ ctl'.pc = "status" /\ ctl'.read = ctl.read
         /\ ctl'.conds.registries = ctl.conds.registries
         /\ ctl'.conds.applied = value
  BY DEF SettingTypeOK, Concludes, Locals, Conditions, PCs

\* A part goes on.
LEMMA GoToFacts ==
  ASSUME SettingTypeOK, NEW pc \in PCs, NEW todo \in SUBSET (Registries \cup Projects),
         GoTo(pc, todo)
  PROVE  /\ ctl' \in Locals /\ ctl'.pc = pc /\ ctl'.todo = todo
         /\ ctl'.read = ctl.read /\ ctl'.conds = ctl.conds
  BY DEF SettingTypeOK, GoTo, Locals

\* Reconcile ends, and nothing is promised.
LEMMA IdleFacts == Idle \in Locals /\ Idle.pc = "idle"
  BY SettingAssumption DEF Idle, Locals, PCs, NoConditions, Conditions

\* Back to idle, the loop over registries or projects forgotten.
LEMMA EndFacts ==
  ASSUME ctl' = Idle PROVE ctl' \in Locals /\ DoneSoFar'
<1>1. ctl' \in Locals /\ ctl'.pc = "idle" BY IdleFacts
<1> QED BY <1>1 DEF DoneSoFar

\* Initially nothing has been done.
LEMMA SettingInitInv == SettingInit => SettingInv
<1> SUFFICES ASSUME SettingInit PROVE SettingInv OBVIOUS
<1>1. 1 \in Versions BY SettingAssumption
<1>2. ctl \in Locals /\ ctl.pc = "idle" BY IdleFacts DEF SettingInit
<1>3. SettingTypeOK
  BY <1>1, <1>2 DEF SettingInit, SettingTypeOK, NoConditions, Conditions
<1>4. DoneSoFar BY <1>2 DEF DoneSoFar
<1> QED BY <1>3, <1>4 DEF SettingInv

----------------------------------------------------------------------------
\* Each call of Reconcile, whether it fails or not.
LEMMA ReconcileStep == SettingInv /\ Reconcile => SettingInv'
<1> SUFFICES ASSUME SettingInv, Reconcile PROVE SettingInv' OBVIOUS
<1>a. SettingTypeOK /\ DoneSoFar BY DEF SettingInv
<1>b. ctl \in Locals /\ ctl.read \in Versions BY <1>a DEF SettingTypeOK, Locals
<1>1. CASE Take
  <2>1. ctl' \in Locals /\ DoneSoFar'
    <3>1. CASE version \in Enabled
      <4>1. ctl' = [pc |-> "provider", read |-> version, conds |-> status, todo |-> {}]
        BY <1>1, <3>1 DEF Take
      <4>2. ctl' \in Locals /\ ctl'.pc = "provider"
        BY <4>1, <1>a DEF SettingTypeOK, Locals, PCs
      <4> QED BY <4>2 DEF DoneSoFar
    <3>2. CASE version \notin Enabled BY <1>1, <3>2, EndFacts DEF Take
    <3> QED BY <3>1, <3>2
  <2> QED BY <1>1, <2>1, <1>a DEF Take, SettingInv, SettingTypeOK, harbor
<1>2. CASE NewProvider
  <2>1. faults' \in 0 .. MaxFaults BY <1>2, <1>a, FaultFacts DEF NewProvider
  <2>2. CASE GoTo("ping", {}) /\ UNCHANGED queued
    <3>1. ctl' \in Locals /\ ctl'.pc = "ping" BY <2>2, <1>a, GoToFacts DEF PCs
    <3> QED BY <1>2, <2>1, <2>2, <3>1, <1>a
        DEF NewProvider, SettingInv, SettingTypeOK, harbor, DoneSoFar
  <2>3. CASE Requeue
    <3>1. ctl' \in Locals /\ DoneSoFar' BY <2>3, EndFacts DEF Requeue
    <3> QED BY <1>2, <2>1, <2>3, <3>1, <1>a
        DEF NewProvider, SettingInv, SettingTypeOK, harbor, Requeue
  <2> QED BY <1>2, <2>2, <2>3 DEF NewProvider
<1>3. CASE Ping
  <2>1. faults' \in 0 .. MaxFaults BY <1>3, <1>a, FaultFacts DEF Ping
  <2>2. UNCHANGED <<version, status, queued, registered, schedule, project>>
    BY <1>3 DEF Ping, harbor
  <2>3. ASSUME NEW value \in {"True", "False"}, Pinged(value) PROVE ctl' \in Locals /\ DoneSoFar'
    <3>1. CASE Known[ctl.read] = {}
      <4>1. ctl' = [ctl EXCEPT !.conds.ready = value, !.pc = "getSchedule",
                               !.conds.registries = "True"]
        BY <2>3, <3>1 DEF Pinged
      <4>2. ctl' \in Locals /\ ctl'.pc = "getSchedule" /\ ctl'.read = ctl.read
        BY <4>1, <1>b DEF Locals, Conditions, PCs
      <4> QED BY <3>1, <4>2 DEF DoneSoFar, AllRegistered
    <3>2. CASE Known[ctl.read] # {}
      <4>1. ctl' = [ctl EXCEPT !.conds.ready = value, !.pc = "list",
                               !.conds.registries = @]
        BY <2>3, <3>2 DEF Pinged
      <4>2. ctl' \in Locals /\ ctl'.pc = "list"
        BY <4>1, <1>b DEF Locals, Conditions, PCs
      <4> QED BY <4>2 DEF DoneSoFar
    <3> QED BY <3>1, <3>2
  <2>4. ctl' \in Locals /\ DoneSoFar' BY <1>3, <2>3 DEF Ping
  <2> QED BY <2>1, <2>2, <2>4, <1>a DEF SettingInv, SettingTypeOK
<1>4. CASE ListRegistries
  <2>1. faults' \in 0 .. MaxFaults BY <1>4, <1>a, FaultFacts DEF ListRegistries, FailsWith
  <2>2. UNCHANGED <<version, status, queued, registered, schedule, project>>
    BY <1>4 DEF ListRegistries, harbor
  <2>3. CASE GoTo("register", Known[ctl.read])
    <3>1. Known[ctl.read] \subseteq Registries BY <1>b, KnownFacts
    <3>2. /\ ctl' \in Locals /\ ctl'.pc = "register" /\ ctl'.todo = Known[ctl.read]
          /\ ctl'.read = ctl.read
      BY <2>3, <3>1, <1>a, GoToFacts DEF PCs
    <3>3. DoneSoFar' BY <3>2 DEF DoneSoFar
    <3> QED BY <2>1, <2>2, <3>2, <3>3, <1>a DEF SettingInv, SettingTypeOK
  <2>4. CASE FailsWith("registries", "getSchedule")
    <3>1. ctl' \in Locals /\ ctl'.pc = "getSchedule" /\ ctl'.conds.registries = "False"
      BY <2>4, <1>a, RegistriesConcluded DEF FailsWith, PCs
    <3>2. DoneSoFar' BY <3>1 DEF DoneSoFar
    <3> QED BY <2>1, <2>2, <3>1, <3>2, <1>a DEF SettingInv, SettingTypeOK
  <2> QED BY <1>4, <2>3, <2>4 DEF ListRegistries
<1>5. ASSUME NEW r \in Registries, RegisterRegistry(r) PROVE SettingInv'
  <2>1. faults' \in 0 .. MaxFaults BY <1>5, <1>a, FaultFacts DEF RegisterRegistry, FailsWith
  <2>2. UNCHANGED <<version, status, queued, schedule, project>> /\ ctl.pc = "register"
    BY <1>5 DEF RegisterRegistry, At
  <2>3. CASE FailsWith("registries", "getSchedule") /\ UNCHANGED registered
    <3>1. ctl' \in Locals /\ ctl'.pc = "getSchedule" /\ ctl'.conds.registries = "False"
      BY <2>3, <1>a, RegistriesConcluded DEF FailsWith, PCs
    <3>2. DoneSoFar' BY <3>1 DEF DoneSoFar
    <3> QED BY <2>1, <2>2, <2>3, <3>1, <3>2, <1>a DEF SettingInv, SettingTypeOK
  <2>4. CASE /\ registered' = [registered EXCEPT ![r] = ctl.read]
             /\ IF ctl.todo \ {r} = {} THEN Concludes("registries", "True", "getSchedule", {})
                ELSE GoTo("register", ctl.todo \ {r})
    <3>1. registered' \in [Registries -> Versions \cup {0}]
      BY <2>4, <1>a, <1>b DEF SettingTypeOK
    <3>2. \A q \in Known[ctl.read] \ (ctl.todo \ {r}) : registered'[q] = ctl.read
      BY <2>2, <2>4, <1>a, <1>b, KnownFacts DEF DoneSoFar, SettingTypeOK
    <3>3. CASE ctl.todo \ {r} = {}
      <4>1. /\ ctl' \in Locals /\ ctl'.pc = "getSchedule" /\ ctl'.read = ctl.read
        BY <2>4, <3>3, <1>a, RegistriesConcluded DEF PCs
      <4>2. DoneSoFar' BY <3>2, <3>3, <4>1 DEF DoneSoFar, AllRegistered
      <4> QED BY <2>1, <2>2, <3>1, <4>1, <4>2, <1>a DEF SettingInv, SettingTypeOK
    <3>4. CASE ctl.todo \ {r} # {}
      <4>1. ctl.todo \ {r} \in SUBSET (Registries \cup Projects) BY <1>b DEF Locals
      <4>2. /\ ctl' \in Locals /\ ctl'.pc = "register" /\ ctl'.read = ctl.read
            /\ ctl'.todo = ctl.todo \ {r}
        BY <2>4, <3>4, <4>1, <1>a, GoToFacts DEF PCs
      <4>3. DoneSoFar' BY <3>2, <4>2 DEF DoneSoFar
      <4> QED BY <2>1, <2>2, <3>1, <4>2, <4>3, <1>a DEF SettingInv, SettingTypeOK
    <3> QED BY <3>3, <3>4
  <2> QED BY <1>5, <2>3, <2>4 DEF RegisterRegistry
<1>6. ASSUME FailsWith("applied", "status"),
             UNCHANGED <<version, status, queued, registered, schedule>>,
             project' \in [Projects -> {"absent", "closed", "scanning"}],
             ctl.pc \in {"getSchedule", "setSchedule", "projects", "open"}
      PROVE  SettingInv'
  <2>1. faults' \in 0 .. MaxFaults BY <1>6, <1>a, FaultFacts DEF FailsWith
  <2>2. /\ ctl' \in Locals /\ ctl'.pc = "status" /\ ctl'.read = ctl.read
        /\ ctl'.conds.registries = ctl.conds.registries
        /\ ctl'.conds.applied = "False"
    BY <1>6, <1>a, ConfigConcluded DEF FailsWith
  <2>3. DoneSoFar' BY <1>6, <2>2, <1>a DEF DoneSoFar, AllRegistered
  <2> QED BY <1>6, <2>1, <2>2, <2>3, <1>a DEF SettingInv, SettingTypeOK
<1>7. ASSUME Concludes("applied", "True", "status", {}), ctl.pc \in {"projects", "open"},
             UNCHANGED <<version, status, queued, registered, schedule>>,
             project' \in [Projects -> {"absent", "closed", "scanning"}],
             faults' \in 0 .. MaxFaults
      PROVE  SettingInv'
  <2>1. /\ ctl' \in Locals /\ ctl'.pc = "status" /\ ctl'.read = ctl.read
        /\ ctl'.conds.registries = ctl.conds.registries
    BY <1>7, <1>a, ConfigConcluded
  <2>2. DoneSoFar' BY <1>7, <2>1, <1>a DEF DoneSoFar, AllRegistered
  <2> QED BY <1>7, <2>1, <2>2, <1>a DEF SettingInv, SettingTypeOK
<1>8. ASSUME NEW pc \in {"setSchedule", "projects", "open"},
             NEW todo \in SUBSET (Registries \cup Projects), GoTo(pc, todo),
             ctl.pc \in {"getSchedule", "setSchedule", "projects", "open"},
             pc # "setSchedule" => schedule' = ctl.read,
             UNCHANGED <<version, status, queued, registered>>,
             schedule' \in Versions \cup {0},
             project' \in [Projects -> {"absent", "closed", "scanning"}],
             faults' \in 0 .. MaxFaults
      PROVE  SettingInv'
  <2>1. /\ ctl' \in Locals /\ ctl'.pc = pc /\ ctl'.read = ctl.read
        /\ ctl'.conds = ctl.conds
    BY <1>8, <1>a, GoToFacts DEF PCs
  <2>2. DoneSoFar' BY <1>8, <2>1, <1>a DEF DoneSoFar, AllRegistered
  <2> QED BY <1>8, <2>1, <2>2, <1>a DEF SettingInv, SettingTypeOK
<1>c. faults \in 0 .. MaxFaults /\ schedule \in Versions \cup {0}
      /\ project \in [Projects -> {"absent", "closed", "scanning"}]
  BY <1>a DEF SettingTypeOK
<1>9. CASE GetScanAllSchedule
  <2>1. UNCHANGED <<version, status, queued, registered, schedule, project>> /\ ctl.pc = "getSchedule"
    BY <1>9 DEF GetScanAllSchedule, harbor, At
  <2>2. CASE GoTo(IF schedule = ctl.read THEN "projects" ELSE "setSchedule", {}) /\ UNCHANGED faults
    BY <1>8, <1>c, <2>1, <2>2
  <2>3. CASE FailsWith("applied", "status") BY <1>6, <1>c, <2>1, <2>3
  <2> QED BY <1>9, <2>2, <2>3 DEF GetScanAllSchedule
<1>10. CASE SetScanAllSchedule
  <2>1. UNCHANGED <<version, status, queued, registered, project>> /\ ctl.pc = "setSchedule"
    BY <1>10 DEF SetScanAllSchedule, At
  <2>2. CASE schedule' = ctl.read /\ GoTo("projects", {}) /\ UNCHANGED faults
    BY <1>8, <1>b, <1>c, <2>1, <2>2
  <2>3. CASE FailsWith("applied", "status") /\ UNCHANGED schedule
    BY <1>6, <1>c, <2>1, <2>3
  <2> QED BY <1>10, <2>2, <2>3 DEF SetScanAllSchedule
<1>11. CASE ListProjects
  <2> DEFINE shut == {p \in Projects : project[p] = "closed"}
  <2>1. UNCHANGED <<version, status, queued, registered, schedule, project>> /\ ctl.pc = "projects"
    BY <1>11 DEF ListProjects, harbor, At
  <2>2. CASE Concludes("applied", "True", "status", {}) /\ UNCHANGED faults
    BY <1>7, <1>c, <2>1, <2>2
  <2>3. CASE GoTo("open", shut) /\ UNCHANGED faults
    <3>1. schedule' = ctl.read BY <2>1, <1>a DEF DoneSoFar
    <3>2. shut \in SUBSET (Registries \cup Projects) OBVIOUS
    <3> HIDE DEF shut
    <3> QED BY <1>8, <1>c, <2>1, <2>3, <3>1, <3>2
  <2>4. CASE FailsWith("applied", "status") BY <1>6, <1>c, <2>1, <2>4
  <2> QED BY <1>11, <2>2, <2>3, <2>4 DEF ListProjects
<1>12. ASSUME NEW p \in Projects, OpenProject(p) PROVE SettingInv'
  <2>1. UNCHANGED <<version, status, queued, registered, schedule>> /\ ctl.pc = "open"
    BY <1>12 DEF OpenProject, At
  <2>2. project' \in [Projects -> {"absent", "closed", "scanning"}]
    BY <1>12, <1>c DEF OpenProject
  <2>3. CASE Concludes("applied", "True", "status", {}) /\ UNCHANGED faults
    BY <1>7, <1>c, <2>1, <2>2, <2>3
  <2>4. CASE GoTo("open", ctl.todo \ {p}) /\ UNCHANGED faults
    <3>1. schedule' = ctl.read BY <2>1, <1>a DEF DoneSoFar
    <3>2. ctl.todo \ {p} \in SUBSET (Registries \cup Projects) BY <1>b DEF Locals
    <3> QED BY <1>8, <1>c, <2>1, <2>2, <2>4, <3>1, <3>2
  <2>5. CASE FailsWith("applied", "status") BY <1>6, <2>1, <2>2, <2>5
  <2> QED BY <1>12, <2>3, <2>4, <2>5 DEF OpenProject
<1>13. CASE UpdateStatus
  <2>1. faults' \in 0 .. MaxFaults BY <1>13, <1>a, FaultFacts DEF UpdateStatus
  <2>2. ctl' = Idle BY <1>13 DEF UpdateStatus, Requeue
  <2>3. ctl' \in Locals /\ DoneSoFar' BY <2>2, EndFacts
  <2>4. status' \in Conditions BY <1>13, <1>a DEF UpdateStatus, SettingTypeOK, Locals
  <2>5. queued' \in BOOLEAN BY <1>13, <1>a DEF UpdateStatus, Requeue, SettingTypeOK
  <2>6. UNCHANGED <<version, registered, schedule, project>> BY <1>13 DEF UpdateStatus, harbor
  <2> QED BY <2>1, <2>3, <2>4, <2>5, <2>6, <1>a DEF SettingInv, SettingTypeOK
<1> QED BY <1>1, <1>2, <1>3, <1>4, <1>5, <1>9, <1>10, <1>11, <1>12, <1>13 DEF Reconcile

\* Users, and the resync.
LEMMA OthersStep ==
  ASSUME SettingInv, Edit \/ Resync \/ \E p \in Projects : AddProject(p)
  PROVE  SettingInv'
<1>a. SettingTypeOK /\ DoneSoFar BY DEF SettingInv
<1>1. CASE Edit
  <2>1. UNCHANGED <<status, ctl, registered, schedule, project, faults>>
    BY <1>1 DEF Edit, harbor
  <2>2. version' \in Versions /\ queued' \in BOOLEAN BY <1>1 DEF Edit
  <2>3. DoneSoFar' BY <2>1, <1>a DEF DoneSoFar, AllRegistered
  <2> QED BY <2>1, <2>2, <2>3, <1>a DEF SettingInv, SettingTypeOK
<1>2. CASE Resync
  <2>1. UNCHANGED <<version, status, ctl, registered, schedule, project, faults>>
    BY <1>2 DEF Resync, harbor
  <2>2. queued' \in BOOLEAN BY <1>2 DEF Resync
  <2>3. DoneSoFar' BY <2>1, <1>a DEF DoneSoFar, AllRegistered
  <2> QED BY <2>1, <2>2, <2>3, <1>a DEF SettingInv, SettingTypeOK
<1>3. ASSUME NEW p \in Projects, AddProject(p) PROVE SettingInv'
  <2>1. UNCHANGED <<version, status, queued, ctl, registered, schedule, faults>>
    BY <1>3 DEF AddProject
  <2>2. project' \in [Projects -> {"absent", "closed", "scanning"}]
    BY <1>3, <1>a DEF AddProject, SettingTypeOK
  <2>3. DoneSoFar' BY <2>1, <1>a DEF DoneSoFar, AllRegistered
  <2> QED BY <2>1, <2>2, <2>3, <1>a DEF SettingInv, SettingTypeOK
<1> QED BY <1>1, <1>2, <1>3

\* A status that becomes healthy speaks of the present version, which an edit after
\* the read would have made conflict.
LEMMA HealthyStep ==
  ASSUME SettingInv, Reconcile, Healthy(status'), status' # status
  PROVE  InHarbor
<1>1. UpdateStatus
  BY DEF Reconcile, Take, NewProvider, Ping, ListRegistries, RegisterRegistry,
     GetScanAllSchedule, SetScanAllSchedule, ListProjects, OpenProject
<1>2. version = ctl.read /\ status' = ctl.conds /\ ctl.pc = "status"
  BY <1>1 DEF UpdateStatus, At
<1>3. ctl.conds \in Conditions BY DEF SettingInv, SettingTypeOK, Locals
<1>4. ctl.conds.registries = "True" /\ ctl.conds.applied = "True"
  BY <1>2, <1>3 DEF Healthy, Conditions
<1> QED BY <1>2, <1>4 DEF SettingInv, DoneSoFar, AllRegistered, InHarbor

----------------------------------------------------------------------------
\* The scanners of images.

\* The steps of a request.
Requesting == {"project", "create", "update", "policies", "registries", "policy", "trigger"}
\* The stores that come from a report.
Reports == {"scanning"} \cup Severities

\* Harbor has the image and has begun to scan it: what every report is of.
Good(i) == artifact[i] \in Reports

\* The cache holds no report that Harbor never had.
Real == \A i \in Images : cache[i] \in Reports => Good(i)

\* The images a scanner has seen so far.
Seen(l) == {i \in deployed.images \ l.todo : l.pc = "image" \/ i # l.image}

\* What a scanner in the middle of a workload knows.
Working(s) ==
  LET l == scan[s] IN
  /\ l.pc = "write" /\ l.store \in Reports => Good(l.image)
  /\ l.pc # "idle" /\ l.passed => \A i \in Seen(l) : Good(i)
  /\ l.pc \in Requesting => ~l.passed /\ l.image \in Tagged
  /\ l.pc = "trigger" => l.image \in policies

\* ScanTypeOK without the variables of SettingInv and the scanners'.
HarborTypeOK ==
  /\ deployed \in Deployments
  /\ artifact \in [Images -> Stores]
  /\ policies \subseteq Tagged /\ replicating \subseteq policies
  /\ cache \in [Images -> Stores]
  /\ verdict \in {"none", "pass", "fail"}
  /\ rescans \in 0 .. MaxRescans

ScanInv ==
  /\ HarborTypeOK /\ scan \in [Scanners -> Scans]
  /\ Real /\ PassedIsInHarbor
  /\ \A s \in Scanners : Working(s)

IInv == SettingInv /\ ScanInv

----------------------------------------------------------------------------
\* Which stores come from a report, and which from an artifact that has none.
LEMMA StoreFacts ==
  /\ Reports = Stores \ {"none", "unscanned"}
  /\ Severities = {"low", "high"} /\ Reports = {"scanning", "low", "high"}
  BY DEF Reports, Stores, Severities

\* A scanner between two scans.
LEMMA NotScanningFacts ==
  /\ NotScanning \in Scans /\ NotScanning.pc = "idle" /\ NotScanning.passed = TRUE
  BY ImagesAssumption DEF NotScanning, Scans, ScanPCs, Stores

\* The cache is left alone, or gets what Harbor really has.
CacheReal ==
  \/ cache' = cache
  \/ /\ cache' \in [Images -> Stores]
     /\ \A i \in Images : cache'[i] \in Reports => Good(i)

\* What a scanner knows stays true when Harbor gets on and policies are added.
LEMMA WorkingStays ==
  ASSUME NEW s \in Scanners, Working(s), scan'[s] = scan[s], deployed' = deployed,
         deployed.images \subseteq Images, scan[s].image \in Images,
         \A i \in Images : Good(i) => Good(i)', policies \subseteq policies'
  PROVE  Working(s)'
<1> DEFINE l == scan[s]
<1>1. scan'[s] = l /\ Seen(l)' = Seen(l) BY DEF Seen
<1>2. l.pc = "write" /\ l.store \in Reports => Good(l.image)' BY DEF Working
<1>3. l.pc # "idle" /\ l.passed => \A i \in Seen(l) : Good(i)'
  <2>1. Seen(l) \subseteq Images BY DEF Seen
  <2> QED BY <2>1 DEF Working
<1>4. /\ l.pc \in Requesting => ~l.passed /\ l.image \in Tagged
      /\ l.pc = "trigger" => l.image \in policies'
  BY DEF Working
<1>5. l' = l OBVIOUS
<1> HIDE DEF l
<1> QED BY <1>1, <1>2, <1>3, <1>4, <1>5 DEF Working

\* What follows from the invariant about one scanner.
LEMMA ScanFacts ==
  ASSUME ScanInv, NEW s \in Scanners
  PROVE  /\ scan[s] \in Scans /\ Working(s) /\ scan[s].image \in Images
         /\ deployed.images \subseteq Images /\ deployed.scanners \subseteq Scanners
         /\ \A t \in Scanners : scan[t].image \in Images
  BY ImagesAssumption DEF ScanInv, HarborTypeOK, Scans

\* A step of scanner s that leaves it with l, and adds to Harbor what it adds.
LEMMA ContinuesStep ==
  ASSUME ScanInv, NEW s \in Scanners, NEW l \in Scans, Continues(s, l),
         UNCHANGED <<deployed, artifact, replicating, rescans, verdict>>, CacheReal,
         policies \subseteq policies', policies' \subseteq Tagged,
         l.pc = "write" /\ l.store \in Reports => Good(l.image),
         l.pc # "idle" /\ l.passed => \A i \in Seen(l) : Good(i),
         l.pc \in Requesting => ~l.passed /\ l.image \in Tagged,
         l.pc = "trigger" => l.image \in policies'
  PROVE  ScanInv'
<1>1. \A i : Good(i)' = Good(i) BY DEF Good
<1>2. /\ scan' \in [Scanners -> Scans] /\ scan'[s] = l
      /\ \A t \in Scanners \ {s} : scan'[t] = scan[t]
  BY DEF ScanInv, Continues
<1>3. Seen(l)' = Seen(l) BY DEF Seen
<1>4. Working(s)' BY <1>1, <1>2, <1>3 DEF Working
<1>5. \A t \in Scanners \ {s} : Working(t)' BY <1>1, <1>2, ScanFacts, WorkingStays
<1>6. HarborTypeOK' BY DEF ScanInv, HarborTypeOK, CacheReal
<1>7. Real' /\ PassedIsInHarbor' BY <1>1 DEF ScanInv, Real, PassedIsInHarbor, CacheReal
<1> QED BY <1>2, <1>4, <1>5, <1>6, <1>7 DEF ScanInv

\* Harbor or Redis does something on its own.
LEMMA HarborStep ==
  ASSUME ScanInv, UNCHANGED <<deployed, policies, scan, verdict>>,
         artifact' \in [Images -> Stores], cache' \in [Images -> Stores],
         replicating' \subseteq policies, rescans' \in 0 .. MaxRescans,
         \A i \in Images : Good(i) => Good(i)',
         \A i \in Images : cache'[i] \in Reports => Good(i)'
  PROVE  ScanInv'
<1>1. \A t \in Scanners : Working(t)' BY ScanFacts, WorkingStays DEF ScanInv
<1>2. HarborTypeOK' BY DEF ScanInv, HarborTypeOK
<1>3. Real' BY DEF Real
<1>4. deployed.images \subseteq Images BY ImagesAssumption DEF ScanInv, HarborTypeOK
<1>5. \A i \in Images : artifact[i] \notin {"none", "unscanned"} => Good(i)
  BY StoreFacts DEF ScanInv, HarborTypeOK, Good
<1>6. \A i \in Images : Good(i)' => artifact'[i] \notin {"none", "unscanned"}
  BY StoreFacts DEF Good
<1>7. PassedIsInHarbor' BY <1>4, <1>5, <1>6 DEF ScanInv, PassedIsInHarbor
<1> QED BY <1>1, <1>2, <1>3, <1>7 DEF ScanInv

\* A scanner gives up its request and goes on to the next image.
LEMMA JumpStep ==
  ASSUME ScanInv, NEW s \in Scanners, NEW pc \in ScanPCs, Jump(s, pc),
         scan[s].pc \notin {"idle", "image"},
         UNCHANGED <<deployed, artifact, replicating, rescans, cache, verdict>>,
         policies \subseteq policies', policies' \subseteq Tagged,
         pc \notin {"idle", "write"},
         pc = "image" => ~scan[s].passed,
         pc \in Requesting => scan[s].pc \in Requesting,
         pc = "trigger" => scan[s].image \in policies'
  PROVE  ScanInv'
<1> DEFINE l == [scan[s] EXCEPT !.pc = pc]
<1>1. scan[s] \in Scans /\ Working(s) BY ScanFacts
<1>2. l \in Scans /\ l.pc = pc /\ l.image = scan[s].image /\ l.passed = scan[s].passed
      /\ l.todo = scan[s].todo /\ l.store = scan[s].store
  BY <1>1 DEF Scans
<1>3. Continues(s, l) BY DEF Jump
<1>4. l.passed => \A i \in Seen(l) : Good(i)
  <2>1. pc # "image" => Seen(l) \subseteq Seen(scan[s]) BY <1>2 DEF Seen
  <2> QED BY <1>1, <1>2, <2>1 DEF Working
<1>5. l.pc \in Requesting => ~l.passed /\ l.image \in Tagged BY <1>1, <1>2 DEF Working
<1> HIDE DEF l
<1> QED BY <1>2, <1>3, <1>4, <1>5, ContinuesStep DEF CacheReal

\* Ends: the scanner forgets all.
LEMMA EndsStep ==
  ASSUME ScanInv, NEW s \in Scanners, Ends(s),
         UNCHANGED <<deployed, artifact, policies, replicating, rescans, cache, verdict>>
  PROVE  ScanInv'
<1>1. policies \subseteq Tagged BY DEF ScanInv, HarborTypeOK
<1>2. Continues(s, NotScanning) BY DEF Ends
<1>3. "idle" \notin Requesting \cup {"write", "trigger"} BY DEF Requesting
<1> QED BY <1>1, <1>2, <1>3, NotScanningFacts, ContinuesStep DEF CacheReal

----------------------------------------------------------------------------
\* Harbor and the cache in Init have nothing but what was pushed.
LEMMA InitIInv == ScanInit => IInv
<1> SUFFICES ASSUME ScanInit PROVE IInv OBVIOUS
<1>1. SettingInv BY SettingInitInv DEF ScanInit
<1>2. HarborTypeOK
  BY ImagesAssumption DEF ScanInit, HarborTypeOK, Stores
<1>3. scan \in [Scanners -> Scans] BY NotScanningFacts DEF ScanInit
<1>4. Real BY StoreFacts DEF ScanInit, Real
<1>5. \A s \in Scanners : Working(s)
  BY NotScanningFacts DEF ScanInit, Working, Requesting
<1> QED BY <1>1, <1>2, <1>3, <1>4, <1>5 DEF ScanInit, IInv, ScanInv, PassedIsInHarbor

\* The assessment of a store that Harbor really had.
LEMMA AssessStep ==
  ASSUME ScanInv, NEW s \in Scanners, NEW store \in Stores, Assess(s, store),
         store \in Reports => Good(scan[s].image),
         scan[s].pc \notin {"idle", "image"},
         UNCHANGED <<deployed, artifact, policies, replicating, rescans, verdict>>,
         CacheReal
  PROVE  ScanInv'
<1> DEFINE l == [scan[s] EXCEPT !.pc = "image", !.store = "none",
                               !.passed = @ /\ store \in {"low", "scanning"}]
<1>1. scan[s] \in Scans /\ Working(s) BY ScanFacts
<1>2. scan[s].passed \in BOOLEAN BY <1>1 DEF Scans
<1>3. /\ l \in Scans /\ l.pc = "image" /\ l.image = scan[s].image /\ l.todo = scan[s].todo
      /\ l.passed = (scan[s].passed /\ store \in {"low", "scanning"})
  BY <1>1, <1>2 DEF Scans, ScanPCs, Stores
<1>4. Continues(s, l) BY DEF Assess
<1>5. Seen(l) \subseteq Seen(scan[s]) \cup {scan[s].image} BY <1>3 DEF Seen
<1>6. l.passed => \A i \in Seen(l) : Good(i)
  BY <1>1, <1>3, <1>5, StoreFacts DEF Working
<1>7. l.pc \notin Requesting \cup {"write", "trigger"} BY <1>3 DEF Requesting
<1>8. policies \subseteq Tagged BY DEF ScanInv, HarborTypeOK
<1> HIDE DEF l
<1> QED BY <1>3, <1>4, <1>6, <1>7, <1>8, ContinuesStep DEF CacheReal

\* The first part of a scan: its start, the images, and Trivy.
LEMMA BeginStep ==
  ASSUME ScanInv, NEW s \in Scanners,
         RunFails(s) \/ StartScan(s) \/ NextImage(s) \/ ScanWithTrivy(s)
  PROVE  ScanInv'
<1>a. scan[s] \in Scans /\ Working(s) /\ policies \subseteq Tagged
      /\ deployed.images \subseteq Images
  BY ScanFacts DEF ScanInv, HarborTypeOK
<1>1. CASE RunFails(s)
  <2>1. UNCHANGED <<deployed, artifact, policies, replicating, rescans, cache, verdict>>
        /\ Ends(s)
    BY <1>1 DEF RunFails, OfHarbor
  <2> QED BY <2>1, EndsStep
<1>2. CASE StartScan(s)
  <2> DEFINE l == [NotScanning EXCEPT !.pc = "image", !.todo = deployed.images]
  <2>1. UNCHANGED <<deployed, artifact, policies, replicating, rescans, cache, verdict>>
        /\ Continues(s, l)
    BY <1>2 DEF StartScan, OfHarbor
  <2>2. l \in Scans /\ l.pc = "image" /\ l.todo = deployed.images
    BY <1>a, NotScanningFacts DEF Scans, ScanPCs
  <2>3. Seen(l) = {} BY <2>2 DEF Seen
  <2>4. l.pc \notin Requesting \cup {"write", "trigger"} BY <2>2 DEF Requesting
  <2> HIDE DEF l
  <2> QED BY <1>a, <2>1, <2>2, <2>3, <2>4, ContinuesStep DEF CacheReal
<1>3. CASE NextImage(s)
  <2>1. UNCHANGED <<deployed, artifact, policies, replicating, rescans, cache, verdict>>
    BY <1>3 DEF NextImage, OfHarbor
  <2>2. PICK i \in scan[s].todo :
          Continues(s, [scan[s] EXCEPT !.pc = "trivy", !.image = i, !.todo = @ \ {i}])
    BY <1>3 DEF NextImage
  <2> DEFINE l == [scan[s] EXCEPT !.pc = "trivy", !.image = i, !.todo = @ \ {i}]
  <2>3. l \in Scans /\ l.pc = "trivy" /\ l.image = i /\ l.todo = scan[s].todo \ {i}
        /\ l.passed = scan[s].passed
    BY <1>a DEF Scans, ScanPCs
  <2>4. scan[s].pc = "image" BY <1>3 DEF NextImage, On
  <2>5. Seen(l) \subseteq Seen(scan[s]) BY <2>3, <2>4 DEF Seen
  <2>6. l.passed => \A j \in Seen(l) : Good(j) BY <1>a, <2>3, <2>4, <2>5 DEF Working
  <2>7. l.pc \notin Requesting \cup {"write", "trigger"} BY <2>3 DEF Requesting
  <2>8. Continues(s, l) BY <2>2
  <2> HIDE DEF l
  <2> QED BY <1>a, <2>1, <2>3, <2>6, <2>7, <2>8, ContinuesStep DEF CacheReal
<1>4. CASE ScanWithTrivy(s)
  <2>1. UNCHANGED <<deployed, artifact, policies, replicating, rescans, cache, verdict>>
        /\ scan[s].pc \in {"trivy", "report"}
        /\ (Jump(s, "report") \/ Jump(s, "read") \/ Ends(s))
    BY <1>4 DEF ScanWithTrivy, Scan, GetReport, OfHarbor, On
  <2>2. CASE Ends(s) BY <2>1, <2>2, EndsStep
  <2>3. ASSUME NEW pc \in {"report", "read"}, Jump(s, pc) PROVE ScanInv'
    <3>1. pc \in ScanPCs /\ pc \notin Requesting BY DEF ScanPCs, Requesting
    <3> QED BY <1>a, <2>1, <2>3, <3>1, JumpStep
  <2> QED BY <2>1, <2>2, <2>3
<1> QED BY <1>1, <1>2, <1>3, <1>4

\* The cache, Harbor, and what is written to the cache.
LEMMA ReadStep ==
  ASSUME ScanInv, NEW s \in Scanners, Read(s)
  PROVE  ScanInv'
<1>a. scan[s] \in Scans /\ Working(s) /\ policies \subseteq Tagged
      /\ scan[s].image \in Images /\ Image(s) = scan[s].image
  BY ScanFacts DEF ScanInv, HarborTypeOK, Image
<1>b. UNCHANGED <<deployed, artifact, policies, replicating, rescans, verdict>>
  BY DEF Read, ReadCache, Fetch, WriteCache, OfHarbor
<1>1. CASE ReadCache(s)
  <2>1. cache' = cache /\ scan[s].pc = "read" BY <1>1 DEF ReadCache, On
  <2>2. cache[Image(s)] \in Stores /\ (cache[Image(s)] \in Reports => Good(scan[s].image))
    BY <1>a DEF ScanInv, HarborTypeOK, Real
  <2>3. CASE Jump(s, "fetch")
    <3>1. "fetch" \in ScanPCs /\ "fetch" \notin Requesting BY DEF ScanPCs, Requesting
    <3> QED BY <1>a, <1>b, <2>1, <2>3, <3>1, JumpStep
  <2>4. CASE Assess(s, cache[Image(s)])
    BY <1>b, <2>1, <2>2, <2>4, AssessStep DEF CacheReal
  <2> QED BY <1>1, <2>3, <2>4 DEF ReadCache
<1>2. CASE Fetch(s)
  <2> DEFINE failed == [scan[s] EXCEPT !.passed = FALSE]
             found == artifact[Image(s)]
             writing == [scan[s] EXCEPT !.pc = "write", !.store = found]
             going(pc) == [failed EXCEPT !.pc = pc]
  <2>1. cache' = cache /\ scan[s].pc = "fetch" BY <1>2 DEF Fetch, On
  <2>2. found \in Stores BY <1>a DEF ScanInv, HarborTypeOK
  <2>3. CASE Continues(s, writing)
    <3>1. /\ writing \in Scans /\ writing.pc = "write" /\ writing.store = found
          /\ writing.image = scan[s].image /\ writing.todo = scan[s].todo
          /\ writing.passed = scan[s].passed
      BY <1>a, <2>2 DEF Scans, ScanPCs
    <3>2. found \in Reports => Good(writing.image) BY <1>a, <3>1 DEF Good
    <3>3. Seen(writing) = Seen(scan[s]) BY <2>1, <3>1 DEF Seen
    <3>4. writing.passed => \A i \in Seen(writing) : Good(i)
      BY <1>a, <2>1, <3>1, <3>3 DEF Working
    <3>5. writing.pc \notin Requesting \cup {"trigger"} BY <3>1 DEF Requesting
    <3> HIDE DEF writing, found
    <3> QED BY <1>a, <1>b, <2>1, <2>3, <3>1, <3>2, <3>4, <3>5, ContinuesStep DEF CacheReal
  <2>4. ASSUME NEW pc \in {"image", "project"}, Continues(s, going(pc)),
               pc = "project" => scan[s].image \in Tagged
        PROVE  ScanInv'
    <3>1. /\ going(pc) \in Scans /\ going(pc).pc = pc /\ going(pc).image = scan[s].image
          /\ going(pc).passed = FALSE
      BY <1>a DEF Scans, ScanPCs
    <3>2. "image" \notin Requesting /\ pc # "trigger" BY DEF Requesting
    <3> HIDE DEF going
    <3> QED BY <1>a, <1>b, <2>1, <2>4, <3>1, <3>2, ContinuesStep DEF CacheReal
  <2>5. \/ Continues(s, writing) \/ Continues(s, going("image"))
        \/ scan[s].image \in Tagged /\ Continues(s, going("project"))
    BY <1>2, <1>a DEF Fetch
  <2> HIDE DEF writing, going
  <2> QED BY <2>3, <2>4, <2>5
<1>3. CASE WriteCache(s)
  <2>1. scan[s].pc = "write" /\ Assess(s, scan[s].store) BY <1>3 DEF WriteCache, On
  <2>2. scan[s].store \in Stores /\ (scan[s].store \in Reports => Good(scan[s].image))
    BY <1>a, <2>1 DEF Scans, Working
  <2>3. CASE UNCHANGED cache BY <1>b, <2>1, <2>2, <2>3, AssessStep DEF CacheReal
  <2>4. CASE cache' = [cache EXCEPT ![Image(s)] = scan[s].store]
    <3>1. CacheReal
      BY <1>a, <2>2, <2>4 DEF ScanInv, HarborTypeOK, Real, CacheReal
    <3> QED BY <1>b, <2>1, <2>2, <3>1, AssessStep
  <2> QED BY <1>3, <2>3, <2>4 DEF WriteCache
<1> QED BY <1>1, <1>2, <1>3 DEF Read

\* A request: none of its steps lets the workload pass.
LEMMA RequestStep ==
  ASSUME ScanInv, NEW s \in Scanners, Request(s)
  PROVE  ScanInv'
<1>a. /\ scan[s] \in Scans /\ Working(s) /\ policies \subseteq Tagged
      /\ scan[s].image \in Images /\ Image(s) = scan[s].image
      /\ replicating \subseteq policies /\ artifact \in [Images -> Stores]
      /\ cache \in [Images -> Stores] /\ rescans \in 0 .. MaxRescans
  BY ScanFacts DEF ScanInv, HarborTypeOK, Image
<1>b. scan[s].pc \in Requesting
  BY DEF Request, GetProject, CreateProject, UpdateProject, ListPolicies, FindRegistry,
         CreatePolicy, Trigger, On, Requesting
<1>c. ~scan[s].passed /\ scan[s].image \in Tagged /\ scan[s].pc \notin {"idle", "image"}
  BY <1>a, <1>b DEF Working, Requesting
<1>d. UNCHANGED <<deployed, artifact, rescans, cache, verdict>>
  BY DEF Request, GetProject, CreateProject, UpdateProject, ListPolicies, FindRegistry,
         CreatePolicy, Trigger, OfHarbor
<1>e. Requesting \subseteq ScanPCs /\ "image" \in ScanPCs /\ "image" \notin Requesting
      /\ "write" \notin Requesting /\ "idle" \notin Requesting
  BY DEF Requesting, ScanPCs
<1>1. ASSUME NEW pc \in Requesting \cup {"image"}, Jump(s, pc),
             replicating' = replicating, policies \subseteq policies',
             policies' \subseteq Tagged,
             pc = "trigger" => scan[s].image \in policies'
      PROVE  ScanInv'
  <2>1. pc \in ScanPCs /\ pc \notin {"idle", "write"} BY <1>e
  <2> QED BY <1>a, <1>b, <1>c, <1>d, <1>1, <2>1, JumpStep
<1>2. CASE GetProject(s)
  <2>1. policies' = policies /\ replicating' = replicating
    BY <1>2 DEF GetProject, OfHarbor
  <2>2. \E pc \in {"create", "update", "policies"} : Jump(s, pc) BY <1>2 DEF GetProject
  <2>3. PICK pc \in {"create", "update", "policies"} : Jump(s, pc) BY <2>2
  <2> QED BY <1>1, <1>a, <2>1, <2>3 DEF Requesting
<1>3. CASE CreateProject(s) \/ UpdateProject(s)
  <2>1. policies' = policies /\ replicating' = replicating
    BY <1>3 DEF CreateProject, UpdateProject, OfHarbor
  <2>2. Jump(s, "policies") \/ Jump(s, "image")
    BY <1>3 DEF CreateProject, UpdateProject, GivesUp
  <2> QED BY <1>1, <1>a, <2>1, <2>2 DEF Requesting
<1>4. CASE ListPolicies(s)
  <2>1. policies' = policies /\ replicating' = replicating
    BY <1>4 DEF ListPolicies, OfHarbor
  <2>2. \/ Jump(s, "trigger") /\ scan[s].image \in policies
        \/ Jump(s, "registries") \/ Jump(s, "image")
    BY <1>4, <1>a DEF ListPolicies, GivesUp
  <2> QED BY <1>1, <1>a, <2>1, <2>2 DEF Requesting
<1>5. CASE FindRegistry(s)
  <2>1. policies' = policies /\ replicating' = replicating
    BY <1>5 DEF FindRegistry, OfHarbor
  <2>2. Jump(s, "policy") \/ Jump(s, "image") BY <1>5 DEF FindRegistry, GivesUp
  <2> QED BY <1>1, <1>a, <2>1, <2>2 DEF Requesting
<1>6. CASE CreatePolicy(s)
  <2>1. replicating' = replicating BY <1>6 DEF CreatePolicy
  <2>2. \/ policies' = policies \cup {scan[s].image} /\ Jump(s, "trigger")
        \/ policies' = policies \cup {scan[s].image} /\ Jump(s, "image")
        \/ policies' = policies /\ Jump(s, "image")
    BY <1>6, <1>a DEF CreatePolicy, GivesUp
  <2> QED BY <1>1, <1>a, <1>c, <2>1, <2>2 DEF Requesting
<1>7. CASE Trigger(s)
  <2> DEFINE l == [scan[s] EXCEPT !.pc = "image"]
  <2>1. policies' = policies BY <1>7 DEF Trigger
  <2>2. Continues(s, l) BY <1>7 DEF Trigger, GivesUp, Jump
  <2>3. scan[s].image \in policies BY <1>7, <1>a DEF Trigger, On, Working
  <2>4. replicating' \subseteq policies BY <1>7, <1>a, <2>3 DEF Trigger
  <2>5. l \in Scans /\ l.pc = "image" /\ ~l.passed BY <1>a, <1>c, <1>e DEF Scans
  <2>6. /\ scan' \in [Scanners -> Scans] /\ scan'[s] = l
        /\ \A t \in Scanners \ {s} : scan'[t] = scan[t]
    BY <2>2, <2>5 DEF ScanInv, Continues
  <2> HIDE DEF l
  <2>7. \A i : Good(i)' = Good(i) BY <1>d DEF Good
  <2>8. Working(s)' BY <2>5, <2>6, <1>e DEF Working, Requesting
  <2>9. \A t \in Scanners \ {s} : Working(t)' BY <1>d, <2>1, <2>6, <2>7, ScanFacts, WorkingStays
  <2>10. HarborTypeOK' BY <1>d, <2>1, <2>4 DEF ScanInv, HarborTypeOK
  <2>11. Real' /\ PassedIsInHarbor'
    BY <1>d, <2>7 DEF ScanInv, Real, PassedIsInHarbor
  <2> QED BY <2>6, <2>8, <2>9, <2>10, <2>11 DEF ScanInv
<1> QED BY <1>2, <1>3, <1>4, <1>5, <1>6, <1>7 DEF Request

\* The verdict: when the scanner has seen all images and still passes the workload,
\* Harbor has them all.
LEMMA ExportStep ==
  ASSUME ScanInv, NEW s \in Scanners, ExportImageReports(s)
  PROVE  ScanInv'
<1>a. /\ scan[s] \in Scans /\ Working(s) /\ HarborTypeOK
      /\ deployed.images \subseteq Images
  BY ScanFacts DEF ScanInv
<1>1. /\ UNCHANGED <<deployed, artifact, policies, replicating, rescans, cache>>
      /\ scan[s].pc = "image" /\ scan[s].todo = {} /\ Continues(s, NotScanning)
      /\ \/ verdict' = verdict
         \/ verdict' = IF scan[s].passed THEN "pass" ELSE "fail"
  BY DEF ExportImageReports, On, Ends, OfHarbor
<1>2. Seen(scan[s]) = deployed.images BY <1>1 DEF Seen
<1>3. \A i : Good(i)' = Good(i) BY <1>1 DEF Good
<1>4. PassedIsInHarbor'
  <2>1. CASE verdict' = verdict BY <1>1, <2>1 DEF ScanInv, PassedIsInHarbor
  <2>2. CASE verdict' = IF scan[s].passed THEN "pass" ELSE "fail"
    BY <1>1, <1>2, <1>a, <2>2, StoreFacts DEF Working, Good, PassedIsInHarbor
  <2> QED BY <1>1, <2>1, <2>2
<1>5. /\ scan' \in [Scanners -> Scans] /\ scan'[s] = NotScanning
      /\ \A t \in Scanners \ {s} : scan'[t] = scan[t]
  BY <1>1, NotScanningFacts DEF ScanInv, Continues
<1>6. Working(s)' BY <1>5, NotScanningFacts DEF Working, Requesting
<1>7. \A t \in Scanners \ {s} : Working(t)' BY <1>1, <1>3, <1>5, ScanFacts, WorkingStays
<1>8. HarborTypeOK' BY <1>1, <1>a DEF HarborTypeOK
<1>9. Real' BY <1>1, <1>3 DEF ScanInv, Real
<1> QED BY <1>4, <1>5, <1>6, <1>7, <1>8, <1>9 DEF ScanInv

\* Replication, scans and the end of a cached store.
LEMMA OutsideStep ==
  ASSUME ScanInv, NEW i \in Images, Harbor(i) \/ Rescan(i) \/ Expire(i)
  PROVE  ScanInv'
<1>a. HarborTypeOK /\ Real BY DEF ScanInv
<1>1. /\ UNCHANGED <<deployed, policies, scan, verdict>>
  BY DEF Harbor, Replicate, ScanAll, FinishScan, Rescan, Expire, OfHarbor
<1>2. /\ artifact' \in [Images -> Stores]
      /\ \A j \in Images : Good(j) => Good(j)'
  BY <1>a, StoreFacts
  DEF Harbor, Replicate, ScanAll, FinishScan, Rescan, Expire, OfHarbor, HarborTypeOK, Good, Stores
<1>3. /\ cache' \in [Images -> Stores]
      /\ \A j \in Images : cache'[j] \in Reports => cache[j] \in Reports
  BY <1>a, StoreFacts
  DEF Harbor, Replicate, ScanAll, FinishScan, Rescan, Expire, HarborTypeOK, Stores
<1>4. replicating' \subseteq policies
  BY <1>a DEF Harbor, Replicate, ScanAll, FinishScan, Rescan, Expire, OfHarbor, HarborTypeOK
<1>5. rescans' \in 0 .. MaxRescans
  <2>1. rescans' = rescans \/ Rescan(i)
    BY DEF Harbor, Replicate, ScanAll, FinishScan, Expire, OfHarbor
  <2> QED BY <1>a, <2>1, ImagesAssumption DEF Rescan, HarborTypeOK
<1>6. \A j \in Images : cache'[j] \in Reports => Good(j)' BY <1>a, <1>2, <1>3 DEF Real
<1> QED BY <1>1, <1>2, <1>3, <1>4, <1>5, <1>6, HarborStep

\* Manager and users leave the scanners' variables alone.
LEMMA ScanStays ==
  ASSUME ScanInv, UNCHANGED scanVars
  PROVE  ScanInv'
<1>1. UNCHANGED <<deployed, artifact, policies, replicating, cache, scan, verdict, rescans>>
  BY DEF scanVars
<1>2. \A i : Good(i)' = Good(i) BY <1>1 DEF Good
<1>3. \A t \in Scanners : Working(t)' BY <1>1, <1>2, ScanFacts, WorkingStays DEF ScanInv
<1> QED BY <1>1, <1>2, <1>3 DEF ScanInv, HarborTypeOK, Real, PassedIsInHarbor

\* Scanners, Harbor and Redis leave the setting and its controller alone.
LEMMA SettingStays ==
  ASSUME SettingInv, UNCHANGED OfSetting, Fault \/ UNCHANGED faults,
         project' \in [Projects -> {"absent", "closed", "scanning"}]
  PROVE  SettingInv'
<1>1. SettingTypeOK /\ DoneSoFar BY DEF SettingInv
<1>2. UNCHANGED <<version, status, queued, ctl, registered, schedule>> BY DEF OfSetting
<1>3. faults' \in 0 .. MaxFaults BY <1>1, FaultFacts
<1>4. DoneSoFar' BY <1>1, <1>2 DEF DoneSoFar, AllRegistered
<1> QED BY <1>1, <1>2, <1>3, <1>4 DEF SettingInv, SettingTypeOK

\* A scanner creates projects, and counts the calls that fail.
LEMMA ScannerSettingStays ==
  ASSUME SettingInv, NEW s \in Scanners, Scanner(s)
  PROVE  SettingInv'
<1>1. UNCHANGED OfSetting
  BY DEF Scanner, RunFails, StartScan, NextImage, ExportImageReports, ScanWithTrivy, Scan,
         GetReport, Read, ReadCache, Fetch, WriteCache, Request, GetProject, CreateProject,
         UpdateProject, ListPolicies, FindRegistry, CreatePolicy, Trigger, settingVars, OfSetting
<1>2. Fault \/ UNCHANGED faults
  BY DEF Scanner, RunFails, StartScan, NextImage, ExportImageReports, ScanWithTrivy, Scan,
         GetReport, Read, ReadCache, Fetch, WriteCache, Request, GetProject, CreateProject,
         UpdateProject, ListPolicies, FindRegistry, CreatePolicy, Trigger, settingVars
<1>3. project' = project \/ CreateProject(s)
  BY DEF Scanner, RunFails, StartScan, NextImage, ExportImageReports, ScanWithTrivy, Scan,
         GetReport, Read, ReadCache, Fetch, WriteCache, Request, GetProject,
         UpdateProject, ListPolicies, FindRegistry, CreatePolicy, Trigger, settingVars
<1>4. project' \in [Projects -> {"absent", "closed", "scanning"}]
  BY <1>3 DEF CreateProject, SettingInv, SettingTypeOK
<1> QED BY <1>1, <1>2, <1>4, SettingStays

\* Harbor and Redis on their own change nothing of the setting but count failures.
LEMMA OutsideSettingStays ==
  ASSUME SettingInv, NEW i \in Images, Harbor(i) \/ Rescan(i) \/ Expire(i)
  PROVE  SettingInv'
<1>1. UNCHANGED OfSetting /\ project' = project /\ (Fault \/ UNCHANGED faults)
  BY DEF Harbor, Replicate, ScanAll, FinishScan, Rescan, Expire, settingVars, OfSetting
<1>2. project' \in [Projects -> {"absent", "closed", "scanning"}]
  BY <1>1 DEF SettingInv, SettingTypeOK
<1> QED BY <1>1, <1>2, SettingStays

----------------------------------------------------------------------------
\* Every step keeps the invariant.
LEMMA InvStep == IInv /\ [Next]_vars => IInv'
<1> SUFFICES ASSUME IInv, [Next]_vars PROVE IInv' OBVIOUS
<1>a. SettingInv /\ ScanInv BY DEF IInv
<1>1. CASE Manager
  <2>1. UNCHANGED scanVars /\ (Reconcile \/ Resync) BY <1>1 DEF Manager
  <2> QED BY <2>1, <1>a, ReconcileStep, OthersStep, ScanStays DEF IInv
<1>2. CASE Users
  <2>1. UNCHANGED scanVars /\ (Edit \/ \E p \in Projects : AddProject(p)) BY <1>2 DEF Users
  <2> QED BY <2>1, <1>a, OthersStep, ScanStays DEF IInv
<1>3. ASSUME NEW s \in Scanners, Scanner(s) PROVE IInv'
  BY <1>3, <1>a, BeginStep, ReadStep, RequestStep, ExportStep, ScannerSettingStays
  DEF Scanner, IInv
<1>4. ASSUME NEW i \in Images, Harbor(i) \/ Rescan(i) \/ Expire(i) PROVE IInv'
  BY <1>4, <1>a, OutsideStep, OutsideSettingStays DEF IInv
<1>5. CASE UNCHANGED vars
  <2>1. UNCHANGED scanVars /\ UNCHANGED settingVars BY <1>5 DEF vars
  <2>2. UNCHANGED OfSetting /\ project' = project /\ UNCHANGED faults
    BY <2>1 DEF settingVars, OfSetting
  <2>3. project' \in [Projects -> {"absent", "closed", "scanning"}]
    BY <1>a, <2>2 DEF SettingInv, SettingTypeOK
  <2> QED BY <1>a, <2>1, <2>2, <2>3, ScanStays, SettingStays DEF IInv
<1> QED BY <1>1, <1>2, <1>3, <1>4, <1>5 DEF Next

\* The invariant holds in every behaviour.
LEMMA IInvAlways == Spec => []IInv
<1>1. ScanInit => IInv BY InitIInv
<1>2. IInv /\ [Next]_vars => IInv' BY InvStep
<1> QED BY <1>1, <1>2, PTL DEF Spec

\* Type correctness of setting controller, scanners, cache and Harbor together.
THEOREM TypeCorrect == Spec => []ScanTypeOK
<1>1. IInv => ScanTypeOK
  BY DEF IInv, SettingInv, ScanInv, HarborTypeOK, ScanTypeOK
<1> QED BY <1>1, IInvAlways, PTL

\* Whatever the number of scanners that share Harbor and the cache, whichever call
\* fails, and however stale a cached store is: a workload passes (Assess, and the
\* report of the image scanner) only if Harbor has all its images and has begun to
\* scan them.
THEOREM PassedInHarbor == Spec => []PassedIsInHarbor
<1>1. IInv => PassedIsInHarbor BY DEF IInv, ScanInv
<1> QED BY <1>1, IInvAlways, PTL

\* Only Reconcile writes the status.
LEMMA StatusStep ==
  IInv /\ [Next]_vars => [Healthy(status') /\ status' # status => InHarbor]_settingVars
<1> SUFFICES ASSUME IInv, [Next]_vars, Healthy(status'), status' # status PROVE InHarbor
  OBVIOUS
<1>1. CASE Manager
  <2>1. Reconcile \/ Resync BY <1>1 DEF Manager
  <2> QED BY <2>1, HealthyStep DEF IInv, Resync
<1>2. CASE Users BY <1>2 DEF Users, Edit, AddProject
<1>3. ASSUME NEW s \in Scanners, Scanner(s) PROVE InHarbor
  BY <1>3 DEF Scanner, RunFails, StartScan, NextImage, ExportImageReports, ScanWithTrivy, Scan,
     GetReport, Read, ReadCache, Fetch, WriteCache, Request, GetProject, CreateProject,
     UpdateProject, ListPolicies, FindRegistry, CreatePolicy, Trigger, settingVars, OfSetting
<1>4. ASSUME NEW i \in Images, Harbor(i) \/ Rescan(i) \/ Expire(i) PROVE InHarbor
  BY <1>4 DEF Harbor, Replicate, ScanAll, FinishScan, Rescan, Expire, settingVars, OfSetting
<1>5. CASE UNCHANGED vars BY <1>5 DEF vars, settingVars
<1> QED BY <1>1, <1>2, <1>3, <1>4, <1>5 DEF Next

\* AggregateStatus turns healthy only when all that this very version of the setting
\* asks for is in Harbor, for any number of registries and projects, any edits, and
\* whatever fails.
THEOREM HealthyTrue == Spec => HealthyIsTrue
<1>1. IInv /\ [Next]_vars => [Healthy(status') /\ status' # status => InHarbor]_settingVars
  BY StatusStep
<1> QED BY <1>1, IInvAlways, PTL DEF Spec, HealthyIsTrue


----------------------------------------------------------------------------
(* The goroutine pool. Both results rest on where a job is: with the caller, in *)
(* the queue, with the processor, or with a goroutine of its own, and in one of *)
(* these only. The wait group is what the caller knows of that.                 *)

\* The jobs with a goroutine, and those of them wg.Done was not called for.
Active == {j \in Jobs : run[j] \notin {"none", "gone"}}
Undone == {j \in Jobs : run[j] \in {"running", "select", "finish"}}

Queued(j) == \E i \in 1 .. Len(queue) : queue[i] = j

\* The batches that the caller has planned so far.
Planned == UNION {Batches[b] : b \in 1 .. IF caller \in {"queue", "wait", "panic"}
                                           THEN batch ELSE batch - 1}

\* A job that was planned is in one place; one that was not is nowhere.
Placed ==
  /\ \A j \in Jobs : j \in Planned <=> j \in unsent \/ Queued(j) \/ held = j \/ run[j] # "none"
  /\ \A j \in unsent : ~Queued(j) /\ held # j /\ run[j] = "none"
  /\ \A i, k \in 1 .. Len(queue) : queue[i] = queue[k] => i = k
  /\ \A i \in 1 .. Len(queue) : held # queue[i] /\ run[queue[i]] = "none"
  /\ held # None => run[held] = "none"

\* What the caller's and the processor's positions say.
Control ==
  /\ caller # "queue" /\ caller # "panic" => unsent = {}
  /\ caller \in {"plan", "close", "ack", "closed"} => wg = 0
  /\ caller \in {"queue", "wait", "panic"} => batch \in 1 .. Len(Batches)
  /\ caller = "panic" => cancelled
  /\ stopped => caller \in {"ack", "closed"}
  /\ held # None <=> processor = "acquire"
  /\ closed <=> processor = "sending"
  /\ processor \in {"exit", "sending"} => stopped \/ cancelled

\* wg and workers count.
Counted ==
  /\ IsFiniteSet(unsent) /\ IsFiniteSet(Undone) /\ IsFiniteSet(Active)
  /\ wg = Cardinality(unsent) + Len(queue) + (IF held = None THEN 0 ELSE 1)
          + Cardinality(Undone)
  /\ ~closed => workers = Cardinality(Active)

\* handleLastError has seen every error of a job whose select is over.
Heard ==
  /\ \A j \in Jobs : run[j] = "none" => answer[j] = "none"
  /\ ~cancelled => lastErr = {j \in Jobs : /\ run[j] \in {"finish", "release", "gone"}
                                           /\ answer[j] = "error"}

PoolInv == TypeOK /\ Placed /\ Control /\ Counted /\ Heard /\ WaitSeesEveryError

----------------------------------------------------------------------------
(* Facts about the batches, the queue and the counters. *)

\* The batches are sets of jobs, and a job is in one of them.
LEMMA BatchFacts ==
  /\ Len(Batches) \in Nat /\ None \notin Jobs
  /\ \A b \in 1 .. Len(Batches) : Batches[b] \subseteq Jobs /\ IsFiniteSet(Batches[b])
  /\ \A b, c \in 1 .. Len(Batches) : b # c => Batches[b] \cap Batches[c] = {}
<1>1. Len(Batches) \in Nat BY PoolAssumption
<1> QED BY <1>1, PoolAssumption DEF Jobs

\* What Queue does to the queue.
LEMMA AppendFacts ==
  ASSUME NEW q \in Seq(Jobs), NEW j \in Jobs
  PROVE  /\ Append(q, j) \in Seq(Jobs)
         /\ Len(Append(q, j)) = Len(q) + 1 /\ Len(q) \in Nat
         /\ \A i \in 1 .. Len(q) : Append(q, j)[i] = q[i] /\ q[i] \in Jobs
         /\ Append(q, j)[Len(q) + 1] = j
  OBVIOUS

\* What the processor takes from the queue, and what it leaves.
LEMMA TailFacts ==
  ASSUME NEW q \in Seq(Jobs), q # <<>>
  PROVE  /\ Head(q) \in Jobs /\ Head(q) = q[1]
         /\ Tail(q) \in Seq(Jobs)
         /\ Len(q) \in Nat \ {0} /\ Len(Tail(q)) = Len(q) - 1
         /\ \A i \in 1 .. Len(q) - 1 : Tail(q)[i] = q[i + 1]
  OBVIOUS

\* An empty queue, and one of length zero.
LEMMA EmptyFacts == ASSUME NEW q \in Seq(Jobs) PROVE Len(q) \in Nat /\ (Len(q) = 0 => q = <<>>)
  OBVIOUS

\* The counters are sums of natural numbers, so a zero says that all of them are.
LEMMA CountFacts ==
  ASSUME TypeOK, Counted
  PROVE  /\ Cardinality(unsent) \in Nat /\ Cardinality(Undone) \in Nat
         /\ Cardinality(Active) \in Nat /\ Len(queue) \in Nat
         /\ (IF held = None THEN 0 ELSE 1) \in Nat
         /\ wg = 0 => unsent = {} /\ queue = <<>> /\ held = None /\ Undone = {}
         /\ Undone # {} => wg \in Nat \ {0}
<1>1. /\ Cardinality(unsent) \in Nat /\ Cardinality(Undone) \in Nat
      /\ Cardinality(Active) \in Nat /\ Len(queue) \in Nat
      /\ (IF held = None THEN 0 ELSE 1) \in Nat
  BY FS_CardinalityType, EmptyFacts DEF TypeOK, Counted
<1>2. ASSUME wg = 0 PROVE unsent = {} /\ queue = <<>> /\ held = None /\ Undone = {}
  <2>1. /\ Cardinality(unsent) = 0 /\ Cardinality(Undone) = 0 /\ Len(queue) = 0
        /\ (IF held = None THEN 0 ELSE 1) = 0
    BY <1>1, <1>2 DEF Counted
  <2> QED BY <2>1, FS_EmptySet, EmptyFacts DEF TypeOK, Counted
<1>3. ASSUME Undone # {} PROVE wg \in Nat \ {0}
  <2>1. wg \in Nat BY DEF TypeOK
  <2> QED BY <1>2, <1>3, <2>1
<1> QED BY <1>1, <1>2, <1>3

\* While the wait group is above zero, the caller is waiting or still queueing.
LEMMA WorkPending == ASSUME PoolInv, Undone # {} PROVE caller \in {"queue", "wait", "panic"} /\ ~stopped
  BY CountFacts DEF PoolInv, TypeOK, Control, CallerStates

\* Planned depends on the caller only.
LEMMA PlannedStays == UNCHANGED callerVars => Planned' = Planned
  BY DEF Planned, callerVars

\* A job that has a goroutine keeps its place.
LEMMA PlacedStays ==
  ASSUME Placed, UNCHANGED <<callerVars, queue, held>>,
         \A j \in Jobs : run'[j] = "none" <=> run[j] = "none", TypeOK
  PROVE  Placed'
<1>1. Planned' = Planned BY PlannedStays
<1>2. \A j \in Jobs : Queued(j)' <=> Queued(j) BY DEF Queued
<1>3. unsent \subseteq Jobs /\ held \in Jobs \cup {None} /\ unsent' = unsent
      /\ \A i \in 1 .. Len(queue) : queue[i] \in Jobs
  BY DEF TypeOK, callerVars
<1> QED BY <1>1, <1>2, <1>3 DEF Placed

----------------------------------------------------------------------------
(* Every step keeps the invariant. *)

\* Initially nothing is planned.
LEMMA InitPoolInv == Init => PoolInv
<1> SUFFICES ASSUME Init PROVE PoolInv OBVIOUS
<1>1. Planned = {} BY DEF Init, Planned
<1>2. Undone = {} /\ Active = {} BY DEF Init, Undone, Active
<1>3. TypeOK
  <2>1. 1 \in 1 .. Len(Batches) + 1 /\ 0 \in 0 .. MaxWorkers
    BY BatchFacts, PoolAssumption
  <2>2. queue \in Seq(Jobs) BY DEF Init
  <2>3. run \in [Jobs -> RunStates] /\ answer \in [Jobs -> {"none", "nil", "error"}]
    BY DEF Init, RunStates
  <2>4. wg \in Nat /\ workers \in 0 .. MaxWorkers /\ batch \in 1 .. Len(Batches) + 1
    BY <2>1 DEF Init
  <2> QED BY <2>2, <2>3, <2>4 DEF Init, TypeOK, CallerStates
<1>4. Placed BY <1>1, BatchFacts DEF Init, Placed, Queued
<1>5. Control BY BatchFacts DEF Init, Control
<1>6. Counted BY <1>2, FS_EmptySet DEF Init, Counted
<1>7. Heard BY DEF Init, Heard
<1>8. WaitSeesEveryError BY DEF Init, WaitSeesEveryError, Waited
<1> QED BY <1>3, <1>4, <1>5, <1>6, <1>7, <1>8 DEF PoolInv

\* A job that is not done takes a step: the caller is waiting for it, so that nothing
\* is said of the last result, and its token is not touched.
LEMMA UndoneStep ==
  ASSUME PoolInv, NEW j \in Undone, NEW state \in RunStates \ {"none", "gone"},
         run' = [run EXCEPT ![j] = state],
         UNCHANGED <<callerVars, queue, closed, workers, processorVars, cancelled>>,
         answer' \in [Jobs -> {"none", "nil", "error"}], lastErr' \subseteq Jobs,
         wg' = IF state = "release" THEN wg - 1 ELSE wg,
         Heard'
  PROVE  PoolInv'
<1>1. TypeOK /\ Counted BY DEF PoolInv
<1>2. j \in Jobs /\ run[j] \in {"running", "select", "finish"} BY DEF Undone
<1>3. \A k \in Jobs : run'[k] = (IF k = j THEN state ELSE run[k]) BY <1>1, <1>2 DEF TypeOK
<1>4. run' \in [Jobs -> RunStates] BY <1>1 DEF TypeOK
<1>5. caller \in {"queue", "wait", "panic"} BY WorkPending
<1>6. Active' = Active BY <1>2, <1>3 DEF Active
<1>7. Undone' = IF state = "release" THEN Undone \ {j} ELSE Undone
  BY <1>2, <1>3 DEF Undone, RunStates
<1>8. /\ IsFiniteSet(Undone')
      /\ Cardinality(Undone') = IF state = "release" THEN Cardinality(Undone) - 1
                                ELSE Cardinality(Undone)
  BY <1>1, <1>7, FS_RemoveElement DEF Counted
<1>9. wg \in Nat \ {0} BY <1>1, CountFacts
<1>10. TypeOK'
  <2>1. wg' \in Nat BY <1>9
  <2> QED BY <1>1, <1>4, <2>1 DEF TypeOK, callerVars, processorVars
<1>11. Placed'
  <2>1. \A k \in Jobs : run'[k] = "none" <=> run[k] = "none" BY <1>2, <1>3
  <2> QED BY <1>1, <2>1, PlacedStays DEF PoolInv, processorVars
<1>12. Control' BY <1>5 DEF PoolInv, Control, callerVars, processorVars
<1>13. Counted'
  <2> DEFINE here == IF held = None THEN 0 ELSE 1
  <2>1. /\ Cardinality(unsent) \in Nat /\ Len(queue) \in Nat /\ Cardinality(Undone) \in Nat
        /\ here \in Nat
    BY <1>1, CountFacts
  <2>2. wg = Cardinality(unsent) + Len(queue) + here + Cardinality(Undone)
    BY <1>1 DEF Counted
  <2>3. wg' = Cardinality(unsent) + Len(queue) + here + Cardinality(Undone')
    <3> HIDE DEF here
    <3> QED BY <1>8, <2>1, <2>2
  <2>4. unsent' = unsent /\ queue' = queue /\ held' = held /\ closed' = closed /\ workers' = workers
    BY DEF callerVars, processorVars
  <2> QED BY <1>1, <1>6, <1>8, <2>3, <2>4 DEF Counted
<1>14. WaitSeesEveryError' BY <1>5 DEF WaitSeesEveryError, callerVars
<1> QED BY <1>10, <1>11, <1>12, <1>13, <1>14 DEF PoolInv

\* The goroutine of a job answers, selects, and calls wg.Done.
LEMMA JobStep ==
  ASSUME PoolInv, NEW j \in Jobs, Answer(j) \/ Return(j) \/ Select(j) \/ Done(j)
  PROVE  PoolInv'
<1>1. TypeOK /\ Heard BY DEF PoolInv
<1>2. j \in Undone BY DEF Answer, Return, Select, Done, Undone
<1>3. run[j] \in RunStates \ {"none", "gone"} /\ caller \in {"queue", "wait", "panic"} /\ ~stopped
  BY <1>2, WorkPending DEF Undone, RunStates
<1>4. UNCHANGED <<callerVars, queue, closed, workers, processorVars, cancelled>>
  BY DEF Answer, Return, Select, Done
<1>5. CASE Answer(j)
  <2>1. PICK e \in {"nil", "error"} : answer' = [answer EXCEPT ![j] = e] BY <1>5 DEF Answer
  <2>2. run' = [run EXCEPT ![j] = run[j]] BY <1>1, <1>5 DEF Answer, TypeOK
  <2>3. Heard'
    BY <1>1, <1>5, <2>1 DEF Heard, Answer, TypeOK
  <2>4. wg' = wg /\ run[j] # "release" BY <1>5 DEF Answer
  <2>5. answer' \in [Jobs -> {"none", "nil", "error"}] BY <1>1, <2>1 DEF TypeOK
  <2>6. lastErr' \subseteq Jobs BY <1>1, <1>5 DEF Answer, TypeOK
  <2> QED BY <1>2, <1>3, <1>4, <2>2, <2>3, <2>4, <2>5, <2>6, UndoneStep
<1>6. CASE Return(j)
  <2>1. Heard' BY <1>1, <1>6 DEF Heard, Return, TypeOK
  <2> QED BY <1>1, <1>2, <1>4, <1>6, <2>1, UndoneStep DEF Return, RunStates, TypeOK
<1>7. CASE Select(j)
  <2>1. \/ answer[j] # "none" /\ lastErr' = IF answer[j] = "error" THEN lastErr \cup {j} ELSE lastErr
        \/ cancelled /\ lastErr' = lastErr
    BY <1>3, <1>7 DEF Select
  <2>2. Heard' BY <1>1, <1>7, <2>1 DEF Heard, Select, TypeOK
  <2>3. lastErr' \subseteq Jobs BY <1>1, <2>1 DEF TypeOK
  <2> QED BY <1>1, <1>2, <1>4, <1>7, <2>2, <2>3, UndoneStep DEF Select, RunStates, TypeOK
<1>8. CASE Done(j)
  <2>1. Heard' BY <1>1, <1>8 DEF Heard, Done, TypeOK
  <2> QED BY <1>1, <1>2, <1>4, <1>8, <2>1, UndoneStep DEF Done, RunStates, TypeOK
<1> QED BY <1>5, <1>6, <1>7, <1>8

\* The token goes back last, after the caller may have gone on.
LEMMA ReleaseStep ==
  ASSUME PoolInv, NEW j \in Jobs, Release(j)
  PROVE  PoolInv'
<1>1. TypeOK /\ Counted BY DEF PoolInv
<1>2. /\ run[j] = "release" /\ run' = [run EXCEPT ![j] = "gone"]
      /\ workers' = IF workers > 0 THEN workers - 1 ELSE 0
      /\ UNCHANGED <<callerVars, wg, queue, closed, processorVars, answer, lastErr, cancelled>>
  BY DEF Release
<1>3. \A k \in Jobs : run'[k] = (IF k = j THEN "gone" ELSE run[k]) BY <1>1, <1>2 DEF TypeOK
<1>4. run' \in [Jobs -> RunStates] BY <1>1, <1>2 DEF TypeOK, RunStates
<1>5. Active' = Active \ {j} /\ j \in Active BY <1>2, <1>3 DEF Active
<1>6. Undone' = Undone BY <1>2, <1>3 DEF Undone
<1>7. IsFiniteSet(Active') /\ Cardinality(Active') = Cardinality(Active) - 1
  BY <1>1, <1>5, FS_RemoveElement DEF Counted
<1>8. TypeOK'
  <2>1. workers' \in 0 .. MaxWorkers BY <1>1, <1>2, PoolAssumption DEF TypeOK
  <2> QED BY <1>1, <1>2, <1>4, <2>1 DEF TypeOK, callerVars, processorVars
<1>9. Placed'
  <2>1. \A k \in Jobs : run'[k] = "none" <=> run[k] = "none" BY <1>2, <1>3
  <2> QED BY <1>1, <1>2, <2>1, PlacedStays DEF PoolInv, processorVars
<1>10. Control' BY <1>2 DEF PoolInv, Control, callerVars, processorVars
<1>11. Counted'
  <2>1. unsent' = unsent /\ queue' = queue /\ held' = held /\ closed' = closed /\ wg' = wg
    BY <1>2 DEF callerVars, processorVars
  <2>2. ASSUME ~closed PROVE workers' = Cardinality(Active')
    <3>1. workers = Cardinality(Active) BY <1>1, <2>2 DEF Counted
    <3>2. Cardinality(Active) # 0 BY <1>1, <1>5, FS_EmptySet DEF Counted
    <3> QED BY <1>1, <1>2, <1>7, <3>1, <3>2, CountFacts
  <2> QED BY <1>1, <1>6, <1>7, <2>1, <2>2 DEF Counted
<1>12. Heard' BY <1>2, <1>3 DEF PoolInv, Heard
<1>13. WaitSeesEveryError'
  BY <1>2, <1>3 DEF PoolInv, WaitSeesEveryError, Waited, callerVars
<1> QED BY <1>8, <1>9, <1>10, <1>11, <1>12, <1>13 DEF PoolInv

\* The processor moves the first job of the queue.
LEMMA TakeStep == ASSUME PoolInv, TakeJob PROVE PoolInv'
<1>1. TypeOK /\ Counted /\ Placed /\ Control BY DEF PoolInv
<1>2. /\ held' = Head(queue) /\ queue' = Tail(queue) /\ queue # <<>>
      /\ processor = "select" /\ processor' = "acquire"
      /\ UNCHANGED <<callerVars, wg, closed, workers, jobVars, stopped, cancelled>>
  BY DEF TakeJob
<1>3. held = None BY <1>1, <1>2 DEF Control
<1>4. /\ Head(queue) \in Jobs /\ Head(queue) = queue[1] /\ Tail(queue) \in Seq(Jobs)
      /\ Len(queue) \in Nat \ {0} /\ Len(Tail(queue)) = Len(queue) - 1
      /\ \A i \in 1 .. Len(queue) - 1 : Tail(queue)[i] = queue[i + 1]
  BY <1>1, <1>2, TailFacts DEF TypeOK
<1>5. held' # None BY <1>2, <1>4, BatchFacts
<1>6. TypeOK' BY <1>1, <1>2, <1>4 DEF TypeOK, callerVars, jobVars
<1>7. Placed'
  <2>1. \A j \in Jobs : Queued(j) <=> Queued(j)' \/ held' = j
    <3>1. ASSUME NEW j \in Jobs, NEW i \in 1 .. Len(queue), queue[i] = j PROVE Queued(j)' \/ held' = j
      <4>1. CASE i = 1 BY <1>2, <1>4, <3>1, <4>1
      <4>2. CASE i # 1
        <5>1. i - 1 \in 1 .. Len(queue') /\ queue'[i - 1] = j BY <1>2, <1>4, <3>1, <4>2
        <5> QED BY <5>1 DEF Queued
      <4> QED BY <4>1, <4>2
    <3>2. ASSUME NEW j \in Jobs, NEW i \in 1 .. Len(queue'), queue'[i] = j PROVE Queued(j)
      <4>1. i + 1 \in 1 .. Len(queue) /\ queue[i + 1] = j BY <1>2, <1>4, <3>2
      <4> QED BY <4>1 DEF Queued
    <3>3. ASSUME NEW j \in Jobs, held' = j PROVE Queued(j)
      BY <1>2, <1>4, <3>3 DEF Queued
    <3> QED BY <3>1, <3>2, <3>3 DEF Queued
  <2>2. Planned' = Planned BY <1>2, PlannedStays
  <2>3. \A i \in 1 .. Len(queue') : i + 1 \in 1 .. Len(queue) /\ queue'[i] = queue[i + 1]
    BY <1>2, <1>4
  <2>4. \A i, k \in 1 .. Len(queue') : queue'[i] = queue'[k] => i = k
    <3>1. ASSUME NEW i \in 1 .. Len(queue'), NEW k \in 1 .. Len(queue'), queue'[i] = queue'[k] PROVE i = k
      <4>1. i + 1 = k + 1 BY <1>1, <2>3, <3>1 DEF Placed
      <4> QED BY <4>1
    <3> QED BY <3>1
  <2>5. \A i \in 1 .. Len(queue') : held' # queue'[i] /\ run[queue'[i]] = "none"
    <3>1. ASSUME NEW i \in 1 .. Len(queue') PROVE held' # queue'[i] /\ run[queue'[i]] = "none"
      <4>1. i + 1 # 1 /\ 1 \in 1 .. Len(queue) BY <1>4
      <4> QED BY <1>1, <1>2, <1>4, <2>3, <4>1 DEF Placed
    <3> QED BY <3>1
  <2>6. run[held'] = "none"
    <3>1. 1 \in 1 .. Len(queue) BY <1>4
    <3> QED BY <1>1, <1>2, <1>4, <3>1 DEF Placed
  <2>7. run' = run /\ unsent' = unsent /\ unsent \subseteq Jobs
    BY <1>1, <1>2 DEF jobVars, callerVars, TypeOK
  <2>8. \A j \in Jobs : j \in Planned' <=> j \in unsent' \/ Queued(j)' \/ held' = j \/ run'[j] # "none"
    BY <1>1, <1>3, <2>1, <2>2, <2>7, BatchFacts DEF Placed
  <2>9. \A j \in unsent' : ~Queued(j)' /\ held' # j /\ run'[j] = "none"
    BY <1>1, <2>1, <2>7 DEF Placed
  <2> QED BY <2>4, <2>5, <2>6, <2>7, <2>8, <2>9 DEF Placed
<1>8. Control' BY <1>1, <1>2, <1>5 DEF Control, callerVars
<1>9. Counted'
  <2>1. Undone' = Undone /\ Active' = Active /\ unsent' = unsent
    BY <1>2 DEF Undone, Active, jobVars, callerVars
  <2>2. wg = Cardinality(unsent) + Len(queue) + 0 + Cardinality(Undone)
    BY <1>1, <1>3 DEF Counted
  <2>3. Cardinality(unsent) \in Nat /\ Cardinality(Undone) \in Nat BY <1>1, CountFacts
  <2>4. wg = Cardinality(unsent) + Len(queue') + 1 + Cardinality(Undone)
    BY <1>2, <1>4, <2>2, <2>3
  <2> QED BY <1>1, <1>2, <1>5, <2>1, <2>4 DEF Counted
<1>10. Heard' BY <1>2 DEF PoolInv, Heard, jobVars
<1>11. WaitSeesEveryError'
  BY <1>2 DEF PoolInv, WaitSeesEveryError, Waited, callerVars, jobVars
<1> QED BY <1>6, <1>7, <1>8, <1>9, <1>10, <1>11 DEF PoolInv

\* The job the processor holds gets a goroutine and a token.
LEMMA StartStep == ASSUME PoolInv, Start PROVE PoolInv'
<1>1. TypeOK /\ Counted /\ Placed /\ Control BY DEF PoolInv
<1>2. /\ processor = "acquire" /\ workers < MaxWorkers /\ workers' = workers + 1
      /\ run' = [run EXCEPT ![held] = "running"] /\ held' = None /\ processor' = "select"
      /\ UNCHANGED <<callerVars, wg, queue, closed, answer, lastErr, stopped, cancelled>>
  BY DEF Start
<1>3. held \in Jobs /\ held # None /\ run[held] = "none" /\ ~closed
  BY <1>1, <1>2 DEF TypeOK, Control, Placed
<1>4. \A k \in Jobs : run'[k] = (IF k = held THEN "running" ELSE run[k])
  BY <1>1, <1>2, <1>3 DEF TypeOK
<1>5. Undone' = Undone \cup {held} /\ held \notin Undone BY <1>3, <1>4 DEF Undone
<1>6. Active' = Active \cup {held} /\ held \notin Active BY <1>3, <1>4 DEF Active
<1>7. /\ IsFiniteSet(Undone') /\ Cardinality(Undone') = Cardinality(Undone) + 1
      /\ IsFiniteSet(Active') /\ Cardinality(Active') = Cardinality(Active) + 1
  BY <1>1, <1>5, <1>6, FS_AddElement DEF Counted
<1>8. TypeOK'
  <2>1. workers' \in 0 .. MaxWorkers BY <1>1, <1>2, PoolAssumption DEF TypeOK
  <2>2. run' \in [Jobs -> RunStates] BY <1>1, <1>2 DEF TypeOK, RunStates
  <2> QED BY <1>1, <1>2, <2>1, <2>2 DEF TypeOK, callerVars
<1>9. Placed'
  <2>1. Planned' = Planned /\ unsent' = unsent /\ unsent \subseteq Jobs
    BY <1>1, <1>2, PlannedStays DEF callerVars, TypeOK
  <2>2. \A j \in Jobs : Queued(j)' <=> Queued(j) BY <1>2 DEF Queued
  <2>3. \A i \in 1 .. Len(queue) : queue[i] \in Jobs BY <1>1 DEF TypeOK
  <2>4. \A i \in 1 .. Len(queue') : held' # queue'[i] /\ run'[queue'[i]] = "none"
    BY <1>1, <1>2, <1>4, <2>3, BatchFacts DEF Placed
  <2>5. \A j \in Jobs : j \in Planned' <=> j \in unsent' \/ Queued(j)' \/ held' = j \/ run'[j] # "none"
    BY <1>1, <1>2, <1>3, <1>4, <2>1, <2>2, BatchFacts DEF Placed
  <2>6. \A j \in unsent' : ~Queued(j)' /\ held' # j /\ run'[j] = "none"
    BY <1>1, <1>2, <1>4, <2>1, <2>2, BatchFacts DEF Placed
  <2> QED BY <1>1, <1>2, <2>4, <2>5, <2>6 DEF Placed
<1>10. Control' BY <1>1, <1>2, <1>3 DEF Control, callerVars
<1>11. Counted'
  <2>1. wg = Cardinality(unsent) + Len(queue) + 1 + Cardinality(Undone)
    BY <1>1, <1>3 DEF Counted
  <2>2. Cardinality(unsent) \in Nat /\ Cardinality(Undone) \in Nat /\ Len(queue) \in Nat
    BY <1>1, CountFacts
  <2>3. wg = Cardinality(unsent) + Len(queue) + 0 + Cardinality(Undone')
    BY <1>7, <2>1, <2>2
  <2>4. workers' = Cardinality(Active') BY <1>1, <1>2, <1>3, <1>7 DEF Counted
  <2>5. unsent' = unsent BY <1>2 DEF callerVars
  <2> QED BY <1>1, <1>2, <1>7, <2>3, <2>4, <2>5 DEF Counted
<1>12. Heard' BY <1>2, <1>3, <1>4 DEF PoolInv, Heard
<1>13. WaitSeesEveryError'
  <2>1. held \notin Waited \/ caller \notin {"plan", "close", "ack", "closed"}
    BY <1>3 DEF PoolInv, WaitSeesEveryError
  <2>2. Waited' = Waited /\ caller' = caller /\ result' = result
    BY <1>2 DEF Waited, callerVars
  <2>3. Waited \subseteq Jobs
    <3>1. \A b \in 1 .. batch - 1 : b \in 1 .. Len(Batches) BY <1>1, BatchFacts DEF TypeOK
    <3> QED BY <3>1, BatchFacts DEF Waited
  <2> QED BY <1>2, <1>4, <2>1, <2>2, <2>3 DEF PoolInv, WaitSeesEveryError
<1> QED BY <1>8, <1>9, <1>10, <1>11, <1>12, <1>13 DEF PoolInv

\* The end of the processor.
LEMMA ExitStep == ASSUME PoolInv, SeeCancel \/ CloseChannels PROVE PoolInv'
<1>1. TypeOK /\ Counted /\ Control BY DEF PoolInv
<1>2. UNCHANGED <<callerVars, wg, queue, workers, held, jobVars, stopped, cancelled>>
  BY DEF SeeCancel, CloseChannels
<1>3. TypeOK' BY <1>1, <1>2 DEF SeeCancel, CloseChannels, TypeOK, callerVars, jobVars
<1>4. Placed' BY <1>1, <1>2, PlacedStays DEF PoolInv, jobVars
<1>5. Control' BY <1>1, <1>2 DEF SeeCancel, CloseChannels, Control, callerVars
<1>6. Counted'
  <2>1. unsent' = unsent /\ Undone' = Undone /\ Active' = Active
    BY <1>2 DEF Undone, Active, callerVars, jobVars
  <2>2. ~closed' => ~closed BY DEF SeeCancel, CloseChannels
  <2> QED BY <1>1, <1>2, <2>1, <2>2 DEF Counted
<1>7. Heard' BY <1>2 DEF PoolInv, Heard, jobVars
<1>8. WaitSeesEveryError'
  BY <1>2 DEF PoolInv, WaitSeesEveryError, Waited, callerVars, jobVars
<1> QED BY <1>3, <1>4, <1>5, <1>6, <1>7, <1>8 DEF PoolInv

\* The caller plans a batch. Its jobs were not planned before, so they are nowhere.
LEMMA PlanStep == ASSUME PoolInv, Plan PROVE PoolInv'
<1>1. TypeOK /\ Counted /\ Placed /\ Control BY DEF PoolInv
<1>2. /\ caller = "plan" /\ batch \in 1 .. Len(Batches) /\ wg = 0
      /\ UNCHANGED <<batch, result, queue, closed, workers, processorVars, jobVars, cancelled>>
  BY <1>1 DEF Plan, Control
<1>3. unsent = {} /\ queue = <<>> /\ held = None /\ Undone = {} BY <1>1, <1>2, CountFacts
<1>4. CASE Batches[batch] = {}
  <2>1. caller' = "close" /\ UNCHANGED <<unsent, wg>> BY <1>4 DEF Plan
  <2>2. Planned' = Planned BY <1>2, <2>1 DEF Planned
  <2>3. TypeOK' BY <1>1, <1>2, <2>1 DEF TypeOK, processorVars, jobVars, CallerStates
  <2>4. Placed' BY <1>1, <1>2, <2>1, <2>2 DEF Placed, Queued, processorVars, jobVars
  <2>5. Control' BY <1>1, <1>2, <1>3, <2>1 DEF Control, processorVars
  <2>6. Counted' BY <1>1, <1>2, <2>1 DEF Counted, Undone, Active, processorVars, jobVars
  <2>7. Heard' BY <1>2 DEF PoolInv, Heard, jobVars
  <2>8. WaitSeesEveryError'
    BY <1>2, <2>1 DEF PoolInv, WaitSeesEveryError, Waited, jobVars
  <2> QED BY <2>3, <2>4, <2>5, <2>6, <2>7, <2>8 DEF PoolInv
<1>5. CASE Batches[batch] # {}
  <2>1. /\ caller' = "queue" /\ unsent' = Batches[batch]
        /\ wg' = wg + Cardinality(Batches[batch])
    BY <1>5 DEF Plan
  <2>2. /\ Batches[batch] \subseteq Jobs /\ IsFiniteSet(Batches[batch])
        /\ Cardinality(Batches[batch]) \in Nat
    BY <1>2, BatchFacts, FS_CardinalityType
  <2>3. Planned' = Planned \cup Batches[batch]
    <3>1. batch \in Nat \ {0} BY <1>2, BatchFacts
    <3>2. 1 .. batch = (1 .. batch - 1) \cup {batch} BY <3>1
    <3>3. Planned = UNION {Batches[b] : b \in 1 .. batch - 1} BY <1>2 DEF Planned
    <3>4. Planned' = UNION {Batches[b] : b \in 1 .. batch} BY <1>2, <2>1 DEF Planned
    <3> QED BY <3>2, <3>3, <3>4
  <2>4. \A j \in Batches[batch] : j \notin Planned
    <3>1. \A b \in 1 .. batch - 1 : b \in 1 .. Len(Batches) /\ b # batch
      BY <1>2, BatchFacts
    <3>2. Planned = UNION {Batches[b] : b \in 1 .. batch - 1} BY <1>2 DEF Planned
    <3> QED BY <1>2, <3>1, <3>2, BatchFacts
  <2>5. TypeOK'
    BY <1>1, <1>2, <2>1, <2>2 DEF TypeOK, processorVars, jobVars, CallerStates
  <2>6. Placed'
    <3>1. \A j \in Jobs : Queued(j)' <=> Queued(j) BY <1>2 DEF Queued
    <3>2. held' = held /\ run' = run /\ queue' = queue BY <1>2 DEF processorVars, jobVars
    <3>3. \A j \in unsent' : ~Queued(j)' /\ held' # j /\ run'[j] = "none"
      BY <1>1, <2>1, <2>2, <2>4, <3>1, <3>2 DEF Placed
    <3>4. \A j \in Jobs : j \in Planned' <=> j \in unsent' \/ Queued(j)' \/ held' = j \/ run'[j] # "none"
      BY <1>1, <1>3, <2>1, <2>3, <3>1, <3>2 DEF Placed
    <3> QED BY <1>1, <3>2, <3>3, <3>4 DEF Placed
  <2>7. Control' BY <1>1, <1>2, <2>1 DEF Control, processorVars
  <2>8. Counted'
    <3>1. Undone' = Undone /\ Active' = Active BY <1>2 DEF Undone, Active, jobVars
    <3>2. held' = None /\ queue' = <<>> /\ closed' = closed /\ workers' = workers
      BY <1>2, <1>3 DEF processorVars
    <3>3. wg' = Cardinality(unsent') + 0 + 0 + 0 BY <1>2, <2>1, <2>2
    <3>4. Cardinality(Undone') = 0 /\ Len(queue') = 0 BY <1>3, <3>1, <3>2, FS_EmptySet
    <3> QED BY <1>1, <2>1, <2>2, <3>1, <3>2, <3>3, <3>4 DEF Counted
  <2>9. Heard' BY <1>2 DEF PoolInv, Heard, jobVars
  <2>10. WaitSeesEveryError' BY <2>1 DEF WaitSeesEveryError
  <2> QED BY <2>5, <2>6, <2>7, <2>8, <2>9, <2>10 DEF PoolInv
<1> QED BY <1>4, <1>5

\* A job goes to the end of the queue, or the caller finds the queue closed.
LEMMA QueueStep == ASSUME PoolInv, NEW j \in Jobs, Queue(j) PROVE PoolInv'
<1>1. TypeOK /\ Counted /\ Placed /\ Control BY DEF PoolInv
<1>2. /\ caller = "queue" /\ j \in unsent /\ caller' \in {"queue", "wait", "panic"}
      /\ UNCHANGED <<batch, result, wg, closed, workers, processorVars, jobVars, cancelled>>
  BY DEF Queue
<1>3. Planned' = Planned BY <1>2 DEF Planned
<1>4. Heard' BY <1>2 DEF PoolInv, Heard, jobVars
<1>5. WaitSeesEveryError' BY <1>2 DEF WaitSeesEveryError
<1>6. Undone' = Undone /\ Active' = Active BY <1>2 DEF Undone, Active, jobVars
<1>7. CASE closed
  <2>1. caller' = "panic" /\ UNCHANGED <<queue, unsent>> BY <1>7 DEF Queue
  <2>2. TypeOK' BY <1>1, <1>2, <2>1 DEF TypeOK, processorVars, jobVars, CallerStates
  <2>3. Placed' BY <1>1, <1>2, <1>3, <2>1 DEF Placed, Queued, processorVars, jobVars
  <2>4. Control' BY <1>1, <1>2, <1>7, <2>1 DEF Control, processorVars
  <2>5. Counted' BY <1>1, <1>2, <1>6, <2>1 DEF Counted, processorVars
  <2> QED BY <1>4, <1>5, <2>2, <2>3, <2>4, <2>5 DEF PoolInv
<1>8. CASE ~closed
  <2>1. /\ queue' = Append(queue, j) /\ unsent' = unsent \ {j}
        /\ caller' = IF unsent = {j} THEN "wait" ELSE "queue"
    BY <1>8 DEF Queue
  <2>2. /\ queue' \in Seq(Jobs) /\ Len(queue) \in Nat /\ Len(queue') = Len(queue) + 1
        /\ \A i \in 1 .. Len(queue) : queue'[i] = queue[i] /\ queue[i] \in Jobs
        /\ queue'[Len(queue) + 1] = j
    BY <1>1, <2>1, AppendFacts DEF TypeOK
  <2>3. TypeOK'
    BY <1>1, <1>2, <2>1, <2>2 DEF TypeOK, processorVars, jobVars, CallerStates
  <2>4. Placed'
    <3>1. \A i \in 1 .. Len(queue') : i \in 1 .. Len(queue) \/ i = Len(queue) + 1
      BY <2>2
    <3>2. \A k \in Jobs : Queued(k)' <=> Queued(k) \/ k = j
      <4>1. ASSUME NEW k \in Jobs, Queued(k) PROVE Queued(k)'
        <5>1. PICK i \in 1 .. Len(queue) : queue[i] = k BY <4>1 DEF Queued
        <5>2. i \in 1 .. Len(queue') /\ queue'[i] = k BY <2>2, <5>1
        <5> QED BY <5>2 DEF Queued
      <4>2. Queued(j)'
        <5>1. Len(queue) + 1 \in 1 .. Len(queue') BY <2>2
        <5> QED BY <2>2, <5>1 DEF Queued
      <4>3. ASSUME NEW k \in Jobs, Queued(k)' PROVE Queued(k) \/ k = j
        BY <2>2, <3>1, <4>3 DEF Queued
      <4> QED BY <4>1, <4>2, <4>3
    <3>3. ~Queued(j) /\ held # j /\ run[j] = "none" /\ held' = held /\ run' = run
      BY <1>1, <1>2 DEF Placed, processorVars, jobVars
    <3>4. \A i, k \in 1 .. Len(queue') : queue'[i] = queue'[k] => i = k
      BY <1>1, <2>2, <3>1, <3>3 DEF Placed, Queued
    <3>5. \A i \in 1 .. Len(queue') : held' # queue'[i] /\ run'[queue'[i]] = "none"
      BY <1>1, <2>2, <3>1, <3>3 DEF Placed
    <3>6. \A k \in Jobs : k \in Planned' <=> k \in unsent' \/ Queued(k)' \/ held' = k \/ run'[k] # "none"
      BY <1>1, <1>2, <1>3, <2>1, <3>2, <3>3 DEF Placed
    <3>7. \A k \in unsent' : ~Queued(k)' /\ held' # k /\ run'[k] = "none"
      <4>1. unsent \subseteq Jobs BY <1>1 DEF TypeOK
      <4> QED BY <1>1, <2>1, <3>2, <3>3, <4>1 DEF Placed
    <3> QED BY <1>1, <3>3, <3>4, <3>5, <3>6, <3>7 DEF Placed
  <2>5. Control' BY <1>1, <1>2, <2>1 DEF Control, processorVars
  <2>6. Counted'
    <3> DEFINE here == IF held = None THEN 0 ELSE 1
    <3>1. IsFiniteSet(unsent') /\ Cardinality(unsent') = Cardinality(unsent) - 1
      BY <1>1, <1>2, <2>1, FS_RemoveElement DEF Counted
    <3>2. Cardinality(unsent) \in Nat /\ Cardinality(Undone) \in Nat /\ here \in Nat
      BY <1>1, CountFacts
    <3>3. wg = Cardinality(unsent) + Len(queue) + here + Cardinality(Undone)
      BY <1>1 DEF Counted
    <3>4. wg = Cardinality(unsent') + Len(queue') + here + Cardinality(Undone)
      <4> HIDE DEF here
      <4> QED BY <2>2, <3>1, <3>2, <3>3
    <3> QED BY <1>1, <1>2, <1>6, <3>1, <3>4 DEF Counted, processorVars
  <2> QED BY <1>4, <1>5, <2>3, <2>4, <2>5, <2>6 DEF PoolInv
<1> QED BY <1>7, <1>8

\* Wait returns: a counter of zero says that all that was planned is over.
LEMMA WaitStep == ASSUME PoolInv, Wait PROVE PoolInv'
<1>1. TypeOK /\ Counted /\ Placed /\ Control /\ Heard BY DEF PoolInv
<1>2. /\ caller = "wait" /\ wg = 0 /\ result' = lastErr /\ batch' = batch + 1
      /\ caller' = IF batch < Len(Batches) THEN "plan" ELSE "close"
      /\ UNCHANGED <<unsent, wg, queue, closed, workers, processorVars, jobVars, cancelled>>
  BY DEF Wait
<1>3. unsent = {} /\ queue = <<>> /\ held = None /\ Undone = {} BY <1>1, <1>2, CountFacts
<1>4. batch \in 1 .. Len(Batches) BY <1>1, <1>2 DEF Control
<1>5. batch' - 1 = batch BY <1>2, <1>4, BatchFacts
<1>6. Planned' = Planned /\ Waited' = Planned BY <1>2, <1>5 DEF Planned, Waited
<1>7. TypeOK'
  <2>1. batch' \in 1 .. Len(Batches) + 1 BY <1>2, <1>4, BatchFacts
  <2> QED BY <1>1, <1>2, <2>1 DEF TypeOK, processorVars, jobVars, CallerStates
<1>8. Placed' BY <1>1, <1>2, <1>6 DEF Placed, Queued, processorVars, jobVars
<1>9. Control' BY <1>1, <1>2, <1>3 DEF Control, processorVars
<1>10. Counted' BY <1>1, <1>2 DEF Counted, Undone, Active, processorVars, jobVars
<1>11. Heard' BY <1>1, <1>2 DEF Heard, jobVars
<1>12. WaitSeesEveryError'
  <2>1. \A j \in Jobs : j \in Planned <=> run[j] # "none"
    BY <1>1, <1>3, BatchFacts DEF Placed, Queued
  <2>2. \A j \in Jobs : j \in Planned <=> run[j] \in {"release", "gone"}
    BY <1>1, <1>3, <2>1 DEF TypeOK, RunStates, Undone
  <2>3. Planned \subseteq Jobs
    <3>1. \A b \in 1 .. batch : b \in 1 .. Len(Batches) BY <1>4, BatchFacts
    <3> QED BY <1>2, <3>1, BatchFacts DEF Planned
  <2>4. ~cancelled => result' = {j \in Planned : answer[j] = "error"}
    BY <1>1, <1>2, <2>1, <2>2, <2>3 DEF Heard, TypeOK
  <2> QED BY <1>2, <1>6, <2>2, <2>3, <2>4 DEF WaitSeesEveryError, jobVars
<1> QED BY <1>7, <1>8, <1>9, <1>10, <1>11, <1>12 DEF PoolInv

\* Close meets the processor, and then the closing of the queue, which is empty.
LEMMA CloseStep == ASSUME PoolInv, Close \/ CloseAck PROVE PoolInv'
<1>1. TypeOK /\ Counted /\ Placed /\ Control BY DEF PoolInv
<1>2. /\ caller \in {"close", "ack"} /\ caller' \in {"ack", "closed"} /\ wg = 0
      /\ UNCHANGED <<batch, unsent, result, wg, closed, workers, held, jobVars, cancelled>>
  BY <1>1 DEF Close, CloseAck, Control, processorVars
<1>3. queue = <<>> BY <1>1, <1>2, CountFacts
<1>4. queue' = queue BY <1>3 DEF Close, CloseAck
<1>5. Planned' = Planned BY <1>2 DEF Planned
<1>6. TypeOK'
  BY <1>1, <1>2, <1>4 DEF Close, CloseAck, TypeOK, jobVars, processorVars, CallerStates
<1>7. Placed' BY <1>1, <1>2, <1>4, <1>5 DEF Placed, Queued, jobVars
<1>8. Control' BY <1>1, <1>2 DEF Close, CloseAck, Control, processorVars
<1>9. Counted' BY <1>1, <1>2, <1>4 DEF Counted, Undone, Active, jobVars
<1>10. Heard' BY <1>2 DEF PoolInv, Heard, jobVars
<1>11. WaitSeesEveryError' BY <1>2 DEF PoolInv, WaitSeesEveryError, Waited, jobVars
<1> QED BY <1>6, <1>7, <1>8, <1>9, <1>10, <1>11 DEF PoolInv

\* Every step keeps the invariant.
LEMMA PoolInvStep == PoolInv /\ [PoolNext]_poolVars => PoolInv'
<1> SUFFICES ASSUME PoolInv, [PoolNext]_poolVars PROVE PoolInv' OBVIOUS
<1>1. CASE Cancel \/ UNCHANGED poolVars
  <2>1. /\ UNCHANGED <<callerVars, wg, queue, closed, workers, processorVars, jobVars>>
        /\ cancelled' \in BOOLEAN /\ (cancelled => cancelled')
    BY <1>1 DEF Cancel, poolVars, callerVars, processorVars, jobVars, PoolInv, TypeOK
  <2>2. TypeOK' BY <2>1 DEF PoolInv, TypeOK, callerVars, processorVars, jobVars
  <2>3. Placed' BY <2>1, PlacedStays DEF PoolInv, processorVars, jobVars
  <2>4. Control' BY <2>1 DEF PoolInv, Control, callerVars, processorVars
  <2>5. Counted' BY <2>1 DEF PoolInv, Counted, Undone, Active, callerVars, processorVars, jobVars
  <2>6. Heard' BY <2>1 DEF PoolInv, Heard, jobVars
  <2>7. WaitSeesEveryError'
    BY <2>1 DEF PoolInv, WaitSeesEveryError, Waited, callerVars, jobVars
  <2> QED BY <2>2, <2>3, <2>4, <2>5, <2>6, <2>7 DEF PoolInv
<1>2. ASSUME NEW j \in Jobs,
             Queue(j) \/ Answer(j) \/ Return(j) \/ Select(j) \/ Done(j) \/ Release(j)
      PROVE  PoolInv'
  BY <1>2, QueueStep, JobStep, ReleaseStep
<1> QED BY <1>1, <1>2, PlanStep, WaitStep, CloseStep, TakeStep, StartStep, ExitStep DEF PoolNext

----------------------------------------------------------------------------
\* Type correctness of the pool; wg never goes below zero, which would panic.
THEOREM PoolTypeCorrect == PoolSpec => []TypeOK
<1>1. PoolInv => TypeOK BY DEF PoolInv
<1> QED BY <1>1, InitPoolInv, PoolInvStep, PTL DEF PoolSpec

\* Whatever the number of batches, jobs and workers and the order in which the goroutines
\* run (Wait, handleLastError): when Wait returns, all jobs planned so far are over, and
\* its result has the error of each job that answered one, unless the context was cancelled.
THEOREM EveryErrorSeen == PoolSpec => []WaitSeesEveryError
<1>1. PoolInv => WaitSeesEveryError BY DEF PoolInv
<1> QED BY <1>1, InitPoolInv, PoolInvStep, PTL DEF PoolSpec

\* The wait group is at every moment the number of jobs planned and not done, and the
\* tokens in `workers`, until the pool closes, that of the goroutines: no job is lost or
\* done twice (Queue, Start, the deferred calls of a job).
THEOREM CountersExact == PoolSpec => []CountersAreExact
<1>1. PoolInv => CountersAreExact
  BY DEF PoolInv, Counted, CountersAreExact, OneTokenPerJob, WaitGroupCountsJobs, Undone, Active
<1> QED BY <1>1, InitPoolInv, PoolInvStep, PTL DEF PoolSpec


=============================================================================
