----------------------------- MODULE ImageScan -----------------------------
(***************************************************************************)
(* The image scanner and its Harbor data provider, together with the       *)
(* Setting controller, which shares Harbor with them. A scanner takes the  *)
(* images of a workload one by one: the Trivy service first, then the      *)
(* security data from the cache or from Harbor. An artifact Harbor does    *)
(* not have is requested: the scanner makes the project, a replication     *)
(* policy and starts a replication; Harbor copies the image and scans it.  *)
(*                                                                         *)
(* One step is one call. The scan jobs of a CronJob may overlap, and other *)
(* policies have scanners of their own.                                    *)
(***************************************************************************)
EXTENDS SettingReconciler

CONSTANTS
  Scanners,       \* pods of image scanners
  Images,         \* images of containers
  Deployments,    \* what may run: the manager, scanners and a workload's images,
                  \* and how many of the faults and rescans have been before
  RegistryOf,     \* where an image comes from
  ProjectOf,      \* the Harbor project an image is copied to
  Pushed,         \* the images somebody pushed, if their project is there
  Tagged,         \* the images whose container names a tag
  Moved,          \* of these, the ones whose tag names another digest by now
  MaxRescans      \* bound on scans of artifacts scanned before

ASSUME ImagesAssumption ==
  /\ RegistryOf \in [Images -> Registries] /\ ProjectOf \in [Images -> Projects]
  /\ Deployments \subseteq [manager : BOOLEAN, scanners : SUBSET Scanners,
                       images : SUBSET Images,
                       faults : 0 .. MaxFaults, rescans : 0 .. MaxRescans]
  /\ Moved \subseteq Tagged /\ Tagged \subseteq Images /\ Pushed \subseteq Images
  /\ MaxRescans \in Nat /\ Images # {}

VARIABLES
  deployed,       \* which of the deployments this is
  artifact,       \* Harbor: what it has of an image, and how bad it is
  policies,       \* Harbor: the images with a replication policy
  replicating,    \* Harbor: the images some execution is copying
  cache,          \* Redis: the stores of images
  scan,           \* where each scanner is, and its local variables
  verdict,        \* what the last exported report says of the workload
  rescans

scanVars == <<deployed, artifact, policies, replicating, cache, scan, verdict, rescans>>
vars == <<settingVars, scanVars>>

----------------------------------------------------------------------------
\* "low" is within the baseline, "high" is not.
Severities == {"low", "high"}

\* An overview of a scan that has not finished has no severity; an artifact that
\* has not been scanned has no overview, and its store is an error.
Stores == {"none", "unscanned", "scanning"} \cup Severities

ScanPCs == {"idle", "image", "trivy", "report", "read", "fetch", "write", "project",
            "create", "update", "policies", "registries", "policy", "trigger"}

\* todo: the images not taken yet. image: the present one. passed: wa.Passed.
Scans == [pc : ScanPCs, todo : SUBSET Images, image : Images,
          store : Stores, passed : BOOLEAN]

NotScanning == [pc |-> "idle", todo |-> {}, image |-> CHOOSE i \in Images : TRUE,
                store |-> "none", passed |-> TRUE]

On(s, pc) == scan[s].pc = pc
Image(s) == scan[s].image
Continues(s, l) == scan' = [scan EXCEPT ![s] = l]
Jump(s, pc) == Continues(s, [scan[s] EXCEPT !.pc = pc])

\* Mutant: an artifact without security data passes.
AssessOptimistically(s, store) ==
  Continues(s, [scan[s] EXCEPT !.pc = "image", !.store = "none",
                               !.passed = @ /\ store # "high"])

\* Store.Assess: the severity of an unfinished scan parses as unknown, which is
\* beyond no baseline.
Assess(s, store) ==
  Continues(s, [scan[s] EXCEPT !.pc = "image", !.store = "none",
                               !.passed = @ /\ store \in {"low", "scanning"}])

\* An error of the request is only logged, and the next image follows.
GivesUp(s) == Jump(s, "image")
Ends(s) == Continues(s, NotScanning)

OfSetting == <<version, status, queued, ctl, registered, schedule>>
OfHarbor == <<deployed, artifact, policies, replicating, rescans>>

----------------------------------------------------------------------------
ScanInit ==
  /\ SettingInit
  /\ deployed \in Deployments
  /\ artifact = [i \in Images |->
       IF i \in Pushed \cap deployed.images /\ project[ProjectOf[i]] = "closed" THEN "unscanned" ELSE "none"]
  /\ policies = {} /\ replicating = {}
  /\ cache = [i \in Images |-> "none"]
  /\ scan = [s \in Scanners |-> NotScanning]
  /\ verdict = "none"
  /\ faults = deployed.faults /\ rescans = deployed.rescans

\* Run before its first image: an error of the settings, the provider, the
\* namespaces or the VAC adapter ends it.
RunFails(s) ==
  /\ On(s, "idle") /\ s \in deployed.scanners
  /\ Fault /\ Ends(s)
  /\ UNCHANGED <<OfSetting, project, OfHarbor, cache, verdict>>

\* A disabled data source ends it in EnsureSettings.
StartScan(s) ==
  /\ On(s, "idle") /\ s \in deployed.scanners /\ version \in Enabled
  /\ Continues(s, [NotScanning EXCEPT !.pc = "image", !.todo = deployed.images])
  /\ UNCHANGED <<settingVars, OfHarbor, cache, verdict>>

NextImage(s) ==
  /\ On(s, "image")
  /\ \E i \in scan[s].todo :
       Continues(s, [scan[s] EXCEPT !.pc = "trivy", !.image = i, !.todo = @ \ {i}])
  /\ UNCHANGED <<settingVars, OfHarbor, cache, verdict>>

\* Without a further image the report is exported; an error of that is only logged.
ExportImageReports(s) ==
  /\ On(s, "image") /\ scan[s].todo = {} /\ Ends(s)
  /\ \/ verdict' = (IF scan[s].passed THEN "pass" ELSE "fail") /\ UNCHANGED faults
     \/ Fault /\ UNCHANGED verdict
  /\ UNCHANGED <<OfSetting, project, OfHarbor, cache>>

\* Scan: an error of the Trivy service is only logged. When it cannot be reached, the
\* nil response is dereferenced, which ends the whole run.
Scan(s) ==
  /\ On(s, "trivy")
  /\ \/ Jump(s, "report") /\ UNCHANGED faults
     \/ Fault /\ Ends(s)
  /\ UNCHANGED <<OfSetting, project, OfHarbor, cache, verdict>>

\* getReport checks once, when its time has come; an error leaves the container
\* without the report. An answer that is no report makes a nil assessment, which
\* is dereferenced.
GetReport(s) ==
  /\ On(s, "report")
  /\ \/ Jump(s, "read") /\ UNCHANGED faults
     \/ Fault /\ Ends(s)
  /\ UNCHANGED <<OfSetting, project, OfHarbor, cache, verdict>>

ScanWithTrivy(s) == Scan(s) \/ GetReport(s)

\* Any error of the cache sends the scanner to Harbor. A store with an error is
\* written as JSON that cannot be read back.
ReadCache(s) ==
  LET store == cache[Image(s)] IN
  /\ On(s, "read")
  /\ \/ /\ IF store \in {"none", "unscanned"} THEN Jump(s, "fetch") ELSE Assess(s, store)
        /\ UNCHANGED faults
     \/ Fault /\ Jump(s, "fetch")
  /\ UNCHANGED <<OfSetting, project, OfHarbor, cache, verdict>>

\* An artifact that is not found is requested, unless its container has no tag;
\* after any other error the image just counts as failed.
Fetch(s) ==
  LET failed == [scan[s] EXCEPT !.passed = FALSE]
      found == artifact[Image(s)]
  IN /\ On(s, "fetch")
     /\ \/ /\ found # "none"
           /\ Continues(s, [scan[s] EXCEPT !.pc = "write", !.store = found])
           /\ UNCHANGED faults
        \/ /\ found = "none"
           /\ Continues(s, [failed EXCEPT !.pc =
                              IF Image(s) \in Tagged THEN "project" ELSE "image"])
           /\ UNCHANGED faults
        \/ Fault /\ Continues(s, [failed EXCEPT !.pc = "image"])
     /\ UNCHANGED <<OfSetting, project, OfHarbor, cache, verdict>>

\* An error of the write is only logged.
WriteCache(s) ==
  /\ On(s, "write")
  /\ Assess(s, scan[s].store)
  /\ \/ cache' = [cache EXCEPT ![Image(s)] = scan[s].store] /\ UNCHANGED faults
     \/ Fault /\ UNCHANGED cache
  /\ UNCHANGED <<OfSetting, project, OfHarbor, verdict>>

Read(s) == ReadCache(s) \/ Fetch(s) \/ WriteCache(s)

----------------------------------------------------------------------------
\* ensureProject takes any error for a missing project.
GetProject(s) ==
  LET p == project[ProjectOf[Image(s)]] IN
  /\ On(s, "project")
  /\ \/ /\ Jump(s, CASE p = "absent" -> "create" [] p = "closed" -> "update"
                     [] OTHER -> "policies")
        /\ UNCHANGED faults
     \/ Fault /\ Jump(s, "create")
  /\ UNCHANGED <<OfSetting, project, OfHarbor, cache, verdict>>

\* A project that exists makes a conflict.
CreateProject(s) ==
  LET p == ProjectOf[Image(s)] IN
  /\ On(s, "create")
  /\ \/ /\ project[p] = "absent"
        /\ project' = [project EXCEPT ![p] = "scanning"]
        /\ \/ Jump(s, "policies") /\ UNCHANGED faults
           \/ Fault /\ GivesUp(s)
     \/ project[p] # "absent" /\ GivesUp(s) /\ UNCHANGED <<project, faults>>
  /\ UNCHANGED <<OfSetting, OfHarbor, cache, verdict>>

\* The update does not say of which project, so Harbor refuses it.
UpdateProject(s) ==
  /\ On(s, "update") /\ GivesUp(s)
  /\ UNCHANGED <<settingVars, OfHarbor, cache, verdict>>

ListPolicies(s) ==
  /\ On(s, "policies")
  /\ \/ /\ Jump(s, IF Image(s) \in policies THEN "trigger" ELSE "registries")
        /\ UNCHANGED faults
     \/ Fault /\ GivesUp(s)
  /\ UNCHANGED <<OfSetting, project, OfHarbor, cache, verdict>>

\* Mutant: an unknown registry is no reason to stop.
FindRegistryOrElse(s) ==
  /\ On(s, "registries")
  /\ Jump(s, IF registered[RegistryOf[Image(s)]] # 0 THEN "policy" ELSE "trigger")
  /\ UNCHANGED <<settingVars, OfHarbor, cache, verdict>>

\* The policy needs the registry of the image.
FindRegistry(s) ==
  /\ On(s, "registries")
  /\ \/ /\ IF registered[RegistryOf[Image(s)]] # 0 THEN Jump(s, "policy") ELSE GivesUp(s)
        /\ UNCHANGED faults
     \/ Fault /\ GivesUp(s)
  /\ UNCHANGED <<OfSetting, project, OfHarbor, cache, verdict>>

\* Another scanner's policy of the same name makes a conflict.
CreatePolicy(s) ==
  /\ On(s, "policy")
  /\ \/ /\ Image(s) \notin policies
        /\ policies' = policies \cup {Image(s)}
        /\ \/ Jump(s, "trigger") /\ UNCHANGED faults
           \/ Fault /\ GivesUp(s)
     \/ Image(s) \in policies /\ GivesUp(s) /\ UNCHANGED <<policies, faults>>
  /\ UNCHANGED <<OfSetting, project, deployed, artifact, replicating, rescans, cache, verdict>>

\* Each request starts another execution of the policy.
Trigger(s) ==
  /\ On(s, "trigger") /\ GivesUp(s)
  /\ \/ replicating' = replicating \cup {Image(s)} /\ UNCHANGED faults
     \/ Fault /\ UNCHANGED replicating
  /\ UNCHANGED <<OfSetting, project, deployed, artifact, policies, rescans, cache, verdict>>

\* The first call that fails ends the request.
Request(s) ==
  \/ GetProject(s) \/ CreateProject(s) \/ UpdateProject(s)
  \/ ListPolicies(s) \/ FindRegistry(s) \/ CreatePolicy(s) \/ Trigger(s)

Scanner(s) ==
  \/ RunFails(s) \/ StartScan(s) \/ NextImage(s) \/ ExportImageReports(s)
  \/ ScanWithTrivy(s) \/ Read(s) \/ Request(s)

----------------------------------------------------------------------------
\* Harbor and Redis. A policy copies what its tag names at the moment; a project
\* that scans on push scans it at once.
Replicate(i) ==
  /\ i \in replicating /\ replicating' = replicating \ {i}
  /\ \/ /\ artifact' = IF artifact[i] # "none" \/ i \in Moved THEN artifact
                       ELSE [artifact EXCEPT ![i] =
                         IF project[ProjectOf[i]] = "scanning" THEN "scanning" ELSE "unscanned"]
        /\ UNCHANGED faults
     \/ Fault /\ UNCHANGED artifact
  /\ UNCHANGED <<OfSetting, project, deployed, policies, rescans, cache, scan, verdict>>

\* The schedule scans all artifacts; the first time is not counted.
ScanAll(i) ==
  /\ schedule # 0 /\ artifact[i] = "unscanned"
  /\ artifact' = [artifact EXCEPT ![i] = "scanning"]
  /\ UNCHANGED <<settingVars, deployed, policies, replicating, rescans, cache, scan, verdict>>

Rescan(i) ==
  /\ schedule # 0 /\ artifact[i] \in Severities /\ rescans < MaxRescans
  /\ artifact' = [artifact EXCEPT ![i] = "scanning"]
  /\ rescans' = rescans + 1
  /\ UNCHANGED <<settingVars, deployed, policies, replicating, cache, scan, verdict>>

FinishScan(i) ==
  /\ artifact[i] = "scanning"
  /\ \E severity \in Severities : artifact' = [artifact EXCEPT ![i] = severity]
  /\ UNCHANGED <<settingVars, deployed, policies, replicating, rescans, cache, scan, verdict>>

\* Mutant: a store that was written once is kept for good.
NeverExpire(i) == FALSE /\ i \in Images /\ UNCHANGED vars

\* LivingTime.
Expire(i) ==
  /\ cache[i] # "none"
  /\ cache' = [cache EXCEPT ![i] = "none"]
  /\ UNCHANGED <<settingVars, OfHarbor, scan, verdict>>

\* Without the manager nothing changes the setting or applies it.
Manager == deployed.manager /\ (Reconcile \/ Resync) /\ UNCHANGED scanVars

Users ==
  /\ deployed.manager /\ UNCHANGED scanVars
  /\ Edit \/ \E p \in Projects : AddProject(p)

Harbor(i) == Replicate(i) \/ ScanAll(i) \/ FinishScan(i)

Next ==
  \/ Manager \/ Users
  \/ \E s \in Scanners : Scanner(s)
  \/ \E i \in Images : Harbor(i) \/ Rescan(i) \/ Expire(i)

\* The manager and the pods keep running and the CronJob keeps starting scans;
\* Harbor gets on with its work, and Redis forgets. Nobody has to edit the setting
\* or make a project.
Fairness ==
  /\ WF_vars(Manager)
  /\ \A s \in Scanners : WF_vars(Scanner(s))
  /\ \A i \in Images : WF_vars(Harbor(i)) /\ WF_vars(Expire(i))

Spec == ScanInit /\ [][Next]_vars /\ Fairness

----------------------------------------------------------------------------
ScanTypeOK ==
  /\ SettingTypeOK
  /\ deployed \in Deployments
  /\ artifact \in [Images -> Stores]
  /\ policies \subseteq Tagged /\ replicating \subseteq policies
  /\ cache \in [Images -> Stores]
  /\ scan \in [Scanners -> Scans]
  /\ verdict \in {"none", "pass", "fail"}
  /\ rescans \in 0 .. MaxRescans

\* A workload with an image Harbor has not got, or has not begun to scan, never
\* passes, whichever of the cache, the request and the other scanners is ahead.
PassedIsInHarbor ==
  verdict = "pass" => \A i \in deployed.images : artifact[i] \notin {"none", "unscanned"}

\* A setting that stays enabled and is edited no more is in force and healthy in
\* the end, whatever failed before.
SettingConverges ==
  deployed.manager /\ <>[](version \in Enabled) => <>[](InHarbor /\ Healthy(status))

\* Setting and scanner together get an image into Harbor and scanned: whoever made
\* its project and whatever failed, if its registry stays known, and its
\* tag names the digest that runs.
ImagesAreScanned ==
  \A i \in Tagged \ Moved :
    /\ deployed.manager /\ deployed.scanners # {} /\ i \in deployed.images
    /\ <>[](version \in Enabled /\ RegistryOf[i] \in Known[version])
    => <>(artifact[i] \in Severities)

\* The verdict on the workload settles to what Harbor's reports settle to, in
\* spite of stores in the cache and of other scanners' writes to it.
VerdictFollowsReports ==
  deployed.scanners # {} /\ <>[](version \in Enabled) =>
    /\ <>[](\E i \in deployed.images : artifact[i] = "high") => <>[](verdict = "fail")
    /\ <>[](\A i \in deployed.images : artifact[i] = "low") => <>[](verdict = "pass")

=============================================================================
