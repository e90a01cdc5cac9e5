------------------------- MODULE SettingReconciler -------------------------
(***************************************************************************)
(* The Setting controller and the part of the Harbor adapter it drives:    *)
(* it pings Harbor, registers the known registries, applies the scan       *)
(* schedule, opens scan-on-push for all projects, and records in three     *)
(* conditions how that went. One step is one call.                         *)
(*                                                                         *)
(* A Setting is edited by its user; its versions are numbered, and what    *)
(* Harbor was told last of a registry or of the schedule is the version it *)
(* was told of, 0 if never. Only an edit makes the status update conflict. *)
(***************************************************************************)
EXTENDS Naturals, FiniteSets

CONSTANTS
  Registries,     \* names of registries
  Projects,       \* names of Harbor projects
  Known,          \* the known registries of each version of the setting
  Enabled,        \* the versions whose data source is not disabled
  MaxFaults       \* bound on failing calls

Versions == DOMAIN Known

ASSUME SettingAssumption ==
  /\ Versions = 1 .. Cardinality(Versions) /\ 1 \in Versions
  /\ Known \in [Versions -> SUBSET Registries]
  /\ Enabled \subseteq Versions /\ MaxFaults \in Nat

VARIABLES
  version,        \* the setting as its user last wrote it
  status,         \* the conditions in its status
  queued,         \* a request for the controller
  ctl,            \* where Reconcile is, and its local variables
  registered,     \* Harbor: its registries
  schedule,       \* Harbor: when it scans all artifacts
  project,        \* Harbor: its projects and whether they scan on push
  faults

settingVars == <<version, status, queued, ctl, registered, schedule, project, faults>>
harbor == <<registered, schedule, project>>

----------------------------------------------------------------------------
Conditions == [ready : {"Unknown", "True", "False"},
               registries : {"Unknown", "True", "False"},
               applied : {"Unknown", "True", "False"}]
NoConditions == [ready |-> "Unknown", registries |-> "Unknown", applied |-> "Unknown"]

\* AggregateStatus.
Healthy(c) == \A t \in DOMAIN c : c[t] = "True"

PCs == {"idle", "provider", "ping", "list", "register", "getSchedule",
        "setSchedule", "projects", "open", "status"}

\* read: the version Reconcile works on. conds: its copy of the conditions. todo:
\* the registries or projects its present loop has not reached.
Locals == [pc : PCs, read : Versions, conds : Conditions,
           todo : SUBSET (Registries \cup Projects)]

Idle == [pc |-> "idle", read |-> 1, conds |-> NoConditions, todo |-> {}]

At(pc) == ctl.pc = pc
GoTo(pc, todo) == ctl' = [ctl EXCEPT !.pc = pc, !.todo = todo]

\* A part of the reconciliation ends with condition t true or false. Errors are
\* only logged, so the next part follows.
Concludes(t, value, pc, todo) ==
  ctl' = [ctl EXCEPT !.conds[t] = value, !.pc = pc, !.todo = todo]

Fault == faults < MaxFaults /\ faults' = faults + 1

\* The next part after a failure of condition t's.
FailsWith(t, pc) == Fault /\ Concludes(t, "False", pc, {})

----------------------------------------------------------------------------
\* Harbor may have been set up by an earlier manager, and anybody may have made
\* projects there.
SettingInit ==
  /\ version = 1 /\ status = NoConditions /\ queued = TRUE /\ ctl = Idle
  /\ \E v \in {0, 1} :
       /\ registered = [r \in Registries |-> IF v = 1 /\ r \in Known[1] THEN 1 ELSE 0]
       /\ schedule = v
  /\ project \in [Projects -> {"absent", "closed"}]
  /\ faults \in 0 .. MaxFaults

Edit ==
  /\ version + 1 \in Versions
  /\ version' = version + 1
  /\ queued' = TRUE
  /\ UNCHANGED <<status, ctl, harbor, faults>>

\* controller-runtime lists all settings again from time to time.
Resync ==
  /\ ~queued /\ queued' = TRUE
  /\ UNCHANGED <<version, status, ctl, harbor, faults>>

\* Someone makes a project in Harbor, which does not scan on push.
AddProject(p) ==
  /\ project[p] = "absent"
  /\ project' = [project EXCEPT ![p] = "closed"]
  /\ UNCHANGED <<version, status, queued, ctl, registered, schedule, faults>>

\* A disabled data source is left as it is, and its status too.
Take ==
  /\ queued /\ At("idle")
  /\ queued' = FALSE
  /\ ctl' = IF version \in Enabled
            THEN [pc |-> "provider", read |-> version, conds |-> status, todo |-> {}]
            ELSE Idle
  /\ UNCHANGED <<version, status, harbor, faults>>

Requeue == ctl' = Idle /\ queued' = TRUE

\* NewHarborAdapter: without its secret Reconcile is tried again.
NewProvider ==
  /\ At("provider")
  /\ \/ GoTo("ping", {}) /\ UNCHANGED <<queued, faults>>
     \/ Fault /\ Requeue
  /\ UNCHANGED <<version, status, harbor>>

\* The ping is over; without known registries, there is nothing to list.
Pinged(value) ==
  ctl' = [ctl EXCEPT !.conds.ready = value,
            !.pc = IF Known[ctl.read] = {} THEN "getSchedule" ELSE "list",
            !.conds.registries = IF Known[ctl.read] = {} THEN "True" ELSE @]

\* Mutant: a data source that was down once stays so.
PingUntilDown ==
  /\ At("ping")
  /\ \/ Pinged(IF ctl.conds.ready = "False" THEN "False" ELSE "True") /\ UNCHANGED faults
     \/ Fault /\ Pinged("False")
  /\ UNCHANGED <<version, status, queued, harbor>>

Ping ==
  /\ At("ping")
  /\ \/ Pinged("True") /\ UNCHANGED faults
     \/ Fault /\ Pinged("False")
  /\ UNCHANGED <<version, status, queued, harbor>>

----------------------------------------------------------------------------
\* RegisterKnownRegistries. Whether each registry is to be created or updated is
\* decided from one list, before the first is; a missing credential ends it there.
ListRegistries ==
  /\ At("list")
  /\ \/ GoTo("register", Known[ctl.read]) /\ UNCHANGED faults
     \/ FailsWith("registries", "getSchedule")
  /\ UNCHANGED <<version, status, queued, harbor>>

\* New ones first, then the others; the first failure ends it.
RegisterRegistry(r) ==
  LET new == {n \in ctl.todo : registered[n] = 0}
      left == ctl.todo \ {r}
  IN /\ At("register")
     /\ r \in (IF new # {} THEN new ELSE ctl.todo)
     /\ \/ /\ registered' = [registered EXCEPT ![r] = ctl.read]
           /\ IF left = {} THEN Concludes("registries", "True", "getSchedule", {})
              ELSE GoTo("register", left)
           /\ UNCHANGED faults
        \/ FailsWith("registries", "getSchedule") /\ UNCHANGED registered
     /\ UNCHANGED <<version, status, queued, schedule, project>>

\* ApplyConfig: the schedule is written only if it is missing or differs.
GetScanAllSchedule ==
  /\ At("getSchedule")
  /\ \/ GoTo(IF schedule = ctl.read THEN "projects" ELSE "setSchedule", {})
        /\ UNCHANGED faults
     \/ FailsWith("applied", "status")
  /\ UNCHANGED <<version, status, queued, harbor>>

\* Mutant: a schedule that exists is left alone.
SetMissingSchedule ==
  /\ At("setSchedule")
  /\ schedule' = IF schedule = 0 THEN ctl.read ELSE schedule
  /\ GoTo("projects", {})
  /\ UNCHANGED <<version, status, queued, registered, project, faults>>

SetScanAllSchedule ==
  /\ At("setSchedule")
  /\ \/ schedule' = ctl.read /\ GoTo("projects", {}) /\ UNCHANGED faults
     \/ FailsWith("applied", "status") /\ UNCHANGED schedule
  /\ UNCHANGED <<version, status, queued, registered, project>>

\* Mutant: projects that exist are left alone.
IgnoreProjects ==
  /\ At("projects")
  /\ Concludes("applied", "True", "status", {})
  /\ UNCHANGED <<version, status, queued, harbor, faults>>

\* scanOnPush, one project after the other of those listed.
ListProjects ==
  LET closed == {p \in Projects : project[p] = "closed"} IN
  /\ At("projects")
  /\ \/ /\ IF closed = {} THEN Concludes("applied", "True", "status", {})
           ELSE GoTo("open", closed)
        /\ UNCHANGED faults
     \/ FailsWith("applied", "status")
  /\ UNCHANGED <<version, status, queued, harbor>>

OpenProject(p) ==
  LET left == ctl.todo \ {p} IN
  /\ At("open") /\ p \in ctl.todo
  /\ \/ /\ project' = [project EXCEPT ![p] = "scanning"]
        /\ IF left = {} THEN Concludes("applied", "True", "status", {})
           ELSE GoTo("open", left)
        /\ UNCHANGED faults
     \/ FailsWith("applied", "status") /\ UNCHANGED project
  /\ UNCHANGED <<version, status, queued, registered, schedule>>

\* The status is always updated: the comparison before it is of a value with a
\* pointer. A status that changes makes an event, and Reconcile runs once more;
\* one that does not is the last word until an edit or a resync.
UpdateStatus ==
  /\ At("status")
  /\ \/ /\ version = ctl.read
        /\ status' = ctl.conds
        /\ queued' = (queued \/ status' # status)
        /\ ctl' = Idle
        /\ UNCHANGED faults
     \/ version # ctl.read /\ Requeue /\ UNCHANGED <<status, faults>>
     \/ Fault /\ Requeue /\ UNCHANGED status
  /\ UNCHANGED <<version, harbor>>

----------------------------------------------------------------------------
Reconcile ==
  \/ Take \/ NewProvider \/ Ping \/ ListRegistries
  \/ \E r \in Registries : RegisterRegistry(r)
  \/ GetScanAllSchedule \/ SetScanAllSchedule \/ ListProjects
  \/ \E p \in Projects : OpenProject(p)
  \/ UpdateStatus

SettingTypeOK ==
  /\ version \in Versions /\ status \in Conditions /\ queued \in BOOLEAN
  /\ ctl \in Locals
  /\ registered \in [Registries -> Versions \cup {0}]
  /\ schedule \in Versions \cup {0}
  /\ project \in [Projects -> {"absent", "closed", "scanning"}]
  /\ faults \in 0 .. MaxFaults

\* What the setting asks of Harbor.
InHarbor ==
  /\ schedule = version
  /\ \A r \in Known[version] : registered[r] = version

\* The status turns healthy only when Harbor has all the registries and the
\* schedule of this very version of the setting: no failure or edit half way is
\* overlooked.
HealthyIsTrue == [][Healthy(status') /\ status' # status => InHarbor]_settingVars

=============================================================================
