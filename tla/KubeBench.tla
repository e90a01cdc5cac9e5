----------------------------- MODULE KubeBench -----------------------------
(***************************************************************************)
(* The kube-bench scanner, a pod on every node. It checks the node once,   *)
(* then watches the directories with its configuration, and checks again   *)
(* when a file is written, unless a check began less than CoolDown before. *)
(* A process that exits is started again and begins anew.                  *)
(*                                                                         *)
(* One step is one call that may fail, the checks of one target, one       *)
(* report, or one file event. What is on the node is a number that grows   *)
(* with each modification.                                                 *)
(*                                                                         *)
(* The exporter answers a report at once and forwards each in a goroutine  *)
(* of its own, so that they may reach an output in any order. What orders  *)
(* them there is the createTime they carry, which is in seconds.           *)
(***************************************************************************)
EXTENDS BenchConfig, FiniteSets

CONSTANTS
  Nodes,          \* nodes the scanner may run on
  Dirs,           \* directories with configuration
  TestFiles,      \* the targets each benchmark has a test file for
  CoolDown,       \* coolDownSeconds
  MaxEdits,       \* bound on modifications
  MaxFailures       \* bound on failing calls

\* Every benchmark has a directory. Versions are pairs of numbers, no vendor goes by
\* the name of OpenShift or of a platform's older benchmark, and every candidate for
\* a file has a name.
ASSUME KubeBenchAssumption ==
  /\ CoolDown \in Nat /\ MaxEdits \in Nat /\ MaxFailures \in Nat
  /\ DOMAIN TestFiles = DOMAIN TargetMapping
  /\ \A n \in Nodes :
       /\ n.version \in Nat \X Nat /\ n.oc \in {Empty} \cup Nat \X Nat
       /\ n.vendor \notin {"ocp", "gke-old", "ocp-3", "ocp-4"}
       /\ n.edits \in 0 .. MaxEdits
       /\ \A t \in DOMAIN n.sections : \A c \in DOMAIN n.sections[t] :
            LET confs == n.sections[t][c].confs
            IN confs \in Seq({confs[k] : k \in DOMAIN confs} \ {Nothing})

VARIABLES
  node,           \* what the scanner finds on its node
  content,        \* the configuration on the node
  since,          \* time since lastScanTime, up to CoolDown + 1
  watched,        \* directories added to the watcher
  events,         \* Write events not handled yet
  run,            \* the process: where it is, and its variables
  newest,         \* for each target, what the reports taken with the latest
                  \* createTime are about: more than one thing if they share it
  lost,           \* targets whose last report was not taken
  missed,         \* a modification no check since has been made for
  failures

benchVars == <<node, content, since, watched, events, run, newest, lost, missed, failures>>
sink == <<newest, lost>>

----------------------------------------------------------------------------
Order == <<"master", "controlplane", "etcd", "node", "policies", "managedservices">>

\* What a target's checks found: on which configuration, and in which files.
FindingOf(target) ==
  [target |-> target, seen |-> content,
   files |-> IF target \in DOMAIN node.sections
             THEN GetFiles(node.sections[target], node.exists, node.denied) ELSE Empty]

\* todo: the targets Run has not reached. controls: controlsCollection. posts: the
\* controls still to post. checked: the targets of the present check.
Down == [pc |-> "down", watching |-> FALSE, bench |-> Nothing, todo |-> <<>>,
         controls |-> <<>>, posts |-> <<>>, checked |-> {}]

RunAt(pc) == run.pc = pc
Failure == failures < MaxFailures /\ failures' = failures + 1

\* os.Exit and log.Fatal: all the process knew is gone.
Exit == run' = Down /\ watched' = {} /\ events' = 0

\* A check begins; it will see every modification made so far.
Begin(r) == run' = [r EXCEPT !.pc = "policy", !.checked = {}] /\ since' = 0 /\ missed' = FALSE

----------------------------------------------------------------------------
BenchInit ==
  /\ node \in Nodes
  /\ content = node.edits
  /\ since = 0 /\ watched = {} /\ events = 0
  /\ run = Down
  /\ newest = [t \in Targets |-> {}] /\ lost = {}
  /\ missed = FALSE /\ failures = 0

\* main: the first check comes before any directory is watched.
Start ==
  /\ RunAt("down") /\ Begin(Down)
  /\ UNCHANGED <<node, content, watched, events, sink, failures>>

GetPolicy ==
  /\ RunAt("policy")
  /\ \/ run' = [run EXCEPT !.pc = "version"] /\ UNCHANGED <<watched, events, failures>>
     \/ Failure /\ Exit
  /\ UNCHANGED <<node, content, since, sink, missed>>

\* Run: the API server may fail to answer either time it is asked.
ChooseBenchmark ==
  /\ RunAt("version")
  /\ \E rest1, rest2 \in BOOLEAN :
       LET bench == GetBenchmarkVersion(node, rest1, rest2)
       IN /\ IF rest1 /\ rest2 THEN UNCHANGED failures ELSE Failure
          /\ IF bench = Nothing THEN Exit
             ELSE /\ run' = [run EXCEPT !.pc = "check", !.bench = bench, !.todo = Order]
                  /\ UNCHANGED <<watched, events>>
  /\ UNCHANGED <<node, content, since, sink, missed>>

\* Which targets are checked: the control plane's only together with the master's.
\* A benchmark without targets is an error, which RunChecks meets.
Applies(target) ==
  LET master == IsThisNodeRunning(node.sections["master"], node.running) IN
  CASE target = "master" -> master
    [] target = "node" -> TRUE
    [] target = "controlplane" -> master /\ ValidTarget(run.bench, target) # FALSE
    [] target = "etcd" -> ValidTarget(run.bench, target) # FALSE
                          /\ IsThisNodeRunning(node.sections["etcd"], node.running)
    [] OTHER -> ValidTarget(run.bench, target) # FALSE

\* getConfigFilePath: the test file of a target, if the benchmark has it.
GetConfigFilePath(bench, target) ==
  IF bench \in DOMAIN TestFiles /\ target \in TestFiles[bench]
  THEN <<bench, target>> ELSE Nothing

LoadConfig(target) == GetConfigFilePath(run.bench, target)

\* Mutant: the controls of this check are put before those of earlier ones.
CollectInFront(target) ==
  /\ RunAt("check") /\ run.todo # <<>> /\ target = Head(run.todo)
  /\ Applies(target)
  /\ run' = [run EXCEPT !.todo = Tail(@), !.checked = @ \cup {target},
               !.controls = <<FindingOf(target)>> \o @]
  /\ UNCHANGED <<node, content, since, watched, events, sink, missed, failures>>

\* runChecks: the controls are added to those of all checks before. Without its
\* test file a target ends the process.
RunChecks(target) ==
  /\ RunAt("check") /\ run.todo # <<>> /\ target = Head(run.todo)
  /\ Applies(target)
  /\ IF LoadConfig(target) # Nothing
     THEN /\ run' = [run EXCEPT !.todo = Tail(@), !.checked = @ \cup {target},
                       !.controls = Append(@, FindingOf(target))]
          /\ UNCHANGED <<watched, events>>
     ELSE Exit
  /\ UNCHANGED <<node, content, since, sink, missed, failures>>

\* Mutant: a target that is skipped counts as checked.
CountSkipped(target) ==
  /\ RunAt("check") /\ run.todo # <<>> /\ target = Head(run.todo)
  /\ ~Applies(target)
  /\ run' = [run EXCEPT !.todo = Tail(@), !.checked = @ \cup {target}]
  /\ UNCHANGED <<node, content, since, watched, events, sink, missed, failures>>

SkipChecks(target) ==
  /\ RunAt("check") /\ run.todo # <<>> /\ target = Head(run.todo)
  /\ ~Applies(target)
  /\ run' = [run EXCEPT !.todo = Tail(@)]
  /\ UNCHANGED <<node, content, since, watched, events, sink, missed, failures>>

Checked ==
  /\ RunAt("check") /\ run.todo = <<>>
  /\ run' = [run EXCEPT !.pc = "post", !.posts = run.controls]
  /\ UNCHANGED <<node, content, since, watched, events, sink, missed, failures>>

\* The exporter takes a report made in a later second than those of its target
\* before it, or in the same one.
Taken(c) ==
  /\ newest' = [newest EXCEPT ![c.target] = {c.seen}]
     \/ newest' = [newest EXCEPT ![c.target] = @ \cup {c.seen}]
  /\ lost' = lost \ {c.target}

\* constructCISExportStruct and PostReport, whose error is ignored.
Post ==
  LET c == Head(run.posts) IN
  /\ RunAt("post") /\ run.posts # <<>>
  /\ run' = [run EXCEPT !.posts = Tail(@)]
  /\ \/ Taken(c) /\ UNCHANGED failures
     \/ Failure /\ Taken(c)
     \/ Failure /\ lost' = lost \cup {c.target} /\ UNCHANGED newest
  /\ UNCHANGED <<node, content, since, watched, events, missed>>

\* Mutant: what was modified in the meantime is taken for checked.
DrainEvents ==
  /\ RunAt("post") /\ run.posts = <<>>
  /\ run' = [run EXCEPT !.pc = "wait", !.watching = TRUE] /\ events' = 0
  /\ UNCHANGED <<node, content, since, watched, sink, missed, failures>>

\* After its first check, main starts the goroutine of the events.
Posted ==
  /\ RunAt("post") /\ run.posts = <<>>
  /\ run' = [run EXCEPT !.pc = "wait", !.watching = TRUE]
  /\ UNCHANGED <<node, content, since, watched, events, sink, missed, failures>>

\* main adds the directories, beside the goroutine.
AddWatch(d) ==
  /\ run.watching /\ d \notin watched
  /\ \/ watched' = watched \cup {d} /\ UNCHANGED <<run, events, failures>>
     \/ Failure /\ Exit
  /\ UNCHANGED <<node, content, since, sink, missed>>

\* An event during the cool-down is dropped for good.
HandleEvent ==
  /\ RunAt("wait") /\ events > 0 /\ events' = events - 1
  /\ IF since > CoolDown THEN Begin(run)
     ELSE missed' = TRUE /\ UNCHANGED <<run, since>>
  /\ UNCHANGED <<node, content, watched, sink, failures>>

----------------------------------------------------------------------------
\* Someone modifies a file of directory d. Only writing makes a Write event, and
\* only in a directory that is watched.
Edit(d) ==
  /\ content < MaxEdits /\ content' = content + 1
  /\ \/ d \in watched /\ events' = events + 1 /\ UNCHANGED missed
     \/ missed' = TRUE /\ UNCHANGED events
  /\ UNCHANGED <<node, since, watched, run, sink, failures>>

Tick ==
  /\ since <= CoolDown /\ since' = since + 1
  /\ UNCHANGED <<node, content, watched, events, run, sink, missed, failures>>

Process ==
  \/ Start \/ GetPolicy \/ ChooseBenchmark
  \/ \E t \in Targets : RunChecks(t) \/ SkipChecks(t)
  \/ Checked \/ Post \/ Posted \/ HandleEvent

BenchNext ==
  \/ Process
  \/ \E d \in Dirs : AddWatch(d) \/ Edit(d)
  \/ Tick

\* Kubernetes starts the container again; the process and the clock go on. Nobody
\* has to modify anything.
BenchSpec ==
  /\ BenchInit /\ [][BenchNext]_benchVars
  /\ WF_benchVars(Process) /\ WF_benchVars(Tick) /\ \A d \in Dirs : WF_benchVars(AddWatch(d))

----------------------------------------------------------------------------
\* What the latest control of a target is about.
Latest(t) ==
  Max({run.controls[i].seen : i \in {i \in DOMAIN run.controls : run.controls[i].target = t}})

\* A process that is gone watches nothing, and each target checked has a control.
TypeOK ==
  /\ node \in Nodes /\ content \in 0 .. MaxEdits /\ since \in 0 .. CoolDown + 1
  /\ watched \subseteq Dirs /\ events \in 0 .. MaxEdits
  /\ run.pc \in {"down", "policy", "version", "check", "post", "wait"}
  /\ watched # {} => run.watching
  /\ IsSuffix(run.todo, Order) /\ IsSuffix(run.posts, run.controls)
  /\ run.checked \subseteq {run.controls[i].target : i \in DOMAIN run.controls}
  /\ newest \in [Targets -> SUBSET (0 .. MaxEdits)] /\ lost \subseteq Targets
  /\ missed \in BOOLEAN /\ failures \in 0 .. MaxFailures

\* When all is posted, no report taken on a target has a later createTime than the
\* one of the present check, though those of all checks before were posted once
\* more. One of those may share its second; no property says that a reader could
\* tell the two apart.
NewestIsLatest ==
  RunAt("wait") => \A t \in run.checked \ lost : Latest(t) \in newest[t]

\* The benchmark of a version: the newest one not newer than it. Versions from the
\* default on do not go back behind the default.
Newest(kv) ==
  LET mapped == {v \in DOMAIN VersionMapping :
        v[1] = kv[1] /\ v[2] <= kv[2] /\ (kv[2] >= Default[2] => v[2] >= Default[2])}
  IN {VersionMapping[v] : v \in {v \in mapped : \A w \in mapped : w[2] <= v[2]}}

\* The benchmark of the node's platform, if it has one of its own.
Own ==
  IF node.oc # Empty /\ node.oc[1] = 3 /\ node.oc[2] >= 10 THEN {PlatformBench["ocp-3"]}
  ELSE IF node.oc # Empty /\ node.oc[1] = 4 /\ node.oc[2] >= 1 THEN {PlatformBench["ocp-4"]}
  ELSE IF node.vendor = "gke" /\ node.version \in {1} \X (15 .. 19) THEN {PlatformBench["gke-old"]}
  ELSE {PlatformBench[p] : p \in DOMAIN PlatformBench \cap {node.vendor}}

\* A node is checked against its platform's benchmark or the newest one not newer
\* than its version; only if the API server failed to answer, against that of the
\* default version. Whichever it is, it has targets.
BenchmarkFits ==
  run.pc \in {"check", "post", "wait"} =>
    /\ run.bench \in DOMAIN TargetMapping
    /\ run.bench \in IF failures = 0 THEN (IF Own # {} THEN Own ELSE Newest(node.version))
                     ELSE Own \cup Newest(node.version) \cup Newest(Default)

\* Checks read a file that is there, if one of the candidates is and the scanner can
\* look at those before it.
FilesExist ==
  \A i \in DOMAIN run.controls : \A c \in DOMAIN run.controls[i].files :
    LET confs == node.sections[run.controls[i].target][c].confs
    IN \/ run.controls[i].files[c] \in node.exists
       \/ \A k \in DOMAIN confs : confs[k] \in node.exists =>
            \E j \in 1 .. k : confs[j] \in node.denied

\* Whatever the versions, platforms and files of the nodes, checks are of the right
\* benchmark and read the right files.
ChecksFitNode == BenchmarkFits /\ FilesExist

\* In the end no report has a later createTime than one on the last modification:
\* no restart, and no write while a check is under way or directories are being
\* added, may leave it out. That is as much as the code does: a write before its
\* directory is watched makes no event, and the event of one during the cool-down is
\* dropped, although the user guide promises a check for any event. A check that
\* something else starts later makes up for either.
ModificationsReported ==
  <>[](missed \/ lost # {} \/ \A t \in run.checked : content \in newest[t])

=============================================================================
