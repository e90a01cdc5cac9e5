------------------------------- MODULE PkgLoad -------------------------------
(***************************************************************************)
(* The package-load scanner of one node. A schedule starts its scans: each *)
(* takes what lsof says the processes of the node have mapped, then goes   *)
(* through the pods of the selected namespaces, asks Harbor for the        *)
(* vulnerabilities of a container's image and a child process, /scanner,   *)
(* for the files of the image's packages, and reports the vulnerabilities  *)
(* whose packages have a file in use.                                      *)
(*                                                                         *)
(* Containers come and go meanwhile. One step is one call. A pod has one   *)
(* container, a container one process.                                     *)
(***************************************************************************)
EXTENDS Collector

CONSTANTS
  Namespaces, WorkNamespace, Containers, Images,
  NamespaceOf,         \* of each container
  ImageOf,             \* of each container
  Labels,              \* of each namespace, and of each container's pod
  NamespaceSelector, WorkloadSelector,
  OnNode,              \* the containers on this scanner's node
  CgroupOf,            \* the lines of the cgroup file of each container's process
  Shortened,           \* the containers whose image reference has a digest but no registry
  Found,               \* the vulnerable packages in each image's Harbor report
  Installed,           \* the packages /scanner finds in each image, in its order
  Mapped,              \* the files a container's process has mapped
  Lives,               \* bound on the starts of each container
  MaxFaults            \* bound on calls and probes that fail, and on deaths of the scanner

\* A line of a cgroup file may be the one of cpuset, and names its container to the
\* patterns of cgroup v1 or of v2.
ASSUME PkgLoadAssumption ==
  /\ WorkNamespace \in Namespaces
  /\ NamespaceOf \in [Containers -> Namespaces] /\ ImageOf \in [Containers -> Images]
  /\ OnNode \subseteq Containers /\ Containers # {}
  /\ \A i \in Images : Len(Installed[i]) \in Nat /\ DOMAIN Installed[i] = 1 .. Len(Installed[i])
  /\ \A c \in Containers : CgroupOf[c] \in Seq([cpuset : BOOLEAN, names : SUBSET {"v1", "v2"}])
  /\ Shortened \subseteq Containers
  /\ Lives \in [Containers -> Nat \ {0}] /\ MaxFaults \in Nat

VARIABLES
  running, born,       \* the containers that run, and how often each was started
  ready,               \* those of them whose status is Ready, as their probes say
  harbor,              \* Harbor: what it knows of each image
  process,             \* the scanner: down, waiting for its child, or up
  child, job,          \* /scanner, and the last job it was given
  status,              \* scanStatus
  scan,                \* the goroutine of the scan: its step and its variables
  exported,            \* what the last report the exporter took says
  alive,               \* history: the containers that ran during the present scan
  faults

cluster == <<running, born, ready, harbor>>
vars == <<cluster, process, child, job, status, scan, exported, alive, faults>>

----------------------------------------------------------------------------
\* A container that starts again gets another ID.
Ids == {id \in Containers \X UNION {1 .. Lives[c] : c \in Containers} : id[2] <= Lives[id[1]]}
Id(c) == <<c, born[c]>>
Live == {Id(c) : c \in running}

Jobs == {"none", "pending", "running", "finished", "failed"}
PCs == {"none", "namespaces", "lsof", "next", "report", "add", "poll", "result", "post"}
Vulnerabilities == UNION {Found[i] : i \in Images}

\* namespaces, todo: what the two loops have left. of: the container in hand.
\* lsof: whose files lsof listed. loaded: vulnLoaded.
Scans == [pc : PCs, namespaces : SUBSET Namespaces, lsof : SUBSET Ids, todo : SUBSET Ids,
          of : Ids, loaded : SUBSET (Ids \X Vulnerabilities)]

NoScan == [pc |-> "none", namespaces |-> {}, lsof |-> {}, todo |-> {},
           of |-> CHOOSE id \in Ids : TRUE, loaded |-> {}]

At(pc) == process = "up" /\ scan.pc = pc
Jump(pc) == scan' = [scan EXCEPT !.pc = pc]
Fault == faults < MaxFaults /\ faults' = faults + 1

\* Scan's deferred function.
Return == status' = "done" /\ scan' = NoScan /\ alive' = {}

\* A panic is nobody's to recover; with the container its child is gone, too.
Dies ==
  /\ process' = "down" /\ child' = FALSE /\ job' = "none"
  /\ status' = "" /\ scan' = NoScan /\ alive' = {}

----------------------------------------------------------------------------
Collected(selector, skips) == {n \in Namespaces : Selects(selector, Labels[n])} \ skips

ListPods(n) ==
  {c \in running : NamespaceOf[c] = n /\ Selects(WorkloadSelector, Labels[c])}

\* The containers the loop goes through: a pod of this node, a status that is Ready.
Statuses(n) == ListPods(n) \cap OnNode \cap ready

\* ParseArtifactIDFrom puts docker.io in front of a name without a registry, and
\* then cuts it at the index its @ had before.
Aid(c) == IF c \in Shortened THEN "cut" ELSE ImageOf[c]

\* getPkgFromScanReport: the first package of that name, whatever its version.
InstalledFiles(image, name) ==
  LET packages == Installed[image]
      named == {i \in DOMAIN packages : packages[i].name = name}
      first == CHOOSE i \in named : \A j \in named : i <= j
  IN IF named = {} THEN {} ELSE packages[first].files

\* getContainerFromFile: the line of cpuset or else the last one, and an empty file
\* names nobody. getContainerFromFileV2: the last line.
GetContainerFromFile(file) ==
  LET cpuset == SelectSeq(file, LAMBDA line : line.cpuset)
  IN file # <<>> /\ "v1" \in (IF cpuset # <<>> THEN cpuset[1] ELSE file[Len(file)]).names

GetContainerFromFileV2(file) == file # <<>> /\ "v2" \in file[Len(file)].names

GetContainerFromPID(c) ==
  GetContainerFromFile(CgroupOf[c]) \/ GetContainerFromFileV2(CgroupOf[c])

\* The vulnerabilities of a container with a file in use, if lsof listed it.
Loaded(id) ==
  {v \in Found[ImageOf[id[1]]] :
     /\ id \in scan.lsof
     /\ InstalledFiles(ImageOf[id[1]], v.package) \cap Mapped[id[1]] # {}}

----------------------------------------------------------------------------
Init ==
  /\ running = {} /\ ready = {} /\ born = [c \in Containers |-> 0]
  /\ harbor \in [Images -> {"absent", "unscanned", "scanned"}]
  /\ process = "down" /\ child = FALSE /\ job = "none"
  /\ status = "" /\ scan = NoScan
  /\ exported = {} /\ alive = {} /\ faults = 0

\* main: the child is started, and the scanner waits until it answers.
Main ==
  /\ process = "down"
  /\ process' = "waiting" /\ child' = TRUE
  /\ UNCHANGED <<cluster, job, status, scan, exported, alive, faults>>

\* ping: the child answers on its port. (It takes less than 30 seconds to start.)
Pinged == child

\* WaitForReady: after 30 seconds the scanner gives up.
WaitForReady ==
  /\ process = "waiting"
  /\ IF Pinged
     THEN process' = "up" /\ UNCHANGED <<child, job, status, scan, alive>>
     ELSE Dies
  /\ UNCHANGED <<cluster, exported, faults>>

\* Mutant: vulnLoaded outlives the scan.
ScanKeepingLoaded ==
  /\ process = "up" /\ status # "running"
  /\ status' = "running"
  /\ scan' = [NoScan EXCEPT !.pc = "namespaces", !.loaded = exported]
  /\ alive' = Live
  /\ UNCHANGED <<cluster, process, child, job, exported, faults>>

\* Scan, when its time has come. A scan that still runs makes it skip this one.
Scan ==
  /\ process = "up" /\ status # "running"
  /\ status' = "running" /\ scan' = [NoScan EXCEPT !.pc = "namespaces"]
  /\ alive' = Live
  /\ UNCHANGED <<cluster, process, child, job, exported, faults>>

CollectNamespaces ==
  /\ At("namespaces")
  /\ LET nsl == Collected(NamespaceSelector, {WorkNamespace}) IN
     \/ /\ IF nsl = {} THEN Return
           ELSE /\ scan' = [scan EXCEPT !.pc = "lsof", !.namespaces = nsl]
                /\ UNCHANGED <<status, alive>>
        /\ UNCHANGED faults
     \/ Fault /\ Return
  /\ UNCHANGED <<cluster, process, child, job, exported>>

\* lsofScan and the cgroups of the processes it lists; one whose cgroup cannot be
\* read has no container.
LsofScan ==
  /\ At("lsof")
  /\ LET listed == {c \in running \cap OnNode : GetContainerFromPID(c)}
         Lists(gone) == /\ scan' = [scan EXCEPT !.pc = "next", !.lsof = {Id(c) : c \in listed \ gone}]
                        /\ UNCHANGED <<status, alive>>
     IN \/ Lists({}) /\ UNCHANGED faults
        \/ Fault /\ \E c \in listed : Lists({c})
        \/ Fault /\ Return
  /\ UNCHANGED <<cluster, process, child, job, exported>>

\* An error of the list is logged: the namespace is as good as empty.
NextNamespace ==
  /\ At("next") /\ scan.todo = {}
  /\ \E n \in scan.namespaces :
       \/ /\ scan' = [scan EXCEPT !.namespaces = @ \ {n},
                                  !.todo = {Id(c) : c \in Statuses(n)}]
          /\ UNCHANGED faults
       \/ Fault /\ scan' = [scan EXCEPT !.namespaces = @ \ {n}]
  /\ UNCHANGED <<cluster, process, child, job, status, exported, alive>>

NextContainer ==
  /\ At("next")
  /\ \E id \in scan.todo :
       scan' = [scan EXCEPT !.pc = "report", !.todo = @ \ {id}, !.of = id]
  /\ UNCHANGED <<cluster, process, child, job, status, exported, alive, faults>>

\* The end of the loops; nothing loaded makes no report.
EndOfLoops ==
  /\ At("next") /\ scan.todo = {} /\ scan.namespaces = {}
  /\ IF scan.loaded = {} THEN Return ELSE Jump("post") /\ UNCHANGED <<status, alive>>
  /\ UNCHANGED <<cluster, process, child, job, exported, faults>>

----------------------------------------------------------------------------
\* FetchHarborReport. A name cut short has no project, which panics, or is one
\* Harbor does not know. An image not scanned yet has no report under
\* the key: the nil report is dereferenced.
FetchHarborReport ==
  LET aid == Aid(scan.of[1]) IN
  /\ At("report")
  /\ \/ /\ aid = "cut" /\ Dies /\ UNCHANGED faults
     \/ /\ aid # "cut" /\ harbor[aid] = "unscanned"
        /\ Dies /\ UNCHANGED faults
     \/ /\ aid # "cut" /\ harbor[aid] = "scanned"
        /\ Jump(IF Found[aid] = {} THEN "next" ELSE "add")
        /\ UNCHANGED <<process, child, job, status, alive, faults>>
     \/ /\ (IF aid = "cut" THEN TRUE ELSE harbor[aid] = "absent")
        /\ Jump("next") /\ UNCHANGED <<process, child, job, status, alive, faults>>
     \/ Fault /\ Jump("next") /\ UNCHANGED <<process, child, job, status, alive>>
  /\ UNCHANGED <<cluster, exported>>

\* ScanImage. Any error, also of a child that is gone, skips the container.
AddScanJob ==
  /\ At("add")
  /\ \/ child /\ job' = "pending" /\ Jump("poll") /\ UNCHANGED faults
     \/ ~child /\ Jump("next") /\ UNCHANGED <<job, faults>>
     \/ Fault /\ Jump("next") /\ UNCHANGED job
  /\ UNCHANGED <<cluster, process, child, status, exported, alive>>

\* Mutant: a job that is still pending is taken for one that failed.
PollOnce ==
  /\ At("poll")
  /\ Jump(IF child /\ job = "finished" THEN "result" ELSE "next")
  /\ UNCHANGED <<cluster, process, child, job, status, exported, alive, faults>>

\* The loop has no limit; a pending job is polled again at once.
GetScanJobStatus ==
  /\ At("poll")
  /\ \/ child /\ job = "finished" /\ Jump("result") /\ UNCHANGED faults
     \/ (~child \/ job = "failed") /\ Jump("next") /\ UNCHANGED faults
     \/ Fault /\ Jump("next")
  /\ UNCHANGED <<cluster, process, child, job, status, exported, alive>>

\* A status that is neither success nor error makes a nil result, which is
\* dereferenced.
GetScanJobResult ==
  /\ At("result")
  /\ \/ /\ child
        /\ scan' = [scan EXCEPT !.pc = "next",
                                !.loaded = @ \cup ({scan.of} \X Loaded(scan.of))]
        /\ UNCHANGED <<process, child, job, status, alive, faults>>
     \/ ~child /\ Jump("next") /\ UNCHANGED <<process, child, job, status, alive, faults>>
     \/ Fault /\ Jump("next") /\ UNCHANGED <<process, child, job, status, alive>>
     \/ Fault /\ Dies
  /\ UNCHANGED <<cluster, exported>>

ScanImage == AddScanJob \/ GetScanJobStatus \/ GetScanJobResult

\* ExportPkgloadReports: an error is only logged.
ExportPkgloadReports ==
  /\ At("post") /\ Return
  /\ \/ exported' = scan.loaded /\ UNCHANGED faults
     \/ Fault /\ UNCHANGED exported
  /\ UNCHANGED <<cluster, process, child, job>>

ScanStep ==
  \/ CollectNamespaces \/ LsofScan \/ NextNamespace \/ NextContainer \/ EndOfLoops
  \/ FetchHarborReport \/ ScanImage \/ ExportPkgloadReports

----------------------------------------------------------------------------
\* The child, the cluster and Harbor.
ChildWorks ==
  /\ child
  /\ \/ job = "pending" /\ job' = "running" /\ UNCHANGED faults
     \/ job = "running" /\ job' = "finished" /\ UNCHANGED faults
     \/ job = "running" /\ Fault /\ job' = "failed"
  /\ UNCHANGED <<cluster, process, child, status, scan, exported, alive>>

\* main's watcher looks at ProcessState, which only Wait would set: nobody notices.
ChildExits ==
  /\ child /\ Fault
  /\ child' = FALSE /\ job' = "none"
  /\ UNCHANGED <<cluster, process, status, scan, exported, alive>>

Killed ==
  /\ process # "down" /\ Fault /\ Dies
  /\ UNCHANGED <<cluster, exported>>

StartContainer(c) ==
  /\ c \notin running /\ born[c] < Lives[c]
  /\ running' = running \cup {c}
  /\ born' = [born EXCEPT ![c] = @ + 1]
  /\ alive' = IF status = "running" THEN alive \cup {<<c, born[c] + 1>>} ELSE alive
  /\ UNCHANGED <<ready, harbor, process, child, job, status, scan, exported, faults>>

\* Its readiness probe succeeds, or fails again.
ProbeContainer(c) ==
  /\ c \in running
  /\ \/ c \notin ready /\ ready' = ready \cup {c} /\ UNCHANGED faults
     \/ c \in ready /\ Fault /\ ready' = ready \ {c}
  /\ UNCHANGED <<running, born, harbor, process, child, job, status, scan, exported, alive>>

StopContainer(c) ==
  /\ c \in running /\ running' = running \ {c} /\ ready' = ready \ {c}
  /\ UNCHANGED <<born, harbor, process, child, job, status, scan, exported, alive, faults>>

HarborScans(i) ==
  /\ harbor[i] # "scanned"
  /\ harbor' = [harbor EXCEPT ![i] = IF @ = "absent" THEN "unscanned" ELSE "scanned"]
  /\ UNCHANGED <<running, born, ready, process, child, job, status, scan, exported, alive, faults>>

Next ==
  \/ Main \/ WaitForReady \/ Scan \/ ScanStep \/ ChildWorks \/ ChildExits \/ Killed
  \/ \E c \in Containers : StartContainer(c) \/ ProbeContainer(c) \/ StopContainer(c)
  \/ \E i \in Images : HarborScans(i)

\* Kubernetes restarts the scanner, the schedule and the goroutine go on, and so
\* does the child with its jobs while it lives.
Fairness ==
  /\ WF_vars(Main) /\ WF_vars(WaitForReady)
  /\ WF_vars(Scan) /\ WF_vars(ScanStep) /\ WF_vars(ChildWorks)

Spec == Init /\ [][Next]_vars /\ Fairness

----------------------------------------------------------------------------
\* A report speaks of containers that ran during its scan, and of packages of
\* theirs with a file in use: not of one that was gone before, nor of the one
\* that followed it, although lsof, the pods, Harbor and the child are asked at
\* different times.
NothingStaleIsReported ==
  [][exported' # exported =>
       \A entry \in exported' :
         LET c == entry[1][1] IN
         /\ entry[1] \in alive /\ c \in OnNode
         /\ \E i \in DOMAIN Installed[ImageOf[c]] :
              /\ Installed[ImageOf[c]][i].name = entry[2].package
              /\ Installed[ImageOf[c]][i].files \cap Mapped[c] # {}]_vars

\* Every scan returns, whatever failed in it, and the schedule gets to the
\* container: one that stays Ready with a vulnerable file in use is reported, while
\* the scanner and its child stay up. It is asked of the namespaces that match the
\* whole selector, as the collector's interface says; that others are scanned, too,
\* because the code drops the matchExpressions, takes nothing from them.
LoadedIsReported ==
  \A c \in Containers :
    LET image == ImageOf[c] IN
    /\ c \in OnNode \ Shortened /\ GetContainerFromPID(c)
    /\ Matches(WorkloadSelector, Labels[c])
    /\ Matches(NamespaceSelector, Labels[NamespaceOf[c]]) /\ NamespaceOf[c] # WorkNamespace
    /\ \E v \in Found[image] : InstalledFiles(image, v.package) \cap Mapped[c] # {}
    /\ <>[](c \in ready) /\ <>[](harbor[image] = "scanned")
    /\ <>[](process = "up" /\ child)
    => <>(\E entry \in exported : entry[1][1] = c)

=============================================================================
