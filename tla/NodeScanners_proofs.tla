------------------------- MODULE NodeScanners_proofs -------------------------
(***************************************************************************)
(* Proofs about the scanners of a node, PkgLoad and KubeBench, for any     *)
(* nodes, containers, images, benchmarks, files and bounds.                *)
(*                                                                         *)
(* PkgLoad: what lsof, the pods, Harbor and the child say may be of        *)
(* different moments, but all of it goes by container ID, and an ID is     *)
(* never used again: so a report can only speak of containers lsof has     *)
(* seen in its own scan.                                                   *)
(*                                                                         *)
(* KubeBench: the controls of all checks are posted in the order they were *)
(* made, so the last one posted about a target is the newest. The version  *)
(* a benchmark is chosen by is counted down, and stops at the newest one   *)
(* the configuration maps.                                                 *)
(***************************************************************************)
EXTENDS PkgLoad, KubeBench, WellFoundedInduction, TLAPS

LessThan == {pair \in Nat \X Nat : pair[1] < pair[2]}

\* The order of the naturals, as the library wants it.
LEMMA LessThanWF == IsWellFoundedOn(LessThan, Nat)
<1>1. OpToRel(<, Nat) = LessThan BY Zenon DEF OpToRel, LessThan
<1> QED BY Zenon, <1>1, NatLessThanWellFounded

\* There is a first one.
LEMMA LeastExists ==
  ASSUME NEW S \in SUBSET Nat, S # {}
  PROVE  \E i \in S : \A j \in S : i <= j
<1>1. PICK i \in S : \A j \in S : <<j, i>> \notin LessThan BY LessThanWF, WFMin
<1>2. ASSUME NEW j \in S PROVE i <= j
  <2>1. i \in Nat /\ j \in Nat /\ <<j, i>> \in Nat \X Nat OBVIOUS
  <2>2. ~(j < i) BY <1>1, <2>1 DEF LessThan
  <2> QED BY <2>1, <2>2
<1> QED BY <1>2

----------------------------------------------------------------------------
(* The package-load scanner. *)

\* What a report may say: of a container of this node that ran during the scan, that
\* a package of its image has a file in use.
Sound(entry) ==
  LET c == entry[1][1] IN
  /\ entry[1] \in alive /\ c \in OnNode
  /\ \E i \in DOMAIN Installed[ImageOf[c]] :
       /\ Installed[ImageOf[c]][i].name = entry[2].package
       /\ Installed[ImageOf[c]][i].files \cap Mapped[c] # {}

\* A container that runs has an ID of its own.
ClusterOK ==
  /\ running \subseteq Containers /\ born \in [Containers -> Nat]
  /\ \A c \in Containers : born[c] <= Lives[c] /\ (c \in running => born[c] > 0)

\* What a scan that is under way knows.
Scanning ==
  scan.pc # "none" =>
    /\ status = "running" /\ Live \subseteq alive
    /\ \A id \in scan.lsof : id \in alive /\ id[1] \in OnNode
    /\ \A entry \in scan.loaded : Sound(entry)

IInv == ClusterOK /\ scan \in Scans /\ Scanning

----------------------------------------------------------------------------
\* The files found are those of some package of that name.
LEMMA InstalledFacts ==
  ASSUME NEW image \in Images, NEW name, NEW file, file \in InstalledFiles(image, name)
  PROVE  \E i \in DOMAIN Installed[image] :
           Installed[image][i].name = name /\ file \in Installed[image][i].files
<1> DEFINE named == {i \in DOMAIN Installed[image] : Installed[image][i].name = name}
           first == CHOOSE i \in named : \A j \in named : i <= j
<1>1. Len(Installed[image]) \in Nat /\ DOMAIN Installed[image] = 1 .. Len(Installed[image])
  BY PkgLoadAssumption
<1>2. named \in SUBSET Nat BY <1>1
<1>3. named # {} /\ file \in Installed[image][first].files
  <2>1. named # {} BY DEF InstalledFiles
  <2> QED BY <2>1 DEF InstalledFiles
<1>4. first \in named
  <2> HIDE DEF named
  <2> QED BY <1>2, <1>3, LeastExists
<1> QED BY <1>3, <1>4

\* The containers that run have IDs.
LEMMA LiveIds == ASSUME ClusterOK, NEW c \in running PROVE Id(c) \in Ids
<1>1. c \in Containers /\ born[c] \in 1 .. Lives[c] /\ Lives[c] \in Nat
  BY PkgLoadAssumption DEF ClusterOK
<1>2. born[c] \in UNION {1 .. Lives[d] : d \in Containers} BY <1>1
<1> QED BY <1>1, <1>2 DEF Id, Ids

\* Some container could start.
LEMMA NoScanFacts == NoScan \in Scans /\ NoScan.pc = "none"
<1>1. PICK c \in Containers : TRUE BY PkgLoadAssumption
<1>2. Lives[c] \in Nat /\ 1 \in 1 .. Lives[c] BY PkgLoadAssumption
<1>3. 1 \in UNION {1 .. Lives[d] : d \in Containers} BY <1>2
<1>4. <<c, 1>> \in Ids BY <1>2, <1>3 DEF Ids
<1> QED BY <1>4 DEF NoScan, Scans, PCs

----------------------------------------------------------------------------
\* The scan ends, however it does.
LEMMA ScanEnds == ASSUME IInv, UNCHANGED cluster, scan' = NoScan PROVE IInv'
  BY NoScanFacts DEF IInv, ClusterOK, Scanning, cluster

\* A scan under way goes on with what it has loaded and what lsof has listed.
LEMMA ScanGoesOn ==
  ASSUME IInv, UNCHANGED <<cluster, status, alive>>, scan.pc # "none", scan' \in Scans,
         scan'.lsof = scan.lsof, scan'.loaded = scan.loaded
  PROVE  IInv'
<1>1. ClusterOK' BY DEF IInv, ClusterOK, cluster
<1>2. \A entry : Sound(entry)' <=> Sound(entry) BY DEF Sound
<1>3. Live' = Live BY DEF Live, Id, cluster
<1> QED BY <1>1, <1>2, <1>3 DEF IInv, Scanning

\* Nothing of the scan changes.
LEMMA ScanStays == ASSUME IInv, UNCHANGED <<cluster, status, alive, scan>> PROVE IInv'
<1>1. ClusterOK' BY DEF IInv, ClusterOK, cluster
<1>2. \A entry : Sound(entry)' <=> Sound(entry) BY DEF Sound
<1>3. Live' = Live BY DEF Live, Id, cluster
<1> QED BY <1>1, <1>2, <1>3 DEF IInv, Scanning

\* To another step of the scan.
LEMMA JumpFacts ==
  ASSUME IInv, UNCHANGED <<cluster, status, alive>>, scan.pc # "none",
         NEW pc \in PCs, Jump(pc)
  PROVE  IInv'
<1>1. scan \in Scans BY DEF IInv
<1>2. scan' \in Scans /\ scan'.lsof = scan.lsof /\ scan'.loaded = scan.loaded
  BY <1>1 DEF Jump, Scans
<1> QED BY <1>2, ScanGoesOn

\* Initially nothing runs.
LEMMA InitIInv == Init => IInv
<1> SUFFICES ASSUME Init PROVE IInv OBVIOUS
<1>1. running = {} /\ born = [c \in Containers |-> 0] BY DEF Init
<1>2. \A c \in Containers : Lives[c] \in Nat BY PkgLoadAssumption
<1>3. ClusterOK BY <1>1, <1>2 DEF ClusterOK
<1> QED BY <1>3, NoScanFacts DEF Init, IInv, Scanning

\* The scan starts; no container has to do with an earlier one.
LEMMA StartStep == ASSUME IInv, Scan PROVE IInv'
<1>1. ClusterOK' BY DEF IInv, ClusterOK, Scan, cluster
<1>2. scan' \in Scans /\ scan'.lsof = {} /\ scan'.loaded = {}
  <2>1. NoScan.lsof = {} /\ NoScan.loaded = {} BY DEF NoScan
  <2>2. scan' = [NoScan EXCEPT !.pc = "namespaces"] BY DEF Scan
  <2> QED BY <2>1, <2>2, NoScanFacts DEF Scans, PCs
<1>3. status' = "running" /\ Live' \subseteq alive' BY DEF Scan, Live, Id, cluster
<1> QED BY <1>1, <1>2, <1>3 DEF IInv, Scanning

\* The namespaces, lsof, and the two loops.
LEMMA LoopStep ==
  ASSUME IInv, \/ CollectNamespaces \/ LsofScan \/ NextNamespace \/ NextContainer \/ EndOfLoops
  PROVE  IInv'
<1>1. scan \in Scans /\ ClusterOK BY DEF IInv
<1>2. UNCHANGED cluster
  BY DEF CollectNamespaces, LsofScan, NextNamespace, NextContainer, EndOfLoops
<1>3. scan.pc # "none"
  BY DEF CollectNamespaces, LsofScan, NextNamespace, NextContainer, EndOfLoops, At
<1>4. ASSUME Return PROVE IInv' BY <1>2, <1>4, ScanEnds DEF Return
<1>5. CASE CollectNamespaces
  <2> DEFINE nsl == Collected(NamespaceSelector, {WorkNamespace})
  <2>1. CASE scan' = [scan EXCEPT !.pc = "lsof", !.namespaces = nsl] /\ UNCHANGED <<status, alive>>
    <3>1. nsl \subseteq Namespaces BY DEF Collected
    <3>2. scan' \in Scans /\ scan'.lsof = scan.lsof /\ scan'.loaded = scan.loaded
      <4> HIDE DEF nsl
      <4> QED BY <1>1, <2>1, <3>1 DEF Scans, PCs
    <3> QED BY <1>2, <1>3, <2>1, <3>2, ScanGoesOn
  <2> QED BY <1>4, <1>5, <2>1 DEF CollectNamespaces
<1>6. CASE LsofScan
  <2> DEFINE listed == {c \in running \cap OnNode : GetContainerFromPID(c)}
  <2>1. ASSUME NEW gone, UNCHANGED <<status, alive>>,
               scan' = [scan EXCEPT !.pc = "next", !.lsof = {Id(c) : c \in listed \ gone}]
        PROVE  IInv'
    <3> DEFINE L == {Id(c) : c \in listed \ gone}
    <3>1. \A c \in listed : c \in running /\ c \in OnNode OBVIOUS
    <3>2. \A c \in listed : Id(c) \in Ids /\ Id(c) \in Live /\ Id(c)[1] = c
      BY <1>1, <3>1, LiveIds DEF Live, Id
    <3>3. L \subseteq Ids /\ \A id \in L : id \in Live /\ id[1] \in OnNode
      BY <3>1, <3>2
    <3>4. scan' = [scan EXCEPT !.pc = "next", !.lsof = L] BY <2>1
    <3>5. scan' \in Scans /\ scan'.lsof = L /\ scan'.loaded = scan.loaded
      <4> HIDE DEF L
      <4> QED BY <1>1, <3>3, <3>4 DEF Scans, PCs
    <3>6. ClusterOK' BY <1>1, <1>2 DEF ClusterOK, cluster
    <3>7. \A entry : Sound(entry)' <=> Sound(entry) BY <2>1 DEF Sound
    <3>8. Live' = Live BY <1>2 DEF Live, Id, cluster
    <3> HIDE DEF L
    <3> QED BY <1>3, <2>1, <3>3, <3>5, <3>6, <3>7, <3>8 DEF IInv, Scanning
  <2>2. \/ Return
        \/ \E gone : scan' = [scan EXCEPT !.pc = "next", !.lsof = {Id(c) : c \in listed \ gone}]
                     /\ UNCHANGED <<status, alive>>
    BY <1>6 DEF LsofScan
  <2> QED BY <1>4, <2>1, <2>2
<1>7. CASE NextNamespace
  <2>1. UNCHANGED <<status, alive>> BY <1>7 DEF NextNamespace
  <2>2. PICK n \in scan.namespaces :
          \/ scan' = [scan EXCEPT !.namespaces = @ \ {n},
                                  !.todo = {Id(c) : c \in Statuses(n)}]
          \/ scan' = [scan EXCEPT !.namespaces = @ \ {n}]
    BY <1>7 DEF NextNamespace
  <2> DEFINE todo == {Id(c) : c \in Statuses(n)}
  <2>3. todo \subseteq Ids BY <1>1, LiveIds DEF Statuses, ListPods
  <2>4. scan' = [scan EXCEPT !.namespaces = @ \ {n}, !.todo = todo]
        \/ scan' = [scan EXCEPT !.namespaces = @ \ {n}] BY <2>2
  <2>5. scan' \in Scans /\ scan'.lsof = scan.lsof /\ scan'.loaded = scan.loaded
    <3> HIDE DEF todo
    <3> QED BY <1>1, <2>3, <2>4 DEF Scans
  <2> QED BY <1>2, <1>3, <2>1, <2>5, ScanGoesOn
<1>8. CASE NextContainer
  <2>1. UNCHANGED <<status, alive>> BY <1>8 DEF NextContainer
  <2>2. scan' \in Scans /\ scan'.lsof = scan.lsof /\ scan'.loaded = scan.loaded
    BY <1>1, <1>8 DEF NextContainer, Scans, PCs
  <2> QED BY <1>2, <1>3, <2>1, <2>2, ScanGoesOn
<1>9. CASE EndOfLoops
  BY <1>2, <1>3, <1>4, <1>9, JumpFacts DEF EndOfLoops, PCs
<1> QED BY <1>5, <1>6, <1>7, <1>8, <1>9

\* Harbor and the child: what they add is of the container in hand.
LEMMA ImageStep ==
  ASSUME IInv, FetchHarborReport \/ ScanImage
  PROVE  IInv'
<1>1. scan \in Scans /\ ClusterOK BY DEF IInv
<1>2. UNCHANGED cluster
  BY DEF FetchHarborReport, ScanImage, AddScanJob, GetScanJobStatus, GetScanJobResult
<1>3. scan.pc # "none"
  BY DEF FetchHarborReport, ScanImage, AddScanJob, GetScanJobStatus, GetScanJobResult, At
<1>4. ASSUME Dies PROVE IInv' BY <1>2, <1>4, ScanEnds DEF Dies
<1>5. ASSUME NEW pc \in PCs, Jump(pc), UNCHANGED <<status, alive>> PROVE IInv'
  BY <1>2, <1>3, <1>5, JumpFacts
<1>6. {"next", "add", "poll", "result"} \subseteq PCs BY DEF PCs
<1>7. CASE FetchHarborReport
  <2>1. \/ Dies
        \/ \E pc \in {"next", "add"} : Jump(pc) /\ UNCHANGED <<status, alive>>
    BY <1>7 DEF FetchHarborReport
  <2> QED BY <1>4, <1>5, <1>6, <2>1
<1>8. CASE AddScanJob BY <1>5, <1>6, <1>8 DEF AddScanJob
<1>9. CASE GetScanJobStatus BY <1>5, <1>6, <1>9 DEF GetScanJobStatus
<1>10. CASE GetScanJobResult
  <2> DEFINE found == {scan.of} \X Loaded(scan.of)
  <2>1. ASSUME scan' = [scan EXCEPT !.pc = "next", !.loaded = @ \cup found],
               UNCHANGED <<status, alive>>
        PROVE  IInv'
    <3>1. scan.of \in Ids /\ scan.of[1] \in Containers BY <1>1 DEF Scans, Ids
    <3>2. ImageOf[scan.of[1]] \in Images BY <3>1, PkgLoadAssumption
    <3>3. Loaded(scan.of) \subseteq Vulnerabilities BY <3>2 DEF Loaded, Vulnerabilities
    <3>4. found \subseteq Ids \X Vulnerabilities BY <3>1, <3>3
    <3>5. scan' \in Scans /\ scan'.lsof = scan.lsof /\ scan'.loaded = scan.loaded \cup found
      <4> HIDE DEF found
      <4> QED BY <1>1, <2>1, <3>4 DEF Scans, PCs
    <3>6. ASSUME NEW entry \in found PROVE Sound(entry)
      <4>1. entry[1] = scan.of /\ entry[2] \in Loaded(scan.of) BY <3>6
      <4>2. entry[1] \in scan.lsof BY <4>1 DEF Loaded
      <4>3. PICK file : /\ file \in InstalledFiles(ImageOf[entry[1][1]], entry[2].package)
                        /\ file \in Mapped[entry[1][1]]
        BY <4>1 DEF Loaded
      <4>4. \E i \in DOMAIN Installed[ImageOf[entry[1][1]]] :
              /\ Installed[ImageOf[entry[1][1]]][i].name = entry[2].package
              /\ file \in Installed[ImageOf[entry[1][1]]][i].files
        BY <3>2, <4>1, <4>3, InstalledFacts
      <4> QED BY <1>3, <4>2, <4>3, <4>4 DEF Sound, IInv, Scanning
    <3>7. ClusterOK' BY <1>1, <1>2 DEF ClusterOK, cluster
    <3>8. \A entry : Sound(entry)' <=> Sound(entry) BY <2>1 DEF Sound
    <3>9. Live' = Live BY <1>2 DEF Live, Id, cluster
    <3> HIDE DEF found
    <3> QED BY <1>3, <2>1, <3>5, <3>6, <3>7, <3>8, <3>9 DEF IInv, Scanning
  <2> QED BY <1>4, <1>5, <1>6, <1>10, <2>1 DEF GetScanJobResult
<1> QED BY <1>7, <1>8, <1>9, <1>10 DEF ScanImage

\* A container that starts has an ID that was never used, one that stops keeps it.
LEMMA ClusterStep ==
  ASSUME IInv, NEW c \in Containers, StartContainer(c) \/ StopContainer(c)
  PROVE  IInv'
<1>1. ClusterOK /\ scan \in Scans BY DEF IInv
<1>2. UNCHANGED <<status, scan>> BY DEF StartContainer, StopContainer
<1>3. Lives[c] \in Nat BY PkgLoadAssumption
<1>4. CASE StartContainer(c)
  <2>1. running' = running \cup {c} /\ born' = [born EXCEPT ![c] = @ + 1]
        /\ c \notin running /\ born[c] < Lives[c]
    BY <1>4 DEF StartContainer
  <2>2. ClusterOK' BY <1>1, <1>3, <2>1 DEF ClusterOK
  <2>3. alive \subseteq alive' BY <1>4 DEF StartContainer
  <2>4. ASSUME status = "running", Live \subseteq alive PROVE Live' \subseteq alive'
    <3>1. <<c, born[c] + 1>> \in alive' BY <1>4, <2>4 DEF StartContainer
    <3>2. ASSUME NEW d \in running' PROVE Id(d)' \in alive'
      <4>1. CASE d = c BY <1>1, <2>1, <3>1, <4>1 DEF Id, ClusterOK
      <4>2. CASE d # c
        <5>1. d \in running BY <2>1, <3>2, <4>2
        <5>2. Id(d)' = Id(d) BY <1>1, <2>1, <4>2, <5>1 DEF Id, ClusterOK
        <5> QED BY <2>3, <2>4, <5>1, <5>2 DEF Live
      <4> QED BY <4>1, <4>2
    <3> QED BY <3>2 DEF Live
  <2>5. \A entry : Sound(entry) => Sound(entry)' BY <2>3 DEF Sound
  <2> QED BY <1>1, <1>2, <2>2, <2>3, <2>4, <2>5 DEF IInv, Scanning
<1>5. CASE StopContainer(c)
  <2>1. running' = running \ {c} /\ UNCHANGED <<born, alive>> BY <1>5 DEF StopContainer
  <2>2. ClusterOK' BY <1>1, <2>1 DEF ClusterOK
  <2>3. Live' \subseteq Live BY <2>1 DEF Live, Id
  <2>4. \A entry : Sound(entry)' <=> Sound(entry) BY <2>1 DEF Sound
  <2> QED BY <1>1, <1>2, <2>1, <2>2, <2>3, <2>4 DEF IInv, Scanning
<1> QED BY <1>4, <1>5

\* Every step keeps the invariant.
LEMMA InvStep == IInv /\ [Next]_vars => IInv'
<1> SUFFICES ASSUME IInv, [Next]_vars PROVE IInv' OBVIOUS
<1>1. CASE Main BY <1>1, ScanStays DEF Main
<1>2. CASE WaitForReady
  <2>1. UNCHANGED cluster BY <1>2 DEF WaitForReady
  <2> QED BY <1>2, <2>1, ScanStays, ScanEnds DEF WaitForReady, Dies
<1>3. CASE ScanStep
  <2>1. CASE ExportPkgloadReports BY <2>1, ScanEnds DEF ExportPkgloadReports, Return
  <2> QED BY <1>3, <2>1, LoopStep, ImageStep DEF ScanStep
<1>4. CASE ChildWorks BY <1>4, ScanStays DEF ChildWorks
<1>5. CASE ChildExits BY <1>5, ScanStays DEF ChildExits
<1>6. CASE Killed BY <1>6, ScanEnds DEF Killed, Dies
<1>7. ASSUME NEW i \in Images, HarborScans(i) PROVE IInv'
  <2>1. UNCHANGED <<running, born, status, alive, scan>> BY <1>7 DEF HarborScans
  <2>2. ClusterOK' /\ Live' = Live BY <2>1 DEF IInv, ClusterOK, Live, Id
  <2>3. \A entry : Sound(entry)' <=> Sound(entry) BY <2>1 DEF Sound
  <2> QED BY <2>1, <2>2, <2>3 DEF IInv, Scanning
<1>8. ASSUME NEW c \in Containers, ProbeContainer(c) PROVE IInv'
  <2>1. UNCHANGED <<running, born, status, alive, scan>> BY <1>8 DEF ProbeContainer
  <2>2. ClusterOK' /\ Live' = Live BY <2>1 DEF IInv, ClusterOK, Live, Id
  <2>3. \A entry : Sound(entry)' <=> Sound(entry) BY <2>1 DEF Sound
  <2> QED BY <2>1, <2>2, <2>3 DEF IInv, Scanning
<1>9. CASE UNCHANGED vars BY <1>9, ScanStays DEF vars
<1> QED BY <1>1, <1>2, <1>3, <1>4, <1>5, <1>6, <1>7, <1>8, <1>9, StartStep, ClusterStep DEF Next

\* A report is what the scan has loaded, of which all is sound.
LEMMA ReportStep ==
  IInv /\ [Next]_vars => [exported' # exported => \A entry \in exported' : Sound(entry)]_vars
<1> SUFFICES ASSUME IInv, Next, exported' # exported
             PROVE  \A entry \in exported' : Sound(entry)
  BY DEF vars
<1>1. ExportPkgloadReports
  BY DEF Next, Main, WaitForReady, Scan, ScanStep, CollectNamespaces, LsofScan, NextNamespace,
         NextContainer, EndOfLoops, FetchHarborReport, ScanImage, AddScanJob, GetScanJobStatus,
         GetScanJobResult, ChildWorks, ChildExits, Killed, StartContainer, ProbeContainer, StopContainer,
         HarborScans
<1>2. exported' = scan.loaded /\ scan.pc # "none" BY <1>1 DEF ExportPkgloadReports, At
<1> QED BY <1>2 DEF IInv, Scanning

\* Whatever containers are started, stopped and replaced between lsof, the list of the
\* pods, Harbor's answer and the child's (Scan): a report names only containers of the
\* node that ran during its scan, and packages of theirs with a file in use.
THEOREM NothingStale == Spec => NothingStaleIsReported
<1>1. Init /\ [][Next]_vars => []IInv BY InitIInv, InvStep, PTL
<1>2. [exported' # exported => \A entry \in exported' : Sound(entry)]_vars
      => [exported' # exported =>
            \A entry \in exported' :
              LET c == entry[1][1] IN
              /\ entry[1] \in alive /\ c \in OnNode
              /\ \E i \in DOMAIN Installed[ImageOf[c]] :
                   /\ Installed[ImageOf[c]][i].name = entry[2].package
                   /\ Installed[ImageOf[c]][i].files \cap Mapped[c] # {}]_vars
  BY DEF Sound
<1> QED BY <1>1, <1>2, ReportStep, PTL DEF Spec, NothingStaleIsReported

----------------------------------------------------------------------------
(* The kube-bench scanner. *)

\* What a check may find on this node.
FilesOf(t) ==
  IF t \in DOMAIN node.sections THEN GetFiles(node.sections[t], node.exists, node.denied) ELSE Empty
Findings ==
  {[target |-> t, seen |-> s, files |-> FilesOf(t)] : t \in Targets, s \in 0 .. MaxEdits}

BenchPCs == {"down", "policy", "version", "check", "post", "wait"}
Runs ==
  [pc : BenchPCs, watching : BOOLEAN, bench : DOMAIN TargetMapping \cup {Nothing},
   todo : Seq(Targets), controls : Seq(Findings), posts : Seq(Findings), checked : SUBSET Targets]

\* s is what is left of t.
Rest(s, t) == Len(s) <= Len(t) /\ \A i \in 1 .. Len(s) : s[i] = t[Len(t) - Len(s) + i]

Typed ==
  /\ node \in Nodes /\ content \in 0 .. MaxEdits /\ since \in 0 .. CoolDown + 1
  /\ watched \subseteq Dirs /\ events \in 0 .. content
  /\ run \in Runs
  /\ newest \in [Targets -> SUBSET (0 .. MaxEdits)] /\ lost \subseteq Targets
  /\ missed \in BOOLEAN /\ failures \in 0 .. MaxFailures

TargetsOf(controls) == {controls[i].target : i \in 1 .. Len(controls)}

\* What belongs together in the process.
Shape(r) ==
  /\ Rest(r.todo, Order) /\ Rest(r.posts, r.controls)
  /\ r.posts # <<>> => r.pc = "post"
  /\ r.pc = "down" => ~r.watching
  /\ r.checked \subseteq TargetsOf(r.controls)

\* Later controls have seen no less.
Sorted(controls) ==
  \A i \in 1 .. Len(controls) :
    /\ controls[i].seen <= content
    /\ \A j \in 1 .. Len(controls) : i <= j => controls[i].seen <= controls[j].seen

\* Of the first n controls, the last one of each target has the latest createTime of
\* those the exporter took.
Received(controls, n) ==
  \A i \in 1 .. n :
    \/ \E j \in i + 1 .. n : controls[j].target = controls[i].target
    \/ controls[i].target \in lost
    \/ controls[i].seen \in newest[controls[i].target]

Posting ==
  run.pc \in {"post", "wait"} => Received(run.controls, Len(run.controls) - Len(run.posts))

BenchInv ==
  /\ Typed /\ Shape(run) /\ Sorted(run.controls) /\ Posting
  /\ watched # {} => run.watching

----------------------------------------------------------------------------
(* The benchmark. *)

LEMMA VersionFacts ==
  ASSUME NEW v \in Nat \X Nat
  PROVE  /\ v # Empty /\ Len(v) = 2 /\ v[1] \in Nat /\ v[2] \in Nat /\ v = <<v[1], v[2]>>
         /\ DecrementVersion(v) = IF v[2] <= 1 THEN Empty ELSE <<v[1], v[2] - 1>>
  BY DEF Empty, DecrementVersion

\* f[n] is found at n, or further down where n is in on.
CountsDown(f, N, on, found) ==
  /\ f = [n \in 0 .. N |-> f[n]]
  /\ \A n \in 0 .. N : f[n] = IF n # 0 /\ n \in on THEN f[n - 1] ELSE found[n]

\* A countdown from n that stops, or goes on with what is below, is well defined.
LEMMA Countdown ==
  ASSUME NEW N \in Nat, NEW on, NEW found
  PROVE  \E f : CountsDown(f, N, on, found)
<1> DEFINE Value(f, n) == IF n # 0 /\ n \in on THEN f[n - 1] ELSE found[n]
           UpTo(f, k) == f = [n \in 0 .. k |-> Value(f, n)]
           none == {k \in 0 .. N : ~ \E f : UpTo(f, k)}
<1>2. none = {}
  <2> SUFFICES ASSUME none # {} PROVE FALSE OBVIOUS
  <2>1. none \subseteq Nat OBVIOUS
  <2>2. PICK k \in none : \A j \in none : k <= j BY <2>1, LeastExists
  <2>3. k \in 0 .. N /\ ~ \E f : UpTo(f, k) OBVIOUS
  <2>4. CASE k = 0
    <3>1. UpTo([n \in 0 .. 0 |-> found[0]], 0) OBVIOUS
    <3> QED BY <2>3, <2>4, <3>1
  <2>5. CASE k # 0
    <3>1. k - 1 \in 0 .. N /\ ~(k <= k - 1) BY <2>3, <2>5
    <3>2. PICK f : UpTo(f, k - 1)
      <4> HIDE DEF Value, UpTo
      <4>1. k - 1 \notin none
        <5> HIDE DEF none
        <5> QED BY <2>2, <3>1
      <4> QED BY <3>1, <4>1
    <3> DEFINE g == [n \in 0 .. k |-> IF n = k THEN Value(f, k) ELSE f[n]]
    <3>3. \A n \in 0 .. k - 1 : g[n] = f[n] BY <2>3
    <3>4. ASSUME NEW n \in 0 .. k PROVE g[n] = Value(g, n)
      <4>1. CASE n = k
        <5>1. g[k] = Value(f, k) BY <2>3, <4>1
        <5>2. k - 1 \in 0 .. k - 1 BY <2>3, <2>5
        <5>3. g[k - 1] = f[k - 1] BY <3>3, <5>2
        <5> QED BY <2>5, <4>1, <5>1, <5>3
      <4>2. CASE n # k
        <5>1. n \in 0 .. k - 1 BY <2>3, <4>2
        <5>2. g[n] = f[n] BY <3>3, <5>1
        <5>3. f[n] = Value(f, n) BY <3>2, <5>1
        <5>4. n # 0 => g[n - 1] = f[n - 1] BY <2>3, <3>3, <5>1
        <5> HIDE DEF g
        <5> QED BY <5>2, <5>3, <5>4
      <4> QED BY <4>1, <4>2
    <3>5. g = [n \in 0 .. k |-> g[n]] OBVIOUS
    <3> HIDE DEF g
    <3>6. UpTo(g, k) BY <3>4, <3>5
    <3> QED BY <2>3, <3>6
  <2> QED BY <2>4, <2>5
<1>3. N \notin none BY <1>2
<1>4. N \in 0 .. N OBVIOUS
<1> HIDE DEF Value
<1>5. PICK f : UpTo(f, N) BY <1>3, <1>4
<1> USE DEF Value
<1> QED BY <1>5 DEF CountsDown

\* It stops at some m, and nowhere before.
LEMMA Stops ==
  ASSUME NEW N \in Nat, NEW on, NEW found, NEW f, CountsDown(f, N, on, found)
  PROVE  \E m \in 0 .. N : /\ f[N] = found[m] /\ (m = 0 \/ m \notin on)
                           /\ \A j \in m + 1 .. N : j \in on
<1> DEFINE Stopped(n, m) == f[n] = found[m] /\ (m = 0 \/ m \notin on) /\ \A j \in m + 1 .. n : j \in on
           bad == {n \in 0 .. N : ~ \E m \in 0 .. n : Stopped(n, m)}
<1>1. bad = {}
  <2> SUFFICES ASSUME bad # {} PROVE FALSE OBVIOUS
  <2>1. bad \subseteq Nat OBVIOUS
  <2>2. PICK n \in bad : \A j \in bad : n <= j BY <2>1, LeastExists
  <2>3. n \in 0 .. N /\ ~ \E m \in 0 .. n : Stopped(n, m) OBVIOUS
  <2>4. CASE n = 0 \/ n \notin on
    <3>1. f[n] = found[n] BY <2>3, <2>4 DEF CountsDown
    <3>2. n \in 0 .. n /\ Stopped(n, n) BY <2>3, <2>4, <3>1
    <3> QED BY <2>3, <3>2
  <2>5. CASE n # 0 /\ n \in on
    <3>1. n - 1 \in 0 .. N /\ ~(n <= n - 1) BY <2>3, <2>5
    <3>2. n - 1 \notin bad
      <4> HIDE DEF bad
      <4> QED BY <2>2, <3>1
    <3>3. PICK m \in 0 .. n - 1 : Stopped(n - 1, m) BY <3>1, <3>2
    <3>4. f[n] = f[n - 1] BY <2>3, <2>5 DEF CountsDown
    <3>5. ASSUME NEW j \in m + 1 .. n PROVE j \in on
      <4>1. j \in m + 1 .. n - 1 \/ j = n BY <2>3
      <4> QED BY <2>5, <3>3, <4>1
    <3>6. m \in 0 .. n /\ Stopped(n, m) BY <2>3, <3>3, <3>4, <3>5
    <3> QED BY <2>3, <3>6
  <2> QED BY <2>4, <2>5
<1>2. N \notin bad /\ N \in 0 .. N BY <1>1
<1> QED BY <1>2

LEMMA MapFacts ==
  ASSUME NEW kv \in Nat \X Nat
  PROVE  LET found == MapToBenchmarkVersion(kv)
         IN \/ found = Nothing
            \/ \E m \in 0 .. kv[2] :
                 /\ <<kv[1], m>> \in DOMAIN VersionMapping /\ found = VersionMapping[<<kv[1], m>>]
                 /\ \A j \in m + 1 .. kv[2] : <<kv[1], j>> \notin DOMAIN VersionMapping
                 /\ kv[1] = Default[1] /\ kv[2] >= Default[2] => m >= Default[2]
<1> DEFINE N == kv[2]
           v(n) == <<kv[1], n>>
           on == {n \in 0 .. N : v(n) \notin DOMAIN VersionMapping /\ v(n) # Default /\ n > 1}
           base == [n \in 0 .. N |-> IF v(n) \in DOMAIN VersionMapping THEN VersionMapping[v(n)]
                                     ELSE Nothing]
           Value(f, n) == IF n # 0 /\ n \in on THEN f[n - 1] ELSE base[n]
           Coded(f, n) ==
              LET w == IF kv = Empty THEN kv ELSE <<kv[1], n>>
                  older == DecrementVersion(w)
              IN IF w \in DOMAIN VersionMapping THEN VersionMapping[w]
                 ELSE IF w = Default \/ older = Empty THEN Nothing ELSE f[older[2]]
           from == CHOOSE f : f = [n \in 0 .. IF kv = Empty THEN 0 ELSE kv[2] |-> Coded(f, n)]
<1>1. N \in Nat /\ kv[1] \in Nat /\ kv # Empty BY VersionFacts
<1>2. ASSUME NEW f, NEW n \in 0 .. N PROVE Coded(f, n) = Value(f, n)
  <2>1. v(n) \in Nat \X Nat /\ v(n)[2] = n /\ v(n)[1] = kv[1] BY <1>1
  <2>2. /\ v(n) # Empty
        /\ DecrementVersion(v(n)) = IF n <= 1 THEN Empty ELSE v(n - 1)
    BY <2>1, VersionFacts
  <2>3. n > 1 => v(n - 1)[2] = n - 1 /\ v(n - 1) # Empty
    BY <1>1, VersionFacts
  <2>4. n \in on <=> (v(n) \notin DOMAIN VersionMapping /\ v(n) # Default /\ n > 1) OBVIOUS
  <2>5. base[n] = IF v(n) \in DOMAIN VersionMapping THEN VersionMapping[v(n)] ELSE Nothing OBVIOUS
  <2>6. n \in Nat BY <1>1
  <2> DEFINE w == v(n)
             older == DecrementVersion(w)
  <2>7. Coded(f, n) = IF w \in DOMAIN VersionMapping THEN VersionMapping[w]
                 ELSE IF w = Default \/ older = Empty THEN Nothing ELSE f[older[2]]
    <3> HIDE DEF older
    <3> QED BY <1>1 DEF older
  <2> HIDE DEF w, older, on, base
  <2>8. w # Empty /\ older = IF n <= 1 THEN Empty ELSE v(n - 1) BY <2>2 DEF w, older
  <2>9. /\ n \in on <=> (w \notin DOMAIN VersionMapping /\ w # Default /\ n > 1)
        /\ base[n] = IF w \in DOMAIN VersionMapping THEN VersionMapping[w] ELSE Nothing
    BY <2>4, <2>5 DEF w
  <2> HIDE DEF v, Coded
  <2>10. CASE w \in DOMAIN VersionMapping BY <2>7, <2>9, <2>10
  <2>11. CASE w \notin DOMAIN VersionMapping /\ (w = Default \/ n <= 1)
    <3>1. w = Default \/ older = Empty BY <2>8, <2>11
    <3> QED BY <2>6, <2>7, <2>9, <2>11, <3>1
  <2>12. CASE w \notin DOMAIN VersionMapping /\ w # Default /\ n > 1
    <3>1. older = v(n - 1) /\ older # Empty /\ older[2] = n - 1 BY <2>3, <2>6, <2>8, <2>12
    <3> QED BY <2>6, <2>7, <2>8, <2>9, <2>12, <3>1
  <2> QED BY <2>6, <2>10, <2>11, <2>12
<1>3. \A f : [n \in 0 .. IF kv = Empty THEN 0 ELSE kv[2] |-> Coded(f, n)]
             = [n \in 0 .. N |-> Value(f, n)]
  <2>1. (IF kv = Empty THEN 0 ELSE kv[2]) = N BY <1>1
  <2> HIDE DEF Coded, Value
  <2>2. ASSUME NEW f PROVE [n \in 0 .. N |-> Coded(f, n)] = [n \in 0 .. N |-> Value(f, n)]
    BY <1>2
  <2> QED BY <2>1, <2>2
<1>4. \E f : f = [n \in 0 .. N |-> Value(f, n)]
  <2> HIDE DEF N, on, base
  <2>1. N \in Nat BY <1>1
  <2>2. PICK f : CountsDown(f, N, on, base) BY <2>1, Countdown, Zenon
  <2> HIDE DEF Value
  <2>3. \A n \in 0 .. N : f[n] = Value(f, n) BY <2>2 DEF Value, CountsDown
  <2>4. f = [n \in 0 .. N |-> Value(f, n)] BY <2>2, <2>3 DEF CountsDown
  <2> QED BY <2>4
<1>5. from = [n \in 0 .. N |-> Value(from, n)]
  <2> HIDE DEF Coded, Value, N
  <2>1. \E f : f = [n \in 0 .. IF kv = Empty THEN 0 ELSE kv[2] |-> Coded(f, n)]
    <3>1. PICK f : f = [n \in 0 .. N |-> Value(f, n)] BY <1>4
    <3>2. f = [n \in 0 .. IF kv = Empty THEN 0 ELSE kv[2] |-> Coded(f, n)] BY <1>3, <3>1, Zenon
    <3> QED BY <3>2
  <2>2. from = [n \in 0 .. IF kv = Empty THEN 0 ELSE kv[2] |-> Coded(from, n)]
    BY <2>1, Zenon
  <2> HIDE DEF from
  <2> QED BY <1>3, <2>2, Zenon
<1>6. MapToBenchmarkVersion(kv) = from[N]
  BY <1>1 DEF MapToBenchmarkVersion
<1>7. PICK m \in 0 .. N : /\ from[N] = base[m] /\ (m = 0 \/ m \notin on)
                         /\ \A j \in m + 1 .. N : j \in on
  <2>1. CountsDown(from, N, on, base)
    <3> HIDE DEF from, N, on, base
    <3>1. \A n \in 0 .. N : from[n] = Value(from, n)
      <4> HIDE DEF Value
      <4> QED BY <1>5
    <3> HIDE DEF Value
    <3>2. from = [n \in 0 .. N |-> from[n]] BY <1>5, <3>1
    <3> USE DEF Value
    <3> QED BY <3>1, <3>2 DEF CountsDown
  <2> HIDE DEF from, N, on, base
  <2> QED BY <1>1, <2>1, Stops, Zenon
<1> HIDE DEF from
<1>8. m \in Nat /\ m <= N BY <1>1
<1>9. base[m] = IF v(m) \in DOMAIN VersionMapping THEN VersionMapping[v(m)] ELSE Nothing
  OBVIOUS
<1>10. ASSUME NEW j \in m + 1 .. N
       PROVE  v(j) \notin DOMAIN VersionMapping /\ v(j) # Default /\ j > 1
  BY <1>7
<1>11. ASSUME kv[1] = Default[1], kv[2] >= Default[2], m < Default[2] PROVE FALSE
  <2>1. Default[2] \in Nat /\ Default = <<Default[1], Default[2]>> BY BenchConfigAssumption
  <2>2. Default[2] \in m + 1 .. N BY <1>8, <1>11, <2>1
  <2>3. v(Default[2]) = Default BY <1>11, <2>1
  <2> QED BY <1>10, <2>2, <2>3
<1>12. kv[1] = Default[1] /\ kv[2] >= Default[2] => m >= Default[2]
  BY <1>8, <1>11, BenchConfigAssumption
<1> QED BY <1>6, <1>7, <1>9, <1>10, <1>12
LEMMA OcpFacts ==
  ASSUME NEW ver \in Nat \X Nat
  PROVE  LET valid == GetOcpValidVersion(ver)
         IN \/ valid \in OcpVersions /\ valid[1] = ver[1] /\ valid[2] <= ver[2]
            \/ valid = Empty /\ \A w \in OcpVersions : ~(w[1] = ver[1] /\ w[2] <= ver[2])
<1> DEFINE N == ver[2]
           v(n) == <<ver[1], n>>
           on == {n \in 0 .. N : v(n) \notin OcpVersions /\ n > 1}
           base == [n \in 0 .. N |-> IF v(n) \in OcpVersions THEN v(n) ELSE Empty]
           Value(f, n) == IF n # 0 /\ n \in on THEN f[n - 1] ELSE base[n]
           Coded(f, n) ==
              LET w == <<ver[1], n>>
                  older == DecrementVersion(w)
              IN IF w \in OcpVersions THEN w ELSE IF older = Empty THEN Empty ELSE f[older[2]]
           from == CHOOSE f : f = [n \in 0 .. ver[2] |-> Coded(f, n)]
<1>1. N \in Nat /\ ver[1] \in Nat /\ ver # Empty BY VersionFacts
<1>2. ASSUME NEW f, NEW n \in 0 .. N PROVE Coded(f, n) = Value(f, n)
  <2>1. v(n) \in Nat \X Nat /\ v(n)[2] = n /\ v(n)[1] = ver[1] BY <1>1
  <2>2. /\ v(n) # Empty
        /\ DecrementVersion(v(n)) = IF n <= 1 THEN Empty ELSE v(n - 1)
    BY <2>1, VersionFacts
  <2>3. n > 1 => v(n - 1)[2] = n - 1 /\ v(n - 1) # Empty
    BY <1>1, VersionFacts
  <2>4. n \in on <=> (v(n) \notin OcpVersions /\ n > 1) OBVIOUS
  <2>5. base[n] = IF v(n) \in OcpVersions THEN v(n) ELSE Empty OBVIOUS
  <2>6. n \in Nat BY <1>1
  <2> DEFINE w == v(n)
             older == DecrementVersion(w)
  <2>7. Coded(f, n) = IF w \in OcpVersions THEN w ELSE IF older = Empty THEN Empty ELSE f[older[2]]
    <3> HIDE DEF older
    <3> QED BY <1>1 DEF older
  <2> HIDE DEF w, older, on, base
  <2>8. w # Empty /\ older = IF n <= 1 THEN Empty ELSE v(n - 1) BY <2>2 DEF w, older
  <2>9. /\ n \in on <=> (w \notin OcpVersions /\ n > 1)
        /\ base[n] = IF w \in OcpVersions THEN w ELSE Empty
    BY <2>4, <2>5 DEF w
  <2> HIDE DEF v, Coded
  <2>10. CASE w \in OcpVersions BY <2>7, <2>9, <2>10
  <2>11. CASE w \notin OcpVersions /\ n <= 1
    <3>1. older = Empty BY <2>8, <2>11
    <3> QED BY <2>6, <2>7, <2>9, <2>11, <3>1
  <2>12. CASE w \notin OcpVersions /\ n > 1
    <3>1. older = v(n - 1) /\ older # Empty /\ older[2] = n - 1 BY <2>3, <2>6, <2>8, <2>12
    <3> QED BY <2>6, <2>7, <2>8, <2>9, <2>12, <3>1
  <2> QED BY <2>6, <2>10, <2>11, <2>12
<1>3. \A f : [n \in 0 .. ver[2] |-> Coded(f, n)]
             = [n \in 0 .. N |-> Value(f, n)]
  <2>1. (ver[2]) = N BY <1>1
  <2> HIDE DEF Coded, Value
  <2>2. ASSUME NEW f PROVE [n \in 0 .. N |-> Coded(f, n)] = [n \in 0 .. N |-> Value(f, n)]
    BY <1>2
  <2> QED BY <2>1, <2>2
<1>4. \E f : f = [n \in 0 .. N |-> Value(f, n)]
  <2> HIDE DEF N, on, base
  <2>1. N \in Nat BY <1>1
  <2>2. PICK f : CountsDown(f, N, on, base) BY <2>1, Countdown, Zenon
  <2> HIDE DEF Value
  <2>3. \A n \in 0 .. N : f[n] = Value(f, n) BY <2>2 DEF Value, CountsDown
  <2>4. f = [n \in 0 .. N |-> Value(f, n)] BY <2>2, <2>3 DEF CountsDown
  <2> QED BY <2>4
<1>5. from = [n \in 0 .. N |-> Value(from, n)]
  <2> HIDE DEF Coded, Value, N
  <2>1. \E f : f = [n \in 0 .. ver[2] |-> Coded(f, n)]
    <3>1. PICK f : f = [n \in 0 .. N |-> Value(f, n)] BY <1>4
    <3>2. f = [n \in 0 .. ver[2] |-> Coded(f, n)] BY <1>3, <3>1, Zenon
    <3> QED BY <3>2
  <2>2. from = [n \in 0 .. ver[2] |-> Coded(from, n)]
    BY <2>1, Zenon
  <2> HIDE DEF from
  <2> QED BY <1>3, <2>2, Zenon
<1>6. GetOcpValidVersion(ver) = from[N]
  BY <1>1 DEF GetOcpValidVersion
<1>7. PICK m \in 0 .. N : /\ from[N] = base[m] /\ (m = 0 \/ m \notin on)
                         /\ \A j \in m + 1 .. N : j \in on
  <2>1. CountsDown(from, N, on, base)
    <3> HIDE DEF from, N, on, base
    <3>1. \A n \in 0 .. N : from[n] = Value(from, n)
      <4> HIDE DEF Value
      <4> QED BY <1>5
    <3> HIDE DEF Value
    <3>2. from = [n \in 0 .. N |-> from[n]] BY <1>5, <3>1
    <3> USE DEF Value
    <3> QED BY <3>1, <3>2 DEF CountsDown
  <2> HIDE DEF from, N, on, base
  <2> QED BY <1>1, <2>1, Stops, Zenon
<1> HIDE DEF from
<1>8. m \in Nat /\ m <= N /\ v(m)[1] = ver[1] /\ v(m)[2] = m BY <1>1
<1>9. base[m] = IF v(m) \in OcpVersions THEN v(m) ELSE Empty OBVIOUS
<1>10. \A j \in m + 1 .. N : v(j) \notin OcpVersions /\ j > 1 BY <1>7
<1>11. v(m) \notin OcpVersions => m <= 1 BY <1>7, <1>8
<1>12. CASE v(m) \in OcpVersions BY <1>6, <1>7, <1>8, <1>9, <1>12
<1>13. CASE v(m) \notin OcpVersions
  <2>1. from[N] = Empty BY <1>7, <1>9, <1>13
  <2>2. ASSUME NEW w \in OcpVersions, w[1] = ver[1], w[2] <= ver[2] PROVE FALSE
    <3>1. w \in Nat \X Nat /\ w[2] >= 1 BY DEF OcpVersions
    <3>2. w[2] \in Nat /\ v(w[2]) = w BY <2>2, <3>1
    <3>3. w[2] \in m .. N BY <1>8, <1>11, <1>13, <2>2, <3>1, <3>2
    <3>4. w[2] = m \/ w[2] \in m + 1 .. N BY <1>8, <3>3
    <3> HIDE DEF v
    <3> QED BY <1>10, <1>13, <2>2, <3>2, <3>4
  <2> QED BY <1>6, <2>1, <2>2
<1> QED BY <1>12, <1>13

\* The benchmark found for a version is the newest one not newer.
LEMMA MapIsNewest ==
  ASSUME NEW kv \in Nat \X Nat, MapToBenchmarkVersion(kv) # Nothing
  PROVE  MapToBenchmarkVersion(kv) \in Newest(kv) \cap DOMAIN TargetMapping
<1> DEFINE mapped == {v \in DOMAIN VersionMapping :
                        v[1] = kv[1] /\ v[2] <= kv[2] /\ (kv[2] >= Default[2] => v[2] >= Default[2])}
<1>1. PICK m \in 0 .. kv[2] :
        /\ <<kv[1], m>> \in DOMAIN VersionMapping
        /\ MapToBenchmarkVersion(kv) = VersionMapping[<<kv[1], m>>]
        /\ \A j \in m + 1 .. kv[2] : <<kv[1], j>> \notin DOMAIN VersionMapping
        /\ kv[1] = Default[1] /\ kv[2] >= Default[2] => m >= Default[2]
  BY MapFacts
<1> DEFINE v == <<kv[1], m>>
<1>2. v[1] = kv[1] /\ v[2] = m /\ m <= kv[2] /\ kv[1] \in Nat /\ kv[2] \in Nat /\ m \in Nat OBVIOUS
<1>3. \A w \in DOMAIN VersionMapping :
        w[1] = Default[1] /\ w[2] \in Nat /\ w = <<w[1], w[2]>>
  BY BenchConfigAssumption
<1>4. v \in mapped BY <1>1, <1>2, <1>3
<1>5. ASSUME NEW w \in mapped PROVE w[2] <= v[2]
  <2>1. w \in DOMAIN VersionMapping /\ w[1] = kv[1] /\ w[2] <= kv[2] OBVIOUS
  <2>2. w[2] \in Nat /\ w = <<kv[1], w[2]>> BY <1>3, <2>1
  <2>3. w[2] \notin m + 1 .. kv[2] BY <1>1, <2>1, <2>2
  <2> QED BY <1>2, <2>1, <2>2, <2>3
<1>6. VersionMapping[v] \in Newest(kv)
  <2> HIDE DEF v
  <2> QED BY <1>4, <1>5 DEF Newest
<1> QED BY <1>1, <1>6, BenchConfigAssumption

\* What a node has of its own, if anything.
LEMMA OwnFacts ==
  ASSUME node \in Nodes, NEW rest \in BOOLEAN
  PROVE  LET own == GetPlatformBenchmarkVersion(GetPlatformInfo(node, rest))
         IN \/ own \in Own /\ own \in DOMAIN TargetMapping
            \/ own = Nothing /\ (rest => Own = {})
<1> DEFINE ocp == GetOpenShiftInfo(node)
           own == GetPlatformBenchmarkVersion(GetPlatformInfo(node, rest))
           kv == GetKubeVersion(node, rest)
<1> SUFFICES \/ own \in Own /\ own \in DOMAIN TargetMapping
             \/ own = Nothing /\ (rest => Own = {})
  OBVIOUS
<1>1. /\ node.version \in Nat \X Nat /\ node.oc \in {Empty} \cup Nat \X Nat
      /\ node.vendor \notin {"ocp", "gke-old", "ocp-3", "ocp-4"}
  BY KubeBenchAssumption
<1>2. /\ DOMAIN PlatformBench = {"eks", "gke", "gke-old", "aliyun", "ocp-3", "ocp-4"}
      /\ \A p \in DOMAIN PlatformBench : PlatformBench[p] \in DOMAIN TargetMapping
      /\ Nothing \notin DOMAIN TargetMapping
  BY BenchConfigAssumption
<1>3. OcpVersions = {<<3, 10>>, <<4, 1>>} BY DEF OcpVersions
<1>4. CASE ocp # Empty
  <2>1. node.oc # Empty /\ ocp = GetOcpValidVersion(node.oc) BY <1>4 DEF GetOpenShiftInfo
  <2>2. /\ node.oc \in Nat \X Nat /\ ocp \in OcpVersions
        /\ ocp[1] = node.oc[1] /\ ocp[2] <= node.oc[2]
    BY <1>1, <1>4, <2>1, OcpFacts
  <2>3. GetPlatformInfo(node, rest) = [name |-> "ocp", version |-> ocp]
    BY <1>4 DEF GetPlatformInfo
  <2> HIDE DEF ocp
  <2>4. CASE ocp = <<3, 10>>
    <3>1. own = PlatformBench["ocp-3"] BY <2>3, <2>4 DEF GetPlatformBenchmarkVersion
    <3>2. Own = {PlatformBench["ocp-3"]} BY <2>1, <2>2, <2>4 DEF Own
    <3> QED BY <1>2, <3>1, <3>2
  <2>5. CASE ocp = <<4, 1>>
    <3>1. own = PlatformBench["ocp-4"] BY <2>3, <2>5 DEF GetPlatformBenchmarkVersion
    <3>2. Own = {PlatformBench["ocp-4"]} BY <2>1, <2>2, <2>5 DEF Own
    <3> QED BY <1>2, <3>1, <3>2
  <2> QED BY <1>3, <2>2, <2>4, <2>5
<1>5. CASE ocp = Empty
  <2>1. ~(node.oc # Empty /\ node.oc[1] = 3 /\ node.oc[2] >= 10)
    BY <1>1, <1>3, <1>5, OcpFacts, VersionFacts DEF GetOpenShiftInfo
  <2>2. ~(node.oc # Empty /\ node.oc[1] = 4 /\ node.oc[2] >= 1)
    BY <1>1, <1>3, <1>5, OcpFacts, VersionFacts DEF GetOpenShiftInfo
  <2>3. Own = IF node.vendor = "gke" /\ node.version \in {1} \X (15 .. 19)
              THEN {PlatformBench["gke-old"]}
              ELSE {PlatformBench[p] : p \in DOMAIN PlatformBench \cap {node.vendor}}
    BY <2>1, <2>2 DEF Own
  <2> DEFINE named == {PlatformBench[p] : p \in DOMAIN PlatformBench \cap {node.vendor}}
  <2>6. node.vendor \in DOMAIN PlatformBench => PlatformBench[node.vendor] \in named OBVIOUS
  <2>7. node.vendor \notin DOMAIN PlatformBench => named = {} OBVIOUS
  <2> HIDE DEF named
  <2>8. Own = IF node.vendor = "gke" /\ node.version \in {1} \X (15 .. 19)
              THEN {PlatformBench["gke-old"]} ELSE named
    BY <2>3 DEF named
  <2>9. \A p \in {"eks", "gke", "gke-old", "aliyun"} : p \in DOMAIN PlatformBench BY <1>2
  <2>4. CASE kv.vendor = "none"
    <3>1. own = Nothing BY <1>5, <2>4 DEF GetPlatformInfo, GetPlatformBenchmarkVersion, Plain
    <3>2. rest => node.vendor = "none" BY <2>4 DEF GetKubeVersion, KubeVersionFromRESTAPI
    <3> QED BY <1>2, <2>7, <2>8, <3>1, <3>2
  <2>5. CASE kv.vendor # "none"
    <3>1. kv = [base |-> node.version, vendor |-> node.vendor]
      BY <2>5 DEF GetKubeVersion, KubeVersionFromRESTAPI
    <3>2. GetPlatformInfo(node, rest) = [name |-> node.vendor, version |-> node.version]
      BY <1>5, <2>5, <3>1 DEF GetPlatformInfo
    <3>3. CASE node.vendor = "gke"
      <4>1. own = PlatformBench[IF node.version \in {1} \X (15 .. 19) THEN "gke-old" ELSE "gke"]
        BY <3>2, <3>3 DEF GetPlatformBenchmarkVersion
      <4>2. own \in DOMAIN TargetMapping
        <5> HIDE DEF own
        <5> QED BY <1>2, <4>1
      <4> HIDE DEF own
      <4> QED BY <2>6, <2>8, <2>9, <3>3, <4>1, <4>2
    <3>4. CASE node.vendor \in {"eks", "aliyun"}
      <4>1. own = PlatformBench[node.vendor] BY <3>2, <3>4 DEF GetPlatformBenchmarkVersion
      <4> HIDE DEF own
      <4> QED BY <1>2, <2>6, <2>8, <2>9, <3>4, <4>1
    <3>5. CASE node.vendor \notin {"eks", "gke", "aliyun"}
      <4>1. own = Nothing BY <1>1, <3>2, <3>5 DEF GetPlatformBenchmarkVersion
      <4> HIDE DEF own
      <4>2. node.vendor \notin DOMAIN PlatformBench BY <1>1, <1>2, <3>5
      <4>3. Own = {} BY <2>7, <2>8, <3>5, <4>2
      <4> QED BY <4>1, <4>3
    <3> QED BY <3>3, <3>4, <3>5
  <2> QED BY <2>4, <2>5
<1> QED BY <1>4, <1>5

\* What a node may be checked against, and what it is when the API server answers.
Fitting(answered) ==
  IF answered THEN (IF Own # {} THEN Own ELSE Newest(node.version))
  ELSE Own \cup Newest(node.version) \cup Newest(Default)

LEMMA BenchFacts ==
  ASSUME node \in Nodes, NEW rest1 \in BOOLEAN, NEW rest2 \in BOOLEAN
  PROVE  LET bench == GetBenchmarkVersion(node, rest1, rest2)
         IN bench = Nothing \/ bench \in Fitting(rest1 /\ rest2) \cap DOMAIN TargetMapping
<1> DEFINE own == GetPlatformBenchmarkVersion(GetPlatformInfo(node, rest1))
           base == GetKubeVersion(node, rest2).base
           bench == GetBenchmarkVersion(node, rest1, rest2)
<1> SUFFICES bench = Nothing \/ bench \in Fitting(rest1 /\ rest2) \cap DOMAIN TargetMapping
  OBVIOUS
<1>1. \/ own \in Own /\ own \in DOMAIN TargetMapping
      \/ own = Nothing /\ (rest1 => Own = {})
  BY OwnFacts
<1>2. base \in {node.version, Default} /\ (rest2 => base = node.version)
  BY DEF GetKubeVersion, KubeVersionFromRESTAPI
<1>3. base \in Nat \X Nat
  <2> HIDE DEF base
  <2> QED BY <1>2, KubeBenchAssumption, BenchConfigAssumption
<1>4. bench = IF own # Nothing THEN own ELSE MapToBenchmarkVersion(base)
  BY DEF GetBenchmarkVersion
<1> HIDE DEF own, base, bench
<1>5. CASE own # Nothing BY <1>1, <1>4, <1>5 DEF Fitting
<1>6. CASE own = Nothing
  <2>1. rest1 => Own = {} BY <1>1, <1>6, BenchConfigAssumption
  <2>2. bench = Nothing \/ bench \in Newest(base) \cap DOMAIN TargetMapping
    BY <1>3, <1>4, <1>6, MapIsNewest
  <2> QED BY <1>2, <2>1, <2>2 DEF Fitting
<1> QED BY <1>5, <1>6

----------------------------------------------------------------------------
LEMMA EmptyFacts == \A S : <<>> \in Seq(S) /\ Len(<<>>) = 0
  OBVIOUS

LEMMA DownFacts ==
  /\ Down \in Runs /\ Down.pc = "down" /\ Down.watching = FALSE /\ Down.bench = Nothing
  /\ Down.todo = <<>> /\ Down.controls = <<>> /\ Down.posts = <<>> /\ Down.checked = {}
<1>1. Down.todo \in Seq(Targets) /\ Down.controls \in Seq(Findings) /\ Down.posts \in Seq(Findings)
  BY EmptyFacts DEF Down
<1> QED BY <1>1 DEF Down, Runs, BenchPCs

\* A process without controls.
LEMMA FreshShape ==
  ASSUME NEW r, r.todo = <<>>, r.controls = <<>>, r.posts = <<>>, r.checked = {}
  PROVE  /\ Rest(r.todo, Order) /\ Rest(r.posts, r.controls)
         /\ r.checked \subseteq TargetsOf(r.controls) /\ Sorted(r.controls)
<1>1. Len(<<>>) = 0 /\ Len(Order) = 6 BY DEF Order
<1> QED BY <1>1 DEF Rest, TargetsOf, Sorted

LEMMA BenchInvInit == BenchInit => BenchInv
<1> SUFFICES ASSUME BenchInit PROVE BenchInv OBVIOUS
<1>1. run = Down /\ watched = {} BY DEF BenchInit
<1>2. Typed
  <2>1. node.edits \in 0 .. MaxEdits /\ MaxEdits \in Nat /\ MaxFailures \in Nat /\ CoolDown \in Nat
    BY KubeBenchAssumption DEF BenchInit
  <2>2. content \in 0 .. MaxEdits /\ 0 \in 0 .. content BY <2>1 DEF BenchInit
  <2>3. since \in 0 .. CoolDown + 1 /\ failures \in 0 .. MaxFailures BY <2>1 DEF BenchInit
  <2>4. newest \in [Targets -> SUBSET (0 .. MaxEdits)] BY DEF BenchInit
  <2>5. run \in Runs BY <1>1, DownFacts
  <2> QED BY <2>2, <2>3, <2>4, <2>5 DEF BenchInit, Typed
<1>3. Shape(run) /\ Sorted(run.controls) BY <1>1, DownFacts, FreshShape DEF Shape
<1> QED BY <1>1, <1>2, <1>3, DownFacts DEF BenchInv, Posting

\* os.Exit leaves a fresh process.
LEMMA ExitStep ==
  ASSUME BenchInv, Exit, UNCHANGED <<node, content, since, sink, missed>>, failures' \in 0 .. MaxFailures
  PROVE  BenchInv'
<1>1. run' = Down /\ watched' = {} /\ events' = 0 BY DEF Exit
<1>2. Findings' = Findings BY DEF Findings, FilesOf
<1>3. Typed'
  <2>1. 0 \in 0 .. content' BY DEF BenchInv, Typed
  <2>2. run' \in Runs' BY <1>1, <1>2, DownFacts DEF Runs
  <2> QED BY <1>1, <2>1, <2>2 DEF BenchInv, Typed, sink
<1>4. Shape(run)' /\ Sorted(run.controls)'
  <2>1. run'.todo = <<>> /\ run'.controls = <<>> /\ run'.posts = <<>> /\ run'.checked = {}
    BY <1>1, DownFacts
  <2>2. Len(<<>>) = 0 /\ Len(Order) = 6 BY DEF Order
  <2> QED BY <1>1, <2>1, <2>2, DownFacts DEF Shape, Sorted, Rest, TargetsOf
<1> QED BY <1>1, <1>3, <1>4, DownFacts DEF BenchInv, Posting

\* The process goes on with the controls it has.
LEMMA GoesOn ==
  ASSUME BenchInv, UNCHANGED <<node, content, sink>>, run' \in Runs,
         run'.controls = run.controls, run'.watching = run.watching \/ run'.watching = TRUE,
         run'.pc # "down", run'.pc \notin {"post", "wait"}, run'.posts = <<>>,
         Rest(run'.todo, Order), run'.checked \subseteq TargetsOf(run.controls),
         since' \in 0 .. CoolDown + 1, missed' \in BOOLEAN, failures' \in 0 .. MaxFailures,
         watched' = watched, events' \in 0 .. content
  PROVE  BenchInv'
<1>1. Findings' = Findings BY DEF Findings, FilesOf
<1>2. Typed' BY <1>1 DEF BenchInv, Typed, sink, Runs
<1>3. Shape(run)'
  <2>1. Rest(run'.posts, run'.controls)
    <3>1. Len(<<>>) = 0 /\ Len(run.controls) \in Nat BY DEF BenchInv, Typed, Runs
    <3> QED BY <3>1 DEF Rest
  <2> QED BY <2>1 DEF Shape, Rest, TargetsOf
<1>4. Sorted(run.controls)' BY DEF BenchInv, Sorted
<1> QED BY <1>2, <1>3, <1>4 DEF BenchInv, Posting

\* What is left of a sequence after its first element is left of it too.
LEMMA TailFacts ==
  ASSUME NEW S, NEW q \in Seq(S), q # <<>>
  PROVE  /\ Head(q) = q[1] /\ Head(q) \in S /\ Tail(q) \in Seq(S) /\ Len(q) \in Nat /\ Len(q) > 0
         /\ Len(Tail(q)) = Len(q) - 1 /\ \A i \in 1 .. Len(q) - 1 : Tail(q)[i] = q[i + 1]
  OBVIOUS

LEMMA RestOfTail ==
  ASSUME NEW S, NEW q \in Seq(S), q # <<>>, NEW T, NEW t \in Seq(T), Rest(q, t)
  PROVE  Rest(Tail(q), t)
<1>1. Len(t) \in Nat OBVIOUS
<1> DEFINE u == Tail(q)
<1>2. /\ Len(q) \in Nat /\ Len(q) > 0 /\ Len(u) = Len(q) - 1
      /\ \A i \in 1 .. Len(q) - 1 : u[i] = q[i + 1]
  BY TailFacts
<1> HIDE DEF u
<1>3. Len(q) <= Len(t) /\ \A i \in 1 .. Len(q) : q[i] = t[Len(t) - Len(q) + i] BY DEF Rest
<1>4. ASSUME NEW i \in 1 .. Len(u) PROVE u[i] = t[Len(t) - Len(u) + i]
  <2>1. i + 1 \in 1 .. Len(q) /\ Len(t) - Len(q) + (i + 1) = Len(t) - Len(u) + i
    BY <1>1, <1>2
  <2> QED BY <1>2, <1>3, <2>1
<1>5. Len(u) <= Len(t) BY <1>1, <1>2, <1>3
<1>6. Rest(u, t) BY <1>4, <1>5 DEF Rest
<1> QED BY <1>6 DEF u

LEMMA OrderFacts == Order \in Seq(Targets) /\ Len(Order) = 6 BY DEF Order, Targets

LEMMA FindingFacts ==
  ASSUME NEW f \in Findings
  PROVE  f.target \in Targets /\ f.seen \in 0 .. MaxEdits /\ f.files = FilesOf(f.target)
  BY DEF Findings

\* What IInv says of the process.
LEMMA RunFacts ==
  ASSUME BenchInv
  PROVE  /\ run.pc \in BenchPCs /\ run.watching \in BOOLEAN
         /\ run.bench \in DOMAIN TargetMapping \cup {Nothing}
         /\ run.todo \in Seq(Targets) /\ run.controls \in Seq(Findings)
         /\ run.posts \in Seq(Findings) /\ run.checked \subseteq Targets
         /\ Len(run.controls) \in Nat /\ Len(run.posts) \in Nat
  BY DEF BenchInv, Typed, Runs

LEMMA FailureFacts ==
  ASSUME BenchInv
  PROVE  failures \in 0 .. MaxFailures /\ (Failure => failures' \in 0 .. MaxFailures)
<1>1. MaxFailures \in Nat /\ failures \in 0 .. MaxFailures BY KubeBenchAssumption DEF BenchInv, Typed
<1> QED BY <1>1 DEF Failure

LEMMA FirstCheckStep == ASSUME BenchInv, Start PROVE BenchInv'
<1>1. /\ run' = [Down EXCEPT !.pc = "policy", !.checked = {}] /\ since' = 0 /\ missed' = FALSE
      /\ UNCHANGED <<node, content, watched, events, sink, failures>> /\ run.pc = "down"
  BY DEF Start, Begin, RunAt
<1>2. /\ run' \in Runs /\ run'.pc = "policy" /\ run'.watching = FALSE /\ run'.todo = <<>>
      /\ run'.controls = <<>> /\ run'.posts = <<>> /\ run'.checked = {}
  BY <1>1, DownFacts DEF Runs, BenchPCs
<1>3. Findings' = Findings BY <1>1 DEF Findings, FilesOf
<1>4. Typed'
  <2>1. run' \in Runs' BY <1>2, <1>3 DEF Runs
  <2>2. 0 \in 0 .. CoolDown + 1 BY KubeBenchAssumption
  <2> QED BY <1>1, <2>1, <2>2 DEF BenchInv, Typed, sink
<1>5. Shape(run)' /\ Sorted(run.controls)'
  <2>1. Len(<<>>) = 0 /\ Len(Order) = 6 BY DEF Order
  <2> QED BY <1>2, <2>1 DEF Shape, Sorted, Rest, TargetsOf
<1>6. watched' = {} BY <1>1 DEF BenchInv, Shape
<1> QED BY <1>2, <1>4, <1>5, <1>6 DEF BenchInv, Posting

LEMMA GetPolicyStep == ASSUME BenchInv, GetPolicy PROVE BenchInv'
<1>1. CASE run' = [run EXCEPT !.pc = "version"] /\ UNCHANGED <<watched, events, failures>>
  <2>1. UNCHANGED <<node, content, since, sink, missed>> /\ run.pc = "policy" BY DEF GetPolicy, RunAt
  <2>2. run \in Runs /\ run.posts = <<>> /\ Shape(run) BY <2>1 DEF BenchInv, Typed, Shape
  <2>3. /\ run' \in Runs /\ run'.pc = "version" /\ run'.posts = <<>> /\ run'.todo = run.todo
        /\ run'.controls = run.controls /\ run'.watching = run.watching /\ run'.checked = run.checked
    BY <1>1, <2>2 DEF Runs, BenchPCs
  <2>4. /\ since' \in 0 .. CoolDown + 1 /\ missed' \in BOOLEAN /\ failures' \in 0 .. MaxFailures
        /\ watched' = watched /\ events' \in 0 .. content
    BY <1>1, <2>1 DEF BenchInv, Typed
  <2>5. Rest(run'.todo, Order) /\ run'.checked \subseteq TargetsOf(run.controls)
    BY <2>2, <2>3 DEF Shape
  <2> QED BY <2>1, <2>3, <2>4, <2>5, GoesOn
<1>2. CASE Failure /\ Exit
  BY <1>2, ExitStep, FailureFacts DEF GetPolicy
<1> QED BY <1>1, <1>2 DEF GetPolicy

LEMMA ChooseBenchmarkStep == ASSUME BenchInv, ChooseBenchmark PROVE BenchInv'
<1>1. UNCHANGED <<node, content, since, sink, missed>> /\ run.pc = "version" /\ run \in Runs
  BY DEF ChooseBenchmark, RunAt, BenchInv, Typed
<1>2. PICK rest1 \in BOOLEAN, rest2 \in BOOLEAN :
        LET bench == GetBenchmarkVersion(node, rest1, rest2)
        IN /\ IF rest1 /\ rest2 THEN UNCHANGED failures ELSE Failure
           /\ IF bench = Nothing THEN Exit
              ELSE /\ run' = [run EXCEPT !.pc = "check", !.bench = bench, !.todo = Order]
                   /\ UNCHANGED <<watched, events>>
  BY DEF ChooseBenchmark
<1>3. failures' \in 0 .. MaxFailures BY <1>2, FailureFacts
<1> DEFINE bench == GetBenchmarkVersion(node, rest1, rest2)
<1>4. CASE bench = Nothing BY <1>1, <1>2, <1>3, <1>4, ExitStep
<1>5. CASE bench # Nothing
  <2>1. bench \in DOMAIN TargetMapping
    <3>1. node \in Nodes BY DEF BenchInv, Typed
    <3> QED BY <1>5, <3>1, BenchFacts
  <2>2. run' = [run EXCEPT !.pc = "check", !.bench = bench, !.todo = Order]
        /\ UNCHANGED <<watched, events>>
    BY <1>2, <1>5
  <2> HIDE DEF bench
  <2>3. run.posts = <<>> BY <1>1 DEF BenchInv, Shape
  <2>4. /\ run' \in Runs /\ run'.pc = "check" /\ run'.posts = <<>> /\ run'.todo = Order
        /\ run'.controls = run.controls /\ run'.watching = run.watching /\ run'.checked = run.checked
    BY <1>1, <2>1, <2>2, <2>3, OrderFacts DEF Runs, BenchPCs
  <2>5. Rest(run'.todo, Order) BY <2>4, OrderFacts DEF Rest
  <2>6. /\ since' \in 0 .. CoolDown + 1 /\ missed' \in BOOLEAN
        /\ watched' = watched /\ events' \in 0 .. content
    BY <1>1, <2>2 DEF BenchInv, Typed
  <2>7. run'.checked \subseteq TargetsOf(run.controls) BY <2>4 DEF BenchInv, Shape
  <2> QED BY <1>1, <1>3, <2>4, <2>5, <2>6, <2>7, GoesOn
<1> QED BY <1>4, <1>5

\* A target's checks add a control, which has seen what is there now.
LEMMA RunChecksStep ==
  ASSUME BenchInv, NEW t \in Targets, RunChecks(t)
  PROVE  BenchInv'
<1>1. /\ UNCHANGED <<node, content, since, sink, missed, failures>> /\ run.pc = "check"
      /\ run \in Runs /\ run.todo # <<>> /\ t = Head(run.todo)
  BY DEF RunChecks, RunAt, BenchInv, Typed
<1>2. CASE Exit BY <1>1, <1>2, ExitStep, FailureFacts
<1>3. CASE /\ run' = [run EXCEPT !.todo = Tail(@), !.checked = @ \cup {t},
                        !.controls = Append(@, FindingOf(t))]
           /\ UNCHANGED <<watched, events>>
  <2> DEFINE f == FindingOf(t)
             n == Len(run.controls)
  <2>1. f \in Findings /\ f.target = t /\ f.seen = content
    <3>1. content \in 0 .. MaxEdits BY DEF BenchInv, Typed
    <3>2. f = [target |-> t, seen |-> content, files |-> FilesOf(t)] BY DEF FindingOf, FilesOf
    <3> HIDE DEF f
    <3> QED BY <3>1, <3>2 DEF Findings
  <2> HIDE DEF f
  <2>2. run.posts = <<>> BY <1>1 DEF BenchInv, Shape
  <2>3. /\ run' = [run EXCEPT !.todo = Tail(run.todo), !.checked = run.checked \cup {t},
                     !.controls = Append(run.controls, f)]
        /\ Tail(run.todo) \in Seq(Targets) /\ Append(run.controls, f) \in Seq(Findings)
        /\ run.checked \cup {t} \in SUBSET Targets
    BY <1>1, <1>3, <2>1, TailFacts DEF f, Runs
  <2>4. /\ run' \in Runs /\ run'.pc = "check" /\ run'.posts = <<>> /\ run'.todo = Tail(run.todo)
        /\ run'.controls = Append(run.controls, f) /\ run'.watching = run.watching
        /\ run'.checked = run.checked \cup {t}
    BY <1>1, <2>2, <2>3 DEF Runs, BenchPCs
  <2>5. /\ n \in Nat /\ Len(run'.controls) = n + 1 /\ run'.controls[n + 1] = f
        /\ \A i \in 1 .. n : run'.controls[i] = run.controls[i]
    BY <2>1, <2>4, RunFacts
  <2>6. Findings' = Findings BY <1>1 DEF Findings, FilesOf
  <2>7. Typed' BY <1>1, <1>3, <2>4, <2>6 DEF BenchInv, Typed, Runs, sink
  <2> HIDE DEF n
  <2>8. \A i \in 1 .. n + 1 : i \in 1 .. n \/ i = n + 1 BY <2>5
  <2>9. Rest(run'.todo, Order)
    BY <1>1, <2>4, OrderFacts, RunFacts, RestOfTail DEF BenchInv, Shape
  <2>10. Rest(run'.posts, run'.controls) BY <2>4, <2>5, EmptyFacts DEF Rest
  <2>11. run'.checked \subseteq TargetsOf(run'.controls)
    <3>1. run.checked \subseteq {run.controls[i].target : i \in 1 .. n}
      BY DEF BenchInv, Shape, TargetsOf, n
    <3>2. ASSUME NEW i \in 1 .. n
          PROVE  run.controls[i].target \in TargetsOf(run'.controls)
      BY <2>5 DEF TargetsOf
    <3>3. t \in TargetsOf(run'.controls)
      <4>1. n + 1 \in 1 .. Len(run'.controls) BY <2>5
      <4> QED BY <2>1, <2>5, <4>1 DEF TargetsOf
    <3> QED BY <2>4, <3>1, <3>2, <3>3
  <2>12. Sorted(run.controls)'
    <3>1. \A i \in 1 .. n : /\ run.controls[i].seen <= content
                            /\ \A j \in 1 .. n : i <= j => run.controls[i].seen <= run.controls[j].seen
      BY DEF BenchInv, Sorted, n
    <3>2. content \in Nat /\ content' = content BY <1>1, KubeBenchAssumption DEF BenchInv, Typed
    <3>3. \A i \in 1 .. n + 1 : /\ run'.controls[i].seen <= content
                                /\ \A j \in 1 .. n + 1 : i <= j =>
                                     run'.controls[i].seen <= run'.controls[j].seen
      <4>1. TAKE i \in 1 .. n + 1
      <4>2. run'.controls[i].seen <= content BY <2>1, <2>5, <2>8, <3>1, <3>2
      <4>3. ASSUME NEW j \in 1 .. n + 1, i <= j
            PROVE  run'.controls[i].seen <= run'.controls[j].seen
        <5>1. CASE j = n + 1 BY <2>1, <2>5, <4>2, <5>1
        <5>2. CASE j \in 1 .. n
          <6>1. i \in 1 .. n BY <2>5, <4>3, <5>2
          <6> QED BY <2>5, <3>1, <4>3, <5>2, <6>1
        <5> QED BY <2>8, <5>1, <5>2
      <4> QED BY <4>2, <4>3
    <3> QED BY <2>5, <3>2, <3>3 DEF Sorted
  <2> QED BY <1>1, <1>3, <2>4, <2>7, <2>9, <2>10, <2>11, <2>12 DEF BenchInv, Shape, Posting
<1> QED BY <1>2, <1>3 DEF RunChecks

LEMMA SkipChecksStep ==
  ASSUME BenchInv, NEW t \in Targets, SkipChecks(t)
  PROVE  BenchInv'
<1>1. /\ UNCHANGED <<node, content, since, watched, events, sink, missed, failures>>
      /\ run.pc = "check" /\ run \in Runs /\ run.todo # <<>>
      /\ run' = [run EXCEPT !.todo = Tail(run.todo)]
  BY DEF SkipChecks, RunAt, BenchInv, Typed
<1>2. run.posts = <<>> /\ Rest(run.todo, Order) /\ run.checked \subseteq TargetsOf(run.controls)
  BY <1>1 DEF BenchInv, Shape
<1>3. Tail(run.todo) \in Seq(Targets) /\ Rest(Tail(run.todo), Order)
  BY <1>1, <1>2, OrderFacts, RunFacts, TailFacts, RestOfTail
<1>4. /\ run' \in Runs /\ run'.pc = "check" /\ run'.posts = <<>> /\ run'.todo = Tail(run.todo)
      /\ run'.controls = run.controls /\ run'.watching = run.watching /\ run'.checked = run.checked
  BY <1>1, <1>2, <1>3 DEF Runs, BenchPCs
<1>5. /\ since' \in 0 .. CoolDown + 1 /\ missed' \in BOOLEAN /\ failures' \in 0 .. MaxFailures
      /\ watched' = watched /\ events' \in 0 .. content
  BY <1>1 DEF BenchInv, Typed
<1> QED BY <1>1, <1>2, <1>3, <1>4, <1>5, GoesOn

\* All of a sequence is left of it.
LEMMA RestOfAll == ASSUME NEW S, NEW q \in Seq(S) PROVE Rest(q, q)
<1>1. Len(q) \in Nat OBVIOUS
<1>2. ASSUME NEW i \in 1 .. Len(q) PROVE q[i] = q[Len(q) - Len(q) + i]
  <2>1. Len(q) - Len(q) + i = i BY <1>1
  <2> QED BY <2>1
<1> QED BY <1>1, <1>2 DEF Rest

\* A step that keeps the controls of a process that goes on keeps the rest.
LEMMA Keeps ==
  ASSUME BenchInv, UNCHANGED <<node, content>>, run' \in Runs, run'.controls = run.controls,
         run'.todo = run.todo, run'.checked = run.checked, Rest(run'.posts, run'.controls),
         run'.posts # <<>> => run'.pc = "post", run'.pc # "down",
         Received(run.controls, Len(run.controls) - Len(run.posts))',
         newest' \in [Targets -> SUBSET (0 .. MaxEdits)], lost' \subseteq Targets,
         since' \in 0 .. CoolDown + 1, missed' \in BOOLEAN, failures' \in 0 .. MaxFailures,
         watched' \subseteq Dirs, watched' # {} => run'.watching, events' \in 0 .. content
  PROVE  BenchInv'
<1>1. Findings' = Findings BY DEF Findings, FilesOf
<1>2. Typed' BY <1>1 DEF BenchInv, Typed, Runs
<1>3. Shape(run)'
  <2>1. Rest(run'.todo, Order) /\ run'.checked \subseteq TargetsOf(run'.controls) BY DEF BenchInv, Shape
  <2> QED BY <2>1 DEF Shape, Rest, TargetsOf
<1>4. Sorted(run.controls)' BY DEF BenchInv, Sorted
<1>5. Posting' BY DEF Posting
<1> QED BY <1>2, <1>3, <1>4, <1>5 DEF BenchInv

LEMMA CheckedStep == ASSUME BenchInv, Checked PROVE BenchInv'
<1>1. /\ UNCHANGED <<node, content, since, watched, events, sink, missed, failures>>
      /\ run.pc = "check" /\ run \in Runs
      /\ run' = [run EXCEPT !.pc = "post", !.posts = run.controls]
  BY DEF Checked, RunAt, BenchInv, Typed
<1>2. /\ run' \in Runs /\ run'.pc = "post" /\ run'.posts = run.controls /\ run'.todo = run.todo
      /\ run'.controls = run.controls /\ run'.watching = run.watching /\ run'.checked = run.checked
  BY <1>1 DEF Runs, BenchPCs
<1>3. Rest(run'.posts, run'.controls) BY <1>2, RunFacts, RestOfAll
<1>4. Received(run.controls, Len(run.controls) - Len(run.posts))'
  <2>1. Len(run'.controls) - Len(run'.posts) = 0 BY <1>2, RunFacts
  <2> QED BY <2>1 DEF Received
<1> QED BY <1>1, <1>2, <1>3, <1>4, Keeps DEF BenchInv, Typed, sink

\* The report that is posted is about the next control.
LEMMA PostStep == ASSUME BenchInv, Post PROVE BenchInv'
<1> DEFINE c == Head(run.posts)
           n == Len(run.controls) - Len(run.posts)
<1>1. /\ UNCHANGED <<node, content, since, watched, events, missed>>
      /\ run.pc = "post" /\ run \in Runs /\ run.posts # <<>>
      /\ run' = [run EXCEPT !.posts = Tail(run.posts)]
  BY DEF Post, RunAt, BenchInv, Typed
<1>2. /\ Taken(c) \/ (lost' = lost \cup {c.target} /\ UNCHANGED newest)
      /\ Failure \/ UNCHANGED failures
  BY DEF Post
<1>3. /\ Tail(run.posts) \in Seq(Findings) /\ Len(Tail(run.posts)) = Len(run.posts) - 1
      /\ c = run.posts[1] /\ c \in Findings /\ Len(run.posts) > 0
      /\ Len(run.posts) \in Nat /\ Len(run.controls) \in Nat
  BY <1>1, RunFacts, TailFacts
<1> HIDE DEF c
<1>4. /\ run' \in Runs /\ run'.pc = "post" /\ run'.posts = Tail(run.posts) /\ run'.todo = run.todo
      /\ run'.controls = run.controls /\ run'.watching = run.watching /\ run'.checked = run.checked
  BY <1>1, <1>3 DEF Runs, BenchPCs
<1>5. Rest(run.posts, run.controls) BY DEF BenchInv, Shape
<1>6. Rest(run'.posts, run'.controls) BY <1>1, <1>4, <1>5, RunFacts, RestOfTail
<1>7. n \in Nat /\ c = run.controls[n + 1] /\ Len(run'.controls) - Len(run'.posts) = n + 1
  <2> DEFINE a == Len(run.posts)
             b == Len(run.controls)
  <2>1. a <= b /\ run.posts[1] = run.controls[b - a + 1]
    <3>1. 1 \in 1 .. Len(run.posts) BY <1>3
    <3> QED BY <1>5, <3>1 DEF Rest
  <2>2. a \in Nat /\ b \in Nat /\ Len(run'.controls) = b /\ Len(run'.posts) = a - 1
    BY <1>3, <1>4
  <2> HIDE DEF a, b
  <2>3. b - a \in Nat /\ b - (a - 1) = b - a + 1 BY <2>1, <2>2
  <2> QED BY <1>3, <2>1, <2>2, <2>3 DEF a, b
<1>8. Received(run.controls, n) BY <1>1 DEF BenchInv, Posting
<1> HIDE DEF n
<1>9. c.target \in Targets /\ c.seen \in 0 .. MaxEdits BY <1>3, FindingFacts
<1>10. newest \in [Targets -> SUBSET (0 .. MaxEdits)] /\ lost \subseteq Targets
  BY DEF BenchInv, Typed
<1>11. /\ newest' \in [Targets -> SUBSET (0 .. MaxEdits)] /\ lost' \subseteq Targets
       /\ \A t \in Targets \ {c.target} : newest'[t] = newest[t] /\ (t \in lost => t \in lost')
       /\ c.target \in lost' \/ c.seen \in newest'[c.target]
  <2>1. CASE Taken(c)
    <3>1. newest[c.target] \cup {c.seen} \in SUBSET (0 .. MaxEdits) BY <1>9, <1>10
    <3> QED BY <1>9, <1>10, <2>1, <3>1 DEF Taken
  <2>2. CASE lost' = lost \cup {c.target} /\ newest' = newest BY <1>9, <1>10, <2>2
  <2> QED BY <1>2, <2>1, <2>2
<1>12. ASSUME NEW i \in 1 .. n + 1
       PROVE  \/ \E j \in i + 1 .. n + 1 : run.controls[j].target = run.controls[i].target
              \/ run.controls[i].target \in lost'
              \/ run.controls[i].seen \in newest'[run.controls[i].target]
  <2>1. CASE i = n + 1 BY <1>7, <1>11, <2>1
  <2>2. CASE i \in 1 .. n
    <3> DEFINE t == run.controls[i].target
    <3>1. t \in Targets
      <4>1. i \in 1 .. Len(run.controls) BY <1>3, <2>2 DEF n
      <4>2. run.controls[i] \in Findings BY <4>1, RunFacts
      <4> QED BY <4>2, FindingFacts
    <3>2. CASE t = c.target
      <4>1. n + 1 \in i + 1 .. n + 1 BY <1>7, <2>2
      <4> QED BY <1>7, <3>2, <4>1
    <3>3. CASE t # c.target
      <4>1. \/ \E j \in i + 1 .. n : run.controls[j].target = t
            \/ t \in lost \/ run.controls[i].seen \in newest[t]
        BY <1>8, <2>2 DEF Received
      <4>2. \A j \in i + 1 .. n : j \in i + 1 .. n + 1 BY <1>7, <2>2
      <4>3. newest'[t] = newest[t] /\ (t \in lost => t \in lost') BY <1>11, <3>1, <3>3
      <4> QED BY <4>1, <4>2, <4>3
    <3> QED BY <3>2, <3>3
  <2> QED BY <1>7, <2>1, <2>2
<1>13. Received(run.controls, Len(run.controls) - Len(run.posts))'
  <2>1. Len(run'.controls) - Len(run'.posts) = n + 1 BY <1>7
  <2> QED BY <1>4, <1>12, <2>1 DEF Received
<1>14. failures' \in 0 .. MaxFailures BY <1>2, FailureFacts
<1> QED BY <1>1, <1>4, <1>6, <1>11, <1>13, <1>14, Keeps DEF BenchInv, Typed

LEMMA PostedStep == ASSUME BenchInv, Posted PROVE BenchInv'
<1>1. /\ UNCHANGED <<node, content, since, watched, events, sink, missed, failures>>
      /\ run.pc = "post" /\ run \in Runs /\ run.posts = <<>>
      /\ run' = [run EXCEPT !.pc = "wait", !.watching = TRUE]
  BY DEF Posted, RunAt, BenchInv, Typed
<1>2. /\ run' \in Runs /\ run'.pc = "wait" /\ run'.posts = run.posts /\ run'.todo = run.todo
      /\ run'.controls = run.controls /\ run'.watching = TRUE /\ run'.checked = run.checked
  BY <1>1 DEF Runs, BenchPCs
<1>3. Rest(run'.posts, run'.controls) BY <1>2 DEF BenchInv, Shape
<1>4. Received(run.controls, Len(run.controls) - Len(run.posts))'
  <2>1. Received(run.controls, Len(run.controls) - Len(run.posts)) BY <1>1 DEF BenchInv, Posting
  <2>2. newest' = newest /\ lost' = lost BY <1>1 DEF sink
  <2> QED BY <1>2, <2>1, <2>2 DEF Received
<1> QED BY <1>1, <1>2, <1>3, <1>4, Keeps DEF BenchInv, Typed, sink

\* Steps that leave the process as it is.
LEMMA Beside ==
  ASSUME BenchInv, UNCHANGED <<node, run, sink>>, content' \in content .. MaxEdits,
         since' \in 0 .. CoolDown + 1, missed' \in BOOLEAN, failures' \in 0 .. MaxFailures,
         watched' \subseteq Dirs, watched' # {} => run.watching, events' \in 0 .. content'
  PROVE  BenchInv'
<1>1. Findings' = Findings BY DEF Findings, FilesOf
<1>2. content \in 0 .. MaxEdits /\ MaxEdits \in Nat BY KubeBenchAssumption DEF BenchInv, Typed
<1>3. content' \in 0 .. MaxEdits /\ content <= content' BY <1>2
<1>4. Typed' BY <1>1, <1>3 DEF BenchInv, Typed, Runs, sink
<1>5. Shape(run)' BY DEF BenchInv, Shape, Rest, TargetsOf
<1>6. Sorted(run.controls)'
  <2>1. ASSUME NEW i \in 1 .. Len(run.controls) PROVE run.controls[i].seen <= content'
    <3>1. run.controls[i] \in Findings BY RunFacts
    <3>2. run.controls[i].seen \in Nat BY <3>1, FindingFacts
    <3>3. run.controls[i].seen <= content BY DEF BenchInv, Sorted
    <3> QED BY <1>2, <1>3, <3>2, <3>3
  <2> QED BY <2>1 DEF BenchInv, Sorted
<1>7. Posting' BY DEF BenchInv, Posting, Received, sink
<1> QED BY <1>4, <1>5, <1>6, <1>7 DEF BenchInv

LEMMA AddWatchStep == ASSUME BenchInv, NEW d \in Dirs, AddWatch(d) PROVE BenchInv'
<1>1. UNCHANGED <<node, content, since, sink, missed>> /\ run.watching BY DEF AddWatch
<1>2. CASE watched' = watched \cup {d} /\ UNCHANGED <<run, events, failures>>
  <2>1. watched' \subseteq Dirs BY <1>2 DEF BenchInv, Typed
  <2>2. content' \in content .. MaxEdits BY <1>1, KubeBenchAssumption DEF BenchInv, Typed
  <2> QED BY <1>1, <1>2, <2>1, <2>2, Beside DEF BenchInv, Typed
<1>3. CASE Failure /\ Exit BY <1>1, <1>3, ExitStep, FailureFacts
<1> QED BY <1>2, <1>3 DEF AddWatch

LEMMA HandleEventStep == ASSUME BenchInv, HandleEvent PROVE BenchInv'
<1>1. /\ UNCHANGED <<node, content, watched, sink, failures>> /\ run.pc = "wait" /\ run \in Runs
      /\ events > 0 /\ events' = events - 1
  BY DEF HandleEvent, RunAt, BenchInv, Typed
<1>2. /\ events \in 0 .. content /\ content \in 0 .. MaxEdits /\ CoolDown \in Nat /\ MaxEdits \in Nat
      /\ watched \subseteq Dirs /\ (watched # {} => run.watching) /\ since \in 0 .. CoolDown + 1
      /\ failures \in 0 .. MaxFailures
  BY KubeBenchAssumption DEF BenchInv, Typed
<1>3. events' \in 0 .. content BY <1>1, <1>2
<1>4. CASE Begin(run)
  <2>1. run' = [run EXCEPT !.pc = "policy", !.checked = {}] /\ since' = 0 /\ missed' = FALSE
    BY <1>4 DEF Begin
  <2>2. run.posts = <<>> /\ Rest(run.todo, Order) BY <1>1 DEF BenchInv, Shape
  <2>3. /\ run' \in Runs /\ run'.pc = "policy" /\ run'.posts = <<>> /\ run'.todo = run.todo
        /\ run'.controls = run.controls /\ run'.watching = run.watching /\ run'.checked = {}
    BY <1>1, <2>1, <2>2 DEF Runs, BenchPCs
  <2>4. since' \in 0 .. CoolDown + 1 BY <1>2, <2>1
  <2> QED BY <1>1, <1>2, <1>3, <2>1, <2>2, <2>3, <2>4, GoesOn
<1>5. CASE missed' = TRUE /\ UNCHANGED <<run, since>>
  <2>1. content' \in content .. MaxEdits /\ events' \in 0 .. content' BY <1>1, <1>2, <1>3
  <2> QED BY <1>1, <1>2, <1>5, <2>1, Beside
<1> QED BY <1>4, <1>5 DEF HandleEvent

LEMMA EditStep == ASSUME BenchInv, NEW d \in Dirs, Edit(d) PROVE BenchInv'
<1>1. /\ content < MaxEdits /\ content' = content + 1
      /\ UNCHANGED <<node, since, watched, run, sink, failures>>
      /\ events' \in {events, events + 1} /\ missed' \in {missed, TRUE}
  BY DEF Edit
<1>2. /\ events \in 0 .. content /\ content \in 0 .. MaxEdits /\ MaxEdits \in Nat
      /\ missed \in BOOLEAN
  BY KubeBenchAssumption DEF BenchInv, Typed
<1>3. content' \in content .. MaxEdits /\ events' \in 0 .. content' BY <1>1, <1>2
<1>4. missed' \in BOOLEAN BY <1>1, <1>2
<1> QED BY <1>1, <1>3, <1>4, Beside DEF BenchInv, Typed

LEMMA TickStep == ASSUME BenchInv, Tick PROVE BenchInv'
<1>1. /\ since <= CoolDown /\ since' = since + 1
      /\ UNCHANGED <<node, content, watched, events, run, sink, missed, failures>>
  BY DEF Tick
<1>2. since \in 0 .. CoolDown + 1 /\ CoolDown \in Nat /\ content \in 0 .. MaxEdits /\ MaxEdits \in Nat
  BY KubeBenchAssumption DEF BenchInv, Typed
<1>3. since' \in 0 .. CoolDown + 1 /\ content' \in content .. MaxEdits BY <1>1, <1>2
<1> QED BY <1>1, <1>3, Beside DEF BenchInv, Typed

LEMMA BenchInvStep == BenchInv /\ [BenchNext]_benchVars => BenchInv'
<1> SUFFICES ASSUME BenchInv, [BenchNext]_benchVars PROVE BenchInv' OBVIOUS
<1>1. CASE Process
  BY <1>1, FirstCheckStep, GetPolicyStep, ChooseBenchmarkStep, RunChecksStep, SkipChecksStep,
     CheckedStep, PostStep, PostedStep, HandleEventStep DEF Process
<1>2. CASE \E d \in Dirs : AddWatch(d) \/ Edit(d) BY <1>2, AddWatchStep, EditStep
<1>3. CASE Tick BY <1>3, TickStep
<1>4. CASE UNCHANGED benchVars
  <2>1. UNCHANGED <<node, content, since, watched, events, run, newest, lost, missed, failures>>
    BY <1>4 DEF benchVars
  <2>2. content' \in content .. MaxEdits BY <2>1, KubeBenchAssumption DEF BenchInv, Typed
  <2> QED BY <2>1, <2>2, Beside DEF BenchInv, Typed, sink
<1> QED BY <1>1, <1>2, <1>3, <1>4 DEF BenchNext

----------------------------------------------------------------------------
(* What the runs check. *)

\* The last of a target's controls that has been posted tells what was received.
LEMMA NewestFollows == BenchInv => NewestIsLatest
<1> SUFFICES ASSUME BenchInv, run.pc = "wait", NEW t \in run.checked \ lost
             PROVE  Latest(t) \in newest[t]
  BY DEF NewestIsLatest, RunAt
<1> DEFINE n == Len(run.controls)
           own == {i \in 1 .. n : run.controls[i].target = t}
<1>1. n \in Nat /\ run.controls \in Seq(Findings) /\ DOMAIN run.controls = 1 .. n BY RunFacts
<1>2. own # {}
  <2>1. t \in TargetsOf(run.controls) BY DEF BenchInv, Shape
  <2> QED BY <2>1 DEF TargetsOf
<1>3. PICK m \in own : \A i \in own : i <= m
  <2> DEFINE back == {k \in 0 .. n : n - k \in own}
  <2>1. back # {}
    <3>1. PICK i \in own : TRUE BY <1>2
    <3>2. n - i \in 0 .. n /\ n - (n - i) = i BY <1>1, <3>1
    <3> QED BY <3>1, <3>2
  <2>2. back \in SUBSET Nat BY <1>1
  <2>3. PICK k \in back : \A j \in back : k <= j BY <2>1, <2>2, LeastExists
  <2>4. ASSUME NEW i \in own PROVE i <= n - k
    <3>1. i \in 1 .. n /\ k \in 0 .. n BY <2>3
    <3>2. n - i \in 0 .. n /\ n - (n - i) = i
      <4> HIDE DEF n
      <4> QED BY <1>1, <3>1
    <3>3. k <= n - i BY <2>3, <3>2
    <3> HIDE DEF n
    <3> QED BY <1>1, <3>1, <3>3
  <2> QED BY <2>3, <2>4
<1>4. m \in 1 .. n /\ run.controls[m].target = t OBVIOUS
<1>5. \A j \in m + 1 .. n : run.controls[j].target # t
  <2>1. ASSUME NEW j \in m + 1 .. n PROVE j \in 1 .. n /\ ~(j <= m) BY <1>1, <1>4
  <2> QED BY <1>3, <2>1
<1>6. run.controls[m].seen \in newest[t]
  <2>1. run.posts = <<>> BY DEF BenchInv, Shape
  <2>2. Len(run.controls) - Len(run.posts) = n BY <1>1, <2>1, EmptyFacts
  <2>3. Received(run.controls, n) BY <2>2 DEF BenchInv, Posting
  <2> QED BY <1>4, <1>5, <2>3 DEF Received
<1>7. \A i \in 1 .. n : run.controls[i].seen \in Nat
  <2>1. \A i \in 1 .. n : run.controls[i] \in Findings BY <1>1
  <2> QED BY <2>1, FindingFacts, KubeBenchAssumption
<1>8. \A i \in own : run.controls[i].seen <= run.controls[m].seen
  BY <1>3, <1>4 DEF BenchInv, Sorted
<1> DEFINE S == {run.controls[i].seen : i \in own}
           most == run.controls[m].seen
<1>9. most \in S /\ S \subseteq Nat /\ \A x \in S : most >= x
  BY <1>3, <1>4, <1>7, <1>8
<1>10. Latest(t) = Max(S)
  <2>1. {i \in DOMAIN run.controls : run.controls[i].target = t} = own BY <1>1
  <2> QED BY <2>1 DEF Latest
<1> HIDE DEF S, most
<1>11. ASSUME NEW x \in S, \A y \in S : x >= y PROVE x = most
  <2>1. x >= most /\ most >= x /\ x \in Nat /\ most \in Nat BY <1>9, <1>11
  <2> QED BY <2>1
<1>12. Max(S) = most
  <2> DEFINE top == CHOOSE x \in S : \A y \in S : x >= y
  <2>1. top \in S /\ \A y \in S : top >= y BY <1>9
  <2> HIDE DEF top
  <2>2. top = most BY <1>11, <2>1
  <2> QED BY <2>2 DEF top, Max
<1> QED BY <1>6, <1>10, <1>12 DEF most

LEMMA ReverseFacts ==
  ASSUME NEW S, NEW s \in Seq(S)
  PROVE  /\ Reverse(s) \in Seq(S) /\ Len(Reverse(s)) = Len(s)
         /\ \A i \in 1 .. Len(s) : Reverse(s)[i] = s[(Len(s) - i) + 1]
<1> DEFINE a == Len(s)
           r == [i \in 1 .. a |-> s[(a - i) + 1]]
<1>1. a \in Nat OBVIOUS
<1>2. \A i \in 1 .. a : s[(a - i) + 1] \in S
  <2>1. ASSUME NEW i \in 1 .. a PROVE (a - i) + 1 \in 1 .. a BY <1>1
  <2>2. \A j \in 1 .. a : s[j] \in S OBVIOUS
  <2> QED BY <2>1, <2>2
<1>3. Len(r) = a OBVIOUS
<1>4. r \in Seq(S)
  <2> HIDE DEF a
  <2> QED BY <1>1, <1>2
<1>5. \A i \in 1 .. a : r[i] = s[(a - i) + 1] OBVIOUS
<1>6. Reverse(s) = r BY DEF Reverse
<1> HIDE DEF r
<1> QED BY <1>3, <1>4, <1>5, <1>6

LEMMA PrefixFacts ==
  ASSUME NEW S, NEW s \in Seq(S), NEW a \in Nat, a <= Len(s)
  PROVE  SubSeq(s, 1, a) = [i \in 1 .. a |-> s[i]]
  OBVIOUS

\* What is left of a sequence is a suffix of it.
LEMMA RestIsSuffix ==
  ASSUME NEW S, NEW s \in Seq(S), NEW T, NEW t \in Seq(T), Rest(s, t)
  PROVE  IsSuffix(s, t)
<1> DEFINE a == Len(s)
           b == Len(t)
           rs == Reverse(s)
           rt == Reverse(t)
<1>1. a \in Nat /\ b \in Nat /\ a <= b BY DEF Rest
<1>2. /\ rs \in Seq(S) /\ Len(rs) = a /\ \A i \in 1 .. a : rs[i] = s[(a - i) + 1]
      /\ rt \in Seq(T) /\ Len(rt) = b /\ \A i \in 1 .. b : rt[i] = t[(b - i) + 1]
  BY ReverseFacts
<1>3. \A i \in 1 .. a : s[i] = t[b - a + i] BY DEF Rest
<1> HIDE DEF a, b, rs, rt
<1>4. ASSUME NEW i \in 1 .. a PROVE rs[i] = rt[i]
  <2>1. (a - i) + 1 \in 1 .. a /\ b - a + ((a - i) + 1) = (b - i) + 1 /\ i \in 1 .. b
    BY <1>1
  <2> DEFINE k == (a - i) + 1
  <2>2. rs[i] = s[k] /\ rt[i] = t[(b - i) + 1] BY <1>2, <2>1
  <2>3. k \in 1 .. a /\ b - a + k = (b - i) + 1 BY <2>1
  <2> HIDE DEF k
  <2>4. s[k] = t[b - a + k] BY <1>3, <2>3
  <2> QED BY <2>2, <2>3, <2>4
<1>5. SubSeq(rs, 1, a) = SubSeq(rt, 1, a)
  <2>1. /\ SubSeq(rs, 1, a) = [i \in 1 .. a |-> rs[i]]
        /\ SubSeq(rt, 1, a) = [i \in 1 .. a |-> rt[i]]
    BY <1>1, <1>2, PrefixFacts
  <2> QED BY <1>4, <2>1
<1>6. IsPrefix(rs, rt) BY <1>1, <1>2, <1>5 DEF IsPrefix
<1> QED BY <1>6 DEF IsSuffix, rs, rt

LEMMA TypeFollows == BenchInv => TypeOK
<1> SUFFICES ASSUME BenchInv PROVE TypeOK OBVIOUS
<1>1. IsSuffix(run.todo, Order) /\ IsSuffix(run.posts, run.controls)
  BY RunFacts, OrderFacts, RestIsSuffix DEF BenchInv, Shape
<1>2. events \in 0 .. MaxEdits
  <2>1. content \in 0 .. MaxEdits /\ events \in 0 .. content /\ MaxEdits \in Nat
    BY KubeBenchAssumption DEF BenchInv, Typed
  <2> QED BY <2>1
<1>3. run.checked \subseteq {run.controls[i].target : i \in DOMAIN run.controls}
  <2>1. DOMAIN run.controls = 1 .. Len(run.controls) BY RunFacts
  <2> QED BY <2>1 DEF BenchInv, Shape, TargetsOf
<1> QED BY <1>1, <1>2, <1>3, RunFacts DEF BenchInv, Typed, TypeOK, BenchPCs

\* A file is found unless a candidate before it cannot be looked at.
LEMMA FileFacts ==
  ASSUME NEW confs, NEW S, confs \in Seq(S), Nothing \notin S, NEW exists, NEW denied
  PROVE  LET file == FindConfigFile(confs, exists, denied)
         IN \/ file # Nothing /\ file \in exists
            \/ \A k \in DOMAIN confs : confs[k] \in exists =>
                 \E j \in 1 .. k : confs[j] \in denied
<1> DEFINE seen == {i \in DOMAIN confs : confs[i] \in exists \cup denied}
           file == FindConfigFile(confs, exists, denied)
<1> SUFFICES \/ file # Nothing /\ file \in exists
             \/ \A k \in DOMAIN confs : confs[k] \in exists => \E j \in 1 .. k : confs[j] \in denied
  OBVIOUS
<1>1. Len(confs) \in Nat /\ DOMAIN confs = 1 .. Len(confs) /\ \A i \in DOMAIN confs : confs[i] \in S
  OBVIOUS
<1>2. file = IF seen = {} \/ confs[Min(seen)] \in denied THEN Nothing ELSE confs[Min(seen)]
  BY DEF FindConfigFile
<1>3. CASE seen = {} BY <1>3
<1>4. CASE seen # {}
  <2>1. seen \in SUBSET Nat BY <1>1
  <2>2. Min(seen) \in seen /\ \A i \in seen : Min(seen) <= i
    <3>1. \E m \in seen : \A i \in seen : m <= i BY <1>4, <2>1, LeastExists
    <3> HIDE DEF seen
    <3> QED BY <3>1 DEF Min
  <2> DEFINE m == Min(seen)
  <2>3. m \in DOMAIN confs /\ confs[m] \in exists \cup denied BY <2>2
  <2> HIDE DEF m
  <2>4. CASE confs[m] \in denied
    <3>1. ASSUME NEW k \in DOMAIN confs, confs[k] \in exists PROVE m \in 1 .. k
      <4>1. k \in seen BY <3>1
      <4>2. m <= k BY <2>2, <4>1 DEF m
      <4> QED BY <1>1, <2>3, <4>2
    <3> QED BY <2>4, <3>1
  <2>5. CASE confs[m] \notin denied
    <3>1. file = confs[m] BY <1>2, <1>4, <2>5 DEF m
    <3> HIDE DEF file
    <3> QED BY <1>1, <2>3, <2>5, <3>1
  <2> QED BY <2>4, <2>5
<1> QED BY <1>3, <1>4

LEMMA FilesFollow == BenchInv => FilesExist
<1> SUFFICES ASSUME BenchInv, NEW i \in DOMAIN run.controls, NEW c \in DOMAIN run.controls[i].files
             PROVE  LET confs == node.sections[run.controls[i].target][c].confs
                    IN \/ run.controls[i].files[c] \in node.exists
                       \/ \A k \in DOMAIN confs : confs[k] \in node.exists =>
                            \E j \in 1 .. k : confs[j] \in node.denied
  BY DEF FilesExist
<1> DEFINE t == run.controls[i].target
           section == node.sections[t]
           confs == section[c].confs
           file == FindConfigFile(confs, node.exists, node.denied)
<1>1. run.controls[i].files = FilesOf(t)
  <2>1. run.controls[i] \in Findings BY RunFacts
  <2> QED BY <2>1, FindingFacts
<1>2. t \in DOMAIN node.sections
  <2>1. DOMAIN Empty = {} BY DEF Empty
  <2> QED BY <1>1, <2>1 DEF FilesOf
<1>3. run.controls[i].files = GetFiles(section, node.exists, node.denied)
  BY <1>1, <1>2 DEF FilesOf
<1>4. c \in DOMAIN section BY <1>3 DEF GetFiles
<1>5. file # Nothing => run.controls[i].files[c] = file
  BY <1>3, <1>4 DEF GetFiles
<1>6. confs \in Seq({confs[k] : k \in DOMAIN confs} \ {Nothing})
  <2>1. node \in Nodes BY DEF BenchInv, Typed
  <2>2. LET q == node.sections[t][c].confs IN q \in Seq({q[k] : k \in DOMAIN q} \ {Nothing})
    BY <1>2, <1>4, <2>1, KubeBenchAssumption, Zenon
  <2> QED BY <2>2
<1>7. Nothing \notin {confs[k] : k \in DOMAIN confs} \ {Nothing} OBVIOUS
<1> DEFINE cands == {confs[k] : k \in DOMAIN confs} \ {Nothing}
<1>8. \/ file # Nothing /\ file \in node.exists
      \/ \A k \in DOMAIN confs : confs[k] \in node.exists => \E j \in 1 .. k : confs[j] \in node.denied
  <2> HIDE DEF cands
  <2>1. confs \in Seq(cands) /\ Nothing \notin cands BY <1>6, <1>7 DEF cands
  <2> HIDE DEF confs
  <2> QED BY <2>1, FileFacts
<1> QED BY <1>5, <1>8

\* The benchmark of the present check.
Fits == run.pc \in {"check", "post", "wait"} =>
          run.bench \in Fitting(failures = 0) \cap DOMAIN TargetMapping

LEMMA FitsStep == BenchInv /\ Fits /\ [BenchNext]_benchVars => Fits'
<1> SUFFICES ASSUME BenchInv, Fits, [BenchNext]_benchVars, run'.pc \in {"check", "post", "wait"}
             PROVE  run'.bench \in Fitting(failures = 0)' \cap DOMAIN TargetMapping
  BY DEF Fits
<1>1. node \in Nodes /\ run \in Runs /\ failures \in Nat /\ MaxFailures \in Nat
  BY KubeBenchAssumption DEF BenchInv, Typed
<1>2. node' = node
  BY DEF BenchNext, Process, Start, GetPolicy, ChooseBenchmark, RunChecks, SkipChecks, Checked, Post,
         Posted, HandleEvent, AddWatch, Edit, Tick, benchVars
<1>3. failures' = failures \/ failures' = failures + 1
  BY DEF BenchNext, Process, Start, GetPolicy, ChooseBenchmark, RunChecks, SkipChecks, Checked, Post,
         Posted, HandleEvent, AddWatch, Edit, Tick, Failure, Exit, benchVars
<1>4. Own' = Own /\ Newest(node.version)' = Newest(node.version)
  BY <1>2 DEF Own, Newest
<1>5. \A answered \in BOOLEAN : Fitting(answered)' = Fitting(answered)
                                 /\ Fitting(answered) \subseteq Fitting(FALSE)
  BY <1>4 DEF Fitting
<1>6. CASE run.pc \in {"check", "post", "wait"} /\ run'.bench = run.bench
  <2>1. run.bench \in Fitting(failures = 0) \cap DOMAIN TargetMapping BY <1>6 DEF Fits
  <2>2. failures' = 0 => failures = 0 BY <1>1, <1>3
  <2>3. CASE failures' = 0
    <3>1. Fitting(failures = 0)' = Fitting(failures = 0)
      <4>1. (failures' = 0) = TRUE /\ (failures = 0) = TRUE BY <2>2, <2>3
      <4>2. Fitting(failures = 0)' = IF Own' # {} THEN Own' ELSE Newest(node.version)'
        BY <2>3 DEF Fitting
      <4>3. Fitting(failures = 0) = IF Own # {} THEN Own ELSE Newest(node.version)
        BY <2>2, <2>3 DEF Fitting
      <4> QED BY <1>4, <4>2, <4>3
    <3> QED BY <1>6, <2>1, <3>1
  <2>4. CASE failures' # 0
    <3>1. Fitting(failures = 0)' = Own' \cup Newest(node.version)' \cup Newest(Default)
      BY <2>4 DEF Fitting
    <3>2. Fitting(failures = 0) \subseteq Own \cup Newest(node.version) \cup Newest(Default)
      BY DEF Fitting
    <3> QED BY <1>4, <1>6, <2>1, <3>1, <3>2
  <2> QED BY <2>3, <2>4
<1>7. CASE ChooseBenchmark
  <2>1. PICK rest1 \in BOOLEAN, rest2 \in BOOLEAN :
          LET bench == GetBenchmarkVersion(node, rest1, rest2)
          IN /\ IF rest1 /\ rest2 THEN UNCHANGED failures ELSE Failure
             /\ IF bench = Nothing THEN Exit
                ELSE /\ run' = [run EXCEPT !.pc = "check", !.bench = bench, !.todo = Order]
                     /\ UNCHANGED <<watched, events>>
    BY <1>7 DEF ChooseBenchmark
  <2> DEFINE bench == GetBenchmarkVersion(node, rest1, rest2)
  <2>2. bench # Nothing
    <3> SUFFICES ASSUME bench = Nothing PROVE FALSE OBVIOUS
    <3>1. run' = Down BY <2>1 DEF Exit
    <3> QED BY <3>1, DownFacts
  <2>3. bench \in Fitting(rest1 /\ rest2) \cap DOMAIN TargetMapping BY <1>1, <2>2, BenchFacts
  <2>4. run' = [run EXCEPT !.pc = "check", !.bench = bench, !.todo = Order] BY <2>1, <2>2
  <2>5. IF rest1 /\ rest2 THEN UNCHANGED failures ELSE Failure BY <2>1
  <2> HIDE DEF bench
  <2>6. run'.bench = bench BY <1>1, <2>4 DEF Runs
  <2>7. failures' = 0 => rest1 /\ rest2 BY <1>1, <2>5 DEF Failure
  <2> QED BY <1>5, <2>3, <2>6, <2>7
<1>8. CASE ~ChooseBenchmark
  <2>1. run.pc \in {"check", "post", "wait"} /\ run'.bench = run.bench
    <3>1. ~Exit
      <4>1. Exit => run'.pc = "down" BY DownFacts DEF Exit
      <4> QED BY <4>1
    <3>2. \A r \in {run, Down} : ~Begin(r)
      <4>1. \A r \in {run, Down} : Begin(r) => run'.pc = "policy"
        BY <1>1, DownFacts DEF Begin, Runs
      <4> QED BY <4>1
    <3>3. ~Start /\ ~GetPolicy
      <4>1. run' = [run EXCEPT !.pc = "version"] => run'.pc = "version" BY <1>1 DEF Runs
      <4> QED BY <3>1, <3>2, <4>1 DEF Start, GetPolicy
    <3>4. CASE \E t \in Targets : RunChecks(t) \/ SkipChecks(t)
      BY <1>1, <3>1, <3>4 DEF RunChecks, SkipChecks, RunAt, Runs
    <3>5. CASE Checked \/ Post \/ Posted
      BY <1>1, <3>5 DEF Checked, Post, Posted, RunAt, Runs
    <3>6. CASE UNCHANGED run BY <3>6
    <3>7. HandleEvent \/ (\E d \in Dirs : AddWatch(d) \/ Edit(d)) \/ Tick \/ UNCHANGED benchVars
            => UNCHANGED run
      BY <3>1, <3>2 DEF HandleEvent, AddWatch, Edit, Tick, benchVars
    <3> QED BY <1>8, <3>3, <3>4, <3>5, <3>6, <3>7 DEF BenchNext, Process
  <2> QED BY <1>6, <2>1
<1> QED BY <1>7, <1>8

\* Fits is the invariant as the runs check it.
LEMMA BenchmarkFollows == BenchInv /\ Fits => BenchmarkFits
<1> SUFFICES ASSUME BenchInv, Fits, run.pc \in {"check", "post", "wait"}
             PROVE  /\ run.bench \in DOMAIN TargetMapping
                    /\ run.bench \in IF failures = 0 THEN (IF Own # {} THEN Own ELSE Newest(node.version))
                                     ELSE Own \cup Newest(node.version) \cup Newest(Default)
  BY DEF BenchmarkFits
<1> QED BY DEF Fits, Fitting

----------------------------------------------------------------------------
\* Whatever the versions, the platforms and the modifications: the process is where it
\* can be, and what it has still to check and to post is the end of what it had.
THEOREM BenchTypeCorrect == BenchSpec => []TypeOK
<1>1. BenchInit => BenchInv BY BenchInvInit
<1>2. BenchInv /\ [BenchNext]_benchVars => BenchInv' BY BenchInvStep
<1>3. BenchInv => TypeOK BY TypeFollows
<1> QED BY <1>1, <1>2, <1>3, PTL DEF BenchSpec

\* When a check is over, no report taken on one of its targets has a later createTime
\* than its own, in whatever order they arrive: the controls of all checks before,
\* which are posted again, are posted before it, and share its second at most.
THEOREM NewestReceived == BenchSpec => []NewestIsLatest
<1>1. BenchInit => BenchInv BY BenchInvInit
<1>2. BenchInv /\ [BenchNext]_benchVars => BenchInv' BY BenchInvStep
<1>3. BenchInv => NewestIsLatest BY NewestFollows
<1> QED BY <1>1, <1>2, <1>3, PTL DEF BenchSpec

\* Every check is of the benchmark that the node's platform or version calls for,
\* and reads the files that are there.
THEOREM RightChecks == BenchSpec => []ChecksFitNode
<1>1. BenchInit => BenchInv /\ Fits
  <2>1. BenchInit => ~(run.pc \in {"check", "post", "wait"}) BY DownFacts DEF BenchInit
  <2> QED BY <2>1, BenchInvInit DEF Fits
<1>2. (BenchInv /\ Fits) /\ [BenchNext]_benchVars => (BenchInv /\ Fits)' BY BenchInvStep, FitsStep
<1>3. BenchInv /\ Fits => ChecksFitNode BY FilesFollow, BenchmarkFollows DEF ChecksFitNode
<1> QED BY <1>1, <1>2, <1>3, PTL DEF BenchSpec

=============================================================================
