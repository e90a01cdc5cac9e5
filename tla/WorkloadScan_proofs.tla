------------------------- MODULE WorkloadScan_proofs -------------------------
(***************************************************************************)
(* Proofs about WorkloadScan, for any cluster, owners, containers,         *)
(* selectors and faults.                                                   *)
(*                                                                         *)
(* The pods that were there all the time of a scan are never lost: each is *)
(* still to be listed, listed by its job, or reported (JobOK). A report    *)
(* has a pod once, because a job takes it off its list when it adds it,    *)
(* and under the workload and with the containers that the pod has         *)
(* (ReportOK). What these are is said by the lemmas about the owners and   *)
(* the containers at the end.                                              *)
(***************************************************************************)
EXTENDS WorkloadScan, WellFoundedInduction, TLAPS

\* The pods a job has yet to process, those reported, and those a job selects.
Listed(n) == {l.pod : l \in scan.jobs[n].todo}
Reported == {e.pod : e \in scan.report}
Chosen(n) == {p \in Pods : NamespaceOf[p] = n /\ Selects(WorkloadSelector, Labels[p])}

\* What extractContainers may return for a pod.
Extracted(p) ==
  {ExtractContainers(ContainersOf[p], started) :
     started \in SUBSET UNION {Names(ContainersOf[q]) : q \in Pods}}

\* A scan is a record of these fields.
Typed ==
  /\ scan = [pc |-> scan.pc, jobs |-> scan.jobs, report |-> scan.report]
  /\ scan.pc \in {"idle", "namespaces", "jobs", "export"}
  /\ scan.jobs = [n \in Namespaces |-> scan.jobs[n]]

\* The pods there were all the time of the scan are there, and those there are were
\* there at some time of it.
History == scan.pc # "idle" => always \subseteq LivePods /\ LivePods \subseteq ever

\* What a job has listed and not processed yet, and what it has covered.
JobOK(n) ==
  LET job == scan.jobs[n] IN
  /\ job.pc \in {"none", "list", "owners", "done", "failed"}
  /\ job.pc # "owners" => job.todo = {}
  /\ \A l \in job.todo : /\ l.pod \in Chosen(n) \cap ever /\ l.pod \notin Reported
                         /\ l.containers \in Extracted(l.pod)
  /\ \A k, l \in job.todo : k.pod = l.pod => k = l
  /\ job.pc \in {"owners", "done"} => always \cap Chosen(n) \subseteq Listed(n) \cup Reported

\* What every entry of the report is, and that no pod has two.
ReportOK ==
  /\ \A e \in scan.report :
       LET n == NamespaceOf[e.pod] IN
       /\ e.pod \in Chosen(n) \cap ever /\ scan.jobs[n].pc \notin {"none", "list"}
       /\ e.workload = WorkloadOf(e.pod) /\ e.containers \in Extracted(e.pod)
  /\ \A e, f \in scan.report : e.pod = f.pod => e = f

\* What holds of jobs and report at each step of a scan.
Scanning ==
  /\ scan.pc = "namespaces" => scan.report = {} /\ scan.jobs = [n \in Namespaces |-> NoJob]
  /\ scan.pc \in {"jobs", "export"} => (\A n \in Namespaces : JobOK(n)) /\ ReportOK
  /\ scan.pc = "export" => \A n \in Namespaces : scan.jobs[n].pc \in {"none", "done"}

IInv == Typed /\ History /\ Scanning

----------------------------------------------------------------------------
\* What there is between two scans.
LEMMA NoScanFacts ==
  /\ NoScan.pc = "idle" /\ NoScan.jobs = [n \in Namespaces |-> NoJob] /\ NoScan.report = {}
  /\ NoScan = [pc |-> NoScan.pc, jobs |-> NoScan.jobs, report |-> NoScan.report]
  /\ NoJob.pc = "none" /\ NoJob.todo = {}
  /\ FailedJob.pc = "failed" /\ FailedJob.todo = {}
  BY DEF NoScan, NoJob, FailedJob

\* Between two scans there is nothing to show.
LEMMA NoScanIdle == scan' = NoScan => IInv'
<1> SUFFICES ASSUME scan' = NoScan PROVE IInv' OBVIOUS
<1>1. scan'.pc = "idle" /\ scan'.jobs = [n \in Namespaces |-> NoJob] BY NoScanFacts
<1>2. Typed' BY <1>1, NoScanFacts DEF Typed
<1> QED BY <1>1, <1>2 DEF IInv, History, Scanning

LEMMA InitIInv == Init => IInv
<1> SUFFICES ASSUME Init PROVE IInv OBVIOUS
<1>1. scan = NoScan BY DEF Init
<1>2. scan.pc = "idle" /\ scan.jobs = [n \in Namespaces |-> NoJob] BY <1>1, NoScanFacts
<1>3. Typed BY <1>1, <1>2, NoScanFacts DEF Typed
<1> QED BY <1>2, <1>3 DEF IInv, History, Scanning

LEMMA StartStep == ASSUME IInv, Start PROVE IInv'
<1>1. scan' = [NoScan EXCEPT !.pc = "namespaces"] BY DEF Start
<1>2. /\ scan'.pc = "namespaces" /\ scan'.jobs = [n \in Namespaces |-> NoJob]
      /\ scan'.report = {}
      /\ scan' = [pc |-> scan'.pc, jobs |-> scan'.jobs, report |-> scan'.report]
  BY <1>1 DEF NoScan
<1>3. Typed' BY <1>2 DEF Typed
<1>4. History'
  BY DEF Start, History, LivePods, live, cluster
<1> QED BY <1>2, <1>3, <1>4 DEF IInv, Scanning

LEMMA RunStep == ASSUME IInv, Run PROVE IInv'
<1>1. CASE Ends BY <1>1, NoScanIdle DEF Ends
<1>2. CASE /\ scan' = [scan EXCEPT !.pc = IF Collected = {} THEN "export" ELSE "jobs",
                                !.jobs = Plan]
           /\ UNCHANGED <<ever, always, faults>>
  <2>1. scan.pc = "namespaces" /\ scan.report = {} /\ UNCHANGED cluster
    BY DEF Run, At, IInv, Scanning
  <2>2. /\ scan'.pc = (IF Collected = {} THEN "export" ELSE "jobs")
        /\ scan'.jobs = Plan /\ scan'.report = {}
        /\ scan' = [pc |-> scan'.pc, jobs |-> scan'.jobs, report |-> scan'.report]
    BY <1>2, <2>1 DEF IInv, Typed
  <2>3. \A n \in Namespaces : /\ Plan[n].pc = (IF n \in Collected THEN "list" ELSE "none")
                              /\ Plan[n].todo = {}
    BY DEF Plan, NoJob
  <2>4. Typed' BY <2>2 DEF Typed, Plan
  <2>5. History' BY <1>2, <2>1, <2>2 DEF IInv, History, LivePods, live, cluster
  <2>6. \A n \in Namespaces : JobOK(n)' BY <2>2, <2>3 DEF JobOK
  <2>7. ReportOK' BY <2>2 DEF ReportOK
  <2>8. scan'.pc = "export" => \A n \in Namespaces : scan'.jobs[n].pc \in {"none", "done"}
    BY <2>2, <2>3
  <2> QED BY <2>2, <2>4, <2>5, <2>6, <2>7, <2>8 DEF IInv, Scanning
<1> QED BY <1>1, <1>2 DEF Run

\* What a job becomes, and the report with it; the other jobs are left alone.
Moves(n, job, report) ==
  scan' = [pc |-> scan.pc, jobs |-> [scan.jobs EXCEPT ![n] = job], report |-> report]

LEMMA MovesFacts ==
  ASSUME Typed, NEW n \in Namespaces, NEW job, NEW report, Moves(n, job, report)
  PROVE  /\ Typed' /\ scan'.pc = scan.pc /\ scan'.report = report
         /\ \A m \in Namespaces : scan'.jobs[m] = IF m = n THEN job ELSE scan.jobs[m]
<1>1. /\ scan'.pc = scan.pc /\ scan'.report = report
      /\ scan'.jobs = [scan.jobs EXCEPT ![n] = job]
      /\ scan' = [pc |-> scan'.pc, jobs |-> scan'.jobs, report |-> scan'.report]
  BY DEF Moves
<1>2. \A m \in Namespaces : scan'.jobs[m] = IF m = n THEN job ELSE scan.jobs[m]
  BY <1>1 DEF Typed
<1>3. scan'.jobs = [m \in Namespaces |-> scan'.jobs[m]] BY <1>1 DEF Typed
<1> QED BY <1>1, <1>2, <1>3 DEF Typed

LEMMA BecomesMoves ==
  ASSUME Typed, NEW n \in Namespaces, NEW job, Becomes(n, job)
  PROVE  Moves(n, job, scan.report)
  BY DEF Becomes, Moves, Typed

\* The job knows all pods that were there all the time, or has failed.
LEMMA ListStep == ASSUME IInv, NEW n \in Namespaces, ListPods(n) PROVE IInv'
<1>1. scan.pc = "jobs" /\ scan.jobs[n].pc = "list" /\ UNCHANGED <<cluster, ever, always>>
  BY DEF ListPods, JobAt
<1>2. History /\ (\A m \in Namespaces : JobOK(m)) /\ ReportOK BY <1>1 DEF IInv, Scanning
<1> DEFINE pods == {p \in LivePods : NamespaceOf[p] = n /\ Selects(WorkloadSelector, Labels[p])}
           names == UNION {Names(ContainersOf[p]) : p \in pods}
           todo(started) ==
             {[pod |-> p, containers |-> ExtractContainers(ContainersOf[p], started[p])] :
                p \in pods}
<1>3. PICK job : /\ Becomes(n, job)
                 /\ \/ job = FailedJob
                    \/ \E started \in [pods -> SUBSET names] : job = Job(todo(started))
  <2>1. \/ \E started \in [pods -> SUBSET names] : Becomes(n, Job(todo(started)))
        \/ Becomes(n, FailedJob)
    BY DEF ListPods
  <2> HIDE DEF pods, names, todo
  <2> QED BY <2>1
<1>4. Moves(n, job, scan.report) BY <1>3, BecomesMoves DEF IInv
<1>5. /\ Typed' /\ scan'.pc = "jobs" /\ scan'.report = scan.report
      /\ \A m \in Namespaces : scan'.jobs[m] = IF m = n THEN job ELSE scan.jobs[m]
  BY <1>1, <1>4, MovesFacts DEF IInv
<1>6. History' BY <1>1, <1>2, <1>5 DEF History, LivePods, live, cluster
<1>7. /\ job.pc \in {"owners", "done", "failed"} /\ (job.pc # "owners" => job.todo = {})
      /\ \A l \in job.todo : /\ l.pod \in Chosen(n) \cap LivePods
                             /\ l.containers \in Extracted(l.pod)
      /\ \A k, l \in job.todo : k.pod = l.pod => k = l
      /\ job.pc # "failed" => Chosen(n) \cap LivePods \subseteq {l.pod : l \in job.todo}
  <2>1. CASE job = FailedJob BY <2>1, NoScanFacts
  <2>2. ASSUME NEW started \in [pods -> SUBSET names], job = Job(todo(started))
        PROVE  <1>7!1 /\ <1>7!2 /\ <1>7!3 /\ <1>7!4
    <3> DEFINE Entry(p) ==
                 [pod |-> p, containers |-> ExtractContainers(ContainersOf[p], started[p])]
               entries == {Entry(p) : p \in pods}
    <3>1. job = Job(entries) BY <2>2
    <3>2. pods = Chosen(n) \cap LivePods BY DEF Chosen, LivePods
    <3>3. \A p \in pods : Entry(p).pod = p /\ Entry(p).containers \in Extracted(p)
      <4> TAKE p \in pods
      <4>1. started[p] \in SUBSET UNION {Names(ContainersOf[q]) : q \in Pods}
        BY <2>2 DEF LivePods
      <4> QED BY <4>1 DEF Extracted
    <3> HIDE DEF pods, Entry
    <3>4. job.todo = entries /\ job.pc = IF entries = {} THEN "done" ELSE "owners"
      BY <3>1 DEF Job
    <3>5. \A l \in entries : \E p \in pods : l = Entry(p) /\ l.pod = p BY <3>3
    <3>6. \A p \in pods : p \in {l.pod : l \in entries} BY <3>3
    <3> QED BY <3>2, <3>3, <3>4, <3>5, <3>6
  <2> QED BY <1>3, <2>1, <2>2
<1>8. ASSUME NEW m \in Namespaces PROVE JobOK(m)'
  <2>1. CASE m # n
    <3>1. JobOK(m) BY <1>2
    <3>2. scan'.jobs[m] = scan.jobs[m] BY <1>5, <2>1
    <3>3. Reported' = Reported /\ Listed(m)' = Listed(m) /\ ever' = ever /\ always' = always
      BY <1>1, <1>5, <3>2 DEF Reported, Listed
    <3> QED BY <3>1, <3>2, <3>3 DEF JobOK
  <2>2. CASE m = n
    <3>1. scan'.jobs[n] = job /\ Reported' = Reported /\ ever' = ever /\ always' = always
      BY <1>1, <1>5 DEF Reported
    <3>2. always \subseteq LivePods /\ LivePods \subseteq ever BY <1>1, <1>2 DEF History
    <3>3. \A p \in Reported : NamespaceOf[p] # n
      BY <1>1, <1>2 DEF ReportOK, Reported
    <3>4. Listed(n)' = {l.pod : l \in job.todo} BY <3>1 DEF Listed
    <3>5. \A p \in Chosen(n) : NamespaceOf[p] = n BY DEF Chosen
    <3> QED BY <1>7, <2>2, <3>1, <3>2, <3>3, <3>4, <3>5 DEF JobOK
  <2> QED BY <2>1, <2>2
<1>9. ReportOK'
  <2>1. ever' = ever /\ scan'.report = scan.report BY <1>1, <1>5
  <2>2. \A e \in scan.report : NamespaceOf[e.pod] \in Namespaces
    BY <1>2, WorkloadScanAssumption DEF ReportOK, Chosen
  <2>3. \A e \in scan.report : scan'.jobs[NamespaceOf[e.pod]].pc \notin {"none", "list"}
    BY <1>2, <1>5, <1>7, <2>2 DEF ReportOK
  <2> QED BY <1>2, <2>1, <2>3 DEF ReportOK
<1> QED BY <1>5, <1>6, <1>8, <1>9 DEF IInv, Scanning

\* An entry for a pod that was listed goes from the job to the report.
LEMMA AddStep ==
  ASSUME IInv, NEW n \in Namespaces, NEW listed \in scan.jobs[n].todo,
         JobAt(n, "owners"), AddPod(n, listed), UNCHANGED <<cluster, ever, always>>
  PROVE  IInv'
<1> DEFINE entry == [pod |-> listed.pod, workload |-> WorkloadOf(listed.pod),
                     containers |-> listed.containers]
           left == scan.jobs[n].todo \ {listed}
<1>1. scan.pc = "jobs" /\ scan.jobs[n].pc = "owners" BY DEF JobAt
<1>2. History /\ (\A m \in Namespaces : JobOK(m)) /\ ReportOK BY <1>1 DEF IInv, Scanning
<1>3. Moves(n, Job(left), scan.report \cup {entry}) BY DEF AddPod, Moves, IInv, Typed
<1> HIDE DEF entry
<1>4. /\ Typed' /\ scan'.pc = "jobs" /\ scan'.report = scan.report \cup {entry}
      /\ \A m \in Namespaces : scan'.jobs[m] = IF m = n THEN Job(left) ELSE scan.jobs[m]
  BY <1>1, <1>3, MovesFacts DEF IInv
<1>5. entry.pod = listed.pod /\ entry.workload = WorkloadOf(listed.pod)
      /\ entry.containers = listed.containers
  BY DEF entry
<1>6. Reported' = Reported \cup {listed.pod} BY <1>4, <1>5 DEF Reported
<1>7. Job(left).todo = left /\ Job(left).pc = IF left = {} THEN "done" ELSE "owners" BY DEF Job
<1>8. History' BY <1>1, <1>2, <1>4 DEF History, LivePods, live, cluster
<1>9. JobOK(n) /\ listed.pod \in Chosen(n) \cap ever /\ listed.pod \notin Reported
      /\ listed.containers \in Extracted(listed.pod) /\ NamespaceOf[listed.pod] = n
  BY <1>2 DEF JobOK, Chosen
<1>10. ASSUME NEW m \in Namespaces PROVE JobOK(m)'
  <2>1. CASE m # n
    <3>1. JobOK(m) BY <1>2
    <3>2. scan'.jobs[m] = scan.jobs[m] BY <1>4, <2>1
    <3>3. Listed(m)' = Listed(m) BY <3>2 DEF Listed
    <3>4. \A l \in scan.jobs[m].todo : l.pod \in Chosen(m) BY <3>1 DEF JobOK
    <3>5. listed.pod \notin Chosen(m) BY <1>9, <2>1 DEF Chosen
    <3> QED BY <1>6, <3>1, <3>2, <3>3, <3>4, <3>5 DEF JobOK
  <2>2. CASE m = n
    <3>1. scan'.jobs[n] = Job(left) BY <1>4
    <3>2. left \subseteq scan.jobs[n].todo /\ \A l \in left : l # listed OBVIOUS
    <3>3. \A l \in left : l.pod # listed.pod BY <1>9, <3>2 DEF JobOK
    <3>4. Listed(n) \subseteq Listed(n)' \cup {listed.pod} BY <1>7, <3>1 DEF Listed
    <3>5. always \cap Chosen(n) \subseteq Listed(n) \cup Reported BY <1>1, <1>9 DEF JobOK
    <3> HIDE DEF left
    <3> QED BY <1>6, <1>7, <1>9, <2>2, <3>1, <3>2, <3>3, <3>4, <3>5 DEF JobOK
  <2> QED BY <2>1, <2>2
<1>11. ReportOK'
  <2>1. ASSUME NEW e \in scan'.report
        PROVE  /\ e.pod \in Chosen(NamespaceOf[e.pod]) \cap ever
               /\ scan'.jobs[NamespaceOf[e.pod]].pc \notin {"none", "list"}
               /\ e.workload = WorkloadOf(e.pod) /\ e.containers \in Extracted(e.pod)
    <3>1. CASE e = entry BY <1>4, <1>5, <1>7, <1>9, <3>1
    <3>2. CASE e \in scan.report
      <4>1. NamespaceOf[e.pod] \in Namespaces
        BY <1>2, <3>2, WorkloadScanAssumption DEF ReportOK, Chosen
      <4> QED BY <1>2, <1>4, <1>7, <3>2, <4>1 DEF ReportOK
    <3> QED BY <1>4, <3>1, <3>2
  <2>2. ASSUME NEW e \in scan'.report, NEW f \in scan'.report, e.pod = f.pod PROVE e = f
    <3>1. \A g \in scan.report : g.pod \in Reported BY DEF Reported
    <3> QED BY <1>2, <1>4, <1>5, <1>9, <2>2, <3>1 DEF ReportOK
  <2> QED BY <2>1, <2>2 DEF ReportOK
<1> QED BY <1>4, <1>8, <1>10, <1>11 DEF IInv, Scanning

\* A pod is added, or the job fails and there will be no report.
LEMMA ProcessStep == ASSUME IInv, NEW n \in Namespaces, ProcessPod(n) PROVE IInv'
<1>1. JobAt(n, "owners") /\ UNCHANGED <<cluster, ever, always>> BY DEF ProcessPod
<1>2. (\E listed \in scan.jobs[n].todo : AddPod(n, listed)) \/ Becomes(n, FailedJob)
  BY DEF ProcessPod
<1>3. ASSUME Becomes(n, FailedJob) PROVE IInv'
  <2>1. scan.pc = "jobs" /\ scan.jobs[n].pc = "owners" BY <1>1 DEF JobAt
  <2>2. History /\ (\A m \in Namespaces : JobOK(m)) /\ ReportOK BY <2>1 DEF IInv, Scanning
  <2>3. Moves(n, FailedJob, scan.report) BY <1>3, BecomesMoves DEF IInv
  <2>4. /\ Typed' /\ scan'.pc = "jobs" /\ scan'.report = scan.report
        /\ \A m \in Namespaces : scan'.jobs[m] = IF m = n THEN FailedJob ELSE scan.jobs[m]
    BY <2>1, <2>3, MovesFacts DEF IInv
  <2>5. History' BY <1>1, <2>1, <2>2, <2>4 DEF History, LivePods, live, cluster
  <2>6. Reported' = Reported /\ ever' = ever /\ always' = always
    BY <1>1, <2>4 DEF Reported
  <2>7. ASSUME NEW m \in Namespaces PROVE JobOK(m)'
    <3>1. CASE m # n
      <4>1. JobOK(m) /\ scan'.jobs[m] = scan.jobs[m] BY <2>2, <2>4, <3>1
      <4>2. Listed(m)' = Listed(m) BY <4>1 DEF Listed
      <4> QED BY <2>6, <4>1, <4>2 DEF JobOK
    <3>2. CASE m = n BY <2>4, <3>2, NoScanFacts DEF JobOK
    <3> QED BY <3>1, <3>2
  <2>8. ReportOK'
    <3>1. \A e \in scan.report : NamespaceOf[e.pod] \in Namespaces
      BY <2>2, WorkloadScanAssumption DEF ReportOK, Chosen
    <3>2. \A e \in scan.report : scan'.jobs[NamespaceOf[e.pod]].pc \notin {"none", "list"}
      BY <2>2, <2>4, <3>1, NoScanFacts DEF ReportOK
    <3> QED BY <2>2, <2>4, <2>6, <3>2 DEF ReportOK
  <2> QED BY <2>4, <2>5, <2>7, <2>8 DEF IInv, Scanning
<1> QED BY <1>1, <1>2, <1>3, AddStep

\* A report is exported only when all jobs are done.
LEMMA WaitStep == ASSUME IInv, Wait PROVE IInv'
<1>1. CASE Ends BY <1>1, NoScanIdle DEF Ends
<1>2. CASE /\ \A n \in Namespaces : scan.jobs[n].pc # "failed"
           /\ scan' = [scan EXCEPT !.pc = "export"] /\ UNCHANGED <<ever, always>>
  <2>1. /\ scan.pc = "jobs" /\ UNCHANGED cluster
        /\ \A n \in Namespaces : scan.jobs[n].pc \notin {"list", "owners"}
    BY DEF Wait, At
  <2>2. History /\ (\A m \in Namespaces : JobOK(m)) /\ ReportOK BY <2>1 DEF IInv, Scanning
  <2>3. /\ scan'.pc = "export" /\ scan'.jobs = scan.jobs /\ scan'.report = scan.report
        /\ scan' = [pc |-> scan'.pc, jobs |-> scan'.jobs, report |-> scan'.report]
    BY <1>2 DEF IInv, Typed
  <2>4. Typed' /\ History'
    BY <1>2, <2>1, <2>2, <2>3 DEF IInv, Typed, History, LivePods, live, cluster
  <2>5. \A n \in Namespaces : JobOK(n)'
    BY <1>2, <2>2, <2>3 DEF JobOK, Listed, Reported
  <2>6. ReportOK' BY <1>2, <2>2, <2>3 DEF ReportOK
  <2>7. \A n \in Namespaces : scan'.jobs[n].pc \in {"none", "done"}
    BY <1>2, <2>1, <2>2, <2>3 DEF JobOK
  <2> QED BY <2>3, <2>4, <2>5, <2>6, <2>7 DEF IInv, Scanning
<1> QED BY <1>1, <1>2 DEF Wait

\* Objects that come and go change only what was there all the time, and at some.
LEMMA ClusterStep ==
  ASSUME IInv, UNCHANGED scan, scan.pc # "idle" => ever \subseteq ever',
         always' \subseteq always, History'
  PROVE  IInv'
<1>1. Typed' BY DEF IInv, Typed
<1>2. CASE scan.pc = "idle" BY <1>1, <1>2 DEF IInv, Scanning
<1>3. CASE scan.pc # "idle"
  <2>1. ever \subseteq ever' BY <1>3
  <2>2. \A n \in Namespaces : JobOK(n) => JobOK(n)' BY <2>1 DEF JobOK, Listed, Reported
  <2>3. ReportOK => ReportOK' BY <2>1 DEF ReportOK
  <2> QED BY <1>1, <2>2, <2>3 DEF IInv, Scanning
<1> QED BY <1>2, <1>3

LEMMA CreateStep == ASSUME IInv, NEW o, Create(o) PROVE IInv'
<1>1. /\ born' = born \cup {o} /\ UNCHANGED <<gone, scan, always>>
      /\ scan.pc # "idle" => ever' = ever \cup ({o} \cap Pods)
  BY DEF Create, At
<1>2. History' BY <1>1 DEF IInv, History, LivePods, live
<1> QED BY <1>1, <1>2, ClusterStep

LEMMA DeleteStep == ASSUME IInv, NEW o, Delete(o) PROVE IInv'
<1>1. gone' = gone \cup {o} /\ always' = always \ {o} /\ UNCHANGED <<born, scan, ever>>
  BY DEF Delete
<1>2. History' BY <1>1 DEF IInv, History, LivePods, live
<1> QED BY <1>1, <1>2, ClusterStep

\* Each step of the scanner and of the cluster preserves it.
LEMMA InvStep == IInv /\ [Next]_vars => IInv'
<1> SUFFICES ASSUME IInv, [Next]_vars PROVE IInv' OBVIOUS
<1>1. CASE Scanner
  <2>1. CASE ExportWorkloadsReports
    BY <2>1, NoScanIdle DEF ExportWorkloadsReports, Ends
  <2> QED BY <1>1, <2>1, StartStep, RunStep, WaitStep, ListStep, ProcessStep DEF Scanner
<1>2. CASE Cluster
  BY <1>2, CreateStep, DeleteStep DEF Cluster, DeleteNamespace
<1>3. CASE UNCHANGED vars
  <2>1. History' BY <1>3 DEF vars, cluster, IInv, History, LivePods, live
  <2> QED BY <1>3, <2>1, ClusterStep DEF vars
<1> QED BY <1>1, <1>2, <1>3 DEF Next

----------------------------------------------------------------------------
(* Owners. *)

LessThan == {pair \in Nat \X Nat : pair[1] < pair[2]}

\* The order of the naturals, as the library wants it.
LEMMA LessThanWF == IsWellFoundedOn(LessThan, Nat)
<1>1. OpToRel(<, Nat) = LessThan BY Zenon DEF OpToRel, LessThan
<1> QED BY Zenon, <1>1, NatLessThanWellFounded

\* There is a first one.
LEMMA LeastExists ==
  ASSUME NEW S \in SUBSET Nat, S # {}
  PROVE  \E i \in S : \A j \in S : i <= j
<1>1. PICK i \in S : \A j \in S : <<j, i>> \notin LessThan BY LessThanWF, WFMin
<1>2. ASSUME NEW j \in S PROVE i <= j
  <2>1. i \in Nat /\ j \in Nat /\ <<j, i>> \in Nat \X Nat OBVIOUS
  <2>2. ~(j < i) BY <1>1, <2>1 DEF LessThan
  <2> QED BY <2>1, <2>2
<1> QED BY <1>2

\* A sequence is indexed by naturals.
LEMMA DomainFacts ==
  ASSUME NEW S, NEW s \in Seq(S)
  PROVE  DOMAIN s = 1 .. Len(s) /\ Len(s) \in Nat /\ DOMAIN s \subseteq Nat
<1>1. DOMAIN s = 1 .. Len(s) /\ Len(s) \in Nat OBVIOUS
<1>2. 1 .. Len(s) \subseteq Nat BY <1>1
<1> QED BY <1>1, <1>2

\* FirstOf finds a reference of one of the kinds unless there is none.
LEMMA FirstFacts ==
  ASSUME NEW S, NEW refs \in Seq(S), NEW kinds, "" \notin kinds
  PROVE  \/ /\ FirstOf(refs, kinds) = NoOwner
            /\ \A i \in DOMAIN refs : refs[i].kind \notin kinds
         \/ \E i \in DOMAIN refs : /\ FirstOf(refs, kinds) = refs[i] /\ refs[i] # NoOwner
                                  /\ refs[i].kind \in kinds
<1> DEFINE found == {i \in DOMAIN refs : refs[i].kind \in kinds}
<1>1. FirstOf(refs, kinds) = IF found = {} THEN NoOwner
                             ELSE refs[CHOOSE i \in found : \A j \in found : i <= j]
  BY DEF FirstOf
<1>2. found \subseteq Nat
  <2>1. DOMAIN refs \subseteq Nat BY DomainFacts
  <2> QED BY Zenon, <2>1
<1>3. ASSUME found # {}
      PROVE  (CHOOSE i \in found : \A j \in found : i <= j) \in found
  <2>1. \E i \in found : \A j \in found : i <= j BY <1>2, <1>3, LeastExists
  <2> HIDE DEF found
  <2> QED BY <2>1
<1>4. NoOwner.kind = "" BY DEF NoOwner
<1> QED BY <1>1, <1>3, <1>4

\* The owner references of an object, as a set.
Refs(o) == {OwnersOf[o][i] : i \in DOMAIN OwnersOf[o]}

\* The workload of a pod is one it belongs to, if there is any.
LEMMA OwnerFacts ==
  ASSUME NEW p \in Pods
  PROVE  LET w == WorkloadOf(p)
             kinds == {ref.kind : ref \in Ancestors(p)}
         IN IF kinds \cap AllWorkloads = {} THEN w.kind = "Pod" ELSE w \in Ancestors(p)
<1> DEFINE refs == OwnersOf[p]
           set == ReplicaSetOf(refs)
           own == ExtractOwnerRef(refs)
           deployment == ExtractOwnerRef(OwnersOf[set.name])
           kinds == {ref.kind : ref \in Ancestors(p)}
<1>1. refs \in Seq(Refs(p)) BY WorkloadScanAssumption DEF Refs
<1>2. "" \notin AllWorkloads /\ "ReplicaSet" \in AllWorkloads BY DEF AllWorkloads
<1>3. \/ own = NoOwner /\ \A i \in DOMAIN refs : refs[i].kind \notin AllWorkloads
      \/ \E i \in DOMAIN refs : own = refs[i] /\ own # NoOwner /\ own.kind \in AllWorkloads
  BY <1>1, <1>2, FirstFacts DEF ExtractOwnerRef
<1>4. \/ set = NoOwner /\ \A i \in DOMAIN refs : refs[i].kind # "ReplicaSet"
      \/ \E i \in DOMAIN refs : set = refs[i] /\ set # NoOwner /\ set.kind = "ReplicaSet"
  <2>1. "" \notin {"ReplicaSet"} OBVIOUS
  <2>2. \/ set = NoOwner /\ \A i \in DOMAIN refs : refs[i].kind \notin {"ReplicaSet"}
        \/ \E i \in DOMAIN refs : set = refs[i] /\ set # NoOwner /\ set.kind \in {"ReplicaSet"}
    BY <1>1, <2>1, FirstFacts DEF ReplicaSetOf
  <2> QED BY <2>2
<1>5. WorkloadOf(p) =
        LET owner == IF set = NoOwner \/ deployment = NoOwner THEN own ELSE deployment
        IN IF owner = NoOwner THEN [kind |-> "Pod", name |-> p] ELSE owner
  BY DEF WorkloadOf, GetOwner, RefsOf
<1>6. \A i \in DOMAIN refs : refs[i] \in Ancestors(p) /\ refs[i].kind \in kinds
  BY DEF Ancestors
<1>7. CASE set = NoOwner
  <2>1. \A i \in DOMAIN refs : refs[i].name \notin ReplicaSets
    BY <1>4, <1>7, WorkloadScanAssumption
  <2>2. Ancestors(p) = {refs[i] : i \in DOMAIN refs} BY <2>1 DEF Ancestors
  <2> HIDE DEF set, own, deployment
  <2>3. CASE own = NoOwner
    <3>1. kinds \cap AllWorkloads = {} BY <1>3, <2>2, <2>3
    <3> QED BY <1>5, <1>7, <2>3, <3>1
  <2>4. CASE own # NoOwner BY <1>3, <1>5, <1>6, <1>7, <2>4
  <2> QED BY <2>3, <2>4
<1>8. CASE set # NoOwner
  <2>1. PICK i \in DOMAIN refs : set = refs[i] /\ set.kind = "ReplicaSet" BY <1>4, <1>8
  <2>2. set.name \in ReplicaSets BY <2>1, WorkloadScanAssumption
  <2>3. OwnersOf[set.name] \in Seq(Refs(set.name)) BY <2>2, WorkloadScanAssumption DEF Refs
  <2>4. deployment = NoOwner \/ \E k \in DOMAIN OwnersOf[set.name] :
                                    deployment = OwnersOf[set.name][k]
    BY <1>2, <2>3, FirstFacts DEF ExtractOwnerRef
  <2>5. \A k \in DOMAIN OwnersOf[set.name] : OwnersOf[set.name][k] \in Ancestors(p)
    BY <2>1, <2>2 DEF Ancestors
  <2>6. own # NoOwner /\ kinds \cap AllWorkloads # {} BY <1>2, <1>3, <1>6, <2>1
  <2>7. own \in Ancestors(p) BY <1>3, <1>6, <2>6
  <2> HIDE DEF set, own, deployment
  <2> QED BY <1>5, <1>8, <2>4, <2>5, <2>6, <2>7
<1> QED BY <1>7, <1>8

\* No object has two owners that are workloads: Kubernetes gives one a single
\* controller. Of two the code takes the first, which may not be the Deployment.
OneOwner ==
  \A o \in Pods \cup ReplicaSets : \A i, j \in DOMAIN OwnersOf[o] :
    OwnersOf[o][i].kind \in AllWorkloads /\ OwnersOf[o][j].kind \in AllWorkloads => i = j

\* A pod that has a Deployment comes under it.
LEMMA DeploymentFacts ==
  ASSUME OneOwner, NEW p \in Pods,
         "Deployment" \in {ref.kind : ref \in Ancestors(p)}
  PROVE  WorkloadOf(p).kind = "Deployment"
<1> DEFINE refs == OwnersOf[p]
           set == ReplicaSetOf(refs)
           own == ExtractOwnerRef(refs)
           deployment == ExtractOwnerRef(OwnersOf[set.name])
<1>1. refs \in Seq(Refs(p)) BY WorkloadScanAssumption DEF Refs
<1>2. "" \notin AllWorkloads /\ "ReplicaSet" \in AllWorkloads /\ "Deployment" \in AllWorkloads
  BY DEF AllWorkloads
<1>3. \/ own = NoOwner /\ \A i \in DOMAIN refs : refs[i].kind \notin AllWorkloads
      \/ \E i \in DOMAIN refs : own = refs[i] /\ own # NoOwner /\ own.kind \in AllWorkloads
  BY <1>1, <1>2, FirstFacts DEF ExtractOwnerRef
<1>4. \/ set = NoOwner /\ \A i \in DOMAIN refs : refs[i].kind # "ReplicaSet"
      \/ \E i \in DOMAIN refs : set = refs[i] /\ set # NoOwner /\ set.kind = "ReplicaSet"
  <2>1. "" \notin {"ReplicaSet"} OBVIOUS
  <2>2. \/ set = NoOwner /\ \A i \in DOMAIN refs : refs[i].kind \notin {"ReplicaSet"}
        \/ \E i \in DOMAIN refs : set = refs[i] /\ set # NoOwner /\ set.kind \in {"ReplicaSet"}
    BY <1>1, <2>1, FirstFacts DEF ReplicaSetOf
  <2> QED BY <2>2
<1>5. WorkloadOf(p) =
        LET owner == IF set = NoOwner \/ deployment = NoOwner THEN own ELSE deployment
        IN IF owner = NoOwner THEN [kind |-> "Pod", name |-> p] ELSE owner
  BY DEF WorkloadOf, GetOwner, RefsOf
<1>6. CASE \E i \in DOMAIN refs : refs[i].kind = "Deployment"
  <2>1. PICK i \in DOMAIN refs : refs[i].kind = "Deployment" BY <1>6
  <2>2. \A j \in DOMAIN refs : refs[j].kind \in AllWorkloads => j = i
    BY <1>2, <2>1 DEF OneOwner
  <2>3. set = NoOwner BY <1>2, <1>4, <2>1, <2>2
  <2>4. own = refs[i] /\ own # NoOwner BY <1>2, <1>3, <2>1, <2>2
  <2> HIDE DEF set, own, deployment
  <2> QED BY <1>5, <2>1, <2>3, <2>4
<1>7. CASE \A i \in DOMAIN refs : refs[i].kind # "Deployment"
  <2>1. PICK i \in DOMAIN refs, s \in ReplicaSets :
          refs[i].name = s /\ \E k \in DOMAIN OwnersOf[s] : OwnersOf[s][k].kind = "Deployment"
    BY <1>7 DEF Ancestors
  <2>2. PICK k \in DOMAIN OwnersOf[s] : OwnersOf[s][k].kind = "Deployment" BY <2>1
  <2>3. refs[i].kind = "ReplicaSet" BY <2>1, WorkloadScanAssumption
  <2>4. \A j \in DOMAIN refs : refs[j].kind \in AllWorkloads => j = i
    BY <1>2, <2>3 DEF OneOwner
  <2>5. set # NoOwner /\ set = refs[i] BY <1>2, <1>4, <2>3, <2>4
  <2>6. OwnersOf[s] \in Seq(Refs(s)) BY WorkloadScanAssumption DEF Refs
  <2>7. \A j \in DOMAIN OwnersOf[s] : OwnersOf[s][j].kind \in AllWorkloads => j = k
    BY <1>2, <2>2 DEF OneOwner
  <2>8. ExtractOwnerRef(OwnersOf[s]) = OwnersOf[s][k] /\ ExtractOwnerRef(OwnersOf[s]) # NoOwner
    <3> DEFINE d == OwnersOf[s]
    <3>1. \/ /\ FirstOf(d, AllWorkloads) = NoOwner
             /\ \A j \in DOMAIN d : d[j].kind \notin AllWorkloads
          \/ \E j \in DOMAIN d : /\ FirstOf(d, AllWorkloads) = d[j] /\ d[j] # NoOwner
                                /\ d[j].kind \in AllWorkloads
      BY <1>2, <2>6, FirstFacts
    <3> QED BY <1>2, <2>2, <2>7, <3>1 DEF ExtractOwnerRef
  <2>9. deployment = OwnersOf[s][k] /\ deployment # NoOwner BY <2>1, <2>5, <2>8
  <2> HIDE DEF set, own, deployment
  <2> QED BY <1>5, <2>2, <2>5, <2>9
<1> QED BY <1>6, <1>7

----------------------------------------------------------------------------
(* Containers. *)

\* Among is well defined: it grows by one element of the spec at a time.
LEMMA AmongGrows ==
  ASSUME NEW S, NEW s \in Seq(S), NEW T
  PROVE  \E f : /\ Among(s, T) = f[Len(s)] /\ f[0] = <<>>
               /\ \A n \in 1 .. Len(s) :
                    f[n] = IF s[n] \in T THEN Append(f[n - 1], s[n]) ELSE f[n - 1]
<1> DEFINE Value(f, n) == IF n = 0 THEN <<>>
                          ELSE IF s[n] \in T THEN Append(f[n - 1], s[n]) ELSE f[n - 1]
           UpTo(f, k) == f = [n \in 0 .. k |-> Value(f, n)]
           none == {k \in 0 .. Len(s) : ~ \E f : UpTo(f, k)}
<1>1. Len(s) \in Nat BY DomainFacts
<1>2. none = {}
  <2> SUFFICES ASSUME none # {} PROVE FALSE OBVIOUS
  <2>1. none \subseteq Nat BY <1>1
  <2>2. PICK k \in none : \A j \in none : k <= j BY <2>1, LeastExists
  <2>3. k \in 0 .. Len(s) /\ ~ \E f : UpTo(f, k) OBVIOUS
  <2>4. CASE k = 0
    <3>1. UpTo([n \in 0 .. 0 |-> <<>>], 0) OBVIOUS
    <3> QED BY <2>3, <2>4, <3>1
  <2>5. CASE k # 0
    <3>1. k - 1 \in 0 .. Len(s) /\ ~(k <= k - 1) BY <1>1, <2>3, <2>5
    <3>2. PICK f : UpTo(f, k - 1)
      <4> HIDE DEF Value, UpTo
      <4>1. k - 1 \notin none
        <5> HIDE DEF none
        <5> QED BY <2>2, <3>1
      <4> QED BY <3>1, <4>1
    <3> DEFINE g == [n \in 0 .. k |-> IF n = k THEN Value(f, k) ELSE f[n]]
    <3>3. \A n \in 0 .. k - 1 : g[n] = f[n] BY <1>1, <2>3
    <3>4. ASSUME NEW n \in 0 .. k PROVE g[n] = Value(g, n)
      <4>1. CASE n = k
        <5>1. g[k] = Value(f, k) BY <2>3, <4>1
        <5>2. k - 1 \in 0 .. k - 1 BY <1>1, <2>3, <2>5
        <5>3. g[k - 1] = f[k - 1] BY <3>3, <5>2
        <5> QED BY <2>5, <4>1, <5>1, <5>3
      <4>2. CASE n # k
        <5>1. n \in 0 .. k - 1 BY <1>1, <2>3, <4>2
        <5>2. g[n] = f[n] BY <3>3, <5>1
        <5>3. f[n] = Value(f, n) BY <3>2, <5>1
        <5>4. n # 0 => g[n - 1] = f[n - 1] BY <1>1, <2>3, <3>3, <5>1
        <5> HIDE DEF g
        <5> QED BY <5>2, <5>3, <5>4
      <4> QED BY <4>1, <4>2
    <3>5. g = [n \in 0 .. k |-> g[n]] OBVIOUS
    <3> HIDE DEF g
    <3>6. UpTo(g, k) BY <3>4, <3>5
    <3> QED BY <2>3, <3>6
  <2> QED BY <2>4, <2>5
<1>3. \E f : UpTo(f, Len(s))
  <2>1. Len(s) \in 0 .. Len(s) BY <1>1
  <2> HIDE DEF Value, UpTo
  <2> QED BY <1>2, <2>1
<1> DEFINE f == CHOOSE f : UpTo(f, Len(s))
<1>4. UpTo(f, Len(s)) BY <1>3
<1>5. Among(s, T) = f[Len(s)] BY DEF Among
<1> HIDE DEF f
<1>6. f[0] = <<>> BY <1>1, <1>4
<1>7. ASSUME NEW n \in 1 .. Len(s)
      PROVE  f[n] = IF s[n] \in T THEN Append(f[n - 1], s[n]) ELSE f[n - 1]
  <2>1. n \in 0 .. Len(s) /\ n # 0 BY <1>1
  <2>2. f[n] = Value(f, n) BY <1>4, <2>1
  <2> QED BY <2>1, <2>2
<1> QED BY <1>5, <1>6, <1>7

\* What is in a sequence, and what Append and \o make of it.
Elements(q) == {q[i] : i \in DOMAIN q}

LEMMA AppendFacts ==
  ASSUME NEW S, NEW q \in Seq(S), NEW x \in S
  PROVE  /\ Append(q, x) \in Seq(S) /\ Len(Append(q, x)) = Len(q) + 1
         /\ Elements(Append(q, x)) = Elements(q) \cup {x}
<1> DEFINE r == Append(q, x)
<1>1. /\ r \in Seq(S) /\ Len(r) = Len(q) + 1 /\ Len(q) \in Nat
      /\ r[Len(q) + 1] = x /\ \A i \in 1 .. Len(q) : r[i] = q[i]
  OBVIOUS
<1>2. DOMAIN q = 1 .. Len(q) /\ DOMAIN r = 1 .. Len(r) BY <1>1, DomainFacts
<1> HIDE DEF r
<1>3. 1 .. Len(r) = (1 .. Len(q)) \cup {Len(q) + 1} BY <1>1
<1>4. Elements(r) = Elements(q) \cup {x} BY <1>1, <1>2, <1>3 DEF Elements
<1> QED BY <1>1, <1>4 DEF r

LEMMA ConcatFacts ==
  ASSUME NEW S, NEW q \in Seq(S), NEW r \in Seq(S)
  PROVE  /\ q \o r \in Seq(S) /\ Len(q \o r) = Len(q) + Len(r)
         /\ Elements(q \o r) = Elements(q) \cup Elements(r)
<1> DEFINE t == q \o r
<1>1. /\ t \in Seq(S) /\ Len(t) = Len(q) + Len(r) /\ Len(q) \in Nat /\ Len(r) \in Nat
      /\ \A i \in 1 .. Len(q) : t[i] = q[i]
      /\ \A i \in Len(q) + 1 .. Len(q) + Len(r) : t[i] = r[i - Len(q)]
  OBVIOUS
<1>2. /\ DOMAIN q = 1 .. Len(q) /\ DOMAIN r = 1 .. Len(r) /\ DOMAIN t = 1 .. Len(t)
  BY <1>1, DomainFacts
<1> HIDE DEF t
<1>3. Elements(t) \subseteq Elements(q) \cup Elements(r)
  <2> SUFFICES ASSUME NEW i \in 1 .. Len(t) PROVE t[i] \in Elements(q) \cup Elements(r)
    BY <1>2 DEF Elements
  <2>1. CASE i \in 1 .. Len(q) BY <1>1, <1>2, <2>1 DEF Elements
  <2>2. CASE i \notin 1 .. Len(q)
    <3>1. i \in Len(q) + 1 .. Len(q) + Len(r) /\ i - Len(q) \in 1 .. Len(r) BY <1>1, <2>2
    <3> QED BY <1>1, <1>2, <3>1 DEF Elements
  <2> QED BY <2>1, <2>2
<1>4. Elements(q) \subseteq Elements(t)
  <2> SUFFICES ASSUME NEW i \in 1 .. Len(q) PROVE q[i] \in Elements(t) BY <1>2 DEF Elements
  <2>1. i \in 1 .. Len(t) /\ t[i] = q[i] BY <1>1
  <2> QED BY <1>2, <2>1 DEF Elements
<1>5. Elements(r) \subseteq Elements(t)
  <2> SUFFICES ASSUME NEW i \in 1 .. Len(r) PROVE r[i] \in Elements(t) BY <1>2 DEF Elements
  <2> DEFINE k == i + Len(q)
  <2>1. /\ k \in 1 .. Len(t) /\ k \in Len(q) + 1 .. Len(q) + Len(r) /\ k - Len(q) = i
    BY <1>1
  <2> HIDE DEF k
  <2>2. t[k] = r[i] BY <1>1, <2>1
  <2> QED BY <1>2, <2>1, <2>2 DEF Elements
<1> QED BY <1>1, <1>3, <1>4, <1>5 DEF t

\* A spec that is divided into four comes out whole.
LEMMA PartsFacts ==
  ASSUME NEW S, NEW s \in Seq(S), NEW A, NEW B, NEW C, NEW D,
         \A x \in S : \/ x \in A /\ x \notin B /\ x \notin C /\ x \notin D
                      \/ x \notin A /\ x \in B /\ x \notin C /\ x \notin D
                      \/ x \notin A /\ x \notin B /\ x \in C /\ x \notin D
                      \/ x \notin A /\ x \notin B /\ x \notin C /\ x \in D
  PROVE  LET all == Among(s, A) \o Among(s, B) \o Among(s, C) \o Among(s, D)
         IN Len(all) = Len(s) /\ Elements(all) = Elements(s)
<1>1. Len(s) \in Nat /\ DOMAIN s = 1 .. Len(s) /\ \A i \in 1 .. Len(s) : s[i] \in S
  BY DomainFacts
<1> DEFINE Grows(f, T) == f[0] = <<>> /\ \A n \in 1 .. Len(s) :
                            f[n] = IF s[n] \in T THEN Append(f[n - 1], s[n]) ELSE f[n - 1]
<1>0. ASSUME NEW T PROVE \E f : Among(s, T) = f[Len(s)] /\ Grows(f, T)
  <2>1. \E f : /\ Among(s, T) = f[Len(s)] /\ f[0] = <<>>
               /\ \A n \in 1 .. Len(s) :
                    f[n] = IF s[n] \in T THEN Append(f[n - 1], s[n]) ELSE f[n - 1]
    BY AmongGrows
  <2> QED BY <2>1
<1> HIDE DEF Grows
<1>2. PICK a : Among(s, A) = a[Len(s)] /\ Grows(a, A) BY <1>0, Zenon
<1>3. PICK b : Among(s, B) = b[Len(s)] /\ Grows(b, B) BY <1>0, Zenon
<1>4. PICK c : Among(s, C) = c[Len(s)] /\ Grows(c, C) BY <1>0, Zenon
<1>5. PICK d : Among(s, D) = d[Len(s)] /\ Grows(d, D) BY <1>0, Zenon
<1> USE DEF Grows
<1> DEFINE Whole(n) ==
             /\ a[n] \in Seq(S) /\ b[n] \in Seq(S) /\ c[n] \in Seq(S) /\ d[n] \in Seq(S)
             /\ Len(a[n]) + Len(b[n]) + Len(c[n]) + Len(d[n]) = n
             /\ Elements(a[n]) \cup Elements(b[n]) \cup Elements(c[n]) \cup Elements(d[n])
                  = {s[i] : i \in 1 .. n}
           broken == {n \in 0 .. Len(s) : ~Whole(n)}
<1>6. Whole(0)
  <2>1. a[0] = <<>> /\ b[0] = <<>> /\ c[0] = <<>> /\ d[0] = <<>> BY <1>2, <1>3, <1>4, <1>5
  <2>2. <<>> \in Seq(S) /\ Len(<<>>) = 0 /\ Elements(<<>>) = {} BY DEF Elements
  <2>3. {s[i] : i \in 1 .. 0} = {} OBVIOUS
  <2> QED BY <2>1, <2>2, <2>3
<1>7. ASSUME NEW n \in 1 .. Len(s), Whole(n - 1) PROVE Whole(n)
  <2> DEFINE x == s[n]
  <2>1. x \in S /\ n \in Nat /\ n - 1 \in Nat BY <1>1
  <2>2. {s[i] : i \in 1 .. n} = {s[i] : i \in 1 .. n - 1} \cup {x}
    <3>1. 1 .. n = (1 .. n - 1) \cup {n} BY <2>1
    <3> QED BY <3>1
  <2>3. /\ a[n] = IF x \in A THEN Append(a[n - 1], x) ELSE a[n - 1]
        /\ b[n] = IF x \in B THEN Append(b[n - 1], x) ELSE b[n - 1]
        /\ c[n] = IF x \in C THEN Append(c[n - 1], x) ELSE c[n - 1]
        /\ d[n] = IF x \in D THEN Append(d[n - 1], x) ELSE d[n - 1]
    BY <1>2, <1>3, <1>4, <1>5
  <2> HIDE DEF x
  <2>4. \A q \in Seq(S) : Len(q) \in Nat BY DomainFacts
  <2>5. \A q \in {a[n - 1], b[n - 1], c[n - 1], d[n - 1]} :
          /\ q \in Seq(S) /\ Append(q, x) \in Seq(S) /\ Len(Append(q, x)) = Len(q) + 1
          /\ Elements(Append(q, x)) = Elements(q) \cup {x} /\ Len(q) \in Nat
    BY <1>7, <2>1, <2>4, AppendFacts
  <2>6. /\ a[n] \in Seq(S) /\ b[n] \in Seq(S) /\ c[n] \in Seq(S) /\ d[n] \in Seq(S)
    BY <1>7, <2>3, <2>5
  <2>7. Len(a[n]) + Len(b[n]) + Len(c[n]) + Len(d[n]) = n
    <3> DEFINE la == Len(a[n])
               lb == Len(b[n])
               lc == Len(c[n])
               ld == Len(d[n])
               ka == Len(a[n - 1])
               kb == Len(b[n - 1])
               kc == Len(c[n - 1])
               kd == Len(d[n - 1])
    <3>1. ka + kb + kc + kd = n - 1 BY <1>7
    <3>2. /\ la = IF x \in A THEN ka + 1 ELSE ka
          /\ lb = IF x \in B THEN kb + 1 ELSE kb
          /\ lc = IF x \in C THEN kc + 1 ELSE kc
          /\ ld = IF x \in D THEN kd + 1 ELSE kd
      BY <2>3, <2>5
    <3>3. ka \in Nat /\ kb \in Nat /\ kc \in Nat /\ kd \in Nat BY <2>5
    <3> HIDE DEF la, lb, lc, ld, ka, kb, kc, kd
    <3>4. ASSUME x \in A /\ x \notin B /\ x \notin C /\ x \notin D
          PROVE  la + lb + lc + ld = n
      BY <2>1, <3>1, <3>2, <3>3, <3>4
    <3>5. ASSUME x \notin A /\ x \in B /\ x \notin C /\ x \notin D
          PROVE  la + lb + lc + ld = n
      BY <2>1, <3>1, <3>2, <3>3, <3>5
    <3>6. ASSUME x \notin A /\ x \notin B /\ x \in C /\ x \notin D
          PROVE  la + lb + lc + ld = n
      BY <2>1, <3>1, <3>2, <3>3, <3>6
    <3>7. ASSUME x \notin A /\ x \notin B /\ x \notin C /\ x \in D
          PROVE  la + lb + lc + ld = n
      BY <2>1, <3>1, <3>2, <3>3, <3>7
    <3>8. la + lb + lc + ld = n BY <2>1, <3>4, <3>5, <3>6, <3>7
    <3> QED BY <3>8 DEF la, lb, lc, ld
  <2>8. Elements(a[n]) \cup Elements(b[n]) \cup Elements(c[n]) \cup Elements(d[n])
          = {s[i] : i \in 1 .. n - 1} \cup {x}
    BY <1>7, <2>1, <2>3, <2>5
  <2> QED BY <2>2, <2>6, <2>7, <2>8
<1> HIDE DEF Whole
<1>8. broken = {}
  <2> SUFFICES ASSUME broken # {} PROVE FALSE OBVIOUS
  <2>1. broken \subseteq Nat BY <1>1
  <2>2. PICK n \in broken : \A j \in broken : n <= j BY <2>1, LeastExists
  <2>3. n \in 0 .. Len(s) /\ ~Whole(n) OBVIOUS
  <2>4. n \in 1 .. Len(s) /\ n - 1 \in 0 .. Len(s) /\ ~(n <= n - 1) BY <1>1, <1>6, <2>3
  <2>5. Whole(n - 1) BY <2>2, <2>4
  <2> QED BY <1>7, <2>3, <2>4, <2>5
<1>9. Whole(Len(s)) BY <1>1, <1>8
<1> DEFINE p == a[Len(s)]
           q == b[Len(s)]
           r == c[Len(s)]
           t == d[Len(s)]
<1>10. /\ p \in Seq(S) /\ q \in Seq(S) /\ r \in Seq(S) /\ t \in Seq(S)
       /\ Len(p) + Len(q) + Len(r) + Len(t) = Len(s)
       /\ Elements(p) \cup Elements(q) \cup Elements(r) \cup Elements(t) = Elements(s)
  BY <1>1, <1>9 DEF Whole, Elements
<1>11. /\ Among(s, A) = p /\ Among(s, B) = q /\ Among(s, C) = r /\ Among(s, D) = t
  BY <1>2, <1>3, <1>4, <1>5
<1> HIDE DEF p, q, r, t
<1>12. ASSUME NEW u \in Seq(S), NEW v \in Seq(S)
       PROVE  /\ u \o v \in Seq(S) /\ Len(u \o v) = Len(u) + Len(v)
              /\ Elements(u \o v) = Elements(u) \cup Elements(v)
  BY ConcatFacts
<1> DEFINE pq == p \o q
           pqr == pq \o r
           pqrt == pqr \o t
<1>13. pq \in Seq(S) /\ Len(pq) = Len(p) + Len(q) /\ Elements(pq) = Elements(p) \cup Elements(q)
  BY <1>10, <1>12, Zenon
<1> HIDE DEF pq
<1>14. /\ pqr \in Seq(S) /\ Len(pqr) = Len(pq) + Len(r)
       /\ Elements(pqr) = Elements(pq) \cup Elements(r)
  BY <1>10, <1>12, <1>13, Zenon
<1> HIDE DEF pqr
<1>15. Len(pqrt) = Len(pqr) + Len(t) /\ Elements(pqrt) = Elements(pqr) \cup Elements(t)
  BY <1>10, <1>12, <1>14, Zenon
<1> HIDE DEF pqrt
<1>16. Len(pqrt) = Len(s) BY <1>10, <1>13, <1>14, <1>15
<1>17. Elements(pqrt) = Elements(s) BY <1>10, <1>13, <1>14, <1>15
<1> QED BY <1>11, <1>16, <1>17 DEF pq, pqr, pqrt

\* extractContainers leaves out no container of a pod and repeats none.
LEMMA ExtractedFacts ==
  ASSUME NEW p \in Pods, NEW containers \in Extracted(p)
  PROVE  Names(containers) = Names(ContainersOf[p]) /\ Len(containers) = Len(ContainersOf[p])
<1> DEFINE spec == ContainersOf[p]
           S == {spec[i] : i \in DOMAIN spec}
<1>1. spec \in Seq(S) /\ \A x \in S : x.init \in BOOLEAN BY WorkloadScanAssumption
<1>2. PICK started : containers = ExtractContainers(spec, started) BY DEF Extracted
<1> DEFINE Part(isStarted, isInit) ==
             {c \in S : (c.name \in started) = isStarted /\ c.init = isInit}
<1>3. containers = Among(spec, Part(TRUE, FALSE)) \o Among(spec, Part(TRUE, TRUE))
                     \o Among(spec, Part(FALSE, FALSE)) \o Among(spec, Part(FALSE, TRUE))
  BY <1>2 DEF ExtractContainers
<1>4. \A x \in S : x \in Part(TRUE, FALSE) <=> x.name \in started /\ x.init = FALSE OBVIOUS
<1>5. \A x \in S : x \in Part(TRUE, TRUE) <=> x.name \in started /\ x.init = TRUE OBVIOUS
<1>6. \A x \in S : x \in Part(FALSE, FALSE) <=> x.name \notin started /\ x.init = FALSE OBVIOUS
<1>7. \A x \in S : x \in Part(FALSE, TRUE) <=> x.name \notin started /\ x.init = TRUE OBVIOUS
<1> HIDE DEF Part, S
<1>8. Len(containers) = Len(spec) /\ Elements(containers) = Elements(spec)
  <2> DEFINE A == Part(TRUE, FALSE)
             B == Part(TRUE, TRUE)
             C == Part(FALSE, FALSE)
             D == Part(FALSE, TRUE)
  <2>1. \A x \in S :
                      \/ x \in A /\ x \notin B /\ x \notin C /\ x \notin D
                      \/ x \notin A /\ x \in B /\ x \notin C /\ x \notin D
                      \/ x \notin A /\ x \notin B /\ x \in C /\ x \notin D
                      \/ x \notin A /\ x \notin B /\ x \notin C /\ x \in D
    <3> TAKE x \in S
    <3>1. x.init = TRUE \/ x.init = FALSE BY <1>1
    <3>2. x \in A <=> x.name \in started /\ x.init = FALSE BY <1>4, Zenon
    <3>3. x \in B <=> x.name \in started /\ x.init = TRUE BY <1>5, Zenon
    <3>4. x \in C <=> x.name \notin started /\ x.init = FALSE BY <1>6, Zenon
    <3>5. x \in D <=> x.name \notin started /\ x.init = TRUE BY <1>7, Zenon
    <3> HIDE DEF A, B, C, D
    <3> QED BY <3>1, <3>2, <3>3, <3>4, <3>5
  <2> HIDE DEF A, B, C, D
  <2>2. LET all == Among(spec, A) \o Among(spec, B) \o Among(spec, C) \o Among(spec, D)
        IN Len(all) = Len(spec) /\ Elements(all) = Elements(spec)
    BY <1>1, <2>1, PartsFacts
  <2> QED BY <1>3, <2>2 DEF A, B, C, D
<1>9. Names(containers) = {x.name : x \in Elements(containers)}
      /\ Names(spec) = {x.name : x \in Elements(spec)}
  BY DEF Names, Elements
<1> QED BY <1>8, <1>9

----------------------------------------------------------------------------
\* At the export the invariant says what the report has to be.
LEMMA ExactIfInv == ASSUME OneOwner, IInv PROVE ReportIsExact
<1> SUFFICES ASSUME scan.pc = "export" PROVE ReportIsExact BY DEF ReportIsExact, At
<1> DEFINE in == {n \in Namespaces : scan.jobs[n].pc # "none"}
           chosen == {p \in Pods : NamespaceOf[p] \in in /\ Selects(WorkloadSelector, Labels[p])}
<1>1. (\A n \in Namespaces : JobOK(n)) /\ ReportOK
      /\ \A n \in Namespaces : scan.jobs[n].pc \in {"none", "done"}
  BY DEF IInv, Scanning
<1>2. ASSUME NEW p \in always \cap chosen PROVE p \in Reported
  <2>1. p \in Chosen(NamespaceOf[p]) /\ NamespaceOf[p] \in Namespaces
        /\ scan.jobs[NamespaceOf[p]].pc = "done"
    BY <1>1 DEF Chosen
  <2>2. Listed(NamespaceOf[p]) = {} BY <1>1, <2>1 DEF Listed, JobOK
  <2> QED BY <1>1, <2>1, <2>2 DEF JobOK
<1>3. ASSUME NEW entry \in scan.report
      PROVE  /\ entry.pod \in Pods /\ entry.pod \in ever \cap chosen
             /\ entry.workload = WorkloadOf(entry.pod) /\ entry.containers \in Extracted(entry.pod)
  <2>1. entry.pod \in Chosen(NamespaceOf[entry.pod]) \cap ever BY <1>1 DEF ReportOK
  <2>2. entry.pod \in Pods /\ NamespaceOf[entry.pod] \in Namespaces
    BY <2>1, WorkloadScanAssumption DEF Chosen
  <2> QED BY <1>1, <2>1, <2>2 DEF ReportOK, Chosen
<1>4. \A entry, other \in scan.report : entry.pod = other.pod => entry = other
  BY <1>1 DEF ReportOK
<1>5. ASSUME NEW entry \in scan.report
      PROVE  LET p == entry.pod
                 kinds == {ref.kind : ref \in Ancestors(p)}
             IN /\ Names(entry.containers) = Names(ContainersOf[p])
                /\ Len(entry.containers) = Len(ContainersOf[p])
                /\ IF kinds \cap AllWorkloads = {} THEN entry.workload.kind = "Pod"
                   ELSE entry.workload \in Ancestors(p)
                /\ "Deployment" \in kinds => entry.workload.kind = "Deployment"
  BY <1>3, ExtractedFacts, OwnerFacts, DeploymentFacts
<1>6. Reported \subseteq ever \cap chosen BY <1>3 DEF Reported
<1> HIDE DEF in, chosen
<1> QED BY <1>2, <1>4, <1>5, <1>6 DEF ReportIsExact, Reported, in, chosen

\* A report that is exported has every pod there was all the time of its scan, none
\* that was not there at any, once, with each of its containers once, and under one
\* of its owners, the Deployment if it has one: whatever happened to pods, ReplicaSets
\* and namespaces between the calls of CollectWorkloads.
THEOREM ReportExact == ASSUME OneOwner PROVE Spec => []ReportIsExact
<1>1. IInv => ReportIsExact BY ExactIfInv
<1> QED BY <1>1, InitIInv, InvStep, PTL DEF Spec

============================================================================
