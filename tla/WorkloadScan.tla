----------------------------- MODULE WorkloadScan -----------------------------
(***************************************************************************)
(* The workload scanner. A CronJob starts its scans. A scan lists the      *)
(* namespaces and gives the goroutine pool one job for each, which lists   *)
(* the pods of the namespace and gets the ReplicaSet of every pod that has *)
(* one, to learn its Deployment. When all jobs are done without an error   *)
(* the report is exported. The image scanner collects in the same way.     *)
(*                                                                         *)
(* Meanwhile the cluster changes. One step is one call to the API server.  *)
(***************************************************************************)
EXTENDS Collector

CONSTANTS
  Namespaces, WorkNamespace, Pods, ReplicaSets,
  NamespaceOf,         \* of pods and ReplicaSets
  OwnersOf,            \* the owner references of pods and ReplicaSets
  ContainersOf,        \* of the spec of each pod
  Labels,              \* of namespaces and pods
  NamespaceSelector, WorkloadSelector,
  MaxFaults            \* bound on calls that fail

\* An owner of kind ReplicaSet is known by its name, and no other owner has that name.
ASSUME WorkloadScanAssumption ==
  /\ WorkNamespace \in Namespaces
  /\ NamespaceOf \in [Pods \cup ReplicaSets -> Namespaces]
  /\ \A o \in Pods \cup ReplicaSets :
       /\ OwnersOf[o] \in Seq({OwnersOf[o][i] : i \in DOMAIN OwnersOf[o]})
       /\ \A i \in DOMAIN OwnersOf[o] :
            OwnersOf[o][i].kind = "ReplicaSet" <=> OwnersOf[o][i].name \in ReplicaSets
  /\ \A p \in Pods :
       /\ ContainersOf[p] \in Seq({ContainersOf[p][i] : i \in DOMAIN ContainersOf[p]})
       /\ \A i \in DOMAIN ContainersOf[p] : ContainersOf[p][i].init \in BOOLEAN
  /\ MaxFaults \in Nat

VARIABLES
  born, gone,          \* the objects that were ever created, and deleted
  scan,                \* the scanner: its step, its variables and its jobs
  exported,            \* what the last report the exporter took says
  ever, always,        \* history: the pods there were at some time of the scan,
                       \* and all the time
  faults

cluster == <<born, gone>>
vars == <<cluster, scan, exported, ever, always, faults>>

----------------------------------------------------------------------------
Objects == Namespaces \cup Pods \cup ReplicaSets
live == born \ gone
LivePods == live \cap Pods

RefsOf(o) == OwnersOf[o]

\* The name of each object's ReplicaSet.
SetOf == [o \in Pods \cup ReplicaSets |-> ReplicaSetOf(RefsOf(o)).name]
Names(containers) == {containers[i].name : i \in DOMAIN containers}

\* A job lists the pods, then gets the owners of those that are left: todo, with the
\* containers of each.
NoJob == [pc |-> "none", todo |-> {}]
Job(todo) == [pc |-> IF todo = {} THEN "done" ELSE "owners", todo |-> todo]
FailedJob == [NoJob EXCEPT !.pc = "failed"]

NoScan == [pc |-> "idle", jobs |-> [n \in Namespaces |-> NoJob], report |-> {}]

At(pc) == scan.pc = pc
JobAt(n, pc) == scan.pc = "jobs" /\ scan.jobs[n].pc = pc
Fault == faults < MaxFaults /\ faults' = faults + 1

\* A scan ends, and its history with it.
Ends == scan' = NoScan /\ ever' = {} /\ always' = {}

----------------------------------------------------------------------------
\* Every pod's ReplicaSet was there before it.
Init ==
  /\ \E pods \in SUBSET Pods :
       born = Namespaces \cup pods
                \cup {s \in ReplicaSets : \E p \in pods : SetOf[p] = s}
  /\ gone = {}
  /\ scan = NoScan /\ exported = {} /\ ever = {} /\ always = {}
  /\ faults = 0

Start ==
  /\ At("idle")
  /\ scan' = [NoScan EXCEPT !.pc = "namespaces"]
  /\ ever' = LivePods /\ always' = LivePods
  /\ UNCHANGED <<cluster, exported, faults>>

\* CollectNamespaces, and the plan of the pool.
Collected ==
  {n \in live \cap Namespaces : Selects(NamespaceSelector, Labels[n])} \ {WorkNamespace}

Plan ==
  [n \in Namespaces |-> IF n \in Collected THEN [NoJob EXCEPT !.pc = "list"] ELSE NoJob]

\* Mutant: without a namespace nothing is exported.
RunQuietly ==
  /\ At("namespaces")
  /\ IF Collected = {} THEN Ends
     ELSE scan' = [scan EXCEPT !.pc = "jobs", !.jobs = Plan] /\ UNCHANGED <<ever, always>>
  /\ UNCHANGED <<cluster, exported, faults>>

\* Run: without a namespace an empty report is exported.
Run ==
  /\ At("namespaces")
  /\ \/ /\ scan' = [scan EXCEPT !.pc = IF Collected = {} THEN "export" ELSE "jobs",
                                !.jobs = Plan]
        /\ UNCHANGED <<ever, always, faults>>
     \/ Fault /\ Ends
  /\ UNCHANGED <<cluster, exported>>

Becomes(n, job) == scan' = [scan EXCEPT !.jobs[n] = job]

\* CollectWorkloads lists the pods; the status of each knows some of its containers.
ListPods(n) ==
  LET pods == {p \in LivePods : NamespaceOf[p] = n /\ Selects(WorkloadSelector, Labels[p])} IN
  /\ JobAt(n, "list")
  /\ \/ /\ \E started \in [pods -> SUBSET UNION {Names(ContainersOf[p]) : p \in pods}] :
             /\ \A p \in pods : started[p] \subseteq Names(ContainersOf[p])
             /\ Becomes(n, Job({[pod |-> p,
                  containers |-> ExtractContainers(ContainersOf[p], started[p])] : p \in pods}))
        /\ UNCHANGED faults
     \/ Fault /\ Becomes(n, FailedJob)
  /\ UNCHANGED <<cluster, exported, ever, always>>

\* A pod without an owner that is a workload makes one of its own.
WorkloadOf(p) ==
  LET owner == GetOwner(RefsOf(p), OwnersOf)
  IN IF owner = NoOwner THEN [kind |-> "Pod", name |-> p] ELSE owner

AddPod(n, listed) ==
  scan' = [scan EXCEPT !.jobs[n] = Job(@.todo \ {listed}),
                       !.report = @ \cup {[pod |-> listed.pod, workload |-> WorkloadOf(listed.pod),
                                           containers |-> listed.containers]}]

\* processPod. A ReplicaSet that cannot be read, or is gone since, fails the job.
ProcessPod(n) ==
  /\ JobAt(n, "owners")
  /\ \E listed \in scan.jobs[n].todo :
       LET set == SetOf[listed.pod] IN
       \/ (set \in ReplicaSets => set \in live) /\ AddPod(n, listed) /\ UNCHANGED faults
       \/ set \in ReplicaSets \ live /\ Becomes(n, FailedJob) /\ UNCHANGED faults
       \/ set \in ReplicaSets /\ Fault /\ Becomes(n, FailedJob)
  /\ UNCHANGED <<cluster, exported, ever, always>>

\* Mutant: the error of a job is not looked at.
WaitForAll ==
  /\ At("jobs") /\ \A n \in Namespaces : scan.jobs[n].pc \notin {"list", "owners"}
  /\ scan' = [scan EXCEPT !.pc = "export"] /\ UNCHANGED <<ever, always>>
  /\ UNCHANGED <<cluster, exported, faults>>

\* The pool answers when all jobs are done; an error of any leaves no report.
Wait ==
  /\ At("jobs") /\ \A n \in Namespaces : scan.jobs[n].pc \notin {"list", "owners"}
  /\ IF \E n \in Namespaces : scan.jobs[n].pc = "failed" THEN Ends
     ELSE scan' = [scan EXCEPT !.pc = "export"] /\ UNCHANGED <<ever, always>>
  /\ UNCHANGED <<cluster, exported, faults>>

\* ExportWorkloadsReports: an error is only logged.
ExportWorkloadsReports ==
  /\ At("export") /\ Ends
  /\ \/ exported' = scan.report /\ UNCHANGED faults
     \/ Fault /\ UNCHANGED exported
  /\ UNCHANGED cluster

Scanner ==
  \/ Start \/ Run \/ Wait \/ ExportWorkloadsReports
  \/ \E n \in Namespaces : ListPods(n) \/ ProcessPod(n)

----------------------------------------------------------------------------
\* The cluster. A new pod's ReplicaSet and namespace exist; a pod or a ReplicaSet
\* may be deleted by anybody, and a namespace that is empty, but not the scanner's.
Create(o) ==
  /\ o \in (Pods \cup ReplicaSets) \ born /\ NamespaceOf[o] \in live
  /\ SetOf[o] \in ReplicaSets => SetOf[o] \in live
  /\ born' = born \cup {o}
  /\ ever' = IF At("idle") THEN {} ELSE ever \cup ({o} \cap Pods)
  /\ UNCHANGED <<gone, scan, exported, always, faults>>

Delete(o) ==
  /\ o \in live /\ gone' = gone \cup {o} /\ always' = always \ {o}
  /\ UNCHANGED <<born, scan, exported, ever, faults>>

DeleteNamespace(n) ==
  /\ n # WorkNamespace
  /\ \A o \in (Pods \cup ReplicaSets) \cap live : NamespaceOf[o] # n
  /\ Delete(n)

\* The garbage collector: a ReplicaSet goes before its pods.
CollectGarbage(p) ==
  /\ p \in Pods /\ SetOf[p] \in gone
  /\ Delete(p)

Cluster ==
  \/ \E o \in Pods \cup ReplicaSets : Create(o) \/ Delete(o)
  \/ \E n \in Namespaces : DeleteNamespace(n)

Next == Scanner \/ Cluster

\* The CronJob keeps starting scans, a scan goes on, and Kubernetes collects its
\* garbage.
Fairness == WF_vars(Scanner) /\ \A p \in Pods : WF_vars(CollectGarbage(p))

Spec == Init /\ [][Next]_vars /\ Fairness

----------------------------------------------------------------------------
\* Whom a pod belongs to: its owners, and theirs if they are ReplicaSets.
Ancestors(p) ==
  LET owners == {OwnersOf[p][i] : i \in DOMAIN OwnersOf[p]} IN
  owners \cup UNION {{OwnersOf[s][i] : i \in DOMAIN OwnersOf[s]} :
                       s \in {ref.name : ref \in owners} \cap ReplicaSets}

\* A report has every pod there was all the time of its scan, and none there was
\* not at any, once, with each of its containers once, and under one of the
\* workloads it belongs to: its Deployment if it has one, so that the pods of
\* two ReplicaSets of a rollout come under the same workload.
ReportIsExact ==
  At("export") =>
    LET in == {n \in Namespaces : scan.jobs[n].pc # "none"}
        chosen == {p \in Pods : NamespaceOf[p] \in in /\ Selects(WorkloadSelector, Labels[p])}
        reported == {entry.pod : entry \in scan.report}
    IN /\ always \cap chosen \subseteq reported /\ reported \subseteq ever \cap chosen
       /\ \A entry, other \in scan.report : entry.pod = other.pod => entry = other
       /\ \A entry \in scan.report :
            LET p == entry.pod
                kinds == {ref.kind : ref \in Ancestors(p)}
            IN /\ Names(entry.containers) = Names(ContainersOf[p])
               /\ Len(entry.containers) = Len(ContainersOf[p])
               /\ IF kinds \cap AllWorkloads = {} THEN entry.workload.kind = "Pod"
                  ELSE entry.workload \in Ancestors(p)
               /\ "Deployment" \in kinds => entry.workload.kind = "Deployment"

\* However many scans fail on a ReplicaSet that went before its pods, when the
\* cluster has settled (an object is created and deleted once) the exporter gets a
\* report of the pods there are, also when the last namespace is gone.
ReportsSettle ==
  <>[]({entry.pod : entry \in exported} =
         {p \in LivePods : NamespaceOf[p] \in Collected /\ Selects(WorkloadSelector, Labels[p])})

=============================================================================
