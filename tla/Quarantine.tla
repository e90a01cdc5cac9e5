---------------------------- MODULE Quarantine ----------------------------
(***************************************************************************)
(* The quarantine_vulnerable_workload action in one namespace: the runs of *)
(* the image scanner that inspect its workloads, the network-policy        *)
(* enforcer they call, and the pods and the deny-all NetworkPolicy in the  *)
(* Kubernetes API.                                                         *)
(*                                                                         *)
(* One step is one API call. The client is not cached, and an Update of a  *)
(* pod that changed since its Get is refused (resourceVersion): instead of *)
(* versions the model keeps the set of runs whose copy of a pod is stale.  *)
(***************************************************************************)
EXTENDS Naturals, FiniteSets

CONSTANTS
  Workloads,
  Pods,             \* pod names
  Owner,            \* the workload of each pod
  Runs,             \* scans that may overlap: of several policies, or of one
  None,             \* no pod, no workload
  MaxFlips,         \* bound on changes of a workload's verdict
  MaxDisturbances   \* bound on failing calls, crashes, pod writes and churn

ASSUME ConstantsAssumption ==
  /\ Owner \in [Pods -> Workloads]
  /\ None \notin Pods \cup Workloads
  /\ MaxFlips \in Nat /\ MaxDisturbances \in Nat

VARIABLES
  pods,             \* each pod: absent, plain, or with the two CNSI labels
  np,               \* the deny-all NetworkPolicy exists
  passes,           \* workloads an inspection would pass now
  run,              \* where each run is, and its local variables
  stale,            \* runs whose copy of a pod is older than the pod
  flips, disturbed  \* how often each happened, to bound them

vars == <<pods, np, passes, run, stale, flips, disturbed>>
world == <<pods, np, stale>>
env   == <<passes, flips>>

----------------------------------------------------------------------------
PodStates == {"absent", "plain", "labelled"}
Labelled == {p \in Pods : pods[p] = "labelled"}

PCs == {"idle", "inspect", "check", "ensure", "create", "label", "unlabel",
        "list", "get", "delete"}

\* seen: the pods CollectWorkloads listed. todo: workloads not inspected yet.
\* w, passed: the workload at hand and its verdict. left: its pods the present
\* loop has not reached. enforced: HasBeenEnforced so far. pod: a pod that was
\* read and is to be updated.
Locals == [pc : PCs, seen : SUBSET Pods, todo : SUBSET Workloads,
           w : Workloads \cup {None}, passed : BOOLEAN, left : SUBSET Pods,
           enforced : BOOLEAN, pod : Pods \cup {None}]

Idle == [pc |-> "idle", seen |-> {}, todo |-> {}, w |-> None, passed |-> TRUE,
         left |-> {}, enforced |-> TRUE, pod |-> None]

\* The pods of the workload at hand.
PodsOf(l) == {p \in l.seen : Owner[p] = l.w}

\* The workload is dealt with, or an error was logged: on to the next one. The
\* run forgets what it knew of this one.
Dealt(l) ==
  IF l.todo = {} THEN Idle
  ELSE [Idle EXCEPT !.pc = "inspect", !.seen = l.seen, !.todo = l.todo]

At(r, pc) == run[r].pc = pc
Becomes(r, l) == run' = [run EXCEPT ![r] = l]
GoTo(r, pc) == Becomes(r, [run[r] EXCEPT !.pc = pc])

\* The runs that hold a copy of pod p.
Holders(p) == {r \in Runs : run[r].pod = p}

Disturb == disturbed < MaxDisturbances /\ disturbed' = disturbed + 1

\* A call of run r fails; the error ends its work on this workload.
Failed(r) == Disturb /\ Becomes(r, Dealt(run[r]))

----------------------------------------------------------------------------
Init ==
  /\ pods \in [Pods -> {"absent", "plain"}]
  /\ np = FALSE
  /\ passes = Workloads
  /\ run = [r \in Runs |-> Idle]
  /\ stale = {}
  /\ flips = 0 /\ disturbed = 0

\* The CronJob starts a scan, which lists the pods of the namespace.
Collect(r) ==
  LET present == {p \in Pods : pods[p] # "absent"} IN
  /\ At(r, "idle") /\ present # {}
  /\ Becomes(r, [Idle EXCEPT !.pc = "inspect", !.seen = present,
                             !.todo = {Owner[p] : p \in present}])
  /\ UNCHANGED <<world, env, disturbed>>

\* inspect(wl): the verdict is read here and acted on in the steps that follow.
Inspect(r) ==
  /\ At(r, "inspect")
  /\ \E w \in run[r].todo :
       LET l == [run[r] EXCEPT !.pc = "check", !.w = w, !.todo = @ \ {w},
                               !.passed = w \in passes]
       IN Becomes(r, [l EXCEPT !.left = PodsOf(l)])
  /\ UNCHANGED <<world, env, disturbed>>

\* Mutant: one pod with the labels is enough.
CheckAny(r) ==
  LET l == run[r] IN
  /\ At(r, "check")
  /\ \/ \E p \in l.left :
          LET enforced == IF l.left = PodsOf(l) THEN pods[p] = "labelled"
                          ELSE l.enforced \/ pods[p] = "labelled"
              rest     == l.left \ {p}
          IN /\ Becomes(r,
                  IF pods[p] = "absent" THEN Dealt(l)
                  ELSE IF rest # {} THEN [l EXCEPT !.left = rest, !.enforced = enforced]
                  ELSE IF enforced # l.passed THEN Dealt(l)
                  ELSE [l EXCEPT !.left = PodsOf(l),
                                 !.pc = IF l.passed THEN "unlabel" ELSE "ensure"])
             /\ UNCHANGED disturbed
     \/ Failed(r)
  /\ UNCHANGED <<world, env>>

\* HasBeenEnforced gets one pod after the other. Enforce follows if the workload
\* failed and some pod lacks the labels, Revoke if it passed and none does.
Check(r) ==
  LET l == run[r] IN
  /\ At(r, "check")
  /\ \/ \E p \in l.left :
          LET enforced == l.enforced /\ pods[p] = "labelled"
              rest     == l.left \ {p}
          IN /\ Becomes(r,
                  IF pods[p] = "absent" THEN Dealt(l)
                  ELSE IF rest # {} THEN [l EXCEPT !.left = rest, !.enforced = enforced]
                  ELSE IF enforced # l.passed THEN Dealt(l)
                  ELSE [l EXCEPT !.left = PodsOf(l),
                                 !.pc = IF l.passed THEN "unlabel" ELSE "ensure"])
             /\ UNCHANGED disturbed
     \/ Failed(r)
  /\ UNCHANGED <<world, env>>

----------------------------------------------------------------------------
(* ensureNetworkPolicy. *)

Ensure(r) ==
  /\ At(r, "ensure")
  /\ \/ GoTo(r, IF np THEN "label" ELSE "create") /\ UNCHANGED disturbed
     \/ Failed(r)
  /\ UNCHANGED <<world, env>>

\* A policy another run created first is an error: AlreadyExists.
CreatePolicy(r) ==
  /\ At(r, "create")
  /\ \/ ~np /\ np' = TRUE /\ GoTo(r, "label") /\ UNCHANGED disturbed
     \/ np /\ np' = np /\ Becomes(r, Dealt(run[r])) /\ UNCHANGED disturbed
     \/ np' \in {np, TRUE} /\ Failed(r)
  /\ UNCHANGED <<pods, stale, env>>

----------------------------------------------------------------------------
(* The loops of Enforce and Revoke over the workload's pods. *)

\* Mutant: Revoke takes away one of the two labels.
TargetHalf(l) == IF l.pc = "label" THEN "labelled" ELSE "half-labelled"

Target(l) == IF l.pc = "label" THEN "labelled" ELSE "plain"

\* Mutant: Revoke leaves the policy alone.
AfterNoRemove(l, p) ==
  IF l.left # {p} THEN [l EXCEPT !.left = @ \ {p}, !.pod = None] ELSE Dealt(l)

\* Pod p is as it should be. After the last one Enforce is done, and Revoke goes
\* on to removeNetworkPolicy.
After(l, p) ==
  IF l.left # {p} THEN [l EXCEPT !.left = @ \ {p}, !.pod = None]
  ELSE IF l.pc = "label" THEN Dealt(l)
  ELSE [l EXCEPT !.left = {}, !.pod = None, !.pc = "list"]

GetPod(r) ==
  LET l == run[r] IN
  /\ l.pc \in {"label", "unlabel"} /\ l.pod = None
  /\ \/ \E p \in l.left :
          /\ Becomes(r, CASE pods[p] = "absent"  -> Dealt(l)
                          [] pods[p] = Target(l) -> After(l, p)
                          [] OTHER               -> [l EXCEPT !.pod = p])
          /\ stale' = stale \ {r}
          /\ UNCHANGED disturbed
     \/ Failed(r) /\ UNCHANGED stale
  /\ UNCHANGED <<pods, np, env>>

\* The Update. Whoever else holds a copy of the pod now has an old one.
Write(r, p, state) ==
  /\ pods' = [pods EXCEPT ![p] = state]
  /\ stale' = stale \cup (Holders(p) \ {r})

PutPod(r) ==
  LET l == run[r]
      p == l.pod IN
  /\ p # None
  /\ \/ /\ r \notin stale
        /\ Write(r, p, Target(l))
        /\ Becomes(r, After(l, p)) /\ UNCHANGED disturbed
     \/ /\ r \in stale
        /\ Becomes(r, Dealt(l)) /\ UNCHANGED <<pods, stale, disturbed>>
     \/ /\ Failed(r)
        /\ IF r \notin stale THEN Write(r, p, Target(l)) \/ UNCHANGED <<pods, stale>>
                             ELSE UNCHANGED <<pods, stale>>
  /\ UNCHANGED <<np, env>>

----------------------------------------------------------------------------
(* removeNetworkPolicy. *)

\* Mutant: the policy is removed whether or not other pods still need it.
ListUnread(r) ==
  /\ At(r, "list")
  /\ \/ GoTo(r, "get") /\ UNCHANGED disturbed
     \/ Failed(r)
  /\ UNCHANGED <<world, env>>

\* Pods with the labels anywhere in the namespace keep the policy in place.
List(r) ==
  /\ At(r, "list")
  /\ \/ /\ IF Labelled = {} THEN GoTo(r, "get") ELSE Becomes(r, Dealt(run[r]))
        /\ UNCHANGED disturbed
     \/ Failed(r)
  /\ UNCHANGED <<world, env>>

GetPolicy(r) ==
  /\ At(r, "get")
  /\ \/ /\ IF np THEN GoTo(r, "delete") ELSE Becomes(r, Dealt(run[r]))
        /\ UNCHANGED disturbed
     \/ Failed(r)
  /\ UNCHANGED <<world, env>>

\* Delete names the policy and has no precondition.
DeletePolicy(r) ==
  /\ At(r, "delete")
  /\ \/ np' = FALSE /\ Becomes(r, Dealt(run[r])) /\ UNCHANGED disturbed
     \/ np' \in {np, FALSE} /\ Failed(r)
  /\ UNCHANGED <<pods, stale, env>>

----------------------------------------------------------------------------
(* What else happens in the cluster. *)

\* The Job's pod is killed in the middle of a scan.
Crash(r) ==
  /\ ~At(r, "idle") /\ Disturb
  /\ Becomes(r, Idle)
  /\ UNCHANGED <<world, env>>

\* Someone else writes a pod between a run's Get and its Update, as the kubelet
\* does all the time.
Touch(p) ==
  /\ pods[p] # "absent" /\ Holders(p) \ stale # {} /\ Disturb
  /\ stale' = stale \cup Holders(p)
  /\ UNCHANGED <<pods, np, run, env>>

\* A pod is created from its template, without the labels; or goes.
Churn(p) ==
  /\ Disturb
  /\ pods' = [pods EXCEPT ![p] = IF @ = "absent" THEN "plain" ELSE "absent"]
  /\ stale' = stale \cup Holders(p)
  /\ UNCHANGED <<np, run, env>>

\* An image is replaced, or a vulnerability becomes known or is fixed.
Flip(w) ==
  /\ flips < MaxFlips /\ flips' = flips + 1
  /\ passes' = IF w \in passes THEN passes \ {w} ELSE passes \cup {w}
  /\ UNCHANGED <<world, run, disturbed>>

RunStep(r) ==
  \/ Collect(r) \/ Inspect(r) \/ Check(r)
  \/ Ensure(r) \/ CreatePolicy(r)
  \/ GetPod(r) \/ PutPod(r)
  \/ List(r) \/ GetPolicy(r) \/ DeletePolicy(r)

Next ==
  \/ \E r \in Runs : RunStep(r) \/ Crash(r)
  \/ \E p \in Pods : Touch(p) \/ Churn(p)
  \/ \E w \in Workloads : Flip(w)

Spec == Init /\ [][Next]_vars

\* The schedule starts scan after scan, and a scan goes on until it ends.
Fairness == \A r \in Runs : WF_vars(RunStep(r))

FairSpec == Spec /\ Fairness

----------------------------------------------------------------------------
TypeOK ==
  /\ pods \in [Pods -> PodStates]
  /\ np \in BOOLEAN
  /\ passes \subseteq Workloads
  /\ run \in [Runs -> Locals]
  /\ stale \subseteq Runs
  /\ flips \in Nat /\ disturbed \in Nat

\* "Make sure the root network policy existing": a pod that carries the labels
\* is isolated by the policy that selects them, at every moment. Enforce creates
\* the policy before it labels, and a run removes it only when no pod in the
\* namespace needs it.
LabelledIsIsolated == Labelled # {} => np

PodsIsolated(w) ==
  \A p \in Pods : Owner[p] = w /\ pods[p] # "absent" => pods[p] = "labelled" /\ np

PodsFree(w) == \A p \in Pods : Owner[p] = w => pods[p] # "labelled"

\* Once a workload fails its inspections for good and the cluster calms down, all
\* its pods are isolated for good, whatever was left half done before.
FailedIsQuarantined ==
  \A w \in Workloads : (<>[](w \notin passes)) => <>[]PodsIsolated(w)

\* If no call failed, no run crashed, and no pod was written by others, came or
\* went, then a workload that passes for good is released, and the policy goes
\* with the last one.
ReleasedIfUndisturbed ==
  [](disturbed = 0) =>
    /\ \A w \in Workloads : (<>[](w \in passes)) => <>[]PodsFree(w)
    /\ (<>[](passes = Workloads)) => <>[]~np

=============================================================================
