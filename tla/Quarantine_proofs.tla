-------------------------- MODULE Quarantine_proofs --------------------------
(***************************************************************************)
(* Proofs about Quarantine, for any workloads, pods and bounds, when scans *)
(* do not overlap (at most one run at a time). A labelled pod is isolated  *)
(* at all times: a run labels only while the policy is there, and removes  *)
(* the policy only while no pod is labelled, because in between nobody     *)
(* else labels one, however calls fail, scans are killed and pods come,    *)
(* go, or are written by others.                                           *)
(***************************************************************************)
EXTENDS Quarantine, TLAPS

\* Scans do not overlap.
OneRun == \A r, s \in Runs : r = s

\* What a run knows of the cluster at each of its steps.
Knows(r) ==
  /\ run[r].pc = "label" => np
  /\ run[r].pc \in {"get", "delete"} => Labelled = {}
  /\ run[r].pod # None => run[r].pc \in {"label", "unlabel"}

IInv == TypeOK /\ LabelledIsIsolated /\ \A r \in Runs : Knows(r)

----------------------------------------------------------------------------
\* A run between scans, or between workloads, knows nothing.
LEMMA DealtFacts ==
  ASSUME NEW l \in Locals
  PROVE  Dealt(l) \in Locals /\ Dealt(l).pc \in {"idle", "inspect"} /\ Dealt(l).pod = None
  BY DEF Dealt, Idle, Locals, PCs

\* After a pod the loop goes on, or is over; the labels are all there is to do
\* for Enforce.
LEMMA AfterFacts ==
  ASSUME NEW l \in Locals, NEW p \in Pods, l.pc \in {"label", "unlabel"}
  PROVE  /\ After(l, p) \in Locals /\ After(l, p).pod = None
         /\ After(l, p).pc \in {"idle", "inspect", "list", l.pc}
<1>1. CASE l.left # {p} BY <1>1 DEF After, Locals, PCs
<1>2. CASE l.left = {p} /\ l.pc = "label" BY <1>2, DealtFacts DEF After
<1>3. CASE l.left = {p} /\ l.pc = "unlabel" BY <1>3 DEF After, Locals, PCs
<1> QED BY <1>1, <1>2, <1>3

\* A disturbance is counted.
LEMMA DisturbFacts == TypeOK /\ (Disturb \/ UNCHANGED disturbed) => disturbed' \in Nat
  BY ConstantsAssumption DEF TypeOK, Disturb

\* A step of the only run, to locals l that say nothing wrong of the cluster.
LEMMA RunBecomes ==
  ASSUME OneRun, IInv, NEW r \in Runs, NEW l \in Locals, Becomes(r, l),
         pods' \in [Pods -> PodStates], np' \in BOOLEAN, stale' \subseteq Runs,
         UNCHANGED env, Disturb \/ UNCHANGED disturbed,
         Labelled' # {} => np',
         l.pc = "label" => np', l.pc \in {"get", "delete"} => Labelled' = {},
         l.pod # None => l.pc \in {"label", "unlabel"}
  PROVE  IInv'
<1>1. TypeOK BY DEF IInv
<1>2. run' \in [Runs -> Locals] /\ run'[r] = l BY <1>1 DEF TypeOK, Becomes
<1>3. TypeOK' BY <1>1, <1>2, DisturbFacts DEF TypeOK, env
<1>4. LabelledIsIsolated' BY DEF LabelledIsIsolated
<1>5. ASSUME NEW s \in Runs PROVE Knows(s)'
  <2>1. s = r BY DEF OneRun
  <2> QED BY <1>2, <2>1 DEF Knows
<1> QED BY <1>3, <1>4, <1>5 DEF IInv

\* The same, when nothing of the cluster changes.
LEMMA RunMoves ==
  ASSUME OneRun, IInv, NEW r \in Runs, NEW l \in Locals, Becomes(r, l),
         UNCHANGED <<pods, np>>, stale' \subseteq Runs,
         UNCHANGED env, Disturb \/ UNCHANGED disturbed,
         l.pc = "label" => np, l.pc \in {"get", "delete"} => Labelled = {},
         l.pod # None => l.pc \in {"label", "unlabel"}
  PROVE  IInv'
<1>1. pods' \in [Pods -> PodStates] /\ np' \in BOOLEAN BY DEF IInv, TypeOK
<1>2. Labelled' = Labelled /\ np' = np BY DEF Labelled
<1>3. Labelled' # {} => np' BY <1>2 DEF IInv, LabelledIsIsolated
<1> QED BY <1>1, <1>2, <1>3, RunBecomes

\* The run has dealt with a workload, or a call failed.
LEMMA RunDealt ==
  ASSUME OneRun, IInv, NEW r \in Runs, Becomes(r, Dealt(run[r])) \/ Failed(r),
         UNCHANGED <<pods, np>>, stale' \subseteq Runs,
         UNCHANGED env, Disturb \/ UNCHANGED disturbed
  PROVE  IInv'
<1>1. run[r] \in Locals BY DEF IInv, TypeOK
<1>2. Becomes(r, Dealt(run[r])) BY DEF Failed
<1> QED BY <1>1, <1>2, DealtFacts, RunMoves

----------------------------------------------------------------------------
\* Initially no pod is labelled.
LEMMA InitIInv == Init => IInv
<1> SUFFICES ASSUME Init PROVE IInv OBVIOUS
<1>1. Idle \in Locals /\ Idle.pc = "idle" /\ Idle.pod = None BY DEF Idle, Locals, PCs
<1>2. TypeOK BY <1>1 DEF Init, TypeOK, PodStates
<1>3. Labelled = {} BY DEF Init, Labelled
<1> QED BY <1>1, <1>2, <1>3 DEF Init, IInv, LabelledIsIsolated, Knows

\* The scan begins, inspects a workload, and looks at its pods.
LEMMA InspectStep ==
  ASSUME OneRun, IInv, NEW r \in Runs, Collect(r) \/ Inspect(r) \/ Check(r)
  PROVE  IInv'
<1>1. TypeOK /\ run[r] \in Locals /\ stale \subseteq Runs BY DEF IInv, TypeOK
<1>2. CASE Collect(r)
  <2> DEFINE present == {p \in Pods : pods[p] # "absent"}
             l == [Idle EXCEPT !.pc = "inspect", !.seen = present,
                               !.todo = {Owner[p] : p \in present}]
  <2>1. l \in Locals /\ l.pc = "inspect" /\ l.pod = None
    BY ConstantsAssumption DEF Idle, Locals, PCs
  <2>2. Becomes(r, l) /\ UNCHANGED <<world, env, disturbed>> BY <1>2 DEF Collect
  <2> QED BY <1>1, <2>1, <2>2, RunMoves DEF world
<1>3. CASE Inspect(r)
  <2>1. PICK w \in run[r].todo :
          LET l == [run[r] EXCEPT !.pc = "check", !.w = w, !.todo = @ \ {w},
                                  !.passed = w \in passes]
          IN Becomes(r, [l EXCEPT !.left = PodsOf(l)])
    BY <1>3 DEF Inspect
  <2> DEFINE l == [run[r] EXCEPT !.pc = "check", !.w = w, !.todo = @ \ {w},
                                 !.passed = w \in passes]
             k == [l EXCEPT !.left = PodsOf(l)]
  <2>2. l \in Locals
    <3> DEFINE v == w \in passes
    <3>1. v \in BOOLEAN OBVIOUS
    <3>2. w \in Workloads BY <1>1 DEF Locals
    <3>3. l = [run[r] EXCEPT !.pc = "check", !.w = w, !.todo = @ \ {w}, !.passed = v] OBVIOUS
    <3> HIDE DEF v, l
    <3> QED BY <1>1, <3>1, <3>2, <3>3 DEF Locals, PCs
  <2>3. run[r].pod = None BY <1>3 DEF Inspect, At, IInv, Knows
  <2>4. PodsOf(l) \subseteq Pods BY <2>2 DEF PodsOf, Locals
  <2>5. k \in Locals /\ k.pc = "check" /\ k.pod = None BY <1>1, <2>2, <2>3, <2>4 DEF Locals, PCs
  <2>6. Becomes(r, k) BY <2>1
  <2>7. UNCHANGED <<world, env, disturbed>> BY <1>3 DEF Inspect
  <2> HIDE DEF k, l
  <2> QED BY <1>1, <2>5, <2>6, <2>7, RunMoves DEF world
<1>4. CASE Check(r)
  <2> DEFINE l == run[r]
  <2>1. l.pod = None BY <1>4 DEF Check, At, IInv, Knows
  <2>2. UNCHANGED <<world, env>> BY <1>4 DEF Check
  <2>3. PodsOf(l) \subseteq Pods BY <1>1 DEF PodsOf, Locals
  <2>4. CASE Failed(r) BY <1>1, <2>2, <2>4, RunDealt DEF world, Failed
  <2>5. ASSUME NEW p \in l.left, NEW enforced \in BOOLEAN, UNCHANGED disturbed,
               Becomes(r,
                  IF pods[p] = "absent" THEN Dealt(l)
                  ELSE IF l.left \ {p} # {} THEN [l EXCEPT !.left = l.left \ {p}, !.enforced = enforced]
                  ELSE IF enforced # l.passed THEN Dealt(l)
                  ELSE [l EXCEPT !.left = PodsOf(l),
                                 !.pc = IF l.passed THEN "unlabel" ELSE "ensure"])
        PROVE  IInv'
    <3>1. CASE Becomes(r, Dealt(l)) BY <1>1, <2>2, <2>5, <3>1, RunDealt DEF world
    <3>2. CASE Becomes(r, [l EXCEPT !.left = l.left \ {p}, !.enforced = enforced])
      <4> DEFINE k == [l EXCEPT !.left = l.left \ {p}, !.enforced = enforced]
      <4>1. k \in Locals /\ k.pc = "check" /\ k.pod = None
        BY <1>1, <1>4, <2>1 DEF Locals, PCs, Check, At
      <4> HIDE DEF k
      <4> QED BY <1>1, <2>2, <2>5, <3>2, <4>1, RunMoves DEF world, k
    <3>3. CASE Becomes(r, [l EXCEPT !.left = PodsOf(l),
                                    !.pc = IF l.passed THEN "unlabel" ELSE "ensure"])
      <4> DEFINE k == [l EXCEPT !.left = PodsOf(l),
                                !.pc = IF l.passed THEN "unlabel" ELSE "ensure"]
      <4>1. k \in Locals /\ k.pc \in {"unlabel", "ensure"} /\ k.pod = None
        BY <1>1, <2>1, <2>3 DEF Locals, PCs
      <4>2. Becomes(r, k) BY <3>3
      <4> HIDE DEF k
      <4> QED BY <1>1, <2>2, <2>5, <4>1, <4>2, RunMoves DEF world
    <3> QED BY <2>5, <3>1, <3>2, <3>3
  <2>6. ASSUME NEW p \in l.left PROVE (l.enforced /\ pods[p] = "labelled") \in BOOLEAN
    BY <1>1 DEF Locals
  <2> QED BY <1>4, <2>4, <2>5, <2>6 DEF Check
<1> QED BY <1>2, <1>3, <1>4

\* The policy is looked for and created.
LEMMA EnsureStep ==
  ASSUME OneRun, IInv, NEW r \in Runs, Ensure(r) \/ CreatePolicy(r)
  PROVE  IInv'
<1>1. TypeOK /\ run[r] \in Locals /\ stale \subseteq Runs /\ np \in BOOLEAN
  BY DEF IInv, TypeOK
<1>2. run[r].pod = None BY DEF Ensure, CreatePolicy, At, IInv, Knows
<1> DEFINE k(pc) == [run[r] EXCEPT !.pc = pc]
<1>3. ASSUME NEW pc \in PCs PROVE k(pc) \in Locals /\ k(pc).pc = pc /\ k(pc).pod = None
  BY <1>1, <1>2 DEF Locals
<1>4. CASE Ensure(r)
  <2>1. UNCHANGED <<world, env>> BY <1>4 DEF Ensure
  <2>2. CASE Failed(r) BY <1>1, <2>1, <2>2, RunDealt DEF world, Failed
  <2>3. CASE GoTo(r, IF np THEN "label" ELSE "create") /\ UNCHANGED disturbed
    <3> DEFINE pc == IF np THEN "label" ELSE "create"
    <3>1. Becomes(r, k(pc)) BY <2>3 DEF GoTo
    <3>2. pc \in PCs /\ (pc = "label" => np) /\ pc \notin {"get", "delete"} BY DEF PCs
    <3> HIDE DEF pc, k
    <3> QED BY <1>1, <1>3, <2>1, <2>3, <3>1, <3>2, RunMoves DEF world
  <2> QED BY <1>4, <2>2, <2>3 DEF Ensure
<1>5. CASE CreatePolicy(r)
  <2>1. UNCHANGED <<pods, stale, env>> BY <1>5 DEF CreatePolicy
  <2>2. Labelled' = Labelled BY <2>1 DEF Labelled
  <2>3. np' \in BOOLEAN /\ (np => np') /\ (Disturb \/ UNCHANGED disturbed)
    <3>1. CASE np' = TRUE /\ UNCHANGED disturbed
      <4>1. np' \in BOOLEAN BY <3>1
      <4>2. np => np' BY <3>1
      <4> QED BY <3>1, <4>1, <4>2
    <3>2. CASE np /\ np' = np /\ UNCHANGED disturbed BY <1>1, <3>2
    <3>3. CASE np' \in {np, TRUE} /\ Failed(r)
      <4>1. np' = np \/ np' = TRUE BY <3>3
      <4>2. np' \in BOOLEAN BY <1>1, <4>1
      <4>3. np => np' BY <4>1
      <4> QED BY <3>3, <4>2, <4>3 DEF Failed
    <3> QED BY <1>5, <3>1, <3>2, <3>3 DEF CreatePolicy
  <2>4. Labelled' # {} => np' BY <2>2, <2>3 DEF IInv, LabelledIsIsolated
  <2>5. pods' \in [Pods -> PodStates] BY <1>1, <2>1 DEF TypeOK
  <2>6. CASE Becomes(r, Dealt(run[r]))
    BY <1>1, <2>1, <2>3, <2>4, <2>5, <2>6, DealtFacts, RunBecomes
  <2>7. CASE np' = TRUE /\ GoTo(r, "label")
    <3>1. Becomes(r, k("label")) /\ "label" \in PCs BY <2>7 DEF GoTo, PCs
    <3> HIDE DEF k
    <3> QED BY <1>1, <1>3, <2>1, <2>3, <2>4, <2>5, <2>7, <3>1, RunBecomes
  <2> QED BY <1>5, <2>6, <2>7 DEF CreatePolicy, Failed
<1> QED BY <1>4, <1>5

----------------------------------------------------------------------------
\* The loops: pods are labelled only while the policy is there.
LEMMA LoopStep ==
  ASSUME OneRun, IInv, NEW r \in Runs, GetPod(r) \/ PutPod(r)
  PROVE  IInv'
<1> DEFINE l == run[r]
<1>1. TypeOK /\ l \in Locals /\ stale \subseteq Runs /\ np \in BOOLEAN BY DEF IInv, TypeOK
<1>2. l.pc \in {"label", "unlabel"} BY DEF GetPod, PutPod, IInv, Knows
<1>3. l.pc = "label" => np BY DEF IInv, Knows
<1>4. CASE GetPod(r)
  <2>1. UNCHANGED <<pods, np, env>> /\ stale' \subseteq Runs BY <1>1, <1>4 DEF GetPod
  <2>2. CASE Failed(r) BY <2>1, <2>2, RunDealt DEF Failed
  <2>3. ASSUME NEW p \in l.left, UNCHANGED disturbed,
               Becomes(r, CASE pods[p] = "absent"  -> Dealt(l)
                            [] pods[p] = Target(l) -> After(l, p)
                            [] OTHER               -> [l EXCEPT !.pod = p])
        PROVE  IInv'
    <3>1. p \in Pods BY <1>1 DEF Locals
    <3>2. CASE Becomes(r, Dealt(l)) BY <2>1, <2>3, <3>2, RunDealt
    <3>3. CASE Becomes(r, After(l, p))
      BY <1>1, <1>2, <1>3, <2>1, <2>3, <3>1, <3>3, AfterFacts, RunMoves
    <3>4. CASE Becomes(r, [l EXCEPT !.pod = p])
      <4> DEFINE k == [l EXCEPT !.pod = p]
      <4>1. k \in Locals /\ k.pc = l.pc BY <1>1, <3>1 DEF Locals
      <4>2. Becomes(r, k) BY <3>4
      <4> HIDE DEF k
      <4> QED BY <1>2, <1>3, <2>1, <2>3, <4>1, <4>2, RunMoves
    <3> QED
      <4>1. CASE pods[p] = "absent" BY <2>3, <3>2, <4>1 DEF Target
      <4>2. CASE pods[p] # "absent" /\ pods[p] = Target(l) BY <2>3, <3>3, <4>2
      <4>3. CASE pods[p] # "absent" /\ pods[p] # Target(l) BY <2>3, <3>4, <4>3
      <4> QED BY <4>1, <4>2, <4>3
  <2> QED BY <1>4, <2>2, <2>3 DEF GetPod
<1>5. CASE PutPod(r)
  <2> DEFINE p == l.pod
  <2>1. p \in Pods BY <1>1, <1>5 DEF PutPod, Locals
  <2>2. np' = np /\ UNCHANGED env BY <1>5 DEF PutPod
  <2>3. stale' \subseteq Runs BY <1>1, <1>5 DEF PutPod, Write, Holders
  <2>4. \/ UNCHANGED pods
        \/ pods' = [pods EXCEPT ![p] = Target(l)]
    BY <1>5 DEF PutPod, Write
  <2>5. Target(l) \in PodStates /\ (Target(l) = "labelled" => l.pc = "label")
    BY DEF Target, PodStates
  <2>6. pods' \in [Pods -> PodStates] BY <1>1, <2>1, <2>4, <2>5 DEF TypeOK
  <2>7. Labelled' # {} => np'
    <3>1. CASE Target(l) = "labelled" BY <1>3, <2>2, <2>5, <3>1
    <3>2. CASE Target(l) # "labelled"
      <4>1. Labelled' \subseteq Labelled BY <1>1, <2>1, <2>4, <3>2 DEF Labelled, TypeOK
      <4> QED BY <2>2, <4>1 DEF IInv, LabelledIsIsolated
    <3> QED BY <3>1, <3>2
  <2>8. CASE Becomes(r, Dealt(l)) /\ (Disturb \/ UNCHANGED disturbed)
    BY <1>1, <2>2, <2>3, <2>6, <2>7, <2>8, DealtFacts, RunBecomes
  <2>9. CASE Becomes(r, After(l, p)) /\ UNCHANGED disturbed
    <3>1. After(l, p).pc = "label" => np' BY <1>1, <1>2, <1>3, <2>1, <2>2, AfterFacts
    <3>2. After(l, p).pc \notin {"get", "delete"} BY <1>1, <1>2, <2>1, AfterFacts
    <3> QED BY <1>1, <1>2, <2>1, <2>2, <2>3, <2>6, <2>7, <2>9, <3>1, <3>2, AfterFacts, RunBecomes
  <2> QED BY <1>5, <2>8, <2>9 DEF PutPod, Failed
<1> QED BY <1>4, <1>5

\* removeNetworkPolicy: while it runs no pod is labelled.
LEMMA RemoveStep ==
  ASSUME OneRun, IInv, NEW r \in Runs, List(r) \/ GetPolicy(r) \/ DeletePolicy(r)
  PROVE  IInv'
<1>1. TypeOK /\ run[r] \in Locals /\ stale \subseteq Runs /\ np \in BOOLEAN
  BY DEF IInv, TypeOK
<1>2. run[r].pod = None BY DEF List, GetPolicy, DeletePolicy, At, IInv, Knows
<1> DEFINE k(pc) == [run[r] EXCEPT !.pc = pc]
<1>3. ASSUME NEW pc \in PCs PROVE k(pc) \in Locals /\ k(pc).pc = pc /\ k(pc).pod = None
  BY <1>1, <1>2 DEF Locals
<1>4. ASSUME UNCHANGED <<world, env>>, Becomes(r, Dealt(run[r])), Disturb \/ UNCHANGED disturbed
      PROVE  IInv'
  BY <1>1, <1>4, RunDealt DEF world
<1>5. ASSUME UNCHANGED <<world, env, disturbed>>, Labelled = {}, NEW pc \in {"get", "delete"}, GoTo(r, pc)
      PROVE  IInv'
  <2>1. pc \in PCs BY <1>5 DEF PCs
  <2>2. Becomes(r, k(pc)) BY <1>5 DEF GoTo
  <2> HIDE DEF k
  <2> QED BY <1>1, <1>3, <1>5, <2>1, <2>2, RunMoves DEF world
<1>6. CASE List(r) BY <1>4, <1>5, <1>6 DEF List, Failed
<1>7. CASE GetPolicy(r)
  <2>1. Labelled = {} BY <1>7 DEF GetPolicy, At, IInv, Knows
  <2> QED BY <1>4, <1>5, <1>7, <2>1 DEF GetPolicy, Failed
<1>8. CASE DeletePolicy(r)
  <2>1. Labelled = {} BY <1>8 DEF DeletePolicy, At, IInv, Knows
  <2>2. UNCHANGED <<pods, stale, env>> /\ np' \in BOOLEAN BY <1>1, <1>8 DEF DeletePolicy
  <2>3. Labelled' = {} BY <2>1, <2>2 DEF Labelled
  <2>4. pods' \in [Pods -> PodStates] BY <1>1, <2>2 DEF TypeOK
  <2>5. Becomes(r, Dealt(run[r])) /\ (Disturb \/ UNCHANGED disturbed)
    BY <1>8 DEF DeletePolicy, Failed
  <2> QED BY <1>1, <2>2, <2>3, <2>4, <2>5, DealtFacts, RunBecomes
<1> QED BY <1>6, <1>7, <1>8

\* What else happens adds no label.
LEMMA WorldStep ==
  ASSUME IInv, \/ \E p \in Pods : Touch(p) \/ Churn(p)
               \/ \E w \in Workloads : Flip(w)
  PROVE  IInv'
<1>1. TypeOK BY DEF IInv
<1>2. np' = np /\ run' = run BY DEF Touch, Churn, Flip, world
<1>3. pods' \in [Pods -> PodStates] /\ Labelled' \subseteq Labelled
  BY <1>1 DEF Touch, Churn, Flip, world, TypeOK, PodStates, Labelled
<1>4. stale' \subseteq Runs BY <1>1 DEF Touch, Churn, Flip, world, TypeOK, Holders
<1>5. passes' \subseteq Workloads /\ flips' \in Nat /\ disturbed' \in Nat
  BY <1>1, DisturbFacts DEF Touch, Churn, Flip, env, TypeOK
<1>6. TypeOK' BY <1>1, <1>2, <1>3, <1>4, <1>5 DEF TypeOK
<1>7. LabelledIsIsolated' BY <1>2, <1>3 DEF IInv, LabelledIsIsolated
<1>8. \A r \in Runs : Knows(r)' BY <1>2, <1>3 DEF IInv, Knows
<1> QED BY <1>6, <1>7, <1>8 DEF IInv

\* Every step keeps the invariant.
LEMMA InvStep == ASSUME OneRun PROVE IInv /\ [Next]_vars => IInv'
<1> SUFFICES ASSUME IInv, [Next]_vars PROVE IInv' OBVIOUS
<1>1. ASSUME NEW r \in Runs, RunStep(r) PROVE IInv'
  BY <1>1, InspectStep, EnsureStep, LoopStep, RemoveStep DEF RunStep
<1>2. ASSUME NEW r \in Runs, Crash(r) PROVE IInv'
  <2>1. Idle \in Locals /\ Idle.pc = "idle" /\ Idle.pod = None BY DEF Idle, Locals, PCs
  <2>2. stale \subseteq Runs BY DEF IInv, TypeOK
  <2> QED BY <1>2, <2>1, <2>2, RunMoves DEF Crash, world
<1>3. CASE UNCHANGED vars
  BY <1>3 DEF vars, IInv, TypeOK, LabelledIsIsolated, Knows, Labelled
<1> QED BY <1>1, <1>2, <1>3, WorldStep DEF Next

\* Without overlapping scans, a pod that carries the quarantine labels is isolated by
\* the NetworkPolicy at every moment (Enforce, Revoke), for any workloads and pods,
\* whichever call fails, with or without its effect, and whenever a scan is killed.
THEOREM LabelledIsolated == ASSUME OneRun PROVE Spec => []LabelledIsIsolated
<1>1. IInv => LabelledIsIsolated BY DEF IInv
<1> QED BY <1>1, InitIInv, InvStep, PTL DEF Spec

\* Type correctness of the scan's locals and of the cluster.
THEOREM TypeCorrect == ASSUME OneRun PROVE Spec => []TypeOK
<1>1. IInv => TypeOK BY DEF IInv
<1> QED BY <1>1, InitIInv, InvStep, PTL DEF Spec

=============================================================================
