------------------------------ MODULE Collector ------------------------------
(***************************************************************************)
(* What the workload collector, which all scanners share, makes of the     *)
(* objects it lists: which of them a label selector chooses, whose pod a   *)
(* pod is, and which containers it has.                                    *)
(*                                                                         *)
(* A selector is a record of matchLabels, a set of labels, and             *)
(* matchExpressions, a set of requirements, each of which is the set of    *)
(* labels that meet it.                                                    *)
(***************************************************************************)
EXTENDS Naturals, Sequences

----------------------------------------------------------------------------
\* The selector that Add returns with a requirement is dropped.
ConvertLabelSelector(selector) == [selector EXCEPT !.matchExpressions = {}]

Matches(selector, labels) ==
  /\ selector.matchLabels \subseteq labels
  /\ \A requirement \in selector.matchExpressions : requirement \cap labels # {}

Selects(selector, labels) == Matches(ConvertLabelSelector(selector), labels)

----------------------------------------------------------------------------
\* An object refers to its owners by kind and name.
AllWorkloads == {"Deployment", "ReplicaSet", "StatefulSet", "DaemonSet", "CronJob", "Job"}

NoOwner == [kind |-> "", name |-> ""]

\* The first reference to an owner of one of these kinds.
FirstOf(refs, kinds) ==
  LET found == {i \in DOMAIN refs : refs[i].kind \in kinds}
  IN IF found = {} THEN NoOwner ELSE refs[CHOOSE i \in found : \A j \in found : i <= j]

ExtractOwnerRef(refs) == FirstOf(refs, AllWorkloads)
ReplicaSetOf(refs) == FirstOf(refs, {"ReplicaSet"})

\* The owner of a pod's ReplicaSet if that has one, or else the pod's own.
GetOwner(refs, ownersOf) ==
  LET set == ReplicaSetOf(refs)
      deployment == IF set = NoOwner THEN NoOwner ELSE ExtractOwnerRef(ownersOf[set.name])
  IN IF deployment = NoOwner THEN ExtractOwnerRef(refs) ELSE deployment

\* The containers among those of the spec, in the order of the spec.
Among(spec, containers) ==
  LET upTo[n \in 0 .. Len(spec)] ==
        IF n = 0 THEN <<>>
        ELSE IF spec[n] \in containers THEN Append(upTo[n - 1], spec[n]) ELSE upTo[n - 1]
  IN upTo[Len(spec)]

\* The containers the status knows, which have an image ID, before the others; of
\* both, the init containers come last.
ExtractContainers(spec, started) ==
  LET Part(isStarted, isInit) ==
        Among(spec, {c \in {spec[i] : i \in DOMAIN spec} :
                       (c.name \in started) = isStarted /\ c.init = isInit})
  IN Part(TRUE, FALSE) \o Part(TRUE, TRUE) \o Part(FALSE, FALSE) \o Part(FALSE, TRUE)

=============================================================================
