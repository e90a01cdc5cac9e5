--------------------------- MODULE MCWorkloadScan ---------------------------
(* A Deployment in the middle of a rollout, and a pod of a custom controller  *)
(* in a namespace of its own.                                                 *)
EXTENDS WorkloadScan

MCNamespaces == {"cnsi", "shop", "test"}
MCPods == {"web-1", "web-2", "rollout-1"}
MCReplicaSets == {"web-a", "web-b"}
MCNamespaceOf ==
  [o \in MCPods \cup MCReplicaSets |-> IF o = "rollout-1" THEN "test" ELSE "shop"]
Ref(kind, name) == [kind |-> kind, name |-> name]
MCOwnersOf ==
  [o \in MCPods \cup MCReplicaSets |->
     CASE o = "web-1" -> << Ref("ReplicaSet", "web-a") >>
       [] o = "web-2" -> << Ref("ReplicaSet", "web-b") >>
       [] o = "rollout-1" -> << Ref("Rollout", "blue") >>
       [] OTHER -> << Ref("Deployment", "web") >>]
MCContainersOf ==
  [p \in MCPods |->
     IF p = "web-1" THEN << [name |-> "init", init |-> TRUE], [name |-> "nginx", init |-> FALSE] >>
     ELSE << [name |-> "main", init |-> FALSE] >>]
MCLabels == [x \in MCNamespaces \cup MCPods |-> {"prod"}]
MCSelector == [matchLabels |-> {"prod"}, matchExpressions |-> {}]

=============================================================================
