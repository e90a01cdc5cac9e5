----------------------------- MODULE MCPkgLoad -----------------------------
(* One node with three containers in two namespaces, the image of one named   *)
(* by digest only, and two packages of one name, the first of which is in use. *)
(* A matchExpression asks for the label that only one of the namespaces has.   *)
EXTENDS PkgLoad

MCNamespaces == {"cnsi", "shop", "test"}
MCContainers == {"web", "batch", "pinned"}
MCImages == {"nginx"}
MCNamespaceOf == [web |-> "shop", batch |-> "shop", pinned |-> "test"]
MCImageOf == [web |-> "nginx", batch |-> "nginx", pinned |-> "nginx"]
MCLabels ==
  [cnsi |-> {"team"}, shop |-> {"team", "prod"}, test |-> {"team"},
   web |-> {}, batch |-> {}, pinned |-> {}]
MCNamespaceSelector == [matchLabels |-> {"team"}, matchExpressions |-> {{"prod"}}]
MCWorkloadSelector == [matchLabels |-> {}, matchExpressions |-> {}]

MCFound ==
  [nginx |-> {[id |-> "cve1", package |-> "ssl"], [id |-> "cve2", package |-> "zip"]}]
MCInstalled ==
  [nginx |-> << [name |-> "ssl", files |-> {"ssl1.so"}], [name |-> "ssl", files |-> {"ssl2.so"}],
                [name |-> "zip", files |-> {"zip.so"}] >>]
\* A process under cgroup v2, one under v1 whose last line is not the one of cpuset,
\* and one whose file is empty.
MCCgroupOf ==
  [web    |-> << [cpuset |-> FALSE, names |-> {"v2"}] >>,
   batch  |-> << [cpuset |-> TRUE, names |-> {"v1"}], [cpuset |-> FALSE, names |-> {}] >>,
   pinned |-> <<>>]
MCLives == [web |-> 2, batch |-> 1, pinned |-> 1]
MCMapped == [web |-> {"ssl1.so"}, batch |-> {"ssl1.so"}, pinned |-> {"ssl1.so"}]

=============================================================================
