---------------------------- MODULE BenchConfig ----------------------------
(***************************************************************************)
(* How the kube-bench scanner finds out which benchmark a node is to be    *)
(* checked against, which components run on it and where their files are.  *)
(* No state: the operators are functions of what the node answers.         *)
(*                                                                         *)
(* A version is <<major, minor>>, and Empty the empty string. What config  *)
(* files say is a parameter.                                               *)
(***************************************************************************)
EXTENDS Naturals, Sequences, SequencesExt

CONSTANTS
  VersionMapping,  \* version_mapping: Kubernetes version to benchmark
  TargetMapping,   \* target_mapping: benchmark to its targets
  PlatformBench,   \* the benchmarks of the platforms that have their own
  Default,         \* defaultKubeVersion
  Nothing          \* no benchmark, no executable, no file: an error or ""

\* The Kubernetes versions the file maps are of one major, and it names targets for
\* each benchmark it maps a version or a platform to.
ASSUME BenchConfigAssumption ==
  /\ Default \in Nat \X Nat /\ DOMAIN VersionMapping \subseteq {Default[1]} \X Nat
  /\ DOMAIN PlatformBench = {"eks", "gke", "gke-old", "aliyun", "ocp-3", "ocp-4"}
  /\ {VersionMapping[v] : v \in DOMAIN VersionMapping} \subseteq DOMAIN TargetMapping
  /\ {PlatformBench[p] : p \in DOMAIN PlatformBench} \subseteq DOMAIN TargetMapping
  /\ Nothing \notin DOMAIN TargetMapping

Targets == {"master", "controlplane", "etcd", "node", "policies", "managedservices"}

Empty == <<>>

\* The platforms kube-bench knows, and the OpenShift versions it has a benchmark for.
OcpVersions == {<<3, 10>>, <<4, 1>>}
Plain == [name |-> "none", version |-> Empty]

----------------------------------------------------------------------------
\* Mutant: two versions are skipped at once.
DecrementTooFar(v) ==
  IF Len(v) < 2 \/ v[2] <= 2 THEN Empty ELSE <<v[1], v[2] - 2>>

DecrementVersion(v) ==
  IF Len(v) < 2 \/ v[2] <= 1 THEN Empty ELSE <<v[1], v[2] - 1>>

\* mapToBenchmarkVersion: the benchmark of the version or, failing that, of the
\* next older one that has any; but it never looks beyond the default version.
MapToBenchmarkVersion(kv) ==
  LET from[n \in 0 .. IF kv = Empty THEN 0 ELSE kv[2]] ==
        LET v == IF kv = Empty THEN kv ELSE <<kv[1], n>>
            older == DecrementVersion(v)
        IN IF v \in DOMAIN VersionMapping THEN VersionMapping[v]
           ELSE IF v = Default \/ older = Empty THEN Nothing ELSE from[older[2]]
  IN from[IF kv = Empty THEN 0 ELSE kv[2]]

\* getOcpValidVersion.
GetOcpValidVersion(ver) ==
  LET from[n \in 0 .. ver[2]] ==
        LET v == <<ver[1], n>>
            older == DecrementVersion(v)
        IN IF v \in OcpVersions THEN v
           ELSE IF older = Empty THEN Empty ELSE from[older[2]]
  IN from[ver[2]]

\* getPlatformBenchmarkVersion; EKS, GKE (by its version) and Alibaba have one of
\* their own, and so have two versions of OpenShift.
GetPlatformBenchmarkVersion(p) ==
  CASE p.name = "gke" -> PlatformBench[IF p.version \in {1} \X (15 .. 19) THEN "gke-old" ELSE "gke"]
    [] p.name = "ocp" /\ p.version = <<3, 10>> -> PlatformBench["ocp-3"]
    [] p.name = "ocp" /\ p.version = <<4, 1>> -> PlatformBench["ocp-4"]
    [] p.name \in {"eks", "aliyun"} -> PlatformBench[p.name]
    [] OTHER -> Nothing

\* getKubeVersionFromRESTAPI, when one of ten attempts gets an answer: the version,
\* with the vendor in it.
KubeVersionFromRESTAPI(node) == [base |-> node.version, vendor |-> node.vendor]

\* getKubeVersion. Without the API server's answer, kubectl may get one, which says
\* as much; kubelet only says the version; without any, the default is assumed.
GetKubeVersion(node, rest) ==
  IF rest \/ node.program = "kubectl" THEN KubeVersionFromRESTAPI(node)
  ELSE [base |-> IF node.program = "kubelet" THEN node.version ELSE Default,
        vendor |-> "none"]

\* getOpenShiftInfo: what oc says, if there is a benchmark for it.
GetOpenShiftInfo(node) ==
  IF node.oc = Empty THEN Empty ELSE GetOcpValidVersion(node.oc)

\* getPlatformInfo: OpenShift first, then the vendor in the version.
GetPlatformInfo(node, rest) ==
  LET ocp == GetOpenShiftInfo(node)
      kv == GetKubeVersion(node, rest)
  IN IF ocp # Empty THEN [name |-> "ocp", version |-> ocp]
     ELSE IF kv.vendor = "none" THEN Plain
     ELSE [name |-> kv.vendor, version |-> kv.base]

\* getBenchmarkVersion, called without flags. The API server is asked once for the
\* platform and once more for the version, and may answer only one time.
GetBenchmarkVersion(node, rest1, rest2) ==
  LET own == GetPlatformBenchmarkVersion(GetPlatformInfo(node, rest1))
  IN IF own # Nothing THEN own
     ELSE MapToBenchmarkVersion(GetKubeVersion(node, rest2).base)

\* validTargets, for one target; Nothing is the error of an unknown benchmark.
ValidTarget(bench, target) ==
  IF bench \notin DOMAIN TargetMapping THEN Nothing
  ELSE target \in TargetMapping[bench]

----------------------------------------------------------------------------
\* A component of a section of the config: bins and confs are candidates, in order.
\* verifyBin: a line of ps begins with the candidate, or with a path to it.
VerifyBin(bin, running) == bin \in running

\* findExecutable: the first candidate that runs.
FindExecutable(bins, running) ==
  LET found == SelectSeq(bins, LAMBDA b : VerifyBin(b, running))
  IN IF found = <<>> THEN Nothing ELSE Head(found)

\* getBinaries: the executable of each component that has candidates. A mandatory
\* one that does not run is an error, an optional one is called by its name.
GetBinaries(section, running) ==
  LET listed == {c \in DOMAIN section : section[c].bins # <<>>}
      exe(c) == FindExecutable(section[c].bins, running)
  IN IF \E c \in listed : exe(c) = Nothing /\ ~section[c].optional THEN Nothing
     ELSE [c \in listed |-> IF exe(c) = Nothing THEN c ELSE exe(c)]

\* isThisNodeRunning, as for isMaster and isEtcd.
IsThisNodeRunning(section, running) ==
  LET bins == GetBinaries(section, running)
  IN bins # Nothing /\ DOMAIN bins # {}

\* Mutant: no candidate is ever found, so the configured default is used.
FindNoFile(files, exists, denied) == Nothing

\* findConfigFile: a candidate that cannot be looked at ends the search.
FindConfigFile(files, exists, denied) ==
  LET seen == {i \in DOMAIN files : files[i] \in exists \cup denied}
  IN IF seen = {} \/ files[Min(seen)] \in denied THEN Nothing ELSE files[Min(seen)]

\* getFiles: what $<component>conf stands for, and likewise for the others: a
\* file, the configured default, or the component's name.
GetFiles(section, exists, denied) ==
  [c \in DOMAIN section |->
     LET f == FindConfigFile(section[c].confs, exists, denied)
     IN CASE f # Nothing -> f
          [] f = Nothing /\ section[c].default # Nothing -> section[c].default
          [] OTHER -> c]

=============================================================================
