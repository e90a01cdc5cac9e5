---------------------------- MODULE MCKubeBench ----------------------------
EXTENDS KubeBench

CONSTANTS d1, d2

MCDefault == <<1, 18>>

\* As in cfg/config.yaml.
MCVersionMapping ==
  LET bench(n) == CASE n = 15 -> "cis-1.5" [] n \in 16 .. 18 -> "cis-1.6"
                    [] n \in 19 .. 21 -> "cis-1.20" [] OTHER -> "cis-1.23"
  IN [v \in {<<1, n>> : n \in 15 .. 23} |-> bench(v[2])]

MCPlatformBench ==
  [p \in {"eks", "gke", "gke-old", "aliyun", "ocp-3", "ocp-4"} |->
     CASE p = "eks" -> "eks-1.1.0" [] p = "gke" -> "gke-1.2.0" [] p = "gke-old" -> "gke-1.0"
       [] p = "aliyun" -> "ack-1.0" [] p = "ocp-3" -> "rh-0.7" [] OTHER -> "rh-1.0"]

Cis == {"cis-1.5", "cis-1.6", "cis-1.20", "cis-1.23"}
MCTargetMapping ==
  [b \in Cis \cup {"eks-1.1.0", "gke-1.2.0", "gke-1.0", "ack-1.0", "rh-0.7", "rh-1.0"} |->
     CASE b \in Cis \cup {"rh-1.0"} -> Targets \ {"managedservices"}
       [] b \in {"eks-1.1.0", "gke-1.2.0"} -> Targets \ {"etcd"}
       [] b = "rh-0.7" -> {"master", "node"}
       [] OTHER -> Targets]

Component(bins, optional, confs, default) ==
  [bins |-> bins, optional |-> optional, confs |-> confs, default |-> default]

MCSections ==
  [master |-> [apiserver |-> Component(<<"kube-apiserver", "apiserver">>, FALSE,
                                       <<"apiserver.yaml", "apiserver.manifest">>, "apiserver.yaml"),
               etcd |-> Component(<<"etcd">>, TRUE, <<>>, Nothing)],
   etcd |-> [etcd |-> Component(<<"etcd">>, FALSE, <<"etcd.yaml">>, "etcd.yaml")],
   node |-> [kubelet |-> Component(<<"kubelet">>, FALSE,
                                   <<"kubeadm.conf", "kubelet.service">>, Nothing)]]

MCNode(minor, vendor, oc, program, running, files, edits) ==
  [version |-> <<1, minor>>, vendor |-> vendor, oc |-> oc, program |-> program,
   running |-> running, exists |-> files, denied |-> {"kubeadm.conf"} \ files,
   sections |-> MCSections, edits |-> edits]

\* Nodes of all kinds, without modifications, and two that are modified.
MCNodes ==
  {MCNode(minor, vendor, <<>>, program, running, {"kubelet.service"}, MaxEdits) :
     minor \in {1, 14, 15, 16, 18, 20, 21, 26}, vendor \in {"none", "eks", "gke"},
     program \in {"kubectl", "kubelet", "none"}, running \in {{}, {"apiserver"}}}
  \cup {MCNode(20, "none", oc, "none", {"kube-apiserver", "etcd"},
               {"apiserver.manifest", "kubeadm.conf", "kubelet.service"}, MaxEdits) :
          oc \in {<<3, 9>>, <<3, 11>>, <<4, 0>>, <<4, 12>>}}
  \cup {MCNode(23, "eks", <<>>, "kubelet", {}, {"kubelet.service"}, 0),
        MCNode(21, "aliyun", <<>>, "none", {"etcd"}, {"etcd.yaml"}, MaxEdits - 1)}

=============================================================================
