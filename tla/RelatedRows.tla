---------------------------- MODULE RelatedRows ----------------------------
(***************************************************************************)
(* Which rows are related to a row: the relation index                     *)
(* (internal/data/relation_index_read.go), the lookups of the list view    *)
(* that decide what enter opens (internal/ui/listview/listview.go), and    *)
(* the categories of the related picker                                    *)
(* (internal/ui/relatedview/relatedview.go).                               *)
(*                                                                         *)
(* All of them work on lists as ClusterRows makes them; how and when lists *)
(* are read is the subject of ListCache and RelationIndex.                 *)
(***************************************************************************)
EXTENDS ClusterRows

CONSTANTS
    RegistryPods    \* rows of the mock's pods, which the registry holds in any mode

ASSUME RegistryPodsFacts ==
    \A p \in RegistryPods : DOMAIN p = DOMAIN Blank /\ p.uid = NoUID /\ p.ns = NoNamespace

MatchesSelector(selector, labels) == selector # {} /\ selector \subseteq labels

SelectorsOverlap(a, b) == MatchesSelector(a, b) \/ MatchesSelector(b, a)

-----------------------------------------------------------------------------
(* The relation index.                                                     *)

PodsForWorkload(workload, pods) == {p \in pods : MatchesSelector(workload.selector, p.labels)}

ServicesForSelector(selector, services) ==
    {s \in services : SelectorsOverlap(selector, s.selector)}

OwnerKinds == [DEP |-> {"Deployment", "ReplicaSet"}, STS |-> {"StatefulSet"},
               DS |-> {"DaemonSet"}, JOB |-> {"Job"}, CJ |-> {"CronJob"}]

\* Mutation: the controller has the name of its workload.
OwnersByNameExact(pod, workloads) ==
    {w \in workloads : /\ pod.controller.kind \in OwnerKinds[w.kind]
                       /\ pod.controller.name = w.name}

\* The name of the controller is the workload's, or starts with it and a dash.
OwnersByName(pod, workloads) ==
    {w \in workloads : /\ pod.controller.kind \in OwnerKinds[w.kind]
                       /\ IsPrefix(w.name, pod.controller.name)}

\* By uid, and by name if there is none of that uid.
OwnerForPod(pod, workloads) ==
    LET byUID == {w \in workloads : w.uid = pod.controller.uid}
    IN  IF pod.controller.uid # NoUID /\ byUID # {} THEN byUID
        ELSE IF pod.controller.kind = "" THEN {} ELSE OwnersByName(pod, workloads)

ServicesForPod(pod, services) == {s \in services : MatchesSelector(s.selector, pod.labels)}

BackendsForService(service, pods) == {p \in pods : MatchesSelector(service.selector, p.labels)}

\* Mutation: only what the ingress names counts.
IngressesForServiceNamed(service, ingresses) == {i \in ingresses : service.name \in i.backends}

\* By backend, by name, or because the name is part of a host.
IngressesForService(service, ingresses) ==
    {i \in ingresses : service.name \in i.backends \cup {i.name} \cup i.hosts}

ServicesForIngress(ingress, services) ==
    {s \in services : s.name \in ingress.backends \cup {ingress.name}}

PodsForNode(node, pods) == {p \in pods : p.node = node.name}

PodsForPVC(claim, pods) == {p \in pods : claim.name \in p.claims}

\* A row per name, of the kind it has where it is met first: ConfigMaps and Secrets of
\* one name are one row.  These rows have no namespace.
ConfigForPods(pods) ==
    LET Naming(n) == {p \in pods : n \in p.configs \cup p.secrets}
        Names     == UNION {p.configs \cup p.secrets : p \in pods}
    IN  {[Blank EXCEPT !.name = n,
                       !.kind = IF n \in First(Naming(n)).configs THEN "ConfigMap" ELSE "Secret"]
         : n \in Names}

PVCForPods(pods) == {[Blank EXCEPT !.name = n] : n \in UNION {p.claims : p \in pods}}

\* relatedListRequirements
Requirements(name) ==
    CASE name \in {"workloads", "deployments"} -> {"pods", "services"}
      [] name = "pods"                   -> {"workloads", "services"}
      [] name = "services"               -> {"pods", "ingresses"}
      [] name = "ingresses"              -> {"services"}
      [] name \in {"nodes", "persistentvolumeclaims"} -> {"pods"}
      [] OTHER                           -> {}

\* Related: the rows of each category, from the lists it requires.
Related(name, item, lists) ==
    CASE name \in {"workloads", "deployments"} ->
           LET pods == PodsForWorkload(item, lists["pods"])
           IN  [pods     |-> pods,
                services |-> ServicesForSelector(item.selector, lists["services"]),
                config   |-> ConfigForPods(pods),
                storage  |-> PVCForPods(pods)]
      [] name = "pods" ->
           [owner    |-> OwnerForPod(item, lists["workloads"]),
            services |-> ServicesForPod(item, lists["services"]),
            config   |-> ConfigForPods({item}),
            storage  |-> PVCForPods({item})]
      [] name = "services" ->
           [backends  |-> BackendsForService(item, lists["pods"]),
            ingresses |-> IngressesForService(item, lists["ingresses"])]
      [] name = "ingresses" ->
           [services |-> ServicesForIngress(item, lists["services"])]
      [] name = "nodes" ->
           [pods |-> PodsForNode(item, lists["pods"])]
      [] name = "persistentvolumeclaims" ->
           [x \in {"mounted-by"} |-> PodsForPVC(item, lists["pods"])]
      [] OTHER -> <<>>

-----------------------------------------------------------------------------
(* The list view's own lookups, when its resource can list the cluster.    *)

LiveWorkloadPods(workload, pods) == {p \in pods : MatchesSelector(workload.selector, p.labels)}

LiveBackendsForService(service, pods) == {p \in pods : MatchesSelector(service.selector, p.labels)}

\* Mutation: an ingress has the service of its name.
LiveServicesForIngressByName(ingress, services) ==
    {s \in services : s.name \in ingress.backends \/ ingress.backends = {}}

\* Backends only.
LiveServicesForIngress(ingress, services) == {s \in services : s.name \in ingress.backends}

LivePodsForNode(node, pods) == {p \in pods : p.node = node.name}

LivePodsForPVC(claim, pods) == {p \in pods : claim.name \in p.claims}

\* The pod whose log "o" opens: the first that fails, or the first.
PreferredLogPod(pods) ==
    LET failing == {p \in pods : p.status \in {"Failed", "Pending", "Unknown"}}
    IN  IF failing = {} THEN First(pods) ELSE First(failing)

-----------------------------------------------------------------------------
(* The same from the mock's pods, where there is no list of the cluster.   *)

\* WorkloadPods.Items: a workload of the mock, which has no uid, has pods in any case.
RegistryWorkloadPods(workload) ==
    LET matching == {p \in RegistryPods : MatchesSelector(workload.selector, p.labels)}
        generic  == [Blank EXCEPT !.name = workload.name \o <<"7d9c7c9d4f", "qwz8p">>,
                                  !.ns = workload.ns]
    IN  IF workload.uid = NoUID /\ matching = {} THEN {generic} ELSE matching

\* NewBackends
RegistryBackends(service) == {p \in RegistryPods : MatchesSelector(service.selector, p.labels)}

=============================================================================
