---------------------------- MODULE ClusterRows ----------------------------
(***************************************************************************)
(* What the cluster API makes of a cluster's objects                       *)
(* (internal/data/clientgo_api.go): the rows of a list, read from the API  *)
(* or from the informers' cache, and the object behind a row.              *)
(*                                                                         *)
(* A list is a set of rows.  The code sorts it by name; uids count in the  *)
(* order of names here, so the first of some rows is the one of the lowest *)
(* uid.  A name is a sequence of words (joined by dashes in the code), and *)
(* a map of labels is the set of its entries.  Ages, images, addresses and *)
(* other columns that nothing is decided by are left out.                  *)
(***************************************************************************)
EXTENDS Integers, Sequences, FiniteSets, SequencesExt

CONSTANTS
    Catalogue,      \* objects the cluster may have, each as first created
    AllNamespaces,
    NoNamespace

NoUID == 0
NoController == [kind |-> "", name |-> <<>>, uid |-> NoUID, deployment |-> NoUID]

\* A row with nothing in it.
Blank == [uid |-> NoUID, kind |-> "", ns |-> NoNamespace, name |-> <<>>, status |-> "",
          labels |-> {}, selector |-> {}, controller |-> NoController, node |-> <<>>,
          configs |-> {}, secrets |-> {}, claims |-> {}, backends |-> {}, hosts |-> {},
          containers |-> 0, restarts |-> 0]

\* An object, where phase, ready ... stand for its status: of a pod, the containers that
\* are ready; of a job, the completions.
Object == [uid |-> NoUID, kind |-> "", ns |-> NoNamespace, name |-> <<>>, status |-> "Running",
           labels |-> {}, selector |-> {}, controller |-> NoController, node |-> <<>>,
           configs |-> {}, secrets |-> {}, claims |-> {}, backends |-> {}, hosts |-> {},
           restarts |-> 0, ready |-> 1, desired |-> 1, unavailable |-> 0, failed |-> 0,
           involved |-> <<>>]

SelfOwned == {"StatefulSet", "DaemonSet", "Job"}

\* What an API server sees to: names are unique in a namespace and kind.
ClusterRules(objects) ==
    \A o, p \in objects : o # p =>
        o.uid # p.uid /\ <<o.kind, o.ns, o.name>> # <<p.kind, p.ns, p.name>>

\* What its controllers see to, also for objects that are not there at one time: a selector
\* is not empty and its pods carry it; a pod is controlled by the workload itself or by a
\* ReplicaSet named after its Deployment.
OwnershipRules(objects) ==
    /\ \A w \in objects : w.kind \in {"Deployment", "StatefulSet", "DaemonSet"} => w.selector # {}
    /\ \A p, w \in objects : p.kind = "Pod" =>
           /\ p.controller.uid = w.uid =>
                 /\ w.kind \in SelfOwned /\ p.controller.kind = w.kind
                 /\ p.ns = w.ns /\ p.controller.name = w.name /\ w.selector \subseteq p.labels
           /\ p.controller.deployment = w.uid =>
                 /\ w.kind = "Deployment" /\ p.controller.kind = "ReplicaSet"
                 /\ p.ns = w.ns /\ w.selector \subseteq p.labels
                 /\ IsStrictPrefix(w.name, p.controller.name)

ASSUME ClusterFacts ==
    /\ \A o \in Catalogue : DOMAIN o = DOMAIN Object /\ o.uid \in Nat \ {NoUID}
    /\ \A o, p \in Catalogue : o.uid = p.uid => o = p
    /\ OwnershipRules(Catalogue)
    /\ \A o \in Catalogue : o.kind = "Node" <=> o.ns = NoNamespace
    /\ \A o \in Catalogue : {o.ready, o.desired, o.unavailable, o.failed} \subseteq Nat
    /\ AllNamespaces # NoNamespace
    /\ \A o \in Catalogue : o.ns # AllNamespaces

First(rows) == CHOOSE r \in rows : \A q \in rows : r.uid <= q.uid

-----------------------------------------------------------------------------
(* One row.                                                                *)

Row(o, kind, status) ==
    [Blank EXCEPT !.uid = o.uid, !.kind = kind, !.ns = o.ns, !.name = o.name, !.status = status]

PodStatus(p) == IF p.status = "Running" /\ p.ready < p.desired THEN "NotReady" ELSE p.status

\* podRefs: what the pod's volumes and environment name.
PodRow(p) ==
    [Row(p, "", PodStatus(p)) EXCEPT
        !.labels = p.labels, !.controller = p.controller, !.node = p.node,
        !.configs = p.configs, !.secrets = p.secrets, !.claims = p.claims,
        !.containers = p.desired, !.restarts = p.restarts]

ServiceRow(s) == [Row(s, "", "Healthy") EXCEPT !.selector = s.selector]

DeploymentStatus(d) ==
    IF d.unavailable = 0 THEN "Healthy" ELSE IF d.ready = 0 THEN "Degraded" ELSE "Progressing"

DeploymentRow(d) == [Row(d, "", DeploymentStatus(d)) EXCEPT !.selector = d.selector]

\* The status of StatefulSets and DaemonSets, which four places spell out.
ReplicaStatus(w) ==
    IF w.ready >= w.desired THEN "Healthy" ELSE IF w.ready = 0 THEN "Degraded" ELSE "Progressing"

ReplicaRow(w, kind) == [Row(w, kind, ReplicaStatus(w)) EXCEPT !.selector = w.selector]

JobStatus(j) ==
    IF j.failed > 0 THEN "Failed" ELSE IF j.ready < j.desired THEN "Progressing" ELSE "Healthy"

JobRow(j) == Row(j, "JOB", JobStatus(j))

CronJobRow(c) == Row(c, "CJ", IF c.status = "Suspended" THEN "Suspended" ELSE "Healthy")

IngressRow(i) ==
    [Row(i, "", IF i.ready = 0 THEN "Pending" ELSE "Healthy") EXCEPT
        !.backends = i.backends, !.hosts = i.hosts]

EventRow(e) ==
    [Row(e, "", IF e.status = "Warning" THEN "Warning" ELSE "Healthy") EXCEPT
        !.name = e.involved \o <<e.status>>]

-----------------------------------------------------------------------------
(* A list, read from the API: one request per kind.                        *)

\* The namespace of all of them is the empty one of the API.
Requested(there, kind, namespace) ==
    {o \in there : o.kind = kind /\ namespace \in {AllNamespaces, o.ns}}

ListPods(there, ns)        == {PodRow(p) : p \in Requested(there, "Pod", ns)}
ListServices(there, ns)    == {ServiceRow(s) : s \in Requested(there, "Service", ns)}
ListDeployments(there, ns) == {DeploymentRow(d) : d \in Requested(there, "Deployment", ns)}
ListIngresses(there, ns)   == {IngressRow(i) : i \in Requested(there, "Ingress", ns)}
ListConfigMaps(there, ns)  == {Row(c, "", "Healthy") : c \in Requested(there, "ConfigMap", ns)}
ListSecrets(there, ns)     == {Row(s, "", "Healthy") : s \in Requested(there, "Secret", ns)}
ListPVCs(there, ns)        == {Row(c, "", c.status) : c \in Requested(there, "PersistentVolumeClaim", ns)}
ListNodes(there)           == {Row(n, "", n.status) : n \in Requested(there, "Node", AllNamespaces)}
ListEvents(there, ns)      == {EventRow(e) : e \in Requested(there, "Event", ns)}

ListWorkloads(there, ns) ==
       {[DeploymentRow(d) EXCEPT !.kind = "DEP"] : d \in Requested(there, "Deployment", ns)}
    \cup {ReplicaRow(s, "STS") : s \in Requested(there, "StatefulSet", ns)}
    \cup {ReplicaRow(d, "DS") : d \in Requested(there, "DaemonSet", ns)}
    \cup {JobRow(j) : j \in Requested(there, "Job", ns)}
    \cup {CronJobRow(c) : c \in Requested(there, "CronJob", ns)}

ListDirect(resource, there, ns) ==
    CASE resource = "pods"        -> ListPods(there, ns)
      [] resource = "services"    -> ListServices(there, ns)
      [] resource = "deployments" -> ListDeployments(there, ns)
      [] resource = "workloads"   -> ListWorkloads(there, ns)
      [] resource = "ingresses"   -> ListIngresses(there, ns)
      [] resource = "configmaps"  -> ListConfigMaps(there, ns)
      [] resource = "secrets"     -> ListSecrets(there, ns)
      [] resource = "persistentvolumeclaims" -> ListPVCs(there, ns)
      [] resource = "nodes"       -> ListNodes(there)
      [] resource = "events"      -> ListEvents(there, ns)

-----------------------------------------------------------------------------
(* A list, read from the informers' cache.                                 *)

\* A lister for one namespace, or for all: List or Pods(ns).List.
Cached(cache, kind, namespace) ==
    LET ofKind == {o \in cache : o.kind = kind}
    IN  IF namespace = AllNamespaces THEN ofKind ELSE {o \in ofKind : o.ns = namespace}

PodsFromInformer(cache, ns)        == {PodRow(p) : p \in Cached(cache, "Pod", ns)}
ServicesFromInformer(cache, ns)    == {ServiceRow(s) : s \in Cached(cache, "Service", ns)}
DeploymentsFromInformer(cache, ns) == {DeploymentRow(d) : d \in Cached(cache, "Deployment", ns)}
IngressesFromInformer(cache, ns)   == {IngressRow(i) : i \in Cached(cache, "Ingress", ns)}
ConfigMapsFromInformer(cache, ns)  == {Row(c, "", "Healthy") : c \in Cached(cache, "ConfigMap", ns)}
SecretsFromInformer(cache, ns)     == {Row(s, "", "Healthy") : s \in Cached(cache, "Secret", ns)}
PVCsFromInformer(cache, ns)        == {Row(c, "", c.status) : c \in Cached(cache, "PersistentVolumeClaim", ns)}
NodesFromInformer(cache)           == {Row(n, "", n.status) : n \in Cached(cache, "Node", AllNamespaces)}
EventsFromInformer(cache, ns)      == {EventRow(e) : e \in Cached(cache, "Event", ns)}

\* Mutation: deployments are taken as they are.
WorkloadsFromInformerUnkinded(cache, ns) ==
       DeploymentsFromInformer(cache, ns)
    \cup {ReplicaRow(s, "STS") : s \in Cached(cache, "StatefulSet", ns)}
    \cup {ReplicaRow(d, "DS") : d \in Cached(cache, "DaemonSet", ns)}
    \cup {JobRow(j) : j \in Cached(cache, "Job", ns)}
    \cup {CronJobRow(c) : c \in Cached(cache, "CronJob", ns)}

\* The rows of deployments become rows of workloads.
WorkloadsFromInformer(cache, ns) ==
       {[d EXCEPT !.kind = "DEP"] : d \in DeploymentsFromInformer(cache, ns)}
    \cup {ReplicaRow(s, "STS") : s \in Cached(cache, "StatefulSet", ns)}
    \cup {ReplicaRow(d, "DS") : d \in Cached(cache, "DaemonSet", ns)}
    \cup {JobRow(j) : j \in Cached(cache, "Job", ns)}
    \cup {CronJobRow(c) : c \in Cached(cache, "CronJob", ns)}

ListCached(resource, cache, ns) ==
    CASE resource = "pods"        -> PodsFromInformer(cache, ns)
      [] resource = "services"    -> ServicesFromInformer(cache, ns)
      [] resource = "deployments" -> DeploymentsFromInformer(cache, ns)
      [] resource = "workloads"   -> WorkloadsFromInformer(cache, ns)
      [] resource = "ingresses"   -> IngressesFromInformer(cache, ns)
      [] resource = "configmaps"  -> ConfigMapsFromInformer(cache, ns)
      [] resource = "secrets"     -> SecretsFromInformer(cache, ns)
      [] resource = "persistentvolumeclaims" -> PVCsFromInformer(cache, ns)
      [] resource = "nodes"       -> NodesFromInformer(cache)
      [] resource = "events"      -> EventsFromInformer(cache, ns)

-----------------------------------------------------------------------------
(* The object behind a row, which is asked of the API by kind and name.    *)

WorkloadKinds == [DEP |-> "Deployment", STS |-> "StatefulSet", DS |-> "DaemonSet",
                  JOB |-> "Job", CJ |-> "CronJob"]

ObjectKinds == [pods |-> "Pod", services |-> "Service", deployments |-> "Deployment",
                ingresses |-> "Ingress", configmaps |-> "ConfigMap", secrets |-> "Secret",
                persistentvolumeclaims |-> "PersistentVolumeClaim", nodes |-> "Node",
                events |-> "Event"]

\* workloadObject
KindBehind(resource, row) ==
    IF resource = "workloads"
    THEN IF row.kind = "" THEN "Deployment" ELSE WorkloadKinds[row.kind]
    ELSE ObjectKinds[resource]

\* Mutation: the namespace on screen, whatever the row's.
ResourceObjectOfScope(there, resource, row, scope) ==
    {o \in there : /\ o.kind = KindBehind(resource, row) /\ o.name = row.name
                   /\ o.kind = "Node" \/ o.ns = scope}

\* The objects a Get returns: one, or none if there is none (any more).
ResourceObject(there, resource, row, scope) ==
    LET ns == IF row.ns = NoNamespace THEN scope ELSE row.ns
    IN  {o \in there : /\ o.kind = KindBehind(resource, row) /\ o.name = row.name
                       /\ o.kind = "Node" \/ o.ns = ns}

\* The status that the detail view shows.
DetailStatus(o) ==
    CASE o.kind = "Pod"         -> o.status
      [] o.kind = "Service"     -> "Healthy"
      [] o.kind = "Deployment"  -> DeploymentStatus(o)
      [] o.kind = "StatefulSet" -> IF o.ready < o.desired THEN "Progressing" ELSE "Healthy"
      [] o.kind = "DaemonSet"   -> IF o.unavailable > 0 THEN "Degraded" ELSE "Healthy"
      [] o.kind = "Job"         -> IF o.failed > 0 THEN "Failed"
                                   ELSE IF o.ready >= o.desired THEN "Succeeded" ELSE "Running"
      [] o.kind = "CronJob"     -> "Scheduled"
      [] o.kind = "Ingress"     -> "Configured"
      [] o.kind \in {"ConfigMap", "Secret"} -> "Available"
      [] OTHER                  -> o.status

=============================================================================
