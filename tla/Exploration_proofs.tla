------------------------- MODULE Exploration_proofs -------------------------
(***************************************************************************)
(* Proofs about Exploration, for any cluster whose names, uids and owners  *)
(* are as an API server and its controllers keep them, for stacks of any   *)
(* height and any number of changes.                                       *)
(***************************************************************************)
EXTENDS Exploration, NaturalsInduction, WellFoundedInduction, SequenceTheorems, TLAPS

-----------------------------------------------------------------------------
(* Objects, and the rows made of them.                                     *)

\* What there ever is: objects as they were created, or fallen ill.
Known == Catalogue \cup {Troubled(o) : o \in Catalogue}

\* An object has these fields, among others.
LEMMA ObjectFields ==
    {"uid", "kind", "ns", "name", "status", "labels", "selector", "controller", "ready",
     "unavailable", "restarts", "desired", "failed"} \subseteq DOMAIN Object
  BY DEF Object

\* Whatever became of an object, it is what its controller, its owners and its API
\* server know it by.
LEMMA KnownIsOfCatalogue ==
    ASSUME NEW o \in Known
    PROVE  \E c \in Catalogue :
              /\ o.uid = c.uid /\ o.kind = c.kind /\ o.ns = c.ns /\ o.name = c.name
              /\ o.labels = c.labels /\ o.selector = c.selector /\ o.controller = c.controller
<1>1. CASE o \in Catalogue
  BY <1>1
<1>2. CASE o \notin Catalogue
  <2>1. PICK c \in Catalogue : o = Troubled(c)
    BY <1>2 DEF Known
  <2>2. {"uid", "kind", "ns", "name", "status", "labels", "selector", "controller", "ready",
         "unavailable", "restarts", "desired"} \subseteq DOMAIN c
    BY ObjectFields, ClusterFacts
  <2>. QED
    BY <2>1, <2>2 DEF Troubled
<1>. QED
  BY <1>1, <1>2

\* A pod's row has its uid, controller and namespace.
LEMMA PodRowFields ==
    ASSUME NEW o
    PROVE  /\ PodRow(o).uid = o.uid /\ PodRow(o).ns = o.ns
           /\ PodRow(o).controller = o.controller
  BY DEF PodRow, Row, Blank

\* The rows of pods are of pods that are there, on either path.
LEMMA PodsOf ==
    ASSUME NEW there, NEW ns,
           NEW p \in ListPods(there, ns) \cup PodsFromInformer(there, ns)
    PROVE  \E o \in there : o.kind = "Pod" /\ p = PodRow(o)
  BY DEF ListPods, PodsFromInformer, Requested, Cached

\* The rows of workloads are of workloads that are there, and say of which kind.
LEMMA WorkloadsOf ==
    ASSUME NEW there, NEW ns,
           NEW w \in ListWorkloads(there, ns) \cup WorkloadsFromInformer(there, ns)
    PROVE  \E o \in there : /\ w.uid = o.uid /\ w.name = o.name /\ w.ns = o.ns
                            /\ w.kind \in DOMAIN WorkloadKinds /\ o.kind = WorkloadKinds[w.kind]
<1>1. ASSUME NEW o
      PROVE  /\ LET d == [DeploymentRow(o) EXCEPT !.kind = "DEP"]
                IN  d.uid = o.uid /\ d.name = o.name /\ d.ns = o.ns /\ d.kind = "DEP"
             /\ \A k \in {"STS", "DS"} : LET r == ReplicaRow(o, k)
                IN  r.uid = o.uid /\ r.name = o.name /\ r.ns = o.ns /\ r.kind = k
             /\ LET j == JobRow(o)
                IN  j.uid = o.uid /\ j.name = o.name /\ j.ns = o.ns /\ j.kind = "JOB"
             /\ LET c == CronJobRow(o)
                IN  c.uid = o.uid /\ c.name = o.name /\ c.ns = o.ns /\ c.kind = "CJ"
  BY DEF DeploymentRow, ReplicaRow, JobRow, CronJobRow, Row, Blank
<1>2. PICK o \in there :
         \/ o.kind = "Deployment" /\ w = [DeploymentRow(o) EXCEPT !.kind = "DEP"]
         \/ o.kind = "StatefulSet" /\ w = ReplicaRow(o, "STS")
         \/ o.kind = "DaemonSet" /\ w = ReplicaRow(o, "DS")
         \/ o.kind = "Job" /\ w = JobRow(o)
         \/ o.kind = "CronJob" /\ w = CronJobRow(o)
  BY DEF ListWorkloads, WorkloadsFromInformer, DeploymentsFromInformer, Requested, Cached
<1>3. /\ {"DEP", "STS", "DS", "JOB", "CJ"} \subseteq DOMAIN WorkloadKinds
      /\ WorkloadKinds["DEP"] = "Deployment" /\ WorkloadKinds["STS"] = "StatefulSet"
      /\ WorkloadKinds["DS"] = "DaemonSet" /\ WorkloadKinds["JOB"] = "Job"
      /\ WorkloadKinds["CJ"] = "CronJob"
  BY DEF WorkloadKinds
<1>4. /\ w.uid = o.uid /\ w.name = o.name /\ w.ns = o.ns
      /\ \/ w.kind = "DEP" /\ o.kind = "Deployment"
         \/ w.kind = "STS" /\ o.kind = "StatefulSet"
         \/ w.kind = "DS" /\ o.kind = "DaemonSet"
         \/ w.kind = "JOB" /\ o.kind = "Job"
         \/ w.kind = "CJ" /\ o.kind = "CronJob"
  <2>1. CASE o.kind = "Deployment" /\ w = [DeploymentRow(o) EXCEPT !.kind = "DEP"]
    BY <1>1, <2>1
  <2>2. CASE o.kind = "StatefulSet" /\ w = ReplicaRow(o, "STS")
    BY <1>1, <2>2
  <2>3. CASE o.kind = "DaemonSet" /\ w = ReplicaRow(o, "DS")
    BY <1>1, <2>3
  <2>4. CASE o.kind = "Job" /\ w = JobRow(o)
    BY <1>1, <2>4
  <2>5. CASE o.kind = "CronJob" /\ w = CronJobRow(o)
    BY <1>1, <2>5
  <2>. QED
    BY <1>2, <2>1, <2>2, <2>3, <2>4, <2>5
<1>. QED
  BY <1>3, <1>4

-----------------------------------------------------------------------------
(* Owners.                                                                 *)

\* Nothing is there, or was seen, that is not known.
WorldInv == objects \subseteq Known /\ seen \subseteq Known

\* A pod that is controlled by its workload says so.
LEMMA OwnedByUID ==
    ASSUME NEW p \in Catalogue, NEW w \in Catalogue, p.kind = "Pod", p.controller.uid = w.uid
    PROVE  w.kind \in SelfOwned /\ p.controller.kind = w.kind
  BY ClusterFacts, Zenon DEF OwnershipRules

\* A pod that is controlled through a ReplicaSet says so, and the ReplicaSet is named
\* after the Deployment.
LEMMA OwnedByName ==
    ASSUME NEW p \in Catalogue, NEW w \in Catalogue, p.kind = "Pod",
           p.controller.deployment = w.uid
    PROVE  /\ w.kind = "Deployment" /\ p.controller.kind = "ReplicaSet"
           /\ IsStrictPrefix(w.name, p.controller.name)
  BY ClusterFacts, Zenon DEF OwnershipRules

\* The owner by uid, or by the name of its ReplicaSet, is found in whatever lists of the
\* cluster it is in.
LEMMA OwnerFound ==
    ASSUME WorldInv,
           NEW p \in Rows("pods", namespace), NEW w \in Rows("workloads", namespace),
           w.uid \in {p.controller.uid, p.controller.deployment}
    PROVE  w \in OwnerForPod(p, Rows("workloads", namespace))
<1>. DEFINE ws    == Rows("workloads", namespace)
            byUID == {v \in ws : v.uid = p.controller.uid}
<1>1. PICK po \in objects \cup seen : po.kind = "Pod" /\ p = PodRow(po)
  BY PodsOf DEF Rows, ListCached, ListDirect
<1>2. \A v \in ws : \E o \in objects \cup seen :
         /\ v.uid = o.uid /\ v.name = o.name
         /\ v.kind \in DOMAIN WorkloadKinds /\ o.kind = WorkloadKinds[v.kind]
  BY WorkloadsOf DEF Rows, ListCached, ListDirect
<1>3. PICK pc \in Catalogue : pc.kind = "Pod" /\ p.controller = pc.controller
  BY <1>1, KnownIsOfCatalogue, PodRowFields DEF WorldInv
<1>4. \A v \in ws : \E c \in Catalogue :
         /\ v.uid = c.uid /\ v.name = c.name
         /\ v.kind \in DOMAIN WorkloadKinds /\ c.kind = WorkloadKinds[v.kind]
  BY <1>2, KnownIsOfCatalogue DEF WorldInv
<1>5. PICK wc \in Catalogue : /\ w.uid = wc.uid /\ w.name = wc.name
                              /\ w.kind \in DOMAIN WorkloadKinds /\ wc.kind = WorkloadKinds[w.kind]
  BY <1>4
<1>6. CASE w.uid = p.controller.uid
  <2>1. w.uid # NoUID
    BY <1>5, ClusterFacts
  <2>. QED
    BY <1>6, <2>1 DEF OwnerForPod
<1>7. CASE w.uid # p.controller.uid
  <2>1. w.uid = p.controller.deployment
    BY <1>7
  <2>2. /\ wc.kind = "Deployment" /\ p.controller.kind = "ReplicaSet"
        /\ IsStrictPrefix(w.name, p.controller.name)
    <3>1. pc.controller.deployment = wc.uid
      BY <1>3, <1>5, <2>1
    <3>2. wc.kind = "Deployment" /\ pc.controller.kind = "ReplicaSet"
          /\ IsStrictPrefix(wc.name, pc.controller.name)
      BY <1>3, <3>1, OwnedByName
    <3>. QED
      BY <1>3, <1>5, <3>2
  <2>3. byUID = {}
    <3>1. SUFFICES ASSUME NEW v \in ws, v.uid = p.controller.uid
                   PROVE  FALSE
      OBVIOUS
    <3>2. PICK c \in Catalogue : v.uid = c.uid
      BY <1>4
    <3>3. c.kind \in SelfOwned /\ p.controller.kind = c.kind
      <4>1. pc.controller.uid = c.uid
        BY <1>3, <3>1, <3>2
      <4>. QED
        BY <1>3, <4>1, OwnedByUID
    <3>. QED
      BY <2>2, <3>3 DEF SelfOwned
  <2>4. w.kind = "DEP"
    BY <1>5, <2>2 DEF WorkloadKinds
  <2>5. p.controller.kind \in OwnerKinds[w.kind] /\ IsPrefix(w.name, p.controller.name)
    BY <2>2, <2>4 DEF OwnerKinds, IsStrictPrefix
  <2>. QED
    BY <2>2, <2>3, <2>5 DEF OwnerForPod, OwnersByName
<1>. QED
  BY <1>6, <1>7

PickerStep == MoveCursor \/ ClosePicker \/ Choose \/ OpenPicked \/ \E row : Opening(row)

\* What the user does leaves the cluster alone, most of it the scope, and all but what is
\* done in the picker, and opens it, the picker.
LEMMA StepsLeave ==
    ASSUME [Next]_vars
    PROVE  \/ ClusterStep /\ UNCHANGED <<namespace, stack, picker, picked>>
           \/ UNCHANGED <<clusterVars, namespace, picker, picked>>
           \/ UNCHANGED <<clusterVars, picker, picked>> /\ namespace' \in Scopes
           \/ UNCHANGED <<clusterVars, namespace>> /\ PickerStep
<1>. DEFINE Left == UNCHANGED <<clusterVars, namespace, picker, picked>>
<1>1. CASE ClusterStep
  BY <1>1, Zenon DEF ClusterStep, Create, Delete, FallIll, ClusterBecomes, InformersSync, WatchEvent
<1>2. ASSUME NEW name, OpenList(name) \/ OpenSelector(name) \/ OpenNamed(name)
      PROVE  Left
  BY <1>2, Zenon DEF OpenList, OpenSelector, OpenNamed, PushQuery
<1>3. ASSUME OpenUnhealthy \/ OpenRestarts \/ RefreshItems \/ Back
      PROVE  Left
  BY <1>3, Zenon DEF OpenUnhealthy, OpenRestarts, RefreshItems, Back, PushQuery
<1>4. ASSUME NEW ns \in Scopes, SwitchScope(ns)
      PROVE  UNCHANGED <<clusterVars, picker, picked>> /\ namespace' \in Scopes
  BY <1>4 DEF SwitchScope
<1>5. CASE MoveCursor \/ ClosePicker \/ Choose \/ OpenPicked
  BY <1>5 DEF PickerStep, MoveCursor, ClosePicker, Choose, OpenPicked
<1>6. ASSUME NEW resource, NEW row, PushLogOrContainers(resource, row)
      PROVE  Left
  BY <1>6, Zenon DEF PushLogOrContainers, PushLog
<1>7. ASSUME NEW row, Opening(row)
      PROVE  UNCHANGED <<clusterVars, namespace>> /\ PickerStep
  BY <1>7 DEF Opening, PickerStep
<1>8. ASSUME NEW row, EnterRow(row)
      PROVE  Left \/ Opening(row)
  <2>1. ASSUME EnterPod(row)
        PROVE  Left
    BY <1>6, <2>1 DEF EnterPod
  <2>2. CASE EnterContainer(row) \/ EnterRelation(row) \/ OpenWorkloadLog(row)
    BY <2>2, Zenon DEF EnterContainer, EnterRelation, OpenWorkloadLog, PushLog
  <2>3. CASE EnterService(row) \/ EnterIngress(row) \/ EnterNode(row) \/ EnterClaim(row)
    BY <2>3 DEF EnterService, EnterIngress, EnterNode, EnterClaim, PushChild
  <2>4. CASE EnterBackend(row) \/ OpenRelatedPicker(row)
    BY <2>4 DEF EnterBackend, OpenRelatedPicker
  <2>5. CASE EnterWorkload(row)
    BY <2>5 DEF EnterWorkload, PushChild
  <2>6. CASE JumpToPodOwner(row)
    BY <2>6, Zenon DEF JumpToPodOwner, PushQuery
  <2>. QED
    BY <1>8, <2>1, <2>2, <2>3, <2>4, <2>5, <2>6 DEF EnterRow
<1>9. ASSUME DetailLogs
      PROVE  Left
  BY <1>6, <1>9 DEF DetailLogs
<1>10. CASE UNCHANGED vars
  BY <1>10 DEF vars
<1>. HIDE DEF Left
<1>11. ClusterStep \/ Left \/ (\E ns \in Scopes : SwitchScope(ns)) \/ PickerStep
         \/ (\E row : Opening(row)) \/ UNCHANGED vars
  <2>1. CASE (\E name \in Roots : OpenList(name))
               \/ (\E name \in Commanded : OpenSelector(name) \/ OpenNamed(name))
    BY <1>2, <2>1, Zenon
  <2>2. CASE \E row \in Top.rows : EnterRow(row)
    BY <1>8, <2>2, Zenon
  <2>. QED
    BY <1>3, <1>9, <2>1, <2>2 DEF Next, PickerStep
<1>. QED
  BY <1>1, <1>4, <1>5, <1>7, <1>10, <1>11 DEF Left, PickerStep

\* The cluster changes within what is known, and the informers see only that.
LEMMA WorldNext == WorldInv /\ [Next]_vars => WorldInv'
<1>. SUFFICES ASSUME WorldInv, [Next]_vars
              PROVE  WorldInv'
  OBVIOUS
<1>1. CASE ClusterStep
  <2>1. ASSUME NEW o \in Changing, Create(o)
        PROVE  WorldInv'
    BY <2>1, ExplorationConstants DEF Create, ClusterBecomes, WorldInv, Known
  <2>2. ASSUME NEW o \in objects, Delete(o)
        PROVE  WorldInv'
    BY <2>2 DEF Delete, ClusterBecomes, WorldInv
  <2>3. ASSUME NEW o \in objects, o \in Failing, FallIll(o)
        PROVE  WorldInv'
    <3>1. Troubled(o) \in Known
      BY <2>3, ExplorationConstants DEF Known
    <3>. QED
      BY <2>3, <3>1 DEF FallIll, ClusterBecomes, WorldInv
  <2>4. CASE InformersSync
    BY <2>4 DEF InformersSync, WorldInv
  <2>5. ASSUME NEW kind, WatchEvent(kind)
        PROVE  WorldInv'
    BY <2>5 DEF WatchEvent, WorldInv
  <2>. QED
    BY <1>1, <2>1, <2>2, <2>3, <2>4, <2>5 DEF ClusterStep
<1>2. CASE UNCHANGED clusterVars
  BY <1>2 DEF clusterVars, WorldInv
<1>. QED
  BY <1>1, <1>2, StepsLeave DEF clusterVars

-----------------------------------------------------------------------------
(* The two paths of a list.                                                *)

KnownResources == DOMAIN ObjectKinds \cup {"workloads"}

\* There are ten of them.
LEMMA ResourcesAre ==
    KnownResources = {"pods", "services", "deployments", "workloads", "ingresses", "configmaps",
                      "secrets", "persistentvolumeclaims", "nodes", "events"}
  BY DEF KnownResources, ObjectKinds

\* A lister has the objects of a kind and namespace that a request brings.
LEMMA CachedIsRequested ==
    ASSUME NEW there, NEW kind, NEW ns
    PROVE  Cached(there, kind, ns) = Requested(there, kind, ns)
  BY DEF Cached, Requested

\* The rows of every resource are the same on both paths.
LEMMA PathsAgree ==
    ASSUME NEW there, NEW ns, NEW r \in KnownResources
    PROVE  ListCached(r, there, ns) = ListDirect(r, there, ns)
<1>. DEFINE Same == ListCached(r, there, ns) = ListDirect(r, there, ns)
<1>1. CASE r = "pods"
  BY <1>1, CachedIsRequested DEF ListCached, ListDirect, ListPods, PodsFromInformer
<1>2. CASE r = "services"
  BY <1>2, CachedIsRequested DEF ListCached, ListDirect, ListServices, ServicesFromInformer
<1>3. CASE r = "deployments"
  BY <1>3, CachedIsRequested DEF ListCached, ListDirect, ListDeployments, DeploymentsFromInformer
<1>4. CASE r = "workloads"
  <2>1. {[d EXCEPT !.kind = "DEP"] : d \in DeploymentsFromInformer(there, ns)}
          = {[DeploymentRow(d) EXCEPT !.kind = "DEP"] : d \in Requested(there, "Deployment", ns)}
    BY CachedIsRequested DEF DeploymentsFromInformer
  <2>2. WorkloadsFromInformer(there, ns) = ListWorkloads(there, ns)
    BY <2>1, CachedIsRequested DEF WorkloadsFromInformer, ListWorkloads
  <2>. QED
    BY <1>4, <2>2 DEF ListCached, ListDirect
<1>5. CASE r = "ingresses"
  BY <1>5, CachedIsRequested DEF ListCached, ListDirect, ListIngresses, IngressesFromInformer
<1>6. CASE r = "configmaps"
  BY <1>6, CachedIsRequested DEF ListCached, ListDirect, ListConfigMaps, ConfigMapsFromInformer
<1>7. CASE r = "secrets"
  BY <1>7, CachedIsRequested DEF ListCached, ListDirect, ListSecrets, SecretsFromInformer
<1>8. CASE r = "persistentvolumeclaims"
  BY <1>8, CachedIsRequested DEF ListCached, ListDirect, ListPVCs, PVCsFromInformer
<1>9. CASE r = "nodes"
  BY <1>9, CachedIsRequested DEF ListCached, ListDirect, ListNodes, NodesFromInformer
<1>10. CASE r = "events"
  BY <1>10, CachedIsRequested DEF ListCached, ListDirect, ListEvents, EventsFromInformer
<1>. QED
  BY ResourcesAre, <1>1, <1>2, <1>3, <1>4, <1>5, <1>6, <1>7, <1>8, <1>9, <1>10

-----------------------------------------------------------------------------
(* The object a row was made of.                                           *)

Describes(row, o, kind) ==
    row.uid = o.uid /\ row.ns = o.ns /\ row.name = o.name /\ row.kind = kind

\* A row, however its other columns are filled, describes its object; that of an event has
\* the namespace of the event.
LEMMA RowsDescribe ==
    ASSUME NEW o
    PROVE  /\ \A kind, status : Describes(Row(o, kind, status), o, kind)
           /\ Describes(PodRow(o), o, "") /\ Describes(ServiceRow(o), o, "")
           /\ Describes(DeploymentRow(o), o, "") /\ Describes(IngressRow(o), o, "")
           /\ Describes([DeploymentRow(o) EXCEPT !.kind = "DEP"], o, "DEP")
           /\ \A kind : Describes(ReplicaRow(o, kind), o, kind)
           /\ Describes(JobRow(o), o, "JOB") /\ Describes(CronJobRow(o), o, "CJ")
           /\ EventRow(o).ns = o.ns
<1>1. \A kind, status : Describes(Row(o, kind, status), o, kind)
  BY DEF Describes, Row, Blank
<1>2. Describes(PodRow(o), o, "") /\ Describes(ServiceRow(o), o, "")
  BY DEF Describes, Row, Blank, PodRow, ServiceRow
<1>3. /\ Describes(DeploymentRow(o), o, "")
      /\ Describes([DeploymentRow(o) EXCEPT !.kind = "DEP"], o, "DEP")
  BY DEF Describes, Row, Blank, DeploymentRow
<1>4. Describes(IngressRow(o), o, "") /\ EventRow(o).ns = o.ns
  BY DEF Describes, Row, Blank, IngressRow, EventRow
<1>5. \A kind : Describes(ReplicaRow(o, kind), o, kind)
  BY DEF Describes, Row, Blank, ReplicaRow
<1>6. Describes(JobRow(o), o, "JOB") /\ Describes(CronJobRow(o), o, "CJ")
  BY <1>1 DEF JobRow, CronJobRow
<1>. QED
  BY <1>1, <1>2, <1>3, <1>4, <1>5, <1>6

\* What a row of a list says of its object: which it is, and for a workload of which kind.
RowOf(row, o, resource) ==
    IF resource = "workloads"
    THEN /\ row.kind \in DOMAIN WorkloadKinds /\ o.kind = WorkloadKinds[row.kind]
         /\ Describes(row, o, row.kind)
    ELSE o.kind = ObjectKinds[resource] /\ Describes(row, o, "")

\* Where a list of workloads gets a row from.
LEMMA WorkloadRowsOf ==
    ASSUME NEW there, NEW ns, NEW row \in ListWorkloads(there, ns)
    PROVE  \E o \in there : ns \in {AllNamespaces, o.ns} /\ RowOf(row, o, "workloads")
<1>1. /\ {"DEP", "STS", "DS", "JOB", "CJ"} \subseteq DOMAIN WorkloadKinds
      /\ WorkloadKinds["DEP"] = "Deployment" /\ WorkloadKinds["STS"] = "StatefulSet"
      /\ WorkloadKinds["DS"] = "DaemonSet" /\ WorkloadKinds["JOB"] = "Job"
      /\ WorkloadKinds["CJ"] = "CronJob"
  BY DEF WorkloadKinds
<1>2. PICK o \in there : /\ ns \in {AllNamespaces, o.ns}
                         /\ \/ o.kind = "Deployment" /\ row = [DeploymentRow(o) EXCEPT !.kind = "DEP"]
                            \/ o.kind = "StatefulSet" /\ row = ReplicaRow(o, "STS")
                            \/ o.kind = "DaemonSet" /\ row = ReplicaRow(o, "DS")
                            \/ o.kind = "Job" /\ row = JobRow(o)
                            \/ o.kind = "CronJob" /\ row = CronJobRow(o)
  BY DEF ListWorkloads, Requested
<1>3. \/ o.kind = "Deployment" /\ Describes(row, o, "DEP")
      \/ o.kind = "StatefulSet" /\ Describes(row, o, "STS")
      \/ o.kind = "DaemonSet" /\ Describes(row, o, "DS")
      \/ o.kind = "Job" /\ Describes(row, o, "JOB")
      \/ o.kind = "CronJob" /\ Describes(row, o, "CJ")
  <2>1. CASE o.kind = "Deployment" /\ row = [DeploymentRow(o) EXCEPT !.kind = "DEP"]
    BY <2>1, RowsDescribe
  <2>2. CASE o.kind = "StatefulSet" /\ row = ReplicaRow(o, "STS")
    BY <2>2, RowsDescribe
  <2>3. CASE o.kind = "DaemonSet" /\ row = ReplicaRow(o, "DS")
    BY <2>3, RowsDescribe
  <2>4. CASE o.kind = "Job" /\ row = JobRow(o)
    BY <2>4, RowsDescribe
  <2>5. CASE o.kind = "CronJob" /\ row = CronJobRow(o)
    BY <2>5, RowsDescribe
  <2>. QED
    BY <1>2, <2>1, <2>2, <2>3, <2>4, <2>5
<1>4. RowOf(row, o, "workloads")
  BY <1>1, <1>3 DEF RowOf, Describes
<1>. QED
  BY <1>2, <1>4

\* Every row of a list is of an object that is there, of the scope unless it is a node.
LEMMA RowsOf ==
    ASSUME NEW there, NEW ns, NEW r \in KnownResources, NEW row \in ListDirect(r, there, ns)
    PROVE  \E o \in there : /\ row.ns = o.ns
                            /\ ns \in {AllNamespaces, o.ns} \/ o.kind = "Node"
                            /\ r # "events" => RowOf(row, o, r)
<1>0. /\ ObjectKinds["pods"] = "Pod" /\ ObjectKinds["services"] = "Service"
      /\ ObjectKinds["deployments"] = "Deployment" /\ ObjectKinds["ingresses"] = "Ingress"
      /\ ObjectKinds["configmaps"] = "ConfigMap" /\ ObjectKinds["secrets"] = "Secret"
      /\ ObjectKinds["persistentvolumeclaims"] = "PersistentVolumeClaim"
      /\ ObjectKinds["nodes"] = "Node"
  BY DEF ObjectKinds
<1>1. ASSUME r # "workloads", NEW kind, ObjectKinds[r] = kind,
             NEW o \in Requested(there, kind, ns), Describes(row, o, "")
      PROVE  /\ o \in there /\ row.ns = o.ns /\ ns \in {AllNamespaces, o.ns}
             /\ RowOf(row, o, r)
  BY <1>1 DEF Requested, RowOf, Describes
<1>2. CASE r = "pods"
  <2>1. PICK o \in Requested(there, "Pod", ns) : row = PodRow(o)
    BY <1>2 DEF ListDirect, ListPods
  <2>. QED
    BY <1>0, <1>1, <1>2, <2>1, RowsDescribe
<1>3. CASE r = "services"
  <2>1. PICK o \in Requested(there, "Service", ns) : row = ServiceRow(o)
    BY <1>3 DEF ListDirect, ListServices
  <2>. QED
    BY <1>0, <1>1, <1>3, <2>1, RowsDescribe
<1>4. CASE r = "deployments"
  <2>1. PICK o \in Requested(there, "Deployment", ns) : row = DeploymentRow(o)
    BY <1>4 DEF ListDirect, ListDeployments
  <2>. QED
    BY <1>0, <1>1, <1>4, <2>1, RowsDescribe
<1>5. CASE r = "workloads"
  <2>1. PICK o \in there : ns \in {AllNamespaces, o.ns} /\ RowOf(row, o, "workloads")
    BY <1>5, WorkloadRowsOf DEF ListDirect
  <2>. QED
    BY <1>5, <2>1 DEF RowOf, Describes
<1>6. CASE r = "ingresses"
  <2>1. PICK o \in Requested(there, "Ingress", ns) : row = IngressRow(o)
    BY <1>6 DEF ListDirect, ListIngresses
  <2>. QED
    BY <1>0, <1>1, <1>6, <2>1, RowsDescribe
<1>7. CASE r = "configmaps"
  <2>1. PICK o \in Requested(there, "ConfigMap", ns) : row = Row(o, "", "Healthy")
    BY <1>7 DEF ListDirect, ListConfigMaps
  <2>. QED
    BY <1>0, <1>1, <1>7, <2>1, RowsDescribe
<1>8. CASE r = "secrets"
  <2>1. PICK o \in Requested(there, "Secret", ns) : row = Row(o, "", "Healthy")
    BY <1>8 DEF ListDirect, ListSecrets
  <2>. QED
    BY <1>0, <1>1, <1>8, <2>1, RowsDescribe
<1>9. CASE r = "persistentvolumeclaims"
  <2>1. PICK o \in Requested(there, "PersistentVolumeClaim", ns) : row = Row(o, "", o.status)
    BY <1>9 DEF ListDirect, ListPVCs
  <2>. QED
    BY <1>0, <1>1, <1>9, <2>1, RowsDescribe
<1>10. CASE r = "nodes"
  <2>1. PICK o \in Requested(there, "Node", AllNamespaces) : row = Row(o, "", o.status)
    BY <1>10 DEF ListDirect, ListNodes
  <2>2. o \in there /\ o.kind = "Node" /\ Describes(row, o, "")
    BY <2>1, RowsDescribe DEF Requested
  <2>. QED
    BY <1>0, <1>10, <2>2 DEF RowOf, Describes
<1>11. CASE r = "events"
  <2>1. PICK o \in Requested(there, "Event", ns) : row = EventRow(o)
    BY <1>11 DEF ListDirect, ListEvents
  <2>. QED
    BY <1>11, <2>1, RowsDescribe DEF Requested
<1>. QED
  BY ResourcesAre, <1>2, <1>3, <1>4, <1>5, <1>6, <1>7, <1>8, <1>9, <1>10, <1>11

-----------------------------------------------------------------------------
(* The rows of a list are of its scope, and made of what there is.         *)

InScope(row, ns) == row.ns \in {ns, NoNamespace} \/ ns = AllNamespaces

\* What is had of the cluster is of the scope it is asked for in, from wherever it comes.
LEMMA AnswersInScope ==
    ASSUME WorldInv, NEW r \in KnownResources, NEW ns, NEW answer \in Answers(r, ns),
           NEW row \in Had(answer)
    PROVE  InScope(row, ns)
<1>1. row \in Rows(r, ns)
  BY DEF Answers, Had
<1>2. PICK o \in objects \cup seen : row.ns = o.ns /\ (ns \in {AllNamespaces, o.ns} \/ o.kind = "Node")
  BY <1>1, PathsAgree, RowsOf DEF Rows
<1>3. o.kind = "Node" => o.ns = NoNamespace
  BY KnownIsOfCatalogue, ClusterFacts DEF WorldInv
<1>. QED
  BY <1>2, <1>3 DEF InScope

\* So is it of an object that was there at some time.
LEMMA AnswersAreOfKnown ==
    ASSUME WorldInv, NEW r \in KnownResources \ {"events"}, NEW ns, NEW answer \in Answers(r, ns),
           NEW row \in Had(answer)
    PROVE  \E o \in Known : RowOf(row, o, r)
<1>1. row \in Rows(r, ns)
  BY DEF Answers, Had
<1>. QED
  BY <1>1, PathsAgree, RowsOf DEF Rows, WorldInv

\* At first all that is there is as it was created, and nothing was seen.
LEMMA WorldInit == Init => WorldInv
  BY ExplorationConstants DEF Init, WorldInv, Known

\* Of what there ever is nothing but what is known is there or was seen.
LEMMA WorldAlways == Spec => []WorldInv
  BY WorldInit, WorldNext, PTL DEF Spec

-----------------------------------------------------------------------------
(* The stack: what has to be known of a view to say that the next list is  *)
(* of the scope, too.                                                      *)

Workload(o) == o.kind \in Range(WorkloadKinds)

\* The kinds of workloads.
LEMMA WorkloadsAre ==
    Range(WorkloadKinds) = {"Deployment", "StatefulSet", "DaemonSet", "Job", "CronJob"}
<1>. DEFINE kinds == {"Deployment", "StatefulSet", "DaemonSet", "Job", "CronJob"}
<1>1. DOMAIN WorkloadKinds = {"DEP", "STS", "DS", "JOB", "CJ"}
  BY DEF WorkloadKinds
<1>2. /\ WorkloadKinds["DEP"] = "Deployment" /\ WorkloadKinds["STS"] = "StatefulSet"
      /\ WorkloadKinds["DS"] = "DaemonSet" /\ WorkloadKinds["JOB"] = "Job"
      /\ WorkloadKinds["CJ"] = "CronJob"
  BY DEF WorkloadKinds
<1>3. Range(WorkloadKinds) = {WorkloadKinds[k] : k \in {"DEP", "STS", "DS", "JOB", "CJ"}}
  BY <1>1 DEF Range
<1>. QED
  BY <1>2, <1>3

\* The row is of something known, which is looked up by the row's kind; unless it is no
\* workload and goes by the name of workloads.
Found(row, name) ==
    \E o \in Known : /\ \E kind : Describes(row, o, kind)
                     /\ \/ name = "workloads" /\ ~Workload(o)
                        \/ name \in KnownResources /\ o.kind = KindBehind(name, row)

\* What a list that reads the cluster shows.
ReadsCluster(resource) == resource.base \in {"read", "query"} /\ resource.name # "events"

GoodRows(resource, rows, ns) ==
    /\ resource.child = FALSE => resource.name \in KnownResources
    /\ \A row \in rows : InScope(row, ns)

FoundRows(resource, rows) == ReadsCluster(resource) => \A row \in rows : Found(row, resource.name)

GoodResource(r) ==
    r = Resource(r.name, r.child, r.base) /\ r.child \in BOOLEAN /\ r.base \in Bases

GoodView(v, ns) ==
    /\ v = View(v.kind, v.resource, v.rows, v.item, v.lines)
    /\ GoodResource(v.resource)
    /\ (v.kind = "logs") = (v.lines # "none")
    /\ v.rows # {} => v.kind \in ListKinds \cup {"relation"}
    /\ v.kind \in ListKinds => GoodRows(v.resource, v.rows, ns)
    /\ v.kind = "list" => FoundRows(v.resource, v.rows)

GoodStack(s, ns) ==
    /\ \E S : s \in Seq(S)
    /\ s # <<>> /\ s[1].kind = "list" /\ s[1].resource.base = "read"
    /\ Len(s) <= MaxStack
    /\ \A i \in DOMAIN s : GoodView(s[i], ns)

StackInv == GoodStack(stack, namespace)

\* A list of good rows is a good view.
LEMMA ListGood ==
    ASSUME NEW r, GoodResource(r), NEW ns, NEW rows, GoodRows(r, rows, ns), FoundRows(r, rows)
    PROVE  GoodView(ListView(r, rows), ns)
  BY DEF GoodView, ListView, View, ListKinds

\* So is a list of containers, which are of the mock.
LEMMA ContainersGood ==
    ASSUME NEW r, GoodResource(r), NEW ns, NEW rows, GoodRows(r, rows, ns), NEW item
    PROVE  GoodView(View("containers", r, rows, item, "none"), ns)
  BY DEF GoodView, View, ListKinds

\* A view that is no list is good, whatever it is of.
LEMMA OtherGood ==
    ASSUME NEW r, GoodResource(r), NEW ns, NEW rows, NEW item
    PROVE  GoodView(RelationList(r, rows), ns) /\ GoodView(DetailView(r, item), ns)
<1>1. GoodView(RelationList(r, rows), ns)
  BY DEF GoodView, RelationList, View, ListKinds
<1>2. GoodView(DetailView(r, item), ns)
  BY DEF GoodView, DetailView, View, ListKinds
<1>. QED
  BY <1>1, <1>2

\* So is a log that has lines, or says that there are none.
LEMMA LogViewGood ==
    ASSUME NEW r, GoodResource(r), NEW ns, NEW item, NEW lines, lines # "none"
    PROVE  GoodView(LogView(r, item, lines), ns)
  BY DEF GoodView, LogView, View, ListKinds

\* The resources that the operations name.
LEMMA ResourceGood ==
    ASSUME NEW name, NEW child \in BOOLEAN, NEW base \in Bases
    PROVE  /\ GoodResource(Resource(name, child, base))
           /\ Resource(name, child, base).name = name
           /\ Resource(name, child, base).child = child
           /\ Resource(name, child, base).base = base
  BY DEF GoodResource, Resource

\* A good view on top of a good stack.
LEMMA AppendGood ==
    ASSUME NEW s, NEW ns, GoodStack(s, ns), NEW v, GoodView(v, ns), Len(s) < MaxStack
    PROVE  GoodStack(Append(s, v), ns)
<1>. DEFINE t == Append(s, v)
<1>1. PICK S : s \in Seq(S)
  BY DEF GoodStack
<1>2. s \in Seq(S \cup {v}) /\ Len(s) \in Nat /\ Len(s) # 0 /\ DOMAIN s = 1 .. Len(s)
  BY <1>1 DEF GoodStack
<1>3. /\ t \in Seq(S \cup {v}) /\ DOMAIN t = 1 .. Len(s) + 1
      /\ \A i \in 1 .. Len(s) : t[i] = s[i]
      /\ t[Len(s) + 1] = v
  BY <1>2
<1>4. /\ t # <<>> /\ t[1].kind = "list" /\ t[1].resource.base = "read"
      /\ Len(t) <= MaxStack
  BY <1>2, <1>3, ExplorationConstants DEF GoodStack
<1>5. ASSUME NEW i \in DOMAIN t
      PROVE  GoodView(t[i], ns)
  <2>1. CASE i \in 1 .. Len(s)
    BY <1>2, <1>3, <2>1 DEF GoodStack
  <2>2. CASE i = Len(s) + 1
    BY <1>3, <2>2
  <2>. QED
    BY <1>2, <1>3, <2>1, <2>2
<1>. QED
  BY <1>3, <1>4, <1>5 DEF GoodStack

\* Without the view on top it is good, if any is left.
LEMMA FrontGood ==
    ASSUME NEW s, NEW ns, GoodStack(s, ns), Len(s) > 1
    PROVE  GoodStack(Front(s), ns)
<1>. DEFINE t == Front(s)
<1>1. PICK S : s \in Seq(S)
  BY DEF GoodStack
<1>2. Len(s) \in Nat /\ DOMAIN s = 1 .. Len(s) /\ t = SubSeq(s, 1, Len(s) - 1)
  BY <1>1 DEF Front
<1>3. \A i \in 1 .. Len(s) - 1 : s[i] \in S
  BY <1>1, <1>2
<1>4. t \in Seq(S) /\ Len(t) = Len(s) - 1 /\ \A i \in 1 .. Len(s) - 1 : t[i] = s[i]
  BY <1>1, <1>2, <1>3, SubSeqProperties
<1>5. DOMAIN t = 1 .. Len(s) - 1
  BY <1>4
<1>6. t # <<>> /\ t[1] = s[1]
  <2>1. 1 \in 1 .. Len(s) - 1
    BY <1>2
  <2>2. Len(t) # 0
    BY <1>2, <1>4
  <2>. QED
    BY <1>4, <2>1, <2>2
<1>7. \A i \in DOMAIN t : GoodView(t[i], ns)
  BY <1>2, <1>4, <1>5 DEF GoodStack
<1>8. Len(t) <= MaxStack
  BY <1>2, <1>4, ExplorationConstants DEF GoodStack
<1>. QED
  BY <1>4, <1>6, <1>7, <1>8 DEF GoodStack

\* With a good list of its resource in the place of the view on top it is good.
LEMMA ReplacedGood ==
    ASSUME NEW s, NEW ns, GoodStack(s, ns), NEW v, GoodView(v, ns), v.kind = "list",
           v.resource = s[Len(s)].resource
    PROVE  GoodStack([s EXCEPT ![Len(s)] = v], ns)
<1>. DEFINE t == [s EXCEPT ![Len(s)] = v]
<1>1. PICK S : s \in Seq(S)
  BY DEF GoodStack
<1>2. s \in Seq(S \cup {v}) /\ Len(s) \in Nat \ {0} /\ DOMAIN s = 1 .. Len(s)
  BY <1>1 DEF GoodStack
<1>3. /\ t \in Seq(S \cup {v}) /\ DOMAIN t = DOMAIN s
      /\ \A i \in DOMAIN s : t[i] = IF i = Len(s) THEN v ELSE s[i]
  BY <1>2
<1>4. t # <<>>
  <2>1. 1 \in DOMAIN t
    BY <1>2, <1>3
  <2>. QED
    BY <2>1
<1>5. t[1].kind = "list" /\ t[1].resource.base = "read"
  <2>1. (t[1] = v /\ Len(s) = 1) \/ t[1] = s[1]
    BY <1>2, <1>3
  <2>. QED
    BY <2>1 DEF GoodStack
<1>6. \A i \in DOMAIN t : GoodView(t[i], ns)
  <2>1. \A i \in DOMAIN s : t[i] = v \/ t[i] = s[i]
    BY <1>3
  <2>2. \A i \in DOMAIN s : GoodView(s[i], ns)
    BY DEF GoodStack
  <2>. HIDE DEF t
  <2>. QED
    BY <1>3, <2>1, <2>2, Zenon
<1>7. Len(t) = Len(s)
  BY <1>2, <1>3
<1>. QED
  BY <1>3, <1>4, <1>5, <1>6, <1>7 DEF GoodStack

\* One good list of the cluster is a good stack.
LEMMA RootGood ==
    ASSUME NEW r, r.base = "read", NEW rows, NEW ns, GoodView(ListView(r, rows), ns)
    PROVE  GoodStack(<<ListView(r, rows)>>, ns)
<1>. DEFINE v == ListView(r, rows)
<1>0. v.kind = "list" /\ v.resource = r
  BY DEF ListView, View
<1>. HIDE DEF v
<1>1. <<v>> \in Seq({v}) /\ <<v>> # <<>> /\ DOMAIN <<v>> = {1} /\ <<v>>[1] = v /\ Len(<<v>>) = 1
  OBVIOUS
<1>2. GoodView(v, ns)
  BY DEF v
<1>3. GoodStack(<<v>>, ns)
  <2>1. Len(<<v>>) <= MaxStack
    BY <1>1, ExplorationConstants
  <2>2. <<v>>[1].kind = "list" /\ <<v>>[1].resource.base = "read"
    BY <1>0, <1>1
  <2>3. \A i \in DOMAIN <<v>> : GoodView(<<v>>[i], ns)
    BY <1>1, <1>2
  <2>. QED
    BY <1>1, <2>1, <2>2, <2>3, Zenon DEF GoodStack
<1>. QED
  BY <1>3 DEF v

\* The view on top is a good one.
LEMMA TopGood ==
    ASSUME StackInv
    PROVE  GoodView(Top, namespace) /\ Len(stack) \in DOMAIN stack
<1>1. PICK S : stack \in Seq(S)
  BY DEF StackInv, GoodStack
<1>2. Len(stack) \in DOMAIN stack
  BY <1>1 DEF StackInv, GoodStack
<1>. QED
  BY <1>2 DEF StackInv, GoodStack, Top

\* Pushing a good view keeps the stack good, in the scope on screen.
LEMMA PushGood ==
    ASSUME StackInv, NEW v, GoodView(v, namespace), Push(v), namespace' = namespace
    PROVE  StackInv'
  BY AppendGood, Zenon DEF Push, StackInv

\* A set of places in the stack that is not empty has a topmost one: the distance
\* from the top has a least value.
LEMMA TopmostExists ==
    ASSUME NEW n \in Nat, NEW T, T \subseteq 1 .. n, T # {}
    PROVE  \E t \in T : \A u \in T : u <= t
<1>. DEFINE D == {n - i : i \in T}
<1>1. D \subseteq Nat /\ D # {}
  <2>1. \A i \in T : n - i \in Nat
    OBVIOUS
  <2>2. PICK t \in T : TRUE
    OBVIOUS
  <2>. QED
    BY <2>1, <2>2
<1>2. PICK d \in D : \A e \in D : ~ (<<e, d>> \in OpToRel(<, Nat))
  BY <1>1, NatLessThanWellFounded, WFMin
<1>3. \A e \in D : ~ (e < d)
  BY <1>1, <1>2 DEF OpToRel
<1>4. PICK t \in T : d = n - t
  OBVIOUS
<1>5. \A i \in T : t >= i
  BY <1>3, <1>4
<1>. QED
  BY <1>5

-----------------------------------------------------------------------------
(* What each operation puts on the stack.                                  *)

\* What is found among the rows that are had, or the mock's rows, are of the scope if the
\* mock's are.
LEMMA OrMockInScope ==
    ASSUME WorldInv, NEW r \in KnownResources, NEW answer \in LiveLists(r),
           NEW found, answer # None => found \subseteq answer,
           NEW mock, \A row \in mock : InScope(row, namespace),
           NEW row \in OrMock(answer, found, mock)
    PROVE  InScope(row, namespace)
<1>1. CASE answer = None
  BY <1>1 DEF OrMock
<1>2. CASE answer # None
  <2>1. answer \in Answers(r, namespace)
    BY <1>2 DEF LiveLists
  <2>2. row \in Had(answer)
    BY <1>2 DEF OrMock, Had
  <2>. QED
    BY <2>1, <2>2, AnswersInScope
<1>. QED
  BY <1>1, <1>2

\* What is had of the cluster can be looked up.
LEMMA AnswersAreFound ==
    ASSUME WorldInv, NEW r \in KnownResources \ {"events"}, NEW ns, NEW answer \in Answers(r, ns),
           NEW row \in Had(answer)
    PROVE  Found(row, r)
<1>1. PICK o \in Known : RowOf(row, o, r)
  BY AnswersAreOfKnown
<1>2. o.kind = KindBehind(r, row) /\ \E kind : Describes(row, o, kind)
  BY <1>1 DEF RowOf, KindBehind, WorkloadKinds
<1>. QED
  BY <1>2 DEF Found

\* Rows of the mock are in no namespace.
LEMMA MockInScope ==
    ASSUME NEW name, NEW ns
    PROVE  InScope(Mock(name), ns)
  BY DEF InScope, Mock, Blank

\* A child list of rows of the scope.
LEMMA ChildGood ==
    ASSUME StackInv, NEW name, NEW base \in Bases \ {"read", "query"}, NEW contents,
           PushChild(name, base, contents),
           \A rows \in contents : \A row \in rows : InScope(row, namespace)
    PROVE  StackInv'
<1>. DEFINE r == Resource(name, TRUE, base)
<1>1. PICK rows \in contents : Push(ListView(r, rows))
  BY DEF PushChild
<1>2. GoodResource(r) /\ r.child = TRUE /\ r.base = base
  <2>1. r.child = TRUE /\ r.base = base
    BY DEF Resource
  <2>. QED
    BY <2>1, ResourceGood
<1>. HIDE DEF r
<1>3. GoodView(ListView(r, rows), namespace)
  BY <1>2, ListGood DEF GoodRows, FoundRows, ReadsCluster
<1>4. namespace' = namespace
  BY DEF PushChild
<1>. QED
  BY <1>1, <1>3, <1>4, PushGood

\* The result of a query, of rows of the scope.
LEMMA QueryGood ==
    ASSUME StackInv, NEW name \in KnownResources, NEW base \in Bases, NEW rows,
           PushQuery(Resource(name, FALSE, base), rows),
           \A row \in rows : InScope(row, namespace),
           base \in {"read", "query"} => \A row \in rows : Found(row, name)
    PROVE  StackInv'
<1>. DEFINE r == Resource(name, FALSE, base)
<1>1. GoodResource(r) /\ r.name = name /\ r.base = base
  BY ResourceGood
<1>2. PushQuery(r, rows)
  OBVIOUS
<1>. HIDE DEF r
<1>3. GoodView(ListView(r, rows), namespace)
  BY <1>1, ListGood DEF GoodRows, FoundRows, ReadsCluster
<1>. QED
  BY <1>2, <1>3, PushGood DEF PushQuery

\* A log has no rows, but lines or that there are none.
LEMMA LogGood ==
    ASSUME StackInv, NEW resource, NEW row, PushLog(resource, row), GoodResource(resource)
    PROVE  StackInv'
<1>1. \A fetched \in Fetched(row) : LinesOf(resource, fetched) # "none"
  BY DEF Fetched, LinesOf
<1>2. ASSUME NEW lines, lines # "none"
      PROVE  GoodView(LogView(resource, row, lines), namespace)
  BY <1>2, LogViewGood
<1>. QED
  BY <1>1, <1>2, PushGood DEF PushLog

\* Containers are in no namespace.
LEMMA LogOrContainersGood ==
    ASSUME StackInv, NEW row, NEW resource, PushLogOrContainers(resource, row),
           GoodResource(resource)
    PROVE  StackInv'
<1>. DEFINE r == Resource("containers", TRUE, resource.base)
<1>1. PICK n \in Containers(resource, row) :
         \/ PushLog(resource, row)
         \/ /\ Push(View("containers", r, {Mock(<<c>>) : c \in 1 .. n}, row, "none"))
            /\ UNCHANGED <<clusterVars, namespace, picker, picked>>
  BY Zenon DEF PushLogOrContainers
<1>2. \A x \in {Mock(<<c>>) : c \in 1 .. n} : InScope(x, namespace)
  BY MockInScope
<1>3. GoodResource(r) /\ r.child = TRUE
  <2>1. r.child = TRUE
    BY DEF Resource
  <2>2. resource.base \in Bases
    BY DEF GoodResource
  <2>. QED
    BY <2>1, <2>2, ResourceGood
<1>. HIDE DEF r
<1>4. GoodView(View("containers", r, {Mock(<<c>>) : c \in 1 .. n}, row, "none"), namespace)
  BY <1>2, <1>3, ContainersGood DEF GoodRows
<1>5. CASE PushLog(resource, row)
  BY <1>5, LogGood
<1>. QED
  BY <1>1, <1>4, <1>5, PushGood

\* What is on top is a row of a list of the scope.
LEMMA EnteredInScope ==
    ASSUME StackInv, NEW row, Entering(row)
    PROVE  InScope(row, namespace)
  BY TopGood DEF Entering, GoodView, GoodRows

\* Enter, "o" and J on a row.
LEMMA EnterRowGood ==
    ASSUME StackInv, WorldInv, NEW row, EnterRow(row)
    PROVE  StackInv'
<1>1. GoodResource(Top.resource)
  BY TopGood DEF GoodView
<1>2. {"pods", "services", "workloads"} \subseteq KnownResources
  BY ResourcesAre
<1>3. CASE EnterPod(row)
  BY <1>1, <1>3, LogOrContainersGood DEF EnterPod
<1>4. CASE EnterContainer(row)
  BY <1>1, <1>4, LogGood DEF EnterContainer
<1>5. CASE EnterService(row)
  <2>1. \A r \in RegistryBackends(row) : InScope(r, namespace)
    BY RegistryPodsFacts DEF RegistryBackends, InScope
  <2>2. \A pods \in LiveLists("pods") :
           \A r \in OrMock(pods, LiveBackendsForService(row, pods), RegistryBackends(row)) :
              InScope(r, namespace)
    BY <1>2, <2>1, OrMockInScope DEF LiveBackendsForService
  <2>. DEFINE contents == {OrMock(pods, LiveBackendsForService(row, pods), RegistryBackends(row))
                          : pods \in LiveLists("pods")}
  <2>3. PushChild("backends", "related", contents)
    BY <1>5 DEF EnterService
  <2>4. \A rows \in contents : \A r \in rows : InScope(r, namespace)
    BY <2>2
  <2>. HIDE DEF contents
  <2>. QED
    BY <2>3, <2>4, ChildGood DEF Bases
<1>6. CASE EnterIngress(row)
  <2>1. \A r \in {Mock(row.name)} : InScope(r, namespace)
    BY MockInScope
  <2>2. \A services \in LiveLists("services") :
           \A r \in OrMock(services, LiveServicesForIngress(row, services), {Mock(row.name)}) :
              InScope(r, namespace)
    BY <1>2, <2>1, OrMockInScope DEF LiveServicesForIngress
  <2>. DEFINE contents == {OrMock(services, LiveServicesForIngress(row, services), {Mock(row.name)})
                          : services \in LiveLists("services")}
  <2>3. PushChild("services", "related", contents)
    BY <1>6 DEF EnterIngress
  <2>4. \A rows \in contents : \A r \in rows : InScope(r, namespace)
    BY <2>2
  <2>. HIDE DEF contents
  <2>. QED
    BY <2>3, <2>4, ChildGood DEF Bases
<1>7. CASE EnterNode(row)
  <2>1. \A r \in {Mock(row.name)} : InScope(r, namespace)
    BY MockInScope
  <2>2. \A pods \in LiveLists("pods") :
           \A r \in OrMock(pods, LivePodsForNode(row, pods), {Mock(row.name)}) :
              InScope(r, namespace)
    BY <1>2, <2>1, OrMockInScope DEF LivePodsForNode
  <2>. DEFINE contents == {OrMock(pods, LivePodsForNode(row, pods), {Mock(row.name)})
                          : pods \in LiveLists("pods")}
  <2>3. PushChild("pods", "node pods", contents)
    BY <1>7 DEF EnterNode
  <2>4. \A rows \in contents : \A r \in rows : InScope(r, namespace)
    BY <2>2
  <2>. HIDE DEF contents
  <2>. QED
    BY <2>3, <2>4, ChildGood DEF Bases
<1>8. CASE EnterClaim(row)
  <2>1. \A r \in {Mock(<<"db", "0">>)} : InScope(r, namespace)
    BY MockInScope
  <2>2. \A pods \in LiveLists("pods") :
           \A r \in OrMock(pods, LivePodsForPVC(row, pods), {Mock(<<"db", "0">>)}) :
              InScope(r, namespace)
    BY <1>2, <2>1, OrMockInScope DEF LivePodsForPVC
  <2>. DEFINE contents == {OrMock(pods, LivePodsForPVC(row, pods), {Mock(<<"db", "0">>)})
                          : pods \in LiveLists("pods")}
  <2>3. PushChild("mounted-by", "related", contents)
    BY <1>8 DEF EnterClaim
  <2>4. \A rows \in contents : \A r \in rows : InScope(r, namespace)
    BY <2>2
  <2>. HIDE DEF contents
  <2>. QED
    BY <2>3, <2>4, ChildGood DEF Bases
<1>9. CASE EnterBackend(row)
  <2>1. GoodView(DetailView(Resource("pods", TRUE, "backend"), row), namespace)
    BY ResourceGood, OtherGood DEF Bases
  <2>. QED
    BY <1>9, <2>1, PushGood DEF EnterBackend
<1>10. CASE EnterWorkload(row)
  <2>. DEFINE mock  == RegistryWorkloadPods(row)
              alone == IF mock = {} THEN {None} ELSE {}
  <2>1. CASE PushChild("pods", "workload pods",
                       {OrMock(pods, LiveWorkloadPods(row, pods), mock)
                        : pods \in LiveLists("pods") \ alone})
    <3>1. InScope(row, namespace)
      BY <1>10, EnteredInScope DEF EnterWorkload
    <3>2. \A r \in mock : r.ns \in {row.ns, NoNamespace}
      BY RegistryPodsFacts DEF RegistryWorkloadPods, Blank
    <3>3. \A r \in mock : InScope(r, namespace)
      BY <3>1, <3>2 DEF InScope
    <3>4. \A pods \in LiveLists("pods") :
             \A r \in OrMock(pods, LiveWorkloadPods(row, pods), mock) : InScope(r, namespace)
      BY <1>2, <3>3, OrMockInScope DEF LiveWorkloadPods
    <3>. DEFINE contents == {OrMock(pods, LiveWorkloadPods(row, pods), mock)
                             : pods \in LiveLists("pods") \ alone}
    <3>5. \A rows \in contents : \A r \in rows : InScope(r, namespace)
      BY <3>4
    <3>6. PushChild("pods", "workload pods", contents)
      BY <2>1
    <3>. HIDE DEF contents
    <3>. QED
      BY <3>5, <3>6, ChildGood DEF Bases
  <2>2. CASE Opening(row)
    BY <2>2 DEF Opening, StackInv
  <2>. QED
    BY <1>10, <2>1, <2>2, Zenon DEF EnterWorkload
<1>11. CASE OpenWorkloadLog(row)
  <2>1. PICK pod : PushLog(Resource("pods", TRUE, "workload pods"), pod)
    BY <1>11, Zenon DEF OpenWorkloadLog
  <2>2. GoodResource(Resource("pods", TRUE, "workload pods"))
    BY ResourceGood DEF Bases
  <2>. QED
    BY <2>1, <2>2, LogGood
<1>12. CASE EnterRelation(row)
  BY <1>1, <1>12, LogGood DEF EnterRelation
<1>13. CASE OpenRelatedPicker(row)
  BY <1>13 DEF OpenRelatedPicker, Opening, StackInv
<1>14. CASE JumpToPodOwner(row)
  <2>1. PICK workloads \in Answers("workloads", namespace) :
           LET owners == OwnerForPod(row, Had(workloads))
           IN  IF Cardinality(owners) > 1
               THEN PushQuery(Resource("workloads", FALSE, "query"), owners)
               ELSE \E owner \in (IF owners = {} THEN {MockOwner(row)} ELSE owners) :
                      /\ Push(DetailView(Resource("workloads", FALSE, "read"), owner))
                      /\ UNCHANGED <<clusterVars, namespace, picker, picked>>
    BY <1>14, Zenon DEF JumpToPodOwner
  <2>. DEFINE owners == OwnerForPod(row, Had(workloads))
  <2>2. CASE PushQuery(Resource("workloads", FALSE, "query"), owners)
    <3>1. owners \subseteq Had(workloads)
      BY DEF OwnerForPod, OwnersByName
    <3>2. \A r \in owners : InScope(r, namespace) /\ Found(r, "workloads")
      BY <1>2, <3>1, AnswersInScope, AnswersAreFound
    <3>. QED
      BY <1>2, <2>2, <3>2, QueryGood DEF Bases
  <2>3. ASSUME NEW owner,
               Push(DetailView(Resource("workloads", FALSE, "read"), owner)),
               UNCHANGED <<clusterVars, namespace, picker, picked>>
        PROVE  StackInv'
    <3>1. GoodView(DetailView(Resource("workloads", FALSE, "read"), owner), namespace)
      BY ResourceGood, OtherGood DEF Bases
    <3>. QED
      BY <2>3, <3>1, PushGood
  <2>. QED
    BY <2>1, <2>2, <2>3, Zenon
<1>. QED
  BY <1>3, <1>4, <1>5, <1>6, <1>7, <1>8, <1>9, <1>10, <1>11, <1>12, <1>13, <1>14 DEF EnterRow

\* A list of the cluster as the only view.
LEMMA ReadGood ==
    ASSUME WorldInv, NEW name \in KnownResources, NEW ns, NEW answer \in Answers(name, ns)
    PROVE  GoodStack(<<ListView(Resource(name, FALSE, "read"), Had(answer))>>, ns)
<1>. DEFINE r == Resource(name, FALSE, "read")
<1>1. GoodResource(r) /\ r.name = name /\ r.base = "read"
  <2>1. r.name = name /\ r.base = "read"
    BY DEF Resource
  <2>. QED
    BY <2>1, ResourceGood DEF Bases
<1>. HIDE DEF r
<1>2. GoodRows(r, Had(answer), ns)
  BY <1>1, AnswersInScope DEF GoodRows
<1>3. FoundRows(r, Had(answer))
  BY <1>1, AnswersAreFound DEF FoundRows, ReadsCluster
<1>4. GoodStack(<<ListView(r, Had(answer))>>, ns)
  BY <1>1, <1>2, <1>3, ListGood, RootGood
<1>. QED
  BY <1>4 DEF r

\* What a list shows when it reads its resource again is of the scope it reads in.
LEMMA ItemsGood ==
    ASSUME WorldInv, NEW r, GoodResource(r), NEW old, NEW ns,
           r.child = FALSE => r.name \in KnownResources,
           r.base = "read" \/ (GoodRows(r, old, ns) /\ FoundRows(r, old)),
           NEW rows \in ItemsOf(r, old, ns)
    PROVE  GoodRows(r, rows, ns) /\ FoundRows(r, rows)
<1>1. CASE r.base # "read"
  BY <1>1 DEF ItemsOf
<1>2. CASE r.base = "read" /\ r.child
  <2>1. rows = {}
    BY <1>2 DEF ItemsOf
  <2>. QED
    BY <1>2, <2>1 DEF GoodRows, FoundRows
<1>3. CASE r.base = "read" /\ ~r.child
  <2>1. PICK answer \in Answers(r.name, ns) : rows = Had(answer)
    BY <1>3 DEF ItemsOf
  <2>2. r.name \in KnownResources
    BY <1>3 DEF GoodResource
  <2>3. GoodRows(r, rows, ns)
    BY <2>1, <2>2, AnswersInScope DEF GoodRows
  <2>4. FoundRows(r, rows)
    BY <2>1, <2>2, AnswersAreFound DEF FoundRows, ReadsCluster
  <2>. QED
    BY <2>3, <2>4
<1>. QED
  BY <1>1, <1>2, <1>3 DEF GoodResource

\* A list that is read again.
LEMMA RefreshGood ==
    ASSUME StackInv, WorldInv, RefreshItems
    PROVE  StackInv'
<1>. DEFINE r == Top.resource
<1>1. PICK rows \in ItemsOf(Top.resource, Top.rows, namespace) :
         stack' = [stack EXCEPT ![Len(stack)].rows = rows]
  BY DEF RefreshItems
<1>2. /\ Top = View("list", r, Top.rows, Top.item, Top.lines) /\ Top.lines = "none"
      /\ GoodResource(r) /\ GoodRows(r, Top.rows, namespace) /\ FoundRows(r, Top.rows)
  BY TopGood DEF GoodView, RefreshItems, ListKinds
<1>3. GoodRows(r, rows, namespace) /\ FoundRows(r, rows)
  BY <1>1, <1>2, ItemsGood DEF GoodRows
<1>. DEFINE v == View("list", r, rows, Top.item, "none")
<1>4. stack' = [stack EXCEPT ![Len(stack)] = v]
  <2>1. [Top EXCEPT !.rows = rows] = v
    BY <1>2 DEF View
  <2>. QED
    BY <1>1, <2>1 DEF Top
<1>5. GoodView(v, namespace)
  BY <1>2, <1>3 DEF GoodView, View, ListKinds
<1>6. v.kind = "list" /\ v.resource = stack[Len(stack)].resource
  BY DEF View, Top
<1>7. namespace' = namespace
  BY DEF RefreshItems
<1>. HIDE DEF v
<1>. QED
  BY <1>4, <1>5, <1>6, <1>7, ReplacedGood DEF StackInv

\* A scope switch: the topmost list reads the cluster, or is empty.
LEMMA SwitchGood ==
    ASSUME StackInv, WorldInv, NEW ns, SwitchScope(ns)
    PROVE  StackInv'
<1>. DEFINE t        == CHOOSE i \in ListBelow : \A j \in ListBelow : j <= i
            resource == AdaptResource(stack[t].resource)
<1>1. t \in ListBelow
  <2>1. ListBelow \subseteq 1 .. Len(stack) /\ Len(stack) \in Nat /\ 1 \in ListBelow
    <3>1. PICK S : stack \in Seq(S)
      BY DEF StackInv, GoodStack
    <3>. QED
      BY <3>1 DEF ListBelow, ListKinds, StackInv, GoodStack
  <2>2. \E i \in ListBelow : \A j \in ListBelow : j <= i
    BY <2>1, TopmostExists
  <2>. QED
    BY <2>2
<1>. HIDE DEF t
<1>2. stack[t].kind \in ListKinds /\ GoodView(stack[t], namespace)
  BY <1>1 DEF ListBelow, StackInv, GoodStack
<1>3. /\ GoodResource(resource) /\ resource.base = "read"
      /\ resource.child = FALSE => resource.name \in KnownResources
  <2>1. resource = Resource(stack[t].resource.name, stack[t].resource.child, "read")
    BY <1>2 DEF AdaptResource, GoodView, GoodResource, Resource
  <2>2. /\ stack[t].resource.child \in BOOLEAN
        /\ stack[t].resource.child = FALSE => stack[t].resource.name \in KnownResources
    BY <1>2 DEF GoodView, GoodResource, GoodRows
  <2>3. "read" \in Bases
    BY DEF Bases
  <2>. HIDE DEF resource
  <2>4. /\ GoodResource(resource) /\ resource.base = "read"
        /\ resource.child = stack[t].resource.child /\ resource.name = stack[t].resource.name
    BY <2>1, <2>2, <2>3, ResourceGood
  <2>. QED
    BY <2>2, <2>4
<1>4. PICK rows \in ItemsOf(resource, stack[t].rows, ns) : stack' = <<ListView(resource, rows)>>
  BY DEF SwitchScope, t
<1>. HIDE DEF resource
<1>5. GoodRows(resource, rows, ns) /\ FoundRows(resource, rows)
  BY <1>3, <1>4, ItemsGood
<1>6. GoodView(ListView(resource, rows), ns)
  BY <1>3, <1>5, ListGood
<1>7. namespace' = ns
  BY DEF SwitchScope
<1>. QED
  BY <1>3, <1>4, <1>6, <1>7, RootGood DEF StackInv

\* Commands that look for rows show rows of the lists they read, or of the mock.
LEMMA CommandGood ==
    ASSUME StackInv, WorldInv,
           \/ OpenUnhealthy \/ OpenRestarts
           \/ \E name \in Commanded : OpenSelector(name) \/ OpenNamed(name)
    PROVE  StackInv'
<1>1. /\ {"pods", "deployments", "persistentvolumeclaims", "workloads"} \subseteq KnownResources
      /\ Commanded \subseteq KnownResources
  BY ResourcesAre, ExplorationConstants DEF KnownResources
<1>2. ASSUME NEW name \in Commanded, NEW rows \in ListResourceItems(name), NEW row \in rows
      PROVE  InScope(row, namespace)
  <2>1. PICK answer \in Answers(name, namespace) :
           rows = IF answer # None THEN answer
                  ELSE IF name = "pods" THEN RegistryPods ELSE {Mock(<<name>>)}
    BY DEF ListResourceItems
  <2>2. CASE answer # None
    BY <1>1, <2>1, <2>2, AnswersInScope DEF Had
  <2>3. CASE answer = None
    BY <2>1, <2>3, MockInScope, RegistryPodsFacts DEF InScope
  <2>. QED
    BY <2>2, <2>3
<1>3. CASE OpenUnhealthy
  <2>1. PICK pods \in Answers("pods", namespace), deployments \in Answers("deployments", namespace),
             claims \in Answers("persistentvolumeclaims", namespace) :
           PushQuery(Resource("workloads", FALSE, "query"),
                     IF None \in {pods, deployments, claims} THEN {}
                     ELSE {row \in pods \cup deployments \cup claims : IsUnhealthy(row)})
    BY <1>3, Zenon DEF OpenUnhealthy
  <2>. DEFINE rows == IF None \in {pods, deployments, claims} THEN {}
                      ELSE {row \in pods \cup deployments \cup claims : IsUnhealthy(row)}
  <2>2. rows \subseteq Had(pods) \cup Had(deployments) \cup Had(claims)
    BY DEF Had
  <2>3. \A row \in rows : InScope(row, namespace)
    BY <1>1, <2>2, AnswersInScope
  <2>5. ASSUME NEW row \in rows
        PROVE  Found(row, "workloads")
    <3>1. PICK r \in {"pods", "deployments", "persistentvolumeclaims"} : \E o \in Known : RowOf(row, o, r)
      BY <1>1, <2>2, AnswersAreOfKnown
    <3>2. PICK o \in Known : RowOf(row, o, r)
      BY <3>1
    <3>3. /\ o.kind = ObjectKinds[r] /\ Describes(row, o, "")
          /\ ObjectKinds["pods"] = "Pod" /\ ObjectKinds["deployments"] = "Deployment"
          /\ ObjectKinds["persistentvolumeclaims"] = "PersistentVolumeClaim"
      BY <3>1, <3>2 DEF RowOf, ObjectKinds
    <3>4. Workload(o) => o.kind = KindBehind("workloads", row)
      BY <3>1, <3>3, WorkloadsAre DEF Workload, KindBehind, Describes
    <3>. QED
      BY <1>1, <3>2, <3>3, <3>4 DEF Found
  <2>4. PushQuery(Resource("workloads", FALSE, "query"), rows)
    BY <2>1
  <2>. HIDE DEF rows
  <2>. QED
    BY <1>1, <2>3, <2>4, <2>5, QueryGood DEF Bases
<1>4. CASE OpenRestarts
  <2>1. PICK pods \in Answers("pods", namespace) :
           PushQuery(Resource("pods", FALSE, "query"), {row \in Had(pods) : row.restarts > 0})
    BY <1>4, Zenon DEF OpenRestarts
  <2>2. \A row \in {r \in Had(pods) : r.restarts > 0} : InScope(row, namespace) /\ Found(row, "pods")
    BY <1>1, AnswersInScope, AnswersAreFound
  <2>. QED
    BY <1>1, <2>1, <2>2, QueryGood DEF Bases
<1>5. ASSUME NEW name \in Commanded, OpenSelector(name)
      PROVE  StackInv'
  <2>1. PICK rows \in ListResourceItems(name), label \in UNION {o.labels : o \in Catalogue} :
           PushQuery(Resource(name, FALSE, RegistryBase(name)), MatchesLabelSelector(rows, label))
    BY <1>5, Zenon DEF OpenSelector
  <2>2. \A row \in MatchesLabelSelector(rows, label) : InScope(row, namespace)
    BY <1>2 DEF MatchesLabelSelector
  <2>. QED
    BY <1>1, <2>1, <2>2, QueryGood DEF Bases, RegistryBase
<1>6. ASSUME NEW name \in Commanded, OpenNamed(name)
      PROVE  StackInv'
  <2>. DEFINE list(answer) == ListView(Resource(name, FALSE, "read"), Had(answer))
              detail(row)  == DetailView(Resource(name, FALSE, "read"), row)
  <2>0. PICK rows \in ListResourceItems(name) :
         \E word \in UNION {Range(row.name) : row \in rows} :
           \/ PushQuery(Resource(name, FALSE, RegistryBase(name)), NameMatches(rows, word))
           \/ \E answer \in Answers(name, namespace), row \in NameMatches(rows, word) :
                 /\ \/ stack' = stack \o <<>> \o <<detail(row)>>
                    \/ stack' = stack \o <<list(answer)>> \o <<detail(row)>>
                 /\ namespace' = namespace /\ Len(stack') <= MaxStack
    BY <1>6 DEF OpenNamed
  <2>1. PICK word \in UNION {Range(row.name) : row \in rows} :
           \/ PushQuery(Resource(name, FALSE, RegistryBase(name)), NameMatches(rows, word))
           \/ \E answer \in Answers(name, namespace), row \in NameMatches(rows, word) :
                 /\ \/ stack' = stack \o <<>> \o <<detail(row)>>
                    \/ stack' = stack \o <<list(answer)>> \o <<detail(row)>>
                 /\ namespace' = namespace /\ Len(stack') <= MaxStack
    BY <2>0, Zenon
  <2>2. CASE PushQuery(Resource(name, FALSE, RegistryBase(name)), NameMatches(rows, word))
    <3>1. \A row \in NameMatches(rows, word) : InScope(row, namespace)
      BY <1>2 DEF NameMatches
    <3>. QED
      BY <1>1, <2>2, <3>1, QueryGood DEF Bases, RegistryBase
  <2>3. ASSUME NEW answer \in Answers(name, namespace), NEW row, namespace' = namespace,
               Len(stack') <= MaxStack,
               \/ stack' = stack \o <<>> \o <<detail(row)>>
               \/ stack' = stack \o <<list(answer)>> \o <<detail(row)>>
        PROVE  StackInv'
    <3>0. /\ GoodResource(Resource(name, FALSE, "read"))
          /\ Resource(name, FALSE, "read").name = name
      BY ResourceGood DEF Bases
    <3>1. GoodView(list(answer), namespace)
      <4>1. GoodRows(Resource(name, FALSE, "read"), Had(answer), namespace)
        BY <1>1, <3>0, AnswersInScope DEF GoodRows
      <4>2. FoundRows(Resource(name, FALSE, "read"), Had(answer))
        BY <1>1, <3>0, AnswersAreFound DEF FoundRows, ReadsCluster
      <4>. QED
        BY <3>0, <4>1, <4>2, ListGood
    <3>2. GoodView(detail(row), namespace)
      BY <3>0, OtherGood
    <3>. HIDE DEF list, detail
    <3>3. /\ \/ stack' = Append(stack, detail(row))
             \/ stack' = Append(Append(stack, list(answer)), detail(row))
          /\ Len(stack) \in Nat
          /\ Len(Append(stack, list(answer))) = Len(stack) + 1
          /\ Len(Append(stack, detail(row))) = Len(stack) + 1
          /\ Len(Append(Append(stack, list(answer)), detail(row))) = Len(stack) + 2
      <4>1. PICK S : stack \in Seq(S)
        BY DEF StackInv, GoodStack
      <4>2. stack \in Seq(S \cup {list(answer), detail(row)})
        BY <4>1
      <4>3. stack \o <<>> = stack
        BY <4>1
      <4>4. stack \o <<detail(row)>> = Append(stack, detail(row))
        BY <4>2
      <4>5. stack \o <<list(answer)>> = Append(stack, list(answer))
        BY <4>2
      <4>6. /\ Append(stack, list(answer)) \in Seq(S \cup {list(answer), detail(row)})
            /\ Len(stack) \in Nat
            /\ Len(Append(stack, list(answer))) = Len(stack) + 1
            /\ Len(Append(stack, detail(row))) = Len(stack) + 1
        BY <4>2
      <4>7. /\ Append(stack, list(answer)) \o <<detail(row)>>
                 = Append(Append(stack, list(answer)), detail(row))
            /\ Len(Append(Append(stack, list(answer)), detail(row))) = Len(stack) + 2
        BY <4>6
      <4>. QED
        BY <2>3, <4>3, <4>4, <4>5, <4>6, <4>7
    <3>4. CASE stack' = Append(stack, detail(row))
      <4>1. Len(stack) < MaxStack
        BY <2>3, <3>3, <3>4, ExplorationConstants
      <4>. QED
        BY <2>3, <3>2, <3>4, <4>1, AppendGood DEF StackInv
    <3>5. CASE stack' = Append(Append(stack, list(answer)), detail(row))
      <4>. DEFINE below == Append(stack, list(answer))
      <4>1. Len(stack) < MaxStack /\ Len(below) < MaxStack
        BY <2>3, <3>3, <3>5, ExplorationConstants
      <4>2. GoodStack(below, namespace)
        BY <3>1, <4>1, AppendGood DEF StackInv
      <4>. HIDE DEF below
      <4>3. GoodStack(Append(below, detail(row)), namespace)
        BY <3>2, <4>1, <4>2, AppendGood
      <4>. QED
        BY <2>3, <3>5, <4>3 DEF below, StackInv
    <3>. QED
      BY <3>3, <3>4, <3>5
  <2>. QED
    BY <2>1, <2>2, <2>3
<1>. QED
  BY <1>3, <1>4, <1>5, <1>6

\* At first there is one list, of a resource of the cluster.
LEMMA StackInit == Init => StackInv
<1>. SUFFICES ASSUME Init
              PROVE  StackInv
  OBVIOUS
<1>1. PICK answer \in Answers("workloads", namespace) :
         stack = <<ListView(Resource("workloads", FALSE, "read"), Had(answer))>>
  BY DEF Init
<1>. QED
  BY <1>1, ResourcesAre, WorldInit, ReadGood DEF StackInv

\* Whatever is done, the stack stays good; of what goes on in the cluster the views on
\* screen do not hear.
LEMMA StackNext == StackInv /\ WorldInv /\ [Next]_vars => StackInv'
<1>. SUFFICES ASSUME StackInv, WorldInv, [Next]_vars
              PROVE  StackInv'
  OBVIOUS
<1>1. CASE ClusterStep
  <2>1. UNCHANGED <<stack, namespace>>
    BY <1>1, Zenon DEF ClusterStep, Create, Delete, FallIll, ClusterBecomes, InformersSync, WatchEvent
  <2>. QED
    BY <2>1 DEF StackInv
<1>2. ASSUME NEW name \in Roots, OpenList(name)
      PROVE  StackInv'
  <2>1. PICK answer \in Answers(name, namespace) :
           stack' = <<ListView(Resource(name, FALSE, "read"), Had(answer))>>
    BY <1>2 DEF OpenList
  <2>2. name \in KnownResources
    BY ExplorationConstants DEF KnownResources
  <2>3. namespace' = namespace
    BY <1>2 DEF OpenList
  <2>. QED
    BY <2>1, <2>2, <2>3, ReadGood DEF StackInv
<1>3. CASE \E name \in Commanded : OpenSelector(name) \/ OpenNamed(name)
  BY <1>3, CommandGood
<1>4. CASE OpenUnhealthy \/ OpenRestarts
  BY <1>4, CommandGood
<1>5. CASE RefreshItems
  BY <1>5, RefreshGood
<1>6. CASE DetailLogs
  <2>1. PushLogOrContainers(Top.resource, Top.item) /\ GoodResource(Top.resource)
    BY <1>6, TopGood DEF DetailLogs, GoodView
  <2>. QED
    BY <2>1, LogOrContainersGood
<1>7. ASSUME NEW ns \in Scopes, SwitchScope(ns)
      PROVE  StackInv'
  BY <1>7, SwitchGood
<1>8. CASE Back
  BY <1>8, FrontGood, Zenon DEF Back, StackInv
<1>9. ASSUME NEW row, EnterRow(row)
      PROVE  StackInv'
  BY <1>9, EnterRowGood
<1>10. CASE MoveCursor \/ ClosePicker \/ Choose
  BY <1>10 DEF MoveCursor, ClosePicker, Choose, StackInv
<1>11. CASE OpenPicked
  <2>1. GoodView(RelationList(Resource(picked.name, TRUE, RelationBase(picked.name)), picked.rows),
                 namespace)
    BY ResourceGood, OtherGood DEF RelationBase, Bases
  <2>. QED
    BY <1>11, <2>1, PushGood DEF OpenPicked
<1>12. CASE UNCHANGED vars
  BY <1>12 DEF vars, StackInv
<1>. QED
  BY <1>1, <1>2, <1>3, <1>4, <1>5, <1>6, <1>7, <1>8, <1>9, <1>10, <1>11, <1>12 DEF Next

-----------------------------------------------------------------------------
(* The cluster's rules, the scope and the picker.                          *)

ClusterInv ==
    /\ ClusterRules(objects) /\ changes \in 0 .. MaxChanges
    /\ informers \in {"starting", "synced"}
    /\ informers = "starting" => seen = {}
    /\ namespace \in Scopes

PickerInv ==
    /\ picker # None =>
           /\ picker = [entries |-> picker.entries, cursor |-> picker.cursor]
           /\ picker.cursor \in DOMAIN picker.entries
    /\ picked # None => EntryActionable(picked)

\* At first they hold.
LEMMA ClusterInit == Init => ClusterInv /\ PickerInv
  BY ExplorationConstants DEF Init, ClusterInv, PickerInv, Scopes

\* An object that falls ill is the same object.
LEMMA TroubledIsSame ==
    ASSUME NEW o \in Catalogue
    PROVE  LET t == Troubled(o)
           IN  t.uid = o.uid /\ t.kind = o.kind /\ t.ns = o.ns /\ t.name = o.name
<1>1. {"uid", "kind", "ns", "name", "status", "labels", "selector", "controller", "ready",
       "unavailable", "restarts", "desired"} \subseteq DOMAIN o
  BY ObjectFields, ClusterFacts
<1>. QED
  BY <1>1 DEF Troubled

\* Names and uids stay unique, whatever comes, goes and falls ill.
LEMMA ClusterNext == ClusterInv /\ [Next]_vars => ClusterInv'
<1>. SUFFICES ASSUME ClusterInv, [Next]_vars
              PROVE  ClusterInv'
  OBVIOUS
<1>1. CASE ClusterStep /\ UNCHANGED <<namespace, stack, picker, picked>>
  <2>1. ASSUME NEW there, ClusterBecomes(there), ClusterRules(there)
        PROVE  ClusterInv'
    BY <1>1, <2>1, ExplorationConstants DEF ClusterBecomes, ClusterInv
  <2>2. ASSUME NEW o \in Changing, Create(o)
        PROVE  ClusterInv'
    BY <2>1, <2>2 DEF Create
  <2>3. ASSUME NEW o \in objects, Delete(o)
        PROVE  ClusterInv'
    <3>1. ClusterRules(objects \ {o})
      BY DEF ClusterInv, ClusterRules
    <3>. QED
      BY <2>1, <2>3, <3>1 DEF Delete
  <2>4. ASSUME NEW o \in objects, o \in Failing, FallIll(o)
        PROVE  ClusterInv'
    <3>. DEFINE t == Troubled(o)
    <3>1. t.uid = o.uid /\ t.kind = o.kind /\ t.ns = o.ns /\ t.name = o.name
      BY <2>4, TroubledIsSame, ExplorationConstants
    <3>. HIDE DEF t
    <3>2. ClusterRules((objects \ {o}) \cup {t})
      BY <3>1 DEF ClusterInv, ClusterRules
    <3>. QED
      BY <2>1, <2>4, <3>2 DEF FallIll, t
  <2>5. CASE InformersSync
    BY <1>1, <2>5 DEF InformersSync, ClusterInv
  <2>6. ASSUME NEW kind, WatchEvent(kind)
        PROVE  ClusterInv'
    BY <1>1, <2>6 DEF WatchEvent, ClusterInv
  <2>. QED
    BY <1>1, <2>2, <2>3, <2>4, <2>5, <2>6 DEF ClusterStep
<1>2. CASE UNCHANGED clusterVars /\ namespace' \in Scopes \cup {namespace}
  BY <1>2 DEF clusterVars, ClusterInv
<1>. QED
  BY <1>1, <1>2, StepsLeave

IsSeq(s) == \E S : s \in Seq(S)

Entries(s) == IsSeq(s) /\ Len(s) \in Nat \ {0}

\* Entries, and more of them.
LEMMA Concatenated ==
    ASSUME NEW s, Entries(s), NEW t, IsSeq(t)
    PROVE  Entries(s \o t)
<1>1. PICK S : s \in Seq(S)
  BY DEF Entries, IsSeq
<1>2. PICK T : t \in Seq(T)
  BY DEF IsSeq
<1>3. s \in Seq(S \cup T) /\ t \in Seq(S \cup T)
  BY <1>1, <1>2
<1>4. s \o t \in Seq(S \cup T) /\ Len(s \o t) = Len(s) + Len(t) /\ Len(t) \in Nat
  BY <1>3
<1>. QED
  BY <1>4 DEF IsSeq, Entries

\* One entry, and two.
LEMMA SomeEntries ==
    ASSUME NEW d, NEW e
    PROVE  Entries(<<e>>) /\ Entries(<<d, e>>)
<1>1. <<e>> \in Seq({e}) /\ Len(<<e>>) = 1
  OBVIOUS
<1>2. <<d, e>> \in Seq({d, e}) /\ Len(<<d, e>>) = 2
  OBVIOUS
<1>3. Len(<<e>>) \in Nat \ {0} /\ Len(<<d, e>>) \in Nat \ {0}
  BY <1>1, <1>2
<1>. QED
  BY <1>1, <1>2, <1>3, Zenon DEF Entries, IsSeq

\* The entries with rows of the index.
LEMMA IndexedEntries ==
    ASSUME NEW index, NEW n \in Nat \ {0}, NEW names, DOMAIN names = 1 .. n
    PROVE  Entries(Indexed(index, names))
<1>. DEFINE E(i) == Entry(names[i], index[names[i]])
            all  == {E(i) : i \in 1 .. n}
            s    == [i \in 1 .. n |-> E(i)]
<1>1. Indexed(index, names) = s
  BY DEF Indexed
<1>. HIDE DEF E
<1>2. s \in Seq(all) /\ Len(s) = n
  OBVIOUS
<1>. HIDE DEF s
<1>. QED
  BY <1>1, <1>2 DEF IsSeq, Entries

\* Whatever a row is related to, the picker has an entry.
LEMMA PickerHasEntries ==
    ASSUME NEW resource, NEW row, NEW index
    PROVE  1 \in DOMAIN RelatedEntriesWithIndex(resource, row, index)
<1>. DEFINE entries  == RelatedEntriesWithIndex(resource, row, index)
            name     == resource.name
            I(names) == Indexed(index, names)
            M(n)     == <<MockEntry(n)>>
            rest     == IF row.kind = "CJ" THEN M("jobs") ELSE <<>>
<1>1. \A n : Entries(M(n))
  BY SomeEntries
<1>0. /\ \A names : DOMAIN names = 1 .. 1 => Entries(I(names))
      /\ \A names : DOMAIN names = 1 .. 2 => Entries(I(names))
      /\ \A names : DOMAIN names = 1 .. 3 => Entries(I(names))
      /\ \A names : DOMAIN names = 1 .. 4 => Entries(I(names))
  <2>. SUFFICES ASSUME NEW names, NEW n \in {1, 2, 3, 4}, DOMAIN names = 1 .. n
                PROVE  Entries(Indexed(index, names))
    BY DEF I
  <2>. n \in Nat \ {0}
    OBVIOUS
  <2>. QED
    BY IndexedEntries
<1>2. Entries(I(<<"owner", "services", "config", "storage">>))
  <2>1. DOMAIN <<"owner", "services", "config", "storage">> = 1 .. 4
    OBVIOUS
  <2>. QED
    BY <1>0, <2>1, Zenon
<1>3. Entries(I(<<"pods">>)) /\ Entries(I(<<"services">>)) /\ Entries(I(<<"mounted-by">>))
  <2>1. DOMAIN <<"pods">> = 1 .. 1
    OBVIOUS
  <2>2. DOMAIN <<"services">> = 1 .. 1
    OBVIOUS
  <2>3. DOMAIN <<"mounted-by">> = 1 .. 1
    OBVIOUS
  <2>. QED
    BY <1>0, <2>1, <2>2, <2>3, Zenon
<1>4. Entries(I(<<"services", "config", "storage">>))
  <2>1. DOMAIN <<"services", "config", "storage">> = 1 .. 3
    OBVIOUS
  <2>. QED
    BY <1>0, <2>1, Zenon
<1>5. Entries(I(<<"backends", "ingresses">>))
  <2>1. DOMAIN <<"backends", "ingresses">> = 1 .. 2
    OBVIOUS
  <2>. QED
    BY <1>0, <2>1, Zenon
<1>6. \A s : Entries(s) => IsSeq(s)
  BY DEF Entries
<1>7. IsSeq(rest)
  <2>1. <<>> \in Seq({})
    OBVIOUS
  <2>2. IsSeq(<<>>)
    BY <2>1, Zenon DEF IsSeq
  <2>. QED
    BY <1>1, <1>6, <2>2
<1>. HIDE DEF I, M, rest
<1>8. ASSUME name = "pods"
      PROVE  Entries(entries)
  <2>1. entries = M("events") \o I(<<"owner", "services", "config", "storage">>)
    BY <1>8 DEF RelatedEntriesWithIndex, I, M
  <2>. QED
    BY <2>1, <1>1, <1>2, <1>6, Concatenated, Zenon
<1>9. ASSUME name \in {"workloads", "deployments"}
      PROVE  Entries(entries)
  <2>. DEFINE s == M("events") \o I(<<"pods">>)
              t == s \o rest
  <2>1. entries = t \o I(<<"services", "config", "storage">>)
    BY <1>9 DEF RelatedEntriesWithIndex, I, M, rest
  <2>2. Entries(s)
    BY <1>1, <1>3, <1>6, Concatenated, Zenon
  <2>. HIDE DEF s
  <2>3. Entries(t)
    BY <1>7, <2>2, Concatenated, Zenon
  <2>. HIDE DEF t
  <2>. QED
    BY <1>4, <1>6, <2>1, <2>3, Concatenated, Zenon
<1>10. ASSUME name = "services" /\ ~resource.child
      PROVE  Entries(entries)
  <2>1. entries = I(<<"backends", "ingresses">>) \o M("events")
    BY <1>10 DEF RelatedEntriesWithIndex, I, M
  <2>. QED
    BY <2>1, <1>1, <1>5, <1>6, Concatenated, Zenon
<1>11. ASSUME name = "ingresses"
      PROVE  Entries(entries)
  <2>1. entries = I(<<"services">>) \o M("events")
    BY <1>11 DEF RelatedEntriesWithIndex, I, M
  <2>. QED
    BY <2>1, <1>1, <1>3, <1>6, Concatenated, Zenon
<1>12. ASSUME name \in {"configmaps", "secrets"}
      PROVE  Entries(entries)
  <2>1. entries = <<MockEntry("consumers"), MockEntry("events")>>
    BY <1>12 DEF RelatedEntriesWithIndex
  <2>. QED
    BY <2>1, SomeEntries, Zenon
<1>13. ASSUME name = "persistentvolumeclaims"
      PROVE  Entries(entries)
  <2>1. entries = I(<<"mounted-by">>) \o M("events")
    BY <1>13 DEF RelatedEntriesWithIndex, I, M
  <2>. QED
    BY <2>1, <1>1, <1>3, <1>6, Concatenated, Zenon
<1>14. ASSUME /\ name \notin {"pods", "workloads", "deployments", "ingresses", "configmaps",
                            "secrets", "persistentvolumeclaims"}
            /\ ~(name = "services" /\ ~resource.child)
      PROVE  Entries(entries)
  <2>1. entries = M("events")
    BY <1>14 DEF RelatedEntriesWithIndex, M
  <2>. QED
    BY <1>1, <2>1, Zenon
<1>15. Entries(entries)
  BY <1>8, <1>9, <1>10, <1>11, <1>12, <1>13, <1>14
<1>. HIDE DEF entries
<1>16. 1 \in DOMAIN entries
  BY <1>15 DEF Entries, IsSeq
<1>. QED
  BY <1>16 DEF entries

\* The cursor stays on an entry, and what is chosen can be opened.
LEMMA PickerNext == PickerInv /\ [Next]_vars => PickerInv'
<1>. SUFFICES ASSUME PickerInv, [Next]_vars
              PROVE  PickerInv'
  OBVIOUS
<1>1. CASE UNCHANGED <<picker, picked>>
  BY <1>1 DEF PickerInv
<1>2. ASSUME NEW row, Opening(row)
      PROVE  PickerInv'
  <2>1. PICK index : picker' = [entries |-> RelatedEntriesWithIndex(Top.resource, row, index),
                                cursor  |-> 1]
    BY <1>2 DEF Opening
  <2>2. picked' = picked
    BY <1>2 DEF Opening
  <2>. QED
    BY <2>1, <2>2, PickerHasEntries DEF PickerInv
<1>3. CASE MoveCursor
  BY <1>3 DEF MoveCursor, PickerInv
<1>4. CASE ClosePicker
  BY <1>4 DEF ClosePicker, PickerInv
<1>5. CASE Choose
  BY <1>5 DEF Choose, PickerInv
<1>6. CASE OpenPicked
  BY <1>6 DEF OpenPicked, PickerInv
<1>. QED
  BY <1>1, <1>2, <1>3, <1>4, <1>5, <1>6, StepsLeave DEF PickerStep

-----------------------------------------------------------------------------
(* The object a row opens.                                                 *)

\* Two states of an object are of one object of the catalogue: its uid says which, and all
\* but nodes are in a namespace.
LEMMA KnownByUID ==
    ASSUME NEW o \in Known, NEW p \in Known, o.uid = p.uid
    PROVE  /\ o.kind = p.kind /\ o.ns = p.ns /\ o.name = p.name
           /\ o.kind = "Node" <=> o.ns = NoNamespace
<1>1. PICK c \in Catalogue : o.uid = c.uid /\ o.kind = c.kind /\ o.ns = c.ns /\ o.name = c.name
  BY KnownIsOfCatalogue
<1>2. PICK d \in Catalogue : p.uid = d.uid /\ p.kind = d.kind /\ p.ns = d.ns /\ p.name = d.name
  BY KnownIsOfCatalogue
<1>3. c = d
  BY <1>1, <1>2, ClusterFacts
<1>. QED
  BY <1>1, <1>2, <1>3, ClusterFacts

\* A row opens the object it was made of, if there still is one of its uid, and no other.
LEMMA RowOpens ==
    ASSUME WorldInv, ClusterInv, NEW name, NEW row, Found(row, name), NEW o \in objects,
           o.uid = row.uid, name = "workloads" => Workload(o)
    PROVE  ResourceObject(objects, name, row, namespace) = {o}
<1>1. PICK m \in Known : /\ \E kind : Describes(row, m, kind)
                         /\ \/ name = "workloads" /\ ~Workload(m)
                            \/ name \in KnownResources /\ m.kind = KindBehind(name, row)
  BY DEF Found
<1>2. row.uid = m.uid /\ row.ns = m.ns /\ row.name = m.name
  BY <1>1 DEF Describes
<1>3. /\ o.kind = m.kind /\ o.ns = row.ns /\ o.name = row.name
      /\ o.kind = "Node" <=> o.ns = NoNamespace
  BY <1>2, KnownByUID DEF WorldInv
<1>4. o.kind = KindBehind(name, row)
  BY <1>1, <1>3 DEF Workload
<1>5. o \in ResourceObject(objects, name, row, namespace)
  BY <1>3, <1>4 DEF ResourceObject
<1>6. ASSUME NEW p \in ResourceObject(objects, name, row, namespace)
      PROVE  p = o
  <2>1. p \in objects /\ p.kind = o.kind /\ p.name = o.name
    BY <1>3, <1>4 DEF ResourceObject
  <2>2. p.ns = o.ns
    <3>1. p.kind = "Node" <=> p.ns = NoNamespace
      BY <2>1, KnownByUID DEF WorldInv
    <3>. QED
      BY <1>3, <2>1, <3>1 DEF ResourceObject
  <2>. QED
    BY <2>1, <2>2 DEF ClusterInv, ClusterRules
<1>. QED
  BY <1>5, <1>6

\* What is counted of an object is a number.
LEMMA NumbersOfKnown ==
    ASSUME NEW o \in Known
    PROVE  o.ready \in Nat /\ o.desired \in Nat /\ o.unavailable \in Nat /\ o.failed \in Nat
<1>1. CASE o \in Catalogue
  BY <1>1, ClusterFacts
<1>2. CASE o \notin Catalogue
  <2>1. PICK c \in Catalogue : o = Troubled(c)
    BY <1>2 DEF Known
  <2>2. {"status", "ready", "unavailable", "restarts", "desired", "failed"} \subseteq DOMAIN c
    BY ObjectFields, ClusterFacts
  <2>3. c.desired \in Nat /\ c.failed \in Nat
    BY ClusterFacts
  <2>. QED
    BY <2>1, <2>2, <2>3 DEF Troubled
<1>. QED
  BY <1>1, <1>2

\* The two places that say how well a workload is do not differ on whether it is.
LEMMA StatusesAgree ==
    ASSUME NEW o \in Known, o.kind \in {"Deployment", "StatefulSet", "Job"},
           NEW name \in KnownResources \ {"events"}, NEW ns, NEW row \in ListDirect(name, {o}, ns)
    PROVE  (row.status = "Healthy") = (DetailStatus(o) \in {"Healthy", "Succeeded"})
<1>1. o.ready \in Nat /\ o.desired \in Nat /\ o.unavailable \in Nat /\ o.failed \in Nat
  BY NumbersOfKnown
<1>2. RowOf(row, o, name)
  BY RowsOf
<1>3. name \in {"deployments", "workloads"}
  <2>1. ASSUME name # "workloads"
        PROVE  ObjectKinds[name] \in {"Deployment", "StatefulSet", "Job"}
    BY <1>2, <2>1 DEF RowOf
  <2>2. CASE name \notin {"deployments", "workloads"}
    BY <2>1, <2>2, ResourcesAre DEF ObjectKinds
  <2>. QED
    BY <2>2
<1>4. CASE o.kind = "Deployment"
  <2>1. row = DeploymentRow(o) \/ row = [DeploymentRow(o) EXCEPT !.kind = "DEP"]
    BY <1>3, <1>4 DEF ListDirect, ListDeployments, ListWorkloads, Requested
  <2>2. row.status = DeploymentStatus(o)
    BY <2>1 DEF DeploymentRow, Row, Blank
  <2>. QED
    BY <1>4, <2>2 DEF DetailStatus, DeploymentStatus
<1>5. CASE o.kind = "StatefulSet"
  <2>1. row = ReplicaRow(o, "STS")
    BY <1>3, <1>5 DEF ListDirect, ListDeployments, ListWorkloads, Requested
  <2>2. row.status = ReplicaStatus(o)
    BY <2>1 DEF ReplicaRow, Row, Blank
  <2>. QED
    BY <1>1, <1>5, <2>2 DEF DetailStatus, ReplicaStatus
<1>6. CASE o.kind = "Job"
  <2>1. row = JobRow(o)
    BY <1>3, <1>6 DEF ListDirect, ListDeployments, ListWorkloads, Requested
  <2>2. row.status = JobStatus(o)
    BY <2>1 DEF JobRow, Row, Blank
  <2>. QED
    BY <1>1, <1>6, <2>2 DEF DetailStatus, JobStatus
<1>. QED
  BY <1>4, <1>5, <1>6

-----------------------------------------------------------------------------
(* Relations.                                                              *)

\* The names of the rows of a pod's claims and configuration are those it refers to.
LEMMA PodRefersTo ==
    ASSUME NEW p
    PROVE  /\ {r.name : r \in PVCForPods({p})} = p.claims
           /\ {r.name : r \in ConfigForPods({p})} = p.configs \cup p.secrets
<1>1. /\ UNION {q.claims : q \in {p}} = p.claims
      /\ UNION {q.configs \cup q.secrets : q \in {p}} = p.configs \cup p.secrets
  OBVIOUS
<1>2. ASSUME NEW n
      PROVE  [Blank EXCEPT !.name = n].name = n
  BY DEF Blank
<1>3. {r.name : r \in PVCForPods({p})} = p.claims
  <2>1. PVCForPods({p}) = {[Blank EXCEPT !.name = n] : n \in p.claims}
    BY <1>1 DEF PVCForPods
  <2>2. \A r \in PVCForPods({p}) : r.name \in p.claims
    BY <1>2, <2>1
  <2>3. \A n \in p.claims : \E r \in PVCForPods({p}) : r.name = n
    BY <1>2, <2>1
  <2>. QED
    BY <2>2, <2>3
<1>4. {r.name : r \in ConfigForPods({p})} = p.configs \cup p.secrets
  <2>. DEFINE Kind(n) == IF n \in First({q \in {p} : n \in q.configs \cup q.secrets}).configs
                         THEN "ConfigMap" ELSE "Secret"
              R(n) == [Blank EXCEPT !.name = n, !.kind = Kind(n)]
  <2>1. ConfigForPods({p})
          = {[Blank EXCEPT !.name = n, !.kind = Kind(n)] : n \in p.configs \cup p.secrets}
    BY <1>1 DEF ConfigForPods
  <2>. HIDE DEF Kind
  <2>2. \A n : R(n).name = n
    BY DEF Blank
  <2>3. ConfigForPods({p}) = {R(n) : n \in p.configs \cup p.secrets}
    BY <2>1
  <2>. HIDE DEF R
  <2>4. \A r \in ConfigForPods({p}) : r.name \in p.configs \cup p.secrets
    BY <2>2, <2>3
  <2>5. \A n \in p.configs \cup p.secrets : \E r \in ConfigForPods({p}) : r.name = n
    BY <2>2, <2>3
  <2>. QED
    BY <2>4, <2>5
<1>. QED
  BY <1>3, <1>4

\* Each relation and the one that leads back are two ways to ask for the same.
LEMMA RelationsLeadBack == RelationsAgree
<1>. DEFINE lists(name) == [r \in Requirements(name) |-> Rows(r, namespace)]
            pods     == Rows("pods", namespace)
            services == Rows("services", namespace)
<1>1. /\ lists("pods")["services"] = services
      /\ lists("services")["pods"] = pods
      /\ lists("services")["ingresses"] = Rows("ingresses", namespace)
      /\ lists("ingresses")["services"] = services
      /\ lists("persistentvolumeclaims")["pods"] = pods
  BY DEF Requirements
<1>. HIDE DEF lists, pods, services
<1>2. ASSUME NEW row
      PROVE  /\ Related("pods", row, lists("pods")).services = ServicesForPod(row, services)
             /\ Related("pods", row, lists("pods")).config = ConfigForPods({row})
             /\ Related("pods", row, lists("pods")).storage = PVCForPods({row})
             /\ Related("services", row, lists("services")).backends
                  = BackendsForService(row, pods)
             /\ Related("services", row, lists("services")).ingresses
                  = IngressesForService(row, Rows("ingresses", namespace))
             /\ Related("ingresses", row, lists("ingresses")).services
                  = ServicesForIngress(row, services)
             /\ Related("persistentvolumeclaims", row, lists("persistentvolumeclaims"))["mounted-by"]
                  = PodsForPVC(row, pods)
  BY <1>1 DEF Related
<1>3. ASSUME NEW p \in pods, NEW s \in services
      PROVE  p \in BackendsForService(s, pods) <=> s \in ServicesForPod(p, services)
  BY DEF BackendsForService, ServicesForPod
<1>4. ASSUME NEW s \in services, NEW i \in Rows("ingresses", namespace),
             s \in ServicesForIngress(i, services)
      PROVE  i \in IngressesForService(s, Rows("ingresses", namespace))
  BY <1>4 DEF ServicesForIngress, IngressesForService
<1>5. ASSUME NEW p \in pods, NEW c
      PROVE  p \in PodsForPVC(c, pods) <=> c.name \in {r.name : r \in PVCForPods({p})}
  BY PodRefersTo DEF PodsForPVC
<1>. QED
  BY <1>2, <1>3, <1>4, <1>5, PodRefersTo DEF RelationsAgree, lists, pods, services

\* What enter looks up by itself is what the index has.
LEMMA LookupsAreOfIndex == EnterAgreesWithPicker
<1>. DEFINE lists == [r \in {"pods", "services", "ingresses"} |-> Rows(r, namespace)]
<1>1. lists["pods"] = Rows("pods", namespace) /\ lists["services"] = Rows("services", namespace)
  OBVIOUS
<1>. HIDE DEF lists
<1>2. ASSUME NEW row
      PROVE  /\ LiveWorkloadPods(row, lists["pods"]) = Related("workloads", row, lists).pods
             /\ LiveBackendsForService(row, lists["pods"]) = Related("services", row, lists).backends
             /\ LiveServicesForIngress(row, lists["services"])
                  \subseteq Related("ingresses", row, lists).services
             /\ LivePodsForNode(row, lists["pods"]) = Related("nodes", row, lists).pods
             /\ LivePodsForPVC(row, lists["pods"])
                  = Related("persistentvolumeclaims", row, lists)["mounted-by"]
  <2>1. LiveWorkloadPods(row, lists["pods"]) = Related("workloads", row, lists).pods
    BY DEF Related, LiveWorkloadPods, PodsForWorkload
  <2>2. LiveBackendsForService(row, lists["pods"]) = Related("services", row, lists).backends
    BY DEF Related, LiveBackendsForService, BackendsForService
  <2>3. LiveServicesForIngress(row, lists["services"])
          \subseteq Related("ingresses", row, lists).services
    BY DEF Related, LiveServicesForIngress, ServicesForIngress
  <2>4. LivePodsForNode(row, lists["pods"]) = Related("nodes", row, lists).pods
    BY DEF Related, LivePodsForNode, PodsForNode
  <2>5. LivePodsForPVC(row, lists["pods"])
          = Related("persistentvolumeclaims", row, lists)["mounted-by"]
    BY DEF Related, LivePodsForPVC, PodsForPVC
  <2>. QED
    BY <2>1, <2>2, <2>3, <2>4, <2>5
<1>. QED
  BY <1>1, <1>2 DEF EnterAgreesWithPicker, lists

-----------------------------------------------------------------------------
\* The workload that controls a pod is among the owners the index finds for it, whatever
\* comes, goes and falls ill, and however far behind the informers are
\* (relation_index_read.go, relatedOwnerForPod).
THEOREM OwnersCorrect == Spec => []OwnerIsFound
<1>1. WorldInv => OwnerIsFound
  BY OwnerFound DEF OwnerIsFound
<1>. QED
  BY <1>1, WorldAlways, PTL

\* A list read from informers that have seen what there is is the list read from the API
\* (clientgo_api.go, the two halves of each List method).
THEOREM PathsCorrect == Spec => []ListPathsAgree
<1>1. WorldInv => ListPathsAgree
  BY PathsAgree DEF ListPathsAgree, KnownResources
<1>. QED
  BY <1>1, WorldAlways, PTL

\* The lists on screen hold rows of the scope on screen, whatever was opened, read again,
\* searched or taken over from another scope (app.go, scope switches and
\* adaptResource).
THEOREM ListsCorrect == Spec => []ListsAreOfScope
<1>1. StackInv => ListsAreOfScope
  BY DEF StackInv, GoodStack, GoodView, GoodRows, InScope, ListsAreOfScope
<1>2. Spec => []StackInv
  BY StackInit, StackNext, WorldAlways, PTL DEF Spec
<1>. QED
  BY <1>1, <1>2, PTL

\* All that is needed to say what a row opens, and what the types are, holds together.
LEMMA ExploredAlways == Spec => [](WorldInv /\ ClusterInv /\ PickerInv /\ StackInv)
<1>1. Spec => []StackInv
  BY StackInit, StackNext, WorldAlways, PTL DEF Spec
<1>2. Spec => [](ClusterInv /\ PickerInv)
  <2>1. ClusterInv /\ PickerInv /\ [Next]_vars => (ClusterInv /\ PickerInv)'
    BY ClusterNext, PickerNext
  <2>. QED
    BY ClusterInit, <2>1, PTL DEF Spec
<1>. QED
  BY <1>1, <1>2, WorldAlways, PTL

\* Names stay unique, a view shows rows or a log, the lowest is a list of the cluster, the
\* stack is not higher than it may be and the picker's cursor is on an entry.
THEOREM TypeCorrect == Spec => []TypeOK
<1>1. ClusterInv /\ PickerInv /\ StackInv => TypeOK
  <2>. SUFFICES ASSUME ClusterInv, PickerInv, StackInv
                PROVE  TypeOK
    OBVIOUS
  <2>1. Len(stack) \in 1 .. MaxStack
    <3>1. PICK S : stack \in Seq(S)
      BY DEF StackInv, GoodStack
    <3>. QED
      BY <3>1, ExplorationConstants DEF StackInv, GoodStack
  <2>2. stack[1].kind = "list" /\ stack[1].resource.base = "read"
    BY DEF StackInv, GoodStack
  <2>3. ASSUME NEW i \in DOMAIN stack
        PROVE  /\ stack[i].resource.base \in Bases
               /\ (stack[i].kind = "logs") = (stack[i].lines # "none")
               /\ stack[i].rows # {} => stack[i].kind \in ListKinds \cup {"relation"}
    BY DEF StackInv, GoodStack, GoodView, GoodResource
  <2>. QED
    BY <2>1, <2>2, <2>3 DEF ClusterInv, PickerInv, TypeOK
<1>. QED
  BY <1>1, ExploredAlways, PTL

\* A row on screen opens the object it was made of, as long as there is one of its uid, in
\* any scope and whatever came, went and fell ill since the list was read; and the list and
\* the detail agree on whether a workload is healthy (clientgo_api.go, resourceObject,
\* workloadObject and detailFromObject).
THEOREM RowsCorrect == Spec => []RowOpensItsObject
<1>1. WorldInv /\ ClusterInv /\ StackInv => RowOpensItsObject
  <2>. SUFFICES ASSUME WorldInv, ClusterInv, StackInv, NEW i \in DOMAIN stack,
                       stack[i].kind = "list", ReadsCluster(stack[i].resource),
                       NEW row \in stack[i].rows, NEW o \in objects, o.uid = row.uid,
                       stack[i].resource.name = "workloads" => Workload(o)
                PROVE  LET name == stack[i].resource.name
                       IN  /\ ResourceObject(objects, name, row, namespace) = {o}
                           /\ o.kind \in {"Deployment", "StatefulSet", "Job"}
                              /\ row \in ListDirect(name, {o}, namespace)
                                => (row.status = "Healthy") = (DetailStatus(o) \in {"Healthy", "Succeeded"})
    BY DEF RowOpensItsObject, ReadsCluster, Workload
  <2>. DEFINE name == stack[i].resource.name
  <2>1. Found(row, name)
    BY DEF StackInv, GoodStack, GoodView, FoundRows
  <2>2. ResourceObject(objects, name, row, namespace) = {o}
    BY <2>1, RowOpens
  <2>3. ASSUME o.kind \in {"Deployment", "StatefulSet", "Job"}, row \in ListDirect(name, {o}, namespace)
        PROVE  (row.status = "Healthy") = (DetailStatus(o) \in {"Healthy", "Succeeded"})
    <3>1. name \in KnownResources \ {"events"}
      BY <2>1, ResourcesAre DEF Found, ReadsCluster
    <3>. QED
      BY <2>3, <3>1, StatusesAgree DEF WorldInv
  <2>. QED
    BY <2>2, <2>3
<1>. QED
  BY <1>1, ExploredAlways, PTL

\* Relations lead back, whatever the cluster has and the informers hold
\* (relation_index_read.go).
THEOREM RelationsCorrect == Spec => []RelationsAgree
  BY RelationsLeadBack, PTL

\* What enter opens on a row is what the picker counts for it (listview.go, liveWorkloadPods
\* and its like; relation_index_read.go).
THEOREM LookupsCorrect == Spec => []EnterAgreesWithPicker
  BY LookupsAreOfIndex, PTL
=============================================================================
