----------------------------- MODULE Exploration -----------------------------
(***************************************************************************)
(* Going through a cluster that changes meanwhile: lists, what enter opens *)
(* (internal/ui/listview/listview.go, forwardView), the related picker and *)
(* its lists (internal/ui/relatedview/relatedview.go), and what stands     *)
(* behind each list for the logs of its rows (internal/resources, and the  *)
(* stores of internal/data in kube mode).                                  *)
(*                                                                         *)
(* A list is read in one step: how long that takes, what is cached and how *)
(* it fails is the subject of ListCache and RelationIndex, the stack with  *)
(* its crumbs that of Navigation, a log that of LogViews.                  *)
(***************************************************************************)
EXTENDS RelatedRows

CONSTANTS
    Namespaces,
    Initially,   \* the objects there are at first
    Changing,    \* bound: the objects that come or go
    Failing,     \* bound: the objects that fall ill
    Roots,       \* resources that are opened by a key
    Commanded,   \* resources that are searched by a command
    None,
    MaxChanges,  \* bound: changes of the cluster
    MaxStack,    \* bound: views on the stack
    MaxBelow     \* bound: views below what a command, J or the picker opens

ASSUME ExplorationConstants ==
    /\ Initially \subseteq Catalogue /\ ClusterRules(Initially)
    /\ Changing \subseteq Catalogue /\ Failing \subseteq Catalogue
    /\ Roots \subseteq DOMAIN ObjectKinds \cup {"workloads"}
    /\ Commanded \subseteq DOMAIN ObjectKinds \ {"persistentvolumeclaims"}
    /\ \A o \in Catalogue : o.ns \in Namespaces \cup {NoNamespace}
    /\ AllNamespaces \notin Namespaces
    /\ MaxChanges \in Nat
    /\ MaxStack \in Nat \ {0} /\ MaxBelow \in Nat \ {0}

VARIABLES
    objects,    \* what the API server has
    changes,    \* changes of it so far
    seen,       \* what the informers hold
    informers,  \* "starting", "synced"
    namespace,  \* the scope on screen
    stack,      \* the views, the one on top last
    picker,     \* the related picker, or None
    picked      \* the entry chosen in it, under way as a SelectedMsg, or None

clusterVars == <<objects, changes, seen, informers>>
vars == <<clusterVars, namespace, stack, picker, picked>>

Scopes == Namespaces \cup {AllNamespaces}

\* What a list reads from: the cluster, or its base, which has the details and logs of
\* its rows; the base of a query is the cluster.  A child is named after its parent:
\* services (web), not services.
Bases == {"read", "query", "pods", "workload pods", "backend", "node pods", "related"}

Resource(name, child, base) == [name |-> name, child |-> child, base |-> base]

View(kind, resource, rows, item, lines) ==
    [kind |-> kind, resource |-> resource, rows |-> rows, item |-> item, lines |-> lines]

ListView(resource, rows)    == View("list", resource, rows, Blank, "none")
RelationList(resource, rows) == View("relation", resource, rows, Blank, "none")
LogView(resource, item, lines) == View("logs", resource, {}, item, lines)
DetailView(resource, item)     == View("detail", resource, {}, item, "none")

\* A row of the mock, of which there is none in the cluster.
Mock(name) == [Blank EXCEPT !.name = name]

Top == stack[Len(stack)]

-----------------------------------------------------------------------------
(* The cluster, and the informers that watch it.                           *)

Troubled(o) ==
    [o EXCEPT !.status = IF o.kind = "Pod" THEN "Failed" ELSE @,
              !.ready = 0, !.unavailable = o.desired, !.restarts = 1]

ClusterBecomes(there) ==
    /\ changes < MaxChanges
    /\ objects' = there
    /\ changes' = changes + 1
    /\ UNCHANGED <<seen, informers, namespace, stack, picker, picked>>

\* No object comes back once it is gone: another of its name has another uid.
Create(o) ==
    /\ o \notin Initially
    /\ o \notin objects /\ ClusterRules(objects \cup {o})
    /\ ClusterBecomes(objects \cup {o})

Delete(o) == o \in objects /\ ClusterBecomes(objects \ {o})

FallIll(o) ==
    /\ o \in objects
    /\ o # Troubled(o)
    /\ ClusterBecomes((objects \ {o}) \cup {Troubled(o)})

\* The first list has started the informers; all have listed what they watch.
InformersSync ==
    /\ informers = "starting"
    /\ informers' = "synced"
    /\ seen' = objects
    /\ UNCHANGED <<objects, changes, namespace, stack, picker, picked>>

\* A watch delivers what became of the objects of one kind.
WatchEvent(kind) ==
    /\ informers = "synced"
    /\ seen' = {o \in seen : o.kind # kind} \cup {o \in objects : o.kind = kind}
    /\ seen' # seen
    /\ UNCHANGED <<objects, changes, informers, namespace, stack, picker, picked>>

\* The rows of a resource, as they are had now; None where the request may fail.
Rows(resource, ns) ==
    IF informers = "synced" THEN ListCached(resource, seen, ns)
                            ELSE ListDirect(resource, objects, ns)

Answers(resource, ns) ==
    {Rows(resource, ns)} \cup (IF informers = "synced" THEN {} ELSE {None})

\* The rows a list of the cluster shows: none if they cannot be had.
Had(answer) == IF answer = None THEN {} ELSE answer

-----------------------------------------------------------------------------
(* Lists of the cluster.                                                   *)

\* Between a choice in the picker and its message no key is pressed here (Navigation
\* has those that are); the cluster changes.
KeysReachViews == picker = None /\ picked = None

OpenList(name) ==
    /\ KeysReachViews
    /\ \E answer \in Answers(name, namespace) :
           stack' = <<ListView(Resource(name, FALSE, "read"), Had(answer))>>
    /\ UNCHANGED <<clusterVars, namespace, picker, picked>>

\* What a list shows when it reads its resource: a child of another list is no resource
\* the cluster can list.
ItemsOf(resource, rows, ns) ==
    IF resource.base # "read" THEN {rows}
    ELSE IF resource.child THEN {{}}
    ELSE {Had(answer) : answer \in Answers(resource.name, ns)}

\* A sort, a change of size or of the columns reads the list again.
RefreshItems ==
    /\ KeysReachViews
    /\ Top.kind = "list"
    /\ \E rows \in ItemsOf(Top.resource, Top.rows, namespace) :
           stack' = [stack EXCEPT ![Len(stack)].rows = rows]
    /\ UNCHANGED <<clusterVars, namespace, picker, picked>>

ListKinds == {"list", "containers"}
ListBelow == {i \in DOMAIN stack : stack[i].kind \in ListKinds}

\* Mutation: the resource keeps what it reads from.
AdaptResourceAsIs(resource) == resource

\* Whatever a resource read from, it reads from the cluster now.
AdaptResource(resource) == [resource EXCEPT !.base = "read"]

\* The topmost list becomes the only view, in another scope.
SwitchScope(ns) ==
    /\ KeysReachViews
    /\ ns # namespace
    /\ namespace' = ns
    /\ LET list     == stack[CHOOSE i \in ListBelow : \A j \in ListBelow : j <= i]
           resource == AdaptResource(list.resource)
       IN  \E rows \in ItemsOf(resource, list.rows, ns) :
               stack' = <<ListView(resource, rows)>>
    /\ UNCHANGED <<clusterVars, picker, picked>>

\* Mutation: the last view goes too.
BackFromAnything ==
    /\ KeysReachViews
    /\ stack' = Front(stack)
    /\ UNCHANGED <<clusterVars, namespace, picker, picked>>

Back ==
    /\ KeysReachViews
    /\ Len(stack) > 1
    /\ stack' = Front(stack)
    /\ UNCHANGED <<clusterVars, namespace, picker, picked>>

-----------------------------------------------------------------------------
(* Enter (forwardView).                                                    *)

Push(view) ==
    /\ Len(stack) < MaxStack
    /\ stack' = Append(stack, view)

Entering(row) ==
    /\ KeysReachViews
    /\ Top.kind \in ListKinds
    /\ row \in Top.rows

\* listResource: only a list of the cluster can list others.
LiveLists(name) == IF Top.resource.base = "read" THEN Answers(name, namespace) ELSE {None}

\* What is found in a list of the cluster, or else what the mock has.
OrMock(answer, found, mock) == IF answer = None THEN mock ELSE found

\* A child list, of one of these contents.
PushChild(name, base, contents) ==
    /\ \E rows \in contents : Push(ListView(Resource(name, TRUE, base), rows))
    /\ UNCHANGED <<clusterVars, namespace, picker, picked>>

\* What the API brings for a log: nothing, too, where the pod is gone.
Fetched(row) ==
    {"nothing"} \cup
    {"cluster" : o \in {p \in objects : p.kind = "Pod" /\ p.ns = row.ns /\ p.name = row.name}}

\* Who has nothing of the cluster shows the mock's lines; only pods have any there.
LinesOf(resource, fetched) ==
    CASE resource.base \in {"read", "query"} ->
           IF resource.name \in {"pods", "containers"} THEN fetched ELSE "mock"
      [] resource.base \in {"pods", "workload pods"} ->
           IF fetched = "cluster" THEN fetched ELSE "mock"
      [] OTHER -> "mock"

PushLog(resource, row) ==
    /\ \E fetched \in Fetched(row) : Push(LogView(resource, row, LinesOf(resource, fetched)))
    /\ UNCHANGED <<clusterVars, namespace, picker, picked>>

\* How many containers the detail of a row may have in its resource: none, too, where it
\* is asked of the cluster and cannot be had.
Containers(resource, row) ==
    CASE resource.base \in {"read", "query"} ->
           {0} \cup (IF resource.name = "pods"
                     THEN {p.desired : p \in ResourceObject(objects, "pods", row, namespace)}
                     ELSE {})
      [] resource.base = "pods" /\ resource.name = "pods" -> {2}
      [] resource.base \in {"workload pods", "backend"} ->
           {IF row.containers = 0 THEN 2 ELSE row.containers}
      [] resource.base = "node pods" -> {1}
      [] OTHER                       -> {0}

\* The log of a pod, or a list of its containers to choose from.
PushLogOrContainers(resource, row) ==
    \E n \in Containers(resource, row) :
        IF n <= 1 THEN PushLog(resource, row)
        ELSE /\ Push(View("containers", Resource("containers", TRUE, resource.base),
                          {Mock(<<c>>) : c \in 1 .. n}, row, "none"))
             /\ UNCHANGED <<clusterVars, namespace, picker, picked>>

EnterPod(row) ==
    /\ Entering(row)
    /\ Top.resource.name \in {"pods", "mounted-by"}
    /\ PushLogOrContainers(Top.resource, row)

\* "o" in a detail view.
DetailLogs ==
    /\ KeysReachViews
    /\ Top.kind = "detail"
    /\ PushLogOrContainers(Top.resource, Top.item)

\* A container's log is had through its pod's resource, which has its base.
EnterContainer(row) ==
    /\ Entering(row)
    /\ Top.resource.name = "containers"
    /\ PushLog(Top.resource, Top.item)

EnterService(row) ==
    /\ Entering(row)
    /\ Top.resource.name = "services"
    /\ PushChild("backends", "related",
                 {OrMock(pods, LiveBackendsForService(row, pods), RegistryBackends(row))
                  : pods \in LiveLists("pods")})

EnterIngress(row) ==
    /\ Entering(row)
    /\ Top.resource.name = "ingresses"
    /\ PushChild("services", "related",
                 {OrMock(services, LiveServicesForIngress(row, services), {Mock(row.name)})
                  : services \in LiveLists("services")})

EnterNode(row) ==
    /\ Entering(row)
    /\ Top.resource.name = "nodes"
    /\ PushChild("pods", "node pods",
                 {OrMock(pods, LivePodsForNode(row, pods), {Mock(row.name)})
                  : pods \in LiveLists("pods")})

EnterClaim(row) ==
    /\ Entering(row)
    /\ Top.resource.name = "persistentvolumeclaims"
    /\ PushChild("mounted-by", "related",
                 {OrMock(pods, LivePodsForPVC(row, pods), {Mock(<<"db", "0">>)})
                  : pods \in LiveLists("pods")})

EnterBackend(row) ==
    /\ Entering(row)
    /\ Top.resource.name = "backends"
    /\ Push(DetailView(Resource("pods", TRUE, "backend"), row))
    /\ UNCHANGED <<clusterVars, namespace, picker, picked>>

-----------------------------------------------------------------------------
(* The related picker.                                                     *)

\* counted: the rows are those of the index, and their number is shown.
Entry(name, rows)  == [name |-> name, rows |-> rows, counted |-> TRUE]
MockEntry(name)    == [name |-> name, rows |-> {Mock(<<name>>)}, counted |-> FALSE]
Indexed(index, names) == [i \in DOMAIN names |-> Entry(names[i], index[names[i]])]

\* The index looks at the start of a name where the picker wants all of it: of the
\* services of an ingress, and of nodes, there are only events.
RelatedEntriesWithIndex(resource, row, index) ==
    LET name == resource.name
    IN  CASE name = "pods" ->
               <<MockEntry("events")>> \o Indexed(index, <<"owner", "services", "config", "storage">>)
          [] name \in {"workloads", "deployments"} ->
               <<MockEntry("events")>> \o Indexed(index, <<"pods">>)
               \o (IF row.kind = "CJ" THEN <<MockEntry("jobs")>> ELSE <<>>)
               \o Indexed(index, <<"services", "config", "storage">>)
          [] name = "services" /\ ~resource.child ->
               Indexed(index, <<"backends", "ingresses">>) \o <<MockEntry("events")>>
          [] name = "ingresses" ->
               Indexed(index, <<"services">>) \o <<MockEntry("events")>>
          [] name \in {"configmaps", "secrets"} -> <<MockEntry("consumers"), MockEntry("events")>>
          [] name = "persistentvolumeclaims" ->
               Indexed(index, <<"mounted-by">>) \o <<MockEntry("events")>>
          [] OTHER -> <<MockEntry("events")>>

\* The index is asked when the picker opens; a list it cannot have is empty.
Opening(row) ==
    /\ Len(stack) <= MaxBelow
    /\ \E lists \in [Requirements(Top.resource.name) -> UNION {Answers(r, namespace) :
                        r \in Requirements(Top.resource.name)}] :
           /\ \A r \in DOMAIN lists : lists[r] \in Answers(r, namespace)
           /\ picker' = [entries |-> RelatedEntriesWithIndex(Top.resource, row,
                             Related(Top.resource.name, row, [r \in DOMAIN lists |-> Had(lists[r])])),
                         cursor |-> 1]
    /\ UNCHANGED <<clusterVars, namespace, stack, picked>>

OpenRelatedPicker(row) == Entering(row) /\ Opening(row)

\* A workload's pods; the picker where there are none to be had.
EnterWorkload(row) ==
    /\ Entering(row)
    /\ Top.resource.name \in {"workloads", "deployments"}
    /\ LET mock  == RegistryWorkloadPods(row)
           alone == IF mock = {} THEN {None} ELSE {}
       IN  \/ PushChild("pods", "workload pods",
                        {OrMock(pods, LiveWorkloadPods(row, pods), mock)
                         : pods \in LiveLists("pods") \ alone})
           \/ LiveLists("pods") \cap alone # {} /\ Opening(row)

\* "o": the log of one of them at once.
OpenWorkloadLog(row) ==
    /\ Entering(row)
    /\ Top.resource.name = "workloads"
    /\ \E answer \in LiveLists("pods") :
           LET pods == OrMock(answer, LiveWorkloadPods(row, answer), RegistryWorkloadPods(row))
           IN  pods # {} /\ PushLog(Resource("pods", TRUE, "workload pods"), PreferredLogPod(pods))

EntryActionable(entry) == entry.name = "events" \/ entry.rows # {}

MoveCursor ==
    /\ picker # None
    /\ \E next \in DOMAIN picker.entries :
           /\ next # picker.cursor
           /\ EntryActionable(picker.entries[next])
           /\ \A i \in DOMAIN picker.entries :
                  \/ i < next /\ i < picker.cursor
                  \/ i > next /\ i > picker.cursor
                  \/ i \in {next, picker.cursor}
                  \/ ~EntryActionable(picker.entries[i])
           /\ picker' = [picker EXCEPT !.cursor = next]
    /\ UNCHANGED <<clusterVars, namespace, stack, picked>>

ClosePicker ==
    /\ picker # None
    /\ picker' = None
    /\ UNCHANGED <<clusterVars, namespace, stack, picked>>

\* The picker closes at once; what it sends arrives later.
Choose ==
    /\ picker # None
    /\ Len(stack) < MaxStack
    /\ LET entry == picker.entries[picker.cursor]
       IN  EntryActionable(entry) /\ picked' = entry
    /\ picker' = None
    /\ UNCHANGED <<clusterVars, namespace, stack>>

\* relationBaseResource: the pods of the registry can fetch logs.
RelationBase(name) == IF name \in {"pods", "mounted-by"} THEN "pods" ELSE "related"

OpenPicked ==
    /\ picked # None
    /\ Push(RelationList(Resource(picked.name, TRUE, RelationBase(picked.name)), picked.rows))
    /\ picked' = None
    /\ picker' = None
    /\ UNCHANGED <<clusterVars, namespace>>

\* Enter in a list of the picker opens the log of whatever the row is.
EnterRelation(row) ==
    /\ KeysReachViews
    /\ Top.kind = "relation"
    /\ row \in Top.rows
    /\ PushLog(Top.resource, row)

-----------------------------------------------------------------------------
(* Commands that look for rows (Navigation has the others), and J.         *)

Commanding == KeysReachViews /\ Len(stack) <= MaxBelow

\* A list that is not read again.
PushQuery(resource, rows) ==
    /\ Push(ListView(resource, rows))
    /\ UNCHANGED <<clusterVars, namespace, picker, picked>>

IsUnhealthy(row) == row.status \notin {"", "Healthy", "Running", "Bound"}

\* None are shown if one of the lists cannot be had.  All go by the name of workloads.
OpenUnhealthy ==
    /\ Commanding
    /\ \E pods \in Answers("pods", namespace), deployments \in Answers("deployments", namespace),
          claims \in Answers("persistentvolumeclaims", namespace) :
           PushQuery(Resource("workloads", FALSE, "query"),
                     IF None \in {pods, deployments, claims} THEN {}
                     ELSE {row \in pods \cup deployments \cup claims : IsUnhealthy(row)})

OpenRestarts ==
    /\ Commanding
    /\ \E pods \in Answers("pods", namespace) :
           PushQuery(Resource("pods", FALSE, "query"), {row \in Had(pods) : row.restarts > 0})

\* What a command searches, and what stands behind the list of what it finds: where the
\* cluster does not answer, and behind the list in any case, the registry's resource.
ListResourceItems(name) ==
    {IF answer # None THEN answer ELSE IF name = "pods" THEN RegistryPods ELSE {Mock(<<name>>)}
     : answer \in Answers(name, namespace)}

RegistryBase(name) == IF name = "pods" THEN "pods" ELSE "related"

MatchesLabelSelector(rows, label) == {row \in rows : label \in row.labels}

NameMatches(rows, word) == {row \in rows : word \in Range(row.name)}

OpenSelector(name) ==
    /\ Commanding
    /\ \E rows \in ListResourceItems(name), label \in UNION {o.labels : o \in Catalogue} :
           PushQuery(Resource(name, FALSE, RegistryBase(name)), MatchesLabelSelector(rows, label))

\* Several rows are a list; one is opened, above the list of its kind.
OpenNamed(name) ==
    /\ Commanding
    /\ \E rows \in ListResourceItems(name) :
       \E word \in UNION {Range(row.name) : row \in rows} :
           LET matches == NameMatches(rows, word)
           IN  IF Cardinality(matches) > 1
               THEN PushQuery(Resource(name, FALSE, RegistryBase(name)), matches)
               ELSE \E answer \in Answers(name, namespace), row \in matches :
                      LET list  == ListView(Resource(name, FALSE, "read"), Had(answer))
                          there == Top.kind = "list" /\ Top.resource.name = name /\ ~Top.resource.child
                      IN  /\ stack' = stack \o (IF there THEN <<>> ELSE <<list>>)
                                             \o <<DetailView(Resource(name, FALSE, "read"), row)>>
                          /\ Len(stack') <= MaxStack
                          /\ UNCHANGED <<clusterVars, namespace, picker, picked>>

\* NewPodOwner: the deployment that the pod's name would be of.
MockOwner(pod) ==
    Mock(IF Len(pod.name) > 2 THEN SubSeq(pod.name, 1, Len(pod.name) - 2) ELSE <<pod.name[1]>>)

\* J, on a pod: its owner, a made-up one where none is found, or a list of several.
JumpToPodOwner(row) ==
    /\ Entering(row) /\ Commanding
    /\ Top.resource.name = "pods"
    /\ \E workloads \in Answers("workloads", namespace) :
           LET owners == OwnerForPod(row, Had(workloads))
           IN  IF Cardinality(owners) > 1
               THEN PushQuery(Resource("workloads", FALSE, "query"), owners)
               ELSE \E owner \in (IF owners = {} THEN {MockOwner(row)} ELSE owners) :
                      /\ Push(DetailView(Resource("workloads", FALSE, "read"), owner))
                      /\ UNCHANGED <<clusterVars, namespace, picker, picked>>

-----------------------------------------------------------------------------
Init ==
    /\ objects = Initially
    /\ changes = 0
    /\ seen = {}
    /\ informers = "starting"
    /\ namespace \in Namespaces
    /\ \E answer \in Answers("workloads", namespace) :
           stack = <<ListView(Resource("workloads", FALSE, "read"), Had(answer))>>
    /\ picker = None
    /\ picked = None

ClusterStep ==
    \/ \E o \in Changing : Create(o)
    \/ \E o \in objects :
          \/ o.uid \in {c.uid : c \in Changing} /\ Delete(o)
          \/ o \in Failing /\ FallIll(o)
    \/ InformersSync
    \/ \E kind \in {o.kind : o \in Catalogue} : WatchEvent(kind)

EnterRow(row) ==
    \/ EnterPod(row) \/ EnterContainer(row) \/ JumpToPodOwner(row)
    \/ EnterService(row) \/ EnterIngress(row) \/ EnterNode(row) \/ EnterClaim(row)
    \/ EnterBackend(row) \/ EnterWorkload(row) \/ OpenWorkloadLog(row)
    \/ EnterRelation(row) \/ OpenRelatedPicker(row)

Next ==
    \/ ClusterStep
    \/ \E name \in Roots : OpenList(name)
    \/ \E name \in Commanded : OpenSelector(name) \/ OpenNamed(name)
    \/ OpenUnhealthy \/ OpenRestarts
    \/ RefreshItems \/ DetailLogs
    \/ \E ns \in Scopes : SwitchScope(ns)
    \/ Back
    \/ \E row \in Top.rows : EnterRow(row)
    \/ MoveCursor \/ ClosePicker \/ Choose \/ OpenPicked

Spec == Init /\ [][Next]_vars

-----------------------------------------------------------------------------
\* A view shows rows or a log, never both; a log has lines and a row they are of; the
\* cluster keeps its rules; the cursor of the picker is on an entry.
TypeOK ==
    /\ ClusterRules(objects) /\ changes \in 0 .. MaxChanges
    /\ informers \in {"starting", "synced"}
    /\ informers = "starting" => seen = {}
    /\ namespace \in Scopes
    /\ Len(stack) \in 1 .. MaxStack
    /\ stack[1].kind = "list" /\ stack[1].resource.base = "read"
    /\ \A i \in DOMAIN stack :
           /\ stack[i].resource.base \in Bases
           /\ (stack[i].kind = "logs") = (stack[i].lines # "none")
           /\ stack[i].rows # {} => stack[i].kind \in ListKinds \cup {"relation"}
    /\ picker # None => picker.cursor \in DOMAIN picker.entries
    /\ picked # None => EntryActionable(picked)

\* Relations lead back: a service has a pod among its backends if and only if it is among
\* the services of that pod; an ingress has the service that it is looked up from, and so
\* has a pod the claim; a pod's configuration lists every name the pod refers to.  The
\* two ways are functions of their own in relation_index_read.go.
RelationsAgree ==
    LET index(name, row) == Related(name, row, [r \in Requirements(name) |-> Rows(r, namespace)])
        pods     == Rows("pods", namespace)
        services == Rows("services", namespace)
    IN  /\ \A p \in pods, s \in services :
               p \in index("services", s).backends <=> s \in index("pods", p).services
        /\ \A s \in services, i \in Rows("ingresses", namespace) :
               s \in index("ingresses", i).services => i \in index("services", s).ingresses
        /\ \A p \in pods, c \in Rows("persistentvolumeclaims", namespace) :
               p \in index("persistentvolumeclaims", c)["mounted-by"]
                 <=> c.name \in {r.name : r \in index("pods", p).storage}
        /\ \A p \in pods :
               {r.name : r \in index("pods", p).config} = p.configs \cup p.secrets

\* The workload that controls a pod, itself or through a ReplicaSet, is among the owners
\* the index finds for the pod, whichever of pod and workload the informers are behind
\* with (relatedOwnerForPod).
OwnerIsFound ==
    \A p \in Rows("pods", namespace), w \in Rows("workloads", namespace) :
        w.uid \in {p.controller.uid, p.controller.deployment}
          => w \in OwnerForPod(p, Rows("workloads", namespace))

\* A row on screen opens the object it was made of as long as that exists, in any scope
\* and whatever came and went since the list was read; and a workload's row that is still
\* true says it is healthy if and only if its detail does (resourceObject, workloadObject
\* and detailFromObject in clientgo_api.go).  The daemon sets' two ways to see that are
\* not the same, rows of events have names that are none, and what is unhealthy goes by
\* the name of workloads, be it one or not.
RowOpensItsObject ==
    \A i \in DOMAIN stack :
        LET name       == stack[i].resource.name
            Is(row, o) == o.uid = row.uid /\ (name = "workloads" => o.kind \in Range(WorkloadKinds))
        IN  /\ stack[i].kind = "list"
            /\ stack[i].resource.base \in {"read", "query"} /\ name # "events"
            => \A row \in stack[i].rows, o \in objects : Is(row, o) =>
                 /\ ResourceObject(objects, name, row, namespace) = {o}
                 /\ o.kind \in {"Deployment", "StatefulSet", "Job"} /\ row \in ListDirect(name, {o}, namespace)
                      => (row.status = "Healthy") = (DetailStatus(o) \in {"Healthy", "Succeeded"})

\* What enter opens on a row is what the picker counts for it, though the list view looks
\* it up by itself (liveWorkloadPods and its like); of an ingress it is a part.
EnterAgreesWithPicker ==
    LET pods     == Rows("pods", namespace)
        services == Rows("services", namespace)
        lists    == [r \in {"pods", "services", "ingresses"} |-> Rows(r, namespace)]
    IN  /\ \A w \in Rows("workloads", namespace) :
               LiveWorkloadPods(w, pods) = Related("workloads", w, lists).pods
        /\ \A s \in services :
               LiveBackendsForService(s, pods) = Related("services", s, lists).backends
        /\ \A i \in Rows("ingresses", namespace) :
               LiveServicesForIngress(i, services) \subseteq Related("ingresses", i, lists).services
        /\ \A n \in Rows("nodes", namespace) :
               LivePodsForNode(n, pods) = Related("nodes", n, lists).pods
        /\ \A c \in Rows("persistentvolumeclaims", namespace) :
               LivePodsForPVC(c, pods) = Related("persistentvolumeclaims", c, lists)["mounted-by"]

\* Once the informers have seen what there is, a list read from them is the list read from
\* the API, of every resource and in every scope (listPods and listPodsFromInformer, and
\* so for ten resources).
ListPathsAgree ==
    seen = objects => \A r \in DOMAIN ObjectKinds \cup {"workloads"}, ns \in Scopes :
                          ListCached(r, seen, ns) = ListDirect(r, objects, ns)

\* The lists on screen hold rows of the scope on screen, also after a switch that takes
\* over the resource of a list that came with rows of its own (bestResourceForScope and
\* adaptResource in app.go).
ListsAreOfScope ==
    \A i \in DOMAIN stack : stack[i].kind \in ListKinds =>
        \A row \in stack[i].rows : row.ns \in {namespace, NoNamespace} \/ namespace = AllNamespaces

=============================================================================
