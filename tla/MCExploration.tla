---------------------------- MODULE MCExploration ----------------------------
(* A small cluster.  Two deployments of which one has the name of the other, a   *)
(* stateful set, pods of both kinds, one of them replaced by another of its      *)
(* name, and one of each of what they use and what uses them.                    *)
EXTENDS Exploration

N(kind, uid, ns, name) ==
    [Object EXCEPT !.kind = kind, !.uid = uid, !.ns = ns, !.name = name]

Of(kind, name, uid, deployment) ==
    [kind |-> kind, name |-> name, uid |-> uid, deployment |-> deployment]

App(name) == {<<"app", name>>}

DBPod(uid) ==
    [N("Pod", uid, "n1", <<"db", "0">>) EXCEPT
        !.labels = App("db"), !.controller = Of("StatefulSet", <<"db">>, 3, NoUID),
        !.claims = {<<"data">>}, !.node = <<"worker">>]

MCCatalogue ==
    {N("Node", 1, NoNamespace, <<"worker">>),
     N("PersistentVolumeClaim", 2, "n1", <<"data">>),
     [N("StatefulSet", 3, "n1", <<"db">>) EXCEPT !.selector = App("db"), !.desired = 2],
     DBPod(4), DBPod(5),
     [N("Service", 6, "n1", <<"db">>) EXCEPT !.selector = App("db")],
     [N("Deployment", 7, "n2", <<"web">>) EXCEPT !.selector = App("web")],
     [N("Pod", 8, "n2", <<"web", "0", "x">>) EXCEPT
        !.labels = App("web"), !.controller = Of("ReplicaSet", <<"web", "0">>, 90, 7),
        !.configs = {<<"settings">>}, !.secrets = {<<"settings">>}, !.desired = 2, !.ready = 2],
     [N("Service", 9, "n2", <<"web">>) EXCEPT !.selector = App("web")],
     [N("Ingress", 10, "n2", <<"web">>) EXCEPT !.hosts = {<<"example">>}],
     N("CronJob", 11, "n2", <<"yearly">>)}

\* The second db-0 comes when the first is gone.
MCInitially == {o \in MCCatalogue : o.uid # 5}
MCChanging  == {o \in MCCatalogue : o.uid \in {4, 5}}
MCFailing   == {o \in MCCatalogue : o.uid \in {4, 7}}

MCRegistryPods ==
    {[Blank EXCEPT !.name = <<"web", "mock">>, !.labels = App("web"), !.status = "Running"]}
=============================================================================
