---------------------------- MODULE RelationIndex ----------------------------
(***************************************************************************)
(* The index a screen asks for the objects related to one object           *)
(* (internal/data/relation_index_read.go): per scope a snapshot of lists   *)
(* that lives for RelTTL, filled from the read model, which is the list    *)
(* path of ListCache.  The event loop waits in a lookup, so there is one   *)
(* lookup at a time, and no screen lists anything meanwhile.               *)
(*                                                                         *)
(* A lookup needs one or two lists.  For each it takes a snapshot that has *)
(* all of them, and so may fill the snapshot once per list it needs; a     *)
(* list that cannot be had is asked for once more, and then is empty.      *)
(***************************************************************************)
EXTENDS ListCache

CONSTANTS
    Sources,  \* kinds of objects whose relations are looked up
    RelTTL    \* lifetime of a snapshot (2 s in the code)

VARIABLES
    byScope,  \* per scope key: a snapshot, or None
    lookup    \* the lookup the event loop is in, or None

relVars == <<listVars, byScope, lookup>>

\* The lists a lookup needs, in the order it asks for them.
RelatedListRequirements(src) ==
    CASE src \in {"workloads", "deployments"} -> <<"pods", "services">>
      [] src = "pods"                         -> <<"workloads", "services">>
      [] src = "services"                     -> <<"pods", "ingresses">>
      [] src = "ingresses"                    -> <<"services">>
      [] OTHER                                -> <<"pods">>

ASSUME RelationConstants ==
    /\ RelTTL \in Nat \ {0}
    /\ Sources \subseteq {"workloads", "deployments", "pods", "services", "ingresses",
                          "nodes", "persistentvolumeclaims"}
    /\ \A src \in Sources, i \in 1 .. 2 :
          i <= Len(RelatedListRequirements(src)) => RelatedListRequirements(src)[i] \in Resources

\* readAt: when the index was given the list.  The code keeps no such time; the
\* properties compare it with RelTTL.
IndexedList == [items : Content, readAt : Times]

Snapshot == [expiresAt : 0 .. MaxNow + RelTTL,
             lists : [Resources -> IndexedList \cup {None}]]

Lookup == [scope : Scopes, src : Sources,
           wanted : 1 .. 2,     \* the requirement list() is called for
           step : {"snapshot", "fill", "filling", "use", "direct"},
           began : Times,       \* when snapshotFor looked at the clock
           base : Snapshot \cup {None},
           missing : Seq(Resources),
           calls : Nat]         \* lists asked of the read model so far

RelInit ==
    /\ ListInit
    /\ byScope = [s \in Scopes |-> None]
    /\ lookup = None

-----------------------------------------------------------------------------
\* Mutation: the context is left out.
RelationScopeKeyOfNamespace(s) == <<CHOOSE c \in Contexts : TRUE, s[2]>>

RelationScopeKey(s) == s

Fresh(snapshot, t) == snapshot # None /\ snapshot.expiresAt > t

SnapshotHasLists(snapshot, required) ==
    \A i \in DOMAIN required : snapshot.lists[required[i]] # None

\* Mutation: the next lifetime is added to the one still running.
BaseExtending(current) ==
    IF Fresh(current, now)
    THEN [current EXCEPT !.expiresAt = @ + RelTTL]
    ELSE [expiresAt |-> now + RelTTL, lists |-> [r \in Resources |-> None]]

\* Mutation: what is still fresh is not copied.
BaseEmpty(current) ==
    [expiresAt |-> now + RelTTL, lists |-> [r \in Resources |-> None]]

\* The snapshot to fill: it expires one lifetime from now, and starts with the lists
\* of the current one if that has not expired.
Base(current) ==
    [expiresAt |-> now + RelTTL,
     lists |-> IF Fresh(current, now) THEN current.lists
               ELSE [r \in Resources |-> None]]

\* The required lists, of one or two, that lists does not have.
Missing(required, lists) ==
    LET IfMissing(i) == IF i \in DOMAIN required /\ lists[required[i]] = None
                        THEN <<required[i]>> ELSE <<>>
    IN  IfMissing(1) \o IfMissing(2)

Related(s, src) ==
    /\ lookup = None
    /\ answer = None
    /\ call = None
    /\ lookup' = [scope |-> s, src |-> src, wanted |-> 1, step |-> "snapshot",
                  began |-> now, base |-> None, missing |-> <<>>, calls |-> 0]
    /\ UNCHANGED <<listVars, byScope>>

At(step) == lookup # None /\ lookup.step = step

Required == RelatedListRequirements(lookup.src)

\* snapshotFor, with the snapshot as it is or with a new one to fill.
SnapshotFor ==
    /\ At("snapshot")
    /\ LET current == byScope[RelationScopeKey(lookup.scope)]
           base    == Base(current)
       IN  IF Fresh(current, now) /\ SnapshotHasLists(current, Required)
           THEN lookup' = [lookup EXCEPT !.step = "use", !.began = now, !.base = current]
           ELSE lookup' = [lookup EXCEPT
                    !.step = "fill", !.began = now, !.base = base,
                    !.missing = Missing(Required, base.lists)]
    /\ UNCHANGED <<listVars, byScope>>

ReadModelList(r) ==
    /\ ListResourcesMeta(lookup.scope, r)
    /\ UNCHANGED byScope

FillNext ==
    /\ At("fill")
    /\ lookup.missing # <<>>
    /\ ReadModelList(Head(lookup.missing))
    /\ lookup' = [lookup EXCEPT !.step = "filling", !.calls = @ + 1]

\* The answer to the list asked for, taken by the lookup.
TakeAnswer ==
    /\ answer # None
    /\ answer' = None
    /\ UNCHANGED <<now, listCache, informers, call, byScope>>

\* Mutation: a list that could not be had is tried again.
FillAnswerUntilHad ==
    /\ At("filling")
    /\ TakeAnswer
    /\ lookup' = IF answer.items = None THEN [lookup EXCEPT !.step = "fill"]
                 ELSE [lookup EXCEPT !.step = "fill", !.missing = Tail(@),
                          !.base.lists[Head(lookup.missing)] =
                              [items |-> answer.items, readAt |-> now]]

\* Mutation: the answer is left for somebody else.
FillAnswerLeft ==
    /\ At("filling")
    /\ answer # None
    /\ lookup' = [lookup EXCEPT !.step = "fill", !.missing = Tail(@)]
    /\ UNCHANGED <<listVars, byScope>>

FillAnswer ==
    /\ At("filling")
    /\ TakeAnswer
    /\ lookup' = [lookup EXCEPT !.step = "fill", !.missing = Tail(@),
                     !.base.lists[Head(lookup.missing)] =
                         IF answer.items = None THEN None
                         ELSE [items |-> answer.items, readAt |-> now]]

StoreSnapshot ==
    /\ At("fill")
    /\ lookup.missing = <<>>
    /\ byScope' = [byScope EXCEPT ![RelationScopeKey(lookup.scope)] = lookup.base]
    /\ lookup' = [lookup EXCEPT !.step = "use"]
    /\ UNCHANGED listVars

Wanted == Required[lookup.wanted]

\* list() returns: to the next list the lookup needs, or out of the lookup.
ListReturns ==
    lookup' = IF lookup.wanted = Len(Required) THEN None
              ELSE [lookup EXCEPT !.wanted = @ + 1, !.step = "snapshot", !.base = None]

\* Mutation: list() is called for the same list again.
UseListAgain ==
    /\ At("use")
    /\ lookup.base.lists[Wanted] # None
    /\ lookup' = [lookup EXCEPT !.step = "snapshot", !.base = None]
    /\ UNCHANGED <<listVars, byScope>>

UseList ==
    /\ At("use")
    /\ lookup.base.lists[Wanted] # None
    /\ ListReturns
    /\ UNCHANGED <<listVars, byScope>>

\* Not in the snapshot: asked for once more.
ListDirectly ==
    /\ At("use")
    /\ lookup.base.lists[Wanted] = None
    /\ ReadModelList(Wanted)
    /\ lookup' = [lookup EXCEPT !.step = "direct", !.calls = @ + 1]

\* The list, or none: nothing is kept in the snapshot.
DirectAnswer ==
    /\ At("direct")
    /\ TakeAnswer
    /\ ListReturns

-----------------------------------------------------------------------------
LookupStep ==
    \/ SnapshotFor
    \/ FillNext
    \/ FillAnswer
    \/ StoreSnapshot
    \/ UseList
    \/ ListDirectly
    \/ DirectAnswer

CallEnds == CallSucceeds \/ CallFails

\* A screen lists a kind itself.
ScreenLists(s, r) ==
    /\ lookup = None
    /\ Refresh(s, r)
    /\ UNCHANGED <<byScope, lookup>>

ScreenShows ==
    /\ lookup = None
    /\ Show
    /\ UNCHANGED <<byScope, lookup>>

Surroundings ==
    /\ CallEnds \/ Tick \/ \E c \in Contexts : InformersSync(c)
    /\ UNCHANGED <<byScope, lookup>>

RelNext ==
    \/ \E s \in Scopes, src \in Sources : Related(s, src)
    \/ LookupStep
    \/ \E s \in Scopes, r \in Resources : ScreenLists(s, r)
    \/ ScreenShows
    \/ Surroundings

RelSpec == RelInit /\ [][RelNext]_relVars

\* The event loop goes on with a lookup, and a call ends: it has a deadline.
FairRelSpec ==
    /\ RelSpec
    /\ WF_relVars(LookupStep)
    /\ WF_relVars(CallEnds /\ UNCHANGED <<byScope, lookup>>)

-----------------------------------------------------------------------------
RelTypeOK ==
    /\ ListTypeOK
    /\ byScope \in [Scopes -> Snapshot \cup {None}]
    /\ lookup \in Lookup \cup {None}

\* TestReadRelationIndexCacheIsScopeBound: relations are computed from lists of the
\* scope they were asked for in, whatever was looked up in other scopes before.
LookupUsesOwnScope ==
    At("use") => \A r \in Resources :
        lookup.base.lists[r] # None => lookup.base.lists[r].items.scope = lookup.scope

\* TestReadRelationIndexCachesListsPerScope: the read model is asked for a list only
\* if the snapshot that was current when the list was missed did not have it.
AsksOnlyForMissing ==
    [][\A r \in Resources :
        At("fill") /\ lookup'.step = "filling" /\ Head(lookup.missing) = r
        => LET s == byScope[RelationScopeKey(lookup.scope)]
           IN  ~Fresh(s, lookup.began) \/ s.lists[r] = None]_relVars

\* While a lookup runs nothing else does, so what it costs matters: with n lists to
\* have it asks n times per snapshot, for n snapshots, and once more per list.
CallsPerLookup ==
    lookup # None => lookup.calls <= Len(Required) * (Len(Required) + 1)

\* The event loop is given back, whatever fails or expires on the way.
LookupEnds == lookup # None ~> lookup = None
=============================================================================
