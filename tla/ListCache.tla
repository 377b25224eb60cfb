------------------------------ MODULE ListCache ------------------------------
(***************************************************************************)
(* How a list of resources is read from a cluster                          *)
(* (internal/data/clientgo_api.go, ListResourcesMeta): from a short-lived  *)
(* list cache, else from the informers of the context once all of them     *)
(* have synced, else by a call to the cluster that takes up to CallTime.   *)
(* The event loop waits for the answer, so there is one call at a time.    *)
(*                                                                         *)
(* A list is the time its content dates from.  Informers are fed by        *)
(* watches: what they hold dates from now.                                 *)
(***************************************************************************)
EXTENDS Integers, Sequences

CONSTANTS
    Contexts, Namespaces,
    Resources,  \* kinds that can be listed
    ListTTL,    \* lifetime of a list cache entry (3 s in the code)
    CallTime,   \* the longest a call to the cluster takes (8 s)
    None,
    MaxNow      \* bound: the clock

ASSUME ListConstants ==
    /\ ListTTL \in Nat
    /\ CallTime \in Nat
    /\ MaxNow \in Nat
    /\ None \notin Contexts

VARIABLES
    now,
    listCache,  \* per scope and kind: an entry, or None
    informers,  \* per context: "none", "starting", "synced"
    call,       \* the call to the cluster under way, or None
    answer      \* what the event loop has just been answered, or None

listVars == <<now, listCache, informers, call, answer>>

Scopes == Contexts \X Namespaces
Times  == 0 .. MaxNow

\* content dates from at, in the scope it was listed in
Content == [at : Times, scope : Scopes]
Entry   == [items : Content, expiresAt : 0 .. MaxNow + ListTTL]
Call    == [scope : Scopes, resource : Resources, began : Times]
Answer  == [scope : Scopes, resource : Resources, items : Content \cup {None},
            cacheBacked : BOOLEAN]

ListInit ==
    /\ now = 0
    /\ listCache = [k \in Scopes \X Resources |-> None]
    /\ informers = [c \in Contexts |-> "none"]
    /\ call = None
    /\ answer = None

-----------------------------------------------------------------------------
\* Mutation: the key of a list leaves out the context.
CacheKeyWithoutContext(s, r) == <<<<CHOOSE c \in Contexts : TRUE, s[2]>>, r>>

CacheKey(s, r) == <<s, r>>

\* listCacheGet: an entry serves until its time is over.
ListCacheHit(s, r) ==
    LET e == listCache[CacheKey(s, r)]
    IN  e # None /\ now <= e.expiresAt

ListCacheSet(s, r, items) ==
    listCache' = [listCache EXCEPT ![CacheKey(s, r)] =
                    [items |-> items, expiresAt |-> now + ListTTL]]

Answered(s, r, items, cacheBacked) ==
    answer' = [scope |-> s, resource |-> r, items |-> items, cacheBacked |-> cacheBacked]

\* Mutation: a hit is written back, and so lives on.
AnswerFromListCacheSliding(s, r) ==
    /\ ListCacheHit(s, r)
    /\ Answered(s, r, listCache[CacheKey(s, r)].items, TRUE)
    /\ ListCacheSet(s, r, listCache[CacheKey(s, r)].items)
    /\ UNCHANGED <<now, informers, call>>

AnswerFromListCache(s, r) ==
    /\ ListCacheHit(s, r)
    /\ Answered(s, r, listCache[CacheKey(s, r)].items, TRUE)
    /\ UNCHANGED <<now, listCache, informers, call>>

AnswerFromInformers(s, r) ==
    /\ ~ListCacheHit(s, r)
    /\ informers[s[1]] = "synced"
    /\ Answered(s, r, [at |-> now, scope |-> s], TRUE)
    /\ ListCacheSet(s, r, [at |-> now, scope |-> s])
    /\ UNCHANGED <<now, informers, call>>

\* Informers are started with the first list of their context; the cluster is asked.
CallCluster(s, r) ==
    /\ ~ListCacheHit(s, r)
    /\ informers[s[1]] # "synced"
    /\ informers' = [informers EXCEPT ![s[1]] = "starting"]
    /\ call' = [scope |-> s, resource |-> r, began |-> now]
    /\ UNCHANGED <<now, listCache, answer>>

ListResourcesMeta(s, r) ==
    /\ call = None
    /\ AnswerFromListCache(s, r) \/ AnswerFromInformers(s, r) \/ CallCluster(s, r)

\* The cluster answers; a failure is not cached.
CallSucceeds ==
    /\ call # None
    /\ LET items == [at |-> call.began, scope |-> call.scope]
       IN  /\ Answered(call.scope, call.resource, items, FALSE)
           /\ ListCacheSet(call.scope, call.resource, items)
    /\ call' = None
    /\ UNCHANGED <<now, informers>>

CallFails ==
    /\ call # None
    /\ Answered(call.scope, call.resource, None, FALSE)
    /\ call' = None
    /\ UNCHANGED <<now, listCache, informers>>

\* All informers of the context have synced; one that may not list never does.
InformersSync(c) ==
    /\ informers[c] = "starting"
    /\ informers' = [informers EXCEPT ![c] = "synced"]
    /\ UNCHANGED <<now, listCache, call, answer>>

\* Time passes, but a call that has taken CallTime ends first.
Tick ==
    /\ now < MaxNow
    /\ call # None => now < call.began + CallTime
    /\ now' = now + 1
    /\ UNCHANGED <<listCache, informers, call, answer>>

-----------------------------------------------------------------------------
\* A screen lists a kind, in any scope the session is in over time ...
Refresh(s, r) ==
    /\ answer = None
    /\ ListResourcesMeta(s, r)

\* ... and shows the answer.
Show ==
    /\ answer # None
    /\ answer' = None
    /\ UNCHANGED <<now, listCache, informers, call>>

ListNext ==
    \/ \E s \in Scopes, r \in Resources : Refresh(s, r)
    \/ Show
    \/ CallSucceeds
    \/ CallFails
    \/ \E c \in Contexts : InformersSync(c)
    \/ Tick

\* Whoever reads lists, and whatever else it does, keeps to this.
ListSpec == ListInit /\ [][ListNext]_listVars

-----------------------------------------------------------------------------
ListTypeOK ==
    /\ now \in Times
    /\ listCache \in [Scopes \X Resources -> Entry \cup {None}]
    /\ informers \in [Contexts -> {"none", "starting", "synced"}]
    /\ call \in Call \cup {None}
    /\ answer \in Answer \cup {None}

\* The list a screen is given is no older than a cache entry may get, counted from
\* the start of the call that brought it.
AnswerIsRecent ==
    [][answer' # answer /\ answer' # None /\ answer'.items # None
         => now' - answer'.items.at <= ListTTL + CallTime]_listVars

\* The list a screen is given was listed in the scope the screen asked for.
AnswerIsOfScope ==
    answer # None /\ answer.items # None => answer.items.scope = answer.scope
=============================================================================
