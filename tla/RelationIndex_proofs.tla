------------------------ MODULE RelationIndex_proofs ------------------------
(***************************************************************************)
(* Proofs about ListCache and RelationIndex, for any scopes, kinds and     *)
(* lifetimes: an answer of the list path is of its scope and recent, every *)
(* step of a lookup is one the list path allows, a lookup uses lists of    *)
(* its own scope only, and what it asks of the read model is bounded.      *)
(***************************************************************************)
EXTENDS RelationIndex, TLAPS

-----------------------------------------------------------------------------
(* The list path.                                                          *)

\* Why an answer is of its scope and recent: so is every cache entry, and a call that
\* has lasted CallTime lets no time pass.
ListInv ==
    /\ ListTypeOK
    /\ \A s \in Scopes, r \in Resources : LET e == listCache[<<s, r>>] IN
          e # None => /\ e.items.scope = s
                      /\ e.expiresAt <= e.items.at + CallTime + ListTTL
    /\ call # None => call.began <= now /\ now <= call.began + CallTime
    /\ AnswerIsOfScope

\* Nothing is cached, called or answered at the start.
LEMMA ListInvInit == ListInit => ListInv
  BY ListConstants DEF ListInit, ListInv, ListTypeOK, Times, Entry, AnswerIsOfScope

\* What the cache gives for a scope is an entry of that scope.
LEMMA HitIsOfScope ==
    ASSUME ListInv, NEW s \in Scopes, NEW r \in Resources, ListCacheHit(s, r)
    PROVE  /\ listCache[CacheKey(s, r)] \in Entry
           /\ listCache[CacheKey(s, r)].items \in Content
           /\ listCache[CacheKey(s, r)].items.scope = s
           /\ now <= listCache[CacheKey(s, r)].items.at + CallTime + ListTTL
<1>. DEFINE e == listCache[<<s, r>>]
<1>1. e \in Entry /\ e # None /\ now <= e.expiresAt
  BY DEF ListInv, ListTypeOK, ListCacheHit, CacheKey
<1>2. e.items \in Content /\ e.expiresAt \in Int /\ e.items.at \in Int
  BY <1>1, ListConstants DEF Entry, Content, Times
<1>3. e.items.scope = s /\ e.expiresAt <= e.items.at + CallTime + ListTTL
  BY <1>1 DEF ListInv
<1>. QED
  BY <1>1, <1>2, <1>3, ListConstants DEF CacheKey, ListInv, ListTypeOK, Times

\* A list from a scope that dates from now or from the start of a call may be cached.
LEMMA SetKeepsCache ==
    ASSUME ListInv, NEW s \in Scopes, NEW r \in Resources, NEW at \in Times,
           at <= now, now <= at + CallTime,
           ListCacheSet(s, r, [at |-> at, scope |-> s])
    PROVE  /\ listCache' \in [Scopes \X Resources -> Entry \cup {None}]
           /\ \A t \in Scopes, q \in Resources : LET e == listCache'[<<t, q>>] IN
                e # None => /\ e.items.scope = t
                            /\ e.expiresAt <= e.items.at + CallTime + ListTTL
<1>. DEFINE new == [items |-> [at |-> at, scope |-> s], expiresAt |-> now + ListTTL]
<1>1. new \in Entry
  BY ListConstants DEF Entry, Content, Times, ListInv, ListTypeOK
<1>2. now + ListTTL <= at + CallTime + ListTTL
  BY ListConstants DEF Times, ListInv, ListTypeOK
<1>3. listCache' = [listCache EXCEPT ![<<s, r>>] = new]
  BY DEF ListCacheSet, CacheKey
<1>4. listCache' \in [Scopes \X Resources -> Entry \cup {None}]
  BY <1>1, <1>3 DEF ListInv, ListTypeOK
<1>5. ASSUME NEW t \in Scopes, NEW q \in Resources, listCache'[<<t, q>>] # None
      PROVE  /\ listCache'[<<t, q>>].items.scope = t
             /\ listCache'[<<t, q>>].expiresAt <= listCache'[<<t, q>>].items.at + CallTime + ListTTL
  <2>1. CASE t = s /\ q = r
    <3>1. listCache'[<<t, q>>] = new
      BY <1>3, <2>1 DEF ListInv, ListTypeOK
    <3>. QED
      BY <1>2, <2>1, <3>1
  <2>2. CASE ~ (t = s /\ q = r)
    <3>1. listCache'[<<t, q>>] = listCache[<<t, q>>]
      BY <1>3, <2>2 DEF ListInv, ListTypeOK
    <3>. QED
      BY <1>5, <3>1 DEF ListInv
  <2>. QED
    BY <2>1, <2>2
<1>. QED
  BY <1>4, <1>5

\* Every answer, call and tick keeps the invariant, and what is answered is recent.
LEMMA ListInvNext ==
    ASSUME ListInv, [ListNext]_listVars
    PROVE  /\ ListInv'
           /\ answer' # answer /\ answer' # None /\ answer'.items # None
                => now' - answer'.items.at <= ListTTL + CallTime
<1>. DEFINE Recent == answer' # answer /\ answer' # None /\ answer'.items # None
                        => now' - answer'.items.at <= ListTTL + CallTime
<1>. USE ListConstants
<1>1. /\ now \in Times /\ now \in Int
      /\ listCache \in [Scopes \X Resources -> Entry \cup {None}]
      /\ informers \in [Contexts -> {"none", "starting", "synced"}]
      /\ call \in Call \cup {None}
      /\ answer \in Answer \cup {None}
  BY DEF ListInv, ListTypeOK, Times
<1>2. ASSUME NEW s \in Scopes, NEW r \in Resources, AnswerFromListCache(s, r)
      PROVE  ListInv' /\ Recent
  <2>. DEFINE items == listCache[CacheKey(s, r)].items
  <2>1. items \in Content /\ items.scope = s /\ now <= items.at + CallTime + ListTTL
    BY <1>2, HitIsOfScope DEF AnswerFromListCache
  <2>2. answer' = [scope |-> s, resource |-> r, items |-> items, cacheBacked |-> TRUE]
    BY <1>2 DEF AnswerFromListCache, Answered
  <2>3. answer' \in Answer /\ answer'.items = items /\ answer'.scope = s
    BY <2>1, <2>2 DEF Answer
  <2>4. UNCHANGED <<now, listCache, informers, call>>
    BY <1>2 DEF AnswerFromListCache
  <2>5. Recent
    BY <1>1, <2>1, <2>3, <2>4 DEF Content, Times
  <2>. QED
    BY <1>1, <2>1, <2>3, <2>4, <2>5 DEF ListInv, ListTypeOK, AnswerIsOfScope
<1>3. ASSUME NEW s \in Scopes, NEW r \in Resources, AnswerFromInformers(s, r)
      PROVE  ListInv' /\ Recent
  <2>. DEFINE items == [at |-> now, scope |-> s]
  <2>1. answer' = [scope |-> s, resource |-> r, items |-> items, cacheBacked |-> TRUE]
    BY <1>3 DEF AnswerFromInformers, Answered
  <2>2. answer' \in Answer /\ answer'.items = items /\ answer'.scope = s
    BY <1>1, <2>1 DEF Answer, Content
  <2>3. UNCHANGED <<now, informers, call>>
    BY <1>3 DEF AnswerFromInformers
  <2>4. /\ listCache' \in [Scopes \X Resources -> Entry \cup {None}]
        /\ \A t \in Scopes, q \in Resources : LET e == listCache'[<<t, q>>] IN
             e # None => /\ e.items.scope = t
                         /\ e.expiresAt <= e.items.at + CallTime + ListTTL
    BY <1>1, <1>3, SetKeepsCache DEF AnswerFromInformers
  <2>5. Recent
    BY <1>1, <2>2, <2>3
  <2>. QED
    BY <1>1, <2>2, <2>3, <2>4, <2>5 DEF ListInv, ListTypeOK, AnswerIsOfScope
<1>4. ASSUME NEW s \in Scopes, NEW r \in Resources, CallCluster(s, r)
      PROVE  ListInv' /\ Recent
  <2>1. call' = [scope |-> s, resource |-> r, began |-> now]
    BY <1>4 DEF CallCluster
  <2>2. call' \in Call /\ call'.began = now
    BY <1>1, <2>1 DEF Call
  <2>3. informers' \in [Contexts -> {"none", "starting", "synced"}]
    BY <1>1, <1>4 DEF CallCluster, Scopes
  <2>. QED
    BY <1>1, <1>4, <2>2, <2>3 DEF CallCluster, ListInv, ListTypeOK, AnswerIsOfScope
<1>5. CASE CallSucceeds
  <2>. DEFINE items == [at |-> call.began, scope |-> call.scope]
  <2>1. /\ call.scope \in Scopes /\ call.resource \in Resources /\ call.began \in Times
        /\ call.began <= now /\ now <= call.began + CallTime
    BY <1>1, <1>5 DEF CallSucceeds, Call, ListInv
  <2>2. answer' = [scope |-> call.scope, resource |-> call.resource, items |-> items,
                   cacheBacked |-> FALSE]
    BY <1>5 DEF CallSucceeds, Answered
  <2>3. answer' \in Answer /\ answer'.items = items /\ answer'.scope = call.scope
    BY <2>1, <2>2 DEF Answer, Content
  <2>4. call' = None /\ UNCHANGED <<now, informers>>
    BY <1>5 DEF CallSucceeds
  <2>5. /\ listCache' \in [Scopes \X Resources -> Entry \cup {None}]
        /\ \A t \in Scopes, q \in Resources : LET e == listCache'[<<t, q>>] IN
             e # None => /\ e.items.scope = t
                         /\ e.expiresAt <= e.items.at + CallTime + ListTTL
    BY <1>5, <2>1, SetKeepsCache DEF CallSucceeds
  <2>6. Recent
    BY <1>1, <2>1, <2>3, <2>4 DEF Times
  <2>. QED
    BY <1>1, <2>3, <2>4, <2>5, <2>6 DEF ListInv, ListTypeOK, AnswerIsOfScope
<1>6. CASE CallFails
  <2>1. answer' = [scope |-> call.scope, resource |-> call.resource, items |-> None,
                   cacheBacked |-> FALSE]
    BY <1>6 DEF CallFails, Answered
  <2>2. answer' \in Answer /\ answer'.items = None
    BY <1>1, <1>6, <2>1 DEF Answer, Call, CallFails
  <2>3. call' = None /\ UNCHANGED <<now, listCache, informers>>
    BY <1>6 DEF CallFails
  <2>. QED
    BY <1>1, <2>2, <2>3 DEF ListInv, ListTypeOK, AnswerIsOfScope
<1>7. CASE \E c \in Contexts : InformersSync(c)
  BY <1>1, <1>7 DEF InformersSync, ListInv, ListTypeOK, AnswerIsOfScope
<1>8. CASE Tick
  <2>1. now' \in Times /\ call' # None => call'.began <= now' /\ now' <= call'.began + CallTime
    BY <1>1, <1>8 DEF Tick, ListInv, Times, Call
  <2>2. now' \in Times
    BY <1>1, <1>8 DEF Tick, Times
  <2>. QED
    BY <1>1, <1>8, <2>1, <2>2 DEF Tick, ListInv, ListTypeOK, AnswerIsOfScope
<1>9. CASE Show \/ UNCHANGED listVars
  BY <1>1, <1>9 DEF Show, listVars, ListInv, ListTypeOK, AnswerIsOfScope
<1>. QED
  BY <1>2, <1>3, <1>4, <1>5, <1>6, <1>7, <1>8, <1>9 DEF ListNext, Refresh, ListResourcesMeta

\* The cache, the informers, the call and the answer keep their types.
THEOREM ListTypeCorrect == ListSpec => []ListTypeOK
<1>1. ListInv => ListTypeOK
  BY DEF ListInv
<1>2. ListInv /\ [ListNext]_listVars => ListInv'
  BY ListInvNext
<1>. QED
  BY <1>1, <1>2, ListInvInit, PTL DEF ListSpec

\* A screen is given a list of the scope it asked for (clientgo_api.go, the key of
\* listCacheGet and listCacheSet).
THEOREM ScopeCorrect == ListSpec => []AnswerIsOfScope
<1>1. ListInv => AnswerIsOfScope
  BY DEF ListInv
<1>2. ListInv /\ [ListNext]_listVars => ListInv'
  BY ListInvNext
<1>. QED
  BY <1>1, <1>2, ListInvInit, PTL DEF ListSpec

\* A list is never older than a cache entry's lifetime and one call (clientgo_api.go,
\* listCacheTTL and the deadline of a call).
THEOREM RecentCorrect == ListSpec => AnswerIsRecent
<1>1. ListInv /\ [ListNext]_listVars => ListInv'
  BY ListInvNext
<1>2. ListInv /\ [ListNext]_listVars =>
        [answer' # answer /\ answer' # None /\ answer'.items # None
           => now' - answer'.items.at <= ListTTL + CallTime]_listVars
  BY ListInvNext
<1>. QED
  BY <1>1, <1>2, ListInvInit, PTL DEF ListSpec, AnswerIsRecent

-----------------------------------------------------------------------------
(* The relation index over it.                                             *)

\* What a lookup needs is one or two kinds that can be listed.
LEMMA RequirementsKnown ==
    ASSUME NEW src \in Sources
    PROVE  /\ RelatedListRequirements(src) \in Seq(Resources)
           /\ Len(RelatedListRequirements(src)) \in 1 .. 2
<1>1. CASE src \in {"workloads", "deployments"}
  BY <1>1, RelationConstants DEF RelatedListRequirements
<1>2. CASE src \in {"pods", "services"}
  BY <1>2, RelationConstants DEF RelatedListRequirements
<1>3. CASE src = "ingresses"
  BY <1>3, RelationConstants DEF RelatedListRequirements
<1>4. CASE src \in {"nodes", "persistentvolumeclaims"}
  BY <1>4, RelationConstants DEF RelatedListRequirements
<1>. QED
  BY <1>1, <1>2, <1>3, <1>4, RelationConstants

\* The missing ones are required, and missing.
LEMMA MissingFacts ==
    ASSUME NEW required \in Seq(Resources), Len(required) \in 1 .. 2, NEW lists
    PROVE  /\ Missing(required, lists) \in Seq(Resources)
           /\ Len(Missing(required, lists)) <= Len(required)
           /\ \A i \in 1 .. Len(Missing(required, lists)) :
                lists[Missing(required, lists)[i]] = None
<1>. DEFINE one == IF 1 \in DOMAIN required /\ lists[required[1]] = None
                   THEN <<required[1]>> ELSE <<>>
            two == IF 2 \in DOMAIN required /\ lists[required[2]] = None
                   THEN <<required[2]>> ELSE <<>>
<1>1. Missing(required, lists) = one \o two
  BY DEF Missing
<1>2. /\ one \in Seq(Resources) /\ Len(one) \in 0 .. 1
      /\ \A i \in 1 .. Len(one) : lists[one[i]] = None
  OBVIOUS
<1>3. /\ two \in Seq(Resources) /\ Len(two) \in 0 .. 1
      /\ \A i \in 1 .. Len(two) : lists[two[i]] = None
      /\ Len(required) = 1 => two = <<>>
  OBVIOUS
<1>. HIDE DEF one, two
<1>4. /\ one \o two \in Seq(Resources)
      /\ Len(one \o two) = Len(one) + Len(two)
      /\ \A i \in 1 .. Len(one) + Len(two) :
           (one \o two)[i] = IF i <= Len(one) THEN one[i] ELSE two[i - Len(one)]
  BY <1>2, <1>3
<1>5. Len(one) + Len(two) <= Len(required)
  <2>1. CASE Len(required) = 1
    <3>1. Len(two) = 0
      BY <1>3, <2>1
    <3>. QED
      BY <1>2, <2>1, <3>1
  <2>2. CASE Len(required) = 2
    BY <1>2, <1>3, <2>2
  <2>. QED
    BY <2>1, <2>2
<1>6. ASSUME NEW i \in 1 .. Len(one) + Len(two)
      PROVE  lists[(one \o two)[i]] = None
  <2>1. CASE i <= Len(one)
    BY <1>2, <1>4, <2>1
  <2>2. CASE i > Len(one)
    <3>1. i - Len(one) \in 1 .. Len(two)
      BY <1>2, <1>3, <2>2
    <3>. QED
      BY <1>2, <1>3, <1>4, <2>2, <3>1
  <2>. QED
    BY <1>2, <2>1, <2>2
<1>. QED
  BY <1>1, <1>4, <1>5, <1>6

-----------------------------------------------------------------------------
OfScope(snapshot, s) ==
    \A r \in Resources :
        snapshot.lists[r] # None => snapshot.lists[r].items.scope = s

\* Each list still to be asked for was not in the snapshot that was current.
MissedBefore ==
    \A i \in 1 .. Len(lookup.missing) :
        LET s == byScope[RelationScopeKey(lookup.scope)]
        IN  ~Fresh(s, lookup.began) \/ s.lists[lookup.missing[i]] = None

\* Lists asked for since list() was called last.
CallsInStep ==
    CASE lookup.step = "snapshot" -> 0
      [] lookup.step = "fill"     -> Len(Required) - Len(lookup.missing)
      [] lookup.step = "filling"  -> Len(Required) - Len(lookup.missing) + 1
      [] lookup.step = "use"      -> Len(Required)
      [] OTHER                    -> Len(Required) + 1

\* The lookup under way: it waits only in "filling" and "direct", for a list of its
\* own scope, and fills a snapshot of that scope.
LookupInv ==
    /\ lookup.wanted <= Len(Required)
    /\ lookup.step \in {"snapshot", "fill", "use"} => answer = None /\ call = None
    /\ answer # None => answer.scope = lookup.scope
    /\ call # None => call.scope = lookup.scope
    /\ lookup.step \in {"fill", "filling", "use"} =>
          lookup.base \in Snapshot /\ OfScope(lookup.base, lookup.scope)
    /\ lookup.step \in {"fill", "filling"} => Len(lookup.missing) <= Len(Required) /\ MissedBefore
    /\ lookup.step = "filling" => lookup.missing # <<>>
    /\ lookup.calls <= (lookup.wanted - 1) * (Len(Required) + 1) + CallsInStep

RelInv ==
    /\ ListInv
    /\ answer = None \/ call = None
    /\ byScope \in [Scopes -> Snapshot \cup {None}]
    /\ \A s \in Scopes : byScope[s] # None => OfScope(byScope[s], s)
    /\ lookup \in Lookup \cup {None}
    /\ lookup # None => LookupInv

\* There is no snapshot and no lookup at the start.
LEMMA RelInvInit == RelInit => RelInv
  BY ListInvInit DEF RelInit, RelInv, ListInit

\* Every step of the index is a step of the list path, or leaves it alone.
LEMMA RelStepIsListStep == RelInv /\ [RelNext]_relVars => [ListNext]_listVars
<1>. SUFFICES ASSUME RelInv, [RelNext]_relVars
              PROVE  [ListNext]_listVars
  OBVIOUS
<1>1. ASSUME NEW r \in Resources, lookup # None, lookup.step \in {"fill", "use"}, ReadModelList(r)
      PROVE  ListNext
  <2>1. lookup.scope \in Scopes /\ answer = None
    BY <1>1 DEF RelInv, LookupInv, Lookup
  <2>2. Refresh(lookup.scope, r)
    BY <1>1, <2>1 DEF ReadModelList, Refresh
  <2>. QED
    BY <2>1, <2>2 DEF ListNext
<1>2. CASE FillNext
  <2>1. lookup.missing \in Seq(Resources) /\ lookup.missing # <<>>
    BY <1>2 DEF FillNext, At, RelInv, Lookup
  <2>2. Head(lookup.missing) \in Resources
    BY <2>1
  <2>. QED
    BY <1>1, <1>2, <2>2 DEF FillNext, At
<1>3. CASE ListDirectly
  <2>1. Required \in Seq(Resources) /\ lookup.wanted \in 1 .. Len(Required)
    BY <1>3, RequirementsKnown DEF ListDirectly, At, RelInv, LookupInv, Lookup, Required
  <2>2. Wanted \in Resources
    BY <2>1 DEF Wanted
  <2>. QED
    BY <1>1, <1>3, <2>2 DEF ListDirectly, At
<1>4. CASE FillAnswer \/ DirectAnswer
  BY <1>4 DEF FillAnswer, DirectAnswer, TakeAnswer, ListNext, Show
<1>5. CASE SnapshotFor \/ StoreSnapshot \/ UseList \/ \E s \in Scopes, src \in Sources : Related(s, src)
  BY <1>5 DEF SnapshotFor, StoreSnapshot, UseList, Related
<1>6. CASE \/ \E s \in Scopes, r \in Resources : ScreenLists(s, r)
           \/ ScreenShows \/ Surroundings
  BY <1>6 DEF ScreenLists, ScreenShows, Surroundings, CallEnds, ListNext
<1>7. CASE UNCHANGED relVars
  BY <1>7 DEF relVars
<1>. QED
  BY <1>2, <1>3, <1>4, <1>5, <1>6, <1>7 DEF RelNext, LookupStep

-----------------------------------------------------------------------------
\* What a lookup asks is answered, or asked of the cluster, in its own scope.
LEMMA ReadModelListFacts ==
    ASSUME RelInv, lookup # None, lookup.step \in {"fill", "use"}, NEW r, ReadModelList(r)
    PROVE  /\ answer' = None \/ call' = None
           /\ answer' # None => answer'.scope = lookup.scope
           /\ call' # None => call'.scope = lookup.scope
           /\ UNCHANGED byScope
<1>1. answer = None /\ call = None
  BY DEF RelInv, LookupInv
<1>. QED
  BY <1>1 DEF ReadModelList, ListResourcesMeta, AnswerFromListCache, AnswerFromInformers,
              CallCluster, Answered

\* A new lookup is at its first list, and waits for nothing.
LEMMA RelatedKeeps ==
    ASSUME RelInv, ListInv', NEW s \in Scopes, NEW src \in Sources, Related(s, src)
    PROVE  RelInv'
<1>. DEFINE l == [scope |-> s, src |-> src, wanted |-> 1, step |-> "snapshot",
                  began |-> now, base |-> None, missing |-> <<>>, calls |-> 0]
<1>1. lookup' = l /\ UNCHANGED <<listVars, byScope>> /\ answer = None /\ call = None
  BY DEF Related
<1>2. l \in Lookup
  BY DEF Lookup, RelInv, ListInv, ListTypeOK
<1>3. UNCHANGED <<answer, call>>
  BY <1>1 DEF listVars
<1>4. Len(RelatedListRequirements(src)) \in 1 .. 2
  BY RequirementsKnown
<1>5. LookupInv'
  BY <1>1, <1>3, <1>4 DEF LookupInv, CallsInStep, Required
<1>. QED
  BY <1>1, <1>2, <1>3, <1>5 DEF RelInv

\* The snapshot taken has the lists of the scope, and misses what the current one does.
LEMMA SnapshotForKeeps ==
    ASSUME RelInv, ListInv', SnapshotFor
    PROVE  RelInv'
<1>. DEFINE current == byScope[RelationScopeKey(lookup.scope)]
            base    == Base(current)
<1>. USE RelationConstants, ListConstants
<1>1. /\ lookup # None /\ lookup.step = "snapshot" /\ lookup \in Lookup
      /\ UNCHANGED <<listVars, byScope, answer, call, now>>
      /\ answer = None /\ call = None /\ now \in Times
  BY DEF SnapshotFor, At, RelInv, LookupInv, listVars, ListInv, ListTypeOK
<1>2. current \in Snapshot \cup {None} /\ (current # None => OfScope(current, lookup.scope))
  BY <1>1 DEF RelInv, RelationScopeKey, Lookup
<1>3. /\ Required \in Seq(Resources) /\ Len(Required) \in 1 .. 2
      /\ lookup'.src = lookup.src => Required' = Required
  BY <1>1, RequirementsKnown DEF Required, Lookup
<1>4. CASE Fresh(current, now) /\ SnapshotHasLists(current, Required)
  <2>1. lookup' = [lookup EXCEPT !.step = "use", !.began = now, !.base = current]
    BY <1>4 DEF SnapshotFor
  <2>2. current \in Snapshot /\ OfScope(current, lookup.scope)
    BY <1>2, <1>4 DEF Fresh
  <2>. HIDE DEF current
  <2>3. /\ lookup' \in Lookup /\ lookup'.src = lookup.src /\ lookup'.scope = lookup.scope
        /\ lookup'.step = "use" /\ lookup'.base = current /\ lookup'.calls = lookup.calls
        /\ lookup'.wanted = lookup.wanted
    BY <1>1, <2>1, <2>2 DEF Lookup
  <2>4. LookupInv'
    BY <1>1, <1>3, <2>2, <2>3 DEF RelInv, LookupInv, CallsInStep, OfScope, Lookup
  <2>. QED
    BY <1>1, <2>3, <2>4 DEF RelInv
<1>5. CASE ~ (Fresh(current, now) /\ SnapshotHasLists(current, Required))
  <2>. DEFINE missing == Missing(Required, base.lists)
  <2>1. lookup' = [lookup EXCEPT !.step = "fill", !.began = now, !.base = base,
                                 !.missing = missing]
    BY <1>5 DEF SnapshotFor
  <2>2. base \in Snapshot /\ OfScope(base, lookup.scope)
    BY <1>1, <1>2 DEF Base, Fresh, Snapshot, OfScope, Times
  <2>3. ~Fresh(current, now) \/ base.lists = current.lists
    BY DEF Base
  <2>. HIDE DEF current, base
  <2>4. /\ missing \in Seq(Resources) /\ Len(missing) <= Len(Required)
        /\ \A i \in 1 .. Len(missing) : base.lists[missing[i]] = None
    BY <1>3, MissingFacts
  <2>. HIDE DEF missing
  <2>5. /\ lookup' \in Lookup /\ lookup'.src = lookup.src /\ lookup'.scope = lookup.scope
        /\ lookup'.step = "fill" /\ lookup'.base = base /\ lookup'.calls = lookup.calls
        /\ lookup'.wanted = lookup.wanted /\ lookup'.missing = missing /\ lookup'.began = now
    BY <1>1, <2>1, <2>2, <2>4 DEF Lookup
  <2>6. MissedBefore'
    <3>1. byScope'[RelationScopeKey(lookup'.scope)] = current
      BY <1>1, <2>5 DEF current
    <3>2. \A i \in 1 .. Len(missing) : ~Fresh(current, now) \/ current.lists[missing[i]] = None
      BY <2>3, <2>4
    <3>. QED
      BY <2>5, <3>1, <3>2 DEF MissedBefore, Fresh
  <2>7. lookup'.calls <= (lookup'.wanted - 1) * (Len(Required') + 1) + CallsInStep'
    BY <1>1, <1>3, <2>4, <2>5 DEF RelInv, LookupInv, CallsInStep, Lookup
  <2>8. LookupInv'
    BY <1>1, <1>3, <2>2, <2>4, <2>5, <2>6, <2>7 DEF RelInv, LookupInv, OfScope
  <2>. QED
    BY <1>1, <2>5, <2>8 DEF RelInv
<1>. QED
  BY <1>4, <1>5

\* The first of the missing lists is asked for.
LEMMA FillNextKeeps ==
    ASSUME RelInv, ListInv', FillNext
    PROVE  RelInv'
<1>1. /\ lookup # None /\ lookup.step = "fill" /\ lookup \in Lookup /\ lookup.missing # <<>>
      /\ ReadModelList(Head(lookup.missing))
      /\ lookup' = [lookup EXCEPT !.step = "filling", !.calls = @ + 1]
  BY DEF FillNext, At, RelInv
<1>2. /\ lookup' \in Lookup /\ lookup'.src = lookup.src /\ lookup'.scope = lookup.scope
      /\ lookup'.step = "filling" /\ lookup'.base = lookup.base
      /\ lookup'.calls = lookup.calls + 1 /\ lookup'.wanted = lookup.wanted
      /\ lookup'.missing = lookup.missing /\ lookup'.began = lookup.began
  <2>1. lookup.calls + 1 \in Nat
    BY <1>1 DEF Lookup
  <2>. QED
    BY <1>1, <2>1 DEF Lookup
<1>3. /\ answer' = None \/ call' = None
      /\ answer' # None => answer'.scope = lookup'.scope
      /\ call' # None => call'.scope = lookup'.scope
      /\ UNCHANGED byScope
  BY <1>1, <1>2, ReadModelListFacts
<1>4. Required' = Required /\ Len(Required) \in 1 .. 2
  BY <1>1, <1>2, RequirementsKnown DEF Required, Lookup
<1>5. lookup.missing \in Seq(Resources)
  BY <1>1 DEF Lookup
<1>6. MissedBefore'
  BY <1>1, <1>2, <1>3 DEF RelInv, LookupInv, MissedBefore, Fresh
<1>7. lookup'.calls <= (lookup'.wanted - 1) * (Len(Required') + 1) + CallsInStep'
  BY <1>1, <1>2, <1>4, <1>5 DEF RelInv, LookupInv, CallsInStep, Lookup
<1>8. LookupInv'
  BY <1>1, <1>2, <1>3, <1>4, <1>6, <1>7 DEF RelInv, LookupInv, OfScope
<1>. QED
  BY <1>2, <1>3, <1>8 DEF RelInv

\* What the lookup asked for goes into the snapshot it fills.
LEMMA FillAnswerKeeps ==
    ASSUME RelInv, ListInv', FillAnswer
    PROVE  RelInv'
<1>. DEFINE h == Head(lookup.missing)
            l == IF answer.items = None THEN None ELSE [items |-> answer.items, readAt |-> now]
            base == [lookup.base EXCEPT !.lists = [@ EXCEPT ![h] = l]]
<1>1. /\ lookup # None /\ lookup.step = "filling" /\ lookup \in Lookup /\ lookup.missing # <<>>
      /\ answer # None /\ answer \in Answer /\ answer' = None /\ call = None
      /\ UNCHANGED <<now, call, byScope>> /\ now \in Times
      /\ lookup' = [lookup EXCEPT !.step = "fill", !.missing = Tail(@), !.base = base]
      /\ lookup.base \in Snapshot /\ OfScope(lookup.base, lookup.scope)
      /\ answer.scope = lookup.scope
  BY DEF FillAnswer, TakeAnswer, At, RelInv, LookupInv, ListInv, ListTypeOK
<1>2. lookup.missing \in Seq(Resources) /\ h \in Resources
  BY <1>1 DEF Lookup
<1>3. /\ Tail(lookup.missing) \in Seq(Resources)
      /\ Len(Tail(lookup.missing)) = Len(lookup.missing) - 1
      /\ \A i \in 1 .. Len(Tail(lookup.missing)) : Tail(lookup.missing)[i] = lookup.missing[i + 1]
  BY <1>1, <1>2
<1>4. l \in IndexedList \cup {None} /\ (l # None => l.items.scope = lookup.scope)
  BY <1>1 DEF IndexedList, Answer, RelInv, ListInv, AnswerIsOfScope
<1>. HIDE DEF l
<1>5. base \in Snapshot /\ OfScope(base, lookup.scope)
  BY <1>1, <1>2, <1>4 DEF Snapshot, OfScope
<1>. HIDE DEF base
<1>6. /\ lookup' \in Lookup /\ lookup'.src = lookup.src /\ lookup'.scope = lookup.scope
      /\ lookup'.step = "fill" /\ lookup'.base = base
      /\ lookup'.calls = lookup.calls /\ lookup'.wanted = lookup.wanted
      /\ lookup'.missing = Tail(lookup.missing) /\ lookup'.began = lookup.began
  BY <1>1, <1>3, <1>5 DEF Lookup
<1>7. Required' = Required /\ Len(Required) \in 1 .. 2
  BY <1>1, <1>6, RequirementsKnown DEF Required, Lookup
<1>8. MissedBefore'
  BY <1>1, <1>2, <1>3, <1>6 DEF RelInv, LookupInv, MissedBefore, Fresh
<1>9. lookup'.calls <= (lookup'.wanted - 1) * (Len(Required') + 1) + CallsInStep'
  BY <1>1, <1>2, <1>3, <1>6, <1>7 DEF RelInv, LookupInv, CallsInStep, Lookup
<1>10. Len(lookup'.missing) <= Len(Required')
  BY <1>1, <1>2, <1>3, <1>6, <1>7 DEF RelInv, LookupInv
<1>11. LookupInv'
  BY <1>1, <1>5, <1>6, <1>7, <1>8, <1>9, <1>10 DEF RelInv, LookupInv, OfScope
<1>. QED
  BY <1>1, <1>6, <1>11 DEF RelInv

\* The snapshot that was filled becomes the current one of its scope.
LEMMA StoreSnapshotKeeps ==
    ASSUME RelInv, ListInv', StoreSnapshot
    PROVE  RelInv'
<1>1. /\ lookup # None /\ lookup.step = "fill" /\ lookup \in Lookup /\ lookup.missing = <<>>
      /\ UNCHANGED <<answer, call>> /\ answer = None /\ call = None
      /\ byScope' = [byScope EXCEPT ![lookup.scope] = lookup.base]
      /\ lookup' = [lookup EXCEPT !.step = "use"]
      /\ lookup.base \in Snapshot /\ OfScope(lookup.base, lookup.scope)
  BY DEF StoreSnapshot, RelationScopeKey, At, RelInv, LookupInv, listVars
<1>2. /\ lookup' \in Lookup /\ lookup'.src = lookup.src /\ lookup'.scope = lookup.scope
      /\ lookup'.step = "use" /\ lookup'.base = lookup.base
      /\ lookup'.calls = lookup.calls /\ lookup'.wanted = lookup.wanted
  BY <1>1 DEF Lookup
<1>3. Required' = Required /\ Len(Required) \in 1 .. 2
  BY <1>1, <1>2, RequirementsKnown DEF Required, Lookup
<1>4. /\ byScope' \in [Scopes -> Snapshot \cup {None}]
      /\ \A s \in Scopes : byScope'[s] # None => OfScope(byScope'[s], s)
  BY <1>1 DEF RelInv, Lookup, OfScope
<1>5. lookup'.calls <= (lookup'.wanted - 1) * (Len(Required') + 1) + CallsInStep'
  BY <1>1, <1>2, <1>3 DEF RelInv, LookupInv, CallsInStep, Lookup
<1>6. LookupInv'
  BY <1>1, <1>2, <1>3, <1>5 DEF RelInv, LookupInv, OfScope
<1>. QED
  BY <1>1, <1>2, <1>4, <1>6 DEF RelInv, OfScope

\* A list that is not in the snapshot is asked for once more.
LEMMA ListDirectlyKeeps ==
    ASSUME RelInv, ListInv', ListDirectly
    PROVE  RelInv'
<1>1. /\ lookup # None /\ lookup.step = "use" /\ lookup \in Lookup
      /\ ReadModelList(Wanted)
      /\ lookup' = [lookup EXCEPT !.step = "direct", !.calls = @ + 1]
  BY DEF ListDirectly, At, RelInv
<1>2. /\ lookup' \in Lookup /\ lookup'.src = lookup.src /\ lookup'.scope = lookup.scope
      /\ lookup'.step = "direct" /\ lookup'.calls = lookup.calls + 1
      /\ lookup'.wanted = lookup.wanted
  <2>1. lookup.calls + 1 \in Nat
    BY <1>1 DEF Lookup
  <2>. QED
    BY <1>1, <2>1 DEF Lookup
<1>3. /\ answer' = None \/ call' = None
      /\ answer' # None => answer'.scope = lookup'.scope
      /\ call' # None => call'.scope = lookup'.scope
      /\ UNCHANGED byScope
  BY <1>1, <1>2, ReadModelListFacts
<1>4. Required' = Required /\ Len(Required) \in 1 .. 2
  BY <1>1, <1>2, RequirementsKnown DEF Required, Lookup
<1>5. lookup'.calls <= (lookup'.wanted - 1) * (Len(Required') + 1) + CallsInStep'
  BY <1>1, <1>2, <1>4 DEF RelInv, LookupInv, CallsInStep, Lookup
<1>6. LookupInv'
  BY <1>1, <1>2, <1>3, <1>4, <1>5 DEF RelInv, LookupInv
<1>. QED
  BY <1>2, <1>3, <1>6 DEF RelInv, OfScope

\* list() returns when it has used the snapshot, or been answered directly.
LEMMA ListReturnsKeeps ==
    ASSUME RelInv, ListInv', UseList \/ DirectAnswer
    PROVE  RelInv'
<1>1. /\ lookup # None /\ lookup.step \in {"use", "direct"} /\ lookup \in Lookup
      /\ ListReturns /\ UNCHANGED byScope /\ answer' = None /\ call' = None
  BY DEF UseList, DirectAnswer, TakeAnswer, At, RelInv, LookupInv, listVars
<1>. DEFINE n == Len(Required)
            w == lookup.wanted
<1>2. n \in 1 .. 2 /\ w \in 1 .. 2 /\ w <= n
  BY <1>1, RequirementsKnown DEF Required, RelInv, LookupInv, Lookup
<1>3. CASE w = n
  BY <1>1, <1>3 DEF ListReturns, RelInv
<1>4. CASE w # n
  <2>1. lookup' = [lookup EXCEPT !.wanted = @ + 1, !.step = "snapshot", !.base = None]
    BY <1>1, <1>4 DEF ListReturns
  <2>2. w = 1 /\ n = 2
    <3>. HIDE DEF w, n
    <3>. QED
      BY <1>2, <1>4
  <2>3. 2 \in 1 .. 2 /\ lookup.wanted + 1 = 2
    BY <2>2
  <2>4. /\ lookup' \in Lookup /\ lookup'.src = lookup.src /\ lookup'.scope = lookup.scope
        /\ lookup'.step = "snapshot" /\ lookup'.calls = lookup.calls /\ lookup'.wanted = 2
    BY <1>1, <2>1, <2>3 DEF Lookup
  <2>5. Required' = Required
    BY <2>4 DEF Required
  <2>6. lookup'.calls <= 3
    BY <1>1, <2>2, <2>4 DEF RelInv, LookupInv, CallsInStep, Lookup
  <2>7. Len(Required)' = 2 /\ CallsInStep' = 0
    <3>1. Len(Required)' = Len(Required)
      BY <2>5
    <3>2. CallsInStep' = 0
      BY <2>4 DEF CallsInStep
    <3>. QED
      BY <2>2, <3>1, <3>2
  <2>8. LookupInv'
    BY <1>1, <2>4, <2>6, <2>7 DEF LookupInv
  <2>. QED
    BY <1>1, <2>4, <2>8 DEF RelInv, OfScope
<1>. QED
  BY <1>3, <1>4

\* The clock, the informers and the end of a call leave the lookup where it is.
LEMMA SurroundingsKeep ==
    ASSUME RelInv, ListInv', Surroundings
    PROVE  RelInv'
<1>1. UNCHANGED <<byScope, lookup>>
  BY DEF Surroundings
<1>2. CASE UNCHANGED <<answer, call>>
  BY <1>1, <1>2 DEF RelInv, LookupInv, MissedBefore, CallsInStep, Required, OfScope, Fresh
<1>3. CASE CallEnds
  <2>1. call # None /\ call' = None /\ answer'.scope = call.scope
    BY <1>3 DEF CallEnds, CallSucceeds, CallFails, Answered
  <2>2. lookup' # None => LookupInv'
    BY <1>1, <2>1 DEF RelInv, LookupInv, MissedBefore, CallsInStep, Required, OfScope, Fresh
  <2>. QED
    BY <1>1, <2>1, <2>2 DEF RelInv, OfScope
<1>. QED
  BY <1>2, <1>3 DEF Surroundings, Tick, InformersSync

\* Screens list kinds only while there is no lookup.
LEMMA ScreensKeep ==
    ASSUME RelInv, ListInv',
           ScreenShows \/ \E s \in Scopes, r \in Resources : ScreenLists(s, r)
    PROVE  RelInv'
<1>1. lookup = None /\ UNCHANGED <<byScope, lookup>>
  BY DEF ScreenShows, ScreenLists
<1>2. answer' = None \/ call' = None
  BY DEF ScreenShows, Show, ScreenLists, Refresh, ListResourcesMeta, AnswerFromListCache,
         AnswerFromInformers, CallCluster
<1>. QED
  BY <1>1, <1>2 DEF RelInv, OfScope

\* Every step of the index, of the screens and of what is around them.
LEMMA RelInvNext == RelInv /\ [RelNext]_relVars => RelInv'
<1>. SUFFICES ASSUME RelInv, [RelNext]_relVars
              PROVE  RelInv'
  OBVIOUS
<1>1. ListInv'
  <2>1. [ListNext]_listVars
    BY RelStepIsListStep
  <2>. QED
    BY <2>1, ListInvNext DEF RelInv
<1>2. CASE UNCHANGED relVars
  BY <1>1, <1>2 DEF relVars, listVars, RelInv, LookupInv, MissedBefore, CallsInStep, Required,
                    OfScope, Fresh
<1>3. CASE LookupStep
  BY <1>1, <1>3, SnapshotForKeeps, FillNextKeeps, FillAnswerKeeps, StoreSnapshotKeeps,
     ListDirectlyKeeps, ListReturnsKeeps DEF LookupStep
<1>. QED
  BY <1>1, <1>2, <1>3, RelatedKeeps, SurroundingsKeep, ScreensKeep DEF RelNext

-----------------------------------------------------------------------------
\* Variables keep their types: no snapshot holds what is not a list, and the index
\* asks for the one or two lists a lookup needs.
THEOREM RelTypeCorrect == RelSpec => []RelTypeOK
<1>1. RelInv => RelTypeOK
  BY DEF RelInv, RelTypeOK, ListInv
<1>. QED
  BY <1>1, RelInvInit, RelInvNext, PTL DEF RelSpec

\* The relation index reads lists as ListSpec allows: it waits for each answer, takes
\* it, and does nothing else to the list path (relation_index_read.go, snapshotFor).
THEOREM IndexKeepsToListPath == RelSpec => ListSpec
<1>1. RelInit => ListInit
  BY DEF RelInit
<1>. QED
  BY <1>1, RelInvInit, RelInvNext, RelStepIsListStep, PTL DEF RelSpec, ListSpec

\* A lookup computes relations from lists of its own scope, whatever scopes were
\* looked up before (relation_index_read.go, relationScopeKey).
THEOREM OwnScopeCorrect == RelSpec => []LookupUsesOwnScope
<1>1. RelInv => LookupUsesOwnScope
  BY DEF RelInv, LookupInv, LookupUsesOwnScope, At, OfScope
<1>. QED
  BY <1>1, RelInvInit, RelInvNext, PTL DEF RelSpec

\* A lookup that needs n lists asks at most n * (n + 1) times, whatever fails or
\* expires (relation_index_read.go, list and snapshotFor).
THEOREM CallsBounded == RelSpec => []CallsPerLookup
<1>1. RelInv => CallsPerLookup
  <2>. SUFFICES ASSUME RelInv, lookup # None
                PROVE  lookup.calls <= Len(Required) * (Len(Required) + 1)
    BY DEF CallsPerLookup
  <2>1. /\ lookup.calls \in Nat /\ lookup.wanted \in 1 .. 2 /\ lookup.wanted <= Len(Required)
        /\ Len(Required) \in 1 .. 2 /\ Len(lookup.missing) \in Nat
    BY RequirementsKnown DEF RelInv, LookupInv, Lookup, Required
  <2>2. CallsInStep <= Len(Required) + 1 /\ CallsInStep \in Int
    <3>1. lookup.step = "filling" => Len(lookup.missing) > 0
      BY DEF RelInv, LookupInv, Lookup
    <3>. DEFINE n == Len(Required)
                m == Len(lookup.missing)
    <3>2. CallsInStep \in {0, n - m, n, n + 1} \/ (m > 0 /\ CallsInStep = n - m + 1)
      BY <3>1 DEF CallsInStep
    <3>3. n \in 1 .. 2 /\ m \in Nat
      BY <2>1
    <3>. HIDE DEF n, m
    <3>4. CallsInStep <= n + 1 /\ CallsInStep \in Int
      BY <3>2, <3>3
    <3>. QED
      BY <3>4 DEF n
  <2>3. lookup.calls <= (lookup.wanted - 1) * (Len(Required) + 1) + CallsInStep
    BY DEF RelInv, LookupInv
  <2>4. CASE Len(Required) = 1
    BY <2>1, <2>2, <2>3, <2>4
  <2>5. CASE Len(Required) = 2
    BY <2>1, <2>2, <2>3, <2>5
  <2>. QED
    BY <2>1, <2>4, <2>5
<1>. QED
  BY <1>1, RelInvInit, RelInvNext, PTL DEF RelSpec

\* No list is asked for that the current snapshot had when the lookup missed it
\* (relation_index_read.go, snapshotFor).
THEOREM AsksOnlyForMissingCorrect == RelSpec => AsksOnlyForMissing
<1>. DEFINE Asks == \A r \in Resources :
                At("fill") /\ lookup'.step = "filling" /\ Head(lookup.missing) = r
                => LET s == byScope[RelationScopeKey(lookup.scope)]
                   IN  ~Fresh(s, lookup.began) \/ s.lists[r] = None
<1>1. RelInv /\ [RelNext]_relVars => [Asks]_relVars
  <2>. SUFFICES ASSUME RelInv, RelNext, lookup # None, lookup.step = "fill",
                       lookup'.step = "filling"
                PROVE  LET s == byScope[RelationScopeKey(lookup.scope)]
                       IN  ~Fresh(s, lookup.began) \/ s.lists[Head(lookup.missing)] = None
    BY DEF At, relVars
  <2>1. MissedBefore /\ lookup.missing \in Seq(Resources) /\ lookup \in Lookup
    BY DEF RelInv, LookupInv, Lookup
  <2>2. lookup.missing # <<>>
    BY <2>1 DEF RelNext, Related, LookupStep, SnapshotFor, FillNext, FillAnswer, StoreSnapshot,
                UseList, ListDirectly, DirectAnswer, ScreenLists, ScreenShows, Surroundings,
                At, Lookup
  <2>3. 1 \in 1 .. Len(lookup.missing) /\ Head(lookup.missing) = lookup.missing[1]
    BY <2>1, <2>2
  <2>. QED
    BY <2>1, <2>3 DEF MissedBefore
<1>. QED
  BY <1>1, RelInvInit, RelInvNext, PTL DEF RelSpec, AsksOnlyForMissing
=============================================================================
