-------------------------- MODULE Navigation_proofs --------------------------
(***************************************************************************)
(* Proofs about Navigation, for any contexts, namespaces and resources,    *)
(* any height of the stack, and any number of bookmarks and of messages on *)
(* their way.                                                              *)
(***************************************************************************)
EXTENDS Navigation, SequenceTheorems, NaturalsInduction, WellFoundedInduction, TLAPS

-----------------------------------------------------------------------------
(* Scope.                                                                  *)

\* What carries both properties of the scope through every key and message: a single
\* namespace on screen is the one remembered, and a bookmark's screen was made in
\* the scope saved with it.
ScopeInv ==
    /\ scope \in Scope
    /\ storeScope = scope
    /\ rootScope = scope
    /\ scope.namespace # AllNamespaces => lastSingleNS = scope.namespace
    /\ lastSingleNS \in Namespaces
    /\ bookmarks = [k \in Slots |-> bookmarks[k]]
    /\ \A k \in Slots : bookmarks[k] # Nil =>
          /\ bookmarks[k].scope \in Scope
          /\ bookmarks[k].screen.scope = bookmarks[k].scope

\* A command leaves the root's scope alone, or makes a new root in the current one.
LEMMA RunCommandScope ==
    ASSUME NEW c \in Commands, rootScope = scope
    PROVE  RunCommand(c).scope = scope
<1>1. Screen.scope = scope
  BY DEF Screen
<1>2. \A r \in Resources : WithList(r).scope = scope
  BY <1>1 DEF WithList, Committed, Pushed, Screen
<1>. QED
  BY <1>1, <1>2 DEF RunCommand, Root, Pushed, Screen, TakenBack, WithList, Committed, Commands

\* What is shown after views are opened and closed over the same root.
LEMMA SameRootScope ==
    /\ Popped(Screen).scope = rootScope
    /\ \A v : Pushed(Screen, v).scope = rootScope
    /\ \A v : Pushed(Committed(Screen), v).scope = rootScope
  BY DEF Popped, TakenBack, Pushed, Committed, Screen

\* The first screen is of the scope the program starts in.
LEMMA ScopeInit == Init => ScopeInv
  BY NavConstantsOK DEF Init, ScopeInv, Scope

\* A switch to a scope keeps the invariant if what key 0 comes back to fits it.
LEMMA ScopeSwitched ==
    ASSUME ScopeInv, NEW sc \in Scope, SwitchScope(sc), UNCHANGED bookmarks,
           lastSingleNS' \in Namespaces,
           sc.namespace # AllNamespaces => lastSingleNS' = sc.namespace
    PROVE  ScopeInv'
  BY DEF ScopeInv, SwitchScope, Show, Root

\* What is remembered of a scope is its namespace or what was remembered before.
LEMMA RememberedNamespace ==
    ASSUME lastSingleNS \in Namespaces, NEW sc \in Scope
    PROVE  /\ Remembered(sc.namespace) \in Namespaces
           /\ sc.namespace # AllNamespaces => Remembered(sc.namespace) = sc.namespace
  BY DEF Remembered, Scope

\* Every key and every message keeps the invariant.
LEMMA ScopeNext == ScopeInv /\ [Next]_vars => ScopeInv'
<1>. SUFFICES ASSUME ScopeInv, [Next]_vars
              PROVE  ScopeInv'
  OBVIOUS
<1>. USE NavConstantsOK
<1>1. CASE Back \/ OpenHelp \/ JumpToPodOwner \/ ViewPushes
  <2>1. rootScope' = rootScope /\ UNCHANGED <<scope, storeScope, lastSingleNS, bookmarks>>
    BY <1>1, SameRootScope
       DEF Back, OpenHelp, JumpToPodOwner, ViewPushes, Show, scopeVars, markVars
  <2>. QED
    BY <2>1 DEF ScopeInv
<1>2. CASE OpenBrowser \/ \E r \in Resources : OpenResource(r)
  BY <1>2 DEF OpenBrowser, OpenResource, Show, Root, ScopeInv, scopeVars, markVars
<1>3. CASE ToggleAllNamespaces
  <2>. DEFINE ns == IF scope.namespace = AllNamespaces THEN lastSingleNS ELSE AllNamespaces
              sc == [storeScope EXCEPT !.namespace = ns]
  <2>1. sc \in Scope /\ sc.namespace = ns
    BY DEF ScopeInv, Scope
  <2>2. SwitchScope(sc) /\ lastSingleNS' = Remembered(scope.namespace) /\ UNCHANGED bookmarks
    BY <1>3 DEF ToggleAllNamespaces, markVars
  <2>3. lastSingleNS' \in Namespaces
    BY <2>2, RememberedNamespace DEF ScopeInv
  <2>4. ns # AllNamespaces => lastSingleNS' = ns
    BY <2>2 DEF Remembered
  <2>5. UNCHANGED bookmarks /\ sc.namespace # AllNamespaces => lastSingleNS' = sc.namespace
    BY <2>1, <2>2, <2>4
  <2>. HIDE DEF ns, sc
  <2>. QED
    BY <2>1, <2>2, <2>3, <2>5, ScopeSwitched
<1>4. ASSUME NEW k \in Slots, SetBookmark(k)
      PROVE  ScopeInv'
  BY <1>4 DEF SetBookmark, ScopeInv, Screen, screenVars, scopeVars
<1>5. ASSUME NEW k \in Slots, JumpToBookmark(k)
      PROVE  ScopeInv'
  <2>1. bookmarks[k].scope \in Scope /\ bookmarks[k].screen.scope = bookmarks[k].scope
    BY <1>5 DEF JumpToBookmark, ScopeInv
  <2>2. lastSingleNS \in Namespaces
    BY DEF ScopeInv
  <2>3. /\ lastSingleNS' \in Namespaces
        /\ bookmarks[k].scope.namespace # AllNamespaces => lastSingleNS' = bookmarks[k].scope.namespace
    BY <1>5, <2>1, <2>2, RememberedNamespace DEF JumpToBookmark, BookmarkScope
  <2>. QED
    BY <1>5, <2>1, <2>3 DEF JumpToBookmark, BookmarkScope, Show, ScopeInv, markVars
<1>6. CASE Deliver
  <2>1. ASSUME NEW c \in Commands, Submitted(c)
        PROVE  ScopeInv'
    <3>1. rootScope' = scope
      BY <2>1, RunCommandScope DEF Submitted, Show, ScopeInv
    <3>. QED
      BY <2>1, <3>1 DEF Submitted, ScopeInv, scopeVars, markVars
  <2>2. CASE RelatedSelected
    <3>1. rootScope' = rootScope
      BY <2>2, SameRootScope DEF RelatedSelected, Show
    <3>. QED
      BY <2>2, <3>1 DEF RelatedSelected, ScopeInv, scopeVars, markVars
  <2>3. ASSUME NEW kind, NEW sc \in Offered(kind), ScopeSelected(sc)
        PROVE  ScopeInv'
    <3>1. sc \in Scope
      BY <2>3 DEF Offered, Scope, ScopeInv
    <3>. QED
      BY <2>3, <3>1, ScopeSwitched, RememberedNamespace DEF ScopeSelected, ScopeInv, markVars
  <2>. QED
    BY <1>6, <2>1, <2>2, <2>3 DEF Deliver
<1>7. CASE \/ OpenCommandBar \/ Quit \/ OpenRelatedPicker \/ StartBookmark \/ LeaveBookmarkMode
           \/ \E kind \in {"namespace", "context"} : OpenScopePicker(kind)
           \/ ClosePicker \/ PickScope \/ PickRelated \/ CloseBar \/ Submit
           \/ UNCHANGED vars
  <2>1. UNCHANGED <<scope, storeScope, rootScope, lastSingleNS, bookmarks>>
    BY <1>7 DEF OpenCommandBar, Quit, OpenRelatedPicker, StartBookmark, LeaveBookmarkMode,
                OpenScopePicker, ClosePicker, PickScope, PickRelated, CloseBar, Submit,
                vars, screenVars, scopeVars, markVars
  <2>. QED
    BY <2>1 DEF ScopeInv
<1>. QED
  BY <1>1, <1>2, <1>3, <1>4, <1>5, <1>6, <1>7 DEF Next

\* The list at the bottom of the stack is of the scope on screen, which is the store's
\* (app.go: every path that changes a scope, a root, or both).
THEOREM RootCorrect == Spec => []RootIsOfStoreScope
<1>1. ScopeInv => RootIsOfStoreScope
  BY DEF ScopeInv, RootIsOfStoreScope
<1>. QED
  BY <1>1, ScopeInit, ScopeNext, PTL DEF Spec

\* However all namespaces are reached, key 0 comes back (app.go,
\* toggleAllNamespaces and rememberSingleNamespace).
THEOREM ToggleReturns == Spec => ZeroComesBack
<1>1. ScopeInv /\ ScopeInv' /\ [Next]_vars =>
        [scope'.namespace = AllNamespaces /\ scope.namespace # AllNamespaces
           => lastSingleNS' = scope.namespace]_vars
  <2>. SUFFICES ASSUME ScopeInv, [Next]_vars, scope'.namespace = AllNamespaces,
                       scope.namespace # AllNamespaces
                PROVE  lastSingleNS' = scope.namespace
    OBVIOUS
  <2>1. lastSingleNS = scope.namespace
    BY DEF ScopeInv
  <2>2. CASE ToggleAllNamespaces
    BY <2>2 DEF ToggleAllNamespaces, Remembered
  <2>3. ASSUME NEW k \in Slots, JumpToBookmark(k)
        PROVE  lastSingleNS' = scope.namespace
    BY <2>1, <2>3 DEF JumpToBookmark, Remembered
  <2>4. CASE Deliver
    <3>1. ASSUME NEW sc, ScopeSelected(sc)
          PROVE  lastSingleNS' = scope.namespace
      BY <2>1, <3>1 DEF ScopeSelected, SwitchScope, Remembered
    <3>2. CASE RelatedSelected
      BY <3>2, <2>1 DEF RelatedSelected, scopeVars
    <3>3. ASSUME NEW c, Submitted(c)
          PROVE  lastSingleNS' = scope.namespace
      BY <3>3, <2>1 DEF Submitted, scopeVars
    <3>. QED
      BY <2>4, <3>1, <3>2, <3>3 DEF Deliver
  <2>5. CASE UNCHANGED scope
    BY <2>5
  <2>. QED
    BY <2>2, <2>3, <2>4, <2>5
       DEF Next, vars, scopeVars, OpenCommandBar, Quit, Back, OpenBrowser, OpenHelp,
           JumpToPodOwner, OpenRelatedPicker, ViewPushes, OpenScopePicker, OpenResource,
           StartBookmark, LeaveBookmarkMode, SetBookmark, ClosePicker, PickScope,
           PickRelated, CloseBar, Submit
<1>. QED
  BY <1>1, ScopeInit, ScopeNext, PTL DEF Spec, ZeroComesBack

-----------------------------------------------------------------------------
(* Keys.                                                                   *)

\* The scope picker, the related picker and the command bar never wait for keys
\* together (app.go, routeActiveOverlays and routeCommandBar).
THEOREM OneTakesKeysCorrect == Spec => []OneTakesKeys
<1>1. Init => OneTakesKeys
  BY DEF Init, OneTakesKeys
<1>2. OneTakesKeys /\ [Next]_vars => OneTakesKeys'
  <2>. SUFFICES ASSUME OneTakesKeys, [Next]_vars
                PROVE  OneTakesKeys'
    OBVIOUS
  <2>1. CASE Deliver
    BY <2>1 DEF Deliver, OneTakesKeys, Submitted, RelatedSelected, ScopeSelected
  <2>2. CASE ClosePicker \/ PickScope \/ PickRelated \/ CloseBar \/ Submit
    BY <2>2 DEF OneTakesKeys, ClosePicker, PickScope, PickRelated, CloseBar, Submit, inputVars
  <2>3. CASE \/ OpenCommandBar \/ OpenRelatedPicker
             \/ \E kind \in {"namespace", "context"} : OpenScopePicker(kind)
    BY <2>3 DEF OneTakesKeys, OpenCommandBar, OpenRelatedPicker, OpenScopePicker,
                KeysAct, KeysReachApp, PickerOpen
  <2>4. CASE UNCHANGED inputVars
    BY <2>4 DEF OneTakesKeys, inputVars
  <2>. QED
    BY <2>1, <2>2, <2>3, <2>4
       DEF Next, vars, Quit, Back, OpenBrowser, OpenHelp, JumpToPodOwner, ViewPushes,
           OpenResource, ToggleAllNamespaces, StartBookmark, LeaveBookmarkMode,
           SetBookmark, JumpToBookmark
<1>. QED
  BY <1>1, <1>2, PTL DEF Spec

-----------------------------------------------------------------------------
(* Screens.                                                                *)

\* A screen whose stack is not empty and whose crumbs name its views.
GoodScreen(s) ==
    /\ s \in [stack : Seq(View), crumbs : Seq(Names \cup {"query"}), scope : Scope]
    /\ Len(s.stack) > 0
    /\ CrumbsName(s)

\* One view with its crumb is a good screen (app.go, switchStore and openResource).
LEMMA RootGood ==
    ASSUME NEW v \in View, NEW sc \in Scope
    PROVE  GoodScreen(Root(v, sc)) /\ Len(Root(v, sc).stack) = 1
  BY DEF GoodScreen, Root, CrumbsName, View

\* A push adds a view and its crumb (app.go, pushView).
LEMMA PushedGood ==
    ASSUME NEW s, GoodScreen(s), NEW v \in View
    PROVE  /\ GoodScreen(Pushed(s, v))
           /\ Len(Pushed(s, v).stack) = Len(s.stack) + 1
<1>. DEFINE N == Names \cup {"query"}
<1>1. s.stack \in Seq(View) /\ s.crumbs \in Seq(N) /\ v.alias \in N
  BY DEF GoodScreen, View
<1>2. /\ Pushed(s, v).stack = Append(s.stack, v)
      /\ Pushed(s, v).crumbs = Append(s.crumbs, v.alias)
      /\ Pushed(s, v).scope = s.scope
      /\ Pushed(s, v) \in [stack : Seq(View), crumbs : Seq(N), scope : Scope]
  BY <1>1, AppendProperties DEF Pushed, GoodScreen
<1>3. CrumbsName(Pushed(s, v))
  BY <1>1, <1>2, AppendProperties DEF CrumbsName, GoodScreen
<1>. QED
  BY <1>1, <1>2, <1>3, AppendProperties DEF GoodScreen

\* The top crumb becomes the name of the top view (app.go, commitCrumb).
LEMMA CommittedGood ==
    ASSUME NEW s, GoodScreen(s)
    PROVE  GoodScreen(Committed(s)) /\ Committed(s).stack = s.stack
<1>. DEFINE N == Names \cup {"query"}
            n == Len(s.stack)
<1>1. s.stack \in Seq(View) /\ s.crumbs \in Seq(N) /\ Len(s.crumbs) = n /\ n \in Nat \ {0}
  BY DEF GoodScreen, CrumbsName
<1>2. s.stack[n].name \in N
  <2>1. s.stack[n] \in View
    BY <1>1, ElementOfSeq
  <2>. QED
    BY <2>1 DEF View
<1>3. /\ Committed(s).stack = s.stack
      /\ Committed(s).crumbs = [s.crumbs EXCEPT ![n] = s.stack[n].name]
      /\ Committed(s).scope = s.scope
  BY <1>1 DEF Committed, Last, GoodScreen
<1>4. Committed(s).crumbs \in Seq(N) /\ Len(Committed(s).crumbs) = n
  BY <1>1, <1>2, <1>3, ExceptSeq
<1>5. \A i \in 1 .. n : Committed(s).crumbs[i] \in {s.stack[i].name, s.stack[i].alias}
  BY <1>1, <1>3 DEF GoodScreen, CrumbsName
<1>6. Committed(s) \in [stack : Seq(View), crumbs : Seq(N), scope : Scope]
  BY <1>1, <1>3, <1>4 DEF Committed, GoodScreen
<1>. QED
  BY <1>1, <1>3, <1>4, <1>5, <1>6 DEF GoodScreen, CrumbsName

\* The top view and its crumb go together (app.go, runCommand and popView).
LEMMA TakenBackGood ==
    ASSUME NEW s, GoodScreen(s), Len(s.stack) > 1
    PROVE  /\ GoodScreen(TakenBack(s))
           /\ Len(TakenBack(s).stack) = Len(s.stack) - 1
<1>. DEFINE N == Names \cup {"query"}
            n == Len(s.stack)
<1>1. s.stack \in Seq(View) /\ s.crumbs \in Seq(N) /\ Len(s.crumbs) = n /\ n \in Nat /\ n > 1
  BY DEF GoodScreen, CrumbsName
<1>2. /\ TakenBack(s).stack = SubSeq(s.stack, 1, n - 1)
      /\ TakenBack(s).crumbs = SubSeq(s.crumbs, 1, n - 1)
      /\ TakenBack(s).scope = s.scope
  BY <1>1 DEF TakenBack, Front, GoodScreen
<1>3. /\ SubSeq(s.stack, 1, n - 1) \in Seq(View)
      /\ Len(SubSeq(s.stack, 1, n - 1)) = n - 1
      /\ \A i \in 1 .. n - 1 : SubSeq(s.stack, 1, n - 1)[i] = s.stack[i]
  BY <1>1
<1>4. /\ SubSeq(s.crumbs, 1, n - 1) \in Seq(N)
      /\ Len(SubSeq(s.crumbs, 1, n - 1)) = n - 1
      /\ \A i \in 1 .. n - 1 : SubSeq(s.crumbs, 1, n - 1)[i] = s.crumbs[i]
  BY <1>1
<1>5. TakenBack(s) \in [stack : Seq(View), crumbs : Seq(N), scope : Scope]
  BY <1>1, <1>2, <1>3, <1>4 DEF TakenBack, GoodScreen
<1>6. CrumbsName(TakenBack(s))
  BY <1>1, <1>2, <1>3, <1>4 DEF GoodScreen, CrumbsName
<1>. QED
  BY <1>1, <1>2, <1>3, <1>5, <1>6 DEF GoodScreen

\* A pop leaves a good screen, and the root (app.go, popView).
LEMMA PoppedGood ==
    ASSUME NEW s, GoodScreen(s)
    PROVE  GoodScreen(Popped(s)) /\ Len(Popped(s).stack) <= Len(s.stack)
<1>. DEFINE n == Len(s.stack)
<1>1. n \in Nat \ {0}
  BY DEF GoodScreen
<1>2. CASE n = 1
  <2>1. Popped(s) = s
    BY <1>2, Zenon DEF Popped
  <2>2. n <= n
    <3>. HIDE DEF n
    <3>. QED
      BY <1>1
  <2>. QED
    BY <2>1, <2>2, Zenon
<1>3. CASE n # 1
  <2>1. Popped(s) = Committed(TakenBack(s))
    BY <1>3, Zenon DEF Popped
  <2>2. n > 1
    <3>. HIDE DEF n
    <3>. QED
      BY <1>1, <1>3
  <2>3. GoodScreen(TakenBack(s)) /\ Len(TakenBack(s).stack) = n - 1
    BY <2>2, TakenBackGood
  <2>4. GoodScreen(Popped(s)) /\ Popped(s).stack = TakenBack(s).stack
    BY <2>1, <2>3, CommittedGood, Zenon
  <2>. QED
    BY <1>1, <2>3, <2>4
<1>. QED
  BY <1>2, <1>3, Zenon

\* The views navigation opens are views.
LEMMA ViewsGood ==
    /\ \A r \in Resources : ListOf(r) \in View /\ QueryList(r) \in View /\ Relation(r) \in View
    /\ \A n \in Names : ListOf(n) \in View
    /\ Browser \in View /\ Text \in View
    /\ \A crumb \in Names \cup {"query"} : Help(crumb) \in View
  BY DEF View, Names, ListOf, QueryList, Relation, Browser, Text, Help

\* A set of places in the stack that is not empty has a topmost one: the distance
\* from the top has a least value.
LEMMA TopmostExists ==
    ASSUME NEW n \in Nat, NEW T, T \subseteq 1 .. n, T # {}
    PROVE  Max(T) \in T
<1>. DEFINE D == {n - i : i \in T}
<1>1. D \subseteq Nat /\ D # {}
  OBVIOUS
<1>2. PICK d \in D : \A e \in D : ~ (<<e, d>> \in OpToRel(<, Nat))
  BY <1>1, NatLessThanWellFounded, WFMin
<1>3. \A e \in D : ~ (e < d)
  BY <1>1, <1>2 DEF OpToRel
<1>4. PICK t \in T : d = n - t
  OBVIOUS
<1>5. \A i \in T : t >= i
  BY <1>3, <1>4
<1>. QED
  BY <1>5 DEF Max

\* A scope switch makes a list of a known name the root (viewstate.go,
\* bestResourceForScope).
LEMMA BestResourceKnown ==
    ASSUME stack \in Seq(View)
    PROVE  BestResource \in Names
<1>. DEFINE lists == {i \in DOMAIN stack : stack[i].kind = "list"}
<1>1. CASE lists = {}
  BY <1>1, NavConstantsOK DEF BestResource, Names
<1>2. CASE lists # {}
  <2>1. lists \subseteq 1 .. Len(stack) /\ Len(stack) \in Nat
    OBVIOUS
  <2>2. Max(lists) \in lists
    BY <1>2, <2>1, TopmostExists
  <2>3. stack[Max(lists)] \in View
    BY <2>2, ElementOfSeq
  <2>. QED
    BY <1>2, <2>3 DEF BestResource, View
<1>. QED
  BY <1>1, <1>2

\* A list with an item selected is on top of a good screen (app.go, runCommand).
LEMMA WithListGood ==
    ASSUME GoodScreen(Screen), NEW r \in Resources
    PROVE  GoodScreen(WithList(r))
  BY ViewsGood, PushedGood, CommittedGood DEF WithList

\* Whatever a command opens, replaces or takes back (app.go, runCommand).
LEMMA RunCommandGood ==
    ASSUME GoodScreen(Screen), scope \in Scope, NEW c \in Commands
    PROVE  GoodScreen(RunCommand(c))
<1>1. CASE c.of \in Resources
  <2>. DEFINE r == c.of
              l == Pushed(WithList(r), Text)
  <2>1. GoodScreen(Pushed(Screen, QueryList(r))) /\ GoodScreen(Pushed(Screen, ListOf(r)))
    BY <1>1, ViewsGood, PushedGood
  <2>2. GoodScreen(Root(ListOf(r), scope))
    BY <1>1, ViewsGood, RootGood
  <2>3. GoodScreen(WithList(r))
    BY <1>1, WithListGood
  <2>4. GoodScreen(l) /\ Len(l.stack) = Len(WithList(r).stack) + 1
    BY <2>3, ViewsGood, PushedGood
  <2>5. GoodScreen(Pushed(l, Text))
    BY <2>4, ViewsGood, PushedGood
  <2>6. Len(l.stack) > 1
    <3>1. Len(WithList(r).stack) \in Nat \ {0}
      BY <2>3 DEF GoodScreen
    <3>. QED
      BY <2>4, <3>1
  <2>7. GoodScreen(TakenBack(l))
    BY <2>4, <2>6, TakenBackGood
  <2>. QED
    BY <2>1, <2>2, <2>3, <2>4, <2>5, <2>7 DEF RunCommand
<1>2. CASE c.form \in {"empty", "quit", "unknown"}
  BY <1>2 DEF RunCommand
<1>. QED
  BY <1>1, <1>2 DEF Commands

\* What is shown is what was built.
LEMMA ShownGood ==
    ASSUME NEW s, GoodScreen(s), Len(s.stack) <= MaxDepth, Show(s)
    PROVE  GoodScreen(Screen)' /\ Len(stack') <= MaxDepth
<1>1. s = [stack |-> s.stack, crumbs |-> s.crumbs, scope |-> s.scope]
  BY DEF GoodScreen
<1>2. Screen' = s
  BY <1>1 DEF Show, Screen
<1>3. GoodScreen(Screen)' <=> GoodScreen(Screen')
  BY DEF GoodScreen, CrumbsName, Screen
<1>. QED
  BY <1>2, <1>3 DEF Show

\* The screen shown and every screen saved are good and not too high.
ScreenInv ==
    /\ GoodScreen(Screen) /\ Len(stack) <= MaxDepth
    /\ bookmarks = [k \in Slots |-> bookmarks[k]]
    /\ \A k \in Slots : bookmarks[k] # Nil =>
          GoodScreen(bookmarks[k].screen) /\ Len(bookmarks[k].screen.stack) <= MaxDepth

\* A step that shows a good screen and saves none keeps the invariant.
LEMMA ScreenShown ==
    ASSUME ScreenInv, NEW s, GoodScreen(s), Len(s.stack) <= MaxDepth, Show(s),
           UNCHANGED bookmarks
    PROVE  ScreenInv'
<1>1. GoodScreen(Screen)' /\ Len(stack') <= MaxDepth
  BY ShownGood
<1>. QED
  BY <1>1 DEF ScreenInv, GoodScreen, CrumbsName

\* The first screen is a list of workloads.
LEMMA ScreenInit == Init => ScreenInv
<1>. SUFFICES ASSUME Init
              PROVE  ScreenInv
  OBVIOUS
<1>1. Workloads \in Resources /\ rootScope \in Scope
  BY NavConstantsOK DEF Init, Scope
<1>2. Screen = Root(ListOf(Workloads), rootScope)
  BY DEF Init, Screen, Root, ListOf
<1>3. GoodScreen(Screen) /\ Len(Screen.stack) = 1
  BY <1>1, <1>2, RootGood, ViewsGood
<1>. QED
  BY <1>3, NavConstantsOK DEF Init, ScreenInv, Screen

\* Every key and every message keeps the screens good.
LEMMA ScreenNext == ScopeInv /\ ScopeInv' /\ ScreenInv /\ [Next]_vars => ScreenInv'
<1>. SUFFICES ASSUME ScopeInv, ScopeInv', ScreenInv, [Next]_vars
              PROVE  ScreenInv'
  OBVIOUS
<1>1. GoodScreen(Screen) /\ Len(stack) \in Nat \ {0} /\ Len(stack) <= MaxDepth
  BY DEF ScreenInv, GoodScreen, Screen
<1>2. Screen.stack = stack /\ Screen.crumbs = crumbs
  BY DEF Screen
<1>3. ASSUME NEW v \in View, NEW sc \in Scope, Show(Root(v, sc)), UNCHANGED bookmarks
      PROVE  ScreenInv'
  <2>1. GoodScreen(Root(v, sc)) /\ Len(Root(v, sc).stack) = 1
    BY RootGood
  <2>2. Len(Root(v, sc).stack) <= MaxDepth
    BY <2>1, NavConstantsOK
  <2>. QED
    BY <1>3, <2>1, <2>2, ScreenShown
<1>4. ASSUME NEW v \in View, NEW s \in {Screen, Committed(Screen)}, Len(stack) < MaxDepth,
             Show(Pushed(s, v)), UNCHANGED bookmarks
      PROVE  ScreenInv'
  <2>1. GoodScreen(s) /\ s.stack = stack
    BY <1>1, <1>2, <1>4, CommittedGood
  <2>2. GoodScreen(Pushed(s, v)) /\ Len(Pushed(s, v).stack) = Len(stack) + 1
    BY <2>1, PushedGood
  <2>3. Len(Pushed(s, v).stack) <= MaxDepth
    BY <1>1, <1>4, <2>2, NavConstantsOK
  <2>. QED
    BY <1>4, <2>2, <2>3, ScreenShown
<1>5. CASE Back
  BY <1>1, <1>2, <1>5, PoppedGood, ScreenShown, NavConstantsOK DEF Back, markVars
<1>6. CASE OpenBrowser \/ \E r \in Resources : OpenResource(r)
  BY <1>3, <1>6, ViewsGood DEF OpenBrowser, OpenResource, ScopeInv, markVars
<1>7. CASE OpenHelp
  <2>1. Last(crumbs) \in Names \cup {"query"}
    BY <1>1, <1>2, ElementOfSeq DEF Last, GoodScreen, CrumbsName
  <2>. QED
    BY <1>4, <1>7, <2>1, ViewsGood DEF OpenHelp, markVars
<1>8. CASE JumpToPodOwner \/ ViewPushes
  BY <1>4, <1>8, ViewsGood, NavConstantsOK DEF JumpToPodOwner, ViewPushes, markVars
<1>9. ASSUME NEW sc \in Scope, SwitchScope(sc), UNCHANGED bookmarks
      PROVE  ScreenInv'
  <2>1. BestResource \in Names
    BY BestResourceKnown DEF ScreenInv, GoodScreen, Screen
  <2>. QED
    BY <1>3, <1>9, <2>1, ViewsGood DEF SwitchScope
<1>10. CASE ToggleAllNamespaces
  <2>1. \E sc : SwitchScope(sc) /\ sc = scope'
    BY <1>10 DEF ToggleAllNamespaces, SwitchScope
  <2>. QED
    BY <1>9, <1>10, <2>1 DEF ToggleAllNamespaces, ScopeInv, markVars
<1>11. ASSUME NEW k \in Slots, SetBookmark(k)
       PROVE  ScreenInv'
  <2>1. GoodScreen(Screen)' /\ Len(stack') <= MaxDepth
    BY <1>1, <1>11 DEF SetBookmark, screenVars, GoodScreen, CrumbsName, Screen
  <2>2. bookmarks' = [bookmarks EXCEPT ![k] = [screen |-> Screen, scope |-> scope]]
    BY <1>11 DEF SetBookmark
  <2>3. \A j \in Slots : bookmarks'[j] # Nil =>
          GoodScreen(bookmarks'[j].screen) /\ Len(bookmarks'[j].screen.stack) <= MaxDepth
    <3>. TAKE j \in Slots
    <3>1. CASE j = k
      BY <1>1, <1>2, <2>2, <3>1 DEF ScreenInv
    <3>2. CASE j # k
      BY <2>2, <3>2 DEF ScreenInv
    <3>. QED
      BY <3>1, <3>2
  <2>4. bookmarks' = [j \in Slots |-> bookmarks'[j]]
    BY <2>2 DEF ScreenInv
  <2>. QED
    BY <2>1, <2>3, <2>4 DEF ScreenInv, GoodScreen, CrumbsName
<1>12. ASSUME NEW k \in Slots, JumpToBookmark(k)
       PROVE  ScreenInv'
  <2>1. GoodScreen(bookmarks[k].screen) /\ Len(bookmarks[k].screen.stack) <= MaxDepth
    BY <1>12 DEF JumpToBookmark, ScreenInv
  <2>2. Show(bookmarks[k].screen) /\ UNCHANGED bookmarks
    BY <1>12 DEF JumpToBookmark, markVars
  <2>. QED
    BY <2>1, <2>2, ScreenShown
<1>13. CASE Deliver
  <2>1. ASSUME NEW c \in Commands, Submitted(c)
        PROVE  ScreenInv'
    BY <1>1, <2>1, RunCommandGood, ScreenShown DEF Submitted, ScopeInv, markVars
  <2>2. CASE RelatedSelected
    BY <1>4, <2>2, ViewsGood DEF RelatedSelected, markVars
  <2>3. ASSUME NEW sc, ScopeSelected(sc)
        PROVE  ScreenInv'
    BY <1>9, <2>3 DEF ScopeSelected, SwitchScope, ScopeInv, markVars
  <2>. QED
    BY <1>13, <2>1, <2>2, <2>3 DEF Deliver
<1>14. CASE UNCHANGED <<screenVars, bookmarks>>
  BY <1>14 DEF ScreenInv, screenVars, GoodScreen, CrumbsName, Screen
<1>. QED
  BY <1>5, <1>6, <1>7, <1>8, <1>10, <1>11, <1>12, <1>13, <1>14
     DEF Next, vars, markVars, OpenCommandBar, Quit, OpenScopePicker, OpenRelatedPicker,
         StartBookmark, LeaveBookmarkMode, ClosePicker, PickScope, PickRelated, CloseBar,
         Submit

\* Every view on screen or in a bookmark has one crumb, that names it (app.go: stack
\* and crumbs change separately on every path).
THEOREM CrumbsCorrect == Spec => []CrumbsNameViews
<1>1. ScreenInv => CrumbsNameViews
  BY DEF ScreenInv, CrumbsNameViews, GoodScreen
<1>. QED
  BY <1>1, ScopeInit, ScopeNext, ScreenInit, ScreenNext, PTL DEF Spec

\* What waits for keys and what is on its way.
InputsOK ==
    /\ bookmarkMode \in BOOLEAN /\ relatedPicker \in BOOLEAN /\ cmdBar \in BOOLEAN
    /\ overlay \in {Nil, "namespace", "context"}
    /\ inbox \in Seq(Messages) /\ Len(inbox) <= MaxInFlight
    /\ running \in {"running", "quit", "panicked"}

\* Every key and every message keeps the inputs well typed.
LEMMA InputsNext == InputsOK /\ [Next]_vars => InputsOK'
<1>. SUFFICES ASSUME InputsOK, [Next]_vars
              PROVE  InputsOK'
  OBVIOUS
<1>1. ASSUME NEW m \in Messages, Send(m)
      PROVE  inbox' \in Seq(Messages) /\ Len(inbox') <= MaxInFlight
  BY <1>1, NavConstantsOK DEF Send, InputsOK
<1>2. CASE PickScope \/ PickRelated \/ Submit
  BY <1>1, <1>2 DEF PickScope, PickRelated, Submit, InputsOK, Messages, markVars, inputVars
<1>3. CASE Deliver
  <2>1. PICK i \in DOMAIN inbox : inbox' = RemoveAt(inbox, i)
    BY <1>3 DEF Deliver
  <2>2. inbox \in Seq(Messages) /\ Len(inbox) \in Nat /\ i \in 1 .. Len(inbox)
    BY <2>1 DEF InputsOK
  <2>. DEFINE a == SubSeq(inbox, 1, i - 1)
              b == SubSeq(inbox, i + 1, Len(inbox))
  <2>3. a \in Seq(Messages) /\ Len(a) = i - 1
    BY <2>2
  <2>4. b \in Seq(Messages) /\ Len(b) = Len(inbox) - i
    BY <2>2
  <2>5. inbox' = a \o b
    BY <2>1 DEF RemoveAt
  <2>6. inbox' \in Seq(Messages) /\ Len(inbox') = Len(inbox) - 1
    <3>. HIDE DEF a, b
    <3>. QED
      BY <2>2, <2>3, <2>4, <2>5, ConcatProperties
  <2>7. Len(inbox') <= MaxInFlight
    BY <2>2, <2>6, NavConstantsOK DEF InputsOK
  <2>8. /\ bookmarkMode' \in BOOLEAN /\ relatedPicker' \in BOOLEAN /\ cmdBar' \in BOOLEAN
        /\ overlay' \in {Nil, "namespace", "context"}
        /\ running' \in {"running", "quit", "panicked"}
    BY <1>3 DEF Deliver, Submitted, RelatedSelected, ScopeSelected, InputsOK, markVars
  <2>. QED
    BY <2>6, <2>7, <2>8 DEF InputsOK
<1>4. CASE \/ OpenCommandBar \/ Quit \/ OpenRelatedPicker \/ StartBookmark \/ LeaveBookmarkMode
           \/ \E kind \in {"namespace", "context"} : OpenScopePicker(kind)
           \/ \E k \in Slots : SetBookmark(k)
           \/ ClosePicker \/ CloseBar
  BY <1>4 DEF OpenCommandBar, Quit, OpenRelatedPicker, StartBookmark, LeaveBookmarkMode,
              OpenScopePicker, SetBookmark, ClosePicker, CloseBar, InputsOK, markVars, inputVars
<1>5. CASE UNCHANGED <<bookmarkMode, inputVars, inbox, running>>
  BY <1>5 DEF InputsOK, inputVars
<1>. QED
  BY <1>2, <1>3, <1>4, <1>5
     DEF Next, vars, markVars, Back, OpenBrowser, OpenHelp, JumpToPodOwner, ViewPushes,
         OpenResource, ToggleAllNamespaces, JumpToBookmark

\* Every variable has its type, the stack is never empty nor above its bound, and
\* no more messages are on their way than the bound allows.
THEOREM TypeCorrect == Spec => []TypeOK
<1>1. Init => InputsOK
  <2>1. Init => inbox \in Seq(Messages) /\ Len(inbox) <= MaxInFlight
    BY NavConstantsOK DEF Init
  <2>. QED
    BY <2>1, Zenon DEF Init, InputsOK
<1>2. ScopeInv /\ ScreenInv /\ InputsOK => TypeOK
  <2>. SUFFICES ASSUME ScopeInv, ScreenInv, InputsOK
                PROVE  TypeOK
    OBVIOUS
  <2>1. ASSUME NEW s, GoodScreen(s), Len(s.stack) <= MaxDepth
        PROVE  ScreenOK(s)
    BY <2>1, NavConstantsOK DEF GoodScreen, ScreenOK
  <2>2. ScreenOK(Screen)
    BY <2>1 DEF ScreenInv, Screen
  <2>3. \A k \in Slots : bookmarks[k] # Nil => ScreenOK(bookmarks[k].screen)
    BY <2>1 DEF ScreenInv
  <2>. QED
    BY <2>2, <2>3 DEF TypeOK, ScopeInv, InputsOK
<1>. QED
  BY <1>1, <1>2, InputsNext, ScopeInit, ScopeNext, ScreenInit, ScreenNext, PTL DEF Spec
=============================================================================
