----------------------------- MODULE Navigation -----------------------------
(***************************************************************************)
(* The application model (internal/app): the view stack with its           *)
(* breadcrumbs, the scope, bookmarks, pickers and the command bar, over a  *)
(* cluster store.                                                          *)
(*                                                                         *)
(* Every action is one Update of the event loop.  A key goes to the scope  *)
(* picker or related picker that is open, else to the command bar, else to *)
(* the application and the view on top.  Enter in a picker or in the bar   *)
(* does not act: it starts a command whose message comes back later, and   *)
(* keys typed meanwhile come first.                                        *)
(*                                                                         *)
(* A view is what navigation sees of it: its kind, its breadcrumb name and *)
(* the crumb it is opened with (alias).  What was typed or chosen is       *)
(* settled when its message arrives, as nothing looks at it before; what a *)
(* name in a command matches, and which item is selected, is a choice of   *)
(* the environment.                                                        *)
(***************************************************************************)
EXTENDS Integers, SequencesExt

CONSTANTS
    Contexts,          \* contexts of the kubeconfig
    Namespaces,        \* namespaces
    AllNamespaces,     \* the name that stands for all of them
    Resources,         \* registered resources, and so names of lists
    Workloads,         \* the one shown first, key W
    Pods,              \* the one from which J finds an owner
    Nil,               \* nil
    Slots,             \* bookmark slots (1..9 in the code)
    MaxDepth,          \* bound: height of the view stack
    MaxMarked,         \* bound: height of a stack that is bookmarked
    MaxInFlight        \* bound: messages on their way to the event loop

ASSUME NavConstantsOK ==
    /\ AllNamespaces \notin Namespaces
    /\ {Workloads, Pods} \subseteq Resources
    /\ Nil \notin Contexts \cup Namespaces \cup {AllNamespaces}
    /\ {"resources", "help", "text", "query"} \cap Resources = {}
    /\ MaxDepth \in Nat \ {0} /\ MaxInFlight \in Nat

VARIABLES
    stack, crumbs,     \* the views, root first, and the breadcrumb of each
    rootScope,         \* the scope the root was opened in
    scope,             \* context and namespace of the application
    storeScope,        \* the scope the store reads in
    lastSingleNS,      \* the namespace key 0 comes back to
    bookmarks,         \* screen and scope of each slot, or Nil
    bookmarkMode,      \* the next key names a slot
    overlay,           \* Nil, or what the scope picker lists
    relatedPicker, cmdBar,   \* open or nil
    inbox,             \* messages of commands, in no particular order
    running            \* "running", "quit", or "panicked"

screenVars == <<stack, crumbs, rootScope>>
scopeVars  == <<scope, storeScope, lastSingleNS>>
markVars   == <<bookmarks, bookmarkMode>>
inputVars  == <<overlay, relatedPicker, cmdBar>>
vars == <<screenVars, scopeVars, markVars, inputVars, inbox, running>>

-----------------------------------------------------------------------------
Scope == [context : Contexts, namespace : Namespaces \cup {AllNamespaces}]

Names == Resources \cup {"resources", "help", "text"}

View == [kind : {"list", "relation", "browser", "help", "text"},
         name : Names, alias : Names \cup {"query"}]

ListOf(r)    == [kind |-> "list", name |-> r, alias |-> r]
QueryList(r) == [kind |-> "list", name |-> r, alias |-> "query"]
Relation(r)  == [kind |-> "relation", name |-> r, alias |-> r]
Browser      == [kind |-> "browser", name |-> "resources", alias |-> "resources"]
Help(crumb)  == [kind |-> "help", name |-> "help", alias |-> crumb]
\* A detail, log, event, YAML or describe view.
Text         == [kind |-> "text", name |-> "text", alias |-> "text"]

\* What is typed into the command bar, by what runCommand makes of it.
Commands ==
    [form : {"empty", "quit", "unknown"}, of : {Nil}]
      \cup [form : {"query", "kind", "noMatch", "several", "one", "subview", "noSubview"},
            of : Resources]

Messages == {"submit", "namespace", "context", "related"}

-----------------------------------------------------------------------------
(* Screens: a stack with its crumbs.                                       *)

Screen == [stack |-> stack, crumbs |-> crumbs, scope |-> rootScope]

Show(s) == stack' = s.stack /\ crumbs' = s.crumbs /\ rootScope' = s.scope

Root(v, sc) == [stack |-> <<v>>, crumbs |-> <<v.alias>>, scope |-> sc]

Pushed(s, v) == [s EXCEPT !.stack = Append(@, v), !.crumbs = Append(@, v.alias)]

\* The crumb of the top view is replaced by the view's own label and selection.
Committed(s) ==
    [s EXCEPT !.crumbs = [@ EXCEPT ![Len(@)] = Last(s.stack).name]]

\* Mutation: the crumb of the view taken back stays.
TakenBackLeavingCrumb(s) == [s EXCEPT !.stack = Front(@)]

\* The view on top goes with its crumb.
TakenBack(s) == [s EXCEPT !.stack = Front(@), !.crumbs = Front(@)]

\* Mutation: the root can be popped.
PoppedAlways(s) == TakenBack(s)

\* popView: the crumb of the view that comes up is computed anew.
Popped(s) == IF Len(s.stack) = 1 THEN s ELSE Committed(TakenBack(s))

Top == Last(stack)

\* bestResourceForScope: the resource of the topmost list, else workloads.
BestResource ==
    LET lists == {i \in DOMAIN stack : stack[i].kind = "list"}
    IN  IF lists = {} THEN Workloads ELSE stack[Max(lists)].name

-----------------------------------------------------------------------------
Init ==
    /\ \E c \in Contexts, default \in Namespaces :
          scope = [context |-> c, namespace |-> default] /\ lastSingleNS = default
    /\ storeScope = scope
    /\ stack = <<ListOf(Workloads)>>
    /\ crumbs = <<Workloads>>
    /\ rootScope = scope
    /\ bookmarks = [k \in Slots |-> Nil]
    /\ bookmarkMode = FALSE
    /\ overlay = Nil /\ relatedPicker = FALSE /\ cmdBar = FALSE
    /\ inbox = <<>>
    /\ running = "running"

PickerOpen == overlay # Nil \/ relatedPicker

\* Mutation: the command bar lets keys through.
KeysReachAppUnderBar == running = "running" /\ ~PickerOpen

\* Keys get past routeActiveOverlays and routeCommandBar.
KeysReachApp == running = "running" /\ ~PickerOpen /\ ~cmdBar

\* They are not taken as the name of a bookmark slot either.
KeysAct == KeysReachApp /\ ~bookmarkMode

Send(m) == Len(inbox) < MaxInFlight /\ inbox' = Append(inbox, m)

-----------------------------------------------------------------------------
(* Keys of the application.                                                *)

OpenCommandBar ==
    /\ KeysAct /\ Top.kind = "list"
    /\ cmdBar' = TRUE
    /\ UNCHANGED <<screenVars, scopeVars, markVars, overlay, relatedPicker, inbox, running>>

Quit ==
    /\ KeysAct
    /\ running' = "quit"
    /\ UNCHANGED <<screenVars, scopeVars, markVars, inputVars, inbox>>

\* Keys of the application and views that ask to be popped.
Back ==
    /\ KeysAct
    /\ Show(Popped(Screen))
    /\ UNCHANGED <<scopeVars, markVars, inputVars, inbox, running>>

OpenScopePicker(kind) ==
    /\ KeysAct
    /\ overlay' = kind
    /\ UNCHANGED <<screenVars, scopeVars, markVars, relatedPicker, cmdBar, inbox, running>>

OpenBrowser ==
    /\ KeysAct
    /\ Show(Root(Browser, scope))
    /\ UNCHANGED <<scopeVars, markVars, inputVars, inbox, running>>

OpenHelp ==
    /\ KeysAct /\ Top.kind # "help" /\ Len(stack) < MaxDepth
    /\ Show(Pushed(Screen, Help(Last(crumbs))))
    /\ UNCHANGED <<scopeVars, markVars, inputVars, inbox, running>>

\* With one owner its detail, with several a list of them.
JumpToPodOwner ==
    /\ KeysAct /\ Len(stack) < MaxDepth
    /\ Top.kind = "list" /\ Top.name = Pods
    /\ \E v \in {Text, ListOf(Workloads)} : Show(Pushed(Screen, v))
    /\ UNCHANGED <<scopeVars, markVars, inputVars, inbox, running>>

\* Key r, and a list's request to open it; an empty picker is not opened.
OpenRelatedPicker ==
    /\ KeysAct /\ Top.kind = "list"
    /\ relatedPicker' = TRUE
    /\ UNCHANGED <<screenVars, scopeVars, markVars, overlay, cmdBar, inbox, running>>

OpenResource(r) ==
    /\ KeysAct
    /\ Show(Root(ListOf(r), scope))
    /\ UNCHANGED <<scopeVars, markVars, inputVars, inbox, running>>

\* applyViewUpdate with a push: the crumb of a list is committed to its selection.
ViewPushes ==
    /\ KeysAct /\ Top.kind # "help" /\ Len(stack) < MaxDepth
    /\ \E v \in {Text} \cup {ListOf(r) : r \in Resources} :
          Show(Pushed(IF Top.kind = "list" THEN Committed(Screen) ELSE Screen, v))
    /\ UNCHANGED <<scopeVars, markVars, inputVars, inbox, running>>

-----------------------------------------------------------------------------
(* Scope.                                                                  *)

\* Mutation: nothing is remembered.
RememberedNever(ns) == lastSingleNS

\* rememberSingleNamespace
Remembered(ns) == IF ns = AllNamespaces THEN lastSingleNS ELSE ns

\* The store and the application change scope, and one list takes the place of the stack.
SwitchScope(sc) ==
    /\ scope' = sc
    /\ storeScope' = sc
    /\ Show(Root(ListOf(BestResource), sc))

\* Key 0: all namespaces, or back to the last single one.
ToggleAllNamespaces ==
    /\ KeysAct
    /\ LET ns == IF scope.namespace = AllNamespaces THEN lastSingleNS ELSE AllNamespaces
       IN  SwitchScope([storeScope EXCEPT !.namespace = ns])
    /\ lastSingleNS' = Remembered(scope.namespace)
    /\ UNCHANGED <<markVars, inputVars, inbox, running>>

\* What a scope picker offers leads to one of these.
Offered(kind) ==
    IF kind = "namespace"
    THEN {[storeScope EXCEPT !.namespace = n] : n \in Namespaces \cup {AllNamespaces}}
    ELSE {[storeScope EXCEPT !.context = c] : c \in Contexts}

ScopeSelected(sc) ==
    /\ SwitchScope(sc)
    /\ lastSingleNS' = Remembered(sc.namespace)
    /\ overlay' = Nil
    /\ UNCHANGED <<markVars, relatedPicker, cmdBar, running>>

-----------------------------------------------------------------------------
(* Bookmarks.                                                              *)

StartBookmark ==
    /\ KeysAct
    /\ bookmarkMode' = TRUE
    /\ UNCHANGED <<screenVars, scopeVars, bookmarks, inputVars, inbox, running>>

SetBookmark(k) ==
    /\ KeysReachApp /\ bookmarkMode /\ Len(stack) <= MaxMarked
    /\ bookmarkMode' = FALSE
    /\ bookmarks' = [bookmarks EXCEPT ![k] = [screen |-> Screen, scope |-> scope]]
    /\ UNCHANGED <<screenVars, scopeVars, inputVars, inbox, running>>

\* Any other key is taken too.
LeaveBookmarkMode ==
    /\ KeysReachApp /\ bookmarkMode
    /\ bookmarkMode' = FALSE
    /\ UNCHANGED <<screenVars, scopeVars, bookmarks, inputVars, inbox, running>>

\* Mutation: the screen comes back, its scope does not.
BookmarkScopeForgotten(k) == scope

BookmarkScope(k) == bookmarks[k].scope

JumpToBookmark(k) ==
    /\ KeysAct /\ bookmarks[k] # Nil
    /\ scope' = BookmarkScope(k)
    /\ storeScope' = BookmarkScope(k)
    /\ lastSingleNS' = Remembered(BookmarkScope(k).namespace)
    /\ Show(bookmarks[k].screen)
    /\ UNCHANGED <<markVars, inputVars, inbox, running>>

-----------------------------------------------------------------------------
(* Pickers and command bar.  Enter closes a picker and leaves the bar open *)
(* with an empty line; both send what was chosen.                          *)

ClosePicker ==
    /\ running = "running" /\ PickerOpen
    /\ IF overlay # Nil
       THEN overlay' = Nil /\ UNCHANGED relatedPicker
       ELSE relatedPicker' = FALSE /\ UNCHANGED overlay
    /\ UNCHANGED <<screenVars, scopeVars, markVars, cmdBar, inbox, running>>

PickScope ==
    /\ running = "running" /\ overlay # Nil
    /\ Send(overlay)
    /\ overlay' = Nil
    /\ UNCHANGED <<screenVars, scopeVars, markVars, relatedPicker, cmdBar, running>>

PickRelated ==
    /\ running = "running" /\ overlay = Nil /\ relatedPicker
    /\ Send("related")
    /\ relatedPicker' = FALSE
    /\ UNCHANGED <<screenVars, scopeVars, markVars, overlay, cmdBar, running>>

KeysReachBar == running = "running" /\ ~PickerOpen /\ cmdBar

CloseBar ==
    /\ KeysReachBar
    /\ cmdBar' = FALSE
    /\ UNCHANGED <<screenVars, scopeVars, markVars, overlay, relatedPicker, inbox, running>>

Submit ==
    /\ KeysReachBar
    /\ Send("submit")
    /\ UNCHANGED <<screenVars, scopeVars, markVars, inputVars, running>>

-----------------------------------------------------------------------------
(* Messages.                                                               *)

\* The list of r with an item selected: a new one unless it is on top.
WithList(r) ==
    Committed(IF Top.kind = "list" /\ Top.name = r THEN Screen ELSE Pushed(Screen, ListOf(r)))

\* The screen after runCommand(c).
RunCommand(c) ==
    CASE c.form = "query"     -> Pushed(Screen, QueryList(c.of))
      [] c.form = "several"   -> Pushed(Screen, ListOf(c.of))
      [] c.form = "kind"      -> IF Top.kind = "list" /\ Top.name = c.of THEN Screen
                                 ELSE Root(ListOf(c.of), scope)
      [] c.form = "one"       -> Pushed(WithList(c.of), Text)
      [] c.form = "subview"   -> Pushed(Pushed(WithList(c.of), Text), Text)
      [] c.form = "noSubview" -> TakenBack(Pushed(WithList(c.of), Text))
      [] OTHER                -> Screen

Fails(c) == c.form \in {"unknown", "noMatch", "noSubview"}

\* An error is shown in the bar, through a pointer that is nil once the bar is closed.
Submitted(c) ==
    /\ Len(RunCommand(c).stack) <= MaxDepth
    /\ Show(RunCommand(c))
    /\ cmdBar' = (cmdBar /\ Fails(c))
    /\ running' = IF c.form = "quit" THEN "quit"
                  ELSE IF Fails(c) /\ ~cmdBar THEN "panicked" ELSE running
    /\ UNCHANGED <<scopeVars, markVars, overlay, relatedPicker>>

\* The view on top may be another one than the picker was opened for.
RelatedSelected ==
    /\ Len(stack) < MaxDepth
    /\ \E s \in {Screen} \cup (IF Top.kind = "list" THEN {Committed(Screen)} ELSE {}), r \in Resources :
          Show(Pushed(s, Relation(r)))
    /\ relatedPicker' = FALSE
    /\ UNCHANGED <<scopeVars, markVars, overlay, cmdBar, running>>

\* Any message may be the next: commands run in goroutines of their own.
Deliver ==
    /\ running = "running"
    /\ \E i \in DOMAIN inbox :
          /\ inbox' = RemoveAt(inbox, i)
          /\ CASE inbox[i] = "submit"  -> \E c \in Commands : Submitted(c)
               [] inbox[i] = "related" -> RelatedSelected
               [] OTHER -> \E sc \in Offered(inbox[i]) : ScopeSelected(sc)

-----------------------------------------------------------------------------
Next ==
    \/ OpenCommandBar \/ Quit \/ Back \/ OpenBrowser \/ OpenHelp
    \/ JumpToPodOwner \/ OpenRelatedPicker \/ ViewPushes
    \/ \E kind \in {"namespace", "context"} : OpenScopePicker(kind)
    \/ \E r \in Resources : OpenResource(r)
    \/ ToggleAllNamespaces
    \/ StartBookmark \/ LeaveBookmarkMode
    \/ \E k \in Slots : SetBookmark(k) \/ JumpToBookmark(k)
    \/ ClosePicker \/ PickScope \/ PickRelated \/ CloseBar \/ Submit
    \/ Deliver

Spec == Init /\ [][Next]_vars

-----------------------------------------------------------------------------
(* Properties.                                                             *)

ScreenOK(s) ==
    /\ Len(s.stack) \in 1 .. MaxDepth
    /\ s.stack \in Seq(View)
    /\ s.scope \in Scope

\* Every view and message has its parts, and the stack is never empty.
TypeOK ==
    /\ ScreenOK(Screen)
    /\ scope \in Scope /\ storeScope \in Scope
    /\ lastSingleNS \in Namespaces
    /\ \A k \in Slots : bookmarks[k] # Nil =>
          ScreenOK(bookmarks[k].screen) /\ bookmarks[k].scope \in Scope
    /\ bookmarkMode \in BOOLEAN /\ relatedPicker \in BOOLEAN /\ cmdBar \in BOOLEAN
    /\ overlay \in {Nil, "namespace", "context"}
    /\ inbox \in Seq(Messages) /\ Len(inbox) <= MaxInFlight
    /\ running \in {"running", "quit", "panicked"}

CrumbsName(s) ==
    /\ Len(s.crumbs) = Len(s.stack)
    /\ \A i \in DOMAIN s.stack : s.crumbs[i] \in {s.stack[i].name, s.stack[i].alias}

\* stack and crumbs are two slices that every path changes separately.  Whatever
\* was opened, popped, bookmarked or refused half way, each view has one crumb, at
\* its own place, that bears its name or the one it was opened with.
CrumbsNameViews ==
    /\ CrumbsName(Screen)
    /\ \A k \in Slots : bookmarks[k] # Nil => CrumbsName(bookmarks[k].screen)

\* The list at the bottom of the stack was made in the scope the header shows and
\* the store reads in, after every switch, toggle and jump to a bookmark.
RootIsOfStoreScope == scope = storeScope /\ rootScope = scope

\* Key 0 comes back to the namespace it left, however all namespaces were reached
\* (app_test.go: "expected namespace=staging after toggling back").
ZeroComesBack ==
    [][scope'.namespace = AllNamespaces /\ scope.namespace # AllNamespaces
         => lastSingleNS' = scope.namespace]_vars

\* At most one of scope picker, related picker and command bar waits for keys, so
\* none is hidden under another and acts later on a screen it was not opened for.
OneTakesKeys ==
    /\ overlay = Nil \/ ~relatedPicker
    /\ cmdBar => overlay = Nil /\ ~relatedPicker

\* The error of a refused command is shown in the command bar, and does not end the
\* program (commandbar_test.go: "expected error in view").
ErrorsAreShown == running # "panicked"
=============================================================================
