------------------------------- MODULE Panels -------------------------------
(***************************************************************************)
(* What the screens keep while others lie over them, and what comes to     *)
(* them late: the columns of list views, which a picker changes through a  *)
(* configuration all lists share (internal/ui/columnpicker,                *)
(* internal/columnconfig), the resource browser, the event view and the    *)
(* namespace picker, under the application that routes keys, sizes and     *)
(* messages to them (internal/app/app.go).                                 *)
(*                                                                         *)
(* A key goes to the namespace picker, else to the column picker, else to  *)
(* the application and the view on top.  Breadcrumbs, bookmarks and the    *)
(* way of a command through the command bar are the subject of Navigation, *)
(* the rows of a list and its other modes that of ListView.                *)
(***************************************************************************)
EXTENDS ColumnWidths, FiniteSets

CONSTANTS
    Resources,          \* registered resources
    Workloads,          \* the one shown first
    TableColumns,       \* of each, the columns of its table
    TableColumnsWide,   \* of each, those of its wide table; <<>> if it has none
    Labels,             \* columns made of the labels of items
    CellWidth,          \* of each column, its widest cell or header
    ColumnWidth,        \* of each column, the width it is declared with
    BrowserRows,        \* of each resource, its cells in the browser, as ranks
    BrowserCellWidths,  \* of each column of the browser, its widest cell or header
    Namespaces, AllNamespaces,
    Windows,            \* sizes of the terminal
    None,
    MaxStack,           \* bound: views on the stack
    MaxMessages,        \* bound: messages under way, but for answers about events
    MaxTurns            \* bound: changes of size, of labels or of scope by key 0, browsers,
                        \* pickers, event views and lists of query results opened

Columns == DOMAIN CellWidth
Headers == {"built-in", "labels"}

\* Every table has a column, every column a header, which is a character wide at least.
ASSUME PanelsConstants ==
    /\ IsFiniteSet(Resources) /\ IsFiniteSet(Namespaces) /\ IsFiniteSet(Labels)
    /\ Workloads \in Resources
    /\ TableColumns \in [Resources -> Seq(Columns) \ {<<>>}]
    /\ TableColumnsWide \in [Resources -> Seq(Columns)]
    /\ Labels \cup {"namespace"} \subseteq Columns /\ Columns \cap Headers = {}
    /\ CellWidth \in [Columns -> Nat \ {0}] /\ ColumnWidth \in [Columns -> Nat \ {0}]
    /\ BrowserCellWidths \in Seq(Nat \ {0}) \ {<<>>}
    /\ BrowserRows \in [Resources -> [DOMAIN BrowserCellWidths -> Nat]]
    /\ AllNamespaces \notin Namespaces
    /\ \A w \in Windows : w.width \in Nat /\ w.height \in Nat
    /\ MaxStack \in Nat \ {0} /\ MaxTurns \in Nat

VARIABLES
    stack,        \* the views, the one on top last
    configs,      \* of each resource, the columns chosen for it, or None
    namespace,    \* the scope on screen
    labelled,     \* the labels items have now
    window,       \* the size of the terminal; 0 by 0 before it is known
    overlay,      \* the namespace picker, or None
    colPicker,    \* the column picker, or None
    messages,     \* under way to the event loop, in no particular order
    reading,      \* event views whose events a goroutine reads
    eventViews,   \* how many were made
    turns         \* counts what is bounded

countVars == <<eventViews, turns>>
vars == <<stack, configs, namespace, labelled, window, overlay, colPicker, messages,
          reading, countVars>>

Unsized == [width |-> 0, height |-> 0]

Top == Last(stack)

-----------------------------------------------------------------------------
(* The columns a list can show, and those it shows.                        *)

\* Those of a sequence that are in a set.
Those(s, wanted) ==
    FoldLeft(LAMBDA those, c : IF c \in wanted THEN Append(those, c) ELSE those, <<>>, s)

\* In the scope of all namespaces the namespace is a column of every table.
NamespacedColumnsFor(ns, columns) ==
    IF ns = AllNamespaces THEN <<"namespace">> \o columns ELSE columns

LabelColumns(labels) == SetToSeq(labels)

\* form: "adapted" reads from the store, "query" has fixed items and no wide table, and
\* "adapted query" is the second made into the first by a change of scope: that it has
\* no wide table is not known then, and what is shown in its place has no column.
WideColumns(v, ns) ==
    IF v.form = "adapted" /\ TableColumnsWide[v.resource] # <<>>
    THEN NamespacedColumnsFor(ns, TableColumnsWide[v.resource]) ELSE <<>>

BuiltInColumns(v, ns) ==
    LET columns == NamespacedColumnsFor(ns, TableColumns[v.resource])
    IN  columns \o Those(WideColumns(v, ns), Columns \ ToSet(columns))

BuildColumnPool(v, ns) == BuiltInColumns(v, ns) \o LabelColumns(v.labels)

\* Store.Get: what was chosen, of it what the table can show.  A label no item has any
\* more can be shown.
ActiveColumns(v, config, ns) ==
    IF config[v.resource] = None THEN NamespacedColumnsFor(ns, TableColumns[v.resource])
    ELSE Those(config[v.resource], ToSet(BuildColumnPool(v, ns)) \cup Labels)

WidthsFor(columns, width) ==
    IF columns = <<>> THEN <<>>
    ELSE IF width - 2 <= 0 THEN [i \in DOMAIN columns |-> ColumnWidth[columns[i]]]
    ELSE ListWidths([i \in DOMAIN columns |-> CellWidth[columns[i]]], width - 2)

\* Mutation: the columns chosen elsewhere are not asked for again.
RefreshItemsOnly(v, config, ns) ==
    LET w == IF v.form = "query" THEN v ELSE [v EXCEPT !.labels = labelled]
    IN  [w EXCEPT !.widths = WidthsFor(w.columns, w.width)]

\* refreshItems: the labels of the items there are now, the columns, their widths.
RefreshItems(v, config, ns) ==
    LET w == IF v.form = "query" THEN v ELSE [v EXCEPT !.labels = labelled]
        x == IF w.wide THEN w ELSE [w EXCEPT !.columns = ActiveColumns(w, config, ns)]
    IN  [x EXCEPT !.widths = WidthsFor(x.columns, x.width)]

\* refreshColumns, after wideMode was set.
RefreshColumns(v, ns) ==
    RefreshItems(IF v.wide THEN [v EXCEPT !.columns = WideColumns(v, ns)] ELSE v, configs, ns)

\* A list view as New makes it.
NewList(resource, form, ns) ==
    RefreshItems([kind |-> "list", resource |-> resource, form |-> form, wide |-> FALSE,
                  labels |-> labelled, columns |-> <<>>, width |-> 0, widths |-> <<>>],
                 configs, ns)

-----------------------------------------------------------------------------
(* The resource browser.                                                   *)

\* By the cells of a column, and those that are equal by kind, the first column.
Before(r, s, col, desc) ==
    LET a == BrowserRows[r]
        b == BrowserRows[s]
    IN  IF a[col] = b[col] THEN a[1] < b[1]
        ELSE IF desc THEN a[col] > b[col] ELSE a[col] < b[col]

SortedBy(col, desc) ==
    CHOOSE order \in SetToSeqs(Resources) :
        \A i, j \in DOMAIN order : i < j => ~Before(order[j], order[i], col, desc)

\* Filtered rows are dropped by the list when it is given new ones; the command that
\* filters again is not run.
RefreshBrowser(v) ==
    [v EXCEPT !.order = SortedBy(v.sortCol, v.sortDesc),
              !.hits = IF v.filter = "none" THEN Resources ELSE {},
              !.widths = IF v.width = 0 THEN BrowserCellWidths
                         ELSE BrowserWidths(BrowserCellWidths, v.width - 2)]

\* mode: "plain", "find" or "sort".
NewBrowser ==
    [kind |-> "browser", order |-> SortedBy(1, FALSE), hits |-> Resources,
     filter |-> "none", cursor |-> 1, sortCol |-> 1, sortDesc |-> FALSE, mode |-> "plain",
     width |-> 0, widths |-> BrowserCellWidths]

Visible(v) == Those(v.order, v.hits)

-----------------------------------------------------------------------------
(* The stack.                                                              *)

NewEvents(id, request) ==
    [kind |-> "events", id |-> id, request |-> request, shown |-> "loading"]

Detail == [kind |-> "detail"]
Help   == [kind |-> "help"]

\* SetSize of each kind; 0 is no size yet.
Sized(v, config, ns) ==
    IF window.width = 0 \/ v.kind \notin {"list", "browser"} THEN v
    ELSE IF v.kind = "list" THEN RefreshItems([v EXCEPT !.width = window.width], config, ns)
    ELSE RefreshBrowser([v EXCEPT !.width = window.width])

Pushed(s, v) == Append(s, Sized(v, configs, namespace))

ReplaceTop(v) == stack' = Append(Front(stack), v)

\* The resource of the topmost list, read from the store in any case; else the first.
BestListForScope(ns) ==
    LET lists == {i \in DOMAIN stack : stack[i].kind = "list"}
        best  == stack[CHOOSE i \in lists : \A j \in lists : j <= i]
    IN  IF lists = {} THEN NewList(Workloads, "adapted", ns)
        ELSE NewList(best.resource,
                     IF best.form = "adapted" THEN "adapted" ELSE "adapted query", ns)

Turn == turns < MaxTurns /\ turns' = turns + 1 /\ UNCHANGED eventViews

NewEventView == turns < MaxTurns /\ turns' = turns + 1 /\ eventViews' = eventViews + 1

Send(m) ==
    /\ Cardinality({n \in messages : n.kind # "events"}) < MaxMessages
    /\ messages' = messages \cup {m}

Init ==
    /\ namespace \in Namespaces
    /\ labelled \in SUBSET Labels
    /\ configs = [r \in Resources |-> None]
    /\ window \in Windows \cup {Unsized}
    /\ stack = <<Sized(NewList(Workloads, "adapted", namespace), configs, namespace)>>
    /\ overlay = None /\ colPicker = None
    /\ messages = {} /\ reading = {}
    /\ eventViews = 0 /\ turns = 0

\* Keys get past routeActiveOverlays.
KeysReachTop == overlay = None /\ colPicker = None

\* The browser keeps keys for itself while it is asked for something.
KeysReachApp ==
    /\ KeysReachTop
    /\ Top.kind = "browser" => Top.filter # "typing" /\ Top.mode = "plain"

-----------------------------------------------------------------------------
(* Keys of the application.                                                *)

Unmoved == UNCHANGED <<configs, namespace, labelled, window, overlay, colPicker>>

\* A hotkey, or a kind typed into the command bar.
OpenResource(r) ==
    /\ KeysReachApp
    /\ stack' = <<Sized(NewList(r, "adapted", namespace), configs, namespace)>>
    /\ UNCHANGED <<messages, reading, countVars>> /\ Unmoved

OpenBrowser ==
    /\ KeysReachApp
    /\ Turn
    /\ stack' = <<Sized(NewBrowser, configs, namespace)>>
    /\ UNCHANGED <<messages, reading>> /\ Unmoved

OpenHelp ==
    /\ KeysReachApp
    /\ Top.kind # "help" /\ Len(stack) < MaxStack
    /\ stack' = Append(stack, Help)
    /\ UNCHANGED <<messages, reading, countVars>> /\ Unmoved

\* popView: the view that comes up keeps the size it had.
Back ==
    /\ KeysReachApp
    /\ Len(stack) > 1
    /\ stack' = Front(stack)
    /\ UNCHANGED <<messages, reading, countVars>> /\ Unmoved

\* 0: the topmost list becomes the only view, in the other scope.
ToggleAllNamespaces ==
    /\ KeysReachApp
    /\ Turn
    /\ namespace' \in IF namespace = AllNamespaces THEN Namespaces ELSE {AllNamespaces}
    /\ stack' = <<Sized(BestListForScope(namespace'), configs, namespace')>>
    /\ UNCHANGED <<configs, labelled, window, overlay, colPicker, messages, reading>>

OpenNamespacePicker ==
    /\ KeysReachApp
    /\ Turn
    /\ overlay' = [names |-> <<AllNamespaces>> \o SetToSeq(Namespaces),
                   filter |-> Namespaces \cup {AllNamespaces}, cursor |-> 1]
    /\ UNCHANGED <<stack, configs, namespace, labelled, window, colPicker, messages, reading>>

\* A command that finds several items, or one by its labels.
QueryItems(r) ==
    /\ KeysReachApp
    /\ Top.kind = "list" /\ Len(stack) < MaxStack
    /\ Turn
    /\ stack' = Pushed(stack, NewList(r, "query", namespace))
    /\ UNCHANGED <<messages, reading>> /\ Unmoved

\* A command for the events of one item: its list, its details, its events, which
\* nothing asks for.
CommandEvents(r) ==
    /\ KeysReachApp
    /\ Top.kind = "list"
    /\ NewEventView
    /\ LET list == IF Top.resource = r THEN stack
                   ELSE Pushed(stack, NewList(r, "adapted", namespace))
       IN  /\ Len(list) + 2 <= MaxStack
           /\ stack' = list \o <<Detail, NewEvents(eventViews', 0)>>
    /\ UNCHANGED <<messages, reading>> /\ Unmoved

-----------------------------------------------------------------------------
(* Keys of a list view.                                                    *)

\* w.
ToggleWide ==
    /\ KeysReachApp /\ Top.kind = "list"
    /\ Top.form # "query"
    /\ ReplaceTop(RefreshColumns([Top EXCEPT !.wide = ~@], namespace))
    /\ UNCHANGED <<messages, reading, countVars>> /\ Unmoved

\* p: the wide table is left first.
AskForColumns ==
    /\ KeysReachApp /\ Top.kind = "list"
    /\ Turn
    /\ LET v == IF Top.wide THEN RefreshColumns([Top EXCEPT !.wide = FALSE], namespace) ELSE Top
       IN  /\ ReplaceTop(v)
           /\ Send([kind |-> "open picker", resource |-> v.resource,
                    pool |-> BuildColumnPool(v, namespace), labels |-> LabelColumns(v.labels),
                    defaults |-> ToSet(NamespacedColumnsFor(namespace, TableColumns[v.resource])),
                    current |-> ToSet(v.columns)])
    /\ UNCHANGED reading /\ Unmoved

\* e, also of a detail view: the view is pushed and reads in a goroutine.
ShowEvents ==
    /\ KeysReachApp
    /\ Top.kind \in {"list", "detail"} /\ Len(stack) < MaxStack
    /\ NewEventView
    /\ stack' = Append(stack, NewEvents(eventViews', 1))
    /\ reading' = reading \cup {eventViews'}
    /\ UNCHANGED messages /\ Unmoved

-----------------------------------------------------------------------------
(* Keys of the resource browser.                                           *)

BrowserKey(v) ==
    /\ ReplaceTop(v)
    /\ UNCHANGED <<messages, reading, countVars>> /\ Unmoved

Browsing(mode) == KeysReachTop /\ Top.kind = "browser" /\ Top.filter # "typing" /\ Top.mode = mode
TypingFilter   == KeysReachTop /\ Top.kind = "browser" /\ Top.filter = "typing"

MoveInBrowser ==
    /\ Browsing("plain")
    /\ \E i \in DOMAIN Visible(Top) : BrowserKey([Top EXCEPT !.cursor = i])

\* The rows of a filter that was accepted are where typing starts again.
StartBrowserFilter ==
    /\ Browsing("plain")
    /\ BrowserKey([Top EXCEPT !.filter = "typing", !.cursor = 1])

\* What is typed has matched these rows.
BrowserFilterMatches ==
    /\ TypingFilter
    /\ \E hits \in SUBSET Resources : BrowserKey([Top EXCEPT !.hits = hits])

NoBrowserFilter(v) == [v EXCEPT !.filter = "none", !.hits = Resources]

\* A filter that leaves nothing is dropped.
AcceptBrowserFilter ==
    /\ TypingFilter
    /\ BrowserKey(IF Top.hits = {} THEN NoBrowserFilter(Top)
                  ELSE [Top EXCEPT !.filter = "applied"])

\* esc; once the filter is accepted, the application takes it.
CancelBrowserFilter ==
    /\ TypingFilter
    /\ BrowserKey(NoBrowserFilter(Top))

AskBrowser(mode) ==
    /\ Browsing("plain")
    /\ BrowserKey([Top EXCEPT !.mode = mode])

\* The key after f: a row whose kind starts with it, else none.
FindInBrowser ==
    /\ Browsing("find")
    /\ \E i \in {Top.cursor} \cup DOMAIN Visible(Top) :
          BrowserKey([Top EXCEPT !.mode = "plain", !.cursor = i])

\* The cursor keeps its place among the rows.
SortBrowser(col, desc) ==
    BrowserKey(RefreshBrowser([Top EXCEPT !.mode = "plain", !.sortCol = col, !.sortDesc = desc]))

\* The key after s: a digit turns the order of the column sorted by, a letter chooses
\* it; any other ends the mode.
SortKeyInBrowser ==
    /\ Browsing("sort")
    /\ \/ BrowserKey([Top EXCEPT !.mode = "plain"])
       \/ \E col \in DOMAIN BrowserCellWidths :
             \/ SortBrowser(col, col = Top.sortCol /\ ~Top.sortDesc)
             \/ \E desc \in BOOLEAN : SortBrowser(col, desc)

OpenFromBrowser ==
    /\ Browsing("plain")
    /\ Len(stack) < MaxStack
    /\ Top.cursor \in DOMAIN Visible(Top)
    /\ stack' = Pushed(stack, NewList(Visible(Top)[Top.cursor], "adapted", namespace))
    /\ UNCHANGED <<messages, reading, countVars>> /\ Unmoved

-----------------------------------------------------------------------------
(* The namespace picker.                                                   *)

Filtered(p) == Those(p.names, p.filter)

ClampCursor(p) ==
    LET names == Len(Filtered(p))
    IN  [p EXCEPT !.cursor = IF names = 0 THEN 1 ELSE AtMost(names, @)]

OverlayBecomes(p) ==
    /\ overlay' = p
    /\ UNCHANGED <<stack, configs, namespace, labelled, window, colPicker, messages, reading,
                   countVars>>

MoveInOverlay ==
    /\ overlay # None
    /\ \/ OverlayBecomes(ClampCursor([overlay EXCEPT !.cursor = @ + 1]))
       \/ overlay.cursor > 1 /\ OverlayBecomes(ClampCursor([overlay EXCEPT !.cursor = @ - 1]))

\* What is typed leaves these of the names there were.
TypeInOverlay(names) ==
    OverlayBecomes([overlay EXCEPT !.filter = names, !.cursor = 1])

\* backspace takes back what was typed, in the end all of it.
UntypeInOverlay ==
    /\ overlay # None
    /\ OverlayBecomes([overlay EXCEPT !.filter = ToSet(overlay.names), !.cursor = 1])

CloseOverlay ==
    /\ overlay # None
    /\ overlay' = None
    /\ UNCHANGED <<stack, configs, namespace, labelled, window, colPicker, messages, reading,
                   countVars>>

PickNamespace ==
    /\ overlay # None /\ Filtered(overlay) # <<>>
    /\ overlay' = None
    /\ Send([kind |-> "selected", namespace |-> Filtered(overlay)[ClampCursor(overlay).cursor]])
    /\ UNCHANGED <<stack, configs, namespace, labelled, window, colPicker, reading, countVars>>

\* overlaypicker.SelectedMsg.
NamespaceSelected(m) ==
    /\ m \in messages /\ m.kind = "selected"
    /\ overlay' = None
    /\ namespace' = m.namespace
    /\ stack' = <<Sized(BestListForScope(namespace'), configs, namespace')>>
    /\ messages' = messages \ {m}
    /\ UNCHANGED <<configs, labelled, window, colPicker, reading, countVars>>

-----------------------------------------------------------------------------
(* The column picker.                                                      *)

\* columnpicker.New.  What it is given as the pool has the labels already.
NewColumnPicker(m) ==
    LET rows == <<"built-in">> \o m.pool
                  \o (IF m.labels = <<>> THEN <<>> ELSE <<"labels">> \o m.labels)
    IN  [resource |-> m.resource, rows |-> rows, pool |-> m.pool \o m.labels,
         defaults |-> m.defaults,
         checked |-> {i \in DOMAIN rows : rows[i] \in m.current},
         cursor |-> IF m.pool = <<>> THEN 1 ELSE 2]

Selectable(p, i) == i \in DOMAIN p.rows /\ p.rows[i] \notin Headers

\* OpenColumnPickerMsg, whatever is on top by now.
OpenColumnPicker(m) ==
    /\ m \in messages /\ m.kind = "open picker"
    /\ colPicker' = NewColumnPicker(m)
    /\ messages' = messages \ {m}
    /\ UNCHANGED <<stack, configs, namespace, labelled, window, overlay, reading, countVars>>

KeysReachColumnPicker == overlay = None /\ colPicker # None

PickerBecomes(p) ==
    /\ KeysReachColumnPicker
    /\ colPicker' = p
    /\ UNCHANGED <<stack, configs, namespace, labelled, window, overlay, messages, reading,
                   countVars>>

\* Mutation: headers are rows like others.
MoveInPickerAnywhere(step) ==
    /\ colPicker.cursor + step \in DOMAIN colPicker.rows
    /\ PickerBecomes([colPicker EXCEPT !.cursor = @ + step])

\* To the next column that way, over headers, or not at all.
MoveInPicker(step) ==
    LET there == {i \in DOMAIN colPicker.rows :
                    Selectable(colPicker, i) /\ (i - colPicker.cursor) * step > 0}
    IN  /\ there # {}
        /\ PickerBecomes([colPicker EXCEPT !.cursor =
               CHOOSE i \in there : \A j \in there : (j - i) * step >= 0])

ToggleColumn ==
    /\ KeysReachColumnPicker
    /\ Selectable(colPicker, colPicker.cursor)
    /\ PickerBecomes([colPicker EXCEPT !.checked =
           IF colPicker.cursor \in @ THEN @ \ {colPicker.cursor} ELSE @ \cup {colPicker.cursor}])

\* d, a and A.
CheckColumns ==
    /\ KeysReachColumnPicker
    /\ LET all == {i \in DOMAIN colPicker.rows : Selectable(colPicker, i)}
       IN  \E rows \in {all, {}, {i \in all : colPicker.rows[i] \in colPicker.defaults}} :
              PickerBecomes([colPicker EXCEPT !.checked = rows])

CloseColumnPicker == KeysReachColumnPicker /\ PickerBecomes(None)

VisibleIDs(p) == Those(p.pool, {p.rows[i] : i \in p.checked})

\* enter.
PickColumns ==
    /\ KeysReachColumnPicker
    /\ colPicker' = None
    /\ Send([kind |-> "picked", resource |-> colPicker.resource,
             visible |-> VisibleIDs(colPicker)])
    /\ UNCHANGED <<stack, configs, namespace, labelled, window, overlay, reading, countVars>>

\* ApplyColumnConfig wants a list of the resource the columns were chosen for.
TakesColumns(v, m) == v.kind = "list" /\ v.resource = m.resource

\* columnpicker.PickedMsg: for the list on top, or for nothing.
ColumnsPicked(m) ==
    /\ m \in messages /\ m.kind = "picked"
    /\ messages' = messages \ {m}
    /\ IF TakesColumns(Top, m)
       THEN /\ configs' = [configs EXCEPT ![m.resource] = m.visible]
            /\ ReplaceTop(RefreshItems(Top, configs', namespace))
       ELSE UNCHANGED <<configs, stack>>
    /\ UNCHANGED <<namespace, labelled, window, overlay, colPicker, reading, countVars>>

-----------------------------------------------------------------------------
(* The event view.                                                         *)

\* The goroutine of a view, which has 8 s: lines, none, or an error, which is what a
\* view that was disposed gets.
EventsRead(id) ==
    /\ id \in reading
    /\ reading' = reading \ {id}
    /\ \E answer \in {"lines", "none", "error"} :
          messages' = messages \cup
              {[kind |-> "events", view |-> id, request |-> 1, answer |-> answer]}
    /\ UNCHANGED <<stack, countVars>> /\ Unmoved

\* Mutation: a view of which there is nothing to show is left as it is.
ShownOfLines(v, m) ==
    CASE m.answer = "lines" -> "lines"
      [] m.answer = "none"  -> v.shown
      [] m.answer = "error" -> "own lines"

\* What a view shows of an answer: after an error it reads once more, itself.
ShownOf(v, m) ==
    CASE m.answer = "lines" -> "lines"
      [] m.answer = "none"  -> "no recent events"
      [] m.answer = "error" -> "own lines"

\* eventReloadResultMsg, for the view on top if it has asked as often as the message
\* says, be it its own or not; else for nobody.
EventsAnswered(m) ==
    /\ m \in messages /\ m.kind = "events"
    /\ messages' = messages \ {m}
    /\ IF Top.kind = "events" /\ Top.request = m.request
       THEN ReplaceTop([Top EXCEPT !.shown = ShownOf(Top, m)])
       ELSE UNCHANGED stack
    /\ UNCHANGED <<reading, countVars>> /\ Unmoved

-----------------------------------------------------------------------------
(* Sizes, and labels that come and go.                                     *)

\* WindowSizeMsg: the view on top only.
Resize(size) ==
    /\ size # window
    /\ Turn
    /\ window' = size
    /\ LET sized == IF Top.kind = "list"
                    THEN RefreshItems([Top EXCEPT !.width = size.width], configs, namespace)
                    ELSE IF Top.kind = "browser" THEN RefreshBrowser([Top EXCEPT !.width = size.width])
                    ELSE Top
       IN  ReplaceTop(sized)
    /\ UNCHANGED <<configs, namespace, labelled, overlay, colPicker, messages, reading>>

LabelsChange(labels) ==
    /\ labelled' = labels
    /\ labels # labelled
    /\ Turn
    /\ UNCHANGED <<stack, configs, namespace, window, overlay, colPicker, messages, reading>>

KeyOfList == ToggleWide \/ AskForColumns \/ ShowEvents

KeyOfBrowser ==
    \/ MoveInBrowser \/ StartBrowserFilter \/ BrowserFilterMatches \/ AcceptBrowserFilter
    \/ CancelBrowserFilter \/ AskBrowser("find") \/ AskBrowser("sort") \/ FindInBrowser
    \/ SortKeyInBrowser \/ OpenFromBrowser

KeyOfOverlay ==
    \/ MoveInOverlay \/ UntypeInOverlay \/ CloseOverlay \/ PickNamespace
    \/ overlay # None /\ \E names \in SUBSET overlay.filter : TypeInOverlay(names)

KeyOfColumnPicker ==
    \/ colPicker # None /\ \E step \in {-1, 1} : MoveInPicker(step)
    \/ ToggleColumn \/ CheckColumns \/ CloseColumnPicker \/ PickColumns

Next ==
    \/ \E r \in Resources : OpenResource(r) \/ QueryItems(r) \/ CommandEvents(r)
    \/ OpenBrowser \/ OpenHelp \/ Back \/ ToggleAllNamespaces \/ OpenNamespacePicker
    \/ KeyOfList \/ KeyOfBrowser \/ KeyOfOverlay \/ KeyOfColumnPicker
    \/ \E m \in messages :
          NamespaceSelected(m) \/ OpenColumnPicker(m) \/ ColumnsPicked(m) \/ EventsAnswered(m)
    \/ \E id \in reading : EventsRead(id)
    \/ \E size \in Windows : Resize(size)
    \/ \E labels \in SUBSET Labels : LabelsChange(labels)

EventsOf(id) == {m \in messages : m.kind = "events" /\ m.view = id}

\* A read has a time limit, and the event loop takes every message.
Fairness ==
    \A id \in 1 .. MaxTurns :
        WF_vars(EventsRead(id)) /\ WF_vars(\E m \in EventsOf(id) : EventsAnswered(m))

Spec == Init /\ [][Next]_vars /\ Fairness

-----------------------------------------------------------------------------
ListOK(v) ==
    /\ v.resource \in Resources /\ v.form \in {"adapted", "query", "adapted query"}
    /\ v.wide \in BOOLEAN /\ v.labels \subseteq Labels
    /\ v.columns \in Seq(Columns) /\ v.width \in Nat
    /\ v.widths \in Seq(Nat \ {0})

BrowserOK(v) ==
    /\ ToSet(v.order) = Resources /\ Len(v.order) = Cardinality(Resources)
    /\ v.hits \subseteq Resources
    /\ v.filter \in {"none", "typing", "applied"} /\ v.mode \in {"plain", "find", "sort"}
    /\ v.filter = "none" => v.hits = Resources
    /\ v.filter = "typing" => v.mode = "plain"
    /\ v.cursor \in DOMAIN v.order

\* Views are what they are; the column picker stands on a column, never on a header,
\* the namespace picker on a name that is left or on none at all.
TypeOK ==
    /\ stack # <<>> /\ Len(stack) <= MaxStack
    /\ \A i \in DOMAIN stack :
          CASE stack[i].kind = "list"    -> ListOK(stack[i])
            [] stack[i].kind = "browser" -> BrowserOK(stack[i])
            [] stack[i].kind = "events"  -> stack[i].id \in 1 .. eventViews
            [] OTHER                     -> stack[i] \in {Detail, Help}
    /\ \A r \in Resources : configs[r] = None \/ configs[r] \in Seq(Columns)
    /\ namespace \in Namespaces \cup {AllNamespaces} /\ labelled \subseteq Labels
    /\ overlay # None =>
          overlay.cursor \in DOMAIN Filtered(overlay) \/ (overlay.cursor = 1 /\ overlay.filter = {})
    /\ colPicker # None => Selectable(colPicker, colPicker.cursor)
    /\ reading \subseteq 1 .. eventViews

\* A table has a width for each of its columns, none wider than its cells.  It takes the
\* width of its view if its cells need as much, and no more.  The browser's stops at
\* the minimum widths.  This is what a row is drawn with: a width that is missing ends
\* the program.  (The width is that of the terminal when the view was sized.)
TablesFit ==
    \A i \in DOMAIN stack :
        LET v == stack[i]
            Fits(natural, room) ==
                /\ \A k \in DOMAIN natural : v.widths[k] \in 1 .. natural[k]
                /\ Total(v.widths) = AtMost(Total(natural), room)
            columns == Len(v.widths)
        IN  /\ v.kind = "list" =>
                 /\ columns = Len(v.columns)
                 /\ v.width > 2 /\ columns > 0 =>
                      Fits([k \in 1 .. columns |-> CellWidth[v.columns[k]]],
                           AvailableContent(columns, v.width - 2))
            /\ v.kind = "browser" /\ v.width > 2 =>
                 LET room  == AvailableContent(columns, v.width - 2)
                     least == Total(MinWidths(BrowserCellWidths))
                 IN  Fits(BrowserCellWidths, IF room < least THEN least ELSE room)

\* Whenever a list comes up that was not on the stack, or the list on top changes, it
\* has the columns chosen for its resource, wherever they were chosen, unless it shows
\* its wide table.  (A list that was below keeps the columns it had.)
ShowsChoice(v) == v.wide \/ v.columns = ActiveColumns(v, configs', namespace')

ListsShowChoices ==
    [][Last(stack') # Last(stack) /\ Last(stack').kind = "list" /\ Len(stack') >= Len(stack)
         => ShowsChoice(Last(stack'))]_vars

\* A view whose events are read or are on their way, and that stays on top, comes to
\* show something: lines, that there are none, or after an error what it reads itself.
Awaits(id) ==
    /\ Top.kind = "events" /\ Top.id = id /\ Top.shown = "loading"
    /\ id \in reading \/ EventsOf(id) # {}

EventsAreShown ==
    \A id \in 1 .. MaxTurns :
        Awaits(id) ~> (Top.kind = "events" /\ Top.id = id => Top.shown # "loading")
=============================================================================
