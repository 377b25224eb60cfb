------------------------------ MODULE ListView ------------------------------
(***************************************************************************)
(* A list of resources on screen (internal/ui/listview/listview.go): its   *)
(* rows, the cursor, the filter, the search, and the modes in which a key  *)
(* means something else.  The rows are bubbles' list.Model, which filters  *)
(* in a goroutine: the rows that match come back as a message.             *)
(*                                                                         *)
(* An item is its place in the order of names.  What is typed into filter  *)
(* or search is the set of items it matches.  Rows count from 1, and all   *)
(* of them are on one page.                                                *)
(***************************************************************************)
EXTENDS Integers, Sequences, SequencesExt

CONSTANTS
    Items,        \* items the cluster may have, as numbers in the order of their names
    Texts,        \* what can be typed: sets of the items that match
    Kinds,        \* kinds of resources that are listed
    Empty,        \* nothing typed
    None,
    MaxInFlight   \* bound: answers of the filter on their way

\* The items have a last one, if there are any.
ASSUME ListViewConstants ==
    /\ Items \subseteq Nat
    /\ \E last \in Items \cup {0} : \A item \in Items : item <= last
    /\ Texts \subseteq SUBSET Items
    /\ Empty \notin Texts
    /\ None \notin Items
    /\ MaxInFlight \in Nat

VARIABLES
    kind,
    items,        \* the rows, as last read from the resource
    sortDesc,
    filterState,  \* "unfiltered", "filtering", "applied"
    filterValue,
    filtered,     \* the rows shown while filterState is not "unfiltered"
    answers,      \* answers of the filter on their way to the event loop
    index,        \* row of the cursor
    covered,      \* another view is on top
    searchActive, searchQuery, matchRows, matchIndex,
    findMode, sortPickMode, copyMode,
    execState,
    chosen        \* history: the item an operation was asked for, while no
                  \* message has changed the rows since

rowVars    == <<items, sortDesc>>
filterVars == <<filterState, filterValue, filtered>>
searchVars == <<searchActive, searchQuery, matchRows, matchIndex>>
modeVars   == <<findMode, sortPickMode, copyMode, execState, chosen>>
vars == <<kind, rowVars, filterVars, answers, index, covered, searchVars, modeVars>>

-----------------------------------------------------------------------------
VisibleItems == IF filterState = "unfiltered" THEN items ELSE filtered

SelectedItem == IF index \in DOMAIN VisibleItems THEN VisibleItems[index] ELSE None

Matches(text, item) == text = Empty \/ item \in text

IsRising(s)  == \A i, j \in DOMAIN s : i < j => s[i] < s[j]
IsFalling(s) == \A i, j \in DOMAIN s : i < j => s[i] > s[j]

InOrder(s, desc) == IF desc THEN IsFalling(s) ELSE IsRising(s)

Rising(numbers) == CHOOSE s \in SetToSeqs(numbers) : IsRising(s)

Sorted(there, desc) == IF desc THEN Reverse(Rising(there)) ELSE Rising(there)

\* Rows whose text contains the query, from the top.
RowsMatching(query, rows) ==
    IF query = Empty THEN <<>>
    ELSE Rising({i \in DOMAIN rows : Matches(query, rows[i])})

\* Mutation: no match is not a case of its own.
RecomputeMatchesUnguarded ==
    /\ matchRows' = RowsMatching(searchQuery', VisibleItems')
    /\ matchIndex' = IF matchIndex > Len(matchRows') THEN Len(matchRows') ELSE matchIndex

\* Matches follow the rows that are visible; the current match stays among them.
RecomputeMatches ==
    /\ matchRows' = RowsMatching(searchQuery', VisibleItems')
    /\ matchIndex' = IF searchQuery' = Empty \/ matchRows' = <<>> THEN 1
                     ELSE IF matchIndex > Len(matchRows') THEN Len(matchRows') ELSE matchIndex

\* list.Model.SetItems drops what was filtered and returns the command that filters
\* again, which refreshItems does not run.  The cursor keeps its row.
RefreshItems ==
    /\ \E there \in SUBSET Items : items' = Sorted(there, sortDesc')
    /\ filtered' = IF filterState = "unfiltered" THEN filtered ELSE <<>>
    /\ UNCHANGED <<filterState, filterValue, searchQuery>>
    /\ RecomputeMatches
    /\ chosen' = None

Init ==
    /\ kind \in Kinds
    /\ \E there \in SUBSET Items : items = Sorted(there, FALSE)
    /\ sortDesc = FALSE
    /\ filterState = "unfiltered" /\ filterValue = Empty /\ filtered = <<>>
    /\ answers = {}
    /\ index = 1
    /\ covered = FALSE
    /\ searchActive = FALSE /\ searchQuery = Empty /\ matchRows = <<>> /\ matchIndex = 1
    /\ findMode = FALSE /\ sortPickMode = FALSE /\ copyMode = FALSE
    /\ execState = "none"
    /\ chosen = None

-----------------------------------------------------------------------------
(* Who takes a key: the first of these, in the order of Update.            *)

\* Mutation: a key is looked up before the filter gets it.
BrowsingUnderFilter ==
    /\ ~covered /\ ~searchActive
    /\ ~findMode /\ ~sortPickMode /\ ~copyMode /\ execState = "none"

Searching == ~covered /\ searchActive
Filtering == ~covered /\ ~searchActive /\ filterState = "filtering"
Plain     == ~covered /\ ~searchActive /\ filterState # "filtering"
Finding   == Plain /\ findMode
SortPicks == Plain /\ ~findMode /\ sortPickMode
Copying   == Plain /\ ~findMode /\ ~sortPickMode /\ copyMode
Executing == Plain /\ ~findMode /\ ~sortPickMode /\ ~copyMode /\ execState # "none"
Browsing  == Plain /\ ~findMode /\ ~sortPickMode /\ ~copyMode /\ execState = "none"

-----------------------------------------------------------------------------
(* The cursor.                                                             *)

\* A cursor key of list.Model, or a page: any row is some number of keys away, and
\* a cursor below the last row is brought back to it.
ListModelKey ==
    /\ index' \in IF VisibleItems = <<>> THEN {1} ELSE DOMAIN VisibleItems
    /\ UNCHANGED <<kind, rowVars, filterVars, answers, covered, searchActive, searchQuery>>
    /\ RecomputeMatches

MoveCursor ==
    /\ Browsing
    /\ ListModelKey
    /\ UNCHANGED modeVars

StartFind ==
    /\ Browsing
    /\ findMode' = TRUE
    /\ UNCHANGED <<kind, rowVars, filterVars, answers, index, covered, searchVars,
                   sortPickMode, copyMode, execState, chosen>>

\* jumpToChar: names differ in their first letter.
FindKey ==
    /\ Finding
    /\ findMode' = FALSE
    /\ index' \in {index} \cup DOMAIN VisibleItems
    /\ UNCHANGED <<kind, rowVars, filterVars, answers, covered, searchVars,
                   sortPickMode, copyMode, execState, chosen>>

-----------------------------------------------------------------------------
(* Search: rows stay, n and b go from match to match.                      *)

StartSearch ==
    /\ Browsing
    /\ searchActive' = TRUE
    /\ searchQuery' = Empty /\ matchRows' = <<>> /\ matchIndex' = 1
    /\ UNCHANGED <<kind, rowVars, filterVars, answers, index, covered, modeVars>>

TypeSearch(text) ==
    /\ Searching
    /\ searchQuery' = text
    /\ UNCHANGED <<kind, rowVars, filterVars, answers, index, covered,
                   searchActive, matchRows, matchIndex, modeVars>>

ConfirmSearch ==
    /\ Searching
    /\ searchActive' = FALSE
    /\ searchQuery' = searchQuery
    /\ UNCHANGED <<kind, rowVars, filterVars, answers, covered, modeVars>>
    /\ matchRows' = RowsMatching(searchQuery, VisibleItems)
    /\ matchIndex' = 1
    /\ index' = IF matchRows' = <<>> THEN index ELSE matchRows'[1]

CancelSearch ==
    /\ Searching
    /\ searchActive' = FALSE
    /\ searchQuery' = Empty /\ matchRows' = <<>> /\ matchIndex' = 1
    /\ UNCHANGED <<kind, rowVars, filterVars, answers, index, covered, modeVars>>

\* n and b, round the ends.
GoToMatch(step) ==
    /\ Browsing
    /\ matchRows # <<>>
    /\ matchIndex' = ((matchIndex - 1 + step + Len(matchRows)) % Len(matchRows)) + 1
    /\ index' = matchRows[matchIndex']
    /\ UNCHANGED <<kind, rowVars, filterVars, answers, covered,
                   searchActive, searchQuery, matchRows, modeVars>>

-----------------------------------------------------------------------------
(* Filter.                                                                 *)

\* &: from all rows, or from the filter already there.
StartFilter ==
    /\ Browsing
    /\ items # <<>>
    /\ filterState' = "filtering"
    /\ filtered' = IF filterValue = Empty THEN items ELSE filtered
    /\ index' = 1
    /\ UNCHANGED <<kind, rowVars, filterValue, answers, covered, searchActive, searchQuery, modeVars>>
    /\ RecomputeMatches

\* The rows as they are now are matched in a goroutine.  Those that match best come
\* first; all of them match nothing typed, and keep their order.
TypeFilter(text) ==
    /\ Filtering
    /\ Cardinality(answers) < MaxInFlight
    /\ text # filterValue
    /\ filterValue' = text
    /\ \E rows \in SetToSeqs({item \in ToSet(items) : Matches(text, item)}) :
          /\ text = Empty => rows = items
          /\ answers' = answers \cup {rows}
    /\ UNCHANGED <<kind, rowVars, filterState, filtered, index, covered, searchActive,
                   searchQuery, modeVars>>
    /\ RecomputeMatches

NoFilter == filterState' = "unfiltered" /\ filterValue' = Empty /\ filtered' = <<>>

\* enter: a filter that leaves nothing is dropped.
AcceptFilter ==
    /\ Filtering
    /\ filterValue # Empty
    /\ items # <<>>
    /\ IF filtered = <<>> THEN NoFilter
       ELSE filterState' = "applied" /\ UNCHANGED <<filterValue, filtered>>
    /\ UNCHANGED <<kind, rowVars, answers, index, covered, searchActive, searchQuery, modeVars>>
    /\ RecomputeMatches

\* Mutation: the matches are left as they are.
ResetFilterOnly ==
    /\ Filtering \/ Browsing
    /\ filterState # "unfiltered"
    /\ NoFilter
    /\ UNCHANGED <<kind, rowVars, answers, index, covered, searchVars, modeVars>>

\* esc.
ResetFilter ==
    /\ Filtering \/ Browsing
    /\ filterState # "unfiltered"
    /\ NoFilter
    /\ UNCHANGED <<kind, rowVars, answers, index, covered, searchActive, searchQuery, modeVars>>
    /\ RecomputeMatches

\* FilterMatchesMsg: whatever the view is doing, unless it searches, which drops it,
\* or is not on top.
DeliverAnswer(rows) ==
    /\ rows \in answers
    /\ answers' = answers \ {rows}
    /\ UNCHANGED <<kind, rowVars, filterState, filterValue, index, covered, searchActive,
                   searchQuery, findMode, sortPickMode, copyMode, execState>>
    /\ IF covered \/ searchActive
       THEN UNCHANGED <<filtered, matchRows, matchIndex, chosen>>
       ELSE filtered' = rows /\ chosen' = None /\ RecomputeMatches

-----------------------------------------------------------------------------
(* Sort, columns and size: each refreshes the rows.                        *)

StartSortPick ==
    /\ Browsing
    /\ sortPickMode' = TRUE
    /\ UNCHANGED <<kind, rowVars, filterVars, answers, index, covered, searchVars,
                   findMode, copyMode, execState, chosen>>

\* A key that names no column only ends the mode.
SortPickKey ==
    /\ SortPicks
    /\ sortPickMode' = FALSE
    /\ UNCHANGED <<kind, answers, index, covered, searchActive, findMode, copyMode, execState>>
    /\ \/ UNCHANGED <<rowVars, filterVars, searchQuery, matchRows, matchIndex, chosen>>
       \/ sortDesc' \in BOOLEAN /\ RefreshItems

\* w, and p if it has to leave the wide mode first.
ToggleColumns ==
    /\ Browsing
    /\ UNCHANGED <<kind, sortDesc, answers, index, covered, searchActive,
                   findMode, sortPickMode, copyMode, execState>>
    /\ RefreshItems

\* A change of size, a bookmark or a choice of columns comes at any time, but to the
\* view on top only.
SetSize ==
    /\ ~covered
    /\ UNCHANGED <<kind, sortDesc, answers, index, covered, searchActive,
                   findMode, sortPickMode, copyMode, execState>>
    /\ RefreshItems

-----------------------------------------------------------------------------
(* Copy and execute.                                                       *)

StartCopy ==
    /\ Browsing
    /\ SelectedItem # None
    /\ copyMode' = TRUE
    /\ UNCHANGED <<kind, rowVars, filterVars, answers, index, covered, searchVars,
                   findMode, sortPickMode, execState, chosen>>

CopyKey ==
    /\ Copying
    /\ copyMode' = FALSE
    /\ UNCHANGED <<kind, rowVars, filterVars, answers, index, covered, searchVars,
                   findMode, sortPickMode, execState, chosen>>

ExecUnchanged ==
    UNCHANGED <<kind, rowVars, filterVars, answers, index, covered, searchVars,
                findMode, sortPickMode, copyMode>>

StartExec ==
    /\ Browsing
    /\ SelectedItem # None
    /\ execState' = "menu"
    /\ chosen' = SelectedItem
    /\ ExecUnchanged

\* What the keys d, r, s and f lead to, for the kinds they work on.
ExecOperations ==
    {"confirmDelete"}
    \cup (IF kind \in {"deployments", "workloads", "statefulsets"} THEN {"confirmRestart"} ELSE {})
    \cup (IF kind \in {"deployments", "statefulsets"} THEN {"inputScale"} ELSE {})
    \cup (IF kind \in {"pods", "services"} THEN {"inputPortFwd"} ELSE {})

\* Mutation: a key that means nothing in the menu goes on to the list.
ExecMenuKeyFallsThrough ==
    /\ Executing /\ execState = "menu"
    /\ \/ execState' \in ExecOperations /\ ExecUnchanged
       \/ ListModelKey /\ UNCHANGED <<findMode, sortPickMode, copyMode, execState>>
    /\ UNCHANGED chosen

\* Any other key leaves the menu as it is.
ExecMenuKey ==
    /\ Executing /\ execState = "menu"
    /\ execState' \in ExecOperations
    /\ UNCHANGED chosen
    /\ ExecUnchanged

\* esc; y or enter, upon which the operation is done to the item under the cursor;
\* or x in the menu, which hands the terminal to a shell in it.
EndExec ==
    /\ Executing
    /\ execState' = "none"
    /\ chosen' = None
    /\ ExecUnchanged

-----------------------------------------------------------------------------
(* The views above.                                                        *)

\* enter, y, e and d push a view of the selected item; what was chosen in a picker
\* is pushed when its message comes, whatever the list is doing by then.
PushView ==
    /\ ~covered
    /\ covered' = TRUE
    /\ UNCHANGED <<kind, rowVars, filterVars, answers, index, searchVars, modeVars>>

PopAbove ==
    /\ covered
    /\ covered' = FALSE
    /\ UNCHANGED <<kind, rowVars, filterVars, answers, index, searchVars, modeVars>>

Next ==
    \/ MoveCursor
    \/ StartFind
    \/ FindKey
    \/ StartSearch
    \/ \E text \in Texts \cup {Empty} : TypeSearch(text)
    \/ ConfirmSearch
    \/ CancelSearch
    \/ \E step \in {1, -1} : GoToMatch(step)
    \/ StartFilter
    \/ \E text \in Texts \cup {Empty} : TypeFilter(text)
    \/ AcceptFilter
    \/ ResetFilter
    \/ \E rows \in answers : DeliverAnswer(rows)
    \/ StartSortPick
    \/ SortPickKey
    \/ ToggleColumns
    \/ SetSize
    \/ StartCopy
    \/ CopyKey
    \/ StartExec
    \/ ExecMenuKey
    \/ EndExec
    \/ PushView
    \/ PopAbove

Spec == Init /\ [][Next]_vars

-----------------------------------------------------------------------------
\* Items, each of them once.
IsList(rows) == rows \in Seq(Items) /\ IsInjective(rows)

TypeOK ==
    /\ kind \in Kinds
    /\ IsList(items) /\ InOrder(items, sortDesc)
    /\ sortDesc \in BOOLEAN
    /\ filterState \in {"unfiltered", "filtering", "applied"}
    /\ filterValue \in Texts \cup {Empty}
    /\ IsList(filtered)
    /\ \A rows \in answers : IsList(rows)
    /\ index \in Nat \ {0}
    /\ covered \in BOOLEAN
    /\ searchActive \in BOOLEAN
    /\ searchQuery \in Texts \cup {Empty}
    /\ matchRows \in Seq(Nat \ {0}) /\ IsRising(matchRows)
    /\ matchIndex \in IF matchRows = <<>> THEN {1} ELSE DOMAIN matchRows
    /\ findMode \in BOOLEAN
    /\ sortPickMode \in BOOLEAN
    /\ copyMode \in BOOLEAN
    /\ execState \in {"none", "menu", "confirmDelete", "confirmRestart", "inputScale", "inputPortFwd"}
    /\ chosen \in Items \cup {None}

\* The modes in which a key means something else.
ModeOn == [search   |-> searchActive,
           filter   |-> filterState = "filtering",
           find     |-> findMode,
           sortPick |-> sortPickMode,
           copy     |-> copyMode,
           exec     |-> execState # "none"]

\* A key means one thing: at most one mode is on, so the order in which Update asks
\* for them does not matter, and each is left by the key that says so.
OneModeAtATime ==
    \A m, n \in DOMAIN ModeOn : ModeOn[m] /\ ModeOn[n] => m = n

\* Once a search is confirmed, n and b lead to the visible rows that match, all of
\* them and no others, whatever filter, refresh or late answer has changed the rows.
MatchesAreVisibleRows ==
    ~searchActive => matchRows = RowsMatching(searchQuery, VisibleItems)

\* What is deleted, restarted or scaled in the end is the item that was under the
\* cursor when x was pressed: no key in between leads to another.  A refresh or a
\* late answer may (then chosen is None).
OperatesOnChosen ==
    execState # "none" /\ chosen # None => SelectedItem = chosen

\* emptyMessage (listview.go): "No items match the active filter." is shown over no
\* rows, and so only if no item of the list matches.
EmptyMeansNoMatch ==
    filterState = "applied" /\ answers = {} /\ VisibleItems = <<>>
      => \A r \in DOMAIN items : ~Matches(filterValue, items[r])
=============================================================================
