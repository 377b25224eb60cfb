--------------------------- MODULE ListView_proofs ---------------------------
(***************************************************************************)
(* Proofs about the list view, for any items, texts and kinds: a key means *)
(* one thing, an operation is done to the item it was asked for, and the   *)
(* matches of a search are the visible rows that match.                    *)
(***************************************************************************)
EXTENDS ListView, FiniteSetTheorems, SequenceTheorems, NaturalsInduction,
        WellFoundedInduction, TLAPS

-----------------------------------------------------------------------------
(* One mode at a time.                                                     *)

\* The six modes by name: every action is seen to respect this form.
ModesApart ==
    /\ searchActive => filterState # "filtering"
    /\ findMode     => ~searchActive /\ filterState # "filtering"
    /\ sortPickMode => ~searchActive /\ filterState # "filtering" /\ ~findMode
    /\ copyMode     => ~searchActive /\ filterState # "filtering" /\ ~findMode /\ ~sortPickMode
    /\ execState # "none"
         => ~searchActive /\ filterState # "filtering" /\ ~findMode /\ ~sortPickMode /\ ~copyMode

\* Update asks for the modes one after another; ModesApart lists the pairs it may
\* find on together, which are none.
LEMMA ModesApartIsOneMode == ModesApart => OneModeAtATime
<1>1. DOMAIN ModeOn = {"search", "filter", "find", "sortPick", "copy", "exec"}
  BY DEF ModeOn
<1>2. /\ ModeOn["search"] = searchActive
      /\ ModeOn["filter"] = (filterState = "filtering")
      /\ ModeOn["find"] = findMode
      /\ ModeOn["sortPick"] = sortPickMode
      /\ ModeOn["copy"] = copyMode
      /\ ModeOn["exec"] = (execState # "none")
  BY DEF ModeOn
<1>. QED  BY <1>1, <1>2 DEF ModesApart, OneModeAtATime

\* New starts in no mode.
LEMMA InitModesApart == Init => ModesApart
BY DEF Init, ModesApart

\* A mode is entered only from none of them, and no key and no message changes a
\* mode that another was in.
LEMMA StepModesApart == ModesApart /\ [Next]_vars => ModesApart'
<1>. SUFFICES ASSUME ModesApart, [Next]_vars
              PROVE  ModesApart'
  OBVIOUS
<1>. USE DEF ModesApart, modeVars, searchVars, filterVars, rowVars, Browsing, Plain
<1>1. CASE MoveCursor
  BY <1>1 DEF MoveCursor, ListModelKey, RecomputeMatches
<1>2. CASE StartFind \/ FindKey
  BY <1>2 DEF StartFind, FindKey, Finding
<1>3. CASE StartSearch
  BY <1>3 DEF StartSearch
<1>4. CASE \E text \in Texts \cup {Empty} : TypeSearch(text)
  BY <1>4 DEF TypeSearch
<1>5. CASE ConfirmSearch \/ CancelSearch
  BY <1>5 DEF ConfirmSearch, CancelSearch, Searching
<1>6. CASE \E step \in {1, -1} : GoToMatch(step)
  BY <1>6 DEF GoToMatch
<1>7. CASE StartFilter
  BY <1>7 DEF StartFilter
<1>8. CASE \E text \in Texts \cup {Empty} : TypeFilter(text)
  BY <1>8 DEF TypeFilter
<1>9. CASE AcceptFilter
  BY <1>9 DEF AcceptFilter, NoFilter
<1>10. CASE ResetFilter
  BY <1>10 DEF ResetFilter, NoFilter
<1>11. CASE \E rows \in answers : DeliverAnswer(rows)
  BY <1>11 DEF DeliverAnswer
<1>12. CASE StartSortPick
  BY <1>12 DEF StartSortPick
<1>13. CASE SortPickKey
  BY <1>13 DEF SortPickKey, RefreshItems, RecomputeMatches
<1>14. CASE ToggleColumns \/ SetSize
  BY <1>14 DEF ToggleColumns, SetSize, RefreshItems, RecomputeMatches
<1>15. CASE StartCopy \/ CopyKey
  BY <1>15 DEF StartCopy, CopyKey
<1>16. CASE StartExec
  BY <1>16 DEF StartExec, ExecUnchanged
<1>17. CASE ExecMenuKey
  BY <1>17 DEF ExecMenuKey, Executing, ExecUnchanged
<1>18. CASE EndExec
  BY <1>18 DEF EndExec, ExecUnchanged
<1>19. CASE PushView \/ PopAbove
  BY <1>19 DEF PushView, PopAbove
<1>20. CASE UNCHANGED vars
  BY <1>20 DEF vars
<1>. QED
  BY <1>1, <1>2, <1>3, <1>4, <1>5, <1>6, <1>7, <1>8, <1>9, <1>10, <1>11, <1>12, <1>13,
     <1>14, <1>15, <1>16, <1>17, <1>18, <1>19, <1>20 DEF Next

LEMMA AlwaysModesApart == Spec => []ModesApart
BY InitModesApart, StepModesApart, PTL DEF Spec

\* A key means one thing, whatever keys and messages came before: Update may ask
\* for the modes in any order.
THEOREM OneMode == Spec => []OneModeAtATime
BY AlwaysModesApart, ModesApartIsOneMode, PTL

-----------------------------------------------------------------------------
(* What is operated on.                                                    *)

\* Rows and cursor stay, and so does the item under it.
LEMMA SameSelected ==
    ASSUME filterState' = filterState, items' = items, filtered' = filtered, index' = index
    PROVE  VisibleItems' = VisibleItems /\ SelectedItem' = SelectedItem
BY DEF VisibleItems, SelectedItem

LEMMA InitOperatesOnChosen == Init => OperatesOnChosen
BY DEF Init, OperatesOnChosen

\* While an operation is being chosen or typed, no key moves the cursor or changes
\* the rows; what changes the rows forgets the choice.
LEMMA StepOperatesOnChosen ==
    OperatesOnChosen /\ ModesApart /\ [Next]_vars => OperatesOnChosen'
<1>. SUFFICES ASSUME OperatesOnChosen, ModesApart, [Next]_vars
              PROVE  OperatesOnChosen'
  OBVIOUS
<1>0. \/ execState' = "none"
      \/ chosen' = None
      \/ SelectedItem' = chosen'
      \/ UNCHANGED <<execState, chosen, filterState, items, filtered, index>>
      \/ execState # "none" /\ UNCHANGED <<chosen, filterState, items, filtered, index>>
  <2>. USE DEF modeVars, searchVars, filterVars, rowVars, Browsing, Plain
  <2>1. CASE MoveCursor
    BY <2>1 DEF MoveCursor, ListModelKey
  <2>2. CASE StartFind
    BY <2>2 DEF StartFind
  <2>3. CASE FindKey
    BY <2>3 DEF FindKey, Finding, ModesApart
  <2>4. CASE StartSearch
    BY <2>4 DEF StartSearch
  <2>5. CASE \E text \in Texts \cup {Empty} : TypeSearch(text)
    BY <2>5 DEF TypeSearch
  <2>6. CASE ConfirmSearch
    BY <2>6 DEF ConfirmSearch, Searching, ModesApart
  <2>7. CASE CancelSearch
    BY <2>7 DEF CancelSearch
  <2>8. CASE \E step \in {1, -1} : GoToMatch(step)
    BY <2>8 DEF GoToMatch
  <2>9. CASE StartFilter
    BY <2>9 DEF StartFilter
  <2>10. CASE \E text \in Texts \cup {Empty} : TypeFilter(text)
    BY <2>10 DEF TypeFilter
  <2>11. CASE AcceptFilter
    BY <2>11 DEF AcceptFilter, Filtering, ModesApart
  <2>12. CASE ResetFilter
    BY <2>12 DEF ResetFilter, Filtering, ModesApart
  <2>13. CASE \E rows \in answers : DeliverAnswer(rows)
    BY <2>13 DEF DeliverAnswer
  <2>14. CASE StartSortPick
    BY <2>14 DEF StartSortPick
  <2>15. CASE SortPickKey
    BY <2>15 DEF SortPickKey, RefreshItems
  <2>16. CASE ToggleColumns \/ SetSize
    BY <2>16 DEF ToggleColumns, SetSize, RefreshItems
  <2>17. CASE StartCopy \/ CopyKey
    BY <2>17 DEF StartCopy, CopyKey
  <2>18. CASE StartExec
    BY <2>18, SameSelected DEF StartExec, ExecUnchanged
  <2>19. CASE ExecMenuKey
    BY <2>19 DEF ExecMenuKey, ExecUnchanged
  <2>20. CASE EndExec
    BY <2>20 DEF EndExec
  <2>21. CASE PushView \/ PopAbove
    BY <2>21 DEF PushView, PopAbove
  <2>22. CASE UNCHANGED vars
    BY <2>22 DEF vars
  <2>. QED
    BY <2>1, <2>2, <2>3, <2>4, <2>5, <2>6, <2>7, <2>8, <2>9, <2>10, <2>11, <2>12, <2>13,
       <2>14, <2>15, <2>16, <2>17, <2>18, <2>19, <2>20, <2>21, <2>22 DEF Next
<1>. QED  BY <1>0, SameSelected DEF OperatesOnChosen

\* What is deleted, restarted or scaled is what was under the cursor when x was
\* pressed, unless the rows have been changed from outside since.
THEOREM OperatedOnIsChosen == Spec => []OperatesOnChosen
BY AlwaysModesApart, InitOperatesOnChosen, StepOperatesOnChosen, PTL DEF Spec

-----------------------------------------------------------------------------
(* The matches of a search.                                                *)

LEMMA NothingMatchesEmpty == ASSUME NEW rows PROVE RowsMatching(Empty, rows) = <<>>
BY DEF RowsMatching

LEMMA InitMatches == Init => MatchesAreVisibleRows
BY NothingMatchesEmpty DEF Init, MatchesAreVisibleRows

\* Whatever changes the visible rows computes the matches anew.
LEMMA StepMatches == MatchesAreVisibleRows /\ [Next]_vars => MatchesAreVisibleRows'
<1>. SUFFICES ASSUME MatchesAreVisibleRows, [Next]_vars
              PROVE  MatchesAreVisibleRows'
  OBVIOUS
<1>0. \/ searchActive'
      \/ matchRows' = RowsMatching(searchQuery', VisibleItems')
      \/ ~searchActive /\ UNCHANGED <<searchQuery, matchRows, VisibleItems>>
  <2>. USE DEF modeVars, searchVars, filterVars, rowVars, Browsing, Plain, VisibleItems
  <2>1. CASE MoveCursor
    BY <2>1 DEF MoveCursor, ListModelKey, RecomputeMatches
  <2>2. CASE StartFind \/ FindKey
    BY <2>2 DEF StartFind, FindKey, Finding
  <2>3. CASE StartSearch
    BY <2>3 DEF StartSearch
  <2>4. CASE \E text \in Texts \cup {Empty} : TypeSearch(text)
    BY <2>4 DEF TypeSearch, Searching
  <2>5. CASE ConfirmSearch
    BY <2>5 DEF ConfirmSearch
  <2>6. CASE CancelSearch
    BY <2>6, NothingMatchesEmpty DEF CancelSearch
  <2>7. CASE \E step \in {1, -1} : GoToMatch(step)
    BY <2>7 DEF GoToMatch
  <2>8. CASE StartFilter
    BY <2>8 DEF StartFilter, RecomputeMatches
  <2>9. CASE \E text \in Texts \cup {Empty} : TypeFilter(text)
    BY <2>9 DEF TypeFilter, RecomputeMatches
  <2>10. CASE AcceptFilter
    BY <2>10 DEF AcceptFilter, RecomputeMatches
  <2>11. CASE ResetFilter
    BY <2>11 DEF ResetFilter, RecomputeMatches
  <2>12. CASE \E rows \in answers : DeliverAnswer(rows)
    BY <2>12 DEF DeliverAnswer, RecomputeMatches
  <2>13. CASE StartSortPick
    BY <2>13 DEF StartSortPick
  <2>14. CASE SortPickKey
    BY <2>14 DEF SortPickKey, SortPicks, RefreshItems, RecomputeMatches
  <2>15. CASE ToggleColumns \/ SetSize
    BY <2>15 DEF ToggleColumns, SetSize, RefreshItems, RecomputeMatches
  <2>16. CASE StartCopy \/ CopyKey
    BY <2>16 DEF StartCopy, CopyKey, Copying
  <2>17. CASE StartExec \/ ExecMenuKey \/ EndExec
    BY <2>17 DEF StartExec, ExecMenuKey, EndExec, Executing, ExecUnchanged
  <2>18. CASE PushView \/ PopAbove
    BY <2>18 DEF PushView, PopAbove
  <2>19. CASE UNCHANGED vars
    BY <2>19 DEF vars
  <2>. QED
    BY <2>1, <2>2, <2>3, <2>4, <2>5, <2>6, <2>7, <2>8, <2>9, <2>10, <2>11, <2>12, <2>13,
       <2>14, <2>15, <2>16, <2>17, <2>18, <2>19 DEF Next
<1>. QED  BY <1>0 DEF MatchesAreVisibleRows

\* n and b lead to the visible rows that match, all of them and no others, under
\* every filter, refresh and late answer.
THEOREM MatchesVisible == Spec => []MatchesAreVisibleRows
BY InitMatches, StepMatches, PTL DEF Spec

-----------------------------------------------------------------------------
(* The rows, and the matches among them.                                   *)

\* Induction over the numbers, for a set.
LEMMA AllNumbers ==
    ASSUME NEW P, 0 \in P, \A n \in Nat : n \in P => n + 1 \in P
    PROVE  Nat \subseteq P
<1>. SUFFICES ASSUME ~(Nat \subseteq P)
              PROVE  FALSE
  OBVIOUS
<1>. DEFINE left == {n \in Nat : n \notin P}
<1>1. PICK n \in left : \A e \in left : ~ (<<e, n>> \in OpToRel(<, Nat))
  BY NatLessThanWellFounded, WFMin
<1>2. \A e \in left : ~ (e < n)
  BY <1>1 DEF OpToRel
<1>3. n \in Nat /\ n \notin P /\ n # 0
  BY <1>1
<1>4. n - 1 \in P
  BY <1>2, <1>3
<1>. QED
  BY <1>3, <1>4

\* Numbers that have a bound can be put in order: the greatest comes last.
LEMMA RisingExists ==
    ASSUME NEW n \in Nat, NEW S, S \subseteq 0 .. n - 1
    PROVE  IsFiniteSet(S) /\ \E s \in [1 .. Cardinality(S) -> S] : IsRising(s)
<1>. DEFINE Good(S0) == IsFiniteSet(S0) /\ \E s \in [1 .. Cardinality(S0) -> S0] : IsRising(s)
            P == {k \in Nat : \A S0 \in SUBSET (0 .. k - 1) : Good(S0)}
<1>1. 0 \in P
  <2>1. 0 .. 0 - 1 = {} /\ 1 .. 0 = {}
    OBVIOUS
  <2>2. IsFiniteSet({}) /\ Cardinality({}) = 0
    BY FS_EmptySet
  <2>. DEFINE e == [i \in {} |-> 0]
  <2>3. e \in [1 .. 0 -> {}] /\ IsRising(e)
    BY <2>1 DEF IsRising
  <2>4. Good({})
    BY <2>2, <2>3
  <2>. QED
    BY <2>1, <2>4
<1>2. ASSUME NEW k \in Nat, k \in P
      PROVE  k + 1 \in P
  <2>. SUFFICES ASSUME NEW S0 \in SUBSET (0 .. (k + 1) - 1)
                PROVE  Good(S0)
    OBVIOUS
  <2>1. \A x \in S0 : x \in Nat /\ (x = k \/ x \in 0 .. k - 1)
    OBVIOUS
  <2>2. CASE k \notin S0
    <3>1. S0 \in SUBSET (0 .. k - 1)
      BY <2>1, <2>2
    <3>. QED
      BY <1>2, <3>1
  <2>3. CASE k \in S0
    <3>. DEFINE T == S0 \ {k}
                c == Cardinality(T)
    <3>1. T \in SUBSET (0 .. k - 1)
      BY <2>1
    <3>2. IsFiniteSet(T) /\ \E s \in [1 .. c -> T] : IsRising(s)
      BY <1>2, <3>1
    <3>3. PICK s \in [1 .. c -> T] : IsRising(s)
      BY <3>2
    <3>4. T \cup {k} = S0 /\ k \notin T
      BY <2>3
    <3>5. IsFiniteSet(S0) /\ Cardinality(S0) = c + 1 /\ c \in Nat
      <4>1. Cardinality(T \cup {k}) = Cardinality(T) + 1 /\ IsFiniteSet(T \cup {k})
        BY <3>2, FS_AddElement
      <4>2. Cardinality(T) \in Nat
        BY <3>2, FS_CardinalityType
      <4>. QED
        BY <3>4, <4>1, <4>2
    <3>6. \A x \in T : x \in Nat /\ x < k
      BY <3>1
    <3>. HIDE DEF c, T
    <3>. DEFINE f == [i \in 1 .. c + 1 |-> IF i = c + 1 THEN k ELSE s[i]]
    <3>7. \A i \in 1 .. c + 1 : i # c + 1 => i \in 1 .. c
      BY <3>5
    <3>8. f \in [1 .. c + 1 -> S0]
      BY <2>3, <3>4, <3>7
    <3>9. IsRising(f)
      <4>. SUFFICES ASSUME NEW i \in 1 .. c + 1, NEW j \in 1 .. c + 1, i < j
                    PROVE  f[i] < f[j]
        BY DEF IsRising
      <4>1. i # c + 1 /\ i \in 1 .. c
        BY <3>5
      <4>2. f[i] = s[i] /\ s[i] \in T
        BY <4>1
      <4>3. CASE j = c + 1
        BY <3>6, <4>2, <4>3
      <4>4. CASE j # c + 1
        <5>1. j \in 1 .. c /\ f[j] = s[j]
          BY <3>7, <4>4
        <5>2. i \in DOMAIN s /\ j \in DOMAIN s
          BY <4>1, <5>1
        <5>. QED
          BY <3>3, <4>2, <5>1, <5>2 DEF IsRising
      <4>. QED
        BY <4>3, <4>4
    <3>. HIDE DEF f
    <3>. QED
      BY <3>5, <3>8, <3>9
  <2>. QED
    BY <2>2, <2>3
<1>. HIDE DEF P
<1>3. n \in P
  BY <1>1, <1>2, AllNumbers
<1>. QED
  BY <1>3 DEF P

\* The numbers in order are these numbers, each above the one before.
LEMMA RisingIs ==
    ASSUME NEW n \in Nat, NEW S, S \subseteq 0 .. n - 1
    PROVE  Rising(S) \in Seq(S) /\ IsRising(Rising(S))
<1>. DEFINE c == Cardinality(S)
<1>1. IsFiniteSet(S)
  BY RisingExists
<1>2. PICK s \in [1 .. c -> S] : IsRising(s)
  BY RisingExists
<1>3. c \in Nat
  BY <1>1, FS_CardinalityType
<1>. HIDE DEF c
<1>4. \A i, j \in 1 .. c : i # j => s[i] # s[j]
  <2>. TAKE i, j \in 1 .. c
  <2>0. \A x \in S : x \in Nat
    OBVIOUS
  <2>1. s[i] \in Nat /\ s[j] \in Nat /\ i \in Nat /\ j \in Nat
    <3>1. s[i] \in S /\ s[j] \in S
      OBVIOUS
    <3>2. i \in Nat /\ j \in Nat
      BY <1>3
    <3>. QED
      BY <2>0, <3>1, <3>2
  <2>2. i < j => s[i] < s[j]
    BY <1>2 DEF IsRising
  <2>3. j < i => s[j] < s[i]
    BY <1>2 DEF IsRising
  <2>. QED
    BY <2>1, <2>2, <2>3
<1>5. s \in SetToSeqs(S)
  BY <1>4 DEF SetToSeqs, c
<1>6. Rising(S) \in SetToSeqs(S) /\ IsRising(Rising(S))
  BY <1>2, <1>5 DEF Rising
<1>7. Rising(S) \in [1 .. c -> S]
  BY <1>6 DEF SetToSeqs, c
<1>8. Rising(S) \in Seq(S)
  BY <1>3, <1>7
<1>. QED
  BY <1>6, <1>8

\* The rows of a refresh are items in the order that is on (listview.go, refreshItems).
LEMMA SortedIs ==
    ASSUME NEW there \in SUBSET Items, NEW desc \in BOOLEAN
    PROVE  Sorted(there, desc) \in Seq(Items) /\ InOrder(Sorted(there, desc), desc)
<1>. DEFINE s == Rising(there)
<1>1. PICK last \in Items \cup {0} : \A item \in Items : item <= last
  BY ListViewConstants
<1>2. last \in Nat /\ last + 1 \in Nat /\ there \subseteq 0 .. (last + 1) - 1
  BY <1>1, ListViewConstants
<1>3. s \in Seq(there) /\ IsRising(s)
  BY <1>2, RisingIs
<1>4. s \in Seq(Items)
  BY <1>3, SeqMonotonic
<1>5. CASE ~desc
  BY <1>3, <1>4, <1>5 DEF Sorted, InOrder
<1>6. CASE desc
  <2>1. Sorted(there, desc) = Reverse(s)
    BY <1>6 DEF Sorted
  <2>. HIDE DEF s
  <2>. DEFINE n == Len(s)
              r == [i \in 1 .. n |-> s[(n - i) + 1]]
  <2>2. n \in Nat /\ DOMAIN s = 1 .. n /\ \A i \in 1 .. n : s[i] \in Items /\ s[i] \in Nat
    <3>1. Items \subseteq Nat
      BY ListViewConstants
    <3>2. n \in Nat /\ DOMAIN s = 1 .. n /\ \A i \in 1 .. n : s[i] \in Items
      BY <1>4
    <3>. QED
      BY <3>1, <3>2
  <2>3. Reverse(s) = r
    BY DEF Reverse
  <2>. HIDE DEF n
  <2>4. \A i \in 1 .. n : (n - i) + 1 \in 1 .. n
    BY <2>2
  <2>5. r \in Seq(Items)
    BY <2>2, <2>4
  <2>6. IsFalling(r)
    <3>. SUFFICES ASSUME NEW i \in 1 .. n, NEW j \in 1 .. n, i < j
                  PROVE  r[i] > r[j]
      BY DEF IsFalling
    <3>1. (n - j) + 1 < (n - i) + 1 /\ (n - i) + 1 \in 1 .. n /\ (n - j) + 1 \in 1 .. n
      BY <2>2, <2>4
    <3>2. s[(n - j) + 1] < s[(n - i) + 1]
      BY <1>3, <2>2, <3>1 DEF IsRising
    <3>. QED
      BY <2>2, <3>1, <3>2
  <2>. QED
    BY <1>6, <2>1, <2>3, <2>5, <2>6 DEF InOrder
<1>. QED
  BY <1>5, <1>6

\* Rows in order have each item once.
LEMMA OrderedOnce ==
    ASSUME NEW rows \in Seq(Items), NEW desc \in BOOLEAN, InOrder(rows, desc)
    PROVE  IsList(rows)
<1>1. \A i \in DOMAIN rows : i \in Nat /\ rows[i] \in Nat
  <2>1. Items \subseteq Nat
    BY ListViewConstants
  <2>2. DOMAIN rows = 1 .. Len(rows) /\ Len(rows) \in Nat
    OBVIOUS
  <2>3. \A i \in 1 .. Len(rows) : rows[i] \in Items /\ i \in Nat
    OBVIOUS
  <2>. QED
    BY <2>1, <2>2, <2>3
<1>2. ASSUME NEW i \in DOMAIN rows, NEW j \in DOMAIN rows, rows[i] = rows[j]
      PROVE  i = j
  <2>1. i < j => rows[i] # rows[j]
    BY <1>1 DEF InOrder, IsRising, IsFalling
  <2>2. j < i => rows[i] # rows[j]
    BY <1>1 DEF InOrder, IsRising, IsFalling
  <2>. QED
    BY <1>1, <1>2, <2>1, <2>2
<1>. QED
  BY <1>2 DEF IsList, IsInjective

\* Matches are rows, from the top (listview.go, recomputeMatches).
LEMMA MatchingRows ==
    ASSUME NEW query, NEW rows \in Seq(Items)
    PROVE  RowsMatching(query, rows) \in Seq(Nat \ {0}) /\ IsRising(RowsMatching(query, rows))
<1>1. CASE query = Empty
  <2>1. <<>> \in Seq(Nat \ {0}) /\ IsRising(<<>>)
    BY DEF IsRising
  <2>. QED
    BY <1>1, <2>1 DEF RowsMatching
<1>2. CASE query # Empty
  <2>. DEFINE S == {i \in DOMAIN rows : Matches(query, rows[i])}
              n == Len(rows)
  <2>1. RowsMatching(query, rows) = Rising(S)
    BY <1>2 DEF RowsMatching
  <2>2. n + 1 \in Nat /\ S \subseteq 0 .. (n + 1) - 1 /\ S \subseteq Nat \ {0}
    OBVIOUS
  <2>. HIDE DEF S
  <2>3. Rising(S) \in Seq(S) /\ IsRising(Rising(S))
    BY <2>2, RisingIs
  <2>4. Rising(S) \in Seq(Nat \ {0})
    BY <2>2, <2>3, SeqMonotonic
  <2>. QED
    BY <2>1, <2>3, <2>4
<1>. QED
  BY <1>1, <1>2

\* The rows that can be seen are a list, and the cursor is on one of them or below them.
LEMMA VisibleList ==
    ASSUME TypeOK
    PROVE  VisibleItems \in Seq(Items) /\ SelectedItem \in Items \cup {None}
<1>1. VisibleItems \in Seq(Items)
  BY DEF TypeOK, VisibleItems, IsList
<1>. QED
  BY <1>1 DEF SelectedItem

\* Matches that are computed anew are rows, and the current one is among them.
LEMMA Recomputed ==
    ASSUME matchIndex \in Nat \ {0}, RecomputeMatches, VisibleItems' \in Seq(Items)
    PROVE  /\ matchRows' \in Seq(Nat \ {0}) /\ IsRising(matchRows')
           /\ matchIndex' \in IF matchRows' = <<>> THEN {1} ELSE DOMAIN matchRows'
<1>1. matchRows' = RowsMatching(searchQuery', VisibleItems')
  BY DEF RecomputeMatches
<1>2. matchRows' \in Seq(Nat \ {0}) /\ IsRising(matchRows')
  BY <1>1, MatchingRows
<1>3. Len(matchRows') \in Nat /\ DOMAIN matchRows' = 1 .. Len(matchRows')
  BY <1>2
<1>4. searchQuery' = Empty => matchRows' = <<>>
  BY <1>1 DEF RowsMatching
<1>5. matchIndex' \in IF matchRows' = <<>> THEN {1} ELSE DOMAIN matchRows'
  <2>1. CASE matchRows' = <<>>
    BY <2>1 DEF RecomputeMatches
  <2>2. CASE matchRows' # <<>>
    <3>1. Len(matchRows') # 0
      BY <1>2, <2>2
    <3>2. matchIndex' = IF matchIndex > Len(matchRows') THEN Len(matchRows') ELSE matchIndex
      BY <1>4, <2>2 DEF RecomputeMatches
    <3>3. matchIndex' \in 1 .. Len(matchRows')
      BY <1>3, <3>1, <3>2
    <3>. QED
      BY <1>3, <2>2, <3>3
  <2>. QED
    BY <2>1, <2>2
<1>. QED
  BY <1>2, <1>5

\* The type invariant but for the rows, the matches and the cursor.
ModesOK ==
    /\ kind \in Kinds
    /\ filterState \in {"unfiltered", "filtering", "applied"}
    /\ filterValue \in Texts \cup {Empty}
    /\ covered \in BOOLEAN
    /\ searchActive \in BOOLEAN
    /\ searchQuery \in Texts \cup {Empty}
    /\ findMode \in BOOLEAN
    /\ sortPickMode \in BOOLEAN
    /\ copyMode \in BOOLEAN
    /\ execState \in {"none", "menu", "confirmDelete", "confirmRestart", "inputScale", "inputPortFwd"}
    /\ chosen \in Items \cup {None}

RowsOK ==
    /\ IsList(items) /\ sortDesc \in BOOLEAN /\ InOrder(items, sortDesc)
    /\ IsList(filtered)
    /\ \A rows \in answers : IsList(rows)

MatchesOK ==
    /\ matchRows \in Seq(Nat \ {0}) /\ IsRising(matchRows)
    /\ matchIndex \in IF matchRows = <<>> THEN {1} ELSE DOMAIN matchRows

\* The parts are the whole.
LEMMA TypeParts == TypeOK <=> ModesOK /\ RowsOK /\ MatchesOK /\ index \in Nat \ {0}
  BY DEF TypeOK, ModesOK, RowsOK, MatchesOK

\* A current match has a number.
LEMMA MatchIndexIsNumber == ASSUME MatchesOK PROVE matchIndex \in Nat \ {0}
<1>1. DOMAIN matchRows = 1 .. Len(matchRows)
  BY DEF MatchesOK
<1>. QED
  BY <1>1 DEF MatchesOK

\* No rows are a list.
LEMMA NoRows == IsList(<<>>)
  BY DEF IsList, IsInjective

\* Rows that are refreshed are a list in the order that is on, and those a filter showed
\* are gone.
LEMMA RefreshedRows ==
    ASSUME RowsOK, RefreshItems, sortDesc' \in BOOLEAN, UNCHANGED answers
    PROVE  RowsOK' /\ VisibleItems' \in Seq(Items)
<1>1. PICK there \in SUBSET Items : items' = Sorted(there, sortDesc')
  BY DEF RefreshItems
<1>2. items' \in Seq(Items) /\ InOrder(items', sortDesc')
  BY <1>1, SortedIs
<1>3. IsList(items')
  BY <1>2, OrderedOnce
<1>4. IsList(filtered')
  BY NoRows DEF RefreshItems, RowsOK
<1>. QED
  BY <1>2, <1>3, <1>4 DEF RowsOK, VisibleItems, IsList

\* The list starts with rows and in no mode.
LEMMA InitTypeOK == Init => TypeOK
<1>. SUFFICES ASSUME Init
              PROVE  TypeOK
  OBVIOUS
<1>1. PICK there \in SUBSET Items : items = Sorted(there, FALSE)
  BY DEF Init
<1>2. items \in Seq(Items) /\ InOrder(items, FALSE)
  BY <1>1, SortedIs
<1>3. IsList(items) /\ IsList(<<>>)
  BY <1>2, NoRows, OrderedOnce
<1>4. ModesOK
  BY DEF Init, ModesOK
<1>5. RowsOK
  BY <1>2, <1>3 DEF Init, RowsOK
<1>6. MatchesOK /\ index \in Nat \ {0}
  <2>1. <<>> \in Seq(Nat \ {0}) /\ IsRising(<<>>)
    BY DEF IsRising
  <2>. QED
    BY <2>1 DEF Init, MatchesOK
<1>. QED
  BY <1>4, <1>5, <1>6, TypeParts

\* Every step keeps the modes what they are.
LEMMA StepModesOK == TypeOK /\ [Next]_vars => ModesOK'
<1>. SUFFICES ASSUME ModesOK, SelectedItem \in Items \cup {None}, [Next]_vars
              PROVE  ModesOK'
  BY TypeParts, VisibleList
<1>. USE DEF ModesOK, modeVars, searchVars, filterVars, rowVars
<1>1. CASE MoveCursor
  BY <1>1 DEF MoveCursor, ListModelKey, RecomputeMatches
<1>2. CASE StartFind \/ FindKey
  BY <1>2 DEF StartFind, FindKey
<1>3. CASE StartSearch
  BY <1>3 DEF StartSearch
<1>4. CASE \E text \in Texts \cup {Empty} : TypeSearch(text)
  BY <1>4 DEF TypeSearch
<1>5. CASE ConfirmSearch \/ CancelSearch
  BY <1>5 DEF ConfirmSearch, CancelSearch
<1>6. CASE \E step \in {1, -1} : GoToMatch(step)
  BY <1>6 DEF GoToMatch
<1>7. CASE StartFilter
  BY <1>7 DEF StartFilter
<1>8. CASE \E text \in Texts \cup {Empty} : TypeFilter(text)
  BY <1>8 DEF TypeFilter
<1>9. CASE AcceptFilter
  BY <1>9 DEF AcceptFilter, NoFilter
<1>10. CASE ResetFilter
  BY <1>10 DEF ResetFilter, NoFilter
<1>11. CASE \E rows \in answers : DeliverAnswer(rows)
  BY <1>11 DEF DeliverAnswer
<1>12. CASE StartSortPick
  BY <1>12 DEF StartSortPick
<1>13. CASE SortPickKey
  BY <1>13 DEF SortPickKey, RefreshItems
<1>14. CASE ToggleColumns \/ SetSize
  BY <1>14 DEF ToggleColumns, SetSize, RefreshItems
<1>15. CASE StartCopy \/ CopyKey
  BY <1>15 DEF StartCopy, CopyKey
<1>16. CASE StartExec
  BY <1>16 DEF StartExec, ExecUnchanged
<1>17. CASE ExecMenuKey
  BY <1>17 DEF ExecMenuKey, ExecOperations, ExecUnchanged
<1>18. CASE EndExec
  BY <1>18 DEF EndExec, ExecUnchanged
<1>19. CASE PushView \/ PopAbove
  BY <1>19 DEF PushView, PopAbove
<1>20. CASE UNCHANGED vars
  BY <1>20 DEF vars
<1>. QED
  BY <1>1, <1>2, <1>3, <1>4, <1>5, <1>6, <1>7, <1>8, <1>9, <1>10, <1>11, <1>12, <1>13,
     <1>14, <1>15, <1>16, <1>17, <1>18, <1>19, <1>20 DEF Next

\* What is known after a step whose rows, matches and cursor are right.
LEMMA KeepsRows ==
    ASSUME RowsOK, UNCHANGED <<items, sortDesc, answers, filtered>>
    PROVE  RowsOK'
  BY DEF RowsOK

\* Every step keeps the rows lists: the answers of the filter, whatever has become of the
\* items since, and those that a refresh reads.
LEMMA StepRowsOK == TypeOK /\ [Next]_vars => RowsOK'
<1>. SUFFICES ASSUME RowsOK, [Next]_vars
              PROVE  RowsOK'
  BY TypeParts
<1>. USE DEF modeVars, searchVars, filterVars, rowVars
<1>1. CASE MoveCursor \/ StartFind \/ FindKey \/ StartSearch \/ ConfirmSearch \/ CancelSearch
  BY <1>1, KeepsRows
     DEF MoveCursor, ListModelKey, StartFind, FindKey, StartSearch, ConfirmSearch, CancelSearch
<1>2. CASE \/ \E text \in Texts \cup {Empty} : TypeSearch(text)
           \/ \E step \in {1, -1} : GoToMatch(step)
  BY <1>2, KeepsRows DEF TypeSearch, GoToMatch
<1>3. CASE StartFilter
  BY <1>3 DEF StartFilter, RowsOK
<1>4. ASSUME NEW text \in Texts \cup {Empty}, TypeFilter(text)
      PROVE  RowsOK'
  <2>. DEFINE S == {item \in ToSet(items) : Matches(text, item)}
  <2>1. PICK rows \in SetToSeqs(S) : answers' = answers \cup {rows}
    BY <1>4 DEF TypeFilter
  <2>2. UNCHANGED <<items, sortDesc, filtered>>
    BY <1>4 DEF TypeFilter
  <2>3. S \subseteq Items /\ IsFiniteSet(S)
    <3>1. items \in Seq(Items)
      BY DEF RowsOK, IsList
    <3>2. S \subseteq Items
      BY <3>1 DEF ToSet
    <3>3. PICK last \in Items \cup {0} : \A item \in Items : item <= last
      BY ListViewConstants
    <3>. HIDE DEF S
    <3>4. last \in Nat /\ last + 1 \in Nat /\ S \subseteq 0 .. (last + 1) - 1
      <4>1. Items \subseteq Nat
        BY ListViewConstants
      <4>2. last \in Nat
        BY <4>1
      <4>3. \A item \in S : item \in Nat /\ item <= last
        BY <3>2, <3>3, <4>1
      <4>. QED
        BY <4>2, <4>3
    <3>. QED
      BY <3>2, <3>4, RisingExists
  <2>4. IsList(rows)
    <3>. HIDE DEF S
    <3>. DEFINE c == Cardinality(S)
    <3>1. c \in Nat
      BY <2>3, FS_CardinalityType
    <3>2. rows \in [1 .. c -> S] /\ \A i, j \in 1 .. c : i # j => rows[i] # rows[j]
      BY <2>1 DEF SetToSeqs
    <3>. HIDE DEF c
    <3>3. rows \in Seq(S)
      BY <3>1, <3>2
    <3>4. rows \in Seq(Items)
      BY <2>3, <3>3, SeqMonotonic
    <3>5. IsInjective(rows)
      BY <3>2 DEF IsInjective
    <3>. QED
      BY <3>4, <3>5 DEF IsList
  <2>. QED
    BY <2>1, <2>2, <2>4 DEF RowsOK
<1>5. CASE AcceptFilter \/ ResetFilter
  BY <1>5, NoRows DEF AcceptFilter, ResetFilter, NoFilter, RowsOK
<1>6. ASSUME NEW rows \in answers, DeliverAnswer(rows)
      PROVE  RowsOK'
  BY <1>6 DEF DeliverAnswer, RowsOK
<1>7. CASE SortPickKey
  <2>1. CASE UNCHANGED <<rowVars, filterVars, searchQuery, matchRows, matchIndex, chosen>>
    BY <1>7, <2>1, KeepsRows DEF SortPickKey
  <2>2. CASE sortDesc' \in BOOLEAN /\ RefreshItems
    BY <1>7, <2>2, RefreshedRows DEF SortPickKey
  <2>. QED
    BY <1>7, <2>1, <2>2 DEF SortPickKey
<1>8. CASE ToggleColumns \/ SetSize
  <2>1. sortDesc \in BOOLEAN
    BY DEF RowsOK
  <2>. QED
    BY <1>8, <2>1, RefreshedRows DEF ToggleColumns, SetSize
<1>9. CASE StartSortPick \/ StartCopy \/ CopyKey
  BY <1>9, KeepsRows DEF StartSortPick, StartCopy, CopyKey
<1>10. CASE StartExec \/ ExecMenuKey \/ EndExec
  BY <1>10, KeepsRows DEF StartExec, ExecMenuKey, EndExec, ExecUnchanged
<1>11. CASE PushView \/ PopAbove
  BY <1>11, KeepsRows DEF PushView, PopAbove
<1>12. CASE UNCHANGED vars
  BY <1>12, KeepsRows DEF vars
<1>. QED
  BY <1>1, <1>2, <1>3, <1>4, <1>5, <1>6, <1>7, <1>8, <1>9, <1>10, <1>11, <1>12 DEF Next

\* A place that is stepped round the ends is a place.
LEMMA RoundTheEnds ==
    ASSUME NEW n \in Nat \ {0}, NEW k \in 1 .. n, NEW step \in {1, -1}
    PROVE  ((k - 1 + step + n) % n) + 1 \in 1 .. n
<1>1. k - 1 + step + n \in Int
  OBVIOUS
<1>2. \A m \in Int : m % n \in 0 .. n - 1
  OBVIOUS
<1>. QED
  BY <1>1, <1>2

\* Every step keeps the matches numbers of rows, from the top, and the cursor on a row.
LEMMA StepMatchesOK == TypeOK /\ [Next]_vars => MatchesOK' /\ index' \in Nat \ {0}
<1>. SUFFICES ASSUME TypeOK, [Next]_vars
              PROVE  MatchesOK' /\ index' \in Nat \ {0}
  OBVIOUS
<1>1. /\ MatchesOK /\ RowsOK /\ index \in Nat \ {0}
      /\ matchIndex \in Nat \ {0}
      /\ VisibleItems \in Seq(Items)
  BY TypeParts, MatchIndexIsNumber, VisibleList
<1>2. VisibleItems' \in Seq(Items)
  BY StepRowsOK DEF RowsOK, VisibleItems, IsList
<1>3. /\ \A i \in DOMAIN VisibleItems : i \in Nat \ {0}
      /\ \A i \in DOMAIN matchRows : matchRows[i] \in Nat \ {0} /\ i \in Nat
      /\ DOMAIN matchRows = 1 .. Len(matchRows) /\ Len(matchRows) \in Nat
      /\ matchRows # <<>> => Len(matchRows) # 0
  BY <1>1 DEF MatchesOK
<1>4. ASSUME RecomputeMatches
      PROVE  MatchesOK'
  BY <1>1, <1>2, <1>4, Recomputed DEF MatchesOK
<1>5. ASSUME UNCHANGED <<matchRows, matchIndex>>
      PROVE  MatchesOK'
  BY <1>1, <1>5 DEF MatchesOK
<1>6. ASSUME matchRows' = <<>>, matchIndex' = 1
      PROVE  MatchesOK'
  <2>1. <<>> \in Seq(Nat \ {0}) /\ IsRising(<<>>)
    BY DEF IsRising
  <2>. QED
    BY <1>6, <2>1 DEF MatchesOK
<1>. USE DEF modeVars, searchVars, filterVars, rowVars
<1>7. CASE MoveCursor
  BY <1>1, <1>3, <1>4, <1>7 DEF MoveCursor, ListModelKey
<1>8. CASE StartFind \/ FindKey
  BY <1>1, <1>3, <1>5, <1>8 DEF StartFind, FindKey
<1>9. CASE StartSearch \/ CancelSearch
  BY <1>1, <1>6, <1>9 DEF StartSearch, CancelSearch
<1>10. CASE \E text \in Texts \cup {Empty} : TypeSearch(text)
  BY <1>1, <1>5, <1>10 DEF TypeSearch
<1>11. CASE ConfirmSearch
  <2>1. /\ matchRows' = RowsMatching(searchQuery, VisibleItems) /\ matchIndex' = 1
        /\ index' = IF matchRows' = <<>> THEN index ELSE matchRows'[1]
    BY <1>11 DEF ConfirmSearch
  <2>2. matchRows' \in Seq(Nat \ {0}) /\ IsRising(matchRows')
    BY <1>1, <2>1, MatchingRows
  <2>3. matchRows' # <<>> => 1 \in DOMAIN matchRows' /\ matchRows'[1] \in Nat \ {0}
    BY <2>2
  <2>. QED
    BY <1>1, <2>1, <2>2, <2>3 DEF MatchesOK
<1>12. ASSUME NEW step \in {1, -1}, GoToMatch(step)
       PROVE  MatchesOK' /\ index' \in Nat \ {0}
  <2>. DEFINE n == Len(matchRows)
  <2>1. /\ matchRows # <<>> /\ matchRows' = matchRows
        /\ matchIndex' = ((matchIndex - 1 + step + n) % n) + 1
        /\ index' = matchRows[matchIndex']
    BY <1>12 DEF GoToMatch
  <2>2. n \in Nat \ {0} /\ matchIndex \in 1 .. n
    BY <1>1, <1>3, <2>1 DEF MatchesOK
  <2>. HIDE DEF n
  <2>3. matchIndex' \in 1 .. n
    BY <2>1, <2>2, RoundTheEnds
  <2>4. matchIndex' \in DOMAIN matchRows
    BY <1>3, <2>3 DEF n
  <2>. QED
    BY <1>1, <1>3, <2>1, <2>4 DEF MatchesOK
<1>13. CASE StartFilter
  BY <1>4, <1>13 DEF StartFilter
<1>14. CASE \E text \in Texts \cup {Empty} : TypeFilter(text)
  BY <1>1, <1>4, <1>14 DEF TypeFilter
<1>15. CASE AcceptFilter \/ ResetFilter
  BY <1>1, <1>4, <1>15 DEF AcceptFilter, ResetFilter
<1>16. CASE \E rows \in answers : DeliverAnswer(rows)
  BY <1>1, <1>4, <1>5, <1>16 DEF DeliverAnswer
<1>17. CASE StartSortPick \/ StartCopy \/ CopyKey
  BY <1>1, <1>5, <1>17 DEF StartSortPick, StartCopy, CopyKey
<1>18. CASE SortPickKey
  BY <1>1, <1>4, <1>5, <1>18 DEF SortPickKey, RefreshItems
<1>19. CASE ToggleColumns \/ SetSize
  BY <1>1, <1>4, <1>19 DEF ToggleColumns, SetSize, RefreshItems
<1>20. CASE StartExec \/ ExecMenuKey \/ EndExec
  BY <1>1, <1>5, <1>20 DEF StartExec, ExecMenuKey, EndExec, ExecUnchanged
<1>21. CASE PushView \/ PopAbove
  BY <1>1, <1>5, <1>21 DEF PushView, PopAbove
<1>22. CASE UNCHANGED vars
  BY <1>1, <1>5, <1>22 DEF vars
<1>. QED
  BY <1>7, <1>8, <1>9, <1>10, <1>11, <1>12, <1>13, <1>14, <1>15, <1>16, <1>17, <1>18,
     <1>19, <1>20, <1>21, <1>22 DEF Next

\* Whatever answers of the filter come, and whenever the rows are read again: rows are
\* items that are listed once, those of the list in the order that is on; matches are
\* rows from the top, the current one is among them, and the cursor is on a row.
THEOREM TypeCorrect == Spec => []TypeOK
<1>1. Init => TypeOK
  BY InitTypeOK
<1>2. TypeOK /\ [Next]_vars => TypeOK'
  <2>1. TypeOK' <=> ModesOK' /\ RowsOK' /\ MatchesOK' /\ index' \in Nat \ {0}
    BY DEF TypeOK, ModesOK, RowsOK, MatchesOK
  <2>. QED
    BY <2>1, StepModesOK, StepRowsOK, StepMatchesOK
<1>. QED
  BY <1>1, <1>2, PTL DEF Spec
=============================================================================
