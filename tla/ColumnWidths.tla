----------------------------- MODULE ColumnWidths -----------------------------
(***************************************************************************)
(* How wide the columns of a table are drawn.  The list view, the related  *)
(* view and the resource browser each have a function for it that starts   *)
(* from the widest cell or header of each column, the natural widths, and  *)
(* takes from the columns in rounds what is more than the table has room   *)
(* for (internal/ui/listview, relatedview, resourcebrowser).               *)
(***************************************************************************)
EXTENDS Integers, SequencesExt

Total(widths) == SumFunction(widths)

AtMost(bound, n) == IF n > bound THEN bound ELSE n

\* Two blanks between columns; one character each at least.
AvailableContent(columns, availableWidth) ==
    LET content == availableWidth - 2 * (columns - 1)
    IN  IF content < columns THEN columns ELSE content

\* The widths down to which a table is narrowed first, and last.
MinWidths(widths) == [i \in DOMAIN widths |-> AtMost(IF i = 1 THEN 6 ELSE 3, widths[i])]
Ones(widths)      == [i \in DOMAIN widths |-> 1]

\* Mutation: the first column gives nothing.
RoundSparingTheFirst(widths, least, available) ==
    LET Give(i, w) == IF i > 1 /\ Total(w) > available /\ w[i] > least[i]
                      THEN [w EXCEPT ![i] = @ - 1] ELSE w
    IN  FoldRight(Give, [i \in DOMAIN widths |-> i], widths)

\* One round, from the last column to the first: each that is wider than its least
\* width gives one while something is over.
Round(widths, least, available) ==
    LET Give(i, w) == IF Total(w) > available /\ w[i] > least[i]
                      THEN [w EXCEPT ![i] = @ - 1] ELSE w
    IN  FoldRight(Give, [i \in DOMAIN widths |-> i], widths)

\* Rounds until nothing is over or no column gives; a round that takes nothing is the
\* last that could.
Narrowed(widths, least, available) ==
    LET after[n \in 0 .. Total(widths)] ==
            IF n = 0 THEN widths ELSE Round(after[n - 1], least, available)
    IN  IF Total(widths) <= available THEN widths ELSE after[Total(widths)]

\* columnWidthsForRows of the list view, and relationColumnWidthsForRows.
ListWidths(natural, availableWidth) ==
    LET available == AvailableContent(Len(natural), availableWidth)
    IN  Narrowed(Narrowed(natural, MinWidths(natural), available), Ones(natural), available)

\* columnWidthsForRows of the resource browser, which ends at the minimum widths.
BrowserWidths(natural, availableWidth) ==
    Narrowed(natural, MinWidths(natural), AvailableContent(Len(natural), availableWidth))
=============================================================================
