------------------------------- MODULE MCPanels -------------------------------
(* Two kinds of objects, of which one has a wide table; a terminal that is wide   *)
(* enough for their tables, and one that is not.                                  *)
EXTENDS Panels

MCTableColumns == [pods |-> <<"name">>, secrets |-> <<"name">>]

MCTableColumnsWide == [pods |-> <<"name", "node">>, secrets |-> <<>>]

MCCellWidth ==
    [name |-> 9, node |-> 5, namespace |-> 9, app |-> 4]

MCColumnWidth ==
    [name |-> 48, node |-> 16, namespace |-> 16, app |-> 12]

\* By kind, and by source: the second is not built in.
MCBrowserRows == [pods |-> <<1, 1>>, secrets |-> <<2, 1>>]

MCBrowserCellWidths == <<6, 8>>

MCWindows == {[width |-> 30, height |-> 40], [width |-> 12, height |-> 12]}
=============================================================================
