----------------------------- MODULE FollowedLog -----------------------------
(***************************************************************************)
(* What the view of a followed log promises whoever reads it, without its  *)
(* streams, channels and messages: a run of lines that grows at its end by *)
(* the line that comes next, and is never broken by what the view asks for *)
(* next.  LogViews implements it for a view that has the event loop to     *)
(* itself and a log that is not sent twice.                                *)
(***************************************************************************)
EXTENDS Integers, Sequences

VARIABLES
    written,      \* lines the pod has written; a line is its position among them
    open,         \* the view exists
    request,      \* the latest request of the view, 0 before the first
    following,    \* that request streams lines; else it fetches the log once
    cancelled,    \* it was cancelled
    shown         \* the lines on screen, each with the request that brought it

vars == <<written, open, request, following, cancelled, shown>>

\* The first n lines, as brought at once by request r.
Whole(r, n) == [i \in 1 .. n |-> [req |-> r, pos |-> i]]

LastShown == IF shown = <<>> THEN 0 ELSE shown[Len(shown)].pos

-----------------------------------------------------------------------------
Init ==
    /\ written = 0 /\ open = FALSE
    /\ request = 0 /\ following = FALSE /\ cancelled = FALSE
    /\ shown = <<>>

PodWrites ==
    /\ written' = written + 1
    /\ UNCHANGED <<open, request, following, cancelled, shown>>

\* The view starts with the log there is, or with nothing when it cannot be read; it
\* follows at once if it is started.
Open ==
    /\ ~open /\ open' = TRUE
    /\ shown' \in {<<>>, Whole(0, written)}
    /\ \/ request' = request /\ following' = following
       \/ request' = request + 1 /\ following' = TRUE
    /\ cancelled' = FALSE
    /\ UNCHANGED written

\* A new request takes nothing off the screen.
Ask ==
    /\ open
    /\ request' = request + 1
    /\ following' \in BOOLEAN
    /\ cancelled' = FALSE
    /\ UNCHANGED <<written, open, shown>>

Cancel ==
    /\ request > 0
    /\ cancelled' = TRUE
    /\ UNCHANGED <<written, open, request, following, shown>>

\* The stream of the latest request brings a line no earlier request has brought, and
\* after a line of its own the very next one; only once it is cancelled it may skip some.
ShowLine ==
    /\ following
    /\ \E p \in LastShown + 1 .. written :
         /\ shown # <<>> /\ shown[Len(shown)].req = request /\ ~cancelled => p = LastShown + 1
         /\ shown' = Append(shown, [req |-> request, pos |-> p])
    /\ UNCHANGED <<written, open, request, following, cancelled>>

\* A fetched log takes the place of what was shown, and holds it.
ShowFetched ==
    /\ ~following /\ request > 0
    /\ \E n \in 1 .. written : LastShown <= n /\ shown' = Whole(request, n)
    /\ UNCHANGED <<written, open, request, following, cancelled>>

Next == PodWrites \/ Open \/ Ask \/ Cancel \/ ShowLine \/ ShowFetched

Spec == Init /\ [][Next]_vars

-----------------------------------------------------------------------------
TypeOK ==
    /\ written \in Nat /\ request \in Nat
    /\ open \in BOOLEAN /\ following \in BOOLEAN /\ cancelled \in BOOLEAN
    /\ shown \in Seq([req : Nat, pos : Nat])
    /\ \A i \in 1 .. Len(shown) : shown[i].req <= request /\ shown[i].pos <= written

\* Lines are shown in the order the pod wrote them, none of them twice.
LinesInOrder ==
    \A i, j \in 1 .. Len(shown) : i < j => shown[i].pos < shown[j].pos

\* No line is missing between two lines of the latest request while it is not cancelled.
NoGapWhileRunning ==
    \A i \in 1 .. Len(shown) - 1 :
        shown[i].req = request /\ shown[i + 1].req = request /\ ~cancelled
          => shown[i + 1].pos = shown[i].pos + 1
=============================================================================
