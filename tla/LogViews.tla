------------------------------ MODULE LogViews ------------------------------
(***************************************************************************)
(* Pod log views and their background streams (internal/ui/logview) under  *)
(* the view stack of the application (internal/app).                       *)
(*                                                                         *)
(* One event loop owns the views and the stack.  Around it run goroutines: *)
(* the one that reads a pod's log into a bounded channel, the command that *)
(* waits on that channel (a "pump", one per message), and the command that *)
(* fetches a whole log once.  A command hands its message to the event     *)
(* loop, which gives every message that is not a key to the view on top of *)
(* the stack, whichever view asked for it.                                 *)
(*                                                                         *)
(* Every other screen (list, detail, help, container picker, ...) is       *)
(* OtherView: it ignores log messages.  A log line is its position in the  *)
(* pod's log, tagged with the view and request that fetched it.            *)
(***************************************************************************)
EXTENDS Integers, Sequences

CONSTANTS
    LogViews,     \* log view instances, each showing the log of a pod of its own
    OtherView,    \* any view that is not a log view
    ChanCap,      \* capacity of a stream's channel (256 in the code)
    ReplaysTail,  \* TRUE: a stream starts with the tail (cluster); FALSE: with the next line (mock)
    Slots,        \* bookmark slots (1..9 in the code)
    MaxRequests,  \* bound: requests one view makes
    MaxLines,     \* bound: lines a pod writes
    MaxDepth      \* bound: height of the view stack

ASSUME ConstantsOK ==
    /\ OtherView \notin LogViews
    /\ ChanCap \in Nat \ {0}
    /\ ReplaysTail \in BOOLEAN
    /\ MaxRequests \in Nat
    /\ MaxLines \in Nat
    /\ MaxDepth \in Nat

VARIABLES
    \* the application model
    stack,        \* the view stack, root first
    bookmarks,    \* the saved stack of each bookmark slot, <<>> if unset
    opened,       \* log views constructed so far
    \* the fields of each log view
    follow, typing, requestID, cancel, streamCh, allLines, streamErr,
    \* the goroutines of each request
    task,         \* what the request's goroutine is doing
    ctxDone,      \* its context has been cancelled
    cursor,       \* position of the last line it read
    ch,           \* the stream's channel
    pump,         \* commands waiting to receive from ch
    \* the rest
    inbox,        \* messages commands are handing to the event loop
    written       \* lines each view's pod has written

navVars  == <<stack, bookmarks, opened>>
viewVars == <<follow, typing, requestID, cancel, streamCh, allLines, streamErr>>
reqVars  == <<task, ctxDone, cursor, ch, pump>>
vars     == <<navVars, viewVars, reqVars, inbox, written>>

-----------------------------------------------------------------------------
RequestIDs == 1 .. MaxRequests
Requests   == LogViews \X RequestIDs
Positions  == 0 .. MaxLines

Line == [view : LogViews, req : 0 .. MaxRequests, pos : Positions]

\* logStreamAppendMsg (pos is the line), logStreamDoneMsg, and logReloadResultMsg
\* (pos is the number of lines it carries).
Message == [type : {"append", "done", "result"}, view : LogViews, req : RequestIDs,
            pos : Positions, err : {"nil", "canceled", "failed"}]

AppendMsg(s, p)    == [type |-> "append", view |-> s[1], req |-> s[2], pos |-> p, err |-> "nil"]
DoneMsg(s, e)      == [type |-> "done",   view |-> s[1], req |-> s[2], pos |-> 0, err |-> e]
ResultMsg(s, n, e) == [type |-> "result", view |-> s[1], req |-> s[2], pos |-> n, err |-> e]

\* The first n lines of v's pod, as fetched whole by request r (0: by the constructor).
Snapshot(v, r, n) == [i \in 1 .. n |-> [view |-> v, req |-> r, pos |-> i]]

Top == stack[Len(stack)]
OnStack == {stack[i] : i \in 1 .. Len(stack)} \cap LogViews
KeysReachApp == Top \in LogViews => ~typing[Top]

-----------------------------------------------------------------------------
Init ==
    /\ stack = <<OtherView>>
    /\ bookmarks = [k \in Slots |-> <<>>]
    /\ opened = {}
    /\ follow    = [v \in LogViews |-> TRUE]
    /\ typing    = [v \in LogViews |-> FALSE]
    /\ requestID = [v \in LogViews |-> 0]
    /\ cancel    = [v \in LogViews |-> 0]
    /\ streamCh  = [v \in LogViews |-> 0]
    /\ allLines  = [v \in LogViews |-> <<>>]
    /\ streamErr = [v \in LogViews |-> FALSE]
    /\ task    = [s \in Requests |-> "none"]
    /\ ctxDone = [s \in Requests |-> FALSE]
    /\ cursor  = [s \in Requests |-> 0]
    /\ ch      = [s \in Requests |-> <<>>]
    /\ pump    = [s \in Requests |-> 0]
    /\ inbox = {}
    /\ written = [v \in LogViews |-> 0]

-----------------------------------------------------------------------------
(* What views and application do with the background work.  cancel[v] and  *)
(* streamCh[v] name the request whose cancel function and channel v holds, *)
(* 0 for nil.                                                              *)

\* Mutation: the stream starts one line too far.
StartCursorTooFar(v) == IF ReplaysTail THEN 1 ELSE written[v] + 1

\* Mutation: the mock, too, sends what the snapshot already holds.
StartCursorAtTail(v) == 0

\* The last line a new stream skips.  A cluster sends the tail of the log again
\* before it follows; the mock emits new lines only.
StartCursor(v) == IF ReplaysTail THEN 0 ELSE written[v]

\* Mutation: two commands are returned for one message.
NextStreamMsgCmdTwice(v) ==
    IF streamCh[v] = 0 THEN pump ELSE [pump EXCEPT ![<<v, streamCh[v]>>] = @ + 2]

\* Mutation: the command is not returned to the event loop.
NextStreamMsgCmdLost(v) == pump

\* nextStreamMsgCmd: one more pump waits on the channel the view holds.
NextStreamMsgCmd(v) ==
    IF streamCh[v] = 0 THEN pump ELSE [pump EXCEPT ![<<v, streamCh[v]>>] = @ + 1]

\* Mutation: the cancel function is dropped, not called.
CancelledByNobody(S) == ctxDone

\* The contexts that are cancelled once every view in S has called its cancel function.
CancelledBy(S) ==
    [s \in Requests |-> ctxDone[s] \/ (s[1] \in S /\ cancel[s[1]] = s[2])]

\* cancelReload of every view in S: Dispose, or a pause.
CancelReload(S) ==
    /\ ctxDone'  = CancelledBy(S)
    /\ cancel'   = [v \in LogViews |-> IF v \in S THEN 0 ELSE cancel[v]]
    /\ streamCh' = [v \in LogViews |-> IF v \in S THEN 0 ELSE streamCh[v]]

\* reloadLogsCmd: cancel the running request, start a stream (and its first
\* pump) when following, a single fetch otherwise.
ReloadLogsCmd(v, following) ==
    LET r == requestID[v] + 1
        s == <<v, r>>
    IN  /\ r <= MaxRequests
        /\ ctxDone'   = CancelledBy({v})
        /\ requestID' = [requestID EXCEPT ![v] = r]
        /\ cancel'    = [cancel EXCEPT ![v] = r]
        /\ streamCh'  = [streamCh EXCEPT ![v] = IF following THEN r ELSE 0]
        /\ streamErr' = [streamErr EXCEPT ![v] = FALSE]
        /\ task'   = [task EXCEPT ![s] = IF following THEN "streaming" ELSE "fetching"]
        /\ cursor' = [cursor EXCEPT ![s] = StartCursor(v)]
        /\ pump'   = [pump EXCEPT ![s] = IF following THEN 1 ELSE 0]
        /\ UNCHANGED ch

-----------------------------------------------------------------------------
(* Navigation: the steps of the application that change the view stack.    *)

\* The constructor fetches the log synchronously; a failed fetch shows nothing.
Construct(v) ==
    /\ v \in LogViews \ opened
    /\ opened' = opened \cup {v}
    /\ \E n \in {0, written[v]} : allLines' = [allLines EXCEPT ![v] = Snapshot(v, 0, n)]

\* A view answers Push: the log view is pushed and its Init starts the stream.
OpenLogs(v) ==
    /\ Top = OtherView
    /\ Len(stack) < MaxDepth
    /\ Construct(v)
    /\ stack' = Append(stack, v)
    /\ ReloadLogsCmd(v, TRUE)
    /\ UNCHANGED <<bookmarks, follow, typing, inbox, written>>

\* ":<kind> <name> logs" pushes a detail view and the log view, and calls no Init.
CommandLogs(v) ==
    /\ Top = OtherView
    /\ Len(stack) + 2 <= MaxDepth
    /\ Construct(v)
    /\ stack' = stack \o <<OtherView, v>>
    /\ UNCHANGED <<bookmarks, follow, typing, requestID, cancel, streamCh, streamErr,
                   reqVars, inbox, written>>

\* Any other view is pushed: help, a detail view, the container picker, or the
\* choice made in the related picker, which arrives as a message and not as a key.
PushOther ==
    /\ Len(stack) < MaxDepth
    /\ stack' = Append(stack, OtherView)
    /\ UNCHANGED <<bookmarks, opened, viewVars, reqVars, inbox, written>>

\* Mutation: the view is taken off and not disposed.
PopViewUndisposed ==
    /\ KeysReachApp
    /\ Len(stack) > 1
    /\ stack' = SubSeq(stack, 1, Len(stack) - 1)
    /\ UNCHANGED <<bookmarks, opened, viewVars, reqVars, inbox, written>>

\* popView disposes the view it removes; the view below is shown as it is.
PopView ==
    /\ KeysReachApp
    /\ Len(stack) > 1
    /\ stack' = SubSeq(stack, 1, Len(stack) - 1)
    /\ CancelReload({Top} \cap LogViews)
    /\ UNCHANGED <<bookmarks, opened, follow, typing, requestID, allLines, streamErr,
                   task, cursor, ch, pump, inbox, written>>

\* A resource hotkey or the resource browser (keys), or the scope chosen in an
\* overlay (a message), replaces the stack.
SwitchRoot ==
    /\ stack' = <<OtherView>>
    /\ CancelReload(OnStack)
    /\ UNCHANGED <<bookmarks, opened, follow, typing, requestID, allLines, streamErr,
                   task, cursor, ch, pump, inbox, written>>

\* ":<kind>" from a list view replaces the stack and disposes nothing.
CommandSwitchRoot ==
    /\ Top = OtherView
    /\ stack' = <<OtherView>>
    /\ UNCHANGED <<bookmarks, opened, viewVars, reqVars, inbox, written>>

SetBookmark(k) ==
    /\ KeysReachApp
    /\ bookmarks' = [bookmarks EXCEPT ![k] = stack]
    /\ UNCHANGED <<stack, opened, viewVars, reqVars, inbox, written>>

\* The current stack is disposed, then the saved one shown, without Init.
JumpToBookmark(k) ==
    /\ KeysReachApp
    /\ bookmarks[k] # <<>>
    /\ stack' = bookmarks[k]
    /\ CancelReload(OnStack)
    /\ UNCHANGED <<bookmarks, opened, follow, typing, requestID, allLines, streamErr,
                   task, cursor, ch, pump, inbox, written>>

-----------------------------------------------------------------------------
(* Keys of the log view on top.                                            *)

OnTop(v) == Top = v

\* f while following: pause without a reload; the request number stays.
PauseFollow(v) ==
    /\ OnTop(v) /\ ~typing[v] /\ follow[v]
    /\ follow' = [follow EXCEPT ![v] = FALSE]
    /\ streamErr' = [streamErr EXCEPT ![v] = FALSE]
    /\ CancelReload({v})
    /\ UNCHANGED <<navVars, typing, requestID, allLines, task, cursor, ch, pump, inbox, written>>

ResumeFollow(v) ==
    /\ OnTop(v) /\ ~typing[v] /\ ~follow[v]
    /\ follow' = [follow EXCEPT ![v] = TRUE]
    /\ ReloadLogsCmd(v, TRUE)
    /\ UNCHANGED <<navVars, typing, allLines, inbox, written>>

\* t, p, "." and ",": other options, the same follow mode.
ChangeOptions(v) ==
    /\ OnTop(v) /\ ~typing[v]
    /\ ReloadLogsCmd(v, follow[v])
    /\ UNCHANGED <<navVars, follow, typing, allLines, inbox, written>>

\* "/" and "&" give the keyboard to an input line; enter and esc take it back.
StartTyping(v) ==
    /\ OnTop(v) /\ ~typing[v]
    /\ typing' = [typing EXCEPT ![v] = TRUE]
    /\ UNCHANGED <<navVars, follow, requestID, cancel, streamCh, allLines, streamErr,
                   reqVars, inbox, written>>

StopTyping(v) ==
    /\ OnTop(v) /\ typing[v]
    /\ typing' = [typing EXCEPT ![v] = FALSE]
    /\ UNCHANGED <<navVars, follow, requestID, cancel, streamCh, allLines, streamErr,
                   reqVars, inbox, written>>

-----------------------------------------------------------------------------
(* The event loop hands a message to the view on top.  A view compares the *)
(* request number of the message with its own, and nothing else.           *)

\* Mutation: a view that is typing drops the line but asks for the next one.
IgnoreMsgAndAskAgain(m) ==
    /\ Top \in LogViews => typing[Top] \/ m.req # requestID[Top]
    /\ pump' = IF Top \in LogViews THEN NextStreamMsgCmd(Top) ELSE pump
    /\ UNCHANGED viewVars

\* The view on top ignores m: it is no log view, it is typing, or m is stale.
IgnoreMsg(m) ==
    /\ Top \in LogViews => typing[Top] \/ m.req # requestID[Top]
    /\ UNCHANGED <<viewVars, pump>>

\* A line is appended and the next message asked for, on the channel the view holds.
HandleAppend(v, m) ==
    /\ m.type = "append"
    /\ allLines' = [allLines EXCEPT ![v] =
                      Append(@, [view |-> m.view, req |-> m.req, pos |-> m.pos])]
    /\ pump' = NextStreamMsgCmd(v)
    /\ UNCHANGED streamErr

HandleDone(v, m) ==
    /\ m.type = "done"
    /\ streamErr' = [streamErr EXCEPT ![v] = @ \/ m.err = "failed"]
    /\ UNCHANGED <<allLines, pump>>

\* A fetched log replaces the lines, unless the fetch failed or brought nothing.
HandleResult(v, m) ==
    /\ m.type = "result"
    /\ IF m.err = "nil" /\ m.pos > 0
       THEN /\ allLines' = [allLines EXCEPT ![v] = Snapshot(m.view, m.req, m.pos)]
            /\ streamErr' = [streamErr EXCEPT ![v] = FALSE]
       ELSE UNCHANGED <<allLines, streamErr>>
    /\ UNCHANGED pump

HandleMsg(v, m) ==
    /\ OnTop(v) /\ ~typing[v] /\ m.req = requestID[v]
    /\ HandleAppend(v, m) \/ HandleDone(v, m) \/ HandleResult(v, m)
    /\ UNCHANGED <<follow, typing, requestID, cancel, streamCh>>

Deliver(m) ==
    /\ m \in inbox
    /\ inbox' = inbox \ {m}
    /\ IgnoreMsg(m) \/ \E v \in LogViews : HandleMsg(v, m)
    /\ UNCHANGED <<navVars, task, ctxDone, cursor, ch, written>>

-----------------------------------------------------------------------------
(* Goroutines.                                                             *)

\* The stream goroutine reads a line and calls onLine with it ...
ReadLine(s) ==
    /\ task[s] = "streaming"
    /\ cursor[s] < written[s[1]]
    /\ cursor' = [cursor EXCEPT ![s] = @ + 1]
    /\ task' = [task EXCEPT ![s] = "sending"]
    /\ UNCHANGED <<navVars, viewVars, ctxDone, ch, pump, inbox, written>>

\* ... which waits for room in the channel ...
SendLine(s) ==
    /\ task[s] = "sending"
    /\ Len(ch[s]) < ChanCap
    /\ ch' = [ch EXCEPT ![s] = Append(@, AppendMsg(s, cursor[s]))]
    /\ task' = [task EXCEPT ![s] = "streaming"]
    /\ UNCHANGED <<navVars, viewVars, ctxDone, cursor, pump, inbox, written>>

\* Mutation: onLine waits for the channel only.
DropLineNever(s) == FALSE /\ UNCHANGED vars

\* ... or, once the context is cancelled, may give the line up.
DropLine(s) ==
    /\ task[s] = "sending"
    /\ ctxDone[s]
    /\ task' = [task EXCEPT ![s] = "streaming"]
    /\ UNCHANGED <<navVars, viewVars, ctxDone, cursor, ch, pump, inbox, written>>

\* LogsStream returns; the last message is not sent when the channel is full.
StreamEnds(s) ==
    /\ task[s] = "streaming"
    /\ \E e \in {"nil", "canceled", "failed"} :
         /\ e = "canceled" => ctxDone[s]
         /\ ch' = IF Len(ch[s]) < ChanCap
                  THEN [ch EXCEPT ![s] = Append(@, DoneMsg(s, e))]
                  ELSE ch
         /\ task' = [task EXCEPT ![s] = IF e = "failed" THEN "failed" ELSE "closed"]
    /\ UNCHANGED <<navVars, viewVars, ctxDone, cursor, pump, inbox, written>>

\* The fetch returns the log as it is now, an error, or its 10 s are over.
FetchReturns(s) ==
    /\ task[s] = "fetching"
    /\ \/ inbox' = inbox \cup {ResultMsg(s, written[s[1]], "nil")}
       \/ \E e \in {"canceled", "failed"} : inbox' = inbox \cup {ResultMsg(s, 0, e)}
    /\ task' = [task EXCEPT ![s] = "returned"]
    /\ UNCHANGED <<navVars, viewVars, ctxDone, cursor, ch, pump, written>>

\* A pump takes one message from the channel to the event loop ...
PumpReceive(s) ==
    /\ pump[s] > 0
    /\ ch[s] # <<>>
    /\ inbox' = inbox \cup {Head(ch[s])}
    /\ ch' = [ch EXCEPT ![s] = Tail(@)]
    /\ pump' = [pump EXCEPT ![s] = @ - 1]
    /\ UNCHANGED <<navVars, viewVars, task, ctxDone, cursor, written>>

\* ... or finds the channel closed and empty.
PumpClosed(s) ==
    /\ pump[s] > 0
    /\ ch[s] = <<>>
    /\ task[s] \in {"closed", "failed"}
    /\ pump' = [pump EXCEPT ![s] = @ - 1]
    /\ UNCHANGED <<navVars, viewVars, task, ctxDone, cursor, ch, inbox, written>>

PodWrites(v) ==
    /\ written[v] < MaxLines
    /\ written' = [written EXCEPT ![v] = @ + 1]
    /\ UNCHANGED <<navVars, viewVars, reqVars, inbox>>

-----------------------------------------------------------------------------
User ==
    \/ \E v \in LogViews : OpenLogs(v) \/ CommandLogs(v)
    \/ PushOther
    \/ PopView
    \/ SwitchRoot
    \/ CommandSwitchRoot
    \/ \E k \in Slots : SetBookmark(k) \/ JumpToBookmark(k)
    \/ \E v \in LogViews :
         \/ PauseFollow(v)
         \/ ResumeFollow(v)
         \/ ChangeOptions(v)
         \/ StartTyping(v)
         \/ StopTyping(v)

Goroutine(s) ==
    \/ ReadLine(s)
    \/ SendLine(s)
    \/ DropLine(s)
    \/ StreamEnds(s)
    \/ FetchReturns(s)
    \/ PumpReceive(s)
    \/ PumpClosed(s)

Next ==
    \/ User
    \/ \E m \in inbox : Deliver(m)
    \/ \E s \in Requests : Goroutine(s)
    \/ \E v \in LogViews : PodWrites(v)

Spec == Init /\ [][Next]_vars

\* The goroutines and the event loop run; nothing is assumed of the user, of the
\* pod, or of how long an uncancelled stream lasts.
Fairness ==
    /\ WF_vars(\E m \in inbox : Deliver(m))
    /\ \A s \in Requests :
         /\ WF_vars(ReadLine(s))
         /\ WF_vars(SendLine(s))
         /\ WF_vars(DropLine(s))
         /\ WF_vars(ctxDone[s] /\ StreamEnds(s))
         /\ WF_vars(FetchReturns(s))
         /\ WF_vars(PumpReceive(s))
         /\ WF_vars(PumpClosed(s))

FairSpec == Spec /\ Fairness

-----------------------------------------------------------------------------
TaskState == {"none", "streaming", "sending", "closed", "failed", "fetching", "returned"}

\* Types of the view fields, goroutine states and messages.
TypeOK ==
    /\ stack \in Seq(LogViews \cup {OtherView}) /\ stack # <<>>
    /\ bookmarks \in [Slots -> Seq(LogViews \cup {OtherView})]
    /\ opened \subseteq LogViews
    /\ follow \in [LogViews -> BOOLEAN]
    /\ typing \in [LogViews -> BOOLEAN]
    /\ requestID \in [LogViews -> 0 .. MaxRequests]
    /\ cancel \in [LogViews -> 0 .. MaxRequests]
    /\ streamCh \in [LogViews -> 0 .. MaxRequests]
    /\ allLines \in [LogViews -> Seq(Line)]
    /\ streamErr \in [LogViews -> BOOLEAN]
    /\ task \in [Requests -> TaskState]
    /\ ctxDone \in [Requests -> BOOLEAN]
    /\ cursor \in [Requests -> Positions]
    /\ \A s \in Requests : cursor[s] <= written[s[1]] /\ Len(ch[s]) <= ChanCap
    /\ ch \in [Requests -> Seq(Message)]
    /\ pump \in [Requests -> Nat]
    /\ inbox \subseteq Message
    /\ written \in [LogViews -> Positions]

Busy(s) == task[s] \in {"streaming", "sending", "fetching"}

\* Its goroutine is at work and nobody has asked it to stop.
Running(s) == Busy(s) /\ ~ctxDone[s]

\* A view can still cancel whatever it has running: a request it made before
\* its current one, or before a pause, never runs on (reloadLogsCmd, cancelReload).
RunningRequestIsCancellable ==
    \A s \in Requests : Running(s) => cancel[s[1]] = s[2]

Of(m, s) == m.view = s[1] /\ m.req = s[2]

\* The messages of a stream come to the event loop one at a time: a pump waits,
\* or one message is under way, never two of either (nextStreamMsgCmd is issued
\* once per message).  Everything about the order of lines rests on this.
OneMessageInTransit ==
    \A s \in Requests :
        /\ pump[s] <= 1
        /\ \A m \in inbox : Of(m, s) => pump[s] = 0
        /\ \A m, n \in inbox : Of(m, s) /\ Of(n, s) => m = n

\* Disposable (viewstate.go:33): a view that leaves the stack leaves nothing running
\* behind, unless it is the command bar that replaces the stack.
RemovedViewIsDisposed ==
    [][\A s \in Requests :
         s[1] \in OnStack /\ s[1] \notin OnStack' /\ Running(s) /\ ~CommandSwitchRoot
           => ctxDone'[s]]_vars

-----------------------------------------------------------------------------
(* The lines of a view, as whoever reads them is promised.                 *)

Asked(v) == requestID[v] > 0

\* A followed log: the view's current request is a stream unless it fetches.
Log(v) == INSTANCE FollowedLog WITH
    written   <- written[v],
    open      <- v \in opened,
    request   <- requestID[v],
    following <- Asked(v) /\ task[<<v, requestID[v]>>] \notin {"fetching", "returned"},
    cancelled <- Asked(v) /\ ctxDone[<<v, requestID[v]>>],
    shown     <- [i \in 1 .. Len(allLines[v]) |->
                    [req |-> allLines[v][i].req, pos |-> allLines[v][i].pos]]

\* A view shows a run of lines that grows by the next one: in the order the pod wrote
\* them, none twice, none missing while its stream runs, whatever is paused, reloaded,
\* typed, pushed on top or lost on the way.  A message lost to another view ends the
\* lines of the stream instead of leaving a hole (the comment at pods.go:238 wants no
\* line of the snapshot streamed again).
FollowsLog ==
    /\ \A v \in LogViews : Log(v)!Init
    /\ [][\A v \in LogViews : [Log(v)!Next]_(Log(v)!vars)]_vars

-----------------------------------------------------------------------------
\* A cancelled request leaves nothing behind: its goroutine returns and no pump
\* stays blocked on its channel, however full that channel was.
CancelledRequestWindsDown ==
    \A s \in Requests : ctxDone[s] ~> ~Busy(s) /\ pump[s] = 0

Attended(v) == OnTop(v) /\ ~typing[v]

Shows(v, m) ==
    IF m.type = "append"
    THEN \E i \in 1 .. Len(allLines[v]) :
           allLines[v][i] = [view |-> m.view, req |-> m.req, pos |-> m.pos]
    ELSE m.err = "failed" => streamErr[v]

InTransit(s) == pump[s] > 0 \/ \E m \in inbox : Of(m, s)

Buffered(s, m) == \E i \in 1 .. Len(ch[s]) : ch[s][i] = m

StreamMsgs(s) == {AppendMsg(s, p) : p \in 1 .. MaxLines} \cup {DoneMsg(s, "failed")}

\* What a stream has put into its channel is shown, as long as its chain of
\* pumps is whole: the view need only stay on top, not typing, on that stream.
BufferedMessageIsShown ==
    \A s \in Requests : \A m \in StreamMsgs(s) :
        Buffered(s, m) /\ InTransit(s) /\ streamCh[s[1]] = s[2]
          ~> \/ Shows(s[1], m)
             \/ ~Attended(s[1])
             \/ streamCh[s[1]] # s[2]

\* The same without asking that the chain be whole: a line streamed while the
\* view follows shows up, if not now then once the view has the keyboard back.
StreamedLineIsShown ==
    \A s \in Requests : \A p \in 1 .. MaxLines :
        Buffered(s, AppendMsg(s, p)) /\ streamCh[s[1]] = s[2]
          ~> Shows(s[1], AppendMsg(s, p)) \/ streamCh[s[1]] # s[2] \/ ~OnTop(s[1])

=============================================================================
