--------------------------- MODULE LogViews_proofs ---------------------------
(***************************************************************************)
(* Proofs about LogViews, for any number of views, requests and lines and  *)
(* any channel capacity.                                                   *)
(***************************************************************************)
EXTENDS LogViews, TLAPS

\* Cancelling leaves the three variables it writes well typed.
LEMMA CancelReloadType ==
  ASSUME TypeOK, NEW S, CancelReload(S)
  PROVE  /\ ctxDone' \in [Requests -> BOOLEAN]
         /\ cancel' \in [LogViews -> 0 .. MaxRequests]
         /\ streamCh' \in [LogViews -> 0 .. MaxRequests]
  BY ConstantsOK DEF TypeOK, CancelReload, CancelledBy

\* A fetched log is a sequence of lines.
LEMMA SnapshotType ==
  ASSUME NEW v \in LogViews, NEW r \in 0 .. MaxRequests, NEW n \in Positions
  PROVE  Snapshot(v, r, n) \in Seq(Line)
  BY ConstantsOK DEF Snapshot, Line, Positions

\* A new request leaves every variable it writes well typed.
LEMMA ReloadType ==
  ASSUME TypeOK, NEW v \in LogViews, NEW f \in BOOLEAN, ReloadLogsCmd(v, f)
  PROVE  /\ ctxDone' \in [Requests -> BOOLEAN]
         /\ requestID' \in [LogViews -> 0 .. MaxRequests]
         /\ cancel' \in [LogViews -> 0 .. MaxRequests]
         /\ streamCh' \in [LogViews -> 0 .. MaxRequests]
         /\ streamErr' \in [LogViews -> BOOLEAN]
         /\ task' \in [Requests -> TaskState]
         /\ cursor' \in [Requests -> Positions]
         /\ pump' \in [Requests -> Nat]
         /\ \A s \in Requests : cursor'[s] <= written[s[1]]
         /\ ch' = ch
  <1>1. /\ requestID[v] + 1 \in 1 .. MaxRequests
        /\ <<v, requestID[v] + 1>> \in Requests
        /\ StartCursor(v) \in Positions /\ StartCursor(v) <= written[v]
    BY ConstantsOK DEF TypeOK, ReloadLogsCmd, Requests, RequestIDs, Positions, StartCursor
  <1>2. ctxDone' \in [Requests -> BOOLEAN]
    BY DEF TypeOK, ReloadLogsCmd, CancelledBy
  <1>3. /\ requestID' \in [LogViews -> 0 .. MaxRequests]
        /\ cancel' \in [LogViews -> 0 .. MaxRequests]
        /\ streamCh' \in [LogViews -> 0 .. MaxRequests]
        /\ streamErr' \in [LogViews -> BOOLEAN]
    BY <1>1, ConstantsOK DEF TypeOK, ReloadLogsCmd
  <1>4. task' \in [Requests -> TaskState]
    BY <1>1 DEF TypeOK, ReloadLogsCmd, TaskState
  <1>5. /\ cursor' \in [Requests -> Positions]
        /\ \A s \in Requests : cursor'[s] <= written[s[1]]
    BY <1>1 DEF TypeOK, ReloadLogsCmd
  <1>6. pump' \in [Requests -> Nat]
    BY <1>1 DEF TypeOK, ReloadLogsCmd
  <1>7. QED
    BY <1>2, <1>3, <1>4, <1>5, <1>6 DEF ReloadLogsCmd

\* A constructor leaves the lines well typed.
LEMMA ConstructType ==
  ASSUME TypeOK, NEW v \in LogViews, Construct(v)
  PROVE  /\ allLines' \in [LogViews -> Seq(Line)]
         /\ opened' \subseteq LogViews
  <1>1. \A n \in {0, written[v]} : Snapshot(v, 0, n) \in Seq(Line)
    <2>1. written[v] \in Positions /\ 0 \in Positions /\ 0 \in 0 .. MaxRequests
      BY ConstantsOK DEF TypeOK, Positions
    <2>2. QED
      BY <2>1, SnapshotType
  <1>2. QED
    BY <1>1 DEF TypeOK, Construct

\* A delivered message leaves the view on top well typed.
LEMMA DeliverType ==
  ASSUME TypeOK, NEW m \in inbox, Deliver(m)
  PROVE  TypeOK'
  <1>1. m \in Message
    BY DEF TypeOK
  <1>2. CASE IgnoreMsg(m)
    BY <1>2 DEF TypeOK, Deliver, IgnoreMsg, navVars, viewVars
  <1>3. ASSUME NEW v \in LogViews, HandleMsg(v, m) PROVE TypeOK'
    <2>1. CASE HandleAppend(v, m)
      <3>1. [view |-> m.view, req |-> m.req, pos |-> m.pos] \in Line
        BY <1>1 DEF Message, Line, RequestIDs
      <3>2. allLines' \in [LogViews -> Seq(Line)]
        BY <2>1, <3>1 DEF HandleAppend, TypeOK
      <3>3. pump' \in [Requests -> Nat]
        BY <2>1, ConstantsOK DEF HandleAppend, NextStreamMsgCmd, TypeOK, Requests, RequestIDs
      <3>4. QED
        BY <1>3, <2>1, <3>2, <3>3 DEF HandleAppend, HandleMsg, Deliver, TypeOK, navVars
    <2>2. CASE HandleDone(v, m)
      BY <1>3, <2>2 DEF HandleDone, HandleMsg, Deliver, TypeOK, navVars
    <2>3. CASE HandleResult(v, m)
      <3>1. Snapshot(m.view, m.req, m.pos) \in Seq(Line)
        BY <1>1, SnapshotType, ConstantsOK DEF Message, RequestIDs
      <3>2. QED
        BY <1>3, <2>3, <3>1 DEF HandleResult, HandleMsg, Deliver, TypeOK, navVars
    <2>4. QED
      BY <1>3, <2>1, <2>2, <2>3 DEF HandleMsg
  <1>4. QED
    BY <1>2, <1>3 DEF Deliver

\* What the navigation steps make of the stack is a stack of views again.
LEMMA StackType ==
  ASSUME TypeOK, NEW v \in LogViews \cup {OtherView}
  PROVE  /\ Append(stack, v) \in Seq(LogViews \cup {OtherView}) \ {<<>>}
         /\ stack \o <<OtherView, v>> \in Seq(LogViews \cup {OtherView}) \ {<<>>}
         /\ <<OtherView>> \in Seq(LogViews \cup {OtherView}) \ {<<>>}
         /\ Len(stack) > 1 =>
              SubSeq(stack, 1, Len(stack) - 1) \in Seq(LogViews \cup {OtherView}) \ {<<>>}
  <1> DEFINE V == LogViews \cup {OtherView}
  <1>1. stack \in Seq(V) /\ v \in V /\ OtherView \in V
    BY DEF TypeOK
  <1> HIDE DEF V
  <1>2. ASSUME NEW q \in Seq(V), Len(q) # 0 PROVE q # <<>>
    BY <1>2
  <1>3. Append(stack, v) \in Seq(V) /\ Len(Append(stack, v)) = Len(stack) + 1 /\ Len(stack) \in Nat
    BY <1>1
  <1>4. <<OtherView>> \in Seq(V) /\ <<OtherView, v>> \in Seq(V)
    BY <1>1
  <1>5. stack \o <<OtherView, v>> \in Seq(V) /\ Len(stack \o <<OtherView, v>>) = Len(stack) + 2
    BY <1>1, <1>4
  <1>6. ASSUME Len(stack) > 1
        PROVE  /\ SubSeq(stack, 1, Len(stack) - 1) \in Seq(V)
               /\ Len(SubSeq(stack, 1, Len(stack) - 1)) = Len(stack) - 1
    BY <1>1, <1>6
  <1>7. ASSUME Len(stack) > 1 PROVE SubSeq(stack, 1, Len(stack) - 1) # <<>>
    <2> DEFINE L == Len(SubSeq(stack, 1, Len(stack) - 1))
    <2>1. L = Len(stack) - 1
      BY <1>6, <1>7
    <2>2. L # 0
      BY <1>3, <1>7, <2>1
    <2>3. QED
      BY <1>2, <1>6, <1>7, <2>2
  <1>8. Append(stack, v) # <<>> /\ stack \o <<OtherView, v>> # <<>> /\ <<OtherView>> # <<>>
    BY <1>1, <1>2, <1>3, <1>4, <1>5
  <1>9. QED
    BY <1>3, <1>4, <1>5, <1>6, <1>7, <1>8 DEF V

\* Every navigation step keeps the types.
LEMMA NavigationType ==
  ASSUME TypeOK,
         \/ \E v \in LogViews : OpenLogs(v) \/ CommandLogs(v)
         \/ PushOther \/ PopView \/ SwitchRoot \/ CommandSwitchRoot
         \/ \E k \in Slots : SetBookmark(k) \/ JumpToBookmark(k)
  PROVE  TypeOK'
  <1>1. ASSUME NEW v \in LogViews, OpenLogs(v) PROVE TypeOK'
    <2>1. Append(stack, v) \in Seq(LogViews \cup {OtherView}) \ {<<>>}
      BY StackType
    <2>2. Construct(v) /\ ReloadLogsCmd(v, TRUE)
      BY <1>1 DEF OpenLogs
    <2>3. QED
      BY <1>1, <2>1, <2>2, ConstructType, ReloadType DEF OpenLogs, TypeOK
  <1>2. ASSUME NEW v \in LogViews, CommandLogs(v) PROVE TypeOK'
    <2>1. stack \o <<OtherView, v>> \in Seq(LogViews \cup {OtherView}) \ {<<>>}
      BY StackType
    <2>2. Construct(v)
      BY <1>2 DEF CommandLogs
    <2>3. QED
      BY <1>2, <2>1, <2>2, ConstructType DEF CommandLogs, TypeOK, reqVars
  <1>3. CASE PushOther
    <2>1. Append(stack, OtherView) \in Seq(LogViews \cup {OtherView}) \ {<<>>}
      BY StackType
    <2>2. QED
      BY <1>3, <2>1 DEF PushOther, TypeOK, viewVars, reqVars
  <1>4. CASE PopView
    <2>1. SubSeq(stack, 1, Len(stack) - 1) \in Seq(LogViews \cup {OtherView}) \ {<<>>}
      BY <1>4, StackType DEF PopView
    <2>2. CancelReload({Top} \cap LogViews)
      BY <1>4 DEF PopView
    <2>3. QED
      BY <1>4, <2>1, <2>2, CancelReloadType DEF PopView, TypeOK
  <1>5. CASE SwitchRoot
    <2>1. <<OtherView>> \in Seq(LogViews \cup {OtherView}) \ {<<>>}
      BY StackType
    <2>2. CancelReload(OnStack)
      BY <1>5 DEF SwitchRoot
    <2>3. QED
      BY <1>5, <2>1, <2>2, CancelReloadType DEF SwitchRoot, TypeOK
  <1>6. CASE CommandSwitchRoot
    <2>1. <<OtherView>> \in Seq(LogViews \cup {OtherView}) \ {<<>>}
      BY StackType
    <2>2. QED
      BY <1>6, <2>1 DEF CommandSwitchRoot, TypeOK, viewVars, reqVars
  <1>7. ASSUME NEW k \in Slots, SetBookmark(k) PROVE TypeOK'
    BY <1>7 DEF SetBookmark, TypeOK, viewVars, reqVars
  <1>8. ASSUME NEW k \in Slots, JumpToBookmark(k) PROVE TypeOK'
    <2>1. bookmarks[k] \in Seq(LogViews \cup {OtherView}) \ {<<>>}
      BY <1>8 DEF JumpToBookmark, TypeOK
    <2>2. CancelReload(OnStack)
      BY <1>8 DEF JumpToBookmark
    <2>3. QED
      BY <1>8, <2>1, <2>2, CancelReloadType DEF JumpToBookmark, TypeOK
  <1>9. QED
    BY <1>1, <1>2, <1>3, <1>4, <1>5, <1>6, <1>7, <1>8

\* Every key of a log view keeps the types.
LEMMA ViewKeyType ==
  ASSUME TypeOK, NEW v \in LogViews,
         \/ PauseFollow(v) \/ ResumeFollow(v) \/ ChangeOptions(v)
         \/ StartTyping(v) \/ StopTyping(v)
  PROVE  TypeOK'
  <1>1. CASE PauseFollow(v)
    <2>1. CancelReload({v})
      BY <1>1 DEF PauseFollow
    <2>2. QED
      BY <1>1, <2>1, CancelReloadType DEF PauseFollow, TypeOK, navVars
  <1>2. CASE ResumeFollow(v)
    <2>1. ReloadLogsCmd(v, TRUE)
      BY <1>2 DEF ResumeFollow
    <2>2. QED
      BY <1>2, <2>1, ReloadType DEF ResumeFollow, TypeOK, navVars
  <1>3. CASE ChangeOptions(v)
    <2>1. ReloadLogsCmd(v, follow[v]) /\ follow[v] \in BOOLEAN
      BY <1>3 DEF ChangeOptions, TypeOK
    <2>2. QED
      BY <1>3, <2>1, ReloadType DEF ChangeOptions, TypeOK, navVars
  <1>4. CASE StartTyping(v)
    BY <1>4 DEF StartTyping, TypeOK, navVars, reqVars
  <1>5. CASE StopTyping(v)
    BY <1>5 DEF StopTyping, TypeOK, navVars, reqVars
  <1>6. QED
    BY <1>1, <1>2, <1>3, <1>4, <1>5

\* Every step of a goroutine keeps the types.
LEMMA GoroutineType ==
  ASSUME TypeOK, NEW s \in Requests, Goroutine(s)
  PROVE  TypeOK'
  <1>1. CASE ReadLine(s)
    <2>1. cursor[s] \in Nat /\ written[s[1]] \in Nat /\ written[s[1]] <= MaxLines
      BY ConstantsOK DEF TypeOK, Positions, Requests
    <2>2. cursor[s] + 1 \in Positions /\ cursor[s] + 1 <= written[s[1]]
      BY <1>1, <2>1, ConstantsOK DEF ReadLine, Positions
    <2>3. cursor' \in [Requests -> Positions] /\ \A t \in Requests : cursor'[t] <= written[t[1]]
      BY <1>1, <2>2 DEF ReadLine, TypeOK
    <2>4. QED
      BY <1>1, <2>3 DEF ReadLine, TypeOK, TaskState, navVars, viewVars
  <1>2. CASE SendLine(s)
    <2>1. AppendMsg(s, cursor[s]) \in Message
      BY <1>2 DEF SendLine, TypeOK, AppendMsg, Message, Requests
    <2>2. ch[s] \in Seq(Message) /\ Len(ch[s]) < ChanCap
      BY <1>2 DEF SendLine, TypeOK
    <2>3. /\ Append(ch[s], AppendMsg(s, cursor[s])) \in Seq(Message)
          /\ Len(Append(ch[s], AppendMsg(s, cursor[s]))) <= ChanCap
      BY <2>1, <2>2, ConstantsOK
    <2>4. QED
      BY <1>2, <2>3 DEF SendLine, TypeOK, TaskState, navVars, viewVars
  <1>3. CASE DropLine(s)
    BY <1>3 DEF DropLine, TypeOK, TaskState, navVars, viewVars
  <1>4. CASE StreamEnds(s)
    <2>1. PICK e \in {"nil", "canceled", "failed"} :
            /\ ch' = IF Len(ch[s]) < ChanCap
                     THEN [ch EXCEPT ![s] = Append(@, DoneMsg(s, e))]
                     ELSE ch
            /\ task' = [task EXCEPT ![s] = IF e = "failed" THEN "failed" ELSE "closed"]
      BY <1>4 DEF StreamEnds
    <2>2. DoneMsg(s, e) \in Message
      BY ConstantsOK DEF DoneMsg, Message, Positions, Requests
    <2>3. ch[s] \in Seq(Message)
      BY DEF TypeOK
    <2>4. Len(ch[s]) < ChanCap => /\ Append(ch[s], DoneMsg(s, e)) \in Seq(Message)
                                  /\ Len(Append(ch[s], DoneMsg(s, e))) <= ChanCap
      BY <2>2, <2>3, ConstantsOK
    <2>5. /\ ch' \in [Requests -> Seq(Message)]
          /\ \A t \in Requests : Len(ch'[t]) <= ChanCap
      BY <2>1, <2>4 DEF TypeOK
    <2>6. task' \in [Requests -> TaskState]
      BY <2>1 DEF TypeOK, TaskState
    <2>7. QED
      BY <1>4, <2>5, <2>6 DEF StreamEnds, TypeOK, navVars, viewVars
  <1>5. CASE FetchReturns(s)
    <2>1. /\ ResultMsg(s, written[s[1]], "nil") \in Message
          /\ \A e \in {"canceled", "failed"} : ResultMsg(s, 0, e) \in Message
      BY ConstantsOK DEF TypeOK, ResultMsg, Message, Positions, Requests
    <2>2. inbox' \subseteq Message
      BY <1>5, <2>1 DEF FetchReturns, TypeOK
    <2>3. QED
      BY <1>5, <2>2 DEF FetchReturns, TypeOK, TaskState, navVars, viewVars
  <1>6. CASE PumpReceive(s)
    <2>1. ch[s] \in Seq(Message) /\ ch[s] # <<>> /\ Len(ch[s]) <= ChanCap
      BY <1>6 DEF PumpReceive, TypeOK
    <2>2. /\ Head(ch[s]) \in Message
          /\ Tail(ch[s]) \in Seq(Message)
          /\ Len(Tail(ch[s])) <= ChanCap
      BY <2>1, ConstantsOK
    <2>3. QED
      BY <1>6, <2>2 DEF PumpReceive, TypeOK, navVars, viewVars
  <1>7. CASE PumpClosed(s)
    BY <1>7 DEF PumpClosed, TypeOK, navVars, viewVars
  <1>8. QED
    BY <1>1, <1>2, <1>3, <1>4, <1>5, <1>6, <1>7 DEF Goroutine

\* The initial state is well typed.
LEMMA InitType == Init => TypeOK
  BY ConstantsOK DEF Init, TypeOK, Requests, RequestIDs, Positions, TaskState

\* Every step keeps the types.
LEMMA NextType == TypeOK /\ [Next]_vars => TypeOK'
  <1> SUFFICES ASSUME TypeOK, [Next]_vars PROVE TypeOK'
    OBVIOUS
  <1>1. CASE User
    BY <1>1, NavigationType, ViewKeyType DEF User
  <1>2. ASSUME NEW m \in inbox, Deliver(m) PROVE TypeOK'
    BY <1>2, DeliverType
  <1>3. ASSUME NEW s \in Requests, Goroutine(s) PROVE TypeOK'
    BY <1>3, GoroutineType
  <1>4. ASSUME NEW v \in LogViews, PodWrites(v) PROVE TypeOK'
    <2>1. written[v] + 1 \in Positions
      BY <1>4, ConstantsOK DEF PodWrites, TypeOK, Positions
    <2>2. written' \in [LogViews -> Positions]
      BY <1>4, <2>1 DEF PodWrites, TypeOK
    <2>3. ASSUME NEW t \in Requests PROVE cursor[t] <= written'[t[1]]
      <3>1. t[1] \in LogViews /\ cursor[t] \in Nat /\ written[t[1]] \in Nat /\ cursor[t] <= written[t[1]]
        BY ConstantsOK DEF TypeOK, Positions, Requests
      <3>2. QED
        BY <1>4, <3>1 DEF PodWrites, TypeOK
    <2>4. QED
      BY <1>4, <2>2, <2>3 DEF PodWrites, TypeOK, navVars, viewVars, reqVars
  <1>5. CASE UNCHANGED vars
    BY <1>5 DEF vars, TypeOK, navVars, viewVars, reqVars
  <1>6. QED
    BY <1>1, <1>2, <1>3, <1>4, <1>5 DEF Next

\* The types hold throughout.
THEOREM TypeCorrect == Spec => []TypeOK
  <1>1. Init => TypeOK
    BY InitType
  <1>2. TypeOK /\ [Next]_vars => TypeOK'
    BY NextType
  <1>3. QED
    BY <1>1, <1>2, PTL DEF Spec

-----------------------------------------------------------------------------
(* A view can cancel whatever it has running.  The invariant is inductive  *)
(* once the types are known: the only steps that start a request are the   *)
(* ones that cancel the request whose cancel function they overwrite.      *)

\* Cancelling leaves no running request without a cancel function.
LEMMA CancelReloadCancellable ==
  ASSUME TypeOK, RunningRequestIsCancellable, NEW S, CancelReload(S), task' = task
  PROVE  RunningRequestIsCancellable'
  <1> SUFFICES ASSUME NEW s \in Requests, Running(s)' PROVE cancel'[s[1]] = s[2]
    BY DEF RunningRequestIsCancellable
  <1>1. ctxDone'[s] = (ctxDone[s] \/ (s[1] \in S /\ cancel[s[1]] = s[2]))
    BY DEF CancelReload, CancelledBy
  <1>2. Running(s) /\ ~(s[1] \in S /\ cancel[s[1]] = s[2])
    BY <1>1 DEF Running, Busy
  <1>3. cancel[s[1]] = s[2] /\ s[1] \notin S /\ s[1] \in LogViews
    BY <1>2 DEF RunningRequestIsCancellable, Requests
  <1>4. QED
    BY <1>3 DEF CancelReload

\* A new request takes over the cancel function, its predecessor is cancelled.
LEMMA ReloadCancellable ==
  ASSUME TypeOK, RunningRequestIsCancellable, NEW v \in LogViews, NEW f \in BOOLEAN,
         ReloadLogsCmd(v, f)
  PROVE  RunningRequestIsCancellable'
  <1> DEFINE r == requestID[v] + 1
  <1> SUFFICES ASSUME NEW s \in Requests, Running(s)' PROVE cancel'[s[1]] = s[2]
    BY DEF RunningRequestIsCancellable
  <1>1. s[1] \in LogViews /\ s = <<s[1], s[2]>>
    BY DEF Requests
  <1>2. ctxDone'[s] = (ctxDone[s] \/ (s[1] = v /\ cancel[s[1]] = s[2]))
    BY DEF ReloadLogsCmd, CancelledBy
  <1>3. cancel'[v] = r /\ \A w \in LogViews : w # v => cancel'[w] = cancel[w]
    BY DEF ReloadLogsCmd, TypeOK
  <1>4. CASE s = <<v, r>>
    BY <1>3, <1>4
  <1>5. CASE s # <<v, r>>
    <2>1. task'[s] = task[s]
      BY <1>5 DEF ReloadLogsCmd, TypeOK
    <2>2. Running(s) /\ ~(s[1] = v /\ cancel[s[1]] = s[2])
      BY <1>2, <2>1 DEF Running, Busy
    <2>3. cancel[s[1]] = s[2] /\ s[1] # v
      BY <2>2 DEF RunningRequestIsCancellable
    <2>4. QED
      BY <1>1, <1>3, <2>3
  <1>6. QED
    BY <1>4, <1>5

\* A step that cancels nothing, starts nothing and keeps the cancel functions.
LEMMA NothingStartedCancellable ==
  ASSUME RunningRequestIsCancellable, UNCHANGED <<ctxDone, cancel>>,
         \A s \in Requests : Busy(s)' => Busy(s)
  PROVE  RunningRequestIsCancellable'
  BY DEF RunningRequestIsCancellable, Running

\* Every step keeps running requests cancellable.
LEMMA NextCancellable ==
  TypeOK /\ RunningRequestIsCancellable /\ [Next]_vars => RunningRequestIsCancellable'
  <1> SUFFICES ASSUME TypeOK, RunningRequestIsCancellable, [Next]_vars
               PROVE  RunningRequestIsCancellable'
    OBVIOUS
  <1>1. ASSUME NEW v \in LogViews,
               OpenLogs(v) \/ ResumeFollow(v) \/ ChangeOptions(v)
        PROVE  RunningRequestIsCancellable'
    <2>1. ReloadLogsCmd(v, TRUE) \/ (ReloadLogsCmd(v, follow[v]) /\ follow[v] \in BOOLEAN)
      BY <1>1 DEF OpenLogs, ResumeFollow, ChangeOptions, TypeOK
    <2>2. QED
      BY <2>1, ReloadCancellable
  <1>2. CASE \/ PopView \/ SwitchRoot \/ \E k \in Slots : JumpToBookmark(k)
             \/ \E v \in LogViews : PauseFollow(v)
    <2>1. task' = task /\ \E S : CancelReload(S)
      BY <1>2 DEF PopView, SwitchRoot, JumpToBookmark, PauseFollow
    <2>2. QED
      BY <2>1, CancelReloadCancellable
  <1>3. CASE \/ PushOther \/ CommandSwitchRoot \/ \E k \in Slots : SetBookmark(k)
             \/ \E v \in LogViews : CommandLogs(v) \/ StartTyping(v) \/ StopTyping(v)
             \/ \E v \in LogViews : PodWrites(v)
             \/ UNCHANGED vars
    <2>1. UNCHANGED <<task, ctxDone, cancel>>
      BY <1>3 DEF PushOther, CommandSwitchRoot, SetBookmark, CommandLogs, StartTyping,
                  StopTyping, PodWrites, vars, viewVars, reqVars
    <2>2. QED
      BY <2>1, NothingStartedCancellable DEF Busy
  <1>4. ASSUME NEW m \in inbox, Deliver(m) PROVE RunningRequestIsCancellable'
    <2>1. UNCHANGED <<task, ctxDone, cancel>>
      BY <1>4 DEF Deliver, IgnoreMsg, HandleMsg, viewVars
    <2>2. QED
      BY <2>1, NothingStartedCancellable DEF Busy
  <1>5. ASSUME NEW s \in Requests, Goroutine(s) PROVE RunningRequestIsCancellable'
    <2>1. UNCHANGED <<ctxDone, cancel>>
      BY <1>5 DEF Goroutine, ReadLine, SendLine, DropLine, StreamEnds, FetchReturns,
                  PumpReceive, PumpClosed, viewVars
    <2>2. \E t \in {"streaming", "sending", "closed", "failed", "returned"} :
             \/ task' = task
             \/ Busy(s) /\ task' = [task EXCEPT ![s] = t]
      BY <1>5 DEF Goroutine, ReadLine, SendLine, DropLine, StreamEnds, FetchReturns,
                  PumpReceive, PumpClosed, Busy
    <2>3. \A q \in Requests : Busy(q)' => Busy(q)
      BY <2>2 DEF Busy, TypeOK
    <2>4. QED
      BY <2>1, <2>3, NothingStartedCancellable
  <1>6. QED
    BY <1>1, <1>2, <1>3, <1>4, <1>5 DEF Next, User

\* Whatever a view has running it can cancel, in every reachable state.
THEOREM Cancellable == Spec => []RunningRequestIsCancellable
  <1>1. Init => TypeOK /\ RunningRequestIsCancellable
    BY InitType DEF Init, RunningRequestIsCancellable, Running, Busy
  <1>2. TypeOK /\ RunningRequestIsCancellable /\ [Next]_vars
          => TypeOK' /\ RunningRequestIsCancellable'
    BY NextType, NextCancellable
  <1>3. QED
    BY <1>1, <1>2, PTL DEF Spec

-----------------------------------------------------------------------------
(* One message of a stream in transit.  It holds of a single log view: the *)
(* numbers that views give their requests coincide, and a view that takes  *)
(* another's message asks for one more of its own.  The strengthening says *)
(* what a request number can stand for: a request not made yet has left no *)
(* trace, a fetch has no pump and no channel, and the channel a view holds *)
(* is that of its current request.                                         *)

SingleView == \A v, w \in LogViews : v = w

HeldStreamIsCurrent == \A v \in LogViews : streamCh[v] \in {0, requestID[v]}

Untouched(s) == /\ task[s] = "none" /\ pump[s] = 0 /\ ch[s] = <<>>
                /\ \A m \in inbox : ~Of(m, s)

FutureRequestsUntouched ==
    \A s \in Requests : s[2] > requestID[s[1]] => Untouched(s)

ChannelHoldsOwnMessages ==
    \A s \in Requests : \A i \in 1 .. Len(ch[s]) : Of(ch[s][i], s)

FetchHasNoStream ==
    \A s \in Requests : task[s] \in {"fetching", "returned"} =>
        /\ pump[s] = 0
        /\ ch[s] = <<>>
        /\ \A m \in inbox : Of(m, s) => m.type = "result" /\ task[s] = "returned"

TransitInv ==
    /\ TypeOK
    /\ OneMessageInTransit
    /\ HeldStreamIsCurrent
    /\ FutureRequestsUntouched
    /\ ChannelHoldsOwnMessages
    /\ FetchHasNoStream

\* Work that is a stream's, and stays one.
IsStream(t) == t \in {"streaming", "sending", "closed", "failed"}

\* A step that hands over nothing, starts no pump and fills no channel; it may
\* take messages away, drop the channels that views hold, and move a stream on.
LEMMA QuietTransit ==
  ASSUME TransitInv, TypeOK', UNCHANGED <<pump, ch, requestID>>, inbox' \subseteq inbox,
         \A v \in LogViews : streamCh'[v] \in {0, streamCh[v]},
         \A s \in Requests : task'[s] = task[s] \/ (IsStream(task[s]) /\ IsStream(task'[s]))
  PROVE  TransitInv'
  <1>1. OneMessageInTransit'
    BY DEF TransitInv, OneMessageInTransit
  <1>2. HeldStreamIsCurrent'
    BY DEF TransitInv, HeldStreamIsCurrent
  <1>3. FutureRequestsUntouched'
    BY DEF TransitInv, FutureRequestsUntouched, Untouched, IsStream
  <1>4. ChannelHoldsOwnMessages'
    BY DEF TransitInv, ChannelHoldsOwnMessages
  <1>5. FetchHasNoStream'
    BY DEF TransitInv, FetchHasNoStream, IsStream
  <1>6. QED
    BY <1>1, <1>2, <1>3, <1>4, <1>5 DEF TransitInv

\* A new request was untouched; it starts with one pump, or with a fetch.
LEMMA ReloadTransit ==
  ASSUME TransitInv, TypeOK', NEW v \in LogViews, NEW f \in BOOLEAN,
         ReloadLogsCmd(v, f), inbox' = inbox
  PROVE  TransitInv'
  <1> DEFINE r == requestID[v] + 1
             n == <<v, r>>
  <1>1. /\ n \in Requests /\ n[1] = v /\ n[2] = r
        /\ r \in Nat /\ r > requestID[v] /\ r # 0
        /\ requestID'[v] = r
        /\ \A w \in LogViews : w # v => requestID'[w] = requestID[w]
    BY ConstantsOK DEF TransitInv, TypeOK, ReloadLogsCmd, Requests, RequestIDs
  <1>2. Untouched(n)
    BY <1>1 DEF TransitInv, FutureRequestsUntouched
  <1>3. /\ ch' = ch
        /\ pump'[n] = (IF f THEN 1 ELSE 0)
        /\ task'[n] = (IF f THEN "streaming" ELSE "fetching")
        /\ \A s \in Requests : s # n => pump'[s] = pump[s] /\ task'[s] = task[s]
    BY <1>1 DEF ReloadLogsCmd, TransitInv, TypeOK
  <1>4. OneMessageInTransit'
    <2> SUFFICES ASSUME NEW s \in Requests
                 PROVE  /\ pump'[s] <= 1
                        /\ \A m \in inbox : Of(m, s) => pump'[s] = 0
                        /\ \A m, k \in inbox : Of(m, s) /\ Of(k, s) => m = k
      BY DEF OneMessageInTransit, Of
    <2>1. CASE s = n
      BY <1>2, <1>3, <2>1 DEF Untouched
    <2>2. CASE s # n
      BY <1>3, <2>2 DEF TransitInv, OneMessageInTransit
    <2>3. QED
      BY <2>1, <2>2
  <1>5. HeldStreamIsCurrent'
    <2>1. streamCh'[v] \in {0, r} /\ \A w \in LogViews : w # v => streamCh'[w] = streamCh[w]
      BY DEF ReloadLogsCmd, TransitInv, TypeOK
    <2>2. QED
      BY <1>1, <2>1 DEF TransitInv, HeldStreamIsCurrent
  <1>6. FutureRequestsUntouched'
    <2> SUFFICES ASSUME NEW s \in Requests, s[2] > requestID'[s[1]]
                 PROVE  Untouched(s)'
      BY DEF FutureRequestsUntouched
    <2>1. s # n /\ s[2] > requestID[s[1]]
      <3>1. s[1] \in LogViews /\ s[2] \in Nat /\ requestID[v] \in Nat
        BY DEF Requests, RequestIDs, TransitInv, TypeOK
      <3>2. QED
        BY <1>1, <3>1
    <2>2. Untouched(s)
      BY <2>1 DEF TransitInv, FutureRequestsUntouched
    <2>3. QED
      BY <1>3, <2>1, <2>2 DEF Untouched, Of
  <1>7. ChannelHoldsOwnMessages'
    BY <1>3 DEF TransitInv, ChannelHoldsOwnMessages, Of
  <1>8. FetchHasNoStream'
    <2> SUFFICES ASSUME NEW s \in Requests, task'[s] \in {"fetching", "returned"}
                 PROVE  /\ pump'[s] = 0
                        /\ ch[s] = <<>>
                        /\ \A m \in inbox : Of(m, s) => m.type = "result" /\ task'[s] = "returned"
      BY <1>3 DEF FetchHasNoStream, Of
    <2>1. CASE s = n
      BY <1>2, <1>3, <2>1 DEF Untouched
    <2>2. CASE s # n
      BY <1>3, <2>2 DEF TransitInv, FetchHasNoStream
    <2>3. QED
      BY <2>1, <2>2
  <1>9. QED
    BY <1>4, <1>5, <1>6, <1>7, <1>8 DEF TransitInv

\* The view that shows a line asks for the next message of the same stream, which
\* has no pump and no other message under way.
LEMMA AppendTransit ==
  ASSUME SingleView, TransitInv, TypeOK', NEW m \in inbox, NEW v \in LogViews,
         Deliver(m), HandleMsg(v, m), HandleAppend(v, m)
  PROVE  TransitInv'
  <1> DEFINE s == <<m.view, m.req>>
  <1>1. /\ m \in Message /\ m.view = v /\ m.req = requestID[v] /\ m.type = "append"
        /\ s \in Requests /\ Of(m, s)
    BY DEF SingleView, TransitInv, TypeOK, Message, HandleMsg, HandleAppend, Requests, Of
  <1>2. /\ inbox' = inbox \ {m}
        /\ UNCHANGED <<task, ch, requestID, streamCh>>
    BY DEF Deliver, HandleMsg
  <1>3. CASE streamCh[v] = 0
    <2>1. pump' = pump
      BY <1>3 DEF HandleAppend, NextStreamMsgCmd
    <2>2. QED
      BY <1>2, <2>1, QuietTransit
  <1>4. CASE streamCh[v] # 0
    <2>1. pump' = [pump EXCEPT ![s] = @ + 1]
      BY <1>1, <1>4 DEF HandleAppend, NextStreamMsgCmd, TransitInv, HeldStreamIsCurrent
    <2>2. pump[s] = 0 /\ \A k \in inbox' : ~Of(k, s)
      BY <1>1, <1>2 DEF TransitInv, OneMessageInTransit
    <2>3. pump'[s] = 1 /\ \A q \in Requests : q # s => pump'[q] = pump[q]
      BY <1>1, <2>1, <2>2 DEF TransitInv, TypeOK
    <2>4. OneMessageInTransit'
      <3> SUFFICES ASSUME NEW q \in Requests
                   PROVE  /\ pump'[q] <= 1
                          /\ \A k \in inbox' : Of(k, q) => pump'[q] = 0
                          /\ \A k, l \in inbox' : Of(k, q) /\ Of(l, q) => k = l
        BY DEF OneMessageInTransit, Of
      <3>1. CASE q = s
        BY <2>2, <2>3, <3>1
      <3>2. CASE q # s
        BY <1>2, <2>3, <3>2 DEF TransitInv, OneMessageInTransit
      <3>3. QED
        BY <3>1, <3>2
    <2>5. HeldStreamIsCurrent' /\ ChannelHoldsOwnMessages'
      BY <1>2 DEF TransitInv, HeldStreamIsCurrent, ChannelHoldsOwnMessages, Of
    <2>6. FutureRequestsUntouched'
      <3> SUFFICES ASSUME NEW q \in Requests, q[2] > requestID[q[1]] PROVE Untouched(q)'
        BY <1>2 DEF FutureRequestsUntouched
      <3>1. Untouched(q) /\ q # s
        BY <1>1 DEF TransitInv, FutureRequestsUntouched, Untouched
      <3>2. QED
        BY <1>2, <2>3, <3>1 DEF Untouched, Of
    <2>7. FetchHasNoStream'
      <3> SUFFICES ASSUME NEW q \in Requests, task[q] \in {"fetching", "returned"}
                   PROVE  /\ pump'[q] = 0
                          /\ ch[q] = <<>>
                          /\ \A k \in inbox' : Of(k, q) => k.type = "result" /\ task[q] = "returned"
        BY <1>2 DEF FetchHasNoStream, Of
      <3>1. q # s
        BY <1>1 DEF TransitInv, FetchHasNoStream
      <3>2. QED
        BY <1>2, <2>3, <3>1 DEF TransitInv, FetchHasNoStream
    <2>8. QED
      BY <2>4, <2>5, <2>6, <2>7 DEF TransitInv
  <1>5. QED
    BY <1>3, <1>4

\* A stream fills its own channel only, with its own messages.
LEMMA ChannelTransit ==
  ASSUME TransitInv, TypeOK', NEW s \in Requests, SendLine(s) \/ StreamEnds(s)
  PROVE  TransitInv'
  <1>1. /\ UNCHANGED <<pump, inbox, streamCh, requestID>>
        /\ IsStream(task[s]) /\ IsStream(task'[s])
        /\ \A q \in Requests : q # s => task'[q] = task[q] /\ ch'[q] = ch[q]
    BY DEF SendLine, StreamEnds, viewVars, TransitInv, TypeOK, IsStream
  <1>2. \A i \in 1 .. Len(ch'[s]) : Of(ch'[s][i], s)
    <2>1. ch[s] \in Seq(Message) /\ \A i \in 1 .. Len(ch[s]) : Of(ch[s][i], s)
      BY DEF TransitInv, TypeOK, ChannelHoldsOwnMessages
    <2>2. PICK m : Of(m, s) /\ (ch'[s] = ch[s] \/ ch'[s] = Append(ch[s], m))
      <3>1. CASE SendLine(s)
        BY <3>1 DEF SendLine, AppendMsg, Of, TransitInv, TypeOK
      <3>2. CASE StreamEnds(s)
        <4>1. \A e : Of(DoneMsg(s, e), s)
          BY DEF DoneMsg, Of
        <4>2. PICK e : ch' = IF Len(ch[s]) < ChanCap
                             THEN [ch EXCEPT ![s] = Append(@, DoneMsg(s, e))]
                             ELSE ch
          BY <3>2 DEF StreamEnds
        <4>3. QED
          BY <4>1, <4>2 DEF TransitInv, TypeOK
      <3>3. QED
        BY <3>1, <3>2
    <2>3. \A i \in 1 .. Len(Append(ch[s], m)) :
            Append(ch[s], m)[i] = (IF i <= Len(ch[s]) THEN ch[s][i] ELSE m)
      BY <2>1
    <2>4. \A i \in 1 .. Len(Append(ch[s], m)) : Of(Append(ch[s], m)[i], s)
      BY <2>1, <2>2, <2>3
    <2>5. QED
      BY <2>1, <2>2, <2>4
  <1>3. OneMessageInTransit' /\ HeldStreamIsCurrent'
    BY <1>1 DEF TransitInv, OneMessageInTransit, HeldStreamIsCurrent
  <1>4. ChannelHoldsOwnMessages'
    BY <1>1, <1>2 DEF TransitInv, ChannelHoldsOwnMessages, Of
  <1>5. FutureRequestsUntouched'
    BY <1>1 DEF TransitInv, FutureRequestsUntouched, Untouched, IsStream
  <1>6. FetchHasNoStream'
    BY <1>1 DEF TransitInv, FetchHasNoStream, IsStream
  <1>7. QED
    BY <1>3, <1>4, <1>5, <1>6 DEF TransitInv

\* A fetch hands over one message, and is over.
LEMMA FetchTransit ==
  ASSUME TransitInv, TypeOK', NEW s \in Requests, FetchReturns(s)
  PROVE  TransitInv'
  <1>1. PICK m : Of(m, s) /\ m.type = "result" /\ inbox' = inbox \cup {m}
    BY DEF FetchReturns, ResultMsg, Of
  <1>2. /\ UNCHANGED <<pump, ch, streamCh, requestID>>
        /\ task[s] = "fetching" /\ task'[s] = "returned"
        /\ \A q \in Requests : q # s => task'[q] = task[q] /\ ~Of(m, q)
    <2>1. \A q \in Requests : q # s => ~Of(m, q)
      BY <1>1 DEF Of, Requests
    <2>2. QED
      BY <2>1 DEF FetchReturns, viewVars, TransitInv, TypeOK
  <1>3. pump[s] = 0 /\ ch[s] = <<>> /\ \A k \in inbox : ~Of(k, s)
    BY <1>2 DEF TransitInv, FetchHasNoStream
  <1>4. OneMessageInTransit'
    BY <1>1, <1>2, <1>3 DEF TransitInv, OneMessageInTransit, Of
  <1>5. HeldStreamIsCurrent' /\ ChannelHoldsOwnMessages'
    BY <1>2 DEF TransitInv, HeldStreamIsCurrent, ChannelHoldsOwnMessages, Of
  <1>6. FutureRequestsUntouched'
    BY <1>1, <1>2 DEF TransitInv, FutureRequestsUntouched, Untouched, Of
  <1>7. FetchHasNoStream'
    BY <1>1, <1>2, <1>3 DEF TransitInv, FetchHasNoStream, Of
  <1>8. QED
    BY <1>4, <1>5, <1>6, <1>7 DEF TransitInv

\* The only pump of a stream turns into the only message of the stream.
LEMMA PumpTransit ==
  ASSUME TransitInv, TypeOK', NEW s \in Requests, PumpReceive(s) \/ PumpClosed(s)
  PROVE  TransitInv'
  <1>1. /\ UNCHANGED <<task, streamCh, requestID>>
        /\ pump[s] = 1 /\ pump'[s] = 0
        /\ \A q \in Requests : q # s => pump'[q] = pump[q] /\ ch'[q] = ch[q]
    <2>1. pump[s] \in Nat /\ pump[s] > 0 /\ pump[s] <= 1
      BY DEF PumpReceive, PumpClosed, TransitInv, TypeOK, OneMessageInTransit
    <2>2. QED
      BY <2>1 DEF PumpReceive, PumpClosed, viewVars, TransitInv, TypeOK
  <1>2. \A m \in inbox : ~Of(m, s)
    BY <1>1 DEF TransitInv, OneMessageInTransit
  <1>3. ~Untouched(s) /\ task[s] \notin {"fetching", "returned"}
    BY <1>1 DEF Untouched, TransitInv, FetchHasNoStream
  <1>4. \A i \in 1 .. Len(ch'[s]) : Of(ch'[s][i], s)
    <2>1. CASE PumpReceive(s)
      <3>1. ch[s] \in Seq(Message) /\ ch[s] # <<>> /\ ch'[s] = Tail(ch[s])
        BY <2>1 DEF PumpReceive, TransitInv, TypeOK
      <3>2. /\ \A i \in 1 .. Len(Tail(ch[s])) : Tail(ch[s])[i] = ch[s][i + 1]
            /\ \A i \in 1 .. Len(Tail(ch[s])) : i + 1 \in 1 .. Len(ch[s])
        BY <3>1
      <3>3. QED
        BY <3>1, <3>2 DEF TransitInv, ChannelHoldsOwnMessages
    <2>2. CASE PumpClosed(s)
      BY <2>2 DEF PumpClosed, TransitInv, ChannelHoldsOwnMessages
    <2>3. QED
      BY <2>1, <2>2
  <1>5. PICK m : Of(m, s) /\ inbox' \subseteq inbox \cup {m}
    <2>1. CASE PumpReceive(s)
      <3>1. ch[s] \in Seq(Message) /\ ch[s] # <<>>
        BY <2>1 DEF PumpReceive, TransitInv, TypeOK
      <3>2. Head(ch[s]) = ch[s][1] /\ 1 \in 1 .. Len(ch[s])
        BY <3>1
      <3>3. Of(Head(ch[s]), s)
        BY <3>2 DEF TransitInv, ChannelHoldsOwnMessages
      <3>4. QED
        BY <2>1, <3>3 DEF PumpReceive
    <2>2. CASE PumpClosed(s)
      <3>1. Of(AppendMsg(s, 0), s)
        BY DEF Of, AppendMsg
      <3>2. QED
        BY <2>2, <3>1 DEF PumpClosed
    <2>3. QED
      BY <2>1, <2>2
  <1>6. \A q \in Requests : q # s => ~Of(m, q)
    BY <1>5 DEF Of, Requests
  <1>7. OneMessageInTransit'
    <2> SUFFICES ASSUME NEW q \in Requests
                 PROVE  /\ pump'[q] <= 1
                        /\ \A k \in inbox' : Of(k, q) => pump'[q] = 0
                        /\ \A k, l \in inbox' : Of(k, q) /\ Of(l, q) => k = l
      BY DEF OneMessageInTransit, Of
    <2>1. CASE q = s
      BY <1>1, <1>2, <1>5, <2>1
    <2>2. CASE q # s
      BY <1>1, <1>5, <1>6, <2>2 DEF TransitInv, OneMessageInTransit
    <2>3. QED
      BY <2>1, <2>2
  <1>8. HeldStreamIsCurrent' /\ ChannelHoldsOwnMessages'
    BY <1>1, <1>4 DEF TransitInv, HeldStreamIsCurrent, ChannelHoldsOwnMessages, Of
  <1>9. FutureRequestsUntouched'
    BY <1>1, <1>3, <1>5, <1>6 DEF TransitInv, FutureRequestsUntouched, Untouched, Of
  <1>10. FetchHasNoStream'
    BY <1>1, <1>3, <1>5, <1>6 DEF TransitInv, FetchHasNoStream, Of
  <1>11. QED
    BY <1>7, <1>8, <1>9, <1>10 DEF TransitInv

\* Every step keeps the strengthened invariant.
LEMMA NextTransit ==
  ASSUME SingleView
  PROVE  TransitInv /\ [Next]_vars => TransitInv'
  <1> SUFFICES ASSUME TransitInv, [Next]_vars PROVE TransitInv'
    OBVIOUS
  <1>1. TypeOK'
    BY NextType DEF TransitInv
  <1>2. ASSUME NEW v \in LogViews,
               OpenLogs(v) \/ ResumeFollow(v) \/ ChangeOptions(v)
        PROVE  TransitInv'
    <2>1. /\ inbox' = inbox
          /\ ReloadLogsCmd(v, TRUE) \/ (ReloadLogsCmd(v, follow[v]) /\ follow[v] \in BOOLEAN)
      BY <1>2 DEF OpenLogs, ResumeFollow, ChangeOptions, TransitInv, TypeOK
    <2>2. QED
      BY <1>1, <2>1, ReloadTransit
  <1>3. CASE \/ PopView \/ SwitchRoot \/ \E k \in Slots : JumpToBookmark(k)
             \/ \E v \in LogViews : PauseFollow(v)
    <2>1. UNCHANGED <<pump, ch, requestID, inbox, task>> /\ \E S : CancelReload(S)
      BY <1>3 DEF PopView, SwitchRoot, JumpToBookmark, PauseFollow
    <2>2. \A v \in LogViews : streamCh'[v] \in {0, streamCh[v]}
      BY <2>1 DEF CancelReload
    <2>3. QED
      BY <1>1, <2>1, <2>2, QuietTransit
  <1>4. CASE \/ PushOther \/ CommandSwitchRoot \/ \E k \in Slots : SetBookmark(k)
             \/ \E v \in LogViews : CommandLogs(v) \/ StartTyping(v) \/ StopTyping(v)
             \/ \E v \in LogViews : PodWrites(v)
             \/ UNCHANGED vars
    <2>1. UNCHANGED <<pump, ch, requestID, inbox, task, streamCh>>
      BY <1>4 DEF PushOther, CommandSwitchRoot, SetBookmark, CommandLogs, StartTyping,
                  StopTyping, PodWrites, vars, viewVars, reqVars
    <2>2. QED
      BY <1>1, <2>1, QuietTransit
  <1>5. ASSUME NEW m \in inbox, Deliver(m) PROVE TransitInv'
    <2>1. ASSUME NEW v \in LogViews, HandleMsg(v, m), HandleAppend(v, m) PROVE TransitInv'
      BY <1>1, <1>5, <2>1, AppendTransit
    <2>2. CASE \/ IgnoreMsg(m)
               \/ \E v \in LogViews : HandleMsg(v, m) /\ (HandleDone(v, m) \/ HandleResult(v, m))
      <3>1. UNCHANGED <<pump, ch, requestID, task, streamCh>> /\ inbox' \subseteq inbox
        BY <1>5, <2>2 DEF Deliver, IgnoreMsg, HandleMsg, HandleDone, HandleResult, viewVars
      <3>2. QED
        BY <1>1, <3>1, QuietTransit
    <2>3. QED
      BY <1>5, <2>1, <2>2 DEF Deliver, HandleMsg
  <1>6. ASSUME NEW s \in Requests, Goroutine(s) PROVE TransitInv'
    <2>1. CASE ReadLine(s) \/ DropLine(s)
      <3>1. /\ UNCHANGED <<pump, ch, requestID, inbox, streamCh>>
            /\ \A q \in Requests :
                 task'[q] = task[q] \/ (IsStream(task[q]) /\ IsStream(task'[q]))
        BY <2>1 DEF ReadLine, DropLine, viewVars, IsStream, TransitInv, TypeOK
      <3>2. QED
        BY <1>1, <3>1, QuietTransit
    <2>2. QED
      BY <1>1, <1>6, <2>1, ChannelTransit, FetchTransit, PumpTransit DEF Goroutine
  <1>7. QED
    BY <1>2, <1>3, <1>4, <1>5, <1>6 DEF Next, User

\* The messages of a stream reach the event loop one at a time, in any history of
\* a single log view.
THEOREM TransitCorrect ==
  ASSUME SingleView
  PROVE  Spec => []OneMessageInTransit
  <1>1. Init => TransitInv
    BY InitType DEF Init, TransitInv, OneMessageInTransit, HeldStreamIsCurrent,
       FutureRequestsUntouched, Untouched, ChannelHoldsOwnMessages, FetchHasNoStream
  <1>2. TransitInv /\ [Next]_vars => TransitInv'
    BY NextTransit
  <1>3. TransitInv => OneMessageInTransit
    BY DEF TransitInv
  <1>4. QED
    BY <1>1, <1>2, <1>3, PTL DEF Spec

-----------------------------------------------------------------------------
(* The lines of a followed log.  First what holds of requests and views    *)
(* whatever the lines are: what a view can cancel is its current request,  *)
(* a request not made yet is not cancelled, one that is made is at work or *)
(* was, and only views that exist are on the stack or make requests.       *)

OpenedViews == opened \cup {OtherView}

BookInv ==
    /\ \A v \in LogViews : cancel[v] \in {0, requestID[v]}
    /\ \A s \in Requests : s[2] > requestID[s[1]] => ~ctxDone[s]
    /\ \A s \in Requests : s[2] <= requestID[s[1]] => task[s] # "none"
    /\ stack \in Seq(OpenedViews) /\ bookmarks \in [Slots -> Seq(OpenedViews)]
    /\ \A v \in LogViews \ opened : requestID[v] = 0

\* A view on top exists.
LEMMA TopIsOpened ==
  ASSUME TypeOK, BookInv, NEW v \in LogViews, OnTop(v)
  PROVE  v \in opened
  <1>1. Len(stack) \in 1 .. Len(stack) /\ stack \in Seq(OpenedViews)
    BY DEF TypeOK, BookInv
  <1>2. QED
    BY <1>1, ConstantsOK DEF OnTop, Top, OpenedViews

\* Of the books only those of the stack change, with views that exist or come to.
LEMMA StackBooks ==
  ASSUME TypeOK, BookInv, UNCHANGED <<requestID, task>>, opened \subseteq opened',
         \A v \in LogViews : cancel'[v] \in {0, cancel[v]},
         \A s \in Requests : ctxDone'[s] => ctxDone[s] \/ cancel[s[1]] = s[2],
         stack' \in Seq(OpenedViews'), bookmarks' \in [Slots -> Seq(OpenedViews')]
  PROVE  BookInv'
  <1>1. ASSUME NEW s \in Requests, s[2] > requestID[s[1]] PROVE ~ctxDone'[s]
    <2>1. s[1] \in LogViews /\ s[2] \in Nat \ {0} /\ requestID[s[1]] \in Nat
      BY DEF Requests, RequestIDs, TypeOK
    <2>2. cancel[s[1]] # s[2]
      BY <1>1, <2>1 DEF BookInv
    <2>3. QED
      BY <1>1, <2>2 DEF BookInv
  <1>2. QED
    BY <1>1 DEF BookInv

\* A new request: nobody can have cancelled it.
LEMMA ReloadBooks ==
  ASSUME TypeOK, BookInv, NEW v \in opened', v \in LogViews, opened \subseteq opened',
         NEW f \in BOOLEAN, ReloadLogsCmd(v, f),
         stack' \in Seq(OpenedViews'), bookmarks' \in [Slots -> Seq(OpenedViews')]
  PROVE  BookInv'
  <1> DEFINE r == requestID[v] + 1
             n == <<v, r>>
  <1>1. /\ n \in Requests /\ n[1] = v /\ n[2] = r
        /\ requestID[v] \in Nat /\ requestID'[v] = r /\ cancel'[v] = r
        /\ \A w \in LogViews : w # v => requestID'[w] = requestID[w] /\ cancel'[w] = cancel[w]
    BY ConstantsOK DEF TypeOK, ReloadLogsCmd, Requests, RequestIDs
  <1>2. \A s \in Requests : s = <<s[1], s[2]>> /\ s[1] \in LogViews /\ s[2] \in Nat \ {0}
    BY DEF Requests, RequestIDs
  <1>3. /\ task'[n] # "none" /\ \A s \in Requests : s # n => task'[s] = task[s]
        /\ \A s \in Requests : ctxDone'[s] => ctxDone[s] \/ (s[1] = v /\ cancel[v] = s[2])
    BY <1>1 DEF ReloadLogsCmd, CancelledBy, TypeOK
  <1>4. \A w \in LogViews : cancel'[w] \in {0, requestID'[w]}
    BY <1>1 DEF BookInv
  <1>5. ASSUME NEW s \in Requests, s[2] > requestID'[s[1]]
        PROVE  ~ctxDone'[s]
    <2>1. s[2] > requestID[s[1]] /\ (s[1] = v => cancel[v] # s[2])
      BY <1>1, <1>2, <1>5 DEF BookInv
    <2>2. QED
      BY <1>3, <2>1 DEF BookInv
  <1>6. ASSUME NEW s \in Requests, s[2] <= requestID'[s[1]]
        PROVE  task'[s] # "none"
    <2>1. CASE s = n
      BY <1>3, <2>1
    <2>2. CASE s # n
      <3>1. s[2] <= requestID[s[1]]
        BY <1>1, <1>2, <1>6, <2>2
      <3>2. QED
        BY <1>3, <2>2, <3>1 DEF BookInv
    <2>3. QED
      BY <2>1, <2>2
  <1>7. \A w \in LogViews \ opened' : requestID'[w] = 0
    BY <1>1 DEF BookInv
  <1>8. QED
    BY <1>4, <1>5, <1>6, <1>7 DEF BookInv

\* What the application makes of the stack is a stack of views that exist.
LEMMA OpenedStack ==
  ASSUME TypeOK, BookInv, NEW v \in OpenedViews', opened \subseteq opened'
  PROVE  /\ Append(stack, v) \in Seq(OpenedViews')
         /\ stack \o <<OtherView, v>> \in Seq(OpenedViews')
         /\ <<OtherView>> \in Seq(OpenedViews')
         /\ stack \in Seq(OpenedViews') /\ bookmarks \in [Slots -> Seq(OpenedViews')]
         /\ Len(stack) > 1 => SubSeq(stack, 1, Len(stack) - 1) \in Seq(OpenedViews')
  <1> DEFINE V == OpenedViews
             W == OpenedViews'
  <1>1. V \subseteq W /\ v \in W /\ OtherView \in W
    BY DEF OpenedViews
  <1>2. stack \in Seq(V) /\ bookmarks \in [Slots -> Seq(V)]
    BY DEF BookInv
  <1> HIDE DEF V, W
  <1>3. \A q \in Seq(V) : q \in Seq(W)
    BY <1>1
  <1>4. stack \in Seq(W) /\ bookmarks \in [Slots -> Seq(W)]
    BY <1>2, <1>3
  <1>5. Append(stack, v) \in Seq(W)
    BY <1>1, <1>4
  <1>6. <<OtherView>> \in Seq(W) /\ <<OtherView, v>> \in Seq(W)
    BY <1>1
  <1>7. stack \o <<OtherView, v>> \in Seq(W)
    BY <1>4, <1>6
  <1>8. Len(stack) > 1 => SubSeq(stack, 1, Len(stack) - 1) \in Seq(W)
    BY <1>4
  <1>9. QED
    BY <1>4, <1>5, <1>6, <1>7, <1>8 DEF V, W

\* Nothing of the books changes.
LEMMA QuietBooks ==
  ASSUME TypeOK, BookInv, UNCHANGED <<stack, bookmarks, opened, requestID, cancel, ctxDone>>,
         \A s \in Requests : task[s] # "none" => task'[s] # "none"
  PROVE  BookInv'
  BY DEF BookInv, OpenedViews

\* A new log view exists before it is shown and before it asks for anything.
LEMMA OpenBooks ==
  ASSUME TypeOK, BookInv, NEW v \in LogViews, OpenLogs(v) \/ CommandLogs(v)
  PROVE  BookInv'
  <1>1. opened' = opened \cup {v} /\ v \in opened' /\ v \in OpenedViews' /\ opened \subseteq opened'
    BY DEF OpenLogs, CommandLogs, Construct, OpenedViews
  <1>2. bookmarks' = bookmarks
    BY DEF OpenLogs, CommandLogs
  <1>3. stack' \in Seq(OpenedViews') /\ bookmarks' \in [Slots -> Seq(OpenedViews')]
    <2>1. stack' = Append(stack, v) \/ stack' = stack \o <<OtherView, v>>
      BY DEF OpenLogs, CommandLogs
    <2>2. QED
      BY <1>1, <1>2, <2>1, OpenedStack
  <1>4. CASE OpenLogs(v)
    BY <1>1, <1>3, <1>4, ReloadBooks DEF OpenLogs
  <1>5. CASE CommandLogs(v)
    <2>1. UNCHANGED <<requestID, task, cancel, ctxDone>>
      BY <1>5 DEF CommandLogs, reqVars
    <2>2. QED
      BY <1>1, <1>3, <2>1, StackBooks
  <1>6. QED
    BY <1>4, <1>5

\* The steps that take views off the stack, or a request out of a view.
LEMMA RemovalBooks ==
  ASSUME TypeOK, BookInv,
         \/ PushOther \/ PopView \/ SwitchRoot \/ CommandSwitchRoot
         \/ \E k \in Slots : SetBookmark(k) \/ JumpToBookmark(k)
         \/ \E v \in LogViews : PauseFollow(v)
  PROVE  BookInv'
  <1>1. UNCHANGED <<requestID, task, opened>>
    BY DEF PushOther, PopView, SwitchRoot, CommandSwitchRoot, SetBookmark, JumpToBookmark,
           PauseFollow, navVars, viewVars, reqVars
  <1>2. UNCHANGED <<cancel, ctxDone>> \/ \E S : CancelReload(S)
    BY DEF PushOther, PopView, SwitchRoot, CommandSwitchRoot, SetBookmark, JumpToBookmark,
           PauseFollow, viewVars, reqVars
  <1>3. \A v \in LogViews : cancel'[v] \in {0, cancel[v]}
    BY <1>2 DEF CancelReload
  <1>4. \A s \in Requests : ctxDone'[s] => ctxDone[s] \/ cancel[s[1]] = s[2]
    BY <1>2 DEF CancelReload, CancelledBy
  <1>5. OtherView \in OpenedViews'
    BY DEF OpenedViews
  <1>6. /\ Append(stack, OtherView) \in Seq(OpenedViews')
        /\ <<OtherView>> \in Seq(OpenedViews')
        /\ stack \in Seq(OpenedViews') /\ bookmarks \in [Slots -> Seq(OpenedViews')]
        /\ Len(stack) > 1 => SubSeq(stack, 1, Len(stack) - 1) \in Seq(OpenedViews')
    BY <1>1, <1>5, OpenedStack
  <1>7. stack' \in Seq(OpenedViews') /\ bookmarks' \in [Slots -> Seq(OpenedViews')]
    <2>1. CASE PushOther
      BY <1>6, <2>1 DEF PushOther
    <2>2. CASE PopView
      BY <1>6, <2>2 DEF PopView
    <2>3. CASE SwitchRoot \/ CommandSwitchRoot
      BY <1>6, <2>3 DEF SwitchRoot, CommandSwitchRoot
    <2>4. CASE \E k \in Slots : SetBookmark(k)
      BY <1>6, <2>4 DEF SetBookmark
    <2>5. CASE \E k \in Slots : JumpToBookmark(k)
      BY <1>6, <2>5 DEF JumpToBookmark
    <2>6. CASE \E v \in LogViews : PauseFollow(v)
      BY <1>6, <2>6 DEF PauseFollow, navVars
    <2>7. QED
      BY <2>1, <2>2, <2>3, <2>4, <2>5, <2>6
  <1>8. QED
    BY <1>1, <1>3, <1>4, <1>7, StackBooks

\* Every step keeps the books.
LEMMA NextBooks ==
  ASSUME TypeOK, BookInv, [Next]_vars
  PROVE  BookInv'
  <1>1. ASSUME NEW v \in LogViews, ResumeFollow(v) \/ ChangeOptions(v) PROVE BookInv'
    <2>1. /\ UNCHANGED <<stack, bookmarks, opened>> /\ OnTop(v)
          /\ ReloadLogsCmd(v, TRUE) \/ (ReloadLogsCmd(v, follow[v]) /\ follow[v] \in BOOLEAN)
      BY <1>1 DEF ResumeFollow, ChangeOptions, TypeOK, navVars
    <2>2. stack' \in Seq(OpenedViews') /\ bookmarks' \in [Slots -> Seq(OpenedViews')]
      BY <2>1 DEF BookInv, OpenedViews
    <2>3. v \in opened' /\ opened \subseteq opened'
      BY <2>1, TopIsOpened
    <2>4. QED
      BY <2>1, <2>2, <2>3, ReloadBooks
  <1>2. CASE \/ \E v \in LogViews : StartTyping(v) \/ StopTyping(v)
             \/ \E v \in LogViews : PodWrites(v)
             \/ \E m \in inbox : Deliver(m)
             \/ UNCHANGED vars
    <2>1. UNCHANGED <<stack, bookmarks, opened, requestID, cancel, ctxDone, task>>
      BY <1>2 DEF StartTyping, StopTyping, PodWrites, Deliver, IgnoreMsg, HandleMsg, vars,
                  navVars, viewVars, reqVars
    <2>2. QED
      BY <2>1, QuietBooks
  <1>3. ASSUME NEW s \in Requests, Goroutine(s) PROVE BookInv'
    <2>1. UNCHANGED <<stack, bookmarks, opened, requestID, cancel, ctxDone>>
      BY <1>3 DEF Goroutine, ReadLine, SendLine, DropLine, StreamEnds, FetchReturns,
                  PumpReceive, PumpClosed, navVars, viewVars
    <2>2. task' = task \/ \E t \in TaskState \ {"none"} : task' = [task EXCEPT ![s] = t]
      BY <1>3 DEF Goroutine, ReadLine, SendLine, DropLine, StreamEnds, FetchReturns,
                  PumpReceive, PumpClosed, TaskState
    <2>3. \A q \in Requests : task[q] # "none" => task'[q] # "none"
      BY <2>2 DEF TypeOK
    <2>4. QED
      BY <2>1, <2>3, QuietBooks
  <1>4. CASE User
    BY <1>1, <1>2, <1>4, OpenBooks, RemovalBooks DEF User
  <1>5. QED
    BY <1>2, <1>3, <1>4 DEF Next

-----------------------------------------------------------------------------
(* The lines themselves, for one log view and a log that is not sent       *)
(* twice.  The lines of the current stream are found on the screen, then   *)
(* in the one message under way, then in the channel, then in the hand of  *)
(* the goroutine, in this order and each further than the last; and as     *)
(* long as the stream is not cancelled each is the next one.  A log that   *)
(* is fetched is fetched once, and holds whatever is on the screen.        *)

LastPos(v) == IF allLines[v] = <<>> THEN 0 ELSE allLines[v][Len(allLines[v])].pos
LastReq(v) == IF allLines[v] = <<>> THEN 0 ELSE allLines[v][Len(allLines[v])].req

LastLineIsWritten ==
    \A v \in LogViews : LastPos(v) <= written[v] /\ LastReq(v) <= requestID[v]

\* A message that carries a fetched log comes from a request that has returned, and
\* no line on screen is beyond it.
HoldsTheScreen(m) ==
    /\ task[<<m.view, m.req>>] = "returned"
    /\ m.pos <= written[m.view]
    /\ m.err = "nil" /\ m.req = requestID[m.view] => LastPos(m.view) <= m.pos

ResultsHoldTheScreen == \A m \in inbox : m.type = "result" => HoldsTheScreen(m)

\* The current request is a stream.
Streams(s) == s[2] = requestID[s[1]] /\ IsStream(task[s])

\* The last line the goroutine has got rid of.
Sent(s) == IF task[s] = "sending" THEN cursor[s] - 1 ELSE cursor[s]

IsLine(m) == m.type = "append"

\* The lines under way come after those on screen, in order.
InOrder(s) ==
    /\ LastPos(s[1]) <= Sent(s)
    /\ \A i \in 1 .. Len(ch[s]) :
         IsLine(ch[s][i]) => LastPos(s[1]) < ch[s][i].pos /\ ch[s][i].pos <= Sent(s)
    /\ \A i, j \in 1 .. Len(ch[s]) :
         i < j /\ IsLine(ch[s][i]) /\ IsLine(ch[s][j]) => ch[s][i].pos < ch[s][j].pos
    /\ \A m \in inbox : Of(m, s) /\ IsLine(m) =>
         /\ LastPos(s[1]) < m.pos /\ m.pos <= Sent(s)
         /\ \A i \in 1 .. Len(ch[s]) : IsLine(ch[s][i]) => m.pos < ch[s][i].pos

\* None is missing: b is the last line that has left the channel.
NoGapFrom(s, b) ==
    /\ \A i \in 1 .. Len(ch[s]) : IsLine(ch[s][i]) => ch[s][i].pos = b + i
    /\ task[s] \in {"streaming", "sending"} => Sent(s) = b + Len(ch[s])
    /\ \A m \in inbox : Of(m, s) /\ IsLine(m) =>
         m.pos = b /\ (LastReq(s[1]) = s[2] => LastPos(s[1]) = b - 1)
    /\ pump[s] > 0 /\ LastReq(s[1]) = s[2] => LastPos(s[1]) = b

NoGap(s) == \E b \in Nat : NoGapFrom(s, b)

StreamOK(s) == Streams(s) => InOrder(s) /\ (~ctxDone[s] => NoGap(s))

StreamsOK == \A s \in Requests : StreamOK(s)

LinesInv == LastLineIsWritten /\ ResultsHoldTheScreen /\ StreamsOK

\* What a fetch brings does not pass through a channel.
ChannelHoldsNoResult ==
    \A s \in Requests : \A i \in 1 .. Len(ch[s]) : ch[s][i].type # "result"

RunInv == TransitInv /\ BookInv /\ ChannelHoldsNoResult /\ LinesInv

\* Positions are numbers.
LEMMA LineTypes ==
  ASSUME TypeOK
  PROVE  /\ \A v \in LogViews : /\ LastPos(v) \in Nat /\ LastReq(v) \in Nat
                                /\ written[v] \in Nat /\ requestID[v] \in Nat
         /\ \A s \in Requests : /\ s = <<s[1], s[2]>> /\ s[1] \in LogViews /\ s[2] \in Nat \ {0}
                                /\ Sent(s) \in Int /\ cursor[s] \in Nat /\ pump[s] \in Nat
                                /\ Sent(s) <= cursor[s] /\ cursor[s] <= written[s[1]]
                                /\ ch[s] \in Seq(Message) /\ Len(ch[s]) \in Nat
                                /\ task[s] \in TaskState
                                /\ \A i \in 1 .. Len(ch[s]) : ch[s][i].pos \in Nat
         /\ \A m \in inbox : m.pos \in Nat /\ <<m.view, m.req>> \in Requests
  <1>1. ASSUME NEW v \in LogViews
        PROVE  /\ LastPos(v) \in Nat /\ LastReq(v) \in Nat
               /\ written[v] \in Nat /\ requestID[v] \in Nat
    <2>1. allLines[v] \in Seq(Line)
      BY DEF TypeOK
    <2>2. allLines[v] # <<>> => allLines[v][Len(allLines[v])] \in Line
      BY <2>1
    <2>3. \A l \in Line : l.pos \in Nat /\ l.req \in Nat
      BY ConstantsOK DEF Line, Positions
    <2>4. LastPos(v) \in Nat /\ LastReq(v) \in Nat
      BY <2>2, <2>3 DEF LastPos, LastReq
    <2>5. written[v] \in Nat /\ requestID[v] \in Nat
      BY ConstantsOK DEF TypeOK, Positions
    <2>6. QED
      BY <2>4, <2>5
  <1>2. ASSUME NEW s \in Requests
        PROVE  /\ s = <<s[1], s[2]>> /\ s[1] \in LogViews /\ s[2] \in Nat \ {0}
               /\ Sent(s) \in Int /\ cursor[s] \in Nat /\ pump[s] \in Nat
               /\ Sent(s) <= cursor[s] /\ cursor[s] <= written[s[1]]
               /\ ch[s] \in Seq(Message) /\ Len(ch[s]) \in Nat
               /\ task[s] \in TaskState
    <2>1. /\ s = <<s[1], s[2]>> /\ s[1] \in LogViews /\ s[2] \in Nat \ {0}
          /\ cursor[s] \in Nat /\ pump[s] \in Nat /\ ch[s] \in Seq(Message)
          /\ task[s] \in TaskState /\ cursor[s] <= written[s[1]]
      BY ConstantsOK DEF TypeOK, Requests, RequestIDs, Positions
    <2>2. QED
      BY <2>1 DEF Sent
  <1>3. ASSUME NEW s \in Requests, NEW i \in 1 .. Len(ch[s])
        PROVE  ch[s][i].pos \in Nat
    <2>1. ch[s][i] \in Message
      BY DEF TypeOK
    <2>2. QED
      BY <2>1, ConstantsOK DEF Message, Positions
  <1>4. \A m \in inbox : m.pos \in Nat /\ <<m.view, m.req>> \in Requests
    BY ConstantsOK DEF TypeOK, Message, Positions, Requests
  <1>5. QED
    BY <1>1, <1>2, <1>3, <1>4

\* What a goroutine does to its stream without touching the channel: nothing, read a
\* line, or give one up once it is cancelled.
Moves(s) ==
    \/ task'[s] = task[s] /\ cursor'[s] = cursor[s]
    \/ task[s] = "streaming" /\ task'[s] = "sending" /\ cursor'[s] = cursor[s] + 1
    \/ task[s] = "sending" /\ task'[s] = "streaming" /\ cursor'[s] = cursor[s] /\ ctxDone'[s]

\* A step that shows, sends and receives no line of a stream.
LEMMA QuietStream ==
  ASSUME TypeOK, TypeOK', NEW s \in Requests, StreamOK(s), Moves(s),
         requestID'[s[1]] = requestID[s[1]], allLines'[s[1]] = allLines[s[1]],
         ch'[s] = ch[s], pump'[s] <= pump[s], ctxDone[s] => ctxDone'[s],
         \A m \in inbox' : Of(m, s) /\ IsLine(m) => m \in inbox
  PROVE  StreamOK(s)'
  <1> SUFFICES ASSUME Streams(s)' PROVE InOrder(s)' /\ (~ctxDone'[s] => NoGap(s)')
    BY DEF StreamOK
  <1>1. Streams(s) /\ Sent(s) <= Sent(s)' /\ (~ctxDone'[s] => Sent(s)' = Sent(s))
    <2>1. Streams(s)
      BY DEF Streams, Moves, IsStream
    <2>2. cursor[s] \in Nat /\ cursor'[s] \in Nat
      BY ConstantsOK DEF TypeOK, Positions
    <2>3. QED
      BY <2>1, <2>2 DEF Moves, Sent
  <1>2. LastPos(s[1])' = LastPos(s[1]) /\ LastReq(s[1])' = LastReq(s[1])
    BY DEF LastPos, LastReq
  <1>3. /\ Sent(s) \in Int /\ Sent(s)' \in Int /\ LastPos(s[1]) \in Nat
        /\ pump[s] \in Nat /\ pump'[s] \in Nat
        /\ \A i \in 1 .. Len(ch[s]) : ch[s][i].pos \in Nat
        /\ \A m \in inbox : m.pos \in Nat
    <2>1. cursor'[s] \in Nat /\ pump'[s] \in Nat
      BY ConstantsOK DEF TypeOK, Positions
    <2>2. Sent(s)' \in Int
      BY <2>1 DEF Sent
    <2>3. QED
      BY <2>1, <2>2, LineTypes DEF Requests
  <1>4. InOrder(s)'
    <2>1. InOrder(s)
      BY <1>1 DEF StreamOK
    <2>2. QED
      BY <1>1, <1>2, <1>3, <2>1 DEF InOrder, Of, IsLine
  <1>5. ASSUME ~ctxDone'[s] PROVE NoGap(s)'
    <2>1. PICK b \in Nat : NoGapFrom(s, b)
      BY <1>1, <1>5 DEF StreamOK, NoGap
    <2>2. task'[s] \in {"streaming", "sending"} => task[s] \in {"streaming", "sending"}
      BY DEF Moves
    <2>3. NoGapFrom(s, b)'
      BY <1>1, <1>2, <1>3, <1>5, <2>1, <2>2 DEF NoGapFrom, Of, IsLine
    <2>4. QED
      BY <2>1, <2>3 DEF NoGap
  <1>6. QED
    BY <1>4, <1>5

\* A step that shows no line and hands over no fetched log leaves what is on screen
\* in its place.
LEMMA QuietScreen ==
  ASSUME TypeOK, TypeOK', LinesInv, UNCHANGED <<allLines, requestID>>,
         \A v \in LogViews : written[v] <= written'[v],
         \A m \in inbox' : ~IsLine(m) => m \in inbox \/ m.type = "done",
         \A s \in Requests : task[s] = "returned" => task'[s] = "returned"
  PROVE  LastLineIsWritten' /\ ResultsHoldTheScreen'
  <1>1. \A v \in LogViews : /\ LastPos(v)' = LastPos(v) /\ LastReq(v)' = LastReq(v)
                            /\ LastPos(v) \in Nat /\ written[v] \in Nat /\ written'[v] \in Nat
    <2>1. \A v \in LogViews : written'[v] \in Nat
      BY ConstantsOK DEF TypeOK, Positions
    <2>2. \A v \in LogViews : LastPos(v)' = LastPos(v) /\ LastReq(v)' = LastReq(v)
      BY DEF LastPos, LastReq
    <2>3. QED
      BY <2>1, <2>2, LineTypes
  <1>2. LastLineIsWritten'
    BY <1>1 DEF LinesInv, LastLineIsWritten
  <1>3. ASSUME NEW m \in inbox', m.type = "result" PROVE HoldsTheScreen(m)'
    <2>1. m \in inbox /\ HoldsTheScreen(m)
      BY <1>3 DEF IsLine, LinesInv, ResultsHoldTheScreen
    <2>2. m.pos \in Nat /\ <<m.view, m.req>> \in Requests /\ m.view \in LogViews
      BY <2>1, LineTypes DEF TypeOK, Message
    <2>3. QED
      BY <1>1, <2>1, <2>2 DEF HoldsTheScreen
  <1>4. QED
    BY <1>2, <1>3 DEF ResultsHoldTheScreen

\* The steps that touch no line that is under way or on screen.
LEMMA QuietLines ==
  ASSUME TypeOK, TypeOK', LinesInv, UNCHANGED <<allLines, requestID, ch>>,
         \A v \in LogViews : written[v] <= written'[v], inbox' \subseteq inbox,
         \A s \in Requests : Moves(s) /\ pump'[s] <= pump[s] /\ (ctxDone[s] => ctxDone'[s])
  PROVE  LinesInv'
  <1>1. LastLineIsWritten' /\ ResultsHoldTheScreen'
    <2>1. \A s \in Requests : task[s] = "returned" => task'[s] = "returned"
      BY DEF Moves
    <2>2. QED
      BY <2>1, QuietScreen
  <1>2. ASSUME NEW s \in Requests PROVE StreamOK(s)'
    BY QuietStream DEF LinesInv, StreamsOK
  <1>3. QED
    BY <1>1, <1>2 DEF LinesInv, StreamsOK

\* A goroutine leaves the streams of the other requests alone.
LEMMA OtherStreams ==
  ASSUME TypeOK, TypeOK', LinesInv, NEW s \in Requests, NEW q \in Requests, q # s,
         UNCHANGED <<allLines, requestID, ctxDone>>,
         task'[q] = task[q], cursor'[q] = cursor[q], ch'[q] = ch[q], pump'[q] = pump[q],
         \A m \in inbox' : m \in inbox \/ ~Of(m, q)
  PROVE  StreamOK(q)'
  <1>1. StreamOK(q) /\ Moves(q)
    BY DEF LinesInv, StreamsOK, Moves
  <1>2. pump'[q] <= pump[q]
    BY LineTypes
  <1>3. QED
    BY <1>1, <1>2, QuietStream

\* The line in the goroutine's hand goes to the end of the channel.
LEMMA SendLines ==
  ASSUME RunInv, TypeOK', NEW s \in Requests, SendLine(s)
  PROVE  LinesInv'
  <1> DEFINE l == AppendMsg(s, cursor[s])
             n == Len(ch[s])
  <1>0. TypeOK /\ LinesInv
    BY DEF RunInv, TransitInv
  <1>1. /\ UNCHANGED <<allLines, requestID, ctxDone, cursor, pump, inbox, written>>
        /\ task[s] = "sending" /\ task'[s] = "streaming" /\ ch'[s] = Append(ch[s], l)
        /\ \A q \in Requests : q # s => task'[q] = task[q] /\ ch'[q] = ch[q]
    BY <1>0 DEF SendLine, viewVars, TypeOK
  <1>2. /\ n \in Nat /\ Len(ch'[s]) = n + 1
        /\ \A i \in 1 .. n + 1 : ch'[s][i] = (IF i <= n THEN ch[s][i] ELSE l)
        /\ l.pos = cursor[s]
        /\ cursor[s] \in Nat /\ LastPos(s[1]) \in Nat /\ pump[s] \in Nat
        /\ \A i \in 1 .. n : ch[s][i].pos \in Nat
        /\ \A k \in inbox : k.pos \in Nat
    <2>1. l.pos = cursor[s]
      BY DEF AppendMsg
    <2> HIDE DEF l
    <2>2. ch[s] \in Seq(Message) /\ ch'[s] = Append(ch[s], l)
      BY <1>0, <1>1 DEF TypeOK
    <2>3. /\ n \in Nat /\ Len(ch'[s]) = n + 1
          /\ \A i \in 1 .. n + 1 : ch'[s][i] = (IF i <= n THEN ch[s][i] ELSE l)
      BY <2>2
    <2>4. QED
      BY <1>0, <2>1, <2>3, LineTypes
  <1> HIDE DEF l, n
  <1>3. LastPos(s[1])' = LastPos(s[1]) /\ LastReq(s[1])' = LastReq(s[1])
    BY <1>1 DEF LastPos, LastReq
  <1>4. Sent(s) = cursor[s] - 1 /\ Sent(s)' = cursor[s]
    BY <1>1 DEF Sent
  <1>5. LastLineIsWritten' /\ ResultsHoldTheScreen'
    <2>1. \A q \in Requests : task[q] = "returned" => task'[q] = "returned"
      BY <1>1
    <2>2. \A v \in LogViews : written[v] <= written'[v]
      BY <1>0, <1>1, LineTypes
    <2>3. QED
      BY <1>0, <1>1, <2>1, <2>2, QuietScreen
  <1>6. \A q \in Requests : q # s => StreamOK(q)'
    BY <1>0, <1>1, OtherStreams
  <1>7. ASSUME Streams(s)' PROVE InOrder(s)' /\ (~ctxDone'[s] => NoGap(s)')
    <2>1. Streams(s)
      BY <1>1, <1>7 DEF Streams, IsStream
    <2>2. InOrder(s) /\ (~ctxDone[s] => NoGap(s))
      BY <1>0, <2>1 DEF LinesInv, StreamsOK, StreamOK
    <2>3. LastPos(s[1]) <= Sent(s)'
      BY <1>2, <1>4, <2>2 DEF InOrder
    <2>4. \A i \in 1 .. n : IsLine(ch[s][i]) => /\ LastPos(s[1]) < ch[s][i].pos
                                               /\ ch[s][i].pos <= cursor[s] - 1
      BY <1>2, <1>4, <2>2 DEF InOrder, n
    <2>5. \A i \in 1 .. n + 1 : IsLine(ch'[s][i]) => /\ LastPos(s[1]) < ch'[s][i].pos
                                                    /\ ch'[s][i].pos <= Sent(s)'
      BY <1>2, <1>4, <2>2, <2>4 DEF InOrder
    <2>6. \A i, j \in 1 .. n + 1 :
            i < j /\ IsLine(ch'[s][i]) /\ IsLine(ch'[s][j]) => ch'[s][i].pos < ch'[s][j].pos
      <3> SUFFICES ASSUME NEW i \in 1 .. n + 1, NEW j \in 1 .. n + 1, i < j,
                          IsLine(ch'[s][i]), IsLine(ch'[s][j])
                   PROVE  ch'[s][i].pos < ch'[s][j].pos
        OBVIOUS
      <3>1. i \in 1 .. n /\ ch'[s][i] = ch[s][i]
        BY <1>2
      <3>2. CASE j \in 1 .. n
        BY <1>2, <2>2, <3>1, <3>2 DEF InOrder, n
      <3>3. CASE j = n + 1
        BY <1>2, <2>4, <3>1, <3>3
      <3>4. QED
        BY <1>2, <3>2, <3>3
    <2>7. ASSUME NEW k \in inbox, Of(k, s), IsLine(k)
          PROVE  /\ LastPos(s[1]) < k.pos /\ k.pos <= Sent(s)'
                 /\ \A i \in 1 .. n + 1 : IsLine(ch'[s][i]) => k.pos < ch'[s][i].pos
      <3>1. /\ LastPos(s[1]) < k.pos /\ k.pos <= cursor[s] - 1
            /\ \A i \in 1 .. n : IsLine(ch[s][i]) => k.pos < ch[s][i].pos
        BY <1>4, <2>2, <2>7 DEF InOrder, n
      <3>2. QED
        BY <1>2, <1>4, <3>1
    <2>8. InOrder(s)'
      BY <1>1, <1>2, <1>3, <2>3, <2>5, <2>6, <2>7 DEF InOrder, Of, IsLine
    <2>9. ASSUME ~ctxDone'[s] PROVE NoGap(s)'
      <3>1. PICK b \in Nat : NoGapFrom(s, b)
        BY <1>1, <2>2, <2>9 DEF NoGap
      <3>2. b \in Nat /\ Sent(s) = b + n /\ \A i \in 1 .. n : IsLine(ch[s][i]) => ch[s][i].pos = b + i
        BY <1>1, <3>1 DEF NoGapFrom, n
      <3>3. \A i \in 1 .. n + 1 : IsLine(ch'[s][i]) => ch'[s][i].pos = b + i
        <4> SUFFICES ASSUME NEW i \in 1 .. n + 1, IsLine(ch'[s][i]) PROVE ch'[s][i].pos = b + i
          OBVIOUS
        <4>1. CASE i <= n
          <5>1. i \in 1 .. n /\ ch'[s][i] = ch[s][i]
            BY <1>2, <4>1
          <5>2. QED
            BY <3>2, <5>1
        <4>2. CASE i = n + 1
          <5>1. ch'[s][i].pos = cursor[s]
            BY <1>2, <4>2
          <5>2. cursor[s] = b + n + 1
            BY <1>2, <1>4, <3>2
          <5>3. QED
            BY <1>2, <3>2, <4>2, <5>1, <5>2
        <4>3. QED
          BY <1>2, <4>1, <4>2
      <3>4. NoGapFrom(s, b)'
        <4>1. Sent(s)' = b + Len(ch'[s])
          BY <1>2, <1>4, <3>2
        <4>2. \A i \in 1 .. Len(ch'[s]) : IsLine(ch'[s][i]) => ch'[s][i].pos = b + i
          BY <1>2, <3>3
        <4>3. QED
          BY <1>1, <1>3, <3>1, <4>1, <4>2 DEF NoGapFrom, Of, IsLine
      <3>5. QED
        BY <3>4 DEF NoGap
    <2>10. QED
      BY <2>8, <2>9
  <1>8. QED
    BY <1>5, <1>6, <1>7 DEF LinesInv, StreamsOK, StreamOK

\* The last message of a stream carries no line.
LEMMA EndLines ==
  ASSUME RunInv, TypeOK', NEW s \in Requests, StreamEnds(s)
  PROVE  LinesInv'
  <1> DEFINE n == Len(ch[s])
  <1>0. TypeOK /\ LinesInv
    BY DEF RunInv, TransitInv
  <1>1. PICK e \in {"nil", "canceled", "failed"} :
          /\ ch' = IF Len(ch[s]) < ChanCap
                   THEN [ch EXCEPT ![s] = Append(@, DoneMsg(s, e))]
                   ELSE ch
          /\ task' = [task EXCEPT ![s] = IF e = "failed" THEN "failed" ELSE "closed"]
    BY DEF StreamEnds
  <1>2. /\ UNCHANGED <<allLines, requestID, ctxDone, cursor, pump, inbox, written>>
        /\ task[s] = "streaming" /\ task'[s] \in {"closed", "failed"}
        /\ \A q \in Requests : q # s => task'[q] = task[q] /\ ch'[q] = ch[q]
    BY <1>0, <1>1 DEF StreamEnds, viewVars, TypeOK
  <1>3. /\ n \in Nat /\ Len(ch'[s]) \in {n, n + 1}
        /\ \A i \in 1 .. Len(ch'[s]) : IsLine(ch'[s][i]) => i \in 1 .. n /\ ch'[s][i] = ch[s][i]
    <2>1. ch[s] \in Seq(Message) /\ ~IsLine(DoneMsg(s, e))
      BY <1>0 DEF TypeOK, IsLine, DoneMsg
    <2>2. ch'[s] = ch[s] \/ ch'[s] = Append(ch[s], DoneMsg(s, e))
      BY <1>0, <1>1 DEF TypeOK
    <2>3. CASE ch'[s] = ch[s]
      BY <2>1, <2>3
    <2>4. CASE ch'[s] = Append(ch[s], DoneMsg(s, e))
      <3>1. /\ Len(ch'[s]) = n + 1 /\ n \in Nat
            /\ \A i \in 1 .. n + 1 : ch'[s][i] = (IF i <= n THEN ch[s][i] ELSE DoneMsg(s, e))
        BY <2>1, <2>4
      <3> HIDE DEF n
      <3>2. QED
        BY <2>1, <3>1
    <2>5. QED
      BY <2>2, <2>3, <2>4
  <1>4. LastPos(s[1])' = LastPos(s[1]) /\ LastReq(s[1])' = LastReq(s[1]) /\ Sent(s)' = Sent(s)
    BY <1>2 DEF LastPos, LastReq, Sent
  <1>5. LastLineIsWritten' /\ ResultsHoldTheScreen'
    BY <1>0, <1>2, QuietScreen, LineTypes
  <1>6. \A q \in Requests : q # s => StreamOK(q)'
    BY <1>0, <1>2, OtherStreams
  <1> HIDE DEF n
  <1>7. ASSUME Streams(s)' PROVE InOrder(s)' /\ (~ctxDone'[s] => NoGap(s)')
    <2>1. Streams(s)
      BY <1>2, <1>7 DEF Streams, IsStream
    <2>2. InOrder(s) /\ (~ctxDone[s] => NoGap(s))
      BY <1>0, <2>1 DEF LinesInv, StreamsOK, StreamOK
    <2>3. InOrder(s)'
      BY <1>2, <1>3, <1>4, <2>2 DEF InOrder, Of, IsLine, n
    <2>4. ASSUME ~ctxDone'[s] PROVE NoGap(s)'
      <3>1. PICK b \in Nat : NoGapFrom(s, b)
        BY <1>2, <2>2, <2>4 DEF NoGap
      <3>2. NoGapFrom(s, b)'
        BY <1>2, <1>3, <1>4, <3>1 DEF NoGapFrom, Of, IsLine, n
      <3>3. QED
        BY <3>2 DEF NoGap
    <2>5. QED
      BY <2>3, <2>4
  <1>8. QED
    BY <1>5, <1>6, <1>7 DEF LinesInv, StreamsOK, StreamOK

\* A fetched log holds the screen: no line on it is beyond what the pod has written.
LEMMA FetchLines ==
  ASSUME RunInv, TypeOK', NEW s \in Requests, FetchReturns(s)
  PROVE  LinesInv'
  <1>0. TypeOK /\ LinesInv
    BY DEF RunInv, TransitInv
  <1>1. PICK m : /\ inbox' = inbox \cup {m}
                 /\ \/ m = ResultMsg(s, written[s[1]], "nil")
                    \/ \E e \in {"canceled", "failed"} : m = ResultMsg(s, 0, e)
    BY DEF FetchReturns
  <1>2. /\ UNCHANGED <<allLines, requestID, ctxDone, cursor, ch, pump, written>>
        /\ task[s] = "fetching" /\ task'[s] = "returned"
        /\ \A q \in Requests : q # s => task'[q] = task[q]
    BY <1>0 DEF FetchReturns, viewVars, TypeOK
  <1>3. /\ Of(m, s) /\ <<m.view, m.req>> = s /\ m.type = "result" /\ m.view = s[1]
        /\ s[1] \in LogViews /\ written[s[1]] \in Nat
        /\ m.pos <= written[s[1]] /\ (m.err = "nil" => m.pos = written[s[1]])
    BY <1>0, <1>1, LineTypes DEF ResultMsg, Of
  <1>4. \A v \in LogViews : LastPos(v)' = LastPos(v) /\ LastReq(v)' = LastReq(v)
    BY <1>2 DEF LastPos, LastReq
  <1>5. LastLineIsWritten'
    BY <1>0, <1>2, <1>4 DEF LinesInv, LastLineIsWritten
  <1>6. ASSUME NEW k \in inbox', k.type = "result" PROVE HoldsTheScreen(k)'
    <2>1. CASE k = m
      <3>1. LastPos(s[1]) <= written[s[1]]
        BY <1>0, <1>3 DEF LinesInv, LastLineIsWritten
      <3>2. QED
        BY <1>2, <1>3, <1>4, <2>1, <3>1 DEF HoldsTheScreen
    <2>2. CASE k \in inbox
      <3>1. HoldsTheScreen(k) /\ <<k.view, k.req>> \in Requests /\ k.view \in LogViews
        BY <1>0, <1>6, <2>2, LineTypes DEF LinesInv, ResultsHoldTheScreen, TypeOK, Message
      <3>2. <<k.view, k.req>> # s
        BY <1>2, <3>1 DEF HoldsTheScreen
      <3>3. QED
        BY <1>2, <1>4, <3>1, <3>2 DEF HoldsTheScreen
    <2>3. QED
      BY <1>1, <1>6, <2>1, <2>2
  <1>7. ASSUME NEW q \in Requests PROVE StreamOK(q)'
    <2>1. CASE q = s
      BY <1>2, <2>1 DEF StreamOK, Streams, IsStream
    <2>2. CASE q # s
      <3>1. ~Of(m, q)
        BY <1>3, <2>2 DEF Of, Requests
      <3>2. QED
        BY <1>0, <1>1, <1>2, <2>2, <3>1, OtherStreams
    <2>3. QED
      BY <2>1, <2>2
  <1>8. QED
    BY <1>5, <1>6, <1>7 DEF LinesInv, ResultsHoldTheScreen, StreamsOK

\* The line at the head of the channel is the one that comes after the screen.
LEMMA ReceiveLines ==
  ASSUME RunInv, TypeOK', NEW s \in Requests, PumpReceive(s)
  PROVE  LinesInv'
  <1> DEFINE h == Head(ch[s])
             n == Len(ch[s])
  <1>0. TypeOK /\ LinesInv
    BY DEF RunInv, TransitInv
  <1>1. /\ UNCHANGED <<allLines, requestID, ctxDone, cursor, task, written>>
        /\ inbox' = inbox \cup {h} /\ ch'[s] = Tail(ch[s])
        /\ pump[s] = 1 /\ pump'[s] = 0
        /\ \A q \in Requests : q # s => pump'[q] = pump[q] /\ ch'[q] = ch[q]
    <2>1. pump[s] \in Nat /\ pump[s] > 0 /\ pump[s] <= 1
      BY <1>0 DEF PumpReceive, RunInv, TransitInv, TypeOK, OneMessageInTransit
    <2>2. QED
      BY <1>0, <2>1 DEF PumpReceive, viewVars, TypeOK
  <1>2. /\ n \in Nat \ {0} /\ h = ch[s][1] /\ Len(ch'[s]) = n - 1
        /\ \A i \in 1 .. n - 1 : ch'[s][i] = ch[s][i + 1]
    <2>1. ch[s] \in Seq(Message) /\ ch[s] # <<>>
      BY <1>0 DEF TypeOK, PumpReceive
    <2>2. QED
      BY <1>1, <2>1
  <1> HIDE DEF h, n
  <1>3. /\ Sent(s) \in Int /\ LastPos(s[1]) \in Nat
        /\ \A i \in 1 .. n : ch[s][i].pos \in Nat
    BY <1>0, LineTypes DEF n
  <1>4. /\ LastPos(s[1])' = LastPos(s[1]) /\ LastReq(s[1])' = LastReq(s[1])
        /\ Sent(s)' = Sent(s)
    BY <1>1 DEF LastPos, LastReq, Sent
  <1>5. Of(h, s) /\ \A m \in inbox : ~Of(m, s)
    <2>1. 1 \in 1 .. Len(ch[s])
      BY <1>2 DEF n
    <2>2. Of(h, s)
      BY <1>2, <2>1 DEF RunInv, TransitInv, ChannelHoldsOwnMessages
    <2>3. QED
      BY <1>1, <2>2 DEF RunInv, TransitInv, OneMessageInTransit
  <1>6. task[s] # "returned"
    BY <1>1 DEF RunInv, TransitInv, FetchHasNoStream
  <1>7. LastLineIsWritten' /\ ResultsHoldTheScreen'
    <2>1. LastLineIsWritten'
      BY <1>1 DEF LinesInv, RunInv, LastLineIsWritten, LastPos, LastReq
    <2>2. ASSUME NEW k \in inbox', k.type = "result" PROVE HoldsTheScreen(k)'
      <3>1. CASE k \in inbox
        BY <1>0, <1>1, <2>2, <3>1 DEF LinesInv, ResultsHoldTheScreen, HoldsTheScreen, LastPos
      <3>2. CASE k = h
        BY <1>2, <2>2, <3>2 DEF RunInv, ChannelHoldsNoResult, n
      <3>3. QED
        BY <1>1, <3>1, <3>2
    <2>3. QED
      BY <2>1, <2>2 DEF ResultsHoldTheScreen
  <1>8. ASSUME NEW q \in Requests, q # s PROVE StreamOK(q)'
    <2>1. ~Of(h, q)
      BY <1>5, <1>8 DEF Of, Requests
    <2>2. QED
      BY <1>0, <1>1, <1>8, <2>1, OtherStreams
  <1>9. ASSUME Streams(s)' PROVE InOrder(s)' /\ (~ctxDone'[s] => NoGap(s)')
    <2>1. Streams(s)
      BY <1>1, <1>9 DEF Streams
    <2>2. InOrder(s) /\ (~ctxDone[s] => NoGap(s))
      BY <1>0, <2>1 DEF LinesInv, StreamsOK, StreamOK
    <2>3. \A i \in 1 .. n - 1 : /\ i + 1 \in 1 .. n /\ ch'[s][i] = ch[s][i + 1]
                                /\ IsLine(h) /\ IsLine(ch'[s][i]) => h.pos < ch'[s][i].pos
      BY <1>2, <2>2 DEF InOrder, n
    <2>4. IsLine(h) => LastPos(s[1]) < h.pos /\ h.pos <= Sent(s)
      BY <1>2, <2>2 DEF InOrder, n
    <2>5. \A i \in 1 .. n - 1 : IsLine(ch'[s][i]) =>
            LastPos(s[1]) < ch'[s][i].pos /\ ch'[s][i].pos <= Sent(s)
      BY <2>2, <2>3 DEF InOrder, n
    <2>6. \A i, j \in 1 .. n - 1 :
            i < j /\ IsLine(ch'[s][i]) /\ IsLine(ch'[s][j]) => ch'[s][i].pos < ch'[s][j].pos
      BY <1>2, <2>2, <2>3 DEF InOrder, n
    <2>7. ASSUME NEW k \in inbox', Of(k, s), IsLine(k)
          PROVE  /\ LastPos(s[1]) < k.pos /\ k.pos <= Sent(s)
                 /\ \A i \in 1 .. n - 1 : IsLine(ch'[s][i]) => k.pos < ch'[s][i].pos
      BY <1>1, <1>5, <2>3, <2>4, <2>7
    <2>8. LastPos(s[1]) <= Sent(s)
      BY <2>2 DEF InOrder
    <2>9. InOrder(s)'
      BY <1>1, <1>2, <1>4, <2>5, <2>6, <2>7, <2>8 DEF InOrder, Of, IsLine
    <2>10. ASSUME ~ctxDone'[s] PROVE NoGap(s)'
      <3>1. PICK b \in Nat : NoGapFrom(s, b)
        BY <1>1, <2>2, <2>10 DEF NoGap
      <3>2. /\ b + 1 \in Nat
            /\ task[s] \in {"streaming", "sending"} => Sent(s) = (b + 1) + (n - 1)
        <4>1. b \in Nat /\ (task[s] \in {"streaming", "sending"} => Sent(s) = b + n)
          BY <3>1 DEF NoGapFrom, n
        <4>2. (b + 1) + (n - 1) = b + n
          BY <1>2, <4>1
        <4>3. QED
          BY <4>1, <4>2
      <3>3. /\ IsLine(h) => h.pos = b + 1
            /\ \A i \in 1 .. n - 1 : IsLine(ch'[s][i]) => ch'[s][i].pos = (b + 1) + i
        BY <1>2, <2>3, <3>1 DEF NoGapFrom, n
      <3>4. LastReq(s[1]) = s[2] => LastPos(s[1]) = (b + 1) - 1
        BY <1>1, <1>3, <3>1 DEF NoGapFrom
      <3>5. NoGapFrom(s, b + 1)'
        <4>1. task'[s] \in {"streaming", "sending"} => Sent(s)' = (b + 1) + Len(ch'[s])
          BY <1>1, <1>2, <1>4, <3>2
        <4>2. \A i \in 1 .. Len(ch'[s]) : IsLine(ch'[s][i]) => ch'[s][i].pos = (b + 1) + i
          BY <1>2, <3>3
        <4>3. \A m \in inbox' : Of(m, s) /\ IsLine(m) =>
                 m.pos = b + 1 /\ (LastReq(s[1])' = s[2] => LastPos(s[1])' = (b + 1) - 1)
          BY <1>1, <1>4, <1>5, <3>3, <3>4
        <4>4. ~(pump'[s] > 0)
          BY <1>1
        <4>5. QED
          BY <4>1, <4>2, <4>3, <4>4 DEF NoGapFrom, Of, IsLine
      <3>6. QED
        BY <3>2, <3>5 DEF NoGap
    <2>11. QED
      BY <2>9, <2>10
  <1>10. QED
    BY <1>7, <1>8, <1>9 DEF LinesInv, StreamsOK, StreamOK

\* A new request keeps the screen, or is that of a new view, and streams from the
\* first line the pod has not written yet.
LEMMA ReloadLines ==
  ASSUME SingleView, ReplaysTail = FALSE, RunInv, TypeOK',
         NEW v \in LogViews, NEW f \in BOOLEAN, ReloadLogsCmd(v, f),
         UNCHANGED <<inbox, written>>,
         LastPos(v)' \in Nat, LastReq(v)' \in Nat,
         LastPos(v)' <= written[v], LastReq(v)' <= requestID[v]
  PROVE  LinesInv'
  <1> DEFINE r == requestID[v] + 1
             n == <<v, r>>
  <1>0. TypeOK /\ LinesInv
    BY DEF RunInv, TransitInv
  <1>1. /\ n \in Requests /\ n[1] = v /\ n[2] = r
        /\ requestID[v] \in Nat /\ requestID'[v] = r /\ written[v] \in Nat
        /\ \A w \in LogViews : w = v
    BY <1>0, ConstantsOK DEF SingleView, TypeOK, ReloadLogsCmd, Requests, RequestIDs, Positions
  <1>2. Untouched(n)
    BY <1>1 DEF RunInv, TransitInv, FutureRequestsUntouched
  <1>3. /\ ch'[n] = <<>>
        /\ pump'[n] = (IF f THEN 1 ELSE 0)
        /\ task'[n] = (IF f THEN "streaming" ELSE "fetching")
        /\ cursor'[n] = written[v]
        /\ \A s \in Requests : s # n => task'[s] = task[s]
        /\ \A m \in inbox' : ~Of(m, n)
    BY <1>0, <1>1, <1>2 DEF ReloadLogsCmd, StartCursor, Untouched, TypeOK
  <1>4. LastLineIsWritten'
    BY <1>1 DEF LastLineIsWritten
  <1>5. ASSUME NEW m \in inbox', m.type = "result" PROVE HoldsTheScreen(m)'
    <2>1. HoldsTheScreen(m) /\ m \in inbox
      BY <1>0, <1>5 DEF LinesInv, ResultsHoldTheScreen
    <2>2. <<m.view, m.req>> \in Requests /\ m.view \in LogViews
      BY <1>0, <2>1, LineTypes DEF Requests
    <2>3. <<m.view, m.req>> # n
      BY <1>2, <2>1 DEF HoldsTheScreen, Untouched
    <2>4. m.req # r
      BY <1>1, <2>2, <2>3
    <2>5. QED
      BY <1>1, <1>3, <2>1, <2>2, <2>3, <2>4 DEF HoldsTheScreen
  <1>6. ASSUME NEW s \in Requests, Streams(s)' PROVE InOrder(s)' /\ NoGap(s)'
    <2>1. s = n
      BY <1>0, <1>1, <1>6, LineTypes DEF Streams
    <2>2. Sent(s)' = written[v] /\ Len(ch'[s]) = 0
      BY <1>3, <2>1 DEF Sent
    <2>3. InOrder(s)'
      BY <1>1, <1>3, <2>1, <2>2 DEF InOrder, Of
    <2>4. LastReq(v)' # r
      BY <1>1
    <2>5. NoGapFrom(s, written[v])'
      BY <1>1, <1>3, <2>1, <2>2, <2>4 DEF NoGapFrom, Of
    <2>6. QED
      BY <1>1, <2>3, <2>5 DEF NoGap
  <1>7. QED
    BY <1>4, <1>5, <1>6 DEF LinesInv, ResultsHoldTheScreen, StreamsOK, StreamOK

\* A line taken from the event loop is one of the current stream: it lies beyond the
\* screen, right beyond it if the stream has shown one already and is not cancelled.
LEMMA LineIsNext ==
  ASSUME SingleView, RunInv, NEW m \in inbox, NEW v \in LogViews,
         HandleMsg(v, m), HandleAppend(v, m)
  PROVE  /\ m.view = v /\ m.req = requestID[v]
         /\ <<v, requestID[v]>> \in Requests /\ Of(m, <<v, requestID[v]>>)
         /\ Streams(<<v, requestID[v]>>)
         /\ LastPos(v) < m.pos /\ m.pos <= written[v]
         /\ LastReq(v) = requestID[v] /\ ~ctxDone[<<v, requestID[v]>>] => m.pos = LastPos(v) + 1
  <1> DEFINE s == <<v, requestID[v]>>
  <1>0. TypeOK /\ LinesInv
    BY DEF RunInv, TransitInv
  <1>1. /\ m \in Message /\ m.view = v /\ m.req = requestID[v] /\ m.type = "append"
        /\ s \in Requests /\ Of(m, s) /\ requestID[v] \in Nat
    BY <1>0 DEF SingleView, TypeOK, Message, HandleMsg, HandleAppend, Requests, RequestIDs, Of
  <1>2. Streams(s)
    <2>1. task[s] \in TaskState /\ task[s] # "none"
      BY <1>0, <1>1 DEF TypeOK, RunInv, BookInv
    <2>2. task[s] \notin {"fetching", "returned"}
      BY <1>1 DEF RunInv, TransitInv, FetchHasNoStream
    <2>3. QED
      BY <1>1, <2>1, <2>2 DEF Streams, IsStream, TaskState
  <1>3. InOrder(s) /\ (~ctxDone[s] => NoGap(s))
    BY <1>0, <1>1, <1>2 DEF LinesInv, StreamsOK, StreamOK
  <1>4. LastPos(v) < m.pos /\ m.pos <= Sent(s)
    BY <1>1, <1>3 DEF InOrder, IsLine
  <1>5. m.pos <= written[v]
    BY <1>0, <1>1, <1>4, LineTypes
  <1>6. ASSUME LastReq(v) = requestID[v], ~ctxDone[s] PROVE m.pos = LastPos(v) + 1
    <2>1. PICK b \in Nat : NoGapFrom(s, b)
      BY <1>3, <1>6 DEF NoGap
    <2>2. m.pos = b /\ LastPos(v) = b - 1
      BY <1>1, <1>6, <2>1 DEF NoGapFrom, IsLine
    <2>3. QED
      BY <2>1, <2>2
  <1>7. QED
    BY <1>1, <1>2, <1>4, <1>5, <1>6

\* A line goes to the end of the screen, before those that are still under way.
LEMMA ShowLines ==
  ASSUME SingleView, RunInv, TypeOK', NEW m \in inbox, NEW v \in LogViews,
         Deliver(m), HandleMsg(v, m), HandleAppend(v, m)
  PROVE  LinesInv'
  <1> DEFINE s == <<v, requestID[v]>>
             l == [view |-> m.view, req |-> m.req, pos |-> m.pos]
  <1>0. TypeOK /\ LinesInv /\ \A w \in LogViews : w = v
    BY DEF RunInv, TransitInv, SingleView
  <1>1. /\ m.view = v /\ m.req = requestID[v] /\ s \in Requests /\ Of(m, s) /\ Streams(s)
        /\ LastPos(v) < m.pos /\ m.pos <= written[v]
        /\ LastReq(v) = requestID[v] /\ ~ctxDone[s] => m.pos = LastPos(v) + 1
    BY LineIsNext
  <1>2. /\ inbox' = inbox \ {m} /\ allLines'[v] = Append(allLines[v], l)
        /\ UNCHANGED <<task, ctxDone, cursor, ch, written, requestID>>
    BY <1>0 DEF Deliver, HandleMsg, HandleAppend, TypeOK
  <1>3. LastPos(v)' = m.pos /\ LastReq(v)' = requestID[v]
    <2>1. l.pos = m.pos /\ l.req = m.req
      OBVIOUS
    <2> HIDE DEF l
    <2>2. allLines[v] \in Seq(Line)
      BY <1>0 DEF TypeOK
    <2>3. /\ Append(allLines[v], l) # <<>>
          /\ Append(allLines[v], l)[Len(Append(allLines[v], l))] = l
      BY <2>2
    <2>4. QED
      BY <1>1, <1>2, <2>1, <2>3 DEF LastPos, LastReq
  <1> HIDE DEF l
  <1>4. \A k \in inbox' : ~Of(k, s)
    BY <1>1, <1>2 DEF RunInv, TransitInv, OneMessageInTransit
  <1>5. LastLineIsWritten'
    BY <1>0, <1>1, <1>2, <1>3, LineTypes DEF LastLineIsWritten
  <1>6. ASSUME NEW k \in inbox', k.type = "result" PROVE HoldsTheScreen(k)'
    <2>1. HoldsTheScreen(k) /\ k \in inbox /\ k.view = v
      BY <1>0, <1>2, <1>6 DEF LinesInv, ResultsHoldTheScreen, TypeOK, Message
    <2>2. k.req # requestID[v]
      BY <1>4, <2>1 DEF Of
    <2>3. QED
      BY <1>2, <2>1, <2>2 DEF HoldsTheScreen
  <1>7. ASSUME NEW q \in Requests, Streams(q)' PROVE InOrder(q)' /\ (~ctxDone'[q] => NoGap(q)')
    <2>1. q = s
      BY <1>0, <1>2, <1>7, LineTypes DEF Streams
    <2>2. InOrder(s) /\ (~ctxDone[s] => NoGap(s))
      BY <1>0, <1>1 DEF LinesInv, StreamsOK, StreamOK
    <2>3. Sent(s)' = Sent(s) /\ s[1] = v /\ s[2] = requestID[v]
      BY <1>2 DEF Sent
    <2>4. /\ m.pos <= Sent(s)
          /\ \A i \in 1 .. Len(ch[s]) : IsLine(ch[s][i]) => m.pos < ch[s][i].pos
      BY <1>1, <2>2, <2>3 DEF InOrder, IsLine, HandleAppend
    <2>5. InOrder(q)'
      BY <1>2, <1>3, <1>4, <2>1, <2>2, <2>3, <2>4 DEF InOrder, Of, IsLine
    <2>6. ASSUME ~ctxDone'[q] PROVE NoGap(q)'
      <3>1. PICK b \in Nat : NoGapFrom(s, b)
        BY <1>2, <2>1, <2>2, <2>6 DEF NoGap
      <3>2. m.pos = b
        BY <1>1, <3>1 DEF NoGapFrom, IsLine, HandleAppend
      <3>3. NoGapFrom(q, b)'
        BY <1>2, <1>3, <1>4, <2>1, <2>3, <3>1, <3>2 DEF NoGapFrom, Of, IsLine
      <3>4. QED
        BY <3>3 DEF NoGap
    <2>7. QED
      BY <2>5, <2>6
  <1>8. QED
    BY <1>5, <1>6, <1>7 DEF LinesInv, ResultsHoldTheScreen, StreamsOK, StreamOK

\* A fetched log that is shown is that of the current request, and all of it.
LEMMA ShowFetch ==
  ASSUME SingleView, RunInv, TypeOK', NEW m \in inbox, NEW v \in LogViews,
         Deliver(m), HandleMsg(v, m), HandleResult(v, m), m.err = "nil", m.pos > 0
  PROVE  /\ LinesInv'
         /\ m.view = v /\ m.req = requestID[v] /\ m.pos \in Nat \ {0}
         /\ LastPos(v) <= m.pos /\ m.pos <= written[v]
         /\ task[<<v, requestID[v]>>] = "returned"
         /\ allLines' = [allLines EXCEPT ![v] = Snapshot(v, requestID[v], m.pos)]
  <1> DEFINE s == <<v, requestID[v]>>
  <1>0. TypeOK /\ LinesInv /\ \A w \in LogViews : w = v
    BY DEF RunInv, TransitInv, SingleView
  <1>1. /\ m.view = v /\ m.req = requestID[v] /\ m.type = "result"
        /\ s \in Requests /\ Of(m, s) /\ m.pos \in Nat \ {0}
    <2>1. m \in Message /\ m.pos \in Nat /\ <<m.view, m.req>> \in Requests
      BY <1>0, LineTypes DEF TypeOK
    <2>2. m.view = v /\ m.req = requestID[v] /\ m.type = "result"
      BY <1>0, <2>1 DEF Message, HandleMsg, HandleResult
    <2>3. QED
      BY <2>1, <2>2 DEF Of
  <1>2. task[s] = "returned" /\ LastPos(v) <= m.pos /\ m.pos <= written[v]
    BY <1>0, <1>1 DEF LinesInv, ResultsHoldTheScreen, HoldsTheScreen
  <1>3. /\ inbox' = inbox \ {m}
        /\ allLines' = [allLines EXCEPT ![v] = Snapshot(v, requestID[v], m.pos)]
        /\ UNCHANGED <<task, ctxDone, cursor, ch, written, requestID>>
    BY <1>1 DEF Deliver, HandleMsg, HandleResult
  <1>4. LastPos(v)' = m.pos /\ LastReq(v)' = requestID[v]
    <2> DEFINE S == Snapshot(v, requestID[v], m.pos)
    <2>1. allLines'[v] = S
      BY <1>0, <1>3 DEF TypeOK
    <2>2. /\ Len(S) = m.pos /\ S # <<>>
          /\ S[m.pos].pos = m.pos /\ S[m.pos].req = requestID[v]
      BY <1>1 DEF Snapshot
    <2> HIDE DEF S
    <2>3. QED
      BY <2>1, <2>2 DEF LastPos, LastReq
  <1>5. LastLineIsWritten'
    BY <1>0, <1>2, <1>3, <1>4, LineTypes DEF LastLineIsWritten
  <1>6. ASSUME NEW k \in inbox', k.type = "result" PROVE HoldsTheScreen(k)'
    <2>1. HoldsTheScreen(k) /\ k \in inbox /\ k.view = v /\ k # m
      BY <1>0, <1>3, <1>6 DEF LinesInv, ResultsHoldTheScreen, TypeOK, Message
    <2>2. k.req # requestID[v]
      BY <1>1, <2>1 DEF Of, RunInv, TransitInv, OneMessageInTransit
    <2>3. QED
      BY <1>3, <2>1, <2>2 DEF HoldsTheScreen
  <1>7. ASSUME NEW q \in Requests PROVE ~Streams(q)'
    <2>1. Streams(q)' => q = s
      BY <1>0, <1>3, LineTypes DEF Streams
    <2>2. QED
      BY <1>2, <1>3, <2>1 DEF Streams, IsStream
  <1>8. QED
    BY <1>1, <1>2, <1>3, <1>5, <1>6, <1>7 DEF LinesInv, ResultsHoldTheScreen, StreamsOK, StreamOK

\* A new view shows the log there is, or nothing.
LEMMA ConstructLines ==
  ASSUME TypeOK, NEW v \in LogViews, Construct(v)
  PROVE  \E n \in {0, written[v]} :
            /\ allLines' = [allLines EXCEPT ![v] = Snapshot(v, 0, n)]
            /\ LastPos(v)' = n /\ LastReq(v)' = 0
  <1>1. PICK n \in {0, written[v]} : allLines' = [allLines EXCEPT ![v] = Snapshot(v, 0, n)]
    BY DEF Construct
  <1> DEFINE S == Snapshot(v, 0, n)
  <1>2. n \in Nat
    BY <1>1, LineTypes
  <1>3. allLines'[v] = S
    BY <1>1 DEF TypeOK
  <1>4. Len(S) = n /\ (n = 0 => S = <<>>) /\ (n # 0 => S # <<>> /\ S[n].pos = n /\ S[n].req = 0)
    BY <1>2 DEF Snapshot
  <1> HIDE DEF S
  <1>5. LastPos(v)' = n /\ LastReq(v)' = 0
    BY <1>3, <1>4 DEF LastPos, LastReq
  <1>6. QED
    BY <1>1, <1>5

\* A view that is opened with no request of its own.
LEMMA CommandLines ==
  ASSUME SingleView, RunInv, TypeOK', NEW v \in LogViews, CommandLogs(v)
  PROVE  LinesInv'
  <1>0. TypeOK /\ LinesInv /\ \A w \in LogViews : w = v
    BY DEF RunInv, TransitInv, SingleView
  <1>1. UNCHANGED <<task, ctxDone, cursor, ch, pump, inbox, written, requestID>>
    BY DEF CommandLogs, reqVars
  <1>2. requestID[v] = 0
    BY DEF CommandLogs, Construct, RunInv, BookInv
  <1>3. LastPos(v)' \in {0, written[v]} /\ LastReq(v)' = 0 /\ written[v] \in Nat
    BY <1>0, ConstructLines, LineTypes DEF CommandLogs
  <1>4. LastLineIsWritten'
    BY <1>0, <1>1, <1>2, <1>3 DEF LastLineIsWritten
  <1>5. ASSUME NEW m \in inbox', m.type = "result" PROVE HoldsTheScreen(m)'
    <2>1. HoldsTheScreen(m) /\ m \in inbox
      BY <1>0, <1>1, <1>5 DEF LinesInv, ResultsHoldTheScreen
    <2>2. m.view = v /\ m.req # 0
      BY <1>0, <2>1, ConstantsOK DEF TypeOK, Message, RequestIDs
    <2>3. QED
      BY <1>1, <1>2, <2>1, <2>2 DEF HoldsTheScreen
  <1>6. ASSUME NEW s \in Requests PROVE ~Streams(s)'
    BY <1>0, <1>1, <1>2, LineTypes DEF Streams
  <1>7. QED
    BY <1>4, <1>5, <1>6 DEF LinesInv, ResultsHoldTheScreen, StreamsOK, StreamOK

\* The steps of a new request.
LEMMA RequestLines ==
  ASSUME SingleView, ReplaysTail = FALSE, RunInv, TypeOK', NEW v \in LogViews,
         OpenLogs(v) \/ ResumeFollow(v) \/ ChangeOptions(v)
  PROVE  LinesInv'
  <1>0. TypeOK /\ LinesInv
    BY DEF RunInv, TransitInv
  <1>1. UNCHANGED <<inbox, written>>
    BY DEF OpenLogs, ResumeFollow, ChangeOptions
  <1>2. PICK f \in BOOLEAN : ReloadLogsCmd(v, f)
    BY <1>0 DEF OpenLogs, ResumeFollow, ChangeOptions, TypeOK
  <1>3. /\ LastPos(v)' \in Nat /\ LastReq(v)' \in Nat
        /\ LastPos(v)' <= written[v] /\ LastReq(v)' <= requestID[v]
    <2>1. CASE OpenLogs(v)
      <3>1. LastPos(v)' \in {0, written[v]} /\ LastReq(v)' = 0
        BY <1>0, <2>1, ConstructLines DEF OpenLogs
      <3>2. QED
        BY <1>0, <3>1, LineTypes
    <2>2. CASE ResumeFollow(v) \/ ChangeOptions(v)
      <3>1. LastPos(v)' = LastPos(v) /\ LastReq(v)' = LastReq(v)
        BY <2>2 DEF ResumeFollow, ChangeOptions, LastPos, LastReq
      <3>2. QED
        BY <1>0, <3>1, LineTypes DEF LinesInv, LastLineIsWritten
    <2>3. QED
      BY <2>1, <2>2
  <1>4. QED
    BY <1>1, <1>2, <1>3, ReloadLines

\* No channel comes to hold what a fetch brings.
LEMMA NextNoResult ==
  ASSUME TypeOK, ChannelHoldsNoResult, [Next]_vars
  PROVE  ChannelHoldsNoResult'
  <1>1. CASE ch' = ch
    BY <1>1 DEF ChannelHoldsNoResult
  <1>2. ASSUME NEW s \in Requests, SendLine(s) \/ StreamEnds(s) \/ PumpReceive(s)
        PROVE  ChannelHoldsNoResult'
    <2>1. ch[s] \in Seq(Message)
      BY DEF TypeOK
    <2>2. PICK m : /\ m.type # "result"
                   /\ \/ ch'[s] \in {ch[s], Append(ch[s], m)}
                      \/ ch[s] # <<>> /\ ch'[s] = Tail(ch[s])
      <3>1. CASE SendLine(s)
        <4>1. AppendMsg(s, cursor[s]).type # "result"
          BY DEF AppendMsg
        <4>2. ch'[s] = Append(ch[s], AppendMsg(s, cursor[s]))
          BY <3>1 DEF SendLine, TypeOK
        <4>3. QED
          BY <4>1, <4>2
      <3>2. CASE StreamEnds(s)
        <4>1. PICK e : ch' = IF Len(ch[s]) < ChanCap
                             THEN [ch EXCEPT ![s] = Append(@, DoneMsg(s, e))]
                             ELSE ch
          BY <3>2 DEF StreamEnds
        <4>2. DoneMsg(s, e).type # "result"
          BY DEF DoneMsg
        <4>3. ch'[s] \in {ch[s], Append(ch[s], DoneMsg(s, e))}
          BY <4>1 DEF TypeOK
        <4>4. QED
          BY <4>2, <4>3
      <3>3. CASE PumpReceive(s)
        <4>1. DoneMsg(s, "nil").type # "result"
          BY DEF DoneMsg
        <4>2. QED
          BY <3>3, <4>1 DEF PumpReceive, TypeOK
      <3>4. QED
        BY <1>2, <3>1, <3>2, <3>3
    <2>3. \A q \in Requests : q # s => ch'[q] = ch[q]
      BY <1>2 DEF SendLine, StreamEnds, PumpReceive, TypeOK
    <2>4. ASSUME NEW i \in 1 .. Len(ch'[s]) PROVE ch'[s][i].type # "result"
      <3>1. \A j \in 1 .. Len(ch[s]) : ch[s][j].type # "result"
        BY DEF ChannelHoldsNoResult
      <3>2. CASE ch'[s] = ch[s]
        BY <3>1, <3>2, <2>4
      <3>3. CASE ch'[s] = Append(ch[s], m)
        <4>1. ch'[s][i] = (IF i <= Len(ch[s]) THEN ch[s][i] ELSE m)
          BY <2>1, <2>4, <3>3
        <4>2. i \in Nat \ {0} /\ Len(ch[s]) \in Nat
          BY <2>1, <2>4, <3>3
        <4>3. QED
          BY <2>2, <3>1, <4>1, <4>2
      <3>4. CASE ch[s] # <<>> /\ ch'[s] = Tail(ch[s])
        <4>1. ch'[s][i] = ch[s][i + 1] /\ i + 1 \in 1 .. Len(ch[s])
          BY <2>1, <2>4, <3>4
        <4>2. QED
          BY <3>1, <4>1
      <3>5. QED
        BY <2>2, <3>2, <3>3, <3>4
    <2>5. QED
      BY <2>3, <2>4 DEF ChannelHoldsNoResult
  <1>3. CASE User
    <2>1. ch' = ch
      BY <1>3 DEF User, OpenLogs, CommandLogs, PushOther, PopView, SwitchRoot,
           CommandSwitchRoot, SetBookmark, JumpToBookmark, PauseFollow, ResumeFollow,
           ChangeOptions, StartTyping, StopTyping, ReloadLogsCmd, reqVars
    <2>2. QED
      BY <1>1, <2>1
  <1>4. CASE \/ \E m \in inbox : Deliver(m)
             \/ \E v \in LogViews : PodWrites(v)
             \/ UNCHANGED vars
    <2>1. ch' = ch
      BY <1>4 DEF Deliver, PodWrites, vars, reqVars
    <2>2. QED
      BY <1>1, <2>1
  <1>5. ASSUME NEW s \in Requests, Goroutine(s) PROVE ChannelHoldsNoResult'
    <2>1. CASE ReadLine(s) \/ DropLine(s) \/ FetchReturns(s) \/ PumpClosed(s)
      <3>1. ch' = ch
        BY <2>1 DEF ReadLine, DropLine, FetchReturns, PumpClosed
      <3>2. QED
        BY <1>1, <3>1
    <2>2. QED
      BY <1>2, <1>5, <2>1 DEF Goroutine
  <1>6. QED
    BY <1>3, <1>4, <1>5 DEF Next

\* Every step keeps the lines in order.
LEMMA NextLines ==
  ASSUME SingleView, ReplaysTail = FALSE, RunInv, TypeOK', [Next]_vars
  PROVE  LinesInv'
  <1>0. TypeOK /\ LinesInv
    BY DEF RunInv, TransitInv
  <1>1. /\ \A v \in LogViews : written[v] \in Nat
        /\ \A s \in Requests : cursor[s] \in Nat /\ pump[s] \in Nat
    BY <1>0, LineTypes
  <1>2. ASSUME UNCHANGED <<allLines, requestID, ch, pump, task, cursor>>, inbox' \subseteq inbox,
               \A v \in LogViews : written[v] <= written'[v],
               \A s \in Requests : ctxDone[s] => ctxDone'[s]
        PROVE  LinesInv'
    <2>1. \A s \in Requests : Moves(s) /\ pump'[s] <= pump[s]
      BY <1>1, <1>2 DEF Moves
    <2>2. QED
      BY <1>0, <1>2, <2>1, QuietLines
  <1>3. CASE \/ PushOther \/ PopView \/ SwitchRoot \/ CommandSwitchRoot
             \/ \E k \in Slots : SetBookmark(k) \/ JumpToBookmark(k)
             \/ \E v \in LogViews : PauseFollow(v) \/ StartTyping(v) \/ StopTyping(v)
             \/ UNCHANGED vars
    <2>1. UNCHANGED <<allLines, requestID, ch, pump, task, cursor, inbox, written>>
      BY <1>3 DEF PushOther, PopView, SwitchRoot, CommandSwitchRoot, SetBookmark,
           JumpToBookmark, PauseFollow, StartTyping, StopTyping, vars, navVars, viewVars, reqVars
    <2>2. ctxDone' = ctxDone \/ \E S : CancelReload(S)
      BY <1>3 DEF PushOther, PopView, SwitchRoot, CommandSwitchRoot, SetBookmark,
           JumpToBookmark, PauseFollow, StartTyping, StopTyping, vars, reqVars
    <2>3. \A s \in Requests : ctxDone[s] => ctxDone'[s]
      BY <2>2 DEF CancelReload, CancelledBy
    <2>4. QED
      BY <1>1, <1>2, <2>1, <2>3
  <1>4. CASE User
    BY <1>3, <1>4, RequestLines, CommandLines DEF User
  <1>5. ASSUME NEW m \in inbox, Deliver(m) PROVE LinesInv'
    <2>1. ASSUME NEW v \in LogViews, HandleMsg(v, m), HandleAppend(v, m) PROVE LinesInv'
      BY <1>5, <2>1, ShowLines
    <2>2. ASSUME NEW v \in LogViews, HandleMsg(v, m), HandleResult(v, m), m.err = "nil", m.pos > 0
          PROVE  LinesInv'
      BY <1>5, <2>2, ShowFetch
    <2>3. CASE \/ IgnoreMsg(m)
               \/ \E v \in LogViews : /\ HandleMsg(v, m)
                                      /\ \/ HandleDone(v, m)
                                         \/ HandleResult(v, m) /\ ~(m.err = "nil" /\ m.pos > 0)
      <3>1. /\ UNCHANGED <<allLines, requestID, ch, pump, task, cursor, written, ctxDone>>
            /\ inbox' \subseteq inbox
        BY <1>5, <2>3 DEF Deliver, IgnoreMsg, HandleMsg, HandleDone, HandleResult, viewVars
      <3>2. QED
        BY <1>1, <1>2, <3>1
    <2>4. QED
      BY <1>5, <2>1, <2>2, <2>3 DEF Deliver, HandleMsg
  <1>6. ASSUME NEW s \in Requests, Goroutine(s) PROVE LinesInv'
    <2>1. CASE ReadLine(s) \/ DropLine(s) \/ PumpClosed(s)
      <3>1. UNCHANGED <<allLines, requestID, ch, ctxDone, inbox, written>>
        BY <2>1 DEF ReadLine, DropLine, PumpClosed, viewVars
      <3>2. \A q \in Requests : Moves(q) /\ pump'[q] <= pump[q]
        <4>1. CASE ReadLine(s)
          BY <1>0, <1>1, <4>1 DEF ReadLine, TypeOK, Moves
        <4>2. CASE DropLine(s)
          BY <1>0, <1>1, <4>2 DEF DropLine, TypeOK, Moves
        <4>3. CASE PumpClosed(s)
          BY <1>0, <1>1, <4>3 DEF PumpClosed, TypeOK, Moves
        <4>4. QED
          BY <2>1, <4>1, <4>2, <4>3
      <3>3. QED
        BY <1>0, <1>1, <3>1, <3>2, QuietLines
    <2>2. QED
      BY <1>6, <2>1, SendLines, EndLines, FetchLines, ReceiveLines DEF Goroutine
  <1>7. ASSUME NEW v \in LogViews, PodWrites(v) PROVE LinesInv'
    <2>1. \A w \in LogViews : written[w] <= written'[w]
      <3>1. written' = [written EXCEPT ![v] = written[v] + 1] /\ written \in [LogViews -> Positions]
        BY <1>0, <1>7 DEF PodWrites, TypeOK
      <3>2. \A w \in LogViews : written'[w] = (IF w = v THEN written[v] + 1 ELSE written[w])
        BY <3>1
      <3>3. QED
        BY <1>1, <3>2
    <2>2. UNCHANGED <<allLines, requestID, ch, pump, task, cursor, inbox, ctxDone>>
      BY <1>7 DEF PodWrites, viewVars, reqVars
    <2>3. QED
      BY <1>2, <2>1, <2>2
  <1>8. QED
    BY <1>3, <1>4, <1>5, <1>6, <1>7 DEF Next

\* Initially nothing is shown, under way or asked for.
LEMMA InitRun ==
  ASSUME Init
  PROVE  RunInv
  <1>1. TypeOK
    BY InitType
  <1>2. TransitInv
    BY <1>1 DEF Init, TransitInv, OneMessageInTransit, HeldStreamIsCurrent,
       FutureRequestsUntouched, Untouched, ChannelHoldsOwnMessages, FetchHasNoStream
  <1>3. BookInv
    <2>1. \A s \in Requests : s[1] \in LogViews /\ s[2] \in Nat \ {0} /\ requestID[s[1]] = 0
      BY DEF Init, Requests, RequestIDs
    <2>2. stack \in Seq(OpenedViews) /\ bookmarks \in [Slots -> Seq(OpenedViews)]
      BY DEF Init, OpenedViews
    <2>3. QED
      BY <2>1, <2>2 DEF Init, BookInv
  <1>4. ChannelHoldsNoResult
    BY DEF Init, ChannelHoldsNoResult
  <1>5. LastLineIsWritten /\ ResultsHoldTheScreen
    BY DEF Init, LastLineIsWritten, ResultsHoldTheScreen, LastPos, LastReq
  <1>6. \A s \in Requests : ~Streams(s)
    BY DEF Init, Streams, IsStream
  <1>7. QED
    BY <1>2, <1>3, <1>4, <1>5, <1>6 DEF RunInv, LinesInv, StreamsOK, StreamOK

\* Every step keeps the whole of it.
LEMMA NextRun ==
  ASSUME SingleView, ReplaysTail = FALSE, RunInv, [Next]_vars
  PROVE  RunInv'
  <1>1. TypeOK /\ TransitInv'
    BY NextTransit DEF RunInv, TransitInv
  <1>2. TypeOK'
    BY <1>1 DEF TransitInv
  <1>3. QED
    BY <1>1, <1>2, NextBooks, NextNoResult, NextLines DEF RunInv

-----------------------------------------------------------------------------
(* The refinement: every step of the program is, for each log view, a step *)
(* of FollowedLog or none at all.                                          *)

Current(v)    == <<v, requestID[v]>>
Following(v)  == Asked(v) /\ task[Current(v)] \notin {"fetching", "returned"}
Cancelled(v)  == Asked(v) /\ ctxDone[Current(v)]
LinesOf(q)    == [i \in 1 .. Len(q) |-> [req |-> q[i].req, pos |-> q[i].pos]]
ShownLines(v) == LinesOf(allLines[v])

\* A fetched log, as FollowedLog sees it.
LEMMA LinesOfSnapshot ==
  ASSUME NEW v, NEW r, NEW n \in Nat
  PROVE  LinesOf(Snapshot(v, r, n)) = [i \in 1 .. n |-> [req |-> r, pos |-> i]]
  <1> DEFINE S == Snapshot(v, r, n)
  <1>1. Len(S) = n /\ \A i \in 1 .. n : S[i].req = r /\ S[i].pos = i
    BY DEF Snapshot
  <1> HIDE DEF S
  <1>2. LinesOf(S) = [i \in 1 .. n |-> [req |-> r, pos |-> i]]
    BY <1>1 DEF LinesOf
  <1>3. QED
    BY <1>2 DEF S

\* One more line, as FollowedLog sees it.
LEMMA LinesOfAppend ==
  ASSUME NEW q \in Seq(Line), NEW l
  PROVE  LinesOf(Append(q, l)) = Append(LinesOf(q), [req |-> l.req, pos |-> l.pos])
  <1> DEFINE n == Len(q)
             A == Append(q, l)
             r == [req |-> l.req, pos |-> l.pos]
             P == LinesOf(q)
  <1>1. /\ n \in Nat /\ Len(A) = n + 1
        /\ \A i \in 1 .. n + 1 : A[i] = (IF i <= n THEN q[i] ELSE l)
    OBVIOUS
  <1>2. P \in Seq({P[i] : i \in 1 .. n}) /\ Len(P) = n
        /\ \A i \in 1 .. n : P[i] = [req |-> q[i].req, pos |-> q[i].pos]
    BY <1>1 DEF LinesOf
  <1> HIDE DEF A, P, n
  <1>3. /\ Len(Append(P, r)) = n + 1 /\ DOMAIN Append(P, r) = 1 .. n + 1
        /\ Append(P, r) = [i \in 1 .. n + 1 |-> IF i <= n THEN P[i] ELSE r]
    BY <1>1, <1>2
  <1>4. LinesOf(A) = [i \in 1 .. n + 1 |-> IF i <= n THEN P[i] ELSE r]
    <2>1. LinesOf(A) = [i \in 1 .. n + 1 |-> [req |-> A[i].req, pos |-> A[i].pos]]
      BY <1>1 DEF LinesOf
    <2>2. \A i \in 1 .. n + 1 :
             [req |-> A[i].req, pos |-> A[i].pos] = (IF i <= n THEN P[i] ELSE r)
      BY <1>1, <1>2
    <2>3. QED
      BY <2>1, <2>2
  <1>5. QED
    BY <1>3, <1>4 DEF A, P

\* The last line shown is the last line of the view.
LEMMA LastIsLast ==
  ASSUME TypeOK, NEW v \in LogViews
  PROVE  /\ Log(v)!LastShown = LastPos(v)
         /\ ShownLines(v) # <<>> => ShownLines(v)[Len(ShownLines(v))].req = LastReq(v)
  <1> DEFINE q == allLines[v]
  <1>1. q \in Seq(Line)
    BY DEF TypeOK
  <1>2. /\ Len(q) \in Nat /\ Len(LinesOf(q)) = Len(q)
        /\ (LinesOf(q) = <<>>) <=> (q = <<>>)
        /\ q # <<>> => /\ LinesOf(q)[Len(q)].pos = q[Len(q)].pos
                       /\ LinesOf(q)[Len(q)].req = q[Len(q)].req
    <2>1. Len(q) \in Nat /\ (q = <<>> <=> Len(q) = 0)
      BY <1>1
    <2> HIDE DEF q
    <2>2. Len(LinesOf(q)) = Len(q)
      BY <2>1 DEF LinesOf
    <2>3. q = <<>> => LinesOf(q) = <<>>
      BY <2>1 DEF LinesOf
    <2>4. q # <<>> => /\ LinesOf(q)[Len(q)].pos = q[Len(q)].pos
                      /\ LinesOf(q)[Len(q)].req = q[Len(q)].req
      BY <2>1 DEF LinesOf
    <2>5. LinesOf(q) = <<>> => Len(q) = 0
      BY <2>2
    <2>6. QED
      BY <2>1, <2>2, <2>3, <2>4, <2>5
  <1>3. Log(v)!LastShown = (IF LinesOf(q) = <<>> THEN 0 ELSE LinesOf(q)[Len(LinesOf(q))].pos)
    BY DEF Log!LastShown, LinesOf
  <1> HIDE DEF q
  <1>4. QED
    BY <1>2, <1>3 DEF LastPos, LastReq, ShownLines, q

LogStep(v) == [Log(v)!Next]_(Log(v)!vars)

\* A step that shows nothing, asks for nothing and lets the current request be what
\* it is, though it may cancel it.
LEMMA QuietStep ==
  ASSUME TypeOK, TypeOK', NEW v \in LogViews,
         written'[v] = written[v], (v \in opened') <=> (v \in opened),
         requestID'[v] = requestID[v], allLines'[v] = allLines[v],
         Following(v)' <=> Following(v), Cancelled(v) => Cancelled(v)'
  PROVE  LogStep(v)
  <1>1. ShownLines(v)' = ShownLines(v) /\ requestID[v] \in Nat
    BY LineTypes DEF ShownLines, LinesOf
  <1>2. (v \in opened') = (v \in opened) /\ Following(v)' = Following(v)
    BY DEF Following
  <1>3. CASE Cancelled(v)' <=> Cancelled(v)
    <2>1. Cancelled(v)' = Cancelled(v)
      BY <1>3 DEF Cancelled
    <2>2. UNCHANGED Log(v)!vars
      BY <1>1, <1>2, <2>1 DEF Log!vars, ShownLines, LinesOf, Following, Cancelled, Current
    <2>3. QED
      BY <2>2 DEF LogStep
  <1>4. CASE Cancelled(v)' /\ ~Cancelled(v)
    <2>1. Cancelled(v)' = TRUE /\ requestID[v] > 0
      BY <1>1, <1>4 DEF Cancelled, Asked
    <2>2. Log(v)!Cancel
      BY <1>1, <1>2, <2>1
         DEF Log!Cancel, ShownLines, LinesOf, Following, Cancelled, Current
    <2>3. QED
      BY <2>2 DEF LogStep, Log!Next
  <1>5. QED
    BY <1>3, <1>4

\* The pod writes a line.
LEMMA WriteStep ==
  ASSUME TypeOK, NEW v \in LogViews, NEW w \in LogViews, PodWrites(w)
  PROVE  LogStep(v)
  <1>1. UNCHANGED <<opened, requestID, allLines, task, ctxDone>>
    BY DEF PodWrites, navVars, viewVars, reqVars
  <1>2. UNCHANGED <<v \in opened, requestID[v], Following(v), Cancelled(v), ShownLines(v)>>
    BY <1>1 DEF Following, Cancelled, ShownLines, LinesOf, Current, Asked
  <1>3. written' = [written EXCEPT ![w] = written[w] + 1] /\ written \in [LogViews -> Positions]
    BY DEF PodWrites, TypeOK
  <1>4. CASE w = v
    <2>1. written'[v] = written[v] + 1
      BY <1>3, <1>4
    <2>2. Log(v)!PodWrites
      BY <1>2, <2>1 DEF Log!PodWrites, ShownLines, LinesOf, Following, Cancelled, Current
    <2>3. QED
      BY <2>2 DEF LogStep, Log!Next
  <1>5. CASE w # v
    <2>1. written'[v] = written[v]
      BY <1>3, <1>5
    <2>2. UNCHANGED Log(v)!vars
      BY <1>2, <2>1 DEF Log!vars, ShownLines, LinesOf, Following, Cancelled, Current
    <2>3. QED
      BY <2>2 DEF LogStep
  <1>6. QED
    BY <1>4, <1>5

\* A new request of v: it follows or not, and nobody has cancelled it.
LEMMA RequestMaps ==
  ASSUME TypeOK, BookInv, NEW v \in LogViews, NEW f \in BOOLEAN, ReloadLogsCmd(v, f)
  PROVE  /\ requestID'[v] = requestID[v] + 1
         /\ Following(v)' = f /\ Cancelled(v)' = FALSE
  <1> DEFINE r == requestID[v] + 1
             n == <<v, r>>
  <1>1. /\ n \in Requests /\ n[1] = v /\ n[2] = r
        /\ requestID[v] \in Nat /\ requestID'[v] = r
    BY ConstantsOK DEF TypeOK, ReloadLogsCmd, Requests, RequestIDs
  <1>2. task'[n] = (IF f THEN "streaming" ELSE "fetching")
    BY <1>1 DEF ReloadLogsCmd, TypeOK
  <1>3. ctxDone'[n] = FALSE
    <2>1. ctxDone[n] = FALSE /\ cancel[v] # r
      <3>1. n[2] > requestID[n[1]] /\ r # 0 /\ r # requestID[v]
        BY <1>1
      <3>2. ctxDone[n] \in BOOLEAN
        BY <1>1 DEF TypeOK
      <3>3. QED
        BY <1>1, <3>1, <3>2 DEF BookInv
    <2>2. QED
      BY <1>1, <2>1 DEF ReloadLogsCmd, CancelledBy
  <1>4. Asked(v)' /\ Current(v)' = n
    BY <1>1 DEF Asked, Current
  <1>5. QED
    BY <1>1, <1>2, <1>3, <1>4 DEF Following, Cancelled

\* A view asks again, and keeps what it shows.
LEMMA AskStep ==
  ASSUME SingleView, TypeOK, BookInv, NEW v \in LogViews, ResumeFollow(v) \/ ChangeOptions(v)
  PROVE  LogStep(v)
  <1>1. PICK f \in BOOLEAN : ReloadLogsCmd(v, f)
    BY DEF ResumeFollow, ChangeOptions, TypeOK
  <1>2. /\ requestID'[v] = requestID[v] + 1
        /\ Following(v)' = f /\ Cancelled(v)' = FALSE
    BY <1>1, RequestMaps
  <1>3. UNCHANGED <<written[v], v \in opened, ShownLines(v)>>
    BY DEF ResumeFollow, ChangeOptions, navVars, ShownLines, LinesOf
  <1>4. v \in opened
    BY TopIsOpened DEF ResumeFollow, ChangeOptions
  <1>5. Log(v)!Ask
    BY <1>2, <1>3, <1>4 DEF Log!Ask, ShownLines, LinesOf, Following, Cancelled, Current
  <1>6. QED
    BY <1>5 DEF LogStep, Log!Next

\* A view is opened, with a stream or with no request at all.
LEMMA OpenStep ==
  ASSUME TypeOK, BookInv, NEW v \in LogViews, OpenLogs(v) \/ CommandLogs(v)
  PROVE  LogStep(v)
  <1>1. /\ v \notin opened /\ v \in opened' /\ written' = written
        /\ requestID[v] = 0 /\ written[v] \in Nat
    BY LineTypes DEF OpenLogs, CommandLogs, Construct, BookInv
  <1>2. (v \in opened) = FALSE /\ (v \in opened') = TRUE
    BY <1>1
  <1>3. ShownLines(v)' \in {<<>>, Log(v)!Whole(0, written[v])}
    <2>1. PICK n \in {0, written[v]} : allLines' = [allLines EXCEPT ![v] = Snapshot(v, 0, n)]
      BY DEF OpenLogs, CommandLogs, Construct
    <2>2. n \in Nat /\ allLines'[v] = Snapshot(v, 0, n)
      BY <1>1, <2>1 DEF TypeOK
    <2>3. ShownLines(v)' = [i \in 1 .. n |-> [req |-> 0, pos |-> i]]
      BY <2>2, LinesOfSnapshot DEF ShownLines
    <2>4. CASE n = 0
      BY <2>3, <2>4
    <2>5. CASE n = written[v]
      BY <2>3, <2>5 DEF Log!Whole
    <2>6. QED
      BY <2>1, <2>4, <2>5
  <1>4. Following(v) = FALSE
    BY <1>1 DEF Following, Asked
  <1>5. /\ Cancelled(v)' = FALSE
        /\ \/ requestID'[v] = requestID[v] /\ Following(v)' = Following(v)
           \/ requestID'[v] = requestID[v] + 1 /\ Following(v)' = TRUE
    <2>1. CASE OpenLogs(v)
      BY <2>1, RequestMaps DEF OpenLogs
    <2>2. CASE CommandLogs(v)
      <3>1. requestID' = requestID
        BY <2>2 DEF CommandLogs
      <3>2. QED
        BY <1>1, <1>4, <3>1 DEF Following, Cancelled, Asked
    <2>3. QED
      BY <2>1, <2>2
  <1>6. Log(v)!Open
    BY <1>1, <1>2, <1>3, <1>5
       DEF Log!Open, ShownLines, LinesOf, Following, Cancelled, Current
  <1>7. QED
    BY <1>6 DEF LogStep, Log!Next

\* A line of the current stream is shown.
LEMMA ShowLineStep ==
  ASSUME SingleView, RunInv, NEW m \in inbox, NEW v \in LogViews,
         Deliver(m), HandleMsg(v, m), HandleAppend(v, m)
  PROVE  LogStep(v)
  <1> DEFINE l == [view |-> m.view, req |-> m.req, pos |-> m.pos]
  <1>0. TypeOK
    BY DEF RunInv, TransitInv
  <1>1. /\ m.req = requestID[v] /\ Current(v) \in Requests /\ Streams(Current(v))
        /\ LastPos(v) < m.pos /\ m.pos <= written[v]
        /\ LastReq(v) = requestID[v] /\ ~ctxDone[Current(v)] => m.pos = LastPos(v) + 1
    BY LineIsNext DEF Current
  <1>2. /\ requestID[v] \in Nat \ {0} /\ written[v] \in Nat /\ m.pos \in Nat /\ LastPos(v) \in Nat
    <2>1. requestID[v] \in Nat \ {0}
      BY <1>1 DEF Current, Requests, RequestIDs
    <2>2. QED
      BY <1>0, <2>1, LineTypes
  <1>3. Following(v) /\ (Cancelled(v) <=> ctxDone[Current(v)])
    BY <1>1, <1>2 DEF Following, Cancelled, Asked, Streams, IsStream
  <1>4. allLines'[v] = Append(allLines[v], l)
    BY <1>0 DEF HandleAppend, TypeOK
  <1>5. ShownLines(v)' = Append(ShownLines(v), [req |-> requestID[v], pos |-> m.pos])
    <2>1. l.req = requestID[v] /\ l.pos = m.pos
      BY <1>1
    <2> HIDE DEF l
    <2>2. allLines[v] \in Seq(Line)
      BY <1>0 DEF TypeOK
    <2>3. LinesOf(Append(allLines[v], l)) = Append(LinesOf(allLines[v]), [req |-> l.req, pos |-> l.pos])
      BY <2>2, LinesOfAppend
    <2>4. QED
      BY <1>4, <2>1, <2>3 DEF ShownLines
  <1>6. UNCHANGED <<written[v], v \in opened, requestID[v], Following(v), Cancelled(v)>>
    BY DEF Deliver, HandleMsg, navVars, Following, Cancelled, Current, Asked
  <1>7. m.pos \in Log(v)!LastShown + 1 .. written[v]
    BY <1>0, <1>1, <1>2, LastIsLast
  <1>8. (/\ ShownLines(v) # <<>>
         /\ ShownLines(v)[Len(ShownLines(v))].req = requestID[v]
         /\ ~Cancelled(v))
           => m.pos = Log(v)!LastShown + 1
    <2>1. ASSUME ShownLines(v) # <<>>, ~Cancelled(v),
                 ShownLines(v)[Len(ShownLines(v))].req = requestID[v]
          PROVE  m.pos = Log(v)!LastShown + 1
      <3>1. LastReq(v) = requestID[v] /\ Log(v)!LastShown = LastPos(v)
        BY <1>0, <2>1, LastIsLast
      <3>2. ~ctxDone[Current(v)]
        BY <1>3, <2>1
      <3>3. QED
        BY <1>1, <3>1, <3>2
    <2>2. QED
      BY <2>1
  <1>9. Log(v)!ShowLine
    BY <1>3, <1>5, <1>6, <1>7, <1>8
       DEF Log!ShowLine, ShownLines, LinesOf, Following, Cancelled, Current
  <1>10. QED
    BY <1>9 DEF LogStep, Log!Next

\* A fetched log is shown.
LEMMA ShowFetchStep ==
  ASSUME SingleView, RunInv, TypeOK', NEW m \in inbox, NEW v \in LogViews,
         Deliver(m), HandleMsg(v, m), HandleResult(v, m), m.err = "nil", m.pos > 0
  PROVE  LogStep(v)
  <1>0. TypeOK
    BY DEF RunInv, TransitInv
  <1>1. /\ m.view = v /\ m.req = requestID[v] /\ m.pos \in Nat \ {0}
        /\ LastPos(v) <= m.pos /\ m.pos <= written[v]
        /\ task[Current(v)] = "returned"
        /\ allLines' = [allLines EXCEPT ![v] = Snapshot(v, requestID[v], m.pos)]
    BY ShowFetch DEF Current
  <1>2. requestID[v] \in Nat \ {0} /\ written[v] \in Nat
    BY <1>0, <1>1, LineTypes DEF Requests, RequestIDs
  <1>3. ~Following(v)
    BY <1>1 DEF Following
  <1>4. ShownLines(v)' = Log(v)!Whole(requestID[v], m.pos)
    <2>1. allLines'[v] = Snapshot(v, requestID[v], m.pos)
      BY <1>0, <1>1 DEF TypeOK
    <2>2. QED
      BY <1>1, <2>1, LinesOfSnapshot DEF ShownLines, Log!Whole
  <1>5. UNCHANGED <<written[v], v \in opened, requestID[v], Following(v), Cancelled(v)>>
    BY DEF Deliver, HandleMsg, navVars, Following, Cancelled, Current, Asked
  <1>6. m.pos \in 1 .. written[v] /\ Log(v)!LastShown <= m.pos
    BY <1>0, <1>1, <1>2, LastIsLast
  <1>7. Log(v)!ShowFetched
    <2>1. requestID[v] > 0
      BY <1>2
    <2>2. \E n \in 1 .. written[v] :
             Log(v)!LastShown <= n /\ ShownLines(v)' = Log(v)!Whole(requestID[v], n)
      BY <1>4, <1>6
    <2>3. QED
      BY <1>3, <1>5, <2>1, <2>2
         DEF Log!ShowFetched, ShownLines, LinesOf, Following, Cancelled, Current
  <1>8. QED
    BY <1>7 DEF LogStep, Log!Next

\* Every step of the program is a step of the followed log of each view.
LEMMA NextLog ==
  ASSUME SingleView, ReplaysTail = FALSE, RunInv, RunInv', [Next]_vars, NEW v \in LogViews
  PROVE  LogStep(v)
  <1>0. TypeOK /\ TypeOK' /\ BookInv /\ (\A w \in LogViews : w = v)
    BY DEF RunInv, TransitInv, SingleView
  <1>1. ASSUME UNCHANGED <<written, opened, requestID, allLines>>,
               Following(v)' <=> Following(v), Cancelled(v) => Cancelled(v)'
        PROVE  LogStep(v)
    BY <1>0, <1>1, QuietStep
  <1>2. CASE \/ PushOther \/ PopView \/ SwitchRoot \/ CommandSwitchRoot
             \/ \E k \in Slots : SetBookmark(k) \/ JumpToBookmark(k)
             \/ \E w \in LogViews : PauseFollow(w) \/ StartTyping(w) \/ StopTyping(w)
             \/ UNCHANGED vars
    <2>1. UNCHANGED <<written, opened, requestID, allLines, task>>
      BY <1>2 DEF PushOther, PopView, SwitchRoot, CommandSwitchRoot, SetBookmark,
           JumpToBookmark, PauseFollow, StartTyping, StopTyping, vars, navVars, viewVars, reqVars
    <2>2. ctxDone' = ctxDone \/ \E S : CancelReload(S)
      BY <1>2 DEF PushOther, PopView, SwitchRoot, CommandSwitchRoot, SetBookmark,
           JumpToBookmark, PauseFollow, StartTyping, StopTyping, vars, reqVars
    <2>3. \A s \in Requests : ctxDone[s] => ctxDone'[s]
      BY <2>2 DEF CancelReload, CancelledBy
    <2>4. Following(v)' <=> Following(v)
      BY <2>1 DEF Following, Current, Asked
    <2>5. Cancelled(v) => Cancelled(v)'
      <3>1. Asked(v) => Current(v) \in Requests
        BY <1>0, ConstantsOK DEF TypeOK, Asked, Current, Requests, RequestIDs
      <3>2. Asked(v)' = Asked(v) /\ Current(v)' = Current(v)
        BY <2>1 DEF Asked, Current
      <3>3. QED
        BY <2>3, <3>1, <3>2 DEF Cancelled
    <2>6. QED
      BY <1>1, <2>1, <2>4, <2>5
  <1>3. CASE User
    BY <1>0, <1>2, <1>3, OpenStep, AskStep DEF User
  <1>4. ASSUME NEW m \in inbox, Deliver(m) PROVE LogStep(v)
    <2>1. ASSUME NEW w \in LogViews, HandleMsg(w, m), HandleAppend(w, m) PROVE LogStep(v)
      BY <1>0, <1>4, <2>1, ShowLineStep
    <2>2. ASSUME NEW w \in LogViews, HandleMsg(w, m), HandleResult(w, m), m.err = "nil", m.pos > 0
          PROVE  LogStep(v)
      BY <1>0, <1>4, <2>2, ShowFetchStep
    <2>3. CASE \/ IgnoreMsg(m)
               \/ \E w \in LogViews : /\ HandleMsg(w, m)
                                      /\ \/ HandleDone(w, m)
                                         \/ HandleResult(w, m) /\ ~(m.err = "nil" /\ m.pos > 0)
      <3>1. UNCHANGED <<written, opened, requestID, allLines, task, ctxDone>>
        BY <1>4, <2>3 DEF Deliver, IgnoreMsg, HandleMsg, HandleDone, HandleResult, viewVars, navVars
      <3>2. QED
        BY <1>1, <3>1 DEF Following, Cancelled, Current, Asked
    <2>4. QED
      BY <1>4, <2>1, <2>2, <2>3 DEF Deliver, HandleMsg
  <1>5. ASSUME NEW s \in Requests, Goroutine(s) PROVE LogStep(v)
    <2>1. UNCHANGED <<written, opened, requestID, allLines, ctxDone>>
      BY <1>5 DEF Goroutine, ReadLine, SendLine, DropLine, StreamEnds, FetchReturns,
           PumpReceive, PumpClosed, navVars, viewVars
    <2>2. \A q \in Requests :
             task'[q] \in {"fetching", "returned"} <=> task[q] \in {"fetching", "returned"}
      <3>1. \/ task' = task
            \/ /\ task[s] \in {"streaming", "sending"}
               /\ \E t \in {"streaming", "sending", "closed", "failed"} : task' = [task EXCEPT ![s] = t]
            \/ task[s] = "fetching" /\ task' = [task EXCEPT ![s] = "returned"]
        BY <1>5 DEF Goroutine, ReadLine, SendLine, DropLine, StreamEnds, FetchReturns,
             PumpReceive, PumpClosed
      <3>2. QED
        BY <1>0, <3>1 DEF TypeOK
    <2>3. Following(v)' <=> Following(v)
      <3>1. Asked(v) => Current(v) \in Requests
        BY <1>0, ConstantsOK DEF TypeOK, Asked, Current, Requests, RequestIDs
      <3>2. Asked(v)' = Asked(v) /\ Current(v)' = Current(v)
        BY <2>1 DEF Asked, Current
      <3>3. QED
        BY <2>2, <3>1, <3>2 DEF Following
    <2>4. Cancelled(v) => Cancelled(v)'
      BY <2>1 DEF Cancelled, Current, Asked
    <2>5. QED
      BY <1>1, <2>1, <2>3, <2>4
  <1>6. ASSUME NEW w \in LogViews, PodWrites(w) PROVE LogStep(v)
    BY <1>0, <1>6, WriteStep
  <1>7. QED
    BY <1>2, <1>3, <1>4, <1>5, <1>6 DEF Next

\* Before a view exists its log shows nothing.
LEMMA InitLog ==
  ASSUME Init, NEW v \in LogViews
  PROVE  Log(v)!Init
  BY DEF Init, Log!Init, Asked

\* The invariant behind the lines, in any history of a single log view whose stream
\* starts with the next line: the lines under way lie beyond the screen, in order, and
\* none is missing unless the stream is cancelled.
THEOREM RunCorrect ==
  ASSUME SingleView, ReplaysTail = FALSE
  PROVE  Spec => []RunInv
  <1>1. Init => RunInv
    BY InitRun
  <1>2. RunInv /\ [Next]_vars => RunInv'
    BY NextRun
  <1>3. QED
    BY <1>1, <1>2, PTL DEF Spec

\* A log view implements a followed log: with its streams, channels, messages, pauses
\* and reloads it shows what FollowedLog lets a reader see.
THEOREM ImplementsFollowedLog ==
  ASSUME SingleView, ReplaysTail = FALSE, NEW v \in LogViews
  PROVE  Spec => Log(v)!Spec
  <1>1. Init => Log(v)!Init
    BY InitLog
  <1>2. RunInv /\ RunInv' /\ [Next]_vars => [Log(v)!Next]_(Log(v)!vars)
    BY NextLog DEF LogStep
  <1>3. Spec => []RunInv
    BY RunCorrect
  <1>4. QED
    BY <1>1, <1>2, <1>3, PTL DEF Spec, Log!Spec

\* The same for all log views at once, in the form the runs check.
THEOREM LogFollowed ==
  ASSUME SingleView, ReplaysTail = FALSE
  PROVE  Spec => FollowsLog
  <1>1. Init => \A v \in LogViews : Log(v)!Init
    BY InitLog
  <1>2. RunInv /\ RunInv' /\ [Next]_vars
          => [\A v \in LogViews : [Log(v)!Next]_(Log(v)!vars)]_vars
    BY NextLog DEF LogStep
  <1>3. Spec => []RunInv
    BY RunCorrect
  <1>4. QED
    BY <1>1, <1>2, <1>3, PTL DEF Spec, FollowsLog

-----------------------------------------------------------------------------
(* What leaves the stack leaves nothing running behind.                    *)

\* A view is on the stack as long as the stack only grows.
LEMMA GrowingStack ==
  ASSUME TypeOK, Len(stack') \in Nat, Len(stack) <= Len(stack'),
         \A i \in 1 .. Len(stack) : stack'[i] = stack[i]
  PROVE  OnStack \subseteq OnStack'
  <1>1. Len(stack) \in Nat
    BY DEF TypeOK
  <1>2. \A i \in 1 .. Len(stack) : i \in 1 .. Len(stack')
    BY <1>1
  <1>3. QED
    BY <1>2 DEF OnStack

\* A step takes a view off the stack only after it has asked its running request to
\* stop, unless it is the command bar that replaces the stack.
LEMMA NextDisposes ==
  ASSUME TypeOK, RunningRequestIsCancellable, [Next]_vars, NEW s \in Requests,
         s[1] \in OnStack, s[1] \notin OnStack', Running(s), ~CommandSwitchRoot
  PROVE  ctxDone'[s]
  <1>1. cancel[s[1]] = s[2] /\ s[1] \in LogViews
    BY DEF RunningRequestIsCancellable, Requests
  <1>2. ASSUME NEW S, CancelReload(S), s[1] \in S PROVE ctxDone'[s]
    BY <1>1, <1>2 DEF CancelReload, CancelledBy
  <1>3. ASSUME stack' = stack PROVE FALSE
    BY <1>3 DEF OnStack
  <1>4. stack \in Seq(LogViews \cup {OtherView}) /\ Len(stack) \in Nat
    BY DEF TypeOK
  <1>5. ASSUME NEW q \in Seq(LogViews \cup {OtherView}), stack' = stack \o q PROVE FALSE
    <2>1. /\ Len(stack') = Len(stack) + Len(q) /\ Len(q) \in Nat
          /\ \A i \in 1 .. Len(stack) : stack'[i] = stack[i]
      BY <1>4, <1>5
    <2>2. QED
      BY <1>4, <2>1, GrowingStack
  <1>6. ASSUME NEW w \in LogViews \cup {OtherView}, stack' = Append(stack, w) PROVE FALSE
    <2>1. /\ Len(stack') = Len(stack) + 1
          /\ \A i \in 1 .. Len(stack) : stack'[i] = stack[i]
      BY <1>4, <1>6
    <2>2. QED
      BY <1>4, <2>1, GrowingStack
  <1>7. CASE PopView
    <2>1. PICK i \in 1 .. Len(stack) : stack[i] = s[1]
      BY DEF OnStack
    <2>2. /\ Len(stack') = Len(stack) - 1 /\ Len(stack) > 1
          /\ \A j \in 1 .. Len(stack) - 1 : stack'[j] = stack[j]
      BY <1>4, <1>7 DEF PopView
    <2>3. i \notin 1 .. Len(stack) - 1
      BY <1>1, <2>1, <2>2 DEF OnStack
    <2>4. s[1] = Top
      BY <1>4, <2>1, <2>3 DEF Top
    <2>5. QED
      BY <1>1, <1>2, <1>7, <2>4 DEF PopView
  <1>8. CASE SwitchRoot \/ \E k \in Slots : JumpToBookmark(k)
    BY <1>2, <1>8 DEF SwitchRoot, JumpToBookmark
  <1>9. CASE \/ \E v \in LogViews : OpenLogs(v) \/ CommandLogs(v)
             \/ PushOther
    <2>1. \A v \in LogViews : <<OtherView, v>> \in Seq(LogViews \cup {OtherView})
      OBVIOUS
    <2>2. QED
      BY <1>5, <1>6, <1>9, <2>1 DEF OpenLogs, CommandLogs, PushOther
  <1>10. CASE \/ \E k \in Slots : SetBookmark(k)
              \/ \E v \in LogViews : \/ PauseFollow(v) \/ ResumeFollow(v) \/ ChangeOptions(v)
                                     \/ StartTyping(v) \/ StopTyping(v)
              \/ \E m \in inbox : Deliver(m)
              \/ \E q \in Requests : Goroutine(q)
              \/ \E v \in LogViews : PodWrites(v)
              \/ UNCHANGED vars
    <2>1. stack' = stack
      BY <1>10 DEF SetBookmark, PauseFollow, ResumeFollow, ChangeOptions, StartTyping, StopTyping,
           Deliver, Goroutine, ReadLine, SendLine, DropLine, StreamEnds, FetchReturns,
           PumpReceive, PumpClosed, PodWrites, vars, navVars
    <2>2. QED
      BY <1>3, <2>1
  <1>11. QED
    BY <1>7, <1>8, <1>9, <1>10 DEF Next, User

\* A view that leaves the stack leaves nothing running behind, in any history, with any
\* number of views on the stack and of bookmarks.
THEOREM RemovedDisposed == Spec => RemovedViewIsDisposed
  <1>1. Spec => []TypeOK
    BY TypeCorrect
  <1>2. Spec => []RunningRequestIsCancellable
    BY Cancellable
  <1>3. TypeOK /\ RunningRequestIsCancellable /\ [Next]_vars
          => [\A s \in Requests :
                s[1] \in OnStack /\ s[1] \notin OnStack' /\ Running(s) /\ ~CommandSwitchRoot
                  => ctxDone'[s]]_vars
    BY NextDisposes
  <1>4. QED
    BY <1>1, <1>2, <1>3, PTL DEF Spec, RemovedViewIsDisposed
=============================================================================
