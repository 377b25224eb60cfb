-------------------------- MODULE KubeStore_proofs --------------------------
(***************************************************************************)
(* Proofs about KubeStore, for any scopes, errors and number of background *)
(* reads.                                                                  *)
(***************************************************************************)
EXTENDS KubeStore, TLAPS

Resolved == {"reading", "report", "write", "write2"}

\* A read that has its scope, and that nobody cancelled or left behind, has the
\* current one: whoever changes the scope cancels the others.
ReadsInv ==
    /\ pc \in [Callers -> {"idle", "started", "checked"} \cup Resolved]
    /\ readScope \in [Callers -> Scopes \cup {NoScope}]
    /\ cancelled \in [Reads -> BOOLEAN]
    /\ scope \in Scopes
    /\ AttachedReadIsOfCurrentScope

\* Nothing is read at the start.
LEMMA ReadsInit == Init => ReadsInv
  BY StoreConstants DEF Init, ReadsInv, Resolved, AttachedReadIsOfCurrentScope, Scopes, Callers

\* A change of scope cancels every read that is not left behind.
LEMMA SetScopeKeeps ==
    ASSUME ReadsInv, NEW c \in Contexts \cup {Blank}, NEW n \in Namespaces \cup {Blank},
           SetScope(c, n)
    PROVE  ReadsInv'
<1>1. scope' \in Scopes
  BY StoreConstants DEF SetScope, ReadsInv, Scopes
<1>2. /\ pc' = [pc EXCEPT ![Loop] = "report"]
      /\ readScope' = [readScope EXCEPT ![Loop] = scope']
      /\ cancelled' = CancelledWithStack
      /\ UNCHANGED abandoned
  BY DEF SetScope, Reports
<1>3. /\ pc' \in [Callers -> {"idle", "started", "checked"} \cup Resolved]
      /\ readScope' \in [Callers -> Scopes \cup {NoScope}]
      /\ cancelled' \in [Reads -> BOOLEAN]
  BY <1>1, <1>2, Zenon DEF ReadsInv, Resolved, CancelledWithStack
<1>4. ASSUME NEW b \in Reads, pc'[b] \in Resolved
      PROVE  cancelled'[b] \/ b \in abandoned'
  <2>1. pc'[b] = pc[b]
    BY <1>2, StoreConstants DEF ReadsInv, Callers
  <2>. QED
    BY <1>2, <1>4, <2>1 DEF CancelledWithStack, Resolved
<1>. QED
  BY <1>1, <1>3, <1>4 DEF ReadsInv, AttachedReadIsOfCurrentScope, Resolved

\* The loop's own reads are nobody's background read.
LEMMA AnswerKeeps ==
    ASSUME ReadsInv, NEW sc \in Scopes \cup {NoScope}, NEW rs, NEW e, Answer(sc, rs, e)
    PROVE  ReadsInv'
<1>1. /\ pc' = [pc EXCEPT ![Loop] = "report"]
      /\ readScope' = [readScope EXCEPT ![Loop] = sc]
      /\ UNCHANGED <<scope, cancelled, abandoned>>
  BY DEF Answer, Reports
<1>2. \A b \in Reads : pc'[b] = pc[b] /\ readScope'[b] = readScope[b]
  BY <1>1, StoreConstants DEF ReadsInv, Callers
<1>. QED
  BY <1>1, <1>2 DEF ReadsInv, Resolved, AttachedReadIsOfCurrentScope

\* A background read takes the scope it finds, and is cancelled or left behind.
LEMMA BackgroundKeeps ==
    ASSUME ReadsInv, NEW b \in Reads, Background(b)
    PROVE  ReadsInv'
<1>. USE DEF ReadsInv, Resolved, AttachedReadIsOfCurrentScope, Callers
<1>1. CASE StartRead(b)
  BY <1>1 DEF StartRead
<1>2. CASE CheckCancelled(b)
  BY <1>2 DEF CheckCancelled
<1>3. CASE ResolveScope(b)
  BY <1>3 DEF ResolveScope
<1>4. CASE ReadReturns(b)
  BY <1>4 DEF ReadReturns, Reports
<1>5. CASE Cancel(b)
  BY <1>5 DEF Cancel
<1>6. CASE Abandon(b)
  BY <1>6 DEF Abandon
<1>. QED
  BY <1>1, <1>2, <1>3, <1>4, <1>5, <1>6 DEF Background

\* Reporting a status changes no scope.
LEMMA SetStatusKeeps ==
    ASSUME ReadsInv, NEW c \in Callers, SetStatus(c)
    PROVE  ReadsInv'
<1>. USE DEF ReadsInv, Resolved, AttachedReadIsOfCurrentScope
<1>1. CASE CopyStatus(c)
  BY <1>1 DEF CopyStatus, Callers
<1>2. CASE WriteState(c)
  BY <1>2 DEF WriteState, Callers
<1>3. CASE WriteTimes(c)
  BY <1>3 DEF WriteTimes, Callers
<1>4. CASE Finish(c)
  BY <1>4 DEF Finish, Callers
<1>5. CASE Skip(c)
  BY <1>5 DEF Skip, Callers
<1>. QED
  BY <1>1, <1>2, <1>3, <1>4, <1>5 DEF SetStatus

\* Every step keeps the reads that are attached in the current scope.
LEMMA ReadsNext == ReadsInv /\ [Next]_vars => ReadsInv'
<1>. SUFFICES ASSUME ReadsInv, [Next]_vars
              PROVE  ReadsInv'
  OBVIOUS
<1>1. CASE EventLoop
  <2>1. scope \in Scopes \cup {NoScope} /\ NoScope \in Scopes \cup {NoScope}
    BY DEF ReadsInv
  <2>. QED
    BY <1>1, <2>1, SetScopeKeeps, AnswerKeeps
       DEF EventLoop, List, ReadObject, NamespaceNames, ContextNames, UnhealthyItems,
           PodsByRestarts, Query
<1>2. CASE Tick \/ UNCHANGED vars
  BY <1>2 DEF Tick, vars, ReadsInv, AttachedReadIsOfCurrentScope
<1>. QED
  BY <1>1, <1>2, BackgroundKeeps, SetStatusKeeps DEF Next

\* However late a goroutine resolves its scope, it reads the scope its view is shown
\* in, unless it is cancelled or its view was left undisposed (kube_readmodel.go,
\* LogsWithContext and StreamLogsWithContext).
THEOREM AttachedReadCorrect == Spec => []AttachedReadIsOfCurrentScope
<1>1. ReadsInv => AttachedReadIsOfCurrentScope
  BY DEF ReadsInv
<1>. QED
  BY <1>1, ReadsInit, ReadsNext, PTL DEF Spec

-----------------------------------------------------------------------------
(* Types.                                                                  *)

Said == Seq(Report \cup {Nothing})

\* What a failed or unfailed list has to say is a report, or nothing.
LEMMA ListErrorType ==
    ASSUME NEW e \in ListErrors
    PROVE  /\ SetStatusForListError(e) \in Report \cup {Nothing}
           /\ e \in Errors => SetStatusForListError(e).state \in {"forbidden", "unreachable", "degraded"}
  BY StoreConstants, Zenon
     DEF ListErrors, LoopErrors, SetStatusForListError, SetStatusForError, Failure, Report, States, Nothing

\* An error of the loop's, or of a background read's, makes one report.
LEMMA ErrorType ==
    ASSUME NEW e
    PROVE  /\ SetStatusForError(e) \in Report
           /\ SetStatusForError(e).state \in {"forbidden", "unreachable", "degraded"}
  BY DEF SetStatusForError, Failure, Report, States

\* The reports of one or of three lists are a sequence, and the last one is that of
\* the real error when there is one.
LEMMA QueryReportsType ==
    ASSUME NEW n \in {1, 3}, NEW errs \in [1 .. n -> ListErrors]
    PROVE  /\ QueryReports(errs) \in Said
           /\ RealError(errs) = "real" =>
                /\ QueryReports(errs) # <<>>
                /\ QueryReports(errs)[Len(QueryReports(errs))].state
                     \in {"forbidden", "unreachable", "degraded"}
<1>. DEFINE upTo == {i \in 1 .. Len(errs) : \A j \in 1 .. i - 1 : errs[j] \notin Errors}
            rs   == SetStatusForQueryFallback(errs)
<1>1. Len(errs) = n
  OBVIOUS
<1>2. PICK k \in 1 .. n : /\ upTo = 1 .. k
                          /\ (\E i \in 1 .. n : errs[i] \in Errors) => errs[k] \in Errors
  <2>1. CASE n = 1
    <3>1. upTo = 1 .. 1
      BY <1>1, <2>1
    <3>. QED
      BY <3>1, <2>1
  <2>2. CASE n = 3
    <3>1. CASE errs[1] \in Errors
      <4>1. upTo = 1 .. 1
        BY <1>1, <2>2, <3>1
      <4>. QED
        BY <4>1, <3>1, <2>2
    <3>2. CASE errs[1] \notin Errors /\ errs[2] \in Errors
      <4>1. upTo = 1 .. 2
        BY <1>1, <2>2, <3>2
      <4>. QED
        BY <4>1, <3>2, <2>2
    <3>3. CASE errs[1] \notin Errors /\ errs[2] \notin Errors
      <4>1. upTo = 1 .. 3
        BY <1>1, <2>2, <3>3
      <4>. QED
        BY <4>1, <3>3, <2>2
    <3>. QED
      BY <3>1, <3>2, <3>3
  <2>. QED
    BY <2>1, <2>2
<1>3. rs = [i \in 1 .. k |-> SetStatusForListError(errs[i])]
  BY <1>2 DEF SetStatusForQueryFallback
<1>4. \A i \in 1 .. k : SetStatusForListError(errs[i]) \in Report \cup {Nothing}
  BY ListErrorType
<1>5. rs \in Said /\ Len(rs) = k /\ rs # <<>>
  BY <1>3, <1>4 DEF Said
<1>6. Ready("live") \in Report
  BY DEF Ready, Report, States
<1>7. RealError(errs) = "real" => \E i \in 1 .. n : errs[i] \in Errors
  BY <1>1 DEF RealError
<1>8. CASE \A i \in 1 .. Len(errs) : errs[i] = "nil"
  <2>1. <<Ready("live")>> \in Said
    BY <1>6 DEF Said
  <2>2. QueryReports(errs) \in Said
    BY <1>8, <2>1 DEF QueryReports
  <2>3. RealError(errs) # "real"
    BY <1>1, <1>7, <1>8, StoreConstants
  <2>. QED
    BY <2>2, <2>3
<1>9. CASE ~ \A i \in 1 .. Len(errs) : errs[i] = "nil"
  <2>1. QueryReports(errs) = rs
    BY <1>9 DEF QueryReports
  <2>2. errs[k] \in Errors => rs[k].state \in {"forbidden", "unreachable", "degraded"}
    BY <1>3, ListErrorType
  <2>. QED
    BY <2>1, <2>2, <1>2, <1>5, <1>7
<1>. QED
  BY <1>8, <1>9

Bad == {"forbidden", "unreachable", "degraded"}

\* The last report of a read that met an error says so.
EndsBad(rs) == rs # <<>> /\ rs[Len(rs)].state \in Bad

\* Every read of the event loop answers with typed reports about the active scope or
\* none, and a real error comes last.
LEMMA LoopAnswers ==
    ASSUME List \/ ReadObject \/ NamespaceNames \/ ContextNames \/ UnhealthyItems \/ PodsByRestarts
    PROVE  \E sc \in {scope, NoScope}, rs \in Said, e \in {"none", "real"} :
              Answer(sc, rs, e) /\ (e = "real" => EndsBad(rs))
<1>. DEFINE Goal == \E sc \in {scope, NoScope}, rs \in Said, e \in {"none", "real"} :
                       Answer(sc, rs, e) /\ (e = "real" => EndsBad(rs))
<1>1. \A src \in {"live", "cache"} : Ready(src) \in Report
  BY DEF Ready, Report, States
<1>2. Warming \in Report /\ Failure("partial") \in Report
  BY DEF Warming, Failure, Report, States
<1>3. ASSUME NEW r \in Report, NEW sc \in {scope, NoScope}, Answer(sc, <<r>>, "none")
      PROVE  Goal
  <2>1. <<r>> \in Said
    BY DEF Said
  <2>. QED
    BY <1>3, <2>1
<1>4. ASSUME NEW x, NEW sc \in {scope, NoScope}, Answer(sc, <<SetStatusForError(x)>>, "real")
      PROVE  Goal
  <2>1. SetStatusForError(x) \in Report /\ SetStatusForError(x).state \in Bad
    BY ErrorType DEF Bad
  <2>2. <<SetStatusForError(x)>> \in Said /\ EndsBad(<<SetStatusForError(x)>>)
    BY <2>1 DEF Said, EndsBad
  <2>. QED
    BY <1>4, <2>2
<1>5. ASSUME NEW n \in {1, 3}, Query(n)
      PROVE  Goal
  <2>1. PICK errs \in [1 .. n -> ListErrors] : Answer(scope, QueryReports(errs), RealError(errs))
    BY <1>5 DEF Query
  <2>2. RealError(errs) \in {"none", "real"}
    BY DEF RealError
  <2>3. QueryReports(errs) \in Said /\ (RealError(errs) = "real" => EndsBad(QueryReports(errs)))
    BY QueryReportsType DEF EndsBad, Bad
  <2>. QED
    BY <2>1, <2>2, <2>3
<1>6. CASE List
  <2>1. ASSUME Answer(scope, <<Failure("partial"), Failure("partial")>>, "none")
        PROVE  Goal
    <3>1. <<Failure("partial"), Failure("partial")>> \in Said
      BY <1>2 DEF Said
    <3>. QED
      BY <2>1, <3>1
  <2>. QED
    BY <1>1, <1>2, <1>3, <1>4, <1>6, <2>1 DEF List
<1>7. CASE ReadObject
  <2>1. ASSUME Answer(scope, <<>>, "none")
        PROVE  Goal
    <3>1. <<>> \in Said
      BY DEF Said
    <3>. QED
      BY <2>1, <3>1
  <2>. QED
    BY <1>1, <1>3, <1>4, <1>7, <2>1 DEF ReadObject
<1>8. CASE NamespaceNames \/ ContextNames
  BY <1>1, <1>2, <1>3, <1>4, <1>8 DEF NamespaceNames, ContextNames
<1>9. CASE UnhealthyItems \/ PodsByRestarts
  BY <1>5, <1>9 DEF UnhealthyItems, PodsByRestarts
<1>. QED
  BY <1>6, <1>7, <1>8, <1>9

\* A caller that is writing has a report left to take off.
TypeInv ==
    /\ TypeOK
    /\ \A c \in Callers : pc[c] \in {"write", "write2"} => todo[c] # <<>>

\* At the start nothing was reported.
LEMMA TypeInit == Init => TypeInv
  BY StoreConstants DEF Init, TypeInv, TypeOK, Status, States, Scopes, Times, Callers, NoCopy

\* A change of scope has at most one report to make.
LEMMA SetScopeType ==
    ASSUME TypeInv, NEW c \in Contexts \cup {Blank}, NEW n \in Namespaces \cup {Blank},
           SetScope(c, n)
    PROVE  TypeInv'
<1>1. scope' \in Scopes
  BY StoreConstants DEF SetScope, TypeInv, TypeOK, Scopes
<1>2. PICK rs \in {<<Refreshing>>, <<>>} : Reports(Loop, rs)
  BY DEF SetScope
<1>3. rs \in Said
  <2>1. Refreshing \in Report
    BY DEF Refreshing, Failure, Report, States
  <2>2. <<Refreshing>> \in Said /\ <<>> \in Said
    BY <2>1 DEF Said
  <2>. QED
    BY <2>2
<1>4. /\ pc' \in [Callers -> {"idle", "started", "checked", "reading", "report", "write", "write2"}]
      /\ todo' \in [Callers -> Said]
  BY <1>2, <1>3 DEF Reports, TypeInv, TypeOK, Said
<1>5. readScope' \in [Callers -> Scopes \cup {NoScope}] /\ cancelled' \in [Reads -> BOOLEAN]
  BY <1>1, Zenon DEF SetScope, TypeInv, TypeOK, CancelledWithStack
<1>6. TypeOK'
  BY <1>1, <1>4, <1>5 DEF SetScope, TypeInv, TypeOK, Said
<1>7. \A c1 \in Callers : pc'[c1] \in {"write", "write2"} => todo'[c1] # <<>>
  BY <1>2 DEF Reports, TypeInv, TypeOK
<1>. QED
  BY <1>6, <1>7 DEF TypeInv

\* An answer to the event loop keeps the types.
LEMMA AnswerType ==
    ASSUME TypeInv, NEW sc \in {scope, NoScope}, NEW rs \in Said, NEW e \in {"none", "real"},
           Answer(sc, rs, e)
    PROVE  TypeInv'
  BY DEF Answer, Reports, TypeInv, TypeOK, Said

\* The steps of a background read keep the types.
LEMMA BackgroundType ==
    ASSUME TypeInv, NEW b \in Reads, Background(b)
    PROVE  TypeInv'
<1>. USE DEF TypeInv, TypeOK
<1>1. CASE StartRead(b)
  BY <1>1 DEF StartRead
<1>2. CASE CheckCancelled(b)
  BY <1>2 DEF CheckCancelled
<1>3. CASE ResolveScope(b)
  BY <1>3 DEF ResolveScope
<1>4. CASE ReadReturns(b)
  <2>1. PICK r \in Report : Reports(b, <<r>>)
    <3>1. Ready("live") \in Report
      BY DEF Ready, Report, States
    <3>. QED
      BY <1>4, <3>1, ErrorType DEF ReadReturns
  <2>2. <<r>> \in Seq(Report \cup {Nothing})
    OBVIOUS
  <2>. QED
    BY <1>4, <2>1, <2>2 DEF ReadReturns, Reports
<1>5. CASE Cancel(b)
  BY <1>5 DEF Cancel
<1>6. CASE Abandon(b)
  BY <1>6 DEF Abandon
<1>. QED
  BY <1>1, <1>2, <1>3, <1>4, <1>5, <1>6 DEF Background

\* The copy that setStatus writes back is a status.
LEMMA CopyType ==
    ASSUME TypeInv, NEW c \in Callers, CopyStatus(c)
    PROVE  /\ copy' = [copy EXCEPT ![c] = copy'[c]]
           /\ copy'[c] \in Status
           /\ copy'[c].about = readScope[c]
           /\ copy'[c].state = Head(todo[c]).state
           /\ copy'[c].success \in {now, status.success}
<1>1. Head(todo[c]) \in Report
  BY DEF CopyStatus, TypeInv, TypeOK
<1>2. readScope[c] \in Scopes \cup {NoScope} /\ status \in Status /\ now \in Times
  BY DEF TypeInv, TypeOK
<1>. QED
  BY <1>1, <1>2 DEF CopyStatus, TypeInv, TypeOK, Status, Report

\* Reporting a status keeps the types.
LEMMA SetStatusType ==
    ASSUME TypeInv, NEW c \in Callers, SetStatus(c)
    PROVE  TypeInv'
<1>1. CASE CopyStatus(c)
  <2>1. copy' \in [Callers -> Status]
    BY <1>1, CopyType DEF TypeInv, TypeOK
  <2>. QED
    BY <1>1, <2>1 DEF CopyStatus, TypeInv, TypeOK
<1>2. CASE WriteState(c)
  BY <1>2 DEF WriteState, TypeInv, TypeOK, Status
<1>3. CASE WriteTimes(c)
  <2>1. PICK t \in Said : todo' = [todo EXCEPT ![c] = t]
    <3>1. todo[c] \in Said /\ todo[c] # <<>>
      BY <1>3 DEF WriteTimes, TypeInv, TypeOK, Said
    <3>2. Tail(todo[c]) \in Said
      BY <3>1 DEF Said
    <3>. QED
      BY <1>3, <3>2 DEF WriteTimes, TypeInv, TypeOK
  <2>2. status' \in Status
    BY <1>3 DEF WriteTimes, TypeInv, TypeOK, Status
  <2>3. copy' \in [Callers -> Status]
    <3>1. NoCopy \in Status
      BY StoreConstants DEF NoCopy, Status, States, Times
    <3>. QED
      BY <1>3, <3>1 DEF WriteTimes, TypeInv, TypeOK
  <2>4. pc' = [pc EXCEPT ![c] = "report"]
    BY <1>3 DEF WriteTimes
  <2>. QED
    BY <1>3, <2>1, <2>2, <2>3, <2>4 DEF WriteTimes, TypeInv, TypeOK, Said
<1>4. CASE Finish(c)
  BY <1>4 DEF Finish, TypeInv, TypeOK
<1>5. CASE Skip(c)
  BY <1>5 DEF Skip, TypeInv, TypeOK
<1>. QED
  BY <1>1, <1>2, <1>3, <1>4, <1>5 DEF SetStatus

\* Every step keeps the types.
LEMMA TypeNext == TypeInv /\ [Next]_vars => TypeInv'
<1>. SUFFICES ASSUME TypeInv, [Next]_vars
              PROVE  TypeInv'
  OBVIOUS
<1>1. CASE EventLoop
  BY <1>1, SetScopeType, LoopAnswers, AnswerType DEF EventLoop
<1>2. CASE Tick \/ UNCHANGED vars
  BY <1>2, StoreConstants DEF Tick, vars, TypeInv, TypeOK, Times
<1>. QED
  BY <1>1, <1>2, BackgroundType, SetStatusType DEF Next

\* What the callers hold and report keeps its form, and the clock its bound
\* (kubestore.go, setStatus; status.go, StoreStatus).
THEOREM TypeCorrect == Spec => []TypeOK
<1>1. TypeInv => TypeOK
  BY DEF TypeInv
<1>. QED
  BY <1>1, TypeInit, TypeNext, PTL DEF Spec

-----------------------------------------------------------------------------
(* What the event loop alone has reported.                                 *)

\* The status on screen is of the current scope, or about to be overwritten.
Settled ==
    \/ status.state = "loading"
    \/ status.about \in {scope, NoScope}
    \/ pc[Loop] = "write"
    \/ pc[Loop] = "report" /\ todo[Loop] = <<Refreshing>>

\* The error is on screen already, or is the last of what is still to be reported.
ErrorPending ==
    CASE pc[Loop] = "idle"   -> status.state \in Bad
      [] pc[Loop] = "report" -> IF todo[Loop] = <<>> THEN status.state \in Bad ELSE EndsBad(todo[Loop])
      [] pc[Loop] = "write"  -> EndsBad(todo[Loop]) /\ copy[Loop].state = Head(todo[Loop]).state
      [] OTHER               -> EndsBad(todo[Loop]) /\ status.state = Head(todo[Loop]).state

\* Successes are not in the future, and what is being written is not older.
InTime ==
    /\ status.success <= now
    /\ pc[Loop] \in {"write", "write2"} => copy[Loop].success \in status.success .. now

\* While no background read has its scope nobody but the loop reports, and the loop
\* reports about the active scope or none.
LoopInv ==
    /\ TypeInv
    /\ pc[Loop] \in {"idle", "report", "write", "write2"}
    /\ \A b \in Reads : pc[b] \in Resolved => readScope[b] # NoScope
    /\ readScope[Loop] \in {scope, NoScope}
    /\ pc[Loop] = "write" => copy[Loop].about = readScope[Loop]
    /\ NoReadYet => /\ Settled
                    /\ lastError = "real" => ErrorPending
                    /\ InTime

\* The first status is of the first scope, and is no error.
LEMMA LoopInit == Init => LoopInv
<1>. SUFFICES ASSUME Init
              PROVE  LoopInv
  OBVIOUS
<1>1. TypeInv
  BY TypeInit
<1>. QED
  BY <1>1, StoreConstants DEF Init, LoopInv, Settled, InTime, Callers, Resolved

\* A change of scope is about to say "loading"; no change leaves what is settled.
LEMMA SetScopeLoop ==
    ASSUME LoopInv, NEW c \in Contexts \cup {Blank}, NEW n \in Namespaces \cup {Blank},
           SetScope(c, n)
    PROVE  LoopInv'
<1>1. TypeInv'
  BY SetScopeType DEF LoopInv
<1>2. /\ pc[Loop] = "idle"
      /\ pc' = [pc EXCEPT ![Loop] = "report"]
      /\ readScope' = [readScope EXCEPT ![Loop] = scope']
      /\ todo' = [todo EXCEPT ![Loop] = IF scope # scope' THEN <<Refreshing>> ELSE <<>>]
      /\ lastError' = "none"
      /\ UNCHANGED <<status, now, copy>>
  BY DEF SetScope, Reports, ScopeChanged
<1>3. /\ pc'[Loop] = "report"
      /\ readScope'[Loop] = scope'
      /\ todo'[Loop] = IF scope # scope' THEN <<Refreshing>> ELSE <<>>
      /\ \A b \in Reads : pc'[b] = pc[b] /\ readScope'[b] = readScope[b]
  BY <1>2, StoreConstants DEF LoopInv, TypeInv, TypeOK, Callers
<1>4. NoReadYet' => NoReadYet
  BY <1>3 DEF NoReadYet
<1>6. NoReadYet' => Settled' /\ InTime'
  BY <1>2, <1>3, <1>4 DEF LoopInv, Settled, InTime
<1>. QED
  BY <1>1, <1>2, <1>3, <1>6 DEF LoopInv

\* An answer is about the current scope or none, and ends with the error it met.
LEMMA AnswerLoop ==
    ASSUME LoopInv, NEW sc \in {scope, NoScope}, NEW rs \in Said, NEW e \in {"none", "real"},
           Answer(sc, rs, e), e = "real" => EndsBad(rs)
    PROVE  LoopInv'
<1>1. TypeInv'
  BY AnswerType DEF LoopInv
<1>2. /\ pc[Loop] = "idle"
      /\ pc' = [pc EXCEPT ![Loop] = "report"]
      /\ readScope' = [readScope EXCEPT ![Loop] = sc]
      /\ todo' = [todo EXCEPT ![Loop] = rs]
      /\ lastError' = e
      /\ UNCHANGED <<scope, status, now, copy>>
  BY DEF Answer, Reports
<1>3. /\ pc'[Loop] = "report"
      /\ readScope'[Loop] = sc
      /\ todo'[Loop] = rs
      /\ \A b \in Reads : pc'[b] = pc[b] /\ readScope'[b] = readScope[b]
  BY <1>2, StoreConstants DEF LoopInv, TypeInv, TypeOK, Callers
<1>4. NoReadYet' => NoReadYet
  BY <1>3 DEF NoReadYet
<1>5. NoReadYet' => Settled' /\ InTime'
  BY <1>2, <1>3, <1>4 DEF LoopInv, Settled, InTime
<1>6. lastError' = "real" => ErrorPending'
  BY <1>2, <1>3 DEF ErrorPending, EndsBad
<1>. QED
  BY <1>1, <1>2, <1>3, <1>5, <1>6 DEF LoopInv

\* A background read leaves alone what the loop is doing.
LEMMA BackgroundLoop ==
    ASSUME LoopInv, NEW b \in Reads, Background(b)
    PROVE  LoopInv'
<1>1. TypeInv'
  BY BackgroundType DEF LoopInv
<1>2. /\ pc' = [pc EXCEPT ![b] = pc'[b]]
      /\ readScope' = [readScope EXCEPT ![b] = readScope'[b]]
      /\ todo' = [todo EXCEPT ![b] = todo'[b]]
      /\ pc'[b] \in Resolved => readScope'[b] # NoScope
      /\ readScope[b] # NoScope => readScope'[b] # NoScope
      /\ UNCHANGED <<scope, status, now, copy, lastError>>
  <2>. USE DEF LoopInv, TypeInv, TypeOK, Callers, Resolved
  <2>1. CASE StartRead(b)
    BY <2>1 DEF StartRead
  <2>2. CASE CheckCancelled(b)
    BY <2>2 DEF CheckCancelled
  <2>3. CASE ResolveScope(b)
    BY <2>3, StoreConstants DEF ResolveScope, Scopes
  <2>4. CASE ReadReturns(b)
    BY <2>4 DEF ReadReturns, Reports
  <2>5. CASE Cancel(b)
    BY <2>5 DEF Cancel
  <2>6. CASE Abandon(b)
    BY <2>6 DEF Abandon
  <2>. QED
    BY <2>1, <2>2, <2>3, <2>4, <2>5, <2>6 DEF Background
<1>3. /\ pc'[Loop] = pc[Loop] /\ readScope'[Loop] = readScope[Loop] /\ todo'[Loop] = todo[Loop]
      /\ \A b1 \in Reads \ {b} : pc'[b1] = pc[b1] /\ readScope'[b1] = readScope[b1]
  BY <1>2, StoreConstants DEF LoopInv, TypeInv, TypeOK, Callers
<1>4. NoReadYet' => NoReadYet
  BY <1>2, <1>3 DEF NoReadYet
<1>5. Settled' = Settled /\ ErrorPending' = ErrorPending /\ InTime' = InTime
  BY <1>2, <1>3 DEF Settled, ErrorPending, InTime
<1>. QED
  BY <1>1, <1>2, <1>3, <1>4, <1>5 DEF LoopInv

\* As long as no background read has its scope, the caller in setStatus is the loop.
LEMMA OnlyLoopReports ==
    ASSUME LoopInv, NoReadYet, NEW c \in Callers, SetStatus(c)
    PROVE  c = Loop
  BY DEF LoopInv, NoReadYet, SetStatus, Skip, CopyStatus, WriteState, WriteTimes, Finish, Resolved,
         Callers

\* The last element is that of the tail, when there is one.
LEMMA TailLast ==
    ASSUME NEW S, NEW rs \in Seq(S), rs # <<>>
    PROVE  /\ Tail(rs) # <<>> => Tail(rs)[Len(Tail(rs))] = rs[Len(rs)]
           /\ Tail(rs) = <<>> => Head(rs) = rs[Len(rs)]
<1>1. Len(rs) \in Nat \ {0} /\ Len(Tail(rs)) = Len(rs) - 1
  OBVIOUS
<1>2. CASE Tail(rs) = <<>>
  <2>1. Len(rs) = 1
    BY <1>1, <1>2
  <2>. QED
    BY <1>2, <2>1
<1>3. CASE Tail(rs) # <<>>
  <2>1. Len(Tail(rs)) \in 1 .. Len(Tail(rs))
    BY <1>1, <1>3
  <2>. QED
    BY <1>1, <1>3, <2>1
<1>. QED
  BY <1>2, <1>3

\* What is left after a report ends with the same error.
LEMMA EndsBadTail ==
    ASSUME NEW rs \in Said, EndsBad(rs)
    PROVE  /\ Tail(rs) # <<>> => EndsBad(Tail(rs))
           /\ Tail(rs) = <<>> => Head(rs).state \in Bad
  BY TailLast DEF EndsBad, Said

\* A report to come that says nothing is not the last when an error ends them.
LEMMA NothingIsNotBad == Nothing.state \notin Bad
  BY DEF Nothing, Failure, Bad

\* The loop's own steps in setStatus bring the error on screen, or nearer.
LEMMA LoopReports ==
    ASSUME LoopInv, NoReadYet, SetStatus(Loop)
    PROVE  Settled' /\ InTime' /\ (lastError' = "real" => ErrorPending')
<1>. DEFINE rs == todo[Loop]
<1>1. /\ Loop \in Callers /\ rs \in Said
      /\ UNCHANGED <<scope, now, readScope, lastError>>
  BY DEF SetStatus, Skip, CopyStatus, WriteState, WriteTimes, Finish, LoopInv, TypeInv, TypeOK,
         Callers, Said
<1>2. Settled /\ InTime /\ (lastError = "real" => ErrorPending)
  BY DEF LoopInv
<1>3. CASE Skip(Loop)
  <2>1. /\ pc[Loop] = "report" /\ pc' = pc /\ rs # <<>> /\ Head(rs) = Nothing
        /\ todo'[Loop] = Tail(rs)
        /\ UNCHANGED <<status, copy>>
    BY <1>1, <1>3 DEF Skip, LoopInv, TypeInv, TypeOK
  <2>2. ErrorPending => ErrorPending'
    <3>1. SUFFICES ASSUME EndsBad(rs)
                   PROVE  ErrorPending'
      BY <2>1 DEF ErrorPending
    <3>2. EndsBad(Tail(rs)) /\ Tail(rs) # <<>>
      BY <1>1, <2>1, <3>1, EndsBadTail, NothingIsNotBad
    <3>. QED
      BY <2>1, <3>2 DEF ErrorPending
  <2>3. InTime'
    BY <1>1, <1>2, <2>1 DEF InTime
  <2>4. rs # <<Refreshing>>
    BY <2>1 DEF Refreshing, Nothing, Failure
  <2>5. Settled'
    BY <1>1, <1>2, <2>1, <2>4 DEF Settled
  <2>. QED
    BY <1>1, <1>2, <2>2, <2>3, <2>5
<1>4. CASE CopyStatus(Loop)
  <2>1. /\ pc[Loop] = "report" /\ rs # <<>>
        /\ pc'[Loop] = "write" /\ todo' = todo /\ status' = status
        /\ copy'[Loop].state = Head(rs).state
        /\ copy'[Loop].success \in {now, status.success}
    BY <1>1, <1>4, CopyType DEF CopyStatus, LoopInv, TypeInv, TypeOK
  <2>2. status.success \in Nat /\ now \in Nat
    BY StoreConstants DEF LoopInv, TypeInv, TypeOK, Status, Times
  <2>3. ErrorPending => ErrorPending'
    BY <2>1 DEF ErrorPending
  <2>. QED
    BY <1>1, <1>2, <2>1, <2>2, <2>3 DEF Settled, InTime
<1>5. CASE WriteState(Loop)
  <2>1. /\ pc[Loop] = "write" /\ pc'[Loop] = "write2" /\ todo' = todo /\ copy' = copy
        /\ status'.state = copy[Loop].state /\ status'.about = copy[Loop].about
        /\ status'.success = status.success
    BY <1>1, <1>5 DEF WriteState, LoopInv, TypeInv, TypeOK, Status
  <2>2. ErrorPending => ErrorPending'
    BY <2>1 DEF ErrorPending
  <2>. QED
    BY <1>1, <1>2, <2>1, <2>2 DEF Settled, InTime, LoopInv
<1>6. CASE WriteTimes(Loop)
  <2>1. /\ pc[Loop] = "write2" /\ pc'[Loop] = "report" /\ todo'[Loop] = Tail(rs)
        /\ status'.state = status.state /\ status'.about = status.about
        /\ status'.success = copy[Loop].success
    BY <1>1, <1>6 DEF WriteTimes, LoopInv, TypeInv, TypeOK, Status
  <2>2. ErrorPending => ErrorPending'
    BY <1>1, <2>1, EndsBadTail DEF ErrorPending
  <2>. QED
    BY <1>1, <1>2, <2>1, <2>2 DEF Settled, InTime
<1>7. CASE Finish(Loop)
  <2>1. /\ pc[Loop] = "report" /\ pc'[Loop] = "idle" /\ rs = <<>>
        /\ UNCHANGED <<status, todo, copy>>
    BY <1>1, <1>7 DEF Finish, LoopInv, TypeInv, TypeOK
  <2>. QED
    BY <1>1, <1>2, <2>1 DEF Settled, InTime, ErrorPending
<1>. QED
  BY <1>3, <1>4, <1>5, <1>6, <1>7 DEF SetStatus

\* Reporting keeps what holds of the loop, whoever reports.
LEMMA SetStatusLoop ==
    ASSUME LoopInv, NEW c \in Callers, SetStatus(c)
    PROVE  LoopInv'
<1>1. TypeInv'
  BY SetStatusType DEF LoopInv
<1>2. /\ UNCHANGED <<scope, readScope, lastError>>
      /\ pc' = [pc EXCEPT ![c] = pc'[c]]
      /\ copy' = [copy EXCEPT ![c] = copy'[c]]
      /\ pc[c] \in {"report", "write", "write2"}
      /\ pc'[c] \in {"idle", "report", "write", "write2"}
      /\ pc'[c] = "write" => copy'[c].about = readScope[c]
  BY CopyType DEF SetStatus, Skip, CopyStatus, WriteState, WriteTimes, Finish, LoopInv, TypeInv, TypeOK
<1>3. /\ pc'[Loop] \in {"idle", "report", "write", "write2"}
      /\ \A b \in Reads : pc'[b] \in Resolved => readScope'[b] # NoScope
      /\ pc'[Loop] = "write" => copy'[Loop].about = readScope'[Loop]
  BY <1>2 DEF LoopInv, TypeInv, TypeOK, Resolved, Callers
<1>4. NoReadYet' => Settled' /\ InTime' /\ (lastError' = "real" => ErrorPending')
  BY <1>2, OnlyLoopReports, LoopReports DEF NoReadYet
<1>. QED
  BY <1>1, <1>2, <1>3, <1>4 DEF LoopInv

\* Every step keeps what holds of the loop.
LEMMA LoopNext == LoopInv /\ [Next]_vars => LoopInv'
<1>. SUFFICES ASSUME LoopInv, [Next]_vars
              PROVE  LoopInv'
  OBVIOUS
<1>1. TypeInv'
  BY TypeNext DEF LoopInv
<1>2. CASE EventLoop
  BY <1>2, SetScopeLoop, LoopAnswers, AnswerLoop DEF EventLoop
<1>3. CASE Tick
  <2>1. now' >= now /\ now \in Nat /\ now' \in Nat
    BY <1>3, StoreConstants DEF Tick, LoopInv, TypeInv, TypeOK, Times
  <2>2. status.success \in Nat
    BY StoreConstants DEF LoopInv, TypeInv, TypeOK, Status, Times
  <2>3. InTime => InTime'
    BY <1>3, <2>1, <2>2 DEF Tick, InTime
  <2>4. NoReadYet' = NoReadYet /\ Settled' = Settled /\ ErrorPending' = ErrorPending
    BY <1>3 DEF Tick, NoReadYet, Settled, ErrorPending
  <2>. QED
    BY <1>1, <1>3, <2>3, <2>4 DEF Tick, LoopInv
<1>4. CASE UNCHANGED vars
  BY <1>1, <1>4 DEF vars, LoopInv, NoReadYet, Settled, ErrorPending, InTime
<1>. QED
  BY <1>2, <1>3, <1>4, BackgroundLoop, SetStatusLoop DEF Next

\* A switch of the scope takes back what was said of the old one, whatever the loop
\* had read in it (kubestore.go, SetScope and setStatus).
THEOREM LoopStatusCorrect == Spec => []LoopStatusIsOfCurrentScope
<1>1. LoopInv => LoopStatusIsOfCurrentScope
  BY DEF LoopInv, LoopStatusIsOfCurrentScope, StatusIsOfCurrentScope, Settled
<1>. QED
  BY <1>1, LoopInit, LoopNext, PTL DEF Spec

\* Neither a kind that is merely unsupported nor the answer of another list takes the
\* place of a real error (kubestore.go, setStatusForQueryFallback).
THEOREM RealErrorCorrect == Spec => []RealErrorIsShown
<1>1. LoopInv => RealErrorIsShown
  BY DEF LoopInv, RealErrorIsShown, ErrorPending, Bad
<1>. QED
  BY <1>1, LoopInit, LoopNext, PTL DEF Spec

\* No report of the event loop puts an older success in the place of a newer one
\* (kubestore.go, setStatus).
THEOREM SuccessCorrect == Spec => SuccessNeverGoesBack
<1>. DEFINE A == NoReadYet' => status'.success >= status.success
<1>1. ASSUME LoopInv, [Next]_vars
      PROVE  [A]_vars
  <2>1. status.success \in Nat
    BY <1>1, StoreConstants DEF LoopInv, TypeInv, TypeOK, Status, Times
  <2>2. CASE status' = status
    BY <2>1, <2>2
  <2>3. ASSUME NEW c \in Callers, WriteState(c)
        PROVE  status'.success = status.success
    BY <1>1, <2>3 DEF WriteState, LoopInv, TypeInv, TypeOK, Status
  <2>4. ASSUME NEW c \in Callers, WriteTimes(c), NoReadYet'
        PROVE  status'.success >= status.success
    <3>1. NoReadYet /\ SetStatus(c)
      BY <2>4 DEF WriteTimes, NoReadYet, SetStatus
    <3>2. c = Loop
      BY <1>1, <3>1, OnlyLoopReports
    <3>3. status'.success = copy[Loop].success /\ pc[Loop] = "write2"
      BY <1>1, <2>4, <3>2 DEF WriteTimes, LoopInv, TypeInv, TypeOK, Status
    <3>. QED
      BY <1>1, <2>1, <3>1, <3>3 DEF LoopInv, InTime
  <2>5. status' = status \/ \E c \in Callers : WriteState(c) \/ WriteTimes(c)
    <3>1. CASE EventLoop
      BY <3>1, LoopAnswers DEF EventLoop, SetScope, Answer
    <3>2. ASSUME NEW b \in Reads, Background(b)
          PROVE  status' = status
      BY <3>2 DEF Background, StartRead, CheckCancelled, ResolveScope, ReadReturns, Cancel, Abandon
    <3>3. ASSUME NEW c \in Callers, SetStatus(c)
          PROVE  status' = status \/ WriteState(c) \/ WriteTimes(c)
      BY <3>3 DEF SetStatus, Skip, CopyStatus, Finish
    <3>4. CASE Tick \/ UNCHANGED vars
      BY <3>4 DEF Tick, vars
    <3>. QED
      BY <1>1, <3>1, <3>2, <3>3, <3>4 DEF Next
  <2>. QED
    BY <2>1, <2>2, <2>3, <2>4, <2>5
<1>. QED
  BY <1>1, LoopInit, LoopNext, PTL DEF Spec, SuccessNeverGoesBack
=============================================================================
