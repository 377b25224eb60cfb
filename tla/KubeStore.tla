------------------------------ MODULE KubeStore ------------------------------
(***************************************************************************)
(* The store of a cluster session (internal/data/kubestore.go), its scope  *)
(* and its status, and the read model that reports into that status        *)
(* (internal/data/kube_readmodel.go).                                      *)
(*                                                                         *)
(* The event loop changes the scope and makes most reads itself, waiting   *)
(* for each.  Log streams, log fetches and event fetches read in           *)
(* goroutines of their own.  All of them report through setStatus, which   *)
(* copies the status, changes the copy and writes it back, without a lock. *)
(* The status is a struct of several words: its first part (state and      *)
(* message) and its second part (source and times) are written in order,   *)
(* and another goroutine may write in between.                             *)
(*                                                                         *)
(* A message names what was read; here it names the scope it was read in.  *)
(***************************************************************************)
EXTENDS Integers, Sequences

CONSTANTS
    Contexts, Namespaces,
    DefaultNamespace,  \* the namespace "" stands for
    Reads,             \* background reads that can be under way
    Errors,            \* classes of errors a read can end with
    MaxNow,            \* bound: the clock
    Loop,              \* the event loop, as a caller
    NoScope,           \* what is said of no scope
    Blank              \* the empty string

ASSUME StoreConstants ==
    /\ DefaultNamespace \in Namespaces
    /\ Contexts # {}
    /\ Blank \notin Contexts \cup Namespaces
    /\ NoScope \notin Contexts \X Namespaces
    /\ Loop \notin Reads
    /\ Errors \subseteq {"forbidden", "unreachable", "canceled"}
    /\ MaxNow \in Nat \ {0}

VARIABLES
    scope,      \* the active scope
    status,     \* the shared status
    now,
    pc,         \* what each caller is doing
    readScope,  \* the scope its read was made in
    todo,       \* the reports it has still to make
    copy,       \* its copy of the status, while it is in setStatus
    cancelled,  \* background reads whose context is cancelled
    abandoned,  \* background reads whose view a command took off the stack undisposed
    lastError   \* the worst error of the event loop's last read

vars == <<scope, status, now, pc, readScope, todo, copy, cancelled, abandoned, lastError>>

Callers == Reads \cup {Loop}
Scopes  == Contexts \X Namespaces
States  == {"ready", "loading", "partial", "forbidden", "unreachable", "degraded"}
Times   == 0 .. MaxNow

-----------------------------------------------------------------------------
(* What a read reports.                                                    *)

Report == [state : States, source : {"unknown", "live", "cache"}, success : BOOLEAN]

Failure(s)  == [state |-> s, source |-> "unknown", success |-> FALSE]
Ready(src)  == [state |-> "ready", source |-> src, success |-> TRUE]
Warming     == [state |-> "loading", source |-> "live", success |-> TRUE]
Refreshing  == Failure("loading")
Nothing     == Failure("nothing")  \* a list that did not fail says nothing of itself

\* Mutation: the class of the error is taken for a state.
SetStatusForErrorAsIs(e) == Failure(e)

\* The class of an error decides the state; a cancelled context is in none of the
\* classes that have a state of their own.
SetStatusForError(e) ==
    Failure(CASE e = "forbidden"   -> "forbidden"
              [] e = "unreachable" -> "unreachable"
              [] OTHER             -> "degraded")

SetStatusForListError(e) ==
    CASE e = "nil"         -> Nothing
      [] e = "unsupported" -> Failure("partial")
      [] OTHER             -> SetStatusForError(e)

\* Mutation: the loop over the errors does not return at the first real one.
SetStatusForQueryFallbackOn(errs) == [i \in 1 .. Len(errs) |-> SetStatusForListError(errs[i])]

\* One report per list that failed, up to and including the first real error.
SetStatusForQueryFallback(errs) ==
    [i \in {i \in 1 .. Len(errs) : \A j \in 1 .. i - 1 : errs[j] \notin Errors} |->
        SetStatusForListError(errs[i])]

\* UnhealthyItems (three lists) and PodsByRestarts (one).
QueryReports(errs) ==
    IF \A i \in 1 .. Len(errs) : errs[i] = "nil"
    THEN <<Ready("live")>>
    ELSE SetStatusForQueryFallback(errs)

RealError(errs) ==
    IF \E i \in 1 .. Len(errs) : errs[i] \in Errors THEN "real" ELSE "none"

\* The loop's reads are not cancelled; they time out.
LoopErrors == Errors \ {"canceled"}

ListErrors == {"nil", "unsupported"} \cup LoopErrors

\* The copy of a caller that is not in setStatus.
NoCopy == [state |-> "loading", about |-> NoScope, source |-> "unknown", success |-> 0, attempt |-> 0]

-----------------------------------------------------------------------------
Init ==
    /\ scope \in Contexts \X {DefaultNamespace}
    /\ status = [state |-> "loading", about |-> scope, source |-> "unknown",
                 success |-> 0, attempt |-> 0]
    /\ now = 1
    /\ pc        = [c \in Callers |-> "idle"]
    /\ readScope = [c \in Callers |-> NoScope]
    /\ todo      = [c \in Callers |-> <<>>]
    /\ copy      = [c \in Callers |-> NoCopy]
    /\ cancelled = [b \in Reads |-> FALSE]
    /\ abandoned = {}
    /\ lastError = "none"

-----------------------------------------------------------------------------
(* setStatus, in the steps another goroutine can come between.             *)

\* Mutation: the new status is built afresh instead of from a copy.
CopyStatusAfresh(c) ==
    /\ pc[c] = "report"
    /\ todo[c] # <<>>
    /\ Head(todo[c]) # Nothing
    /\ LET r == Head(todo[c])
       IN  copy' = [copy EXCEPT ![c] =
                      [state |-> r.state, about |-> readScope[c], source |-> r.source,
                       success |-> IF r.success THEN now ELSE 0, attempt |-> now]]
    /\ pc' = [pc EXCEPT ![c] = "write"]
    /\ UNCHANGED <<scope, status, now, readScope, todo, cancelled, abandoned, lastError>>

\* status := s.status; now := time.Now()
CopyStatus(c) ==
    /\ pc[c] = "report"
    /\ todo[c] # <<>>
    /\ Head(todo[c]) # Nothing
    /\ LET r == Head(todo[c])
       IN  copy' = [copy EXCEPT ![c] =
                      [state   |-> r.state,
                       about   |-> readScope[c],
                       source  |-> IF r.success /\ r.source # "unknown" THEN r.source ELSE status.source,
                       success |-> IF r.success THEN now ELSE status.success,
                       attempt |-> now]]
    /\ pc' = [pc EXCEPT ![c] = "write"]
    /\ UNCHANGED <<scope, status, now, readScope, todo, cancelled, abandoned, lastError>>

\* s.status = status, state and message ...
WriteState(c) ==
    /\ pc[c] = "write"
    /\ status' = [status EXCEPT !.state = copy[c].state, !.about = copy[c].about]
    /\ pc' = [pc EXCEPT ![c] = "write2"]
    /\ UNCHANGED <<scope, now, readScope, todo, copy, cancelled, abandoned, lastError>>

\* ... then source and times.
WriteTimes(c) ==
    /\ pc[c] = "write2"
    /\ status' = [status EXCEPT !.source = copy[c].source, !.success = copy[c].success,
                                !.attempt = copy[c].attempt]
    /\ todo' = [todo EXCEPT ![c] = Tail(@)]
    /\ pc' = [pc EXCEPT ![c] = "report"]
    /\ copy' = [copy EXCEPT ![c] = NoCopy]
    /\ UNCHANGED <<scope, now, readScope, cancelled, abandoned, lastError>>

\* if err == nil { continue }
Skip(c) ==
    /\ pc[c] = "report"
    /\ todo[c] # <<>>
    /\ Head(todo[c]) = Nothing
    /\ todo' = [todo EXCEPT ![c] = Tail(@)]
    /\ UNCHANGED <<scope, status, now, pc, readScope, copy, cancelled, abandoned, lastError>>

\* The call returns.
Finish(c) ==
    /\ pc[c] = "report"
    /\ todo[c] = <<>>
    /\ pc' = [pc EXCEPT ![c] = "idle"]
    /\ UNCHANGED <<scope, status, now, readScope, todo, copy, cancelled, abandoned, lastError>>

Reports(c, rs) ==
    /\ todo' = [todo EXCEPT ![c] = rs]
    /\ pc' = [pc EXCEPT ![c] = "report"]

-----------------------------------------------------------------------------
(* The event loop.                                                         *)

\* Mutation: a change of context alone does not count as a change of scope.
ScopeChangedIgnoringContext(old, new) == old[2] # new[2]

ScopeChanged(old, new) == old # new

\* Mutation: the views of the old scope are dropped without Dispose.
CancelledWithStackNever == cancelled

\* What is cancelled once every view on the stack is disposed.
CancelledWithStack ==
    [b \in Reads |-> cancelled[b] \/ (pc[b] # "idle" /\ b \notin abandoned)]

\* SetScope: "" keeps the context, and stands for the default namespace.  The
\* views of the old scope are disposed in the same step of the loop.
SetScope(c, n) ==
    LET new == <<IF c = Blank THEN scope[1] ELSE c, IF n = Blank THEN DefaultNamespace ELSE n>>
    IN  /\ pc[Loop] = "idle"
        /\ scope' = new
        /\ readScope' = [readScope EXCEPT ![Loop] = new]
        /\ Reports(Loop, IF ScopeChanged(scope, new) THEN <<Refreshing>> ELSE <<>>)
        /\ cancelled' = CancelledWithStack
        /\ lastError' = "none"
        /\ UNCHANGED <<status, now, copy, abandoned>>

\* The loop's reads resolve the scope, wait for the answer and report it.
Answer(sc, rs, e) ==
    /\ pc[Loop] = "idle"
    /\ readScope' = [readScope EXCEPT ![Loop] = sc]
    /\ Reports(Loop, rs)
    /\ lastError' = e
    /\ UNCHANGED <<scope, status, now, copy, cancelled, abandoned>>

\* KubeReadModel.List: from a cache, directly while informers warm up, or not
\* supported, which is found out twice.
List ==
    \/ Answer(scope, <<Ready("cache")>>, "none")
    \/ Answer(scope, <<Warming>>, "none")
    \/ Answer(scope, <<Failure("partial"), Failure("partial")>>, "none")
    \/ \E e \in LoopErrors : Answer(scope, <<SetStatusForError(e)>>, "real")

\* Detail, YAML, Describe, and the constructor's read of a log; a kind that nobody
\* can read reports nothing.
ReadObject ==
    \/ Answer(scope, <<Ready("live")>>, "none")
    \/ Answer(scope, <<>>, "none")
    \/ \E e \in LoopErrors : Answer(scope, <<SetStatusForError(e)>>, "real")

\* NamespaceNames and ContextNames; contexts come from the kubeconfig, and say
\* nothing of a scope.
NamespaceNames ==
    \/ Answer(scope, <<Ready("live")>>, "none")
    \/ Answer(scope, <<Failure("partial")>>, "none")
    \/ \E e \in LoopErrors : Answer(scope, <<SetStatusForError(e)>>, "real")

ContextNames ==
    \/ Answer(NoScope, <<Ready("live")>>, "none")
    \/ Answer(NoScope, <<Failure("partial")>>, "none")
    \/ Answer(NoScope, <<SetStatusForError("other")>>, "real")

Query(n) == \E errs \in [1 .. n -> ListErrors] : Answer(scope, QueryReports(errs), RealError(errs))

UnhealthyItems == Query(3)
PodsByRestarts == Query(1)

-----------------------------------------------------------------------------
(* Background reads.                                                       *)

\* A view's command starts a goroutine.
StartRead(b) ==
    /\ pc[Loop] = "idle"
    /\ pc[b] = "idle"
    /\ pc' = [pc EXCEPT ![b] = "started"]
    /\ cancelled' = [cancelled EXCEPT ![b] = FALSE]
    /\ abandoned' = abandoned \ {b}
    /\ UNCHANGED <<scope, status, now, readScope, todo, copy, lastError>>

\* The goroutine gives up if it is cancelled already ...
CheckCancelled(b) ==
    /\ pc[b] = "started"
    /\ pc' = [pc EXCEPT ![b] = IF cancelled[b] THEN "idle" ELSE "checked"]
    /\ UNCHANGED <<scope, status, now, readScope, todo, copy, cancelled, abandoned, lastError>>

\* ... and otherwise takes the scope that is active when it gets there.
ResolveScope(b) ==
    /\ pc[b] = "checked"
    /\ readScope' = [readScope EXCEPT ![b] = scope]
    /\ pc' = [pc EXCEPT ![b] = "reading"]
    /\ UNCHANGED <<scope, status, now, todo, copy, cancelled, abandoned, lastError>>

\* The stream ends, or the fetch is answered.
ReadReturns(b) ==
    /\ pc[b] = "reading"
    /\ \/ Reports(b, <<Ready("live")>>)
       \/ \E e \in Errors : (e = "canceled" => cancelled[b]) /\ Reports(b, <<SetStatusForError(e)>>)
    /\ UNCHANGED <<scope, status, now, readScope, copy, cancelled, abandoned, lastError>>

\* A view pauses or reloads its stream, or is popped.
Cancel(b) ==
    /\ pc[Loop] = "idle"
    /\ pc[b] # "idle"
    /\ ~cancelled[b]
    /\ cancelled' = [cancelled EXCEPT ![b] = TRUE]
    /\ UNCHANGED <<scope, status, now, pc, readScope, todo, copy, abandoned, lastError>>

\* ":<kind>" replaces the stack and disposes nothing.
Abandon(b) ==
    /\ pc[Loop] = "idle"
    /\ pc[b] # "idle"
    /\ abandoned' = abandoned \cup {b}
    /\ UNCHANGED <<scope, status, now, pc, readScope, todo, copy, cancelled, lastError>>

Tick ==
    /\ now < MaxNow
    /\ now' = now + 1
    /\ UNCHANGED <<scope, status, pc, readScope, todo, copy, cancelled, abandoned, lastError>>

-----------------------------------------------------------------------------
SetStatus(c) == Skip(c) \/ CopyStatus(c) \/ WriteState(c) \/ WriteTimes(c) \/ Finish(c)

EventLoop ==
    \/ \E c \in Contexts \cup {Blank}, n \in Namespaces \cup {Blank} : SetScope(c, n)
    \/ List
    \/ ReadObject
    \/ NamespaceNames
    \/ ContextNames
    \/ UnhealthyItems
    \/ PodsByRestarts

Background(b) ==
    \/ StartRead(b)
    \/ CheckCancelled(b)
    \/ ResolveScope(b)
    \/ ReadReturns(b)
    \/ Cancel(b)
    \/ Abandon(b)

Next ==
    \/ EventLoop
    \/ \E b \in Reads : Background(b)
    \/ \E c \in Callers : SetStatus(c)
    \/ Tick

Spec == Init /\ [][Next]_vars

-----------------------------------------------------------------------------
Status == [state : States, about : Scopes \cup {NoScope}, source : {"unknown", "live", "cache"},
           success : Times, attempt : Times]

TypeOK ==
    /\ scope \in Scopes
    /\ status \in Status
    /\ now \in Times
    /\ pc \in [Callers -> {"idle", "started", "checked", "reading", "report", "write", "write2"}]
    /\ readScope \in [Callers -> Scopes \cup {NoScope}]
    /\ todo \in [Callers -> Seq(Report \cup {Nothing})]
    /\ copy \in [Callers -> Status]
    /\ cancelled \in [Reads -> BOOLEAN]
    /\ abandoned \subseteq Reads
    /\ lastError \in {"none", "real"}

\* No background read has resolved a scope yet: only the event loop has reported.
NoReadYet == \A b \in Reads : readScope[b] = NoScope

\* Whenever the loop renders, a status other than "loading" speaks of the scope on
\* screen, or of no scope at all.
StatusIsOfCurrentScope ==
    pc[Loop] = "idle" /\ status.state # "loading" => status.about \in {scope, NoScope}

\* The same of what the event loop alone has reported: a switch of the scope takes
\* back what was said of the old one, whatever was read in it.
LoopStatusIsOfCurrentScope == NoReadYet => StatusIsOfCurrentScope

\* An error the loop's last read met is on screen: neither a list that is merely
\* unsupported nor an answer to another read of the loop takes its place.
RealErrorIsShown ==
    NoReadYet /\ pc[Loop] = "idle" /\ lastError = "real"
      => status.state \in {"forbidden", "unreachable", "degraded"}

\* A background read whose view is still on the stack, and which is not cancelled,
\* was made in the scope on screen, however late its goroutine resolved it.
AttachedReadIsOfCurrentScope ==
    \A b \in Reads :
        pc[b] \in {"reading", "report", "write", "write2"} /\ ~cancelled[b] /\ b \notin abandoned
          => readScope[b] = scope

\* LastSuccessAt never goes back in time: no report of the event loop undoes another.
SuccessNeverGoesBack == [][NoReadYet' => status'.success >= status.success]_vars
=============================================================================
