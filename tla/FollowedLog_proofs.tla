-------------------------- MODULE FollowedLog_proofs --------------------------
(***************************************************************************)
(* What a followed log keeps to, whatever is asked for: its lines are in   *)
(* order, and without holes while they stream.                             *)
(***************************************************************************)
EXTENDS FollowedLog, TLAPS, SequenceTheorems

Lines == [req : Nat, pos : Nat]

\* What the view shows is a run of lines of requests made so far, in order and without
\* holes in the part that the latest request streams.
Run == TypeOK /\ LinesInOrder /\ NoGapWhileRunning

\* The lines are numbered from 1, and each has a number and a request.
LEMMA ShownFacts ==
    ASSUME TypeOK
    PROVE  /\ written \in Nat /\ request \in Nat /\ Len(shown) \in Nat
           /\ DOMAIN shown = 1 .. Len(shown)
           /\ shown # <<>> => Len(shown) \in 1 .. Len(shown)
           /\ \A i \in 1 .. Len(shown) : shown[i].req \in Nat /\ shown[i].pos \in Nat
  <1>1. shown \in Seq(Lines)
    BY DEF TypeOK, Lines
  <1>2. Len(shown) \in Nat /\ DOMAIN shown = 1 .. Len(shown)
    BY <1>1, LenProperties
  <1>3. shown # <<>> => Len(shown) \in Nat \ {0}
    BY <1>1, EmptySeq
  <1>4. \A i \in 1 .. Len(shown) : shown[i] \in Lines
    BY <1>1, ElementOfSeq
  <1>5. QED BY <1>2, <1>3, <1>4 DEF TypeOK, Lines

\* The position of the last line shown is a number, and bounds those of all lines.
LEMMA LastShownBounds ==
    ASSUME TypeOK, LinesInOrder
    PROVE  /\ LastShown \in Nat /\ LastShown <= written
           /\ \A i \in 1 .. Len(shown) : shown[i].pos <= LastShown
  <1>1. CASE shown = <<>>
    BY <1>1, ShownFacts DEF LastShown
  <1>2. CASE shown # <<>>
    <2>1. Len(shown) \in 1 .. Len(shown) /\ LastShown = shown[Len(shown)].pos
      BY <1>2, ShownFacts DEF LastShown
    <2>2. \A i \in 1 .. Len(shown) : i < Len(shown) => shown[i].pos < LastShown
      BY <2>1 DEF LinesInOrder
    <2>3. \A i \in 1 .. Len(shown) : shown[i].pos \in Nat /\ shown[i].pos <= written
      BY ShownFacts DEF TypeOK
    <2>4. Len(shown) \in Nat
      BY ShownFacts
    <2>5. QED BY <2>1, <2>2, <2>3, <2>4
  <1>3. QED BY <1>1, <1>2

\* Lines brought at once are in order and without holes.
LEMMA WholeIsRun ==
    ASSUME NEW r \in Nat, NEW n \in Nat
    PROVE  /\ Whole(r, n) \in Seq(Lines)
           /\ Len(Whole(r, n)) = n
           /\ \A i \in 1 .. n : Whole(r, n)[i].pos = i /\ Whole(r, n)[i].req = r
  BY DEF Whole, Lines

LEMMA InitRun == Init => Run
  <1> SUFFICES ASSUME Init PROVE Run
    OBVIOUS
  <1>1. shown \in Seq(Lines) /\ Len(shown) = 0
    BY EmptySeq DEF Init
  <1>2. TypeOK
    <2>1. open \in BOOLEAN /\ following \in BOOLEAN /\ cancelled \in BOOLEAN
      BY Zenon DEF Init
    <2>2. written \in Nat /\ request \in Nat
      BY DEF Init
    <2>3. QED BY <1>1, <2>1, <2>2 DEF TypeOK, Lines
  <1>3. LinesInOrder /\ NoGapWhileRunning
    BY <1>1 DEF LinesInOrder, NoGapWhileRunning
  <1>4. QED BY <1>2, <1>3 DEF Run

\* A line that goes to the end of the run is behind all others and next to its own.
LEMMA ShowLineKeepsRun == Run /\ ShowLine => Run'
  <1> SUFFICES ASSUME Run, ShowLine PROVE Run'
    OBVIOUS
  <1>1. PICK p \in LastShown + 1 .. written :
           /\ shown # <<>> /\ shown[Len(shown)].req = request /\ ~cancelled => p = LastShown + 1
           /\ shown' = Append(shown, [req |-> request, pos |-> p])
    BY DEF ShowLine
  <1>2. /\ LastShown \in Nat /\ LastShown <= written
        /\ \A i \in 1 .. Len(shown) : shown[i].pos <= LastShown
    BY LastShownBounds DEF Run
  <1>3. /\ written \in Nat /\ request \in Nat /\ Len(shown) \in Nat
        /\ \A i \in 1 .. Len(shown) : shown[i].req \in Nat /\ shown[i].pos \in Nat
    BY ShownFacts DEF Run
  <1>4. p \in Nat /\ p > LastShown /\ p <= written
    BY <1>1, <1>2, <1>3
  <1>5. UNCHANGED <<written, open, request, following, cancelled>>
    BY DEF ShowLine
  <1>6. [req |-> request, pos |-> p] \in Lines /\ shown \in Seq(Lines)
    BY <1>3, <1>4 DEF Lines, Run, TypeOK
  <1>7. /\ shown' \in Seq(Lines) /\ Len(shown') = Len(shown) + 1
        /\ \A i \in 1 .. Len(shown) : shown'[i] = shown[i]
        /\ shown'[Len(shown) + 1] = [req |-> request, pos |-> p]
    BY <1>1, <1>3, <1>6
  <1>8. TypeOK'
    <2>1. ASSUME NEW i \in 1 .. Len(shown')
          PROVE  shown'[i].req <= request /\ shown'[i].pos <= written
      <3>1. i \in 1 .. Len(shown) \/ i = Len(shown) + 1
        BY <1>3, <1>7
      <3>2. CASE i \in 1 .. Len(shown)
        BY <1>7, <3>2 DEF Run, TypeOK
      <3>3. CASE i = Len(shown) + 1
        BY <1>3, <1>4, <1>7, <3>3
      <3>4. QED BY <3>1, <3>2, <3>3
    <2>2. QED BY <1>5, <1>7, <2>1 DEF Run, TypeOK, Lines
  <1>9. LinesInOrder'
    <2> SUFFICES ASSUME NEW i \in 1 .. Len(shown'), NEW j \in 1 .. Len(shown'), i < j
                 PROVE  shown'[i].pos < shown'[j].pos
      BY DEF LinesInOrder
    <2>1. i \in 1 .. Len(shown) /\ (j \in 1 .. Len(shown) \/ j = Len(shown) + 1)
      BY <1>3, <1>7
    <2>2. CASE j \in 1 .. Len(shown)
      BY <1>7, <2>1, <2>2 DEF Run, LinesInOrder
    <2>3. CASE j = Len(shown) + 1
      BY <1>2, <1>3, <1>4, <1>7, <2>1, <2>3
    <2>4. QED BY <2>1, <2>2, <2>3
  <1>10. NoGapWhileRunning'
    <2> SUFFICES ASSUME NEW i \in 1 .. Len(shown') - 1, shown'[i].req = request,
                        shown'[i + 1].req = request, ~cancelled
                 PROVE  shown'[i + 1].pos = shown'[i].pos + 1
      BY <1>5 DEF NoGapWhileRunning
    <2>1. i \in 1 .. Len(shown) /\ (i \in 1 .. Len(shown) - 1 \/ i = Len(shown))
      BY <1>3, <1>7
    <2>2. CASE i \in 1 .. Len(shown) - 1
      <3>1. i \in 1 .. Len(shown) /\ i + 1 \in 1 .. Len(shown)
        BY <1>3, <2>2
      <3>2. QED BY <1>7, <2>2, <3>1 DEF Run, NoGapWhileRunning
    <2>3. CASE i = Len(shown)
      <3>1. shown # <<>> /\ shown[Len(shown)].req = request
        BY <1>7, <2>1, <2>3, EmptySeq
      <3>2. p = LastShown + 1 /\ LastShown = shown[i].pos
        BY <1>1, <2>3, <3>1 DEF LastShown
      <3>3. QED BY <1>7, <2>1, <2>3, <3>2
    <2>4. QED BY <2>1, <2>2, <2>3
  <1>11. QED BY <1>8, <1>9, <1>10 DEF Run

\* A fetched log is a run by itself.
LEMMA ShowFetchedKeepsRun == Run /\ ShowFetched => Run'
  <1> SUFFICES ASSUME Run, ShowFetched PROVE Run'
    OBVIOUS
  <1>1. PICK n \in 1 .. written : shown' = Whole(request, n)
    BY DEF ShowFetched
  <1>2. /\ request \in Nat /\ written \in Nat /\ n \in Nat /\ n <= written
        /\ UNCHANGED <<written, open, request, following, cancelled>>
    BY DEF Run, TypeOK, ShowFetched
  <1>3. /\ shown' \in Seq(Lines) /\ Len(shown') = n
        /\ \A i \in 1 .. n : shown'[i].pos = i /\ shown'[i].req = request
    BY <1>1, <1>2, WholeIsRun
  <1>4. TypeOK'
    BY <1>2, <1>3 DEF Run, TypeOK, Lines
  <1>5. LinesInOrder' /\ NoGapWhileRunning'
    BY <1>2, <1>3 DEF LinesInOrder, NoGapWhileRunning
  <1>6. QED BY <1>4, <1>5 DEF Run

\* A view that is opened shows nothing or a whole log, of no request.
LEMMA OpenKeepsRun == Run /\ Open => Run'
  <1> SUFFICES ASSUME Run, Open PROVE Run'
    OBVIOUS
  <1>1. /\ request \in Nat /\ written \in Nat /\ request' \in Nat /\ written' = written
        /\ open' \in BOOLEAN /\ following' \in BOOLEAN /\ cancelled' \in BOOLEAN
    <2>1. request' = request \/ request' = request + 1
      BY DEF Open
    <2>2. open' = TRUE /\ following' \in {TRUE, following} /\ cancelled' = FALSE
      BY DEF Open
    <2>3. /\ request \in Nat /\ written \in Nat /\ open \in BOOLEAN
          /\ following \in BOOLEAN /\ written' = written
      BY DEF Open, Run, TypeOK
    <2>4. request' \in Nat
      BY <2>1, <2>3
    <2>5. open' \in BOOLEAN /\ following' \in BOOLEAN /\ cancelled' \in BOOLEAN
      BY <2>2, <2>3, Zenon
    <2>6. QED BY <2>3, <2>4, <2>5
  <1>2. CASE shown' = <<>>
    <2>1. shown' \in Seq(Lines) /\ Len(shown') = 0
      BY <1>2, EmptySeq
    <2>2. QED BY <1>1, <2>1 DEF Run, TypeOK, Lines, LinesInOrder, NoGapWhileRunning
  <1>3. CASE shown' = Whole(0, written)
    <2>1. /\ shown' \in Seq(Lines) /\ Len(shown') = written
          /\ \A i \in 1 .. written : shown'[i].pos = i /\ shown'[i].req = 0
      BY <1>1, <1>3, WholeIsRun
    <2>2. TypeOK'
      BY <1>1, <2>1 DEF TypeOK, Lines
    <2>3. LinesInOrder' /\ NoGapWhileRunning'
      BY <1>1, <2>1 DEF LinesInOrder, NoGapWhileRunning
    <2>4. QED BY <2>2, <2>3 DEF Run
  <1>4. QED BY <1>2, <1>3 DEF Open

\* Steps that show nothing new: lines stay within what is written and asked for, and a
\* new request has none of them.
LEMMA OthersKeepRun == Run /\ (PodWrites \/ Ask \/ Cancel \/ UNCHANGED vars) => Run'
  <1> SUFFICES ASSUME Run PROVE PodWrites \/ Ask \/ Cancel \/ UNCHANGED vars => Run'
    OBVIOUS
  <1>1. /\ written \in Nat /\ request \in Nat /\ Len(shown) \in Nat
        /\ \A i \in 1 .. Len(shown) : shown[i].req \in Nat /\ shown[i].pos \in Nat
    BY ShownFacts DEF Run
  <1>2. ASSUME PodWrites PROVE Run'
    BY <1>1, <1>2 DEF PodWrites, Run, TypeOK, LinesInOrder, NoGapWhileRunning
  <1>3. ASSUME Ask PROVE Run'
    <2>1. \A i \in 1 .. Len(shown) : shown[i].req <= request
      BY DEF Run, TypeOK
    <2>2. request' = request + 1 /\ UNCHANGED <<written, open, shown>>
      BY <1>3 DEF Ask
    <2>3. NoGapWhileRunning'
      BY <1>1, <2>1, <2>2 DEF NoGapWhileRunning
    <2>4. following' \in BOOLEAN /\ cancelled' \in BOOLEAN
      BY <1>3 DEF Ask
    <2>5. QED BY <1>1, <2>1, <2>2, <2>3, <2>4 DEF Run, TypeOK, LinesInOrder
  <1>4. ASSUME Cancel PROVE Run'
    BY <1>4 DEF Cancel, Run, TypeOK, LinesInOrder, NoGapWhileRunning
  <1>5. ASSUME UNCHANGED vars PROVE Run'
    BY <1>5 DEF vars, Run, TypeOK, LinesInOrder, NoGapWhileRunning
  <1>6. QED BY <1>2, <1>3, <1>4, <1>5

\* The lines on screen are in the order the pod wrote them, none twice, and while the
\* latest request streams none is missing among its lines (logview.go:166-173).
THEOREM FollowedLogIsRun == Spec => [](TypeOK /\ LinesInOrder /\ NoGapWhileRunning)
  <1>1. Run /\ [Next]_vars => Run'
    BY ShowLineKeepsRun, ShowFetchedKeepsRun, OpenKeepsRun, OthersKeepRun DEF Next
  <1>2. QED BY InitRun, <1>1, PTL DEF Spec, Run
=============================================================================
