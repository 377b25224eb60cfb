---------------------------- MODULE Panels_proofs ----------------------------
(***************************************************************************)
(* Proofs about Panels and ColumnWidths, for any resources, columns and    *)
(* sizes of the terminal: what the columns of a table come to, and what is *)
(* on screen while keys, messages and changes of size come in any order.   *)
(***************************************************************************)
EXTENDS Panels, FiniteSetTheorems, SequenceTheorems, NaturalsInduction, WellFoundedInduction,
        TLAPS

-----------------------------------------------------------------------------
(* Folds: of the definition by recursion that they stand on, that there is *)
(* such a function, and what holds of each of its values.                  *)

\* Induction over the numbers, for a set.
LEMMA AllNumbers ==
    ASSUME NEW P, 0 \in P, \A n \in Nat : n \in P => n + 1 \in P
    PROVE  Nat \subseteq P
<1>. SUFFICES ASSUME ~(Nat \subseteq P)
              PROVE  FALSE
  OBVIOUS
<1>. DEFINE left == {n \in Nat : n \notin P}
<1>1. PICK n \in left : \A e \in left : ~ (<<e, n>> \in OpToRel(<, Nat))
  BY NatLessThanWellFounded, WFMin
<1>2. \A e \in left : ~ (e < n)
  BY <1>1 DEF OpToRel
<1>3. n \in Nat /\ n \notin P /\ n # 0
  BY <1>1
<1>4. n - 1 \in P
  BY <1>2, <1>3
<1>. QED
  BY <1>3, <1>4

\* A function that picks an element of each subset but the empty one.
Picks(some, D) == \A s \in SUBSET D : s # {} => some[s] \in s

\* A function that gives the base for nothing, and for a set what F makes of the element
\* that is picked and of the rest.
Folds(it, D, some, V, base, F) ==
    /\ it \in [SUBSET D -> V]
    /\ \A s \in SUBSET D :
          it[s] = IF s = {} THEN base ELSE F[some[s]][it[s \ {some[s]}]]

\* Induction over the subsets of a finite set, of which one element at a time is taken.
LEMMA AllSubsets ==
    ASSUME NEW D, IsFiniteSet(D), NEW some, Picks(some, D),
           NEW P, {} \in P, \A s \in SUBSET D : s # {} /\ s \ {some[s]} \in P => s \in P
    PROVE  SUBSET D \subseteq P
<1>. DEFINE Q == {n \in Nat : \A s \in SUBSET D : Cardinality(s) = n => s \in P}
<1>1. \A s \in SUBSET D : IsFiniteSet(s) /\ Cardinality(s) \in Nat
  BY FS_Subset, FS_CardinalityType
<1>2. 0 \in Q
  BY <1>1, FS_EmptySet
<1>3. ASSUME NEW n \in Nat, n \in Q
      PROVE  n + 1 \in Q
  <2>. SUFFICES ASSUME NEW s \in SUBSET D, Cardinality(s) = n + 1
                PROVE  s \in P
    OBVIOUS
  <2>1. s # {}
    <3>1. Cardinality({}) = 0
      BY FS_EmptySet
    <3>2. Cardinality(s) # 0
      OBVIOUS
    <3>. QED
      BY <3>1, <3>2
  <2>2. some[s] \in s /\ IsFiniteSet(s)
    BY <1>1, <2>1 DEF Picks
  <2>3. Cardinality(s \ {some[s]}) = Cardinality(s) - 1
    BY <2>2, FS_RemoveElement
  <2>. QED
    BY <1>3, <2>1, <2>3
<1>. HIDE DEF Q
<1>4. Nat \subseteq Q
  BY <1>2, <1>3, AllNumbers
<1>. QED
  BY <1>1, <1>4 DEF Q

\* What a fold is defined by is a definition: there is a function that gives the base
\* for nothing and for a set what F makes of one element and the rest.
LEMMA FoldExists ==
    ASSUME NEW D, IsFiniteSet(D), NEW some, Picks(some, D),
           NEW V, NEW base \in V, NEW F \in [D -> [V -> V]]
    PROVE  \E it : Folds(it, D, some, V, base, F)
<1>. DEFINE Fold(it, s) == IF s = {} THEN base ELSE F[some[s]][it[s \ {some[s]}]]
            Q == {n \in Nat : \E it \in [SUBSET D -> V] :
                    \A s \in SUBSET D : Cardinality(s) <= n => it[s] = Fold(it, s)}
<1>1. \A s \in SUBSET D : IsFiniteSet(s) /\ Cardinality(s) \in Nat
  BY FS_Subset, FS_CardinalityType
<1>2. 0 \in Q
  <2>. DEFINE it == [s \in SUBSET D |-> base]
  <2>1. \A s \in SUBSET D : Cardinality(s) <= 0 => s = {}
    BY <1>1, FS_EmptySet
  <2>2. /\ it \in [SUBSET D -> V]
        /\ \A s \in SUBSET D : Cardinality(s) <= 0 => it[s] = Fold(it, s)
    BY <2>1
  <2>. HIDE DEF it, Fold
  <2>. QED
    BY <2>2
<1>3. ASSUME NEW n \in Nat, n \in Q
      PROVE  n + 1 \in Q
  <2>1. PICK it \in [SUBSET D -> V] :
           \A s \in SUBSET D : Cardinality(s) <= n => it[s] = Fold(it, s)
    BY <1>3
  <2>. DEFINE more == [s \in SUBSET D |-> IF Cardinality(s) <= n THEN it[s] ELSE Fold(it, s)]
  <2>2. \A s \in SUBSET D : Fold(it, s) \in V
    BY DEF Picks
  <2>3. more \in [SUBSET D -> V]
    BY <2>2
  <2>4. ASSUME NEW s \in SUBSET D, Cardinality(s) <= n + 1
        PROVE  more[s] = Fold(more, s)
    <3>1. more[s] = Fold(it, s)
      BY <2>1
    <3>2. CASE s = {}
      BY <3>1, <3>2
    <3>3. CASE s # {}
      <4>1. Cardinality(s \ {some[s]}) <= n
        BY <1>1, <2>4, <3>3, FS_RemoveElement DEF Picks
      <4>2. more[s \ {some[s]}] = it[s \ {some[s]}]
        BY <4>1
      <4>. QED
        BY <3>1, <3>3, <4>2
    <3>. QED
      BY <3>2, <3>3
  <2>. HIDE DEF more, Fold
  <2>. QED
    BY <2>3, <2>4
<1>. HIDE DEF Q
<1>4. Nat \subseteq Q
  BY <1>2, <1>3, AllNumbers
<1>5. Cardinality(D) \in Q
  BY <1>1, <1>4
<1>6. PICK it \in [SUBSET D -> V] :
         \A s \in SUBSET D : Cardinality(s) <= Cardinality(D) => it[s] = Fold(it, s)
  BY <1>5 DEF Q
<1>7. \A s \in SUBSET D : Cardinality(s) <= Cardinality(D)
  BY FS_Subset
<1>. QED
  BY <1>6, <1>7 DEF Folds

-----------------------------------------------------------------------------
(* How wide columns are together.                                          *)

\* The element of a set that a sum takes first.
Some(s) == CHOOSE x \in s : TRUE

\* The widths of a table with n columns, and of those that are one width at least.
Widths(n) == [1 .. n -> Nat]

\* The sum over some of the columns.
IsSum(it, w) ==
    /\ it \in [SUBSET DOMAIN w -> Int]
    /\ \A s \in SUBSET DOMAIN w :
          it[s] = IF s = {} THEN 0 ELSE w[Some(s)] + it[s \ {Some(s)}]

\* What Total computes is the sum over all columns.
LEMMA TotalIsSum ==
    ASSUME NEW w, IsFiniteSet(DOMAIN w), \A i \in DOMAIN w : w[i] \in Int
    PROVE  \E it : IsSum(it, w) /\ Total(w) = it[DOMAIN w]
<1>. DEFINE D    == DOMAIN w
            some == [s \in SUBSET D |-> Some(s)]
            F    == [x \in D |-> [rest \in Int |-> w[x] + rest]]
            Sum(it) == [s \in SUBSET D |-> IF s = {} THEN 0 ELSE
                           LET x == Some(s) IN w[x] + it[s \ {x}]]
            sum == CHOOSE it : it = Sum(it)
<1>1. \A s \in SUBSET D : s # {} => Some(s) \in s
  BY DEF Some
<1>2. F \in [D -> [Int -> Int]]
  OBVIOUS
<1>3. Picks(some, D)
  BY <1>1 DEF Picks
<1>4. PICK it : /\ it \in [SUBSET D -> Int]
                /\ \A s \in SUBSET D :
                      it[s] = IF s = {} THEN 0 ELSE w[Some(s)] + it[s \ {Some(s)}]
  <2>1. IsFiniteSet(D) /\ 0 \in Int
    OBVIOUS
  <2>2. PICK it : Folds(it, D, some, Int, 0, F)
    <3>. HIDE DEF some, D, F
    <3>. QED
      BY <1>2, <1>3, <2>1, FoldExists
  <2>3. it \in [SUBSET D -> Int]
    BY <2>2 DEF Folds
  <2>4. ASSUME NEW s \in SUBSET D
        PROVE  it[s] = IF s = {} THEN 0 ELSE w[Some(s)] + it[s \ {Some(s)}]
    <3>1. it[s] = IF s = {} THEN 0 ELSE F[some[s]][it[s \ {some[s]}]]
      BY <2>2 DEF Folds
    <3>2. s # {} => Some(s) \in D /\ it[s \ {Some(s)}] \in Int
      BY <1>1, <2>3
    <3>. QED
      BY <3>1, <3>2
  <2>. HIDE DEF D
  <2>. QED
    BY <2>3, <2>4
<1>5. it = Sum(it)
  BY <1>4
<1>6. sum = Sum(sum)
  BY <1>5
<1>7. Total(w) = sum[D]
  BY DEF Total, SumFunction, SumFunctionOnSet, FoldFunctionOnSet, MapThenFoldSet, Some
<1>8. \A s \in SUBSET D : sum[s] = IF s = {} THEN 0 ELSE w[Some(s)] + sum[s \ {Some(s)}]
  BY <1>6
<1>9. sum \in [SUBSET D -> Int]
  <2>. HIDE DEF sum
  <2>. DEFINE P == {s \in SUBSET D : sum[s] \in Int}
  <2>1. {} \in P
    <3>1. {} \in SUBSET D
      OBVIOUS
    <3>2. sum[{}] = 0
      BY <1>8, <3>1
    <3>. QED
      BY <3>1, <3>2
  <2>2. \A s \in SUBSET D : s # {} /\ s \ {some[s]} \in P => s \in P
    BY <1>1, <1>8
  <2>. HIDE DEF P, some
  <2>3. SUBSET D \subseteq P
    BY <1>3, <2>1, <2>2, AllSubsets
  <2>. QED
    BY <1>6, <2>3 DEF P
<1>. QED
  BY <1>7, <1>8, <1>9 DEF IsSum

\* No columns are nought wide, and others as wide as one of them and the rest.
LEMMA SumSteps ==
    ASSUME NEW w, NEW it, IsSum(it, w)
    PROVE  /\ it[{}] = 0
           /\ \A s \in SUBSET DOMAIN w :
                 s # {} => /\ it[s] = w[Some(s)] + it[s \ {Some(s)}]
                           /\ it[s \ {Some(s)}] \in Int
<1>1. {} \in SUBSET DOMAIN w
  OBVIOUS
<1>. QED
  BY <1>1 DEF IsSum

\* The columns can be gone through one by one.
LEMMA SomeIsPicked ==
    ASSUME NEW D
    PROVE  /\ Picks([s \in SUBSET D |-> Some(s)], D)
           /\ \A s \in SUBSET D : s # {} => Some(s) \in s
  BY DEF Picks, Some

\* Induction over columns, in the order of a sum.
LEMMA AllColumns ==
    ASSUME NEW D, IsFiniteSet(D), NEW P, {} \in P,
           \A s \in SUBSET D : s # {} /\ s \ {Some(s)} \in P => s \in P
    PROVE  D \in P
<1>. DEFINE some == [s \in SUBSET D |-> Some(s)]
<1>1. Picks(some, D)
  BY SomeIsPicked
<1>2. \A s \in SUBSET D : s # {} /\ s \ {some[s]} \in P => s \in P
  OBVIOUS
<1>. HIDE DEF some
<1>3. SUBSET D \subseteq P
  BY <1>1, <1>2, AllSubsets
<1>. QED
  BY <1>3

\* Columns that are no wider than others are no wider together.
LEMMA TotalMonotone ==
    ASSUME NEW w, NEW v, DOMAIN w = DOMAIN v, IsFiniteSet(DOMAIN w),
           \A i \in DOMAIN w : w[i] \in Int /\ v[i] \in Int /\ w[i] <= v[i]
    PROVE  Total(w) \in Int /\ Total(v) \in Int /\ Total(w) <= Total(v)
<1>. DEFINE D == DOMAIN w
<1>1. PICK it : IsSum(it, w) /\ Total(w) = it[D]
  BY TotalIsSum
<1>2. PICK jt : IsSum(jt, v) /\ Total(v) = jt[D]
  BY TotalIsSum
<1>. DEFINE P == {s \in SUBSET D : it[s] <= jt[s]}
<1>3. {} \in P
  BY <1>1, <1>2, SumSteps
<1>4. ASSUME NEW s \in SUBSET D, s # {}, s \ {Some(s)} \in P
      PROVE  s \in P
  <2>1. Some(s) \in D
    BY <1>4, SomeIsPicked
  <2>2. it[s] = w[Some(s)] + it[s \ {Some(s)}] /\ it[s \ {Some(s)}] \in Int
    BY <1>1, <1>4 DEF IsSum
  <2>3. jt[s] = v[Some(s)] + jt[s \ {Some(s)}] /\ jt[s \ {Some(s)}] \in Int
    BY <1>2, <1>4 DEF IsSum
  <2>. QED
    BY <1>4, <2>1, <2>2, <2>3
<1>. HIDE DEF P
<1>5. D \in P
  BY <1>3, <1>4, AllColumns
<1>. QED
  BY <1>1, <1>2, <1>5 DEF P, IsSum

\* One column less wide by one is a table less wide by one.
LEMMA TotalOneLess ==
    ASSUME NEW w, IsFiniteSet(DOMAIN w), \A i \in DOMAIN w : w[i] \in Int, NEW k \in DOMAIN w
    PROVE  Total([w EXCEPT ![k] = @ - 1]) = Total(w) - 1
<1>. DEFINE D == DOMAIN w
            v == [w EXCEPT ![k] = @ - 1]
<1>1. /\ DOMAIN v = D
      /\ \A i \in D : v[i] \in Int /\ v[i] = IF i = k THEN w[i] - 1 ELSE w[i]
  OBVIOUS
<1>. HIDE DEF v
<1>2. PICK it : IsSum(it, w) /\ Total(w) = it[D]
  BY TotalIsSum
<1>3. PICK jt : IsSum(jt, v) /\ Total(v) = jt[D]
  BY <1>1, TotalIsSum
<1>. DEFINE P == {s \in SUBSET D : jt[s] = it[s] - (IF k \in s THEN 1 ELSE 0)}
<1>4. {} \in P
  BY <1>2, <1>3, SumSteps
<1>5. ASSUME NEW s \in SUBSET D, s # {}, s \ {Some(s)} \in P
      PROVE  s \in P
  <2>1. Some(s) \in s
    BY <1>5, SomeIsPicked
  <2>2. it[s] = w[Some(s)] + it[s \ {Some(s)}] /\ it[s \ {Some(s)}] \in Int
    BY <1>2, <1>5 DEF IsSum
  <2>3. jt[s] = v[Some(s)] + jt[s \ {Some(s)}] /\ jt[s \ {Some(s)}] \in Int
    BY <1>1, <1>3, <1>5 DEF IsSum
  <2>4. jt[s \ {Some(s)}] = it[s \ {Some(s)}] - (IF k \in s \ {Some(s)} THEN 1 ELSE 0)
    BY <1>5
  <2>5. w[Some(s)] \in Int /\ v[Some(s)] \in Int
    BY <1>1, <2>1
  <2>6. CASE Some(s) = k
    BY <1>1, <2>1, <2>2, <2>3, <2>4, <2>5, <2>6
  <2>7. CASE Some(s) # k
    BY <1>1, <2>1, <2>2, <2>3, <2>4, <2>5, <2>7
  <2>. QED
    BY <2>6, <2>7
<1>. HIDE DEF P
<1>6. D \in P
  BY <1>4, <1>5, AllColumns
<1>7. jt[D] = it[D] - 1
  BY <1>6 DEF P
<1>. QED
  BY <1>2, <1>3, <1>7 DEF v

\* Columns of one character each are as wide as they are many.
LEMMA TotalOfOnes ==
    ASSUME NEW w, IsFiniteSet(DOMAIN w), \A i \in DOMAIN w : w[i] = 1
    PROVE  Total(w) = Cardinality(DOMAIN w)
<1>. DEFINE D == DOMAIN w
<1>1. PICK it : IsSum(it, w) /\ Total(w) = it[D]
  BY TotalIsSum
<1>. DEFINE P == {s \in SUBSET D : it[s] = Cardinality(s)}
<1>2. {} \in P
  BY <1>1, FS_EmptySet, SumSteps
<1>3. ASSUME NEW s \in SUBSET D, s # {}, s \ {Some(s)} \in P
      PROVE  s \in P
  <2>1. Some(s) \in s /\ IsFiniteSet(s)
    BY <1>3, SomeIsPicked, FS_Subset
  <2>2. it[s] = 1 + it[s \ {Some(s)}]
    BY <1>1, <1>3, <2>1 DEF IsSum
  <2>3. Cardinality(s \ {Some(s)}) = Cardinality(s) - 1 /\ Cardinality(s) \in Nat
    BY <2>1, FS_RemoveElement, FS_CardinalityType
  <2>. QED
    BY <1>3, <2>2, <2>3
<1>. HIDE DEF P
<1>4. D \in P
  BY <1>2, <1>3, AllColumns
<1>. QED
  BY <1>1, <1>4 DEF P

\* The width of a table of as many columns as there are is a number.
LEMMA TotalOfWidths ==
    ASSUME NEW n \in Nat, NEW w \in Widths(n)
    PROVE  Total(w) \in Nat
<1>1. IsFiniteSet(1 .. n) /\ DOMAIN w = 1 .. n
  BY FS_Interval DEF Widths
<1>2. PICK it : IsSum(it, w) /\ Total(w) = it[1 .. n]
  BY <1>1, TotalIsSum DEF Widths
<1>. DEFINE P == {s \in SUBSET (1 .. n) : it[s] \in Nat}
<1>3. {} \in P
  BY <1>2, SumSteps
<1>4. ASSUME NEW s \in SUBSET (1 .. n), s # {}, s \ {Some(s)} \in P
      PROVE  s \in P
  <2>1. w[Some(s)] \in Nat
    BY <1>4, SomeIsPicked DEF Widths
  <2>2. it[s] = w[Some(s)] + it[s \ {Some(s)}]
    <3>1. s \in SUBSET DOMAIN w
      BY <1>1
    <3>2. IsSum(it, w)
      BY <1>2
    <3>3. it[s] = w[Some(s)] + it[s \ {Some(s)}] /\ it[s \ {Some(s)}] \in Int
      BY <1>4, <3>1, <3>2, SumSteps
    <3>. QED
      BY <3>3
  <2>. QED
    BY <1>4, <2>1, <2>2
<1>. HIDE DEF P
<1>5. 1 .. n \in P
  BY <1>1, <1>3, <1>4, AllColumns
<1>. QED
  BY <1>2, <1>5 DEF P

-----------------------------------------------------------------------------
(* Rounds.                                                                 *)

\* A set of numbers has a least one.
LEMMA MinOfNumbers ==
    ASSUME NEW T, T \subseteq Nat, T # {}
    PROVE  Min(T) \in T /\ \A y \in T : Min(T) <= y
<1>1. PICK t \in T : \A e \in T : ~ (<<e, t>> \in OpToRel(<, Nat))
  BY NatLessThanWellFounded, WFMin
<1>2. \A e \in T : ~ (e < t)
  BY <1>1 DEF OpToRel
<1>3. \A y \in T : t <= y
  BY <1>2
<1>. QED
  BY <1>3 DEF Min

\* What a column gives in a round (columnWidthsForRows).
Gives(w, k, least, available) ==
    IF Total(w) > available /\ w[k] > least[k] THEN [w EXCEPT ![k] = @ - 1] ELSE w

\* A round goes through the columns from the last to the first: steps[k] is what the
\* widths are after the columns from k on have given.
RoundSteps(steps, n, w, least, available) ==
    /\ steps \in [1 .. n + 1 -> Widths(n)]
    /\ steps[n + 1] = w
    /\ \A k \in 1 .. n : steps[k] = Gives(steps[k + 1], k, least, available)

\* A round is its steps: the fold over the columns, as one function of the place.
LEMMA RoundBySteps ==
    ASSUME NEW n \in Nat, NEW w \in Widths(n), NEW least \in Widths(n), NEW available \in Nat
    PROVE  \E steps : /\ RoundSteps(steps, n, w, least, available)
                      /\ Round(w, least, available) = steps[1]
<1>. DEFINE D    == 1 .. n
            V    == Widths(n)
            some == [s \in SUBSET D |-> Min(s)]
            F    == [x \in D |-> [v \in V |-> Gives(v, x, least, available)]]
            seq  == [i \in DOMAIN w |-> i]
            Give(i, v) == IF Total(v) > available /\ v[i] > least[i]
                          THEN [v EXCEPT ![i] = @ - 1] ELSE v
            Fold(it) == [s \in SUBSET DOMAIN seq |-> IF s = {} THEN w ELSE
                            LET x == Min(s) IN Give(seq[x], it[s \ {x}])]
            fold == CHOOSE it : it = Fold(it)
<1>1. DOMAIN seq = D /\ \A i \in D : seq[i] = i
  BY DEF Widths
<1>2. ASSUME NEW s \in SUBSET D, s # {}
      PROVE  Min(s) \in s
  <2>1. s \subseteq Nat
    OBVIOUS
  <2>. QED
    BY <1>2, <2>1, MinOfNumbers
<1>3. Picks(some, D)
  BY <1>2 DEF Picks
<1>4. \A x \in D, v \in V : Gives(v, x, least, available) \in V
  BY DEF Widths, Gives
<1>5. F \in [D -> [V -> V]]
  BY <1>4
<1>6. IsFiniteSet(D)
  BY FS_Interval
<1>7. PICK it : Folds(it, D, some, V, w, F)
  <2>. HIDE DEF D, V, some, F
  <2>1. w \in V
    BY DEF V
  <2>. QED
    BY <1>3, <1>5, <1>6, <2>1, FoldExists
<1>8. it = Fold(it)
  <2>1. it \in [SUBSET D -> V]
    BY <1>7 DEF Folds
  <2>2. ASSUME NEW s \in SUBSET D
        PROVE  it[s] = IF s = {} THEN w ELSE Give(Min(s), it[s \ {Min(s)}])
    <3>1. it[s] = IF s = {} THEN w ELSE F[some[s]][it[s \ {some[s]}]]
      BY <1>7 DEF Folds
    <3>2. s # {} => Min(s) \in D /\ it[s \ {Min(s)}] \in V
      BY <1>2, <2>1
    <3>. QED
      BY <3>1, <3>2 DEF Gives
  <2>3. \A s \in SUBSET D : Fold(it)[s] = it[s]
    BY <1>1, <1>2, <2>2
  <2>. QED
    BY <1>1, <2>1, <2>3
<1>9. fold = Fold(fold)
  BY <1>8
<1>10. Round(w, least, available) = fold[DOMAIN seq]
  BY DEF Round, FoldRight, MapThenFoldSet
<1>. HIDE DEF fold
<1>11. fold[{}] = w
  <2>1. {} \in SUBSET D
    OBVIOUS
  <2>. QED
    BY <1>1, <1>9, <2>1
<1>12. ASSUME NEW k \in D
       PROVE  fold[k .. n] = Gives(fold[k + 1 .. n], k, least, available)
  <2>1. /\ k .. n \in SUBSET D /\ k .. n # {}
        /\ (k .. n) \ {k} = k + 1 .. n
    OBVIOUS
  <2>2. Min(k .. n) = k
    <3>1. k .. n \subseteq Nat /\ k \in k .. n
      OBVIOUS
    <3>2. Min(k .. n) \in k .. n /\ \A y \in k .. n : Min(k .. n) <= y
      BY <2>1, <3>1, MinOfNumbers
    <3>. QED
      BY <3>1, <3>2
  <2>3. fold[k .. n] = Give(seq[k], fold[(k .. n) \ {k}])
    BY <1>1, <1>9, <2>1, <2>2
  <2>. QED
    BY <1>1, <2>1, <2>3 DEF Gives
<1>. DEFINE steps == [k \in 1 .. n + 1 |-> fold[k .. n]]
            P     == {j \in Nat : j <= n => fold[n + 1 - j .. n] \in V}
<1>13. steps[n + 1] = w
  <2>1. n + 1 .. n = {}
    OBVIOUS
  <2>. QED
    BY <1>11, <2>1
<1>14. 0 \in P
  BY <1>13
<1>15. ASSUME NEW j \in Nat, j \in P
       PROVE  j + 1 \in P
  <2>. SUFFICES ASSUME j + 1 <= n
                PROVE  fold[n - j .. n] \in V
    OBVIOUS
  <2>1. n - j \in D /\ fold[n - j .. n] = Gives(fold[n - j + 1 .. n], n - j, least, available)
    BY <1>12
  <2>2. fold[n - j + 1 .. n] \in V
    BY <1>15
  <2>. QED
    BY <1>4, <2>1, <2>2
<1>. HIDE DEF P
<1>16. Nat \subseteq P
  BY <1>14, <1>15, AllNumbers
<1>17. \A k \in 1 .. n + 1 : fold[k .. n] \in V
  <2>. TAKE k \in 1 .. n + 1
  <2>1. n + 1 - k \in P /\ n + 1 - k \in Nat
    BY <1>16
  <2>2. n + 1 - (n + 1 - k) = k
    OBVIOUS
  <2>. QED
    BY <2>1, <2>2 DEF P
<1>18. steps \in [1 .. n + 1 -> V] /\ \A k \in 1 .. n : steps[k] = Gives(steps[k + 1], k, least, available)
  BY <1>12, <1>17
<1>19. steps[1] = Round(w, least, available)
  BY <1>1, <1>10
<1>. QED
  <2>. HIDE DEF steps
  <2>1. RoundSteps(steps, n, w, least, available)
    BY <1>13, <1>18 DEF RoundSteps
  <2>. QED
    BY <1>19, <2>1

\* What is left of widths after the columns from k on have given.
Given(v, k, n, w, least, available) ==
    /\ v \in Widths(n)
    /\ \A i \in 1 .. n : least[i] <= v[i] /\ v[i] <= w[i]
    /\ \A i \in 1 .. k - 1 : v[i] = w[i]
    /\ Total(w) <= available => v = w
    /\ Total(w) > available => Total(v) >= available
    /\ Total(v) <= Total(w)
    /\ Total(v) > available => Total(v) < Total(w) \/ \A i \in k .. n : w[i] = least[i]

\* A column that gives, or does not, leaves the widths as far as they were given.
LEMMA GivesLeavesGiven ==
    ASSUME NEW n \in Nat, NEW w \in Widths(n), NEW least \in Widths(n), NEW available \in Nat,
           \A i \in 1 .. n : least[i] <= w[i],
           NEW k \in 1 .. n, NEW v, Given(v, k + 1, n, w, least, available)
    PROVE  Given(Gives(v, k, least, available), k, n, w, least, available)
<1>. DEFINE u == Gives(v, k, least, available)
<1>. SUFFICES Given(u, k, n, w, least, available)
  OBVIOUS
<1>0. v \in Widths(n) /\ \A i \in 1 .. n : least[i] <= v[i] /\ v[i] <= w[i]
  BY DEF Given
<1>1. /\ v \in Widths(n) /\ DOMAIN v = 1 .. n /\ IsFiniteSet(1 .. n)
      /\ \A i \in 1 .. n : v[i] \in Nat /\ w[i] \in Nat /\ least[i] \in Nat
  <2>1. IsFiniteSet(1 .. n)
    BY FS_Interval
  <2>. QED
    BY <1>0, <2>1 DEF Widths
<1>2. Total(v) \in Nat /\ Total(w) \in Nat
  BY <1>1, TotalOfWidths
<1>3. v[k] = w[k]
  BY DEF Given
<1>4. CASE Total(v) > available /\ v[k] > least[k]
  <2>1. u = [v EXCEPT ![k] = @ - 1]
    BY <1>4 DEF Gives
  <2>2. Total(u) = Total(v) - 1
    <3>1. IsFiniteSet(DOMAIN v) /\ (\A i \in DOMAIN v : v[i] \in Int) /\ k \in DOMAIN v
      BY <1>1
    <3>. QED
      BY <2>1, <3>1, TotalOneLess
  <2>3. u \in Widths(n) /\ \A i \in 1 .. n : u[i] = IF i = k THEN v[i] - 1 ELSE v[i]
    BY <1>1, <1>4, <2>1 DEF Widths
  <2>4. \A i \in 1 .. n : least[i] <= u[i] /\ u[i] <= w[i]
    <3>. TAKE i \in 1 .. n
    <3>1. v[i] \in Nat /\ w[i] \in Nat /\ least[i] \in Nat /\ least[i] <= v[i] /\ v[i] <= w[i]
      BY <1>0, <1>1
    <3>2. CASE i = k
      BY <1>4, <2>3, <3>1, <3>2
    <3>3. CASE i # k
      BY <2>3, <3>1, <3>3
    <3>. QED
      BY <3>2, <3>3
  <2>5. \A i \in 1 .. k - 1 : u[i] = w[i]
    BY <2>3 DEF Given
  <2>6. Total(w) > available
    BY <1>2, <1>4 DEF Given
  <2>. HIDE DEF u
  <2>. QED
    BY <1>2, <1>4, <2>2, <2>3, <2>4, <2>5, <2>6 DEF Given
<1>5. CASE ~ (Total(v) > available /\ v[k] > least[k])
  <2>1. u = v
    BY <1>5 DEF Gives
  <2>2. Total(v) > available => w[k] = least[k]
    BY <1>1, <1>3, <1>5
  <2>3. \A i \in k .. n : i = k \/ i \in k + 1 .. n
    OBVIOUS
  <2>4. Total(v) > available => Total(v) < Total(w) \/ \A i \in k .. n : w[i] = least[i]
    BY <2>2, <2>3 DEF Given
  <2>5. \A i \in 1 .. k - 1 : v[i] = w[i]
    BY DEF Given
  <2>. HIDE DEF u
  <2>. QED
    BY <2>1, <2>4, <2>5 DEF Given
<1>. QED
  BY <1>4, <1>5

\* A round leaves no column less than its least width.  Of a table that is too wide it
\* takes something, unless nothing can be taken, and never more than is over.
LEMMA RoundNarrows ==
    ASSUME NEW n \in Nat, NEW w \in Widths(n), NEW least \in Widths(n), NEW available \in Nat,
           \A i \in 1 .. n : least[i] <= w[i]
    PROVE  Given(Round(w, least, available), 1, n, w, least, available)
<1>1. PICK steps : /\ RoundSteps(steps, n, w, least, available)
                   /\ Round(w, least, available) = steps[1]
  BY RoundBySteps
<1>. DEFINE P == {j \in Nat : j <= n =>
                     Given(steps[n + 1 - j], n + 1 - j, n, w, least, available)}
<1>2. 0 \in P
  <2>1. \A i \in 1 .. n : w[i] \in Nat /\ least[i] \in Nat
    BY DEF Widths
  <2>2. Total(w) \in Nat
    BY TotalOfWidths
  <2>3. Given(w, n + 1, n, w, least, available)
    BY <2>1, <2>2 DEF Given
  <2>. QED
    BY <1>1, <2>3 DEF RoundSteps
<1>3. ASSUME NEW j \in Nat, j \in P
      PROVE  j + 1 \in P
  <2>. SUFFICES ASSUME j + 1 <= n
                PROVE  Given(steps[n - j], n - j, n, w, least, available)
    OBVIOUS
  <2>1. n - j \in 1 .. n /\ n + 1 - j = (n - j) + 1
    OBVIOUS
  <2>2. steps[n - j] = Gives(steps[(n - j) + 1], n - j, least, available)
    BY <1>1, <2>1 DEF RoundSteps
  <2>3. Given(steps[(n - j) + 1], (n - j) + 1, n, w, least, available)
    BY <1>3, <2>1
  <2>. QED
    BY <2>1, <2>2, <2>3, GivesLeavesGiven
<1>. HIDE DEF P
<1>4. n \in P
  BY <1>2, <1>3, AllNumbers
<1>5. n + 1 - n = 1
  OBVIOUS
<1>. QED
  BY <1>1, <1>4, <1>5 DEF P

\* A table after each round.
Rounds(after, m, n, w, least, available) ==
    /\ after \in [0 .. m -> Widths(n)]
    /\ after[0] = w
    /\ \A i \in 1 .. m : after[i] = Round(after[i - 1], least, available)

\* Down to the least widths from widths that are no less.
Down(v, n, w, least) ==
    v \in Widths(n) /\ \A i \in 1 .. n : least[i] <= v[i] /\ v[i] <= w[i]

\* Rounds can be gone through one after the other.
LEMMA RoundsExist ==
    ASSUME NEW n \in Nat, NEW w \in Widths(n), NEW least \in Widths(n), NEW available \in Nat,
           \A i \in 1 .. n : least[i] <= w[i], NEW m \in Nat
    PROVE  \E after : /\ Rounds(after, m, n, w, least, available)
                      /\ \A i \in 0 .. m : Down(after[i], n, w, least)
<1>. DEFINE Good(after, k) == /\ Rounds(after, k, n, w, least, available)
                              /\ \A i \in 0 .. k : Down(after[i], n, w, least)
            P == {k \in Nat : \E after : Good(after, k)}
<1>1. 0 \in P
  <2>. DEFINE after == [i \in 0 .. 0 |-> w]
  <2>1. Down(w, n, w, least)
    BY DEF Down, Widths
  <2>2. Good(after, 0)
    BY <2>1 DEF Rounds
  <2>. QED
    BY <2>2
<1>2. ASSUME NEW k \in Nat, k \in P
      PROVE  k + 1 \in P
  <2>1. PICK after : Good(after, k)
    BY <1>2
  <2>. DEFINE next == Round(after[k], least, available)
              more == [i \in 0 .. k + 1 |-> IF i = k + 1 THEN next ELSE after[i]]
  <2>2. Down(after[k], n, w, least)
    BY <2>1
  <2>3. Given(next, 1, n, after[k], least, available)
    BY <2>2, RoundNarrows DEF Down
  <2>. HIDE DEF next
  <2>4. Down(next, n, w, least)
    <3>1. next \in Widths(n) /\ after[k] \in Widths(n)
      BY <2>2, <2>3 DEF Down, Given
    <3>2. \A i \in 1 .. n : /\ next[i] \in Nat /\ w[i] \in Nat /\ least[i] \in Nat
                             /\ after[k][i] \in Nat
      BY <3>1 DEF Widths
    <3>3. \A i \in 1 .. n : /\ least[i] <= next[i] /\ next[i] <= after[k][i]
                             /\ after[k][i] <= w[i]
      BY <2>2, <2>3 DEF Down, Given
    <3>4. \A i \in 1 .. n : next[i] <= w[i]
      BY <3>2, <3>3
    <3>. QED
      BY <3>1, <3>3, <3>4 DEF Down
  <2>5. /\ more \in [0 .. k + 1 -> Widths(n)] /\ more[0] = w
        /\ \A i \in 0 .. k + 1 : Down(more[i], n, w, least)
    BY <2>1, <2>4 DEF Rounds, Down
  <2>6. ASSUME NEW i \in 1 .. k + 1
        PROVE  more[i] = Round(more[i - 1], least, available)
    <3>1. CASE i = k + 1
      BY <3>1 DEF next
    <3>2. CASE i # k + 1
      BY <2>1, <3>2 DEF Rounds
    <3>. QED
      BY <3>1, <3>2
  <2>. HIDE DEF more
  <2>7. Good(more, k + 1)
    BY <2>5, <2>6 DEF Rounds
  <2>. HIDE DEF Good
  <2>. QED
    BY <2>7
<1>. HIDE DEF P
<1>3. m \in P
  BY <1>1, <1>2, AllNumbers
<1>. QED
  BY <1>3 DEF P

\* Narrowed is what as many rounds leave as the table is wide.
LEMMA NarrowedByRounds ==
    ASSUME NEW n \in Nat, NEW w \in Widths(n), NEW least \in Widths(n), NEW available \in Nat,
           \A i \in 1 .. n : least[i] <= w[i]
    PROVE  \E after :
              /\ Rounds(after, Total(w), n, w, least, available)
              /\ \A i \in 0 .. Total(w) : Down(after[i], n, w, least)
              /\ Narrowed(w, least, available) =
                    IF Total(w) <= available THEN w ELSE after[Total(w)]
<1>. DEFINE N == Total(w)
            All(f) == [m \in 0 .. N |-> IF m = 0 THEN w ELSE Round(f[m - 1], least, available)]
            after == CHOOSE f : f = All(f)
<1>1. N \in Nat
  BY TotalOfWidths
<1>2. Narrowed(w, least, available) = IF N <= available THEN w ELSE after[N]
  BY DEF Narrowed
<1>. HIDE DEF N
<1>3. PICK f : /\ Rounds(f, N, n, w, least, available)
               /\ \A i \in 0 .. N : Down(f[i], n, w, least)
  BY <1>1, RoundsExist
<1>4. f = All(f)
  <2>1. \A m \in 0 .. N : f[m] = IF m = 0 THEN w ELSE Round(f[m - 1], least, available)
    BY <1>1, <1>3 DEF Rounds
  <2>2. DOMAIN f = 0 .. N /\ f = [m \in DOMAIN f |-> f[m]]
    BY <1>3 DEF Rounds
  <2>. QED
    BY <2>1, <2>2
<1>5. after = All(after)
  BY <1>4
<1>. HIDE DEF after
<1>. DEFINE P == {k \in Nat : k <= N => after[k] = f[k]}
<1>6. 0 \in P
  BY <1>1, <1>3, <1>5 DEF Rounds
<1>7. ASSUME NEW k \in Nat, k \in P
      PROVE  k + 1 \in P
  <2>. SUFFICES ASSUME k + 1 <= N
                PROVE  after[k + 1] = f[k + 1]
    OBVIOUS
  <2>1. k + 1 \in 1 .. N /\ k + 1 \in 0 .. N /\ k + 1 # 0 /\ (k + 1) - 1 = k
    BY <1>1
  <2>2. f[k + 1] = Round(f[k], least, available)
    BY <1>3, <2>1 DEF Rounds
  <2>3. after[k + 1] = Round(after[k], least, available)
    <3>1. after[k + 1] = All(after)[k + 1]
      BY <1>5
    <3>2. All(after)[k + 1] = Round(after[(k + 1) - 1], least, available)
      BY <2>1
    <3>. QED
      BY <2>1, <3>1, <3>2
  <2>4. after[k] = f[k]
    BY <1>1, <1>7
  <2>. QED
    BY <2>2, <2>3, <2>4
<1>. HIDE DEF P
<1>8. N \in P
  BY <1>1, <1>6, <1>7, AllNumbers
<1>9. after[N] = f[N]
  BY <1>1, <1>8 DEF P
<1>. QED
  BY <1>2, <1>3, <1>9 DEF N

\* A table that fits is left alone.  Of one that does not every column keeps its least
\* width, and it comes to fit exactly, or to its least widths if these are too many.
LEMMA NarrowedFits ==
    ASSUME NEW n \in Nat, NEW w \in Widths(n), NEW least \in Widths(n), NEW available \in Nat,
           \A i \in 1 .. n : least[i] <= w[i]
    PROVE  LET r == Narrowed(w, least, available)
           IN  /\ Down(r, n, w, least)
               /\ Total(w) <= available => r = w
               /\ Total(w) > available =>
                     /\ Total(r) >= available
                     /\ Total(r) = available \/ r = least
<1>. DEFINE N == Total(w)
<1>1. N \in Nat
  BY TotalOfWidths
<1>2. PICK after :
         /\ Rounds(after, N, n, w, least, available)
         /\ \A i \in 0 .. N : Down(after[i], n, w, least)
         /\ Narrowed(w, least, available) = IF N <= available THEN w ELSE after[N]
  BY NarrowedByRounds
<1>3. CASE N <= available
  <2>1. Narrowed(w, least, available) = w
    BY <1>2, <1>3
  <2>2. Down(w, n, w, least)
    BY DEF Down, Widths
  <2>. QED
    BY <1>1, <1>3, <2>1, <2>2
<1>4. CASE ~ (N <= available)
  <2>. DEFINE Nearer(v, k) == /\ Total(v) >= available
                              /\ Total(v) = available \/ v = least \/ Total(v) <= N - k
              P == {k \in Nat : k <= N => Nearer(after[k], k)}
  <2>1. 0 \in P
    BY <1>1, <1>2, <1>4 DEF Rounds
  <2>2. ASSUME NEW k \in Nat, k \in P
        PROVE  k + 1 \in P
    <3>. SUFFICES ASSUME k + 1 <= N
                  PROVE  Nearer(after[k + 1], k + 1)
      OBVIOUS
    <3>. DEFINE v == after[k]
                u == after[k + 1]
    <3>. SUFFICES Nearer(u, k + 1)
      OBVIOUS
    <3>1. k \in 0 .. N /\ k + 1 \in 1 .. N /\ (k + 1) - 1 = k
      BY <1>1
    <3>2. u = Round(v, least, available)
      BY <1>2, <3>1 DEF Rounds
    <3>3. Down(v, n, w, least) /\ Nearer(v, k)
      BY <1>1, <1>2, <2>2, <3>1
    <3>. HIDE DEF u, v, P
    <3>4. Given(u, 1, n, v, least, available)
      BY <3>2, <3>3, RoundNarrows DEF Down
    <3>5. Total(u) \in Nat /\ Total(v) \in Nat
      BY <3>3, <3>4, TotalOfWidths DEF Down, Given
    <3>6. CASE Total(v) = available
      BY <3>4, <3>5, <3>6 DEF Given
    <3>7. CASE Total(v) > available
      <4>1. CASE v = least
        <5>1. u \in Widths(n) /\ \A i \in 1 .. n : least[i] <= u[i] /\ u[i] <= least[i]
          BY <3>4, <4>1 DEF Given
        <5>2. \A i \in 1 .. n : u[i] = least[i]
          BY <5>1 DEF Widths
        <5>3. u = least
          BY <5>1, <5>2 DEF Widths
        <5>. QED
          BY <3>5, <3>7, <4>1, <5>3
      <4>2. CASE v # least
        <5>1. Total(u) > available => Total(u) < Total(v)
          <6>. SUFFICES ASSUME \A i \in 1 .. n : v[i] = least[i]
                        PROVE  FALSE
            BY <3>4, <3>5 DEF Given
          <6>. QED
            BY <3>3, <4>2 DEF Down, Widths
        <5>2. Total(u) >= available
          BY <3>4, <3>7 DEF Given
        <5>3. Total(v) <= N - k
          BY <3>3, <3>7, <4>2, <3>5
        <5>. QED
          BY <1>1, <3>5, <5>1, <5>2, <5>3
      <4>. QED
        BY <4>1, <4>2
    <3>8. Total(v) >= available
      BY <3>3
    <3>. QED
      BY <3>5, <3>6, <3>7, <3>8
  <2>. HIDE DEF P
  <2>3. N \in P
    BY <1>1, <2>1, <2>2, AllNumbers
  <2>4. Nearer(after[N], N)
    BY <1>1, <2>3 DEF P
  <2>5. Down(after[N], n, w, least)
    BY <1>1, <1>2
  <2>6. Total(after[N]) \in Nat
    BY <2>5, TotalOfWidths DEF Down
  <2>. QED
    BY <1>1, <1>2, <1>4, <2>4, <2>5, <2>6
<1>. QED
  BY <1>3, <1>4

\* A row of widths, each a character at least.
Natural == Seq(Nat \ {0})

\* A row of widths is one of widths for its columns.
LEMMA NaturalWidths ==
    ASSUME NEW natural \in Natural
    PROVE  /\ Len(natural) \in Nat /\ DOMAIN natural = 1 .. Len(natural)
           /\ natural \in Widths(Len(natural))
           /\ \A i \in 1 .. Len(natural) : natural[i] \in Nat /\ natural[i] >= 1
           /\ Total(natural) \in Nat
<1>1. /\ Len(natural) \in Nat /\ DOMAIN natural = 1 .. Len(natural)
      /\ natural \in Widths(Len(natural))
      /\ \A i \in 1 .. Len(natural) : natural[i] \in Nat /\ natural[i] >= 1
  BY DEF Natural, Widths
<1>. QED
  BY <1>1, TotalOfWidths

\* There is room for a character of every column.
LEMMA RoomForAll ==
    ASSUME NEW n \in Nat, NEW room \in Int
    PROVE  AvailableContent(n, room) \in Nat /\ AvailableContent(n, room) >= n
  BY DEF AvailableContent

\* The widths down to which columns are narrowed are a character at least, and no more
\* than the cells need.
LEMMA LeastWidths ==
    ASSUME NEW natural \in Natural, NEW n, n = Len(natural)
    PROVE  /\ MinWidths(natural) \in Widths(n) /\ Ones(natural) \in Widths(n)
           /\ \A i \in 1 .. n : /\ 1 <= MinWidths(natural)[i]
                                /\ MinWidths(natural)[i] <= natural[i]
                                /\ Ones(natural)[i] = 1
           /\ Total(MinWidths(natural)) \in Nat
           /\ Total(Ones(natural)) = n
<1>1. /\ n \in Nat /\ DOMAIN natural = 1 .. n
      /\ \A i \in 1 .. n : natural[i] \in Nat /\ natural[i] >= 1
  BY NaturalWidths
<1>2. /\ MinWidths(natural) \in Widths(n)
      /\ \A i \in 1 .. n : 1 <= MinWidths(natural)[i] /\ MinWidths(natural)[i] <= natural[i]
  BY <1>1 DEF MinWidths, AtMost, Widths
<1>3. Ones(natural) \in Widths(n) /\ \A i \in 1 .. n : Ones(natural)[i] = 1
  BY <1>1 DEF Ones, Widths
<1>4. Total(MinWidths(natural)) \in Nat
  BY <1>1, <1>2, TotalOfWidths
<1>5. IsFiniteSet(DOMAIN Ones(natural)) /\ DOMAIN Ones(natural) = 1 .. n /\ Cardinality(1 .. n) = n
  <2>1. IsFiniteSet(1 .. n) /\ Cardinality(1 .. n) = n
    <3>1. 1 \in Int /\ n \in Int
      BY <1>1
    <3>2. IsFiniteSet(1 .. n) /\ Cardinality(1 .. n) = IF 1 > n THEN 0 ELSE n - 1 + 1
      BY <3>1, FS_Interval
    <3>. QED
      BY <1>1, <3>2
  <2>. QED
    BY <1>1, <2>1 DEF Ones
<1>6. Total(Ones(natural)) = n
  BY <1>3, <1>5, TotalOfOnes
<1>. QED
  BY <1>2, <1>3, <1>4, <1>6

\* The columns of a list: none is wider than its cells, none is lost, and together they
\* take what they need or what there is (listview.go, columnWidthsForRows).
LEMMA ListWidthsFit ==
    ASSUME NEW natural \in Natural, NEW room \in Int,
           NEW n, n = Len(natural), NEW available, available = AvailableContent(n, room)
    PROVE  LET r == ListWidths(natural, room)
           IN  /\ r \in Widths(n)
               /\ \A i \in 1 .. n : 1 <= r[i] /\ r[i] <= natural[i]
               /\ Total(r) = AtMost(Total(natural), available)
<1>. DEFINE least == MinWidths(natural)
            ones  == Ones(natural)
            q     == Narrowed(natural, least, available)
            r     == Narrowed(q, ones, available)
<1>1. ListWidths(natural, room) = r
  BY DEF ListWidths
<1>2. /\ n \in Nat /\ natural \in Widths(n) /\ Total(natural) \in Nat
      /\ \A i \in 1 .. n : natural[i] \in Nat /\ natural[i] >= 1
  BY NaturalWidths
<1>3. /\ least \in Widths(n) /\ ones \in Widths(n) /\ Total(ones) = n
      /\ \A i \in 1 .. n : 1 <= least[i] /\ least[i] <= natural[i] /\ ones[i] = 1
  BY LeastWidths
<1>4. available \in Nat /\ available >= n
  BY <1>2, RoomForAll
<1>. HIDE DEF least, ones
<1>5. /\ Down(q, n, natural, least)
      /\ Total(natural) <= available => q = natural
      /\ Total(natural) > available => Total(q) >= available
  BY <1>2, <1>3, <1>4, NarrowedFits
<1>. HIDE DEF q
<1>6. /\ q \in Widths(n) /\ Total(q) \in Nat
      /\ \A i \in 1 .. n : q[i] \in Nat /\ least[i] \in Nat /\ least[i] <= q[i] /\ q[i] <= natural[i]
  BY <1>2, <1>3, <1>5, TotalOfWidths DEF Down, Widths
<1>7. \A i \in 1 .. n : ones[i] <= q[i]
  BY <1>3, <1>6
<1>8. /\ Down(r, n, q, ones)
      /\ Total(q) <= available => r = q
      /\ Total(q) > available => Total(r) >= available /\ (Total(r) = available \/ r = ones)
  BY <1>2, <1>3, <1>4, <1>6, <1>7, NarrowedFits
<1>. HIDE DEF r
<1>9. r \in Widths(n) /\ Total(r) \in Nat /\ \A i \in 1 .. n : r[i] \in Nat
  BY <1>2, <1>8, TotalOfWidths DEF Down, Widths
<1>10. \A i \in 1 .. n : 1 <= r[i] /\ r[i] <= natural[i]
  <2>1. \A i \in 1 .. n : ones[i] <= r[i] /\ r[i] <= q[i]
    BY <1>8 DEF Down
  <2>. TAKE i \in 1 .. n
  <2>2. ones[i] = 1 /\ ones[i] <= r[i] /\ r[i] <= q[i] /\ q[i] <= natural[i]
    BY <1>3, <1>6, <2>1
  <2>3. r[i] \in Nat /\ q[i] \in Nat /\ natural[i] \in Nat
    BY <1>2, <1>6, <1>9
  <2>. QED
    BY <2>2, <2>3
<1>11. Total(r) = AtMost(Total(natural), available)
  <2>1. CASE Total(natural) <= available
    BY <1>2, <1>4, <1>5, <1>8, <2>1 DEF AtMost
  <2>2. CASE Total(natural) > available /\ Total(q) <= available
    BY <1>2, <1>4, <1>5, <1>6, <1>8, <2>2 DEF AtMost
  <2>3. CASE Total(natural) > available /\ Total(q) > available
    BY <1>2, <1>3, <1>4, <1>8, <1>9, <2>3 DEF AtMost
  <2>. QED
    BY <1>2, <1>4, <1>6, <2>1, <2>2, <2>3
<1>. QED
  BY <1>1, <1>9, <1>10, <1>11

\* The columns of the browser: the same, but that they keep their minimum widths
\* (resourcebrowser.go, columnWidthsForRows).
LEMMA BrowserWidthsFit ==
    ASSUME NEW natural \in Natural, NEW room \in Int,
           NEW n, n = Len(natural), NEW available, available = AvailableContent(n, room),
           NEW least, least = Total(MinWidths(natural))
    PROVE  LET r == BrowserWidths(natural, room)
           IN  /\ r \in Widths(n)
               /\ \A i \in 1 .. n : 1 <= r[i] /\ r[i] <= natural[i]
               /\ Total(r) = AtMost(Total(natural), IF available < least THEN least ELSE available)
<1>. DEFINE min == MinWidths(natural)
            r   == Narrowed(natural, min, available)
<1>1. BrowserWidths(natural, room) = r
  BY DEF BrowserWidths
<1>2. /\ n \in Nat /\ natural \in Widths(n) /\ Total(natural) \in Nat
      /\ \A i \in 1 .. n : natural[i] \in Nat /\ natural[i] >= 1
  BY NaturalWidths
<1>3. /\ min \in Widths(n) /\ least = Total(min) /\ least \in Nat
      /\ \A i \in 1 .. n : 1 <= min[i] /\ min[i] <= natural[i]
  BY LeastWidths
<1>4. available \in Nat
  BY <1>2, RoomForAll
<1>. HIDE DEF min
<1>5. /\ Down(r, n, natural, min)
      /\ Total(natural) <= available => r = natural
      /\ Total(natural) > available => Total(r) >= available /\ (Total(r) = available \/ r = min)
  <2>1. \A i \in 1 .. n : min[i] <= natural[i]
    BY <1>3
  <2>. QED
    BY <1>2, <1>3, <1>4, <2>1, NarrowedFits
<1>. HIDE DEF r
<1>6. /\ r \in Widths(n) /\ Total(r) \in Nat
      /\ \A i \in 1 .. n : r[i] \in Nat /\ min[i] \in Nat /\ min[i] <= r[i] /\ r[i] <= natural[i]
  BY <1>2, <1>3, <1>5, TotalOfWidths DEF Down, Widths
<1>7. IsFiniteSet(1 .. n) /\ DOMAIN natural = 1 .. n /\ DOMAIN min = 1 .. n /\ DOMAIN r = 1 .. n
  BY <1>2, <1>3, <1>6, FS_Interval DEF Widths
<1>8. least <= Total(r)
  BY <1>3, <1>6, <1>7, TotalMonotone
<1>9. least <= Total(natural)
  BY <1>2, <1>3, <1>6, <1>7, TotalMonotone
<1>10. Total(r) = AtMost(Total(natural), IF available < least THEN least ELSE available)
  BY <1>2, <1>3, <1>4, <1>5, <1>6, <1>8, <1>9 DEF AtMost
<1>11. \A i \in 1 .. n : 1 <= r[i] /\ r[i] <= natural[i]
  BY <1>2, <1>3, <1>6
<1>. QED
  BY <1>1, <1>6, <1>10, <1>11

-----------------------------------------------------------------------------
(* Sequences: those of them that are wanted, and sorted ones.              *)

\* A set of numbers up to n has a greatest one.
LEMMA MaxOfNumbers ==
    ASSUME NEW n \in Nat, NEW T, T \subseteq 1 .. n, T # {}
    PROVE  Max(T) \in T /\ \A y \in T : y <= Max(T)
<1>. DEFINE D == {n - i : i \in T}
<1>1. D \subseteq Nat /\ D # {}
  <2>1. \A i \in T : n - i \in Nat
    OBVIOUS
  <2>2. PICK i \in T : TRUE
    OBVIOUS
  <2>. QED
    BY <2>1, <2>2
<1>2. PICK d \in D : \A e \in D : ~ (<<e, d>> \in OpToRel(<, Nat))
  BY <1>1, NatLessThanWellFounded, WFMin
<1>3. \A e \in D : ~ (e < d)
  BY <1>1, <1>2 DEF OpToRel
<1>4. PICK t \in T : d = n - t
  OBVIOUS
<1>5. \A i \in T : t >= i
  BY <1>3, <1>4
<1>. HIDE DEF D
<1>6. Max(T) \in T /\ \A i \in T : Max(T) >= i
  BY <1>5 DEF Max
<1>. QED
  BY <1>6

\* Those of the first elements, one more at a time.
ThoseSteps(steps, s, wanted, S) ==
    /\ steps \in [0 .. Len(s) -> Seq(S)]
    /\ steps[0] = <<>>
    /\ \A k \in 1 .. Len(s) :
          steps[k] = IF s[k] \in wanted THEN Append(steps[k - 1], s[k]) ELSE steps[k - 1]

\* What is kept of a sequence is the last of its steps.
LEMMA ThoseBySteps ==
    ASSUME NEW S, NEW s \in Seq(S), NEW wanted
    PROVE  \E steps : ThoseSteps(steps, s, wanted, S) /\ Those(s, wanted) = steps[Len(s)]
<1>. DEFINE n    == Len(s)
            D    == 1 .. n
            V    == Seq(S)
            Take(x, those) == IF s[x] \in wanted THEN Append(those, s[x]) ELSE those
            some == [u \in SUBSET D |-> Max(u)]
            F    == [x \in D |-> [v \in V |-> Take(x, v)]]
            Fold(it) == [u \in SUBSET DOMAIN s |-> IF u = {} THEN <<>> ELSE
                            LET x == Max(u)
                            IN  IF s[x] \in wanted THEN Append(it[u \ {x}], s[x])
                                ELSE it[u \ {x}]]
            fold == CHOOSE it : it = Fold(it)
<1>1. n \in Nat /\ DOMAIN s = D /\ IsFiniteSet(D) /\ \A i \in D : s[i] \in S
  BY FS_Interval
<1>2. ASSUME NEW u \in SUBSET D, u # {}
      PROVE  Max(u) \in u
  BY <1>1, <1>2, MaxOfNumbers
<1>3. Picks(some, D)
  BY <1>2 DEF Picks
<1>4. \A x \in D, v \in V : Take(x, v) \in V
  BY <1>1
<1>5. F \in [D -> [V -> V]]
  BY <1>4
<1>6. PICK it : Folds(it, D, some, V, <<>>, F)
  <2>1. <<>> \in V
    OBVIOUS
  <2>. HIDE DEF D, V, some, F
  <2>. QED
    BY <1>1, <1>3, <1>5, <2>1, FoldExists
<1>7. it = Fold(it)
  <2>1. it \in [SUBSET D -> V]
    BY <1>6 DEF Folds
  <2>2. ASSUME NEW u \in SUBSET D
        PROVE  it[u] = IF u = {} THEN <<>> ELSE Take(Max(u), it[u \ {Max(u)}])
    <3>1. it[u] = IF u = {} THEN <<>> ELSE F[some[u]][it[u \ {some[u]}]]
      BY <1>6 DEF Folds
    <3>2. u # {} => Max(u) \in D /\ it[u \ {Max(u)}] \in V
      BY <1>2, <2>1
    <3>. QED
      BY <3>1, <3>2
  <2>3. \A u \in SUBSET D : Fold(it)[u] = it[u]
    BY <1>1, <2>2
  <2>. QED
    BY <1>1, <2>1, <2>3
<1>8. fold = Fold(fold)
  BY <1>7
<1>9. Those(s, wanted) = fold[DOMAIN s]
  BY DEF Those, FoldLeft, MapThenFoldSet
<1>. HIDE DEF fold
<1>10. fold[1 .. 0] = <<>>
  <2>1. {} \in SUBSET D /\ 1 .. 0 = {}
    OBVIOUS
  <2>. QED
    BY <1>1, <1>8, <2>1
<1>11. ASSUME NEW k \in D
       PROVE  fold[1 .. k] = Take(k, fold[1 .. k - 1])
  <2>1. /\ 1 .. k \in SUBSET D /\ 1 .. k # {} /\ k \in 1 .. k
        /\ (1 .. k) \ {k} = 1 .. k - 1
    <3>1. k \in Nat /\ 1 <= k /\ k <= n /\ n \in Nat
      BY <1>1
    <3>2. k \in 1 .. k /\ 1 .. k \in SUBSET D
      BY <3>1
    <3>3. (1 .. k) \ {k} = 1 .. k - 1
      BY <3>1
    <3>. QED
      BY <3>2, <3>3
  <2>2. Max(1 .. k) = k
    <3>1. k \in Nat /\ 1 .. k \subseteq 1 .. k
      BY <1>1
    <3>2. Max(1 .. k) \in 1 .. k /\ \A y \in 1 .. k : y <= Max(1 .. k)
      BY <2>1, <3>1, MaxOfNumbers
    <3>. QED
      BY <2>1, <3>2
  <2>3. fold[1 .. k] = Take(k, fold[(1 .. k) \ {k}])
    BY <1>1, <1>8, <2>1, <2>2
  <2>. QED
    BY <2>1, <2>3
<1>. DEFINE steps == [k \in 0 .. n |-> fold[1 .. k]]
            P     == {j \in Nat : j <= n => fold[1 .. j] \in V}
<1>12. 0 \in P
  <2>1. fold[1 .. 0] \in V
    <3>1. <<>> \in V
      OBVIOUS
    <3>. HIDE DEF V
    <3>. QED
      BY <1>10, <3>1
  <2>. HIDE DEF V
  <2>. QED
    BY <2>1
<1>13. ASSUME NEW j \in Nat, j \in P
       PROVE  j + 1 \in P
  <2>. SUFFICES ASSUME j + 1 <= n
                PROVE  fold[1 .. j + 1] \in V
    OBVIOUS
  <2>1. j + 1 \in D /\ (j + 1) - 1 = j
    BY <1>1
  <2>2. fold[1 .. j + 1] = Take(j + 1, fold[1 .. j])
    BY <1>11, <2>1
  <2>3. fold[1 .. j] \in V
    BY <1>1, <1>13
  <2>. QED
    BY <1>4, <2>1, <2>2, <2>3
<1>. HIDE DEF P
<1>14. \A j \in Nat : j \in P
  BY <1>12, <1>13, AllNumbers
<1>15. steps \in [0 .. n -> V]
  BY <1>1, <1>14 DEF P
<1>16. steps[0] = <<>> /\ \A k \in D : steps[k] = Take(k, steps[k - 1])
  BY <1>1, <1>10, <1>11
<1>17. Those(s, wanted) = steps[n]
  BY <1>1, <1>9
<1>. HIDE DEF steps
<1>18. ThoseSteps(steps, s, wanted, S)
  BY <1>15, <1>16 DEF ThoseSteps
<1>. QED
  BY <1>17, <1>18

\* They are elements of the sequence, all that are wanted, and no more than it has.
LEMMA ThoseAre ==
    ASSUME NEW S, NEW s \in Seq(S), NEW wanted
    PROVE  /\ Those(s, wanted) \in Seq(S)
           /\ Len(Those(s, wanted)) <= Len(s)
           /\ ToSet(Those(s, wanted)) = ToSet(s) \cap wanted
<1>1. PICK steps : ThoseSteps(steps, s, wanted, S) /\ Those(s, wanted) = steps[Len(s)]
  BY ThoseBySteps
<1>. DEFINE n == Len(s)
            First(k) == {s[i] : i \in 1 .. k}
            Good(v, k) == Len(v) <= k /\ ToSet(v) = First(k) \cap wanted
            P == {k \in Nat : k <= n => Good(steps[k], k)}
<1>2. n \in Nat /\ DOMAIN s = 1 .. n
  OBVIOUS
<1>3. 0 \in P
  <2>1. steps[0] = <<>>
    BY <1>1 DEF ThoseSteps
  <2>2. First(0) = {}
    <3>1. 1 .. 0 = {}
      OBVIOUS
    <3>. QED
      BY <3>1
  <2>3. ToSet(<<>>) = {} /\ Len(<<>>) = 0
    BY DEF ToSet
  <2>. HIDE DEF First
  <2>. QED
    BY <2>1, <2>2, <2>3
<1>4. ASSUME NEW k \in Nat, k \in P
      PROVE  k + 1 \in P
  <2>. SUFFICES ASSUME k + 1 <= n
                PROVE  Good(steps[k + 1], k + 1)
    OBVIOUS
  <2>. DEFINE v == steps[k]
              x == s[k + 1]
  <2>1. k + 1 \in 1 .. n /\ (k + 1) - 1 = k /\ k \in 0 .. n
    BY <1>2
  <2>2. v \in Seq(S) /\ Good(v, k) /\ x \in S
    <3>1. steps \in [0 .. n -> Seq(S)]
      BY <1>1 DEF ThoseSteps
    <3>2. x \in S
      BY <2>1
    <3>. QED
      BY <1>2, <1>4, <2>1, <3>1, <3>2
  <2>3. steps[k + 1] = IF x \in wanted THEN Append(v, x) ELSE v
    BY <1>1, <2>1 DEF ThoseSteps
  <2>. HIDE DEF v, x
  <2>4. First(k + 1) = First(k) \cup {x}
    BY <2>1 DEF x
  <2>. HIDE DEF First
  <2>5. ToSet(Append(v, x)) = ToSet(v) \cup {x} /\ Len(Append(v, x)) = Len(v) + 1 /\ Len(v) \in Nat
    <3>1. /\ Len(Append(v, x)) = Len(v) + 1 /\ Len(v) \in Nat
          /\ DOMAIN v = 1 .. Len(v) /\ DOMAIN Append(v, x) = 1 .. Len(v) + 1
          /\ \A i \in 1 .. Len(v) : Append(v, x)[i] = v[i]
          /\ Append(v, x)[Len(v) + 1] = x
      BY <2>2
    <3>. QED
      BY <3>1 DEF ToSet
  <2>6. CASE x \in wanted
    BY <2>2, <2>3, <2>4, <2>5, <2>6
  <2>7. CASE x \notin wanted
    BY <2>2, <2>3, <2>4, <2>7
  <2>. QED
    BY <2>6, <2>7
<1>. HIDE DEF P
<1>5. n \in P
  BY <1>2, <1>3, <1>4, AllNumbers
<1>6. Good(steps[n], n)
  BY <1>2, <1>5 DEF P
<1>7. steps[n] \in Seq(S)
  BY <1>1, <1>2 DEF ThoseSteps
<1>. QED
  BY <1>1, <1>2, <1>6, <1>7 DEF ToSet

\* An arrangement without repetitions of all there are leaves none out.
LEMMA ArrangedIsAll ==
    ASSUME NEW S, IsFiniteSet(S), NEW f \in [1 .. Cardinality(S) -> S], IsInjective(f)
    PROVE  f \in Seq(S) /\ Len(f) = Cardinality(S) /\ ToSet(f) = S
<1>. DEFINE n == Cardinality(S)
<1>1. n \in Nat
  BY FS_CardinalityType
<1>2. IsFiniteSet(1 .. n) /\ Cardinality(1 .. n) = n
  <2>1. 1 \in Int /\ n \in Int
    BY <1>1
  <2>2. IsFiniteSet(1 .. n) /\ Cardinality(1 .. n) = IF 1 > n THEN 0 ELSE n - 1 + 1
    BY <2>1, FS_Interval
  <2>. QED
    BY <1>1, <2>2
<1>3. f \in Injection(1 .. n, S)
  BY DEF Injection
<1>4. f \in Surjection(1 .. n, S)
  BY <1>2, <1>3, FS_Injection
<1>5. f \in [1 .. n -> S] /\ \A t \in S : \E i \in 1 .. n : f[i] = t
  BY <1>4 DEF Surjection
<1>6. f \in Seq(S) /\ Len(f) = n
  BY <1>1, <1>5
<1>7. ToSet(f) = S
  BY <1>5 DEF ToSet
<1>. QED
  BY <1>6, <1>7

\* Any finite set can be arranged.
LEMMA SetToSeqIsAll ==
    ASSUME NEW S, IsFiniteSet(S)
    PROVE  /\ SetToSeq(S) \in Seq(S) /\ Len(SetToSeq(S)) = Cardinality(S)
           /\ ToSet(SetToSeq(S)) = S
<1>1. ExistsBijection(1 .. Cardinality(S), S)
  BY FS_CardinalityType
<1>2. \E f \in [1 .. Cardinality(S) -> S] : IsInjective(f)
  BY <1>1 DEF ExistsBijection, Bijection, Injection
<1>3. SetToSeq(S) \in [1 .. Cardinality(S) -> S] /\ IsInjective(SetToSeq(S))
  BY <1>2 DEF SetToSeq
<1>. QED
  BY <1>3, ArrangedIsAll

\* What comes before what, as a set of pairs.
IsOrder(R, S) ==
    /\ \A x \in S : <<x, x>> \notin R
    /\ \A x, y, z \in S : <<x, y>> \in R /\ <<y, z>> \in R => <<x, z>> \in R

\* Of some that are ordered one comes before no other.
LEMMA LastExists ==
    ASSUME NEW S, IsFiniteSet(S), S # {}, NEW R, IsOrder(R, S)
    PROVE  \E m \in S : \A x \in S : <<m, x>> \notin R
<1>. DEFINE IsLast(m, s) == m \in s /\ \A x \in s : <<m, x>> \notin R
            P == {s \in SUBSET S : s # {} => \E m : IsLast(m, s)}
<1>1. {} \in P
  OBVIOUS
<1>2. ASSUME NEW s \in SUBSET S, s # {}, s \ {Some(s)} \in P
      PROVE  s \in P
  <2>. DEFINE c == Some(s)
              u == s \ {c}
  <2>1. c \in s
    BY <1>2, SomeIsPicked
  <2>. HIDE DEF c
  <2>2. CASE u = {}
    <3>1. IsLast(c, s)
      BY <2>1, <2>2 DEF IsOrder
    <3>. QED
      BY <3>1
  <2>3. CASE u # {}
    <3>1. PICK m : IsLast(m, u)
      BY <1>2, <2>3 DEF c
    <3>2. CASE <<m, c>> \notin R
      <4>1. IsLast(m, s)
        BY <3>1, <3>2
      <4>. QED
        BY <4>1
    <3>3. CASE <<m, c>> \in R
      <4>1. ASSUME NEW x \in s, <<c, x>> \in R
            PROVE  FALSE
        <5>1. m \in S /\ c \in S /\ x \in S
          BY <2>1, <3>1
        <5>2. <<m, x>> \in R
          BY <3>3, <4>1, <5>1 DEF IsOrder
        <5>3. x # c
          BY <4>1, <5>1 DEF IsOrder
        <5>. QED
          BY <3>1, <4>1, <5>2, <5>3
      <4>2. IsLast(c, s)
        BY <2>1, <4>1
      <4>. QED
        BY <4>2
    <3>. QED
      BY <3>2, <3>3
  <2>. QED
    BY <2>2, <2>3
<1>. HIDE DEF P
<1>3. S \in P
  BY <1>1, <1>2, AllColumns
<1>. QED
  BY <1>3 DEF P

\* An arrangement of some in which none comes before one it is ordered after.
Arranged(f, n, s, R) ==
    /\ f \in [1 .. n -> s]
    /\ \A i, j \in 1 .. n : f[i] = f[j] => i = j
    /\ \A i, j \in 1 .. n : i < j => <<f[j], f[i]>> \notin R

\* There is one.
LEMMA ArrangedExists ==
    ASSUME NEW S, IsFiniteSet(S), NEW R, IsOrder(R, S)
    PROVE  \E f : Arranged(f, Cardinality(S), S, R)
<1>. DEFINE P == {n \in Nat : \A s \in SUBSET S : Cardinality(s) = n => \E f : Arranged(f, n, s, R)}
<1>1. 0 \in P
  <2>. SUFFICES ASSUME NEW s \in SUBSET S, Cardinality(s) = 0
                PROVE  \E f : Arranged(f, 0, s, R)
    OBVIOUS
  <2>1. Arranged([i \in 1 .. 0 |-> 1], 0, s, R)
    BY DEF Arranged
  <2>. QED
    BY <2>1
<1>2. ASSUME NEW n \in Nat, n \in P
      PROVE  n + 1 \in P
  <2>. SUFFICES ASSUME NEW s \in SUBSET S, Cardinality(s) = n + 1
                PROVE  \E f : Arranged(f, n + 1, s, R)
    OBVIOUS
  <2>1. IsFiniteSet(s)
    BY FS_Subset
  <2>2. s # {}
    <3>1. Cardinality({}) = 0 /\ Cardinality(s) # 0
      BY FS_EmptySet
    <3>. QED
      BY <3>1
  <2>3. IsOrder(R, s)
    BY DEF IsOrder
  <2>4. PICK m \in s : \A x \in s : <<m, x>> \notin R
    BY <2>1, <2>2, <2>3, LastExists
  <2>5. Cardinality(s \ {m}) = Cardinality(s) - 1
    BY <2>1, <2>4, FS_RemoveElement
  <2>6. PICK f : Arranged(f, n, s \ {m}, R)
    BY <1>2, <2>5
  <2>. DEFINE g == [i \in 1 .. n + 1 |-> IF i = n + 1 THEN m ELSE f[i]]
  <2>7. f \in [1 .. n -> s \ {m}]
    BY <2>6 DEF Arranged
  <2>8. /\ g \in [1 .. n + 1 -> s] /\ g[n + 1] = m
        /\ \A i \in 1 .. n : g[i] = f[i] /\ f[i] \in s /\ f[i] # m
        /\ \A i \in 1 .. n + 1 : i # n + 1 => i \in 1 .. n
    BY <2>4, <2>7
  <2>. HIDE DEF g
  <2>9. ASSUME NEW i \in 1 .. n + 1, NEW j \in 1 .. n + 1, g[i] = g[j]
        PROVE  i = j
    <3>1. CASE i = n + 1 \/ j = n + 1
      BY <2>8, <2>9, <3>1
    <3>2. CASE i # n + 1 /\ j # n + 1
      BY <2>6, <2>8, <2>9, <3>2 DEF Arranged
    <3>. QED
      BY <3>1, <3>2
  <2>10. ASSUME NEW i \in 1 .. n + 1, NEW j \in 1 .. n + 1, i < j
         PROVE  <<g[j], g[i]>> \notin R
    <3>1. i \in 1 .. n /\ g[i] \in s
      BY <2>8, <2>10
    <3>2. CASE j = n + 1
      BY <2>4, <2>8, <3>1, <3>2
    <3>3. CASE j # n + 1
      BY <2>6, <2>8, <2>10, <3>1, <3>3 DEF Arranged
    <3>. QED
      BY <3>2, <3>3
  <2>11. Arranged(g, n + 1, s, R)
    BY <2>8, <2>9, <2>10 DEF Arranged
  <2>. QED
    BY <2>11
<1>. HIDE DEF P
<1>3. Cardinality(S) \in Nat
  BY FS_CardinalityType
<1>4. Cardinality(S) \in P
  BY <1>1, <1>2, <1>3, AllNumbers
<1>. QED
  BY <1>4 DEF P

\* The browser shows every resource once, however it is sorted (resourcebrowser.go,
\* refreshItems).
LEMMA SortedIsAll ==
    ASSUME NEW col \in DOMAIN BrowserCellWidths, NEW desc \in BOOLEAN
    PROVE  LET order == SortedBy(col, desc)
           IN  /\ order \in Seq(Resources) /\ Len(order) = Cardinality(Resources)
               /\ ToSet(order) = Resources
<1>. DEFINE R == {p \in Resources \X Resources : Before(p[1], p[2], col, desc)}
            n == Cardinality(Resources)
            order == SortedBy(col, desc)
<1>1. /\ IsFiniteSet(Resources) /\ n \in Nat
      /\ \A r \in Resources : BrowserRows[r][col] \in Nat /\ BrowserRows[r][1] \in Nat
  <2>1. 1 \in DOMAIN BrowserCellWidths
    BY PanelsConstants
  <2>. QED
    BY <2>1, PanelsConstants, FS_CardinalityType
<1>2. IsOrder(R, Resources)
  <2>1. \A x \in Resources : ~ Before(x, x, col, desc)
    BY <1>1 DEF Before
  <2>2. \A x, y, z \in Resources :
           Before(x, y, col, desc) /\ Before(y, z, col, desc) => Before(x, z, col, desc)
    BY <1>1 DEF Before
  <2>. HIDE DEF n
  <2>. QED
    BY <2>1, <2>2 DEF IsOrder
<1>3. PICK f : Arranged(f, n, Resources, R)
  <2>. HIDE DEF R
  <2>. QED
    BY <1>1, <1>2, ArrangedExists
<1>4. /\ f \in SetToSeqs(Resources)
      /\ \A i, j \in DOMAIN f : i < j => ~ Before(f[j], f[i], col, desc)
  BY <1>1, <1>3 DEF Arranged, SetToSeqs
<1>5. order \in SetToSeqs(Resources)
  BY <1>4 DEF SortedBy
<1>. HIDE DEF order
<1>6. order \in [1 .. n -> Resources] /\ IsInjective(order)
  BY <1>5 DEF SetToSeqs, IsInjective
<1>7. /\ order \in Seq(Resources) /\ Len(order) = Cardinality(Resources)
      /\ ToSet(order) = Resources
  BY <1>1, <1>6, ArrangedIsAll
<1>. QED
  BY <1>7 DEF order

-----------------------------------------------------------------------------
(* Views as they should be.                                                *)

Scopes == Namespaces \cup {AllNamespaces}

Forms == {"adapted", "query", "adapted query"}

ListViews ==
    [kind : {"list"}, resource : Resources, form : Forms, wide : BOOLEAN,
     labels : SUBSET Labels, columns : Seq(Columns), width : Nat, widths : Natural]

BrowserViews ==
    [kind : {"browser"}, order : Seq(Resources), hits : SUBSET Resources,
     filter : {"none", "typing", "applied"}, cursor : Nat,
     sortCol : DOMAIN BrowserCellWidths, sortDesc : BOOLEAN, mode : {"plain", "find", "sort"},
     width : Nat, widths : Natural]

EventViews ==
    [kind : {"events"}, id : Nat, request : {0, 1},
     shown : {"loading", "lines", "no recent events", "own lines"}]

Views == ListViews \cup BrowserViews \cup EventViews \cup {Detail, Help}

\* The widths of a list are those of the columns it has and of its own width.
GoodList(v) == v \in ListViews /\ v.widths = WidthsFor(v.columns, v.width)

\* The browser has all resources, and a cursor on one of them or below a filter's rows.
GoodBrowser(v) ==
    /\ v \in BrowserViews
    /\ ToSet(v.order) = Resources /\ Len(v.order) = Cardinality(Resources)
    /\ v.filter = "none" => v.hits = Resources
    /\ v.filter = "typing" => v.mode = "plain"
    /\ v.cursor \in DOMAIN v.order
    /\ v.widths = IF v.width = 0 THEN BrowserCellWidths
                  ELSE BrowserWidths(BrowserCellWidths, v.width - 2)

\* An event view has one of the numbers given out.
GoodEvents(v, made) == v \in EventViews /\ v.id \in 1 .. made

GoodView(v, made) ==
    GoodList(v) \/ GoodBrowser(v) \/ GoodEvents(v, made) \/ v \in {Detail, Help}

GoodConfigs(config) ==
    /\ DOMAIN config = Resources
    /\ \A r \in Resources : config[r] = None \/ config[r] \in Seq(Columns)

\* A view is of its kind.
LEMMA KindsOfViews ==
    ASSUME NEW v, NEW made, GoodView(v, made)
    PROVE  /\ v \in Views
           /\ v.kind = "list" <=> GoodList(v)
           /\ v.kind = "browser" <=> GoodBrowser(v)
           /\ v.kind = "events" <=> GoodEvents(v, made)
           /\ v.kind \in {"detail", "help"} <=> v \in {Detail, Help}
<1>1. /\ v \in ListViews => v.kind = "list"
      /\ v \in BrowserViews => v.kind = "browser"
      /\ v \in EventViews => v.kind = "events"
      /\ v = Detail => v.kind = "detail"
      /\ v = Help => v.kind = "help"
  <2>1. v \in ListViews => v.kind = "list"
    BY DEF ListViews
  <2>2. v \in BrowserViews => v.kind = "browser"
    BY DEF BrowserViews
  <2>3. v \in EventViews => v.kind = "events"
    BY DEF EventViews
  <2>. QED
    BY <2>1, <2>2, <2>3 DEF Detail, Help
<1>2. /\ GoodList(v) => v \in ListViews
      /\ GoodBrowser(v) => v \in BrowserViews
      /\ GoodEvents(v, made) => v \in EventViews
  BY DEF GoodList, GoodBrowser, GoodEvents
<1>. QED
  BY <1>1, <1>2 DEF GoodView, Views

\* Columns of a scope: as many as there were, or with the namespace.
LEMMA NamespacedColumns ==
    ASSUME NEW ns, NEW columns \in Seq(Columns)
    PROVE  /\ NamespacedColumnsFor(ns, columns) \in Seq(Columns)
           /\ columns # <<>> => NamespacedColumnsFor(ns, columns) # <<>>
<1>1. "namespace" \in Columns
  BY PanelsConstants
<1>2. <<"namespace">> \in Seq(Columns) /\ <<"namespace">> # <<>>
  BY <1>1
<1>3. /\ <<"namespace">> \o columns \in Seq(Columns)
      /\ <<"namespace">> \o columns # <<>>
  BY <1>2, ConcatProperties, ConcatEqualIffEmpty
<1>. QED
  BY <1>3 DEF NamespacedColumnsFor

\* A list always has columns to choose from (listview.go, buildColumnPool).
LEMMA PoolHasColumns ==
    ASSUME NEW v \in ListViews, NEW ns
    PROVE  /\ WideColumns(v, ns) \in Seq(Columns)
           /\ LabelColumns(v.labels) \in Seq(Columns)
           /\ BuildColumnPool(v, ns) \in Seq(Columns) /\ BuildColumnPool(v, ns) # <<>>
           /\ NamespacedColumnsFor(ns, TableColumns[v.resource]) \in Seq(Columns)
<1>. DEFINE columns == NamespacedColumnsFor(ns, TableColumns[v.resource])
            wide    == Those(WideColumns(v, ns), Columns \ ToSet(columns))
<1>1. v.resource \in Resources /\ v.labels \subseteq Labels
  BY DEF ListViews
<1>2. /\ TableColumns[v.resource] \in Seq(Columns) /\ TableColumns[v.resource] # <<>>
      /\ TableColumnsWide[v.resource] \in Seq(Columns)
  BY <1>1, PanelsConstants
<1>3. columns \in Seq(Columns) /\ columns # <<>>
  BY <1>2, NamespacedColumns
<1>4. WideColumns(v, ns) \in Seq(Columns)
  BY <1>2, NamespacedColumns DEF WideColumns
<1>5. LabelColumns(v.labels) \in Seq(Columns)
  <2>1. IsFiniteSet(v.labels) /\ v.labels \subseteq Columns
    BY <1>1, PanelsConstants, FS_Subset
  <2>2. SetToSeq(v.labels) \in Seq(v.labels)
    BY <2>1, SetToSeqIsAll
  <2>. QED
    BY <2>1, <2>2, SeqMonotonic DEF LabelColumns
<1>. HIDE DEF columns
<1>6. wide \in Seq(Columns)
  BY <1>4, ThoseAre
<1>. HIDE DEF wide
<1>7. columns \o wide \in Seq(Columns) /\ columns \o wide # <<>>
  BY <1>3, <1>6, ConcatProperties, ConcatEqualIffEmpty
<1>8. BuiltInColumns(v, ns) = columns \o wide
  BY DEF BuiltInColumns, columns, wide
<1>9. BuildColumnPool(v, ns) \in Seq(Columns) /\ BuildColumnPool(v, ns) # <<>>
  BY <1>5, <1>7, <1>8, ConcatProperties, ConcatEqualIffEmpty DEF BuildColumnPool
<1>. QED
  BY <1>3, <1>4, <1>5, <1>9 DEF columns

\* What a list shows are columns (columnconfig.go, Store.Get).
LEMMA ActiveColumnsAre ==
    ASSUME NEW v \in ListViews, NEW ns, NEW config, GoodConfigs(config)
    PROVE  ActiveColumns(v, config, ns) \in Seq(Columns)
<1>1. v.resource \in Resources
  BY DEF ListViews
<1>2. CASE config[v.resource] = None
  BY <1>2, PoolHasColumns DEF ActiveColumns
<1>3. CASE config[v.resource] # None
  <2>1. config[v.resource] \in Seq(Columns)
    BY <1>1, <1>3 DEF GoodConfigs
  <2>2. Those(config[v.resource], ToSet(BuildColumnPool(v, ns)) \cup Labels) \in Seq(Columns)
    BY <2>1, ThoseAre
  <2>. QED
    BY <1>3, <2>2 DEF ActiveColumns
<1>. QED
  BY <1>2, <1>3

\* A list has a width for each of its columns.  If its size is known they are no wider
\* than their cells, and take what they need or what there is.
LEMMA WidthsForColumns ==
    ASSUME NEW columns \in Seq(Columns), NEW width \in Nat
    PROVE  LET r == WidthsFor(columns, width)
               n == Len(columns)
               natural == [k \in 1 .. n |-> CellWidth[columns[k]]]
           IN  /\ r \in Natural /\ Len(r) = n
               /\ width > 2 /\ n > 0 =>
                     /\ \A k \in 1 .. n : r[k] \in 1 .. natural[k]
                     /\ Total(r) = AtMost(Total(natural), AvailableContent(n, width - 2))
<1>. DEFINE r == WidthsFor(columns, width)
            n == Len(columns)
            natural == [k \in 1 .. n |-> CellWidth[columns[k]]]
            declared == [k \in 1 .. n |-> ColumnWidth[columns[k]]]
<1>1. n \in Nat /\ DOMAIN columns = 1 .. n /\ \A k \in 1 .. n : columns[k] \in Columns
  OBVIOUS
<1>2. \A k \in 1 .. n : /\ CellWidth[columns[k]] \in Nat \ {0}
                        /\ ColumnWidth[columns[k]] \in Nat \ {0}
  BY <1>1, PanelsConstants
<1>3. natural \in Natural /\ Len(natural) = n /\ declared \in Natural /\ Len(declared) = n
  BY <1>1, <1>2 DEF Natural
<1>4. CASE columns = <<>>
  <2>1. r = <<>> /\ n = 0
    BY <1>4 DEF WidthsFor
  <2>2. <<>> \in Natural
    BY DEF Natural
  <2>. HIDE DEF r, natural
  <2>. QED
    BY <2>1, <2>2 DEF r, natural
<1>5. CASE columns # <<>> /\ width - 2 <= 0
  <2>1. r = declared
    BY <1>1, <1>5 DEF WidthsFor
  <2>. HIDE DEF r, natural, declared
  <2>. QED
    BY <1>3, <1>5, <2>1 DEF r, natural
<1>6. CASE columns # <<>> /\ ~ (width - 2 <= 0)
  <2>1. r = ListWidths(natural, width - 2)
    BY <1>1, <1>6 DEF WidthsFor
  <2>2. \A k \in 1 .. n : natural[k] \in Nat
    BY <1>2
  <2>. HIDE DEF natural
  <2>3. /\ r \in Widths(n)
        /\ \A i \in 1 .. n : 1 <= r[i] /\ r[i] <= natural[i]
        /\ Total(r) = AtMost(Total(natural), AvailableContent(n, width - 2))
    BY <1>3, <2>1, ListWidthsFit
  <2>. HIDE DEF r
  <2>4. \A i \in 1 .. n : r[i] \in Nat
    BY <2>3 DEF Widths
  <2>5. \A i \in 1 .. n : r[i] \in Nat \ {0} /\ r[i] \in 1 .. natural[i]
    BY <2>2, <2>3, <2>4
  <2>6. r \in Natural /\ Len(r) = n
    BY <1>1, <2>3, <2>5 DEF Natural, Widths
  <2>. QED
    BY <2>3, <2>5, <2>6 DEF r, natural
<1>. QED
  BY <1>4, <1>5, <1>6

\* The browser has a width for each of its columns.
LEMMA WidthsOfBrowser ==
    ASSUME NEW width \in Nat
    PROVE  LET r == IF width = 0 THEN BrowserCellWidths
                    ELSE BrowserWidths(BrowserCellWidths, width - 2)
               n == Len(BrowserCellWidths)
               room == AvailableContent(n, width - 2)
               least == Total(MinWidths(BrowserCellWidths))
           IN  /\ r \in Natural /\ Len(r) = n
               /\ width > 2 =>
                     /\ \A k \in 1 .. n : r[k] \in 1 .. BrowserCellWidths[k]
                     /\ Total(r) = AtMost(Total(BrowserCellWidths),
                                          IF room < least THEN least ELSE room)
<1>. DEFINE r == IF width = 0 THEN BrowserCellWidths
                 ELSE BrowserWidths(BrowserCellWidths, width - 2)
            n == Len(BrowserCellWidths)
            room == AvailableContent(n, width - 2)
            least == Total(MinWidths(BrowserCellWidths))
<1>1. BrowserCellWidths \in Natural
  BY PanelsConstants DEF Natural
<1>2. n \in Nat /\ \A i \in 1 .. n : BrowserCellWidths[i] \in Nat
  BY <1>1, NaturalWidths
<1>3. CASE width = 0
  BY <1>1, <1>3
<1>4. CASE width # 0
  <2>1. r = BrowserWidths(BrowserCellWidths, width - 2)
    BY <1>4
  <2>0. /\ n = Len(BrowserCellWidths) /\ room = AvailableContent(n, width - 2)
        /\ least = Total(MinWidths(BrowserCellWidths)) /\ width - 2 \in Int
    OBVIOUS
  <2>. HIDE DEF r, n, room, least
  <2>2. /\ r \in Widths(n)
        /\ \A i \in 1 .. n : 1 <= r[i] /\ r[i] <= BrowserCellWidths[i]
        /\ Total(r) = AtMost(Total(BrowserCellWidths), IF room < least THEN least ELSE room)
    BY <1>1, <2>0, <2>1, BrowserWidthsFit
  <2>3. \A i \in 1 .. n : r[i] \in Nat \ {0} /\ r[i] \in 1 .. BrowserCellWidths[i]
    BY <1>2, <2>2 DEF Widths
  <2>4. r \in Natural /\ Len(r) = n
    BY <1>2, <2>2, <2>3 DEF Natural, Widths
  <2>. QED
    BY <2>2, <2>3, <2>4 DEF r, n, room, least
<1>. QED
  BY <1>3, <1>4

\* A list that shows what was chosen for its resource, or its wide table.
Chosen(v, config, ns) == v.wide \/ v.columns = ActiveColumns(v, config, ns)

\* What a list shows depends on its resource, form and labels.
LEMMA ActiveColumnsOf ==
    ASSUME NEW v, NEW u, v.resource = u.resource, v.form = u.form, v.labels = u.labels,
           NEW config, NEW ns
    PROVE  ActiveColumns(v, config, ns) = ActiveColumns(u, config, ns)
  BY DEF ActiveColumns, BuildColumnPool, BuiltInColumns, WideColumns

\* A refresh gives a list its columns, and these their widths (listview.go,
\* refreshItems).
LEMMA RefreshedList ==
    ASSUME NEW v \in ListViews, labelled \subseteq Labels, NEW config, GoodConfigs(config), NEW ns
    PROVE  LET r == RefreshItems(v, config, ns)
           IN  /\ GoodList(r) /\ Chosen(r, config, ns)
               /\ r.resource = v.resource /\ r.form = v.form /\ r.wide = v.wide
               /\ r.width = v.width
<1>. DEFINE w == IF v.form = "query" THEN v ELSE [v EXCEPT !.labels = labelled]
            x == IF w.wide THEN w ELSE [w EXCEPT !.columns = ActiveColumns(w, config, ns)]
            r == [x EXCEPT !.widths = WidthsFor(x.columns, x.width)]
<1>1. RefreshItems(v, config, ns) = r
  BY DEF RefreshItems
<1>2. /\ w \in ListViews
      /\ w.resource = v.resource /\ w.form = v.form /\ w.wide = v.wide /\ w.width = v.width
  BY DEF ListViews
<1>. HIDE DEF w
<1>3. ActiveColumns(w, config, ns) \in Seq(Columns)
  BY <1>2, ActiveColumnsAre
<1>4. /\ x \in ListViews
      /\ x.resource = w.resource /\ x.form = w.form /\ x.wide = w.wide /\ x.width = w.width
      /\ x.labels = w.labels
      /\ x.wide \/ x.columns = ActiveColumns(w, config, ns)
  BY <1>2, <1>3 DEF ListViews
<1>. HIDE DEF x
<1>5. x.columns \in Seq(Columns) /\ x.width \in Nat
  BY <1>4 DEF ListViews
<1>6. WidthsFor(x.columns, x.width) \in Natural
  BY <1>5, WidthsForColumns
<1>7. /\ r \in ListViews
      /\ r.resource = x.resource /\ r.form = x.form /\ r.wide = x.wide /\ r.width = x.width
      /\ r.labels = x.labels /\ r.columns = x.columns
      /\ r.widths = WidthsFor(x.columns, x.width)
  BY <1>4, <1>6 DEF ListViews
<1>. HIDE DEF r
<1>8. ActiveColumns(r, config, ns) = ActiveColumns(w, config, ns)
  BY <1>4, <1>7, ActiveColumnsOf
<1>9. GoodList(r) /\ Chosen(r, config, ns)
  BY <1>4, <1>7, <1>8 DEF GoodList, Chosen
<1>. QED
  BY <1>1, <1>2, <1>4, <1>7, <1>9

\* A list that is made shows what was chosen (listview.go, New).
LEMMA NewListGood ==
    ASSUME NEW resource \in Resources, NEW form \in Forms, NEW ns,
           labelled \subseteq Labels, GoodConfigs(configs)
    PROVE  /\ GoodList(NewList(resource, form, ns))
           /\ Chosen(NewList(resource, form, ns), configs, ns)
<1>. DEFINE v == [kind |-> "list", resource |-> resource, form |-> form, wide |-> FALSE,
                  labels |-> labelled, columns |-> <<>>, width |-> 0, widths |-> <<>>]
<1>1. v \in ListViews
  BY DEF ListViews, Natural
<1>. HIDE DEF v
<1>2. NewList(resource, form, ns) = RefreshItems(v, configs, ns)
  BY DEF NewList, v
<1>. QED
  BY <1>1, <1>2, RefreshedList

\* So does one whose wide table is left (listview.go, refreshColumns).
LEMMA RefreshedColumns ==
    ASSUME NEW v \in ListViews, labelled \subseteq Labels, GoodConfigs(configs), NEW ns
    PROVE  LET r == RefreshColumns(v, ns)
           IN  GoodList(r) /\ Chosen(r, configs, ns) /\ r.resource = v.resource
<1>. DEFINE w == IF v.wide THEN [v EXCEPT !.columns = WideColumns(v, ns)] ELSE v
<1>1. WideColumns(v, ns) \in Seq(Columns)
  BY PoolHasColumns
<1>2. w \in ListViews /\ w.resource = v.resource
  BY <1>1 DEF ListViews
<1>. HIDE DEF w
<1>3. RefreshColumns(v, ns) = RefreshItems(w, configs, ns)
  BY DEF RefreshColumns, w
<1>. QED
  BY <1>2, <1>3, RefreshedList

\* The browser keeps all resources when it sorts them anew (resourcebrowser.go,
\* refreshItems).
LEMMA RefreshedBrowser ==
    ASSUME NEW v \in BrowserViews, v.cursor \in 1 .. Cardinality(Resources),
           v.filter = "typing" => v.mode = "plain"
    PROVE  GoodBrowser(RefreshBrowser(v))
<1>. DEFINE order == SortedBy(v.sortCol, v.sortDesc)
            hits == IF v.filter = "none" THEN Resources ELSE {}
            widths == IF v.width = 0 THEN BrowserCellWidths
                      ELSE BrowserWidths(BrowserCellWidths, v.width - 2)
            r == [v EXCEPT !.order = order, !.hits = hits, !.widths = widths]
<1>1. RefreshBrowser(v) = r
  BY DEF RefreshBrowser
<1>2. v.sortCol \in DOMAIN BrowserCellWidths /\ v.sortDesc \in BOOLEAN /\ v.width \in Nat
  BY DEF BrowserViews
<1>3. /\ order \in Seq(Resources) /\ Len(order) = Cardinality(Resources)
      /\ ToSet(order) = Resources
  BY <1>2, SortedIsAll
<1>4. widths \in Natural
  BY <1>2, WidthsOfBrowser
<1>. HIDE DEF order, widths
<1>5. /\ r \in BrowserViews
      /\ r.order = order /\ r.hits = hits /\ r.widths = widths /\ r.filter = v.filter
      /\ r.mode = v.mode /\ r.cursor = v.cursor /\ r.width = v.width
  BY <1>3, <1>4 DEF BrowserViews
<1>. HIDE DEF r
<1>6. DOMAIN order = 1 .. Cardinality(Resources)
  BY <1>3
<1>7. r.widths = IF r.width = 0 THEN BrowserCellWidths
                 ELSE BrowserWidths(BrowserCellWidths, r.width - 2)
  BY <1>5 DEF widths
<1>8. r.filter = "none" => r.hits = Resources
  BY <1>5
<1>. QED
  BY <1>1, <1>3, <1>5, <1>6, <1>7, <1>8 DEF GoodBrowser

\* The cursor of a browser is on one of the resources.
LEMMA CursorInBrowser ==
    ASSUME NEW v, GoodBrowser(v)
    PROVE  /\ DOMAIN v.order = 1 .. Cardinality(Resources)
           /\ v.cursor \in 1 .. Cardinality(Resources)
           /\ v \in BrowserViews
<1>1. v.order \in Seq(Resources)
  BY DEF GoodBrowser, BrowserViews
<1>. QED
  BY <1>1 DEF GoodBrowser

\* A browser that is opened is sorted by kind (resourcebrowser.go, New).
LEMMA NewBrowserGood == GoodBrowser(NewBrowser)
<1>1. /\ 1 \in DOMAIN BrowserCellWidths /\ BrowserCellWidths \in Natural
      /\ Workloads \in Resources /\ IsFiniteSet(Resources)
  BY PanelsConstants DEF Natural
<1>. DEFINE order == SortedBy(1, FALSE)
<1>2. /\ order \in Seq(Resources) /\ Len(order) = Cardinality(Resources)
      /\ ToSet(order) = Resources
  BY <1>1, SortedIsAll
<1>3. Cardinality(Resources) \in Nat /\ Cardinality(Resources) # 0
  BY <1>1, FS_EmptySet, FS_CardinalityType
<1>. HIDE DEF order
<1>4. 1 \in DOMAIN order
  <2>1. DOMAIN order = 1 .. Len(order)
    BY <1>2
  <2>. QED
    BY <1>2, <1>3, <2>1
<1>5. NewBrowser =
         [kind |-> "browser", order |-> order, hits |-> Resources,
          filter |-> "none", cursor |-> 1, sortCol |-> 1, sortDesc |-> FALSE,
          mode |-> "plain", width |-> 0, widths |-> BrowserCellWidths]
  BY DEF NewBrowser, order
<1>6. NewBrowser \in BrowserViews
  BY <1>1, <1>2, <1>5 DEF BrowserViews
<1>. QED
  BY <1>2, <1>4, <1>5, <1>6 DEF GoodBrowser

\* A view that is given a size stays what it is, and a list shows what was chosen.
LEMMA SizedGood ==
    ASSUME NEW v, NEW made, GoodView(v, made), NEW config, GoodConfigs(config), NEW ns,
           labelled \subseteq Labels, window.width \in Nat
    PROVE  LET r == Sized(v, config, ns)
           IN  /\ GoodView(r, made) /\ r.kind = v.kind
               /\ v.kind = "list" /\ Chosen(v, config, ns) => Chosen(r, config, ns)
<1>1. CASE window.width = 0 \/ v.kind \notin {"list", "browser"}
  BY <1>1 DEF Sized
<1>2. CASE window.width # 0 /\ v.kind = "list"
  <2>. DEFINE w == [v EXCEPT !.width = window.width]
  <2>1. v \in ListViews
    BY <1>2, KindsOfViews DEF GoodList
  <2>2. w \in ListViews
    BY <2>1 DEF ListViews
  <2>. HIDE DEF w
  <2>3. Sized(v, config, ns) = RefreshItems(w, config, ns)
    BY <1>2 DEF Sized, w
  <2>4. GoodList(Sized(v, config, ns)) /\ Chosen(Sized(v, config, ns), config, ns)
    BY <2>2, <2>3, RefreshedList
  <2>5. Sized(v, config, ns).kind = "list"
    BY <2>4 DEF GoodList, ListViews
  <2>. QED
    BY <1>2, <2>4, <2>5 DEF GoodView
<1>3. CASE window.width # 0 /\ v.kind = "browser"
  <2>. DEFINE w == [v EXCEPT !.width = window.width]
  <2>1. GoodBrowser(v)
    BY <1>3, KindsOfViews
  <2>2. v \in BrowserViews /\ v.cursor \in 1 .. Cardinality(Resources)
    BY <2>1, CursorInBrowser
  <2>3. /\ w \in BrowserViews /\ w.cursor \in 1 .. Cardinality(Resources)
        /\ w.filter = "typing" => w.mode = "plain"
    BY <2>1, <2>2 DEF BrowserViews, GoodBrowser
  <2>. HIDE DEF w
  <2>4. Sized(v, config, ns) = RefreshBrowser(w)
    BY <1>3 DEF Sized, w
  <2>5. GoodBrowser(Sized(v, config, ns))
    BY <2>3, <2>4, RefreshedBrowser
  <2>6. Sized(v, config, ns).kind = "browser"
    BY <2>5 DEF GoodBrowser, BrowserViews
  <2>. QED
    BY <1>3, <2>5, <2>6 DEF GoodView
<1>. QED
  BY <1>1, <1>2, <1>3

-----------------------------------------------------------------------------
(* What holds in every state.                                              *)

\* The views on the stack are good ones.
GoodStack(s, made) ==
    /\ s \in Seq(Views) /\ s # <<>> /\ Len(s) <= MaxStack
    /\ \A i \in 1 .. Len(s) : GoodView(s[i], made)

\* Names there were, those that are left, and the cursor on one of these or on none.
GoodOverlay(p) ==
    /\ p \in [names : Seq(Scopes), filter : SUBSET Scopes, cursor : Nat]
    /\ p.names # <<>> /\ p.filter \subseteq ToSet(p.names)
    /\ p.cursor \in DOMAIN Filtered(p) \/ (p.cursor = 1 /\ p.filter = {})

\* A column picker, standing on a column.
GoodPicker(p) ==
    /\ p \in [resource : Resources, rows : Seq(Columns \cup Headers), pool : Seq(Columns),
              defaults : SUBSET Columns, checked : SUBSET Nat, cursor : Nat]
    /\ Selectable(p, p.cursor)

GoodMessages ==
    [kind : {"open picker"}, resource : Resources, pool : Seq(Columns) \ {<<>>},
     labels : Seq(Columns), defaults : SUBSET Columns, current : SUBSET Columns]
    \cup [kind : {"selected"}, namespace : Scopes]
    \cup [kind : {"picked"}, resource : Resources, visible : Seq(Columns)]
    \cup [kind : {"events"}, view : Nat, request : {1}, answer : {"lines", "none", "error"}]

SettingsInv ==
    /\ GoodConfigs(configs) /\ namespace \in Scopes /\ labelled \subseteq Labels
    /\ window.width \in Nat /\ eventViews \in Nat

PanelsInv ==
    /\ SettingsInv
    /\ GoodStack(stack, eventViews)
    /\ overlay # None => GoodOverlay(overlay)
    /\ colPicker # None => GoodPicker(colPicker)
    /\ messages \subseteq GoodMessages
    /\ reading \subseteq 1 .. eventViews

\* A good view stays one when more event views are made.
LEMMA GoodViewLater ==
    ASSUME NEW v, NEW n \in Nat, NEW m \in Nat, n <= m, GoodView(v, n)
    PROVE  GoodView(v, m)
<1>1. \A i \in 1 .. n : i \in 1 .. m
  OBVIOUS
<1>2. GoodEvents(v, n) => GoodEvents(v, m)
  BY <1>1 DEF GoodEvents
<1>. QED
  BY <1>2 DEF GoodView

\* One view more.
LEMMA AppendedGood ==
    ASSUME NEW s, NEW n \in Nat, GoodStack(s, n), NEW v, GoodView(v, n), Len(s) < MaxStack
    PROVE  /\ GoodStack(Append(s, v), n)
           /\ Last(Append(s, v)) = v /\ Len(Append(s, v)) = Len(s) + 1
<1>. DEFINE t == Append(s, v)
<1>1. s \in Seq(Views) /\ v \in Views /\ Len(s) \in Nat /\ MaxStack \in Nat
  BY KindsOfViews, PanelsConstants DEF GoodStack
<1>2. /\ t \in Seq(Views) /\ t # <<>> /\ Len(t) = Len(s) + 1
      /\ \A i \in 1 .. Len(s) : t[i] = s[i]
      /\ t[Len(s) + 1] = v
  BY <1>1, AppendProperties
<1>. HIDE DEF t
<1>3. \A i \in 1 .. Len(t) : i = Len(s) + 1 \/ i \in 1 .. Len(s)
  BY <1>1, <1>2
<1>4. \A i \in 1 .. Len(t) : GoodView(t[i], n)
  BY <1>2, <1>3 DEF GoodStack
<1>5. GoodStack(t, n) /\ Last(t) = v
  BY <1>1, <1>2, <1>4 DEF GoodStack, Last
<1>. QED
  BY <1>2, <1>5 DEF t

\* One view less.
LEMMA FrontGood ==
    ASSUME NEW s, NEW n, GoodStack(s, n)
    PROVE  /\ Front(s) \in Seq(Views) /\ Len(Front(s)) = Len(s) - 1 /\ Len(s) \in Nat
           /\ \A i \in 1 .. Len(s) - 1 : Front(s)[i] = s[i] /\ GoodView(Front(s)[i], n)
           /\ Len(s) > 1 => GoodStack(Front(s), n)
<1>1. s \in Seq(Views) /\ Len(s) \in Nat /\ Len(s) > 0 /\ MaxStack \in Nat
  BY PanelsConstants DEF GoodStack
<1>2. \A i \in 1 .. Len(s) - 1 : s[i] \in Views
  BY <1>1
<1>3. /\ Front(s) \in Seq(Views) /\ Len(Front(s)) = Len(s) - 1
      /\ \A i \in 1 .. Len(s) - 1 : Front(s)[i] = s[i]
  <2>. DEFINE f == SubSeq(s, 1, Len(s) - 1)
  <2>1. Front(s) = f
    BY DEF Front
  <2>2. 1 \in 1 .. Len(s) + 1 /\ Len(s) - 1 \in 0 .. Len(s)
    BY <1>1
  <2>3. /\ f \in Seq(Views)
        /\ Len(f) = IF 1 <= Len(s) - 1 THEN (Len(s) - 1) - 1 + 1 ELSE 0
        /\ \A i \in 1 .. (Len(s) - 1) - 1 + 1 : f[i] = s[1 + i - 1]
    BY <1>1, <2>2, SubSeqProperties
  <2>. HIDE DEF f
  <2>4. Len(f) = Len(s) - 1
    <3>1. CASE Len(s) = 1
      <4>1. ~ (1 <= Len(s) - 1)
        BY <3>1
      <4>. QED
        BY <2>3, <3>1, <4>1
    <3>2. CASE Len(s) > 1
      <4>1. 1 <= Len(s) - 1 /\ (Len(s) - 1) - 1 + 1 = Len(s) - 1
        BY <1>1, <3>2
      <4>. QED
        BY <2>3, <4>1
    <3>3. Len(s) = 1 \/ Len(s) > 1
      <4>1. \A k \in Nat : k > 0 => k = 1 \/ k > 1
        OBVIOUS
      <4>. QED
        BY <1>1, <4>1
    <3>. QED
      BY <3>1, <3>2, <3>3
  <2>5. \A i \in 1 .. Len(s) - 1 : f[i] = s[i]
    <3>. TAKE i \in 1 .. Len(s) - 1
    <3>1. i \in 1 .. (Len(s) - 1) - 1 + 1 /\ 1 + i - 1 = i
      BY <1>1
    <3>. QED
      BY <2>3, <3>1
  <2>. QED
    BY <2>1, <2>3, <2>4, <2>5
<1>4. \A i \in 1 .. Len(s) - 1 : GoodView(Front(s)[i], n)
  BY <1>1, <1>3 DEF GoodStack
<1>5. Len(s) > 1 => GoodStack(Front(s), n)
  <2>. SUFFICES ASSUME Len(s) > 1
                PROVE  GoodStack(Front(s), n)
    OBVIOUS
  <2>1. Front(s) # <<>>
    BY <1>1, <1>3
  <2>2. Len(s) <= MaxStack
    BY DEF GoodStack
  <2>. QED
    BY <1>1, <1>3, <1>4, <2>1, <2>2 DEF GoodStack
<1>. QED
  BY <1>1, <1>3, <1>4, <1>5

\* Another view in place of the one on top.
LEMMA ReplacedGood ==
    ASSUME NEW s, NEW n \in Nat, GoodStack(s, n), NEW v, GoodView(v, n)
    PROVE  /\ GoodStack(Append(Front(s), v), n)
           /\ Last(Append(Front(s), v)) = v /\ Len(Append(Front(s), v)) = Len(s)
<1>. DEFINE f == Front(s)
            t == Append(f, v)
<1>1. /\ f \in Seq(Views) /\ Len(f) = Len(s) - 1 /\ Len(s) \in Nat
      /\ \A i \in 1 .. Len(s) - 1 : GoodView(f[i], n)
  BY FrontGood
<1>2. v \in Views /\ Len(s) <= MaxStack
  BY KindsOfViews DEF GoodStack
<1>. HIDE DEF f
<1>3. /\ t \in Seq(Views) /\ t # <<>> /\ Len(t) = Len(f) + 1
      /\ \A i \in 1 .. Len(f) : t[i] = f[i]
      /\ t[Len(f) + 1] = v
  BY <1>1, <1>2, AppendProperties
<1>. HIDE DEF t
<1>4. \A i \in 1 .. Len(t) : i = Len(f) + 1 \/ i \in 1 .. Len(f)
  BY <1>1, <1>3
<1>5. \A i \in 1 .. Len(t) : GoodView(t[i], n)
  BY <1>1, <1>3, <1>4
<1>6. GoodStack(t, n) /\ Last(t) = v /\ Len(t) = Len(s)
  BY <1>1, <1>2, <1>3, <1>5 DEF GoodStack, Last
<1>. QED
  BY <1>6 DEF t, f

\* A view alone.
LEMMA SingleGood ==
    ASSUME NEW n \in Nat, NEW v, GoodView(v, n)
    PROVE  GoodStack(<<v>>, n) /\ Last(<<v>>) = v /\ Len(<<v>>) = 1
<1>1. v \in Views
  BY KindsOfViews
<1>2. MaxStack \in Nat /\ MaxStack >= 1
  BY PanelsConstants
<1>3. /\ <<v>> \in Seq(Views) /\ <<v>> # <<>> /\ Len(<<v>>) = 1
      /\ \A i \in 1 .. 1 : <<v>>[i] = v
  BY <1>1
<1>. QED
  BY <1>2, <1>3 DEF GoodStack, Last

\* The view on top is a good one.
LEMMA TopGood ==
    ASSUME NEW s, NEW n, GoodStack(s, n)
    PROVE  GoodView(Last(s), n) /\ Len(s) \in Nat /\ Len(s) >= 1
<1>1. Len(s) \in Nat /\ Len(s) >= 1
  BY DEF GoodStack
<1>. QED
  BY <1>1 DEF GoodStack, Last

\* The list for another scope is a good one that shows what was chosen (app.go,
\* bestResourceForScope).
LEMMA BestListGood ==
    ASSUME PanelsInv, NEW ns
    PROVE  GoodList(BestListForScope(ns)) /\ Chosen(BestListForScope(ns), configs, ns)
<1>. DEFINE lists == {i \in DOMAIN stack : stack[i].kind = "list"}
            best  == stack[CHOOSE i \in lists : \A j \in lists : j <= i]
<1>1. GoodConfigs(configs) /\ labelled \subseteq Labels /\ GoodStack(stack, eventViews)
  BY DEF PanelsInv, SettingsInv
<1>2. DOMAIN stack = 1 .. Len(stack) /\ Len(stack) \in Nat
  BY <1>1 DEF GoodStack
<1>3. CASE lists = {}
  <2>1. BestListForScope(ns) = NewList(Workloads, "adapted", ns)
    BY <1>3 DEF BestListForScope
  <2>2. Workloads \in Resources /\ "adapted" \in Forms
    BY PanelsConstants DEF Forms
  <2>. QED
    BY <1>1, <2>1, <2>2, NewListGood
<1>4. CASE lists # {}
  <2>1. Max(lists) \in lists /\ \A j \in lists : j <= Max(lists)
    BY <1>2, <1>4, MaxOfNumbers
  <2>2. (CHOOSE i \in lists : \A j \in lists : j <= i) \in lists
    BY <2>1
  <2>3. GoodView(best, eventViews) /\ best.kind = "list"
    <3>1. PICK i \in lists : best = stack[i]
      BY <2>2
    <3>2. i \in 1 .. Len(stack)
      BY <1>2
    <3>. QED
      BY <1>1, <3>1, <3>2 DEF GoodStack
  <2>4. best.resource \in Resources
    BY <2>3, KindsOfViews DEF GoodList, ListViews
  <2>. DEFINE form == IF best.form = "adapted" THEN "adapted" ELSE "adapted query"
  <2>5. BestListForScope(ns) = NewList(best.resource, form, ns)
    BY <1>4 DEF BestListForScope
  <2>6. form \in Forms
    BY DEF Forms
  <2>. HIDE DEF form, best
  <2>. QED
    BY <1>1, <2>4, <2>5, <2>6, NewListGood
<1>. QED
  BY <1>3, <1>4

\* The application starts with one list (app.go, New).
LEMMA InitGood == Init => PanelsInv
<1>. SUFFICES ASSUME Init
              PROVE  PanelsInv
  OBVIOUS
<1>1. SettingsInv
  <2>1. GoodConfigs(configs)
    BY DEF Init, GoodConfigs
  <2>2. window.width \in Nat
    BY PanelsConstants DEF Init, Unsized
  <2>. QED
    BY <2>1, <2>2 DEF Init, SettingsInv, Scopes
<1>2. GoodStack(stack, eventViews)
  <2>. DEFINE v == NewList(Workloads, "adapted", namespace)
  <2>0. eventViews \in Nat /\ labelled \subseteq Labels /\ GoodConfigs(configs)
        /\ window.width \in Nat
    BY <1>1 DEF SettingsInv
  <2>1. GoodList(v)
    BY <2>0, NewListGood, PanelsConstants DEF Forms
  <2>2. stack = <<Sized(v, configs, namespace)>>
    BY DEF Init
  <2>. HIDE DEF v
  <2>3. GoodView(v, eventViews)
    BY <2>1 DEF GoodView
  <2>4. GoodView(Sized(v, configs, namespace), eventViews)
    BY <2>0, <2>3, SizedGood
  <2>. QED
    BY <2>0, <2>2, <2>4, SingleGood
<1>. QED
  BY <1>1, <1>2 DEF PanelsInv, Init

-----------------------------------------------------------------------------
(* Every step keeps it.                                                    *)

\* What is known of the settings, wherever they are used.
LEMMA Settings ==
    ASSUME PanelsInv
    PROVE  /\ GoodConfigs(configs) /\ namespace \in Scopes /\ labelled \subseteq Labels
           /\ window.width \in Nat /\ eventViews \in Nat
           /\ GoodStack(stack, eventViews)
           /\ GoodView(Top, eventViews) /\ Len(stack) \in Nat /\ Len(stack) >= 1
  BY TopGood DEF PanelsInv, SettingsInv, Top

\* A step that changes the views alone keeps it if the views are good.
LEMMA OnlyViews ==
    ASSUME PanelsInv, GoodStack(stack', eventViews), Unmoved,
           UNCHANGED <<messages, reading, eventViews>>
    PROVE  PanelsInv'
  BY DEF PanelsInv, SettingsInv, Unmoved

\* A list that is made and sized is a good view, and shows what was chosen.
LEMMA NewSizedGood ==
    ASSUME PanelsInv, NEW r \in Resources, NEW form \in Forms
    PROVE  LET v == Sized(NewList(r, form, namespace), configs, namespace)
           IN  GoodView(v, eventViews) /\ v.kind = "list" /\ Chosen(v, configs, namespace)
<1>. DEFINE u == NewList(r, form, namespace)
<1>1. GoodList(u) /\ Chosen(u, configs, namespace)
  BY Settings, NewListGood
<1>. HIDE DEF u
<1>2. GoodView(u, eventViews) /\ u.kind = "list"
  BY <1>1 DEF GoodView, GoodList, ListViews
<1>. QED
  BY <1>1, <1>2, Settings, SizedGood DEF u

\* Another view on top.
LEMMA Pushes ==
    ASSUME PanelsInv, NEW v, GoodView(v, eventViews), Len(stack) < MaxStack
    PROVE  GoodStack(Append(stack, v), eventViews)
  BY Settings, AppendedGood

\* Another view in place of the one on top.
LEMMA Replaces ==
    ASSUME PanelsInv, NEW v, GoodView(v, eventViews), ReplaceTop(v)
    PROVE  GoodStack(stack', eventViews) /\ Last(stack') = v /\ Len(stack') = Len(stack)
  BY Settings, ReplacedGood DEF ReplaceTop

\* The keys of the application that leave one view, or one more, or one less.
LEMMA OpenKeeps ==
    ASSUME PanelsInv,
           (\E r \in Resources : OpenResource(r) \/ QueryItems(r))
             \/ OpenBrowser \/ OpenHelp \/ Back
    PROVE  PanelsInv'
<1>1. ASSUME NEW r \in Resources, OpenResource(r)
      PROVE  PanelsInv'
  <2>. DEFINE v == Sized(NewList(r, "adapted", namespace), configs, namespace)
  <2>1. GoodView(v, eventViews)
    BY NewSizedGood DEF Forms
  <2>2. stack' = <<v>> /\ UNCHANGED <<messages, reading, eventViews>> /\ Unmoved
    BY <1>1 DEF OpenResource, countVars
  <2>. HIDE DEF v
  <2>. QED
    BY <2>1, <2>2, Settings, SingleGood, OnlyViews
<1>2. ASSUME NEW r \in Resources, QueryItems(r)
      PROVE  PanelsInv'
  <2>. DEFINE v == Sized(NewList(r, "query", namespace), configs, namespace)
  <2>1. GoodView(v, eventViews)
    BY NewSizedGood DEF Forms
  <2>2. /\ stack' = Append(stack, v) /\ UNCHANGED <<messages, reading, eventViews>> /\ Unmoved
        /\ Len(stack) < MaxStack
    BY <1>2 DEF QueryItems, Turn, Pushed
  <2>. HIDE DEF v
  <2>. QED
    BY <2>1, <2>2, Pushes, OnlyViews
<1>3. CASE OpenBrowser
  <2>. DEFINE v == Sized(NewBrowser, configs, namespace)
  <2>1. GoodView(NewBrowser, eventViews)
    BY NewBrowserGood DEF GoodView
  <2>2. GoodView(v, eventViews)
    BY <2>1, Settings, SizedGood
  <2>3. stack' = <<v>> /\ UNCHANGED <<messages, reading, eventViews>> /\ Unmoved
    BY <1>3 DEF OpenBrowser, Turn
  <2>. HIDE DEF v
  <2>. QED
    BY <2>2, <2>3, Settings, SingleGood, OnlyViews
<1>4. CASE OpenHelp
  <2>1. /\ stack' = Append(stack, Help) /\ UNCHANGED <<messages, reading, eventViews>> /\ Unmoved
        /\ Len(stack) < MaxStack
    BY <1>4 DEF OpenHelp, countVars
  <2>2. GoodView(Help, eventViews)
    BY DEF GoodView
  <2>. QED
    BY <2>1, <2>2, Pushes, OnlyViews
<1>5. CASE Back
  <2>1. /\ stack' = Front(stack) /\ UNCHANGED <<messages, reading, eventViews>> /\ Unmoved
        /\ Len(stack) > 1
    BY <1>5 DEF Back, countVars
  <2>. QED
    BY <2>1, Settings, FrontGood, OnlyViews
<1>. QED
  BY <1>1, <1>2, <1>3, <1>4, <1>5

\* The list for another scope alone on the stack (app.go, setNamespace).
LEMMA ScopeKeeps ==
    ASSUME PanelsInv, namespace' \in Scopes, overlay' \in {overlay, None},
           stack' = <<Sized(BestListForScope(namespace'), configs, namespace')>>,
           messages' \subseteq messages,
           UNCHANGED <<configs, labelled, window, colPicker, reading, eventViews>>
    PROVE  /\ PanelsInv'
           /\ Last(stack').kind = "list" /\ Chosen(Last(stack'), configs', namespace')
<1>. DEFINE u == BestListForScope(namespace')
            v == Sized(u, configs, namespace')
<1>1. GoodList(u) /\ Chosen(u, configs, namespace')
  BY BestListGood
<1>. HIDE DEF u
<1>2. GoodView(u, eventViews) /\ u.kind = "list"
  BY <1>1 DEF GoodView, GoodList, ListViews
<1>3. GoodView(v, eventViews) /\ v.kind = "list" /\ Chosen(v, configs, namespace')
  BY <1>1, <1>2, Settings, SizedGood
<1>4. stack' = <<v>>
  BY DEF u
<1>. HIDE DEF v
<1>5. GoodStack(stack', eventViews) /\ Last(stack') = v
  BY <1>3, <1>4, Settings, SingleGood
<1>6. PanelsInv'
  BY <1>5 DEF PanelsInv, SettingsInv
<1>. QED
  BY <1>3, <1>5, <1>6

\* The keys and messages that change the scope.
LEMMA ScopesKeep ==
    ASSUME PanelsInv, ToggleAllNamespaces \/ \E m \in messages : NamespaceSelected(m)
    PROVE  /\ PanelsInv'
           /\ Last(stack').kind = "list" /\ Chosen(Last(stack'), configs', namespace')
<1>1. CASE ToggleAllNamespaces
  <2>1. namespace' \in Scopes
    BY <1>1 DEF ToggleAllNamespaces, Scopes
  <2>. QED
    BY <1>1, <2>1, ScopeKeeps DEF ToggleAllNamespaces, Turn
<1>2. ASSUME NEW m \in messages, NamespaceSelected(m)
      PROVE  /\ PanelsInv'
             /\ Last(stack').kind = "list" /\ Chosen(Last(stack'), configs', namespace')
  <2>1. m \in GoodMessages /\ m.kind = "selected"
    BY <1>2 DEF NamespaceSelected, PanelsInv
  <2>2. m.namespace \in Scopes
    BY <2>1 DEF GoodMessages
  <2>. QED
    BY <1>2, <2>2, ScopeKeeps DEF NamespaceSelected, countVars
<1>. QED
  BY <1>1, <1>2

\* What is in two sequences is in the one made of them.
LEMMA ElementsOfConcat ==
    ASSUME NEW S, NEW s \in Seq(S), NEW t \in Seq(S)
    PROVE  ToSet(s \o t) = ToSet(s) \cup ToSet(t)
<1>. DEFINE u == s \o t
<1>1. /\ u \in Seq(S) /\ Len(u) = Len(s) + Len(t)
      /\ \A i \in 1 .. Len(s) + Len(t) : u[i] = IF i <= Len(s) THEN s[i] ELSE t[i - Len(s)]
  BY ConcatProperties
<1>2. Len(s) \in Nat /\ Len(t) \in Nat /\ DOMAIN s = 1 .. Len(s) /\ DOMAIN t = 1 .. Len(t)
  OBVIOUS
<1>. HIDE DEF u
<1>3. DOMAIN u = 1 .. Len(s) + Len(t)
  BY <1>1
<1>4. \A i \in DOMAIN u : u[i] \in ToSet(s) \cup ToSet(t)
  <2>. TAKE i \in DOMAIN u
  <2>1. CASE i <= Len(s)
    <3>1. i \in DOMAIN s /\ u[i] = s[i]
      BY <1>1, <1>2, <1>3, <2>1
    <3>. QED
      BY <3>1 DEF ToSet
  <2>2. CASE ~ (i <= Len(s))
    <3>1. i - Len(s) \in DOMAIN t /\ u[i] = t[i - Len(s)]
      BY <1>1, <1>2, <1>3, <2>2
    <3>. QED
      BY <3>1 DEF ToSet
  <2>. QED
    BY <2>1, <2>2
<1>5. \A i \in DOMAIN s : s[i] \in ToSet(u)
  <2>. TAKE i \in DOMAIN s
  <2>1. i \in DOMAIN u /\ u[i] = s[i]
    BY <1>1, <1>2, <1>3
  <2>. QED
    BY <2>1 DEF ToSet
<1>6. \A i \in DOMAIN t : t[i] \in ToSet(u)
  <2>. TAKE i \in DOMAIN t
  <2>1. /\ i + Len(s) \in 1 .. Len(s) + Len(t) /\ ~ (i + Len(s) <= Len(s))
        /\ (i + Len(s)) - Len(s) = i
    BY <1>2
  <2>2. i + Len(s) \in DOMAIN u /\ u[i + Len(s)] = t[i]
    BY <1>1, <1>3, <2>1
  <2>. QED
    BY <2>2 DEF ToSet
<1>7. ToSet(u) = ToSet(s) \cup ToSet(t)
  BY <1>4, <1>5, <1>6 DEF ToSet
<1>. QED
  BY <1>7 DEF u

\* Of the names there were those are left that the filter has.
LEMMA FilteredAre ==
    ASSUME NEW p, p.names \in Seq(Scopes), p.filter \subseteq ToSet(p.names)
    PROVE  /\ Filtered(p) \in Seq(Scopes) /\ ToSet(Filtered(p)) = p.filter
           /\ Len(Filtered(p)) \in Nat /\ DOMAIN Filtered(p) = 1 .. Len(Filtered(p))
           /\ Len(Filtered(p)) = 0 => p.filter = {}
<1>1. Filtered(p) \in Seq(Scopes) /\ ToSet(Filtered(p)) = ToSet(p.names) \cap p.filter
  BY ThoseAre DEF Filtered
<1>2. ToSet(Filtered(p)) = p.filter
  BY <1>1
<1>3. Len(Filtered(p)) \in Nat /\ DOMAIN Filtered(p) = 1 .. Len(Filtered(p))
  BY <1>1
<1>4. ASSUME Len(Filtered(p)) = 0
      PROVE  p.filter = {}
  <2>1. DOMAIN Filtered(p) = {}
    BY <1>3, <1>4
  <2>. QED
    BY <1>2, <2>1 DEF ToSet
<1>. QED
  BY <1>1, <1>2, <1>3, <1>4

\* The cursor that is clamped is on one of the names left (overlaypicker.go, clampCursor).
LEMMA ClampedGood ==
    ASSUME NEW p \in [names : Seq(Scopes), filter : SUBSET Scopes, cursor : Nat],
           p.names # <<>>, p.filter \subseteq ToSet(p.names), p.cursor >= 1
    PROVE  GoodOverlay(ClampCursor(p))
<1>. DEFINE names == Len(Filtered(p))
            c == IF names = 0 THEN 1 ELSE AtMost(names, p.cursor)
            q == [p EXCEPT !.cursor = c]
<1>1. /\ names \in Nat /\ DOMAIN Filtered(p) = 1 .. names
      /\ names = 0 => p.filter = {}
      /\ p.cursor \in Nat
  BY FilteredAre
<1>2. ClampCursor(p) = q
  BY DEF ClampCursor
<1>. HIDE DEF names
<1>3. c \in Nat /\ (names = 0 => c = 1) /\ (names # 0 => c \in 1 .. names)
  BY <1>1 DEF AtMost
<1>. HIDE DEF c
<1>4. /\ q \in [names : Seq(Scopes), filter : SUBSET Scopes, cursor : Nat]
      /\ q.names = p.names /\ q.filter = p.filter /\ q.cursor = c
  BY <1>3
<1>. HIDE DEF q
<1>5. Filtered(q) = Filtered(p)
  BY <1>4 DEF Filtered
<1>6. q.cursor \in DOMAIN Filtered(q) \/ (q.cursor = 1 /\ q.filter = {})
  BY <1>1, <1>3, <1>4, <1>5
<1>. QED
  BY <1>2, <1>4, <1>6 DEF GoodOverlay

\* Whatever is left of the names, the first of them is one the cursor can be on.
LEMMA FirstNameGood ==
    ASSUME NEW p \in [names : Seq(Scopes), filter : SUBSET Scopes, cursor : Nat],
           p.names # <<>>, p.filter \subseteq ToSet(p.names), p.cursor = 1
    PROVE  GoodOverlay(p)
<1>1. /\ Len(Filtered(p)) \in Nat /\ DOMAIN Filtered(p) = 1 .. Len(Filtered(p))
      /\ Len(Filtered(p)) = 0 => p.filter = {}
  BY FilteredAre
<1>2. CASE Len(Filtered(p)) = 0
  BY <1>1, <1>2 DEF GoodOverlay
<1>3. CASE Len(Filtered(p)) # 0
  <2>1. 1 \in DOMAIN Filtered(p)
    BY <1>1, <1>3
  <2>. QED
    BY <2>1 DEF GoodOverlay
<1>. QED
  BY <1>2, <1>3

\* The namespace picker, which opens with all names and none typed.
LEMMA OverlayOpens ==
    ASSUME PanelsInv, OpenNamespacePicker
    PROVE  PanelsInv'
<1>. DEFINE names == <<AllNamespaces>> \o SetToSeq(Namespaces)
            p == [names |-> names, filter |-> Namespaces \cup {AllNamespaces}, cursor |-> 1]
<1>1. SetToSeq(Namespaces) \in Seq(Namespaces) /\ ToSet(SetToSeq(Namespaces)) = Namespaces
  BY SetToSeqIsAll, PanelsConstants
<1>2. SetToSeq(Namespaces) \in Seq(Scopes) /\ <<AllNamespaces>> \in Seq(Scopes)
  <2>1. Namespaces \subseteq Scopes /\ AllNamespaces \in Scopes
    BY DEF Scopes
  <2>. QED
    BY <1>1, <2>1, SeqMonotonic
<1>3. names \in Seq(Scopes) /\ names # <<>> /\ ToSet(names) = Scopes
  <2>1. names \in Seq(Scopes)
    BY <1>2, ConcatProperties
  <2>2. names # <<>>
    BY <1>2, ConcatEqualIffEmpty
  <2>3. ToSet(names) = ToSet(<<AllNamespaces>>) \cup ToSet(SetToSeq(Namespaces))
    BY <1>2, ElementsOfConcat
  <2>4. ToSet(<<AllNamespaces>>) = {AllNamespaces}
    BY DEF ToSet
  <2>5. ToSet(names) = Scopes
    BY <1>1, <2>3, <2>4 DEF Scopes
  <2>. QED
    BY <2>1, <2>2, <2>5
<1>4. overlay' = p
  BY DEF OpenNamespacePicker
<1>. HIDE DEF names
<1>5. /\ p \in [names : Seq(Scopes), filter : SUBSET Scopes, cursor : Nat]
      /\ p.names = names /\ p.filter = Scopes /\ p.cursor = 1
  BY <1>3 DEF Scopes
<1>. HIDE DEF p
<1>6. GoodOverlay(p)
  BY <1>3, <1>5, FirstNameGood
<1>. QED
  BY <1>4, <1>6 DEF OpenNamespacePicker, PanelsInv, SettingsInv, Turn

\* Keys of the namespace picker.
LEMMA OverlayKeeps ==
    ASSUME PanelsInv, KeyOfOverlay
    PROVE  PanelsInv'
<1>. DEFINE Records == [names : Seq(Scopes), filter : SUBSET Scopes, cursor : Nat]
<1>1. overlay # None /\ GoodOverlay(overlay)
  BY DEF KeyOfOverlay, MoveInOverlay, UntypeInOverlay, CloseOverlay, PickNamespace, PanelsInv
<1>2. /\ overlay \in Records
      /\ overlay.names \in Seq(Scopes) /\ overlay.filter \subseteq Scopes
      /\ overlay.cursor \in Nat /\ overlay.cursor >= 1
      /\ overlay.names # <<>> /\ overlay.filter \subseteq ToSet(overlay.names)
      /\ ToSet(overlay.names) \subseteq Scopes
  <2>1. /\ overlay \in Records
        /\ overlay.names # <<>> /\ overlay.filter \subseteq ToSet(overlay.names)
    BY <1>1 DEF GoodOverlay
  <2>2. overlay.names \in Seq(Scopes) /\ overlay.filter \subseteq Scopes /\ overlay.cursor \in Nat
    BY <2>1
  <2>3. DOMAIN Filtered(overlay) = 1 .. Len(Filtered(overlay)) /\ Len(Filtered(overlay)) \in Nat
    BY <2>1, <2>2, FilteredAre
  <2>4. overlay.cursor >= 1
    BY <1>1, <2>2, <2>3 DEF GoodOverlay
  <2>5. ToSet(overlay.names) \subseteq Scopes
    BY <2>2 DEF ToSet
  <2>. QED
    BY <2>1, <2>2, <2>4, <2>5
<1>3. ASSUME NEW p, OverlayBecomes(p), GoodOverlay(p)
      PROVE  PanelsInv'
  BY <1>3 DEF OverlayBecomes, PanelsInv, SettingsInv, countVars
<1>4. CASE MoveInOverlay
  <2>1. CASE OverlayBecomes(ClampCursor([overlay EXCEPT !.cursor = @ + 1]))
    <3>. DEFINE p == [overlay EXCEPT !.cursor = @ + 1]
    <3>1. p \in Records /\ p.names = overlay.names /\ p.filter = overlay.filter /\ p.cursor >= 1
      BY <1>2
    <3>. HIDE DEF p
    <3>2. GoodOverlay(ClampCursor(p))
      BY <1>2, <3>1, ClampedGood
    <3>. QED
      BY <1>3, <2>1, <3>2 DEF p
  <2>2. CASE overlay.cursor > 1 /\ OverlayBecomes(ClampCursor([overlay EXCEPT !.cursor = @ - 1]))
    <3>. DEFINE p == [overlay EXCEPT !.cursor = @ - 1]
    <3>1. p \in Records /\ p.names = overlay.names /\ p.filter = overlay.filter /\ p.cursor >= 1
      BY <1>2, <2>2
    <3>. HIDE DEF p
    <3>2. GoodOverlay(ClampCursor(p))
      BY <1>2, <3>1, ClampedGood
    <3>. QED
      BY <1>3, <2>2, <3>2 DEF p
  <2>. QED
    BY <1>4, <2>1, <2>2 DEF MoveInOverlay
<1>5. ASSUME NEW names \in SUBSET ToSet(overlay.names), TypeInOverlay(names)
      PROVE  PanelsInv'
  <2>. DEFINE p == [overlay EXCEPT !.filter = names, !.cursor = 1]
  <2>1. p \in Records /\ p.names = overlay.names /\ p.filter = names /\ p.cursor = 1
    BY <1>2
  <2>2. OverlayBecomes(p)
    BY <1>5 DEF TypeInOverlay
  <2>. HIDE DEF p
  <2>3. GoodOverlay(p)
    BY <1>2, <2>1, FirstNameGood
  <2>. QED
    BY <1>3, <2>2, <2>3
<1>6. CASE UntypeInOverlay
  BY <1>5, <1>6 DEF UntypeInOverlay, TypeInOverlay
<1>7. CASE \E names \in SUBSET overlay.filter : TypeInOverlay(names)
  BY <1>2, <1>5, <1>7
<1>8. CASE CloseOverlay
  BY <1>8 DEF CloseOverlay, PanelsInv, SettingsInv, countVars
<1>9. CASE PickNamespace
  <2>. DEFINE name == Filtered(overlay)[ClampCursor(overlay).cursor]
              m == [kind |-> "selected", namespace |-> name]
  <2>1. /\ Filtered(overlay) # <<>> /\ messages' = messages \cup {m} /\ overlay' = None
        /\ UNCHANGED <<stack, configs, namespace, labelled, window, colPicker, reading, eventViews>>
    BY <1>9 DEF PickNamespace, Send, countVars
  <2>2. /\ Filtered(overlay) \in Seq(Scopes) /\ Len(Filtered(overlay)) \in Nat
        /\ DOMAIN Filtered(overlay) = 1 .. Len(Filtered(overlay))
    BY <1>2, FilteredAre
  <2>3. name \in Scopes
    <3>. DEFINE n == Len(Filtered(overlay))
    <3>1. n # 0 /\ n \in Nat
      BY <2>1, <2>2
    <3>2. ClampCursor(overlay).cursor = AtMost(n, overlay.cursor)
      BY <1>2, <3>1 DEF ClampCursor
    <3>. HIDE DEF n
    <3>3. AtMost(n, overlay.cursor) \in 1 .. n
      BY <1>2, <3>1 DEF AtMost
    <3>. QED
      BY <2>2, <3>2, <3>3 DEF n
  <2>. HIDE DEF name
  <2>4. m \in GoodMessages
    BY <2>3 DEF GoodMessages
  <2>. HIDE DEF m
  <2>. QED
    BY <2>1, <2>4 DEF PanelsInv, SettingsInv
<1>. QED
  BY <1>4, <1>6, <1>7, <1>8, <1>9 DEF KeyOfOverlay

\* Keys of a list: its columns are those it should show, the columns it asks the picker
\* for are there, and a new event view has a number of its own.
LEMMA ListKeysKeep ==
    ASSUME PanelsInv, KeyOfList
    PROVE  PanelsInv'
<1>1. CASE ToggleWide
  <2>. DEFINE u == [Top EXCEPT !.wide = ~@]
              v == RefreshColumns(u, namespace)
  <2>1. GoodList(Top)
    BY <1>1, Settings, KindsOfViews DEF ToggleWide
  <2>2. u \in ListViews
    BY <2>1 DEF GoodList, ListViews
  <2>3. ReplaceTop(v) /\ UNCHANGED <<messages, reading, eventViews>> /\ Unmoved
    BY <1>1 DEF ToggleWide, countVars
  <2>. HIDE DEF u
  <2>4. GoodView(v, eventViews)
    BY <2>2, Settings, RefreshedColumns DEF GoodView
  <2>. HIDE DEF v
  <2>. QED
    BY <2>3, <2>4, Replaces, OnlyViews
<1>2. CASE AskForColumns
  <2>. DEFINE u == [Top EXCEPT !.wide = FALSE]
              v == IF Top.wide THEN RefreshColumns(u, namespace) ELSE Top
              columns == NamespacedColumnsFor(namespace, TableColumns[v.resource])
              m == [kind |-> "open picker", resource |-> v.resource,
                    pool |-> BuildColumnPool(v, namespace), labels |-> LabelColumns(v.labels),
                    defaults |-> ToSet(columns), current |-> ToSet(v.columns)]
  <2>1. GoodList(Top)
    BY <1>2, Settings, KindsOfViews DEF AskForColumns
  <2>2. u \in ListViews
    BY <2>1 DEF GoodList, ListViews
  <2>3. /\ ReplaceTop(v) /\ messages' = messages \cup {m}
        /\ UNCHANGED <<reading, eventViews>> /\ Unmoved
    BY <1>2 DEF AskForColumns, Send, Turn
  <2>. HIDE DEF u
  <2>4. GoodList(v)
    BY <2>1, <2>2, Settings, RefreshedColumns
  <2>. HIDE DEF v
  <2>5. v \in ListViews
    BY <2>4 DEF GoodList
  <2>6. /\ v.resource \in Resources /\ v.columns \in Seq(Columns)
        /\ LabelColumns(v.labels) \in Seq(Columns)
        /\ BuildColumnPool(v, namespace) \in Seq(Columns) \ {<<>>}
        /\ columns \in Seq(Columns)
    BY <2>5, PoolHasColumns DEF ListViews
  <2>. HIDE DEF columns
  <2>7. ToSet(columns) \subseteq Columns /\ ToSet(v.columns) \subseteq Columns
    BY <2>6 DEF ToSet
  <2>8. m \in GoodMessages
    BY <2>6, <2>7 DEF GoodMessages
  <2>. HIDE DEF m
  <2>9. GoodStack(stack', eventViews)
    BY <2>3, <2>4, Replaces DEF GoodView
  <2>. QED
    BY <2>3, <2>8, <2>9 DEF PanelsInv, SettingsInv, Unmoved
<1>3. CASE ShowEvents
  <2>. DEFINE v == NewEvents(eventViews', 1)
  <2>1. /\ eventViews' = eventViews + 1 /\ Len(stack) < MaxStack
        /\ stack' = Append(stack, v) /\ reading' = reading \cup {eventViews'}
        /\ messages' = messages /\ Unmoved
    BY <1>3 DEF ShowEvents, NewEventView
  <2>2. eventViews \in Nat /\ eventViews' \in Nat /\ eventViews <= eventViews'
    BY <2>1, Settings
  <2>3. GoodView(v, eventViews')
    <3>1. eventViews' \in 1 .. eventViews'
      BY <2>1, <2>2
    <3>2. GoodEvents(v, eventViews')
      BY <2>2, <3>1 DEF GoodEvents, EventViews, NewEvents
    <3>. QED
      BY <3>2 DEF GoodView
  <2>. HIDE DEF v
  <2>4. GoodStack(stack, eventViews')
    BY <2>2, Settings, GoodViewLater DEF GoodStack
  <2>5. GoodStack(stack', eventViews')
    BY <2>1, <2>2, <2>3, <2>4, AppendedGood
  <2>6. reading' \subseteq 1 .. eventViews'
    BY <2>1, <2>2 DEF PanelsInv
  <2>. QED
    BY <2>1, <2>2, <2>5, <2>6 DEF PanelsInv, SettingsInv, Unmoved
<1>. QED
  BY <1>1, <1>2, <1>3 DEF KeyOfList

\* A command for the events of an item pushes its list, its details and its events.
LEMMA EventsCommandKeeps ==
    ASSUME PanelsInv, NEW r \in Resources, CommandEvents(r)
    PROVE  PanelsInv' /\ Last(stack').kind = "events"
<1>. DEFINE made == eventViews + 1
            u    == Sized(NewList(r, "adapted", namespace), configs, namespace)
            list == IF Top.resource = r THEN stack ELSE Append(stack, u)
            e    == NewEvents(made, 0)
            with == list \o <<Detail, e>>
<1>1. /\ eventViews' = made /\ Len(list) + 2 <= MaxStack /\ stack' = with
      /\ UNCHANGED <<messages, reading>> /\ Unmoved
  BY DEF CommandEvents, NewEventView, Pushed
<1>2. eventViews \in Nat /\ made \in Nat /\ eventViews <= made /\ MaxStack \in Nat
  <2>1. eventViews \in Nat
    BY Settings
  <2>2. MaxStack \in Nat
    BY PanelsConstants
  <2>. QED
    BY ONLY <2>1, <2>2
<1>3. GoodView(e, made) /\ GoodView(Detail, made)
  <2>1. made \in 1 .. made
    BY <1>2
  <2>2. GoodEvents(e, made)
    BY <1>2, <2>1 DEF GoodEvents, EventViews, NewEvents
  <2>. QED
    BY <2>2 DEF GoodView
<1>4. GoodView(u, eventViews)
  BY NewSizedGood DEF Forms
<1>5. GoodStack(stack, made)
  BY <1>2, Settings, GoodViewLater DEF GoodStack
<1>. HIDE DEF u, e
<1>6. GoodView(u, made)
  BY <1>2, <1>4, GoodViewLater
<1>. HIDE DEF made
<1>7. GoodStack(list, made)
  <2>1. CASE Top.resource = r
    BY <1>5, <2>1
  <2>2. CASE Top.resource # r
    <3>1. list = Append(stack, u)
      BY <2>2
    <3>2. Len(stack) < MaxStack
      <4>1. stack \in Seq(Views) /\ u \in Views
        BY <1>5, <1>6, KindsOfViews DEF GoodStack
      <4>2. Len(list) = Len(stack) + 1 /\ Len(stack) \in Nat
        BY <3>1, <4>1, AppendProperties
      <4>. QED
        BY <1>1, <1>2, <4>2
    <3>. QED
      BY <1>2, <1>5, <1>6, <3>1, <3>2, AppendedGood
  <2>. QED
    BY <2>1, <2>2
<1>. HIDE DEF list
<1>8. GoodStack(with, made) /\ Last(with) = e
  <2>. DEFINE two == <<Detail, e>>
  <2>1. Detail \in Views /\ e \in Views
    BY <1>3, KindsOfViews
  <2>2. /\ two \in Seq(Views) /\ Len(two) = 2 /\ two[1] = Detail /\ two[2] = e
    BY <2>1
  <2>3. list \in Seq(Views) /\ Len(list) \in Nat /\ Len(list) >= 1
    BY <1>7, TopGood DEF GoodStack
  <2>. HIDE DEF two
  <2>4. /\ list \o two \in Seq(Views) /\ Len(list \o two) = Len(list) + 2
        /\ \A i \in 1 .. Len(list) + 2 :
              (list \o two)[i] = IF i <= Len(list) THEN list[i] ELSE two[i - Len(list)]
    <3>1. /\ list \o two \in Seq(Views) /\ Len(list \o two) = Len(list) + Len(two)
          /\ \A i \in 1 .. Len(list) + Len(two) :
                (list \o two)[i] = IF i <= Len(list) THEN list[i] ELSE two[i - Len(list)]
      BY <2>2, <2>3, ConcatProperties
    <3>. QED
      BY <2>2, <3>1
  <2>5. \A i \in 1 .. Len(list) + 2 :
           \/ i \in 1 .. Len(list) /\ i <= Len(list)
           \/ i - Len(list) \in {1, 2} /\ ~ (i <= Len(list))
    BY <2>3
  <2>6. \A i \in 1 .. Len(list) + 2 : GoodView((list \o two)[i], made)
    <3>. TAKE i \in 1 .. Len(list) + 2
    <3>1. CASE i \in 1 .. Len(list) /\ i <= Len(list)
      BY <1>7, <2>4, <3>1 DEF GoodStack
    <3>2. CASE i - Len(list) \in {1, 2} /\ ~ (i <= Len(list))
      BY <1>3, <2>2, <2>4, <3>2
    <3>. QED
      BY <2>5, <3>1, <3>2
  <2>7. list \o two # <<>>
    BY <2>3, <2>4
  <2>8. with = list \o two
    BY DEF two
  <2>9. Last(list \o two) = e
    <3>1. /\ Len(list) + 2 \in 1 .. Len(list) + 2 /\ ~ (Len(list) + 2 <= Len(list))
          /\ (Len(list) + 2) - Len(list) = 2
      BY <2>3
    <3>2. (list \o two)[Len(list) + 2] = e
      BY <2>2, <2>4, <3>1
    <3>. QED
      BY <2>4, <3>2 DEF Last
  <2>. QED
    BY <1>1, <2>4, <2>6, <2>7, <2>8, <2>9 DEF GoodStack
<1>9. reading' \subseteq 1 .. made
  <2>1. reading \subseteq 1 .. eventViews
    BY DEF PanelsInv
  <2>2. \A i \in 1 .. eventViews : i \in 1 .. made
    BY <1>2
  <2>. QED
    BY <1>1, <2>1, <2>2
<1>10. e.kind = "events"
  BY DEF e, NewEvents
<1>. HIDE DEF with
<1>11. PanelsInv'
  BY <1>1, <1>2, <1>8, <1>9 DEF PanelsInv, SettingsInv, Unmoved
<1>. QED
  BY <1>1, <1>8, <1>10, <1>11

\* What a goroutine has read is on its way, and the view on top shows what it is given.
LEMMA EventsKeep ==
    ASSUME PanelsInv,
           (\E id \in reading : EventsRead(id)) \/ (\E m \in messages : EventsAnswered(m))
    PROVE  PanelsInv'
<1>1. ASSUME NEW id \in reading, EventsRead(id)
      PROVE  PanelsInv'
  <2>1. PICK answer \in {"lines", "none", "error"} :
           messages' = messages \cup
              {[kind |-> "events", view |-> id, request |-> 1, answer |-> answer]}
    BY <1>1 DEF EventsRead
  <2>2. id \in Nat
    BY Settings DEF PanelsInv
  <2>3. [kind |-> "events", view |-> id, request |-> 1, answer |-> answer] \in GoodMessages
    BY <2>2 DEF GoodMessages
  <2>4. messages' \subseteq GoodMessages
    BY <2>1, <2>3 DEF PanelsInv
  <2>5. reading' \subseteq reading /\ UNCHANGED <<stack, eventViews>> /\ Unmoved
    BY <1>1 DEF EventsRead, countVars
  <2>. QED
    BY <2>4, <2>5 DEF PanelsInv, SettingsInv, Unmoved
<1>2. ASSUME NEW m \in messages, EventsAnswered(m)
      PROVE  PanelsInv'
  <2>1. /\ messages' \subseteq messages /\ UNCHANGED <<reading, eventViews>> /\ Unmoved
    BY <1>2 DEF EventsAnswered, countVars
  <2>2. GoodStack(stack', eventViews)
    <3>1. CASE Top.kind = "events" /\ Top.request = m.request
      <4>. DEFINE v == [Top EXCEPT !.shown = ShownOf(Top, m)]
      <4>1. ReplaceTop(v)
        BY <1>2, <3>1 DEF EventsAnswered
      <4>2. m.answer \in {"lines", "none", "error"}
        <5>1. m \in GoodMessages /\ m.kind = "events"
          BY <1>2 DEF EventsAnswered, PanelsInv
        <5>. QED
          BY <5>1 DEF GoodMessages
      <4>3. ShownOf(Top, m) \in {"loading", "lines", "no recent events", "own lines"}
        BY <4>2 DEF ShownOf
      <4>4. GoodEvents(Top, eventViews)
        BY <3>1, Settings, KindsOfViews
      <4>5. GoodEvents(v, eventViews)
        BY <4>3, <4>4 DEF GoodEvents, EventViews
      <4>. HIDE DEF v
      <4>. QED
        BY <4>1, <4>5, Replaces DEF GoodView
    <3>2. CASE ~ (Top.kind = "events" /\ Top.request = m.request)
      BY <1>2, <3>2, Settings DEF EventsAnswered
    <3>. QED
      BY <3>1, <3>2
  <2>. QED
    BY <2>1, <2>2 DEF PanelsInv, SettingsInv, Unmoved
<1>. QED
  BY <1>1, <1>2

\* The column picker opens on the first column there is (columnpicker.go, New).
LEMMA PickerOpens ==
    ASSUME PanelsInv, NEW m \in messages, OpenColumnPicker(m)
    PROVE  PanelsInv'
<1>. DEFINE rest == IF m.labels = <<>> THEN <<>> ELSE <<"labels">> \o m.labels
            s    == <<"built-in">> \o m.pool
            rows == s \o rest
            Rows == Columns \cup Headers
            p    == [resource |-> m.resource, rows |-> rows, pool |-> m.pool \o m.labels,
                     defaults |-> m.defaults,
                     checked |-> {i \in DOMAIN rows : rows[i] \in m.current},
                     cursor |-> IF m.pool = <<>> THEN 1 ELSE 2]
<1>1. m \in GoodMessages /\ m.kind = "open picker"
  BY DEF OpenColumnPicker, PanelsInv
<1>2. /\ m.resource \in Resources /\ m.pool \in Seq(Columns) /\ m.pool # <<>>
      /\ m.labels \in Seq(Columns) /\ m.defaults \in SUBSET Columns
  BY <1>1 DEF GoodMessages
<1>3. colPicker' = p
  BY DEF OpenColumnPicker, NewColumnPicker
<1>4. m.pool \in Seq(Rows) /\ m.labels \in Seq(Rows)
  BY <1>2, SeqMonotonic
<1>5. <<"built-in">> \in Seq(Rows) /\ <<"labels">> \in Seq(Rows)
  <2>1. "built-in" \in Rows /\ "labels" \in Rows
    BY DEF Headers
  <2>. QED
    BY <2>1
<1>6. rest \in Seq(Rows)
  BY <1>4, <1>5, ConcatProperties
<1>7. /\ s \in Seq(Rows) /\ Len(s) >= 2 /\ Len(s) \in Nat /\ s[2] = m.pool[1] /\ m.pool[1] \in Columns
  <2>. DEFINE a == <<"built-in">>
  <2>1. Len(a) = 1 /\ a \in Seq(Rows)
    BY <1>5
  <2>2. Len(m.pool) \in Nat /\ Len(m.pool) >= 1 /\ m.pool[1] \in Columns
    BY <1>2
  <2>. HIDE DEF a
  <2>3. /\ a \o m.pool \in Seq(Rows) /\ Len(a \o m.pool) = Len(a) + Len(m.pool)
        /\ \A i \in 1 .. Len(a) + Len(m.pool) :
              (a \o m.pool)[i] = IF i <= Len(a) THEN a[i] ELSE m.pool[i - Len(a)]
    BY <1>4, <2>1, ConcatProperties
  <2>4. 2 \in 1 .. Len(a) + Len(m.pool) /\ ~ (2 <= Len(a)) /\ 2 - Len(a) = 1
    BY <2>1, <2>2
  <2>5. (a \o m.pool)[2] = m.pool[1]
    BY <2>3, <2>4
  <2>6. Len(a \o m.pool) \in Nat /\ Len(a \o m.pool) >= 2
    BY <2>1, <2>2, <2>3
  <2>. QED
    BY <2>2, <2>3, <2>5, <2>6 DEF a
<1>. HIDE DEF s, rest
<1>8. /\ rows \in Seq(Rows) /\ 2 \in DOMAIN rows /\ rows[2] = m.pool[1]
  <2>1. /\ rows \in Seq(Rows) /\ Len(rows) = Len(s) + Len(rest) /\ Len(rest) \in Nat
        /\ \A i \in 1 .. Len(s) + Len(rest) :
              rows[i] = IF i <= Len(s) THEN s[i] ELSE rest[i - Len(s)]
    BY <1>6, <1>7, ConcatProperties
  <2>2. 2 \in 1 .. Len(s) + Len(rest) /\ 2 <= Len(s)
    BY <1>7, <2>1
  <2>. QED
    BY <1>7, <2>1, <2>2
<1>9. m.pool \o m.labels \in Seq(Columns)
  BY <1>2, ConcatProperties
<1>. HIDE DEF rows
<1>10. DOMAIN rows \subseteq Nat
  BY <1>8
<1>11. /\ p \in [resource : Resources, rows : Seq(Rows), pool : Seq(Columns),
                 defaults : SUBSET Columns, checked : SUBSET Nat, cursor : Nat]
       /\ p.rows = rows /\ p.cursor = 2
  BY <1>2, <1>8, <1>9, <1>10
<1>. HIDE DEF p
<1>12. Selectable(p, p.cursor)
  BY <1>7, <1>8, <1>11, PanelsConstants DEF Selectable
<1>13. GoodPicker(p)
  BY <1>11, <1>12 DEF GoodPicker
<1>14. /\ messages' \subseteq messages
       /\ UNCHANGED <<stack, configs, namespace, labelled, window, overlay, reading, eventViews>>
  BY DEF OpenColumnPicker, countVars
<1>. QED
  BY <1>3, <1>13, <1>14 DEF PanelsInv, SettingsInv

\* The next column that way is there if there is one (columnpicker.go, moveCursor).
LEMMA NextColumnIsThere ==
    ASSUME NEW n \in Nat, NEW there, there \subseteq 1 .. n, there # {}, NEW step \in {-1, 1}
    PROVE  (CHOOSE i \in there : \A j \in there : (j - i) * step >= 0) \in there
<1>1. \E i \in there : \A j \in there : (j - i) * step >= 0
  <2>1. CASE step = 1
    <3>0. there \subseteq Nat
      OBVIOUS
    <3>1. Min(there) \in there /\ \A j \in there : Min(there) <= j
      BY <3>0, MinOfNumbers
    <3>2. PICK i \in there : \A j \in there : i <= j
      BY <3>1
    <3>3. \A j \in there : (j - i) * 1 >= 0
      BY <3>2
    <3>. QED
      BY <2>1, <3>3
  <2>2. CASE step = -1
    <3>1. Max(there) \in there /\ \A j \in there : j <= Max(there)
      BY MaxOfNumbers
    <3>2. PICK i \in there : \A j \in there : j <= i
      BY <3>1
    <3>3. \A j \in there : (j - i) * (-1) >= 0
      BY <3>2
    <3>. QED
      BY <2>2, <3>3
  <2>. QED
    BY <2>1, <2>2
<1>. QED
  BY <1>1

\* Keys of the column picker: its cursor stays on a column.
LEMMA PickerKeeps ==
    ASSUME PanelsInv, KeyOfColumnPicker
    PROVE  PanelsInv'
<1>. DEFINE Records ==
                [resource : Resources, rows : Seq(Columns \cup Headers), pool : Seq(Columns),
                 defaults : SUBSET Columns, checked : SUBSET Nat, cursor : Nat]
<1>1. colPicker # None /\ colPicker \in Records /\ Selectable(colPicker, colPicker.cursor)
  BY DEF KeyOfColumnPicker, ToggleColumn, CheckColumns, CloseColumnPicker, PickColumns,
         KeysReachColumnPicker, PanelsInv, GoodPicker
<1>2. /\ DOMAIN colPicker.rows = 1 .. Len(colPicker.rows) /\ Len(colPicker.rows) \in Nat
      /\ DOMAIN colPicker.rows \subseteq Nat
      /\ colPicker.checked \subseteq Nat /\ colPicker.cursor \in Nat
      /\ colPicker.pool \in Seq(Columns) /\ colPicker.resource \in Resources
  BY <1>1
<1>3. ASSUME NEW p, PickerBecomes(p), p # None => GoodPicker(p)
      PROVE  PanelsInv'
  BY <1>3 DEF PickerBecomes, PanelsInv, SettingsInv, countVars
<1>4. ASSUME NEW step \in {-1, 1}, MoveInPicker(step)
      PROVE  PanelsInv'
  <2>. DEFINE there == {i \in DOMAIN colPicker.rows :
                          Selectable(colPicker, i) /\ (i - colPicker.cursor) * step > 0}
              i == CHOOSE i \in there : \A j \in there : (j - i) * step >= 0
              p == [colPicker EXCEPT !.cursor = i]
  <2>1. there # {} /\ PickerBecomes(p)
    BY <1>4 DEF MoveInPicker
  <2>2. there \subseteq 1 .. Len(colPicker.rows)
    BY <1>2
  <2>3. \A k \in there : Selectable(colPicker, k)
    OBVIOUS
  <2>. HIDE DEF there
  <2>4. i \in there
    BY <1>2, <2>1, <2>2, NextColumnIsThere
  <2>5. i \in Nat /\ Selectable(colPicker, i)
    BY <1>2, <2>2, <2>3, <2>4
  <2>. HIDE DEF i
  <2>6. p \in Records /\ p.rows = colPicker.rows /\ p.cursor = i
    BY <1>1, <2>5
  <2>. HIDE DEF p
  <2>7. GoodPicker(p)
    BY <2>5, <2>6 DEF GoodPicker, Selectable
  <2>. QED
    BY <1>3, <2>1, <2>7
<1>5. ASSUME NEW rows \in SUBSET Nat, PickerBecomes([colPicker EXCEPT !.checked = rows])
      PROVE  PanelsInv'
  <2>. DEFINE p == [colPicker EXCEPT !.checked = rows]
  <2>1. p \in Records /\ p.rows = colPicker.rows /\ p.cursor = colPicker.cursor
    BY <1>1
  <2>2. PickerBecomes(p)
    BY <1>5
  <2>. HIDE DEF p
  <2>3. GoodPicker(p)
    BY <1>1, <2>1 DEF GoodPicker, Selectable
  <2>. QED
    BY <1>3, <2>2, <2>3
<1>6. CASE ToggleColumn
  <2>. DEFINE rows == IF colPicker.cursor \in colPicker.checked
                      THEN colPicker.checked \ {colPicker.cursor}
                      ELSE colPicker.checked \cup {colPicker.cursor}
  <2>1. rows \in SUBSET Nat
    BY <1>2
  <2>2. PickerBecomes([colPicker EXCEPT !.checked = rows])
    BY <1>6 DEF ToggleColumn
  <2>. HIDE DEF rows
  <2>. QED
    BY <1>5, <2>1, <2>2
<1>7. CASE CheckColumns
  <2>. DEFINE all == {i \in DOMAIN colPicker.rows : Selectable(colPicker, i)}
  <2>1. PICK rows \in {all, {}, {i \in all : colPicker.rows[i] \in colPicker.defaults}} :
           PickerBecomes([colPicker EXCEPT !.checked = rows])
    BY <1>7 DEF CheckColumns
  <2>2. all \subseteq Nat
    BY <1>2
  <2>. HIDE DEF all
  <2>3. rows \in SUBSET Nat
    BY <2>1, <2>2
  <2>. QED
    BY <1>5, <2>1, <2>3
<1>8. CASE CloseColumnPicker
  BY <1>3, <1>8 DEF CloseColumnPicker
<1>9. CASE PickColumns
  <2>. DEFINE m == [kind |-> "picked", resource |-> colPicker.resource,
                    visible |-> VisibleIDs(colPicker)]
  <2>1. /\ colPicker' = None /\ messages' = messages \cup {m}
        /\ UNCHANGED <<stack, configs, namespace, labelled, window, overlay, reading, eventViews>>
    BY <1>9 DEF PickColumns, Send, countVars
  <2>2. VisibleIDs(colPicker) \in Seq(Columns)
    BY <1>2, ThoseAre DEF VisibleIDs
  <2>3. m \in GoodMessages
    BY <1>2, <2>2 DEF GoodMessages
  <2>. HIDE DEF m
  <2>. QED
    BY <2>1, <2>3 DEF PanelsInv, SettingsInv
<1>. QED
  BY <1>4, <1>6, <1>7, <1>8, <1>9 DEF KeyOfColumnPicker

\* The columns picked are the choice for their resource, which the list on top shows.
LEMMA ColumnsPickedKeep ==
    ASSUME PanelsInv, NEW m \in messages, ColumnsPicked(m)
    PROVE  /\ PanelsInv'
           /\ \/ UNCHANGED stack
              \/ Last(stack').kind = "list" /\ Chosen(Last(stack'), configs', namespace')
<1>1. /\ messages' \subseteq messages
      /\ UNCHANGED <<namespace, labelled, window, overlay, colPicker, reading, eventViews>>
  BY DEF ColumnsPicked, countVars
<1>2. CASE TakesColumns(Top, m)
  <2>. DEFINE config == [configs EXCEPT ![m.resource] = m.visible]
              v == RefreshItems(Top, config, namespace)
  <2>1. configs' = config /\ ReplaceTop(v)
    BY <1>2 DEF ColumnsPicked
  <2>2. m \in GoodMessages /\ m.kind = "picked"
    BY DEF ColumnsPicked, PanelsInv
  <2>3. m.resource \in Resources /\ m.visible \in Seq(Columns)
    BY <2>2 DEF GoodMessages
  <2>4. GoodConfigs(config)
    BY <2>3, Settings DEF GoodConfigs
  <2>. HIDE DEF config
  <2>5. Top \in ListViews
    BY <1>2, Settings, KindsOfViews DEF TakesColumns, GoodList
  <2>6. GoodList(v) /\ Chosen(v, config, namespace)
    BY <2>4, <2>5, Settings, RefreshedList
  <2>. HIDE DEF v
  <2>7. GoodView(v, eventViews) /\ v.kind = "list"
    BY <2>6 DEF GoodView, GoodList, ListViews
  <2>8. GoodStack(stack', eventViews) /\ Last(stack') = v
    BY <2>1, <2>7, Replaces
  <2>9. PanelsInv'
    BY <1>1, <2>1, <2>4, <2>8 DEF PanelsInv, SettingsInv
  <2>. QED
    BY <1>1, <2>1, <2>6, <2>7, <2>8, <2>9
<1>3. CASE ~ TakesColumns(Top, m)
  BY <1>1, <1>3 DEF ColumnsPicked, PanelsInv, SettingsInv
<1>. QED
  BY <1>2, <1>3

\* The browser a key changes in its cursor, filter or mode is still a good one.
LEMMA BrowserKeyKeeps ==
    ASSUME PanelsInv, NEW v, GoodBrowser(v), BrowserKey(v)
    PROVE  PanelsInv' /\ Last(stack').kind = "browser"
<1>1. GoodView(v, eventViews) /\ v.kind = "browser"
  BY DEF GoodView, GoodBrowser, BrowserViews
<1>2. ReplaceTop(v) /\ UNCHANGED <<messages, reading, eventViews>> /\ Unmoved
  BY DEF BrowserKey, countVars
<1>. QED
  BY <1>1, <1>2, Replaces, OnlyViews

\* What such a key may change: the rest of a good browser is left alone.
LEMMA KeyedBrowser ==
    ASSUME NEW v, GoodBrowser(v),
           NEW filter \in {"none", "typing", "applied"}, NEW mode \in {"plain", "find", "sort"},
           NEW hits \in SUBSET Resources, NEW cursor \in DOMAIN v.order,
           filter = "none" => hits = Resources, filter = "typing" => mode = "plain"
    PROVE  GoodBrowser([v EXCEPT !.filter = filter, !.mode = mode, !.hits = hits,
                                 !.cursor = cursor])
<1>. DEFINE w == [v EXCEPT !.filter = filter, !.mode = mode, !.hits = hits, !.cursor = cursor]
<1>1. v \in BrowserViews /\ DOMAIN v.order = 1 .. Cardinality(Resources)
  BY CursorInBrowser
<1>2. cursor \in Nat
  <2>1. v.order \in Seq(Resources)
    BY <1>1 DEF BrowserViews
  <2>. QED
    BY <2>1
<1>4. /\ w \in BrowserViews
      /\ w.order = v.order /\ w.hits = hits /\ w.filter = filter /\ w.mode = mode
      /\ w.cursor = cursor /\ w.width = v.width /\ w.widths = v.widths
  BY <1>1, <1>2 DEF BrowserViews
<1>. HIDE DEF w
<1>5. GoodBrowser(w)
  BY <1>4 DEF GoodBrowser
<1>. QED
  BY <1>5 DEF w

\* The rows that can be seen are of the resources in the browser: there are no more.
LEMMA VisibleRows ==
    ASSUME NEW v, GoodBrowser(v)
    PROVE  /\ DOMAIN Visible(v) \subseteq DOMAIN v.order
           /\ \A i \in DOMAIN Visible(v) : Visible(v)[i] \in Resources
<1>1. v.order \in Seq(Resources)
  BY DEF GoodBrowser, BrowserViews
<1>2. Visible(v) \in Seq(Resources) /\ Len(Visible(v)) <= Len(v.order)
  BY <1>1, ThoseAre DEF Visible
<1>3. /\ DOMAIN Visible(v) = 1 .. Len(Visible(v)) /\ DOMAIN v.order = 1 .. Len(v.order)
      /\ Len(Visible(v)) \in Nat /\ Len(v.order) \in Nat
  BY <1>1, <1>2
<1>. QED
  BY <1>2, <1>3

\* Keys of the browser.
LEMMA BrowserKeysKeep ==
    ASSUME PanelsInv, KeyOfBrowser
    PROVE  /\ PanelsInv'
           /\ \/ Last(stack').kind = "browser"
              \/ Last(stack').kind = "list" /\ Chosen(Last(stack'), configs', namespace')
<1>. DEFINE Goal == /\ PanelsInv'
                    /\ \/ Last(stack').kind = "browser"
                       \/ Last(stack').kind = "list" /\ Chosen(Last(stack'), configs', namespace')
            Keyed(filter, mode, hits, cursor) ==
                [Top EXCEPT !.filter = filter, !.mode = mode, !.hits = hits, !.cursor = cursor]
<1>. SUFFICES Goal
  OBVIOUS
<1>1. Top.kind = "browser" /\ GoodBrowser(Top)
  <2>1. Top.kind = "browser"
    BY DEF KeyOfBrowser, MoveInBrowser, StartBrowserFilter, BrowserFilterMatches,
           AcceptBrowserFilter, CancelBrowserFilter, AskBrowser, FindInBrowser,
           SortKeyInBrowser, OpenFromBrowser, Browsing, TypingFilter
  <2>. QED
    BY <2>1, Settings, KindsOfViews
<1>2. /\ Top \in BrowserViews /\ DOMAIN Top.order = 1 .. Cardinality(Resources)
      /\ Top.cursor \in DOMAIN Top.order
      /\ Top.filter = "none" => Top.hits = Resources
      /\ Top.filter = "typing" => Top.mode = "plain"
  BY <1>1, CursorInBrowser DEF GoodBrowser
<1>3. /\ Top.filter \in {"none", "typing", "applied"} /\ Top.mode \in {"plain", "find", "sort"}
      /\ Top.hits \in SUBSET Resources /\ Top.sortCol \in DOMAIN BrowserCellWidths
      /\ Cardinality(Resources) \in Nat
      /\ 1 \in DOMAIN Top.order
  <2>1. Cardinality(Resources) \in Nat
    BY PanelsConstants, FS_CardinalityType
  <2>2. 1 \in DOMAIN Top.order
    BY <1>2, <2>1
  <2>. QED
    BY <1>2, <2>1, <2>2 DEF BrowserViews
<1>. HIDE DEF Goal
<1>4. ASSUME NEW w, BrowserKey(w), GoodBrowser(w)
      PROVE  Goal
  BY <1>4, BrowserKeyKeeps DEF Goal
<1>5. ASSUME NEW w, BrowserKey(w),
             NEW filter \in {"none", "typing", "applied"}, NEW mode \in {"plain", "find", "sort"},
             NEW hits \in SUBSET Resources, NEW cursor \in DOMAIN Top.order,
             filter = "none" => hits = Resources, filter = "typing" => mode = "plain",
             w = Keyed(filter, mode, hits, cursor)
      PROVE  Goal
  <2>1. GoodBrowser(w)
    BY <1>1, <1>5, KeyedBrowser
  <2>. QED
    BY <1>4, <1>5, <2>1
<1>6. /\ \A i : [Top EXCEPT !.cursor = i] = Keyed(Top.filter, Top.mode, Top.hits, i)
      /\ \A i : [Top EXCEPT !.filter = "typing", !.cursor = i] = Keyed("typing", Top.mode, Top.hits, i)
      /\ \A h : [Top EXCEPT !.hits = h] = Keyed(Top.filter, Top.mode, h, Top.cursor)
      /\ NoBrowserFilter(Top) = Keyed("none", Top.mode, Resources, Top.cursor)
      /\ [Top EXCEPT !.filter = "applied"] = Keyed("applied", Top.mode, Top.hits, Top.cursor)
      /\ \A mode : [Top EXCEPT !.mode = mode] = Keyed(Top.filter, mode, Top.hits, Top.cursor)
      /\ \A mode, i : [Top EXCEPT !.mode = mode, !.cursor = i]
                        = Keyed(Top.filter, mode, Top.hits, i)
  BY <1>2 DEF BrowserViews, NoBrowserFilter
<1>. HIDE DEF Keyed
<1>7. CASE MoveInBrowser
  <2>1. PICK i \in DOMAIN Visible(Top) : BrowserKey([Top EXCEPT !.cursor = i])
    BY <1>7 DEF MoveInBrowser
  <2>. DEFINE w == [Top EXCEPT !.cursor = i]
  <2>2. i \in DOMAIN Top.order
    BY <1>1, VisibleRows
  <2>3. BrowserKey(w) /\ w = Keyed(Top.filter, Top.mode, Top.hits, i)
    BY <1>6, <2>1
  <2>. HIDE DEF w
  <2>. QED
    BY <1>2, <1>3, <1>5, <2>2, <2>3
<1>8. CASE StartBrowserFilter
  <2>. DEFINE w == [Top EXCEPT !.filter = "typing", !.cursor = 1]
  <2>1. Top.mode = "plain" /\ BrowserKey(w) /\ w = Keyed("typing", Top.mode, Top.hits, 1)
    BY <1>6, <1>8 DEF StartBrowserFilter, Browsing
  <2>. HIDE DEF w
  <2>. QED
    BY <1>3, <1>5, <2>1
<1>9. CASE BrowserFilterMatches
  <2>1. PICK hits \in SUBSET Resources : BrowserKey([Top EXCEPT !.hits = hits])
    BY <1>9 DEF BrowserFilterMatches
  <2>. DEFINE w == [Top EXCEPT !.hits = hits]
  <2>2. Top.filter = "typing" /\ BrowserKey(w) /\ w = Keyed(Top.filter, Top.mode, hits, Top.cursor)
    BY <1>6, <1>9, <2>1 DEF BrowserFilterMatches, TypingFilter
  <2>. HIDE DEF w
  <2>. QED
    BY <1>2, <1>3, <1>5, <2>2
<1>10. ASSUME BrowserKey(NoBrowserFilter(Top))
       PROVE  Goal
  <2>. DEFINE w == NoBrowserFilter(Top)
  <2>1. BrowserKey(w) /\ w = Keyed("none", Top.mode, Resources, Top.cursor)
    BY <1>6, <1>10
  <2>. HIDE DEF w
  <2>. QED
    BY <1>2, <1>3, <1>5, <2>1
<1>11. CASE AcceptBrowserFilter
  <2>1. CASE Top.hits = {}
    BY <1>10, <1>11, <2>1 DEF AcceptBrowserFilter
  <2>2. CASE Top.hits # {}
    <3>. DEFINE w == [Top EXCEPT !.filter = "applied"]
    <3>1. BrowserKey(w) /\ w = Keyed("applied", Top.mode, Top.hits, Top.cursor)
      BY <1>6, <1>11, <2>2 DEF AcceptBrowserFilter
    <3>. HIDE DEF w
    <3>. QED
      BY <1>2, <1>3, <1>5, <3>1
  <2>. QED
    BY <2>1, <2>2
<1>12. ASSUME NEW mode \in {"plain", "find", "sort"}, BrowserKey([Top EXCEPT !.mode = mode]),
              Top.filter # "typing"
       PROVE  Goal
  <2>. DEFINE w == [Top EXCEPT !.mode = mode]
  <2>1. BrowserKey(w) /\ w = Keyed(Top.filter, mode, Top.hits, Top.cursor)
    BY <1>6, <1>12
  <2>. HIDE DEF w
  <2>. QED
    BY <1>2, <1>3, <1>5, <1>12, <2>1
<1>13. CASE FindInBrowser
  <2>1. PICK i \in {Top.cursor} \cup DOMAIN Visible(Top) :
           BrowserKey([Top EXCEPT !.mode = "plain", !.cursor = i])
    BY <1>13 DEF FindInBrowser
  <2>. DEFINE w == [Top EXCEPT !.mode = "plain", !.cursor = i]
  <2>2. i \in DOMAIN Top.order
    BY <1>1, <1>2, VisibleRows
  <2>3. BrowserKey(w) /\ w = Keyed(Top.filter, "plain", Top.hits, i)
    BY <1>6, <2>1
  <2>. HIDE DEF w
  <2>. QED
    BY <1>2, <1>3, <1>5, <2>2, <2>3
<1>14. CASE SortKeyInBrowser
  <2>0. Top.filter # "typing"
    BY <1>14 DEF SortKeyInBrowser, Browsing
  <2>1. CASE BrowserKey([Top EXCEPT !.mode = "plain"])
    BY <1>12, <2>0, <2>1
  <2>2. ASSUME NEW col \in DOMAIN BrowserCellWidths, NEW desc \in BOOLEAN, SortBrowser(col, desc)
        PROVE  Goal
    <3>. DEFINE w == [Top EXCEPT !.mode = "plain", !.sortCol = col, !.sortDesc = desc]
    <3>1. BrowserKey(RefreshBrowser(w))
      BY <2>2 DEF SortBrowser
    <3>2. /\ w \in BrowserViews /\ w.cursor = Top.cursor /\ w.mode = "plain"
      BY <1>2 DEF BrowserViews
    <3>. HIDE DEF w
    <3>3. GoodBrowser(RefreshBrowser(w))
      BY <1>2, <3>2, RefreshedBrowser
    <3>. QED
      BY <1>4, <3>1, <3>3
  <2>3. ASSUME NEW col \in DOMAIN BrowserCellWidths,
               SortBrowser(col, col = Top.sortCol /\ ~Top.sortDesc)
        PROVE  Goal
    <3>1. (col = Top.sortCol /\ ~Top.sortDesc) \in BOOLEAN
      OBVIOUS
    <3>. QED
      BY <2>2, <2>3, <3>1
  <2>. QED
    BY <1>14, <2>1, <2>2, <2>3 DEF SortKeyInBrowser
<1>15. CASE OpenFromBrowser
  <2>. DEFINE r == Visible(Top)[Top.cursor]
              v == Sized(NewList(r, "adapted", namespace), configs, namespace)
  <2>1. /\ Top.cursor \in DOMAIN Visible(Top) /\ Len(stack) < MaxStack
        /\ stack' = Append(stack, v)
        /\ UNCHANGED <<messages, reading, eventViews>> /\ Unmoved
    BY <1>15 DEF OpenFromBrowser, Pushed, countVars
  <2>2. r \in Resources
    BY <1>1, <2>1, VisibleRows
  <2>. HIDE DEF r
  <2>3. GoodView(v, eventViews) /\ v.kind = "list" /\ Chosen(v, configs, namespace)
    BY <2>2, NewSizedGood DEF Forms
  <2>. HIDE DEF v
  <2>4. GoodStack(stack', eventViews) /\ Last(stack') = v
    BY <2>1, <2>3, Settings, AppendedGood
  <2>5. configs' = configs /\ namespace' = namespace
    BY <2>1 DEF Unmoved
  <2>. QED
    BY <2>1, <2>3, <2>4, <2>5, OnlyViews DEF Goal
<1>. QED
  <2>1. CASE CancelBrowserFilter
    BY <1>10, <2>1 DEF CancelBrowserFilter
  <2>2. CASE AskBrowser("find") \/ AskBrowser("sort")
    BY <1>12, <2>2 DEF AskBrowser, Browsing
  <2>. QED
    BY <1>7, <1>8, <1>9, <1>11, <1>13, <1>14, <1>15, <2>1, <2>2 DEF KeyOfBrowser

\* A terminal of another size: the view on top is sized (app.go, WindowSizeMsg).
LEMMA ResizeKeeps ==
    ASSUME PanelsInv, NEW size \in Windows, Resize(size)
    PROVE  /\ PanelsInv'
           /\ \/ Last(stack') = Top
              \/ Last(stack').kind = "browser"
              \/ Last(stack').kind = "list" /\ Chosen(Last(stack'), configs', namespace')
<1>. DEFINE u == [Top EXCEPT !.width = size.width]
            v == IF Top.kind = "list" THEN RefreshItems(u, configs, namespace)
                 ELSE IF Top.kind = "browser" THEN RefreshBrowser(u) ELSE Top
<1>1. /\ window' = size /\ ReplaceTop(v)
      /\ UNCHANGED <<configs, namespace, labelled, overlay, colPicker, messages, reading, eventViews>>
  BY DEF Resize, Turn
<1>2. size.width \in Nat
  BY PanelsConstants
<1>3. CASE Top.kind = "list"
  <2>1. Top \in ListViews
    BY <1>3, Settings, KindsOfViews DEF GoodList
  <2>2. u \in ListViews
    BY <1>2, <2>1 DEF ListViews
  <2>3. v = RefreshItems(u, configs, namespace)
    BY <1>3
  <2>. HIDE DEF u, v
  <2>4. GoodList(v) /\ Chosen(v, configs, namespace)
    BY <2>2, <2>3, Settings, RefreshedList
  <2>5. GoodView(v, eventViews) /\ v.kind = "list"
    BY <2>4 DEF GoodView, GoodList, ListViews
  <2>6. GoodStack(stack', eventViews) /\ Last(stack') = v
    BY <1>1, <2>5, Replaces
  <2>7. PanelsInv'
    BY <1>1, <1>2, <2>6 DEF PanelsInv, SettingsInv
  <2>. QED
    BY <1>1, <2>4, <2>5, <2>6, <2>7
<1>4. CASE Top.kind = "browser"
  <2>1. GoodBrowser(Top)
    BY <1>4, Settings, KindsOfViews
  <2>2. /\ u \in BrowserViews /\ u.cursor \in 1 .. Cardinality(Resources)
        /\ u.filter = "typing" => u.mode = "plain"
    BY <1>2, <2>1, CursorInBrowser DEF BrowserViews, GoodBrowser
  <2>3. v = RefreshBrowser(u)
    BY <1>4
  <2>. HIDE DEF u, v
  <2>4. GoodBrowser(v)
    BY <2>2, <2>3, RefreshedBrowser
  <2>5. GoodView(v, eventViews) /\ v.kind = "browser"
    BY <2>4 DEF GoodView, GoodBrowser, BrowserViews
  <2>6. GoodStack(stack', eventViews) /\ Last(stack') = v
    BY <1>1, <2>5, Replaces
  <2>7. PanelsInv'
    BY <1>1, <1>2, <2>6 DEF PanelsInv, SettingsInv
  <2>. QED
    BY <2>5, <2>6, <2>7
<1>5. CASE Top.kind \notin {"list", "browser"}
  <2>1. v = Top
    BY <1>5
  <2>2. GoodStack(stack', eventViews) /\ Last(stack') = Top
    BY <1>1, <2>1, Settings, Replaces
  <2>. QED
    BY <1>1, <1>2, <2>2 DEF PanelsInv, SettingsInv
<1>. QED
  BY <1>3, <1>4, <1>5

\* Every step keeps the invariant.
LEMMA StepKeeps == PanelsInv /\ [Next]_vars => PanelsInv'
<1>. SUFFICES ASSUME PanelsInv, [Next]_vars
              PROVE  PanelsInv'
  OBVIOUS
<1>1. CASE UNCHANGED vars
  BY <1>1 DEF PanelsInv, SettingsInv, vars, countVars
<1>2. ASSUME NEW r \in Resources, OpenResource(r) \/ QueryItems(r) \/ CommandEvents(r)
      PROVE  PanelsInv'
  BY <1>2, OpenKeeps, EventsCommandKeeps
<1>3. CASE OpenBrowser \/ OpenHelp \/ Back
  BY <1>3, OpenKeeps
<1>4. CASE ToggleAllNamespaces \/ OpenNamespacePicker
  BY <1>4, ScopesKeep, OverlayOpens
<1>5. CASE KeyOfList \/ KeyOfBrowser \/ KeyOfOverlay \/ KeyOfColumnPicker
  BY <1>5, ListKeysKeep, BrowserKeysKeep, OverlayKeeps, PickerKeeps
<1>6. ASSUME NEW m \in messages,
             NamespaceSelected(m) \/ OpenColumnPicker(m) \/ ColumnsPicked(m) \/ EventsAnswered(m)
      PROVE  PanelsInv'
  BY <1>6, ScopesKeep, PickerOpens, ColumnsPickedKeep, EventsKeep
<1>7. ASSUME NEW id \in reading, EventsRead(id)
      PROVE  PanelsInv'
  BY <1>7, EventsKeep
<1>8. ASSUME NEW size \in Windows, Resize(size)
      PROVE  PanelsInv'
  BY <1>8, ResizeKeeps
<1>9. ASSUME NEW labels \in SUBSET Labels, LabelsChange(labels)
      PROVE  PanelsInv'
  BY <1>9 DEF LabelsChange, Turn, PanelsInv, SettingsInv
<1>. QED
  BY <1>1, <1>2, <1>3, <1>4, <1>5, <1>6, <1>7, <1>8, <1>9 DEF Next

-----------------------------------------------------------------------------
(* What follows.                                                           *)

\* Whatever keys, sizes and messages come, and in whatever order, the views, the
\* choices and the pickers are as they should be (app.go, listview.go,
\* resourcebrowser.go, columnpicker.go, overlaypicker.go).
THEOREM PanelsCorrect == Spec => []PanelsInv
<1>1. Init => PanelsInv
  BY InitGood
<1>2. PanelsInv /\ [Next]_vars => PanelsInv'
  BY StepKeeps
<1>. QED
  BY <1>1, <1>2, PTL DEF Spec

\* Views are what they are, a view of events has a number that was given out, and the
\* pickers stand on what can be picked: the type invariant.
THEOREM TypeCorrect == Spec => []TypeOK
<1>1. PanelsInv => TypeOK
  <2>. SUFFICES ASSUME PanelsInv
                PROVE  TypeOK
    OBVIOUS
  <2>1. /\ GoodConfigs(configs) /\ namespace \in Scopes /\ labelled \subseteq Labels
        /\ GoodStack(stack, eventViews)
    BY Settings
  <2>2. \A v : GoodList(v) => ListOK(v)
    BY DEF GoodList, ListViews, ListOK, Forms, Natural
  <2>3. \A v : GoodBrowser(v) => BrowserOK(v)
    BY DEF GoodBrowser, BrowserViews, BrowserOK
  <2>4. ASSUME NEW i \in DOMAIN stack
        PROVE  CASE stack[i].kind = "list"    -> ListOK(stack[i])
                 [] stack[i].kind = "browser" -> BrowserOK(stack[i])
                 [] stack[i].kind = "events"  -> stack[i].id \in 1 .. eventViews
                 [] OTHER                     -> stack[i] \in {Detail, Help}
    <3>. DEFINE v == stack[i]
    <3>1. i \in 1 .. Len(stack)
      BY <2>1 DEF GoodStack
    <3>2. GoodView(v, eventViews)
      BY <2>1, <3>1 DEF GoodStack
    <3>. HIDE DEF v
    <3>3. /\ v.kind = "list" => ListOK(v)
          /\ v.kind = "browser" => BrowserOK(v)
          /\ v.kind = "events" => v.id \in 1 .. eventViews
          /\ v.kind \notin {"list", "browser", "events"} => v \in {Detail, Help}
      BY <2>2, <2>3, <3>2, KindsOfViews DEF GoodEvents, GoodView
    <3>. QED
      BY <3>3 DEF v
  <2>5. stack # <<>> /\ Len(stack) <= MaxStack
    BY <2>1 DEF GoodStack
  <2>6. \A r \in Resources : configs[r] = None \/ configs[r] \in Seq(Columns)
    BY <2>1 DEF GoodConfigs
  <2>7. overlay # None =>
          overlay.cursor \in DOMAIN Filtered(overlay) \/ (overlay.cursor = 1 /\ overlay.filter = {})
    BY DEF PanelsInv, GoodOverlay
  <2>8. /\ colPicker # None => Selectable(colPicker, colPicker.cursor)
        /\ reading \subseteq 1 .. eventViews
    BY DEF PanelsInv, GoodPicker
  <2>. QED
    BY <2>1, <2>4, <2>5, <2>6, <2>7, <2>8 DEF TypeOK, Scopes
<1>. QED
  BY <1>1, PanelsCorrect, PTL

\* Whatever the columns, the cells and the widths of the terminal are, a row has a
\* width for each of its columns, no wider than its cells, and the table takes what it
\* needs or what there is (columnWidthsForRows of the list view and of the browser).
THEOREM TablesFitCorrect == Spec => []TablesFit
<1>1. PanelsInv => TablesFit
  <2>. SUFFICES ASSUME PanelsInv
                PROVE  TablesFit
    OBVIOUS
  <2>. DEFINE Fits(widths, natural, room) ==
                  /\ \A k \in DOMAIN natural : widths[k] \in 1 .. natural[k]
                  /\ Total(widths) = AtMost(Total(natural), room)
              ListFits(v) ==
                  /\ Len(v.widths) = Len(v.columns)
                  /\ v.width > 2 /\ Len(v.widths) > 0 =>
                        Fits(v.widths, [k \in 1 .. Len(v.widths) |-> CellWidth[v.columns[k]]],
                             AvailableContent(Len(v.widths), v.width - 2))
              BrowserFits(v) ==
                  LET room  == AvailableContent(Len(v.widths), v.width - 2)
                      least == Total(MinWidths(BrowserCellWidths))
                  IN  v.width > 2 =>
                         Fits(v.widths, BrowserCellWidths, IF room < least THEN least ELSE room)
  <2>1. ASSUME NEW v, GoodList(v)
        PROVE  ListFits(v)
    <3>. DEFINE n == Len(v.columns)
                natural == [k \in 1 .. n |-> CellWidth[v.columns[k]]]
                room == AvailableContent(n, v.width - 2)
    <3>1. /\ v.columns \in Seq(Columns) /\ v.width \in Nat
          /\ v.widths = WidthsFor(v.columns, v.width)
      BY <2>1 DEF GoodList, ListViews
    <3>2. /\ Len(v.widths) = n
          /\ v.width > 2 /\ n > 0 =>
                /\ \A k \in 1 .. n : v.widths[k] \in 1 .. natural[k]
                /\ Total(v.widths) = AtMost(Total(natural), room)
      BY <3>1, WidthsForColumns
    <3>3. DOMAIN natural = 1 .. n
      OBVIOUS
    <3>. QED
      BY <3>2, <3>3
  <2>2. ASSUME NEW v, GoodBrowser(v)
        PROVE  BrowserFits(v)
    <3>. DEFINE n == Len(BrowserCellWidths)
                room == AvailableContent(n, v.width - 2)
                least == Total(MinWidths(BrowserCellWidths))
    <3>1. /\ v.width \in Nat
          /\ v.widths = IF v.width = 0 THEN BrowserCellWidths
                        ELSE BrowserWidths(BrowserCellWidths, v.width - 2)
      BY <2>2 DEF GoodBrowser, BrowserViews
    <3>2. /\ Len(v.widths) = n
          /\ v.width > 2 =>
                /\ \A k \in 1 .. n : v.widths[k] \in 1 .. BrowserCellWidths[k]
                /\ Total(v.widths) = AtMost(Total(BrowserCellWidths),
                                            IF room < least THEN least ELSE room)
      BY <3>1, WidthsOfBrowser
    <3>3. DOMAIN BrowserCellWidths = 1 .. n
      BY PanelsConstants
    <3>. QED
      BY <3>2, <3>3
  <2>3. ASSUME NEW i \in DOMAIN stack
        PROVE  /\ stack[i].kind = "list" => ListFits(stack[i])
               /\ stack[i].kind = "browser" => BrowserFits(stack[i])
    <3>1. i \in 1 .. Len(stack) /\ GoodStack(stack, eventViews)
      BY Settings DEF GoodStack
    <3>2. GoodView(stack[i], eventViews)
      BY <3>1 DEF GoodStack
    <3>. QED
      BY <2>1, <2>2, <3>2, KindsOfViews
  <2>. QED
    BY <2>3 DEF TablesFit
<1>. QED
  BY <1>1, PanelsCorrect, PTL

\* What a step has to do with the lists it brings up.
Shows ==
    \/ Last(stack') = Last(stack) \/ Len(stack') < Len(stack)
    \/ Last(stack').kind # "list"
    \/ Chosen(Last(stack'), configs', namespace')

\* A view that is put on top, or alone on the stack, is the one on top.
LEMMA OnTop ==
    ASSUME PanelsInv, NEW v, GoodView(v, eventViews)
    PROVE  /\ stack' = <<v>> => Last(stack') = v
           /\ stack' = Append(stack, v) => Last(stack') = v
<1>1. Last(<<v>>) = v
  BY DEF Last
<1>2. stack \in Seq(Views) /\ v \in Views
  BY Settings, KindsOfViews DEF GoodStack
<1>3. Last(Append(stack, v)) = v
  BY <1>2, AppendProperties DEF Last
<1>. QED
  BY <1>1, <1>3

\* A key that opens a view brings a list up as it was chosen, or another view.
LEMMA OpenShows ==
    ASSUME PanelsInv,
           (\E r \in Resources : OpenResource(r) \/ QueryItems(r))
             \/ OpenBrowser \/ OpenHelp \/ Back
    PROVE  Shows
<1>1. ASSUME NEW r \in Resources, OpenResource(r) \/ QueryItems(r)
      PROVE  Shows
  <2>1. PICK form \in {"adapted", "query"} :
           LET v == Sized(NewList(r, form, namespace), configs, namespace)
           IN  stack' = <<v>> \/ stack' = Append(stack, v)
    BY <1>1 DEF OpenResource, QueryItems, Pushed
  <2>. DEFINE v == Sized(NewList(r, form, namespace), configs, namespace)
  <2>2. GoodView(v, eventViews) /\ Chosen(v, configs, namespace)
    BY NewSizedGood DEF Forms
  <2>3. stack' = <<v>> \/ stack' = Append(stack, v)
    BY <2>1
  <2>4. configs' = configs /\ namespace' = namespace
    BY <1>1 DEF OpenResource, QueryItems, Unmoved
  <2>. HIDE DEF v
  <2>5. Last(stack') = v
    BY <2>2, <2>3, OnTop
  <2>. QED
    BY <2>2, <2>4, <2>5 DEF Shows
<1>2. CASE OpenBrowser
  <2>. DEFINE v == Sized(NewBrowser, configs, namespace)
  <2>1. GoodView(NewBrowser, eventViews) /\ NewBrowser.kind = "browser"
    BY NewBrowserGood DEF GoodView, NewBrowser
  <2>2. GoodView(v, eventViews) /\ v.kind = "browser"
    BY <2>1, Settings, SizedGood
  <2>3. stack' = <<v>>
    BY <1>2 DEF OpenBrowser
  <2>. HIDE DEF v
  <2>. QED
    BY <2>2, <2>3, OnTop DEF Shows
<1>3. CASE OpenHelp
  <2>1. GoodView(Help, eventViews) /\ Help.kind # "list" /\ stack' = Append(stack, Help)
    BY <1>3 DEF GoodView, OpenHelp, Help
  <2>. QED
    BY <2>1, OnTop DEF Shows
<1>4. CASE Back
  <2>1. Len(stack') = Len(stack) - 1 /\ Len(stack) \in Nat
    BY <1>4, Settings, FrontGood DEF Back
  <2>. QED
    BY <2>1 DEF Shows
<1>. QED
  BY <1>1, <1>2, <1>3, <1>4

\* A key of a list leaves it with the columns chosen, or shows events.
LEMMA ListKeysShow ==
    ASSUME PanelsInv, KeyOfList
    PROVE  Shows
<1>1. CASE ToggleWide
  <2>. DEFINE u == [Top EXCEPT !.wide = ~@]
              v == RefreshColumns(u, namespace)
  <2>1. GoodList(Top)
    BY <1>1, Settings, KindsOfViews DEF ToggleWide
  <2>2. u \in ListViews
    BY <2>1 DEF GoodList, ListViews
  <2>3. ReplaceTop(v) /\ configs' = configs /\ namespace' = namespace
    BY <1>1 DEF ToggleWide, Unmoved
  <2>. HIDE DEF u
  <2>4. GoodView(v, eventViews) /\ Chosen(v, configs, namespace)
    BY <2>2, Settings, RefreshedColumns DEF GoodView
  <2>. HIDE DEF v
  <2>5. Last(stack') = v
    BY <2>3, <2>4, Replaces
  <2>. QED
    BY <2>3, <2>4, <2>5 DEF Shows
<1>2. CASE AskForColumns
  <2>. DEFINE u == [Top EXCEPT !.wide = FALSE]
              v == IF Top.wide THEN RefreshColumns(u, namespace) ELSE Top
  <2>1. GoodList(Top)
    BY <1>2, Settings, KindsOfViews DEF AskForColumns
  <2>2. u \in ListViews
    BY <2>1 DEF GoodList, ListViews
  <2>3. ReplaceTop(v) /\ configs' = configs /\ namespace' = namespace
    BY <1>2 DEF AskForColumns, Unmoved
  <2>. HIDE DEF u
  <2>4. GoodView(v, eventViews) /\ (v = Top \/ Chosen(v, configs, namespace))
    BY <2>1, <2>2, Settings, RefreshedColumns DEF GoodView
  <2>. HIDE DEF v
  <2>5. Last(stack') = v
    BY <2>3, <2>4, Replaces
  <2>. QED
    BY <2>3, <2>4, <2>5 DEF Shows, Top
<1>3. CASE ShowEvents
  <2>1. stack' = Append(stack, NewEvents(eventViews', 1))
    BY <1>3 DEF ShowEvents
  <2>2. Len(stack) \in Nat /\ stack \in Seq(Views)
    BY Settings DEF GoodStack
  <2>3. Last(stack') = NewEvents(eventViews', 1)
    BY <2>1, <2>2 DEF Last
  <2>. QED
    BY <2>3 DEF Shows, NewEvents
<1>. QED
  BY <1>1, <1>2, <1>3 DEF KeyOfList

\* An answer changes a view of events, or none.
LEMMA AnswersShow ==
    ASSUME PanelsInv, NEW m \in messages, EventsAnswered(m)
    PROVE  Shows
<1>1. CASE Top.kind = "events" /\ Top.request = m.request
  <2>. DEFINE v == [Top EXCEPT !.shown = ShownOf(Top, m)]
  <2>1. stack' = Append(Front(stack), v)
    BY <1>1 DEF EventsAnswered, ReplaceTop
  <2>2. v.kind = "events"
    <3>1. GoodEvents(Top, eventViews)
      BY <1>1, Settings, KindsOfViews
    <3>. QED
      BY <3>1 DEF GoodEvents, EventViews
  <2>. HIDE DEF v
  <2>3. Front(stack) \in Seq(Views) /\ Len(Front(stack)) \in Nat
    <3>1. Front(stack) \in Seq(Views)
      BY Settings, FrontGood
    <3>. QED
      BY <3>1
  <2>4. Last(stack') = v
    BY <2>1, <2>3 DEF Last
  <2>. QED
    BY <2>2, <2>4 DEF Shows
<1>2. CASE ~ (Top.kind = "events" /\ Top.request = m.request)
  BY <1>2 DEF EventsAnswered, Shows
<1>. QED
  BY <1>1, <1>2

\* What every step shows.
LEMMA StepShows ==
    ASSUME PanelsInv, [Next]_vars
    PROVE  Shows
<1>1. ASSUME UNCHANGED stack
      PROVE  Shows
  BY <1>1 DEF Shows
<1>2. CASE UNCHANGED vars
  BY <1>1, <1>2 DEF vars
<1>3. ASSUME NEW r \in Resources, OpenResource(r) \/ QueryItems(r) \/ CommandEvents(r)
      PROVE  Shows
  BY <1>3, OpenShows, EventsCommandKeeps DEF Shows
<1>4. CASE OpenBrowser \/ OpenHelp \/ Back
  BY <1>4, OpenShows
<1>5. CASE ToggleAllNamespaces
  BY <1>5, ScopesKeep DEF Shows
<1>6. CASE OpenNamespacePicker \/ KeyOfOverlay \/ KeyOfColumnPicker
  BY <1>1, <1>6
     DEF OpenNamespacePicker, KeyOfOverlay, MoveInOverlay, OverlayBecomes, UntypeInOverlay,
         TypeInOverlay, CloseOverlay, PickNamespace, KeyOfColumnPicker, MoveInPicker,
         PickerBecomes, ToggleColumn, CheckColumns, CloseColumnPicker, PickColumns
<1>7. CASE KeyOfList
  BY <1>7, ListKeysShow
<1>8. CASE KeyOfBrowser
  BY <1>8, BrowserKeysKeep DEF Shows
<1>9. ASSUME NEW m \in messages,
             NamespaceSelected(m) \/ OpenColumnPicker(m) \/ ColumnsPicked(m) \/ EventsAnswered(m)
      PROVE  Shows
  <2>1. CASE NamespaceSelected(m)
    BY <2>1, ScopesKeep DEF Shows
  <2>2. CASE OpenColumnPicker(m)
    BY <1>1, <2>2 DEF OpenColumnPicker
  <2>3. CASE ColumnsPicked(m)
    BY <1>1, <2>3, ColumnsPickedKeep DEF Shows
  <2>4. CASE EventsAnswered(m)
    BY <2>4, AnswersShow
  <2>. QED
    BY <1>9, <2>1, <2>2, <2>3, <2>4
<1>10. ASSUME NEW id \in reading, EventsRead(id)
       PROVE  Shows
  BY <1>1, <1>10 DEF EventsRead
<1>11. ASSUME NEW size \in Windows, Resize(size)
       PROVE  Shows
  BY <1>11, ResizeKeeps DEF Shows, Top
<1>12. ASSUME NEW labels \in SUBSET Labels, LabelsChange(labels)
       PROVE  Shows
  BY <1>1, <1>12 DEF LabelsChange
<1>. QED
  BY <1>2, <1>3, <1>4, <1>5, <1>6, <1>7, <1>8, <1>9, <1>10, <1>11, <1>12 DEF Next

\* A list that comes up by a key or a message, or changes on top, has the columns that
\* were chosen for its resource, whichever list they were chosen in, or its wide table
\* (app.go, columnpicker.PickedMsg; listview.go, refreshItems).
THEOREM ChoicesShown == Spec => ListsShowChoices
<1>1. PanelsInv /\ [Next]_vars
        => [Last(stack') # Last(stack) /\ Last(stack').kind = "list"
              /\ Len(stack') >= Len(stack) => ShowsChoice(Last(stack'))]_vars
  <2>. SUFFICES ASSUME PanelsInv, [Next]_vars,
                       Last(stack') # Last(stack), Last(stack').kind = "list",
                       Len(stack') >= Len(stack)
                PROVE  ShowsChoice(Last(stack'))
    OBVIOUS
  <2>1. Len(stack) \in Nat /\ Len(stack') \in Nat
    BY Settings, StepKeeps DEF PanelsInv, GoodStack
  <2>2. ~ (Len(stack') < Len(stack))
    BY <2>1
  <2>3. Chosen(Last(stack'), configs', namespace')
    BY <2>2, StepShows DEF Shows
  <2>. QED
    BY <2>3 DEF ShowsChoice, Chosen
<1>. QED
  BY <1>1, PanelsCorrect, PTL DEF Spec, ListsShowChoices
=============================================================================
