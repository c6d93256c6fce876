----------------------------- MODULE SearchProofs -----------------------------
(***************************************************************************)
(* The binary search of Blockfinder is right for every chain, radius and    *)
(* target, monotone or not, if the chain is long enough for its bounds; and *)
(* so is a search that a recorder writes down and a fixture replays, for    *)
(* any number of workers.                                                   *)
(***************************************************************************)
EXTENDS SearchReplay, FiniteSetTheorems, WellFoundedInduction, TLAPS

-----------------------------------------------------------------------------
(* Medians exist.                                                          *)

\* Among finitely many blocks one has the least timestamp: the sets of blocks
\* that are no later than a given one are well-founded under inclusion.
LEMMA Earliest ==
  ASSUME NEW S, IsFiniteSet(S), NEW ts \in [S -> Int], NEW T \in SUBSET S, T # {}
  PROVE  \E h \in T : \A g \in T : ts[h] <= ts[g]
<1> DEFINE upTo(h) == {g \in S : ts[g] <= ts[h]}
           F == {upTo(h) : h \in T}
<1>1. F \subseteq FiniteSubsetsOf(S)
  <2> SUFFICES ASSUME NEW h \in T PROVE upTo(h) \in FiniteSubsetsOf(S)
    OBVIOUS
  <2>1. IsFiniteSet(upTo(h))
    BY FS_Subset
  <2> QED BY <2>1 DEF FiniteSubsetsOf
<1>2. IsWellFoundedOn(StrictSubsetOrdering(S), FiniteSubsetsOf(S))
  BY FS_StrictSubsetOrderingWellFounded
<1>3. \E x \in F : \A y \in F : <<y, x>> \notin StrictSubsetOrdering(S)
  <2>1. F # {}
    OBVIOUS
  <2> HIDE DEF F
  <2> QED BY <1>1, <1>2, <2>1, WFMin
<1>4. PICK h \in T : \A g \in T : <<upTo(g), upTo(h)>> \notin StrictSubsetOrdering(S)
  BY <1>3
<1>5. ASSUME NEW g \in T, ~(ts[h] <= ts[g]) PROVE FALSE
  <2>1. ts[g] < ts[h]
    BY <1>5
  <2>2. upTo(g) \subseteq upTo(h) /\ h \in upTo(h) /\ h \notin upTo(g)
    BY <2>1
  <2>3. <<upTo(g), upTo(h)>> \in StrictSubsetOrdering(S)
    BY <2>2 DEF StrictSubsetOrdering
  <2> QED BY <1>4, <2>3
<1> QED BY <1>5

\* ... and one has the greatest.
LEMMA Latest ==
  ASSUME NEW S, IsFiniteSet(S), NEW ts \in [S -> Int], NEW T \in SUBSET S, T # {}
  PROVE  \E h \in T : \A g \in T : ts[g] <= ts[h]
<1> DEFINE neg == [h \in S |-> 0 - ts[h]]
<1>1. neg \in [S -> Int]
  OBVIOUS
<1>2. PICK h \in T : \A g \in T : neg[h] <= neg[g]
  <2> HIDE DEF neg
  <2> QED BY <1>1, Earliest
<1>3. ASSUME NEW g \in T PROVE ts[g] <= ts[h]
  <2>1. g \in S /\ h \in S /\ ts[g] \in Int /\ ts[h] \in Int
    OBVIOUS
  <2>2. 0 - ts[h] <= 0 - ts[g]
    BY <1>2, <2>1
  <2> QED BY <2>1, <2>2
<1> QED BY <1>3

\* More than Radius blocks have a median timestamp.
LEMMA MedianExists ==
  ASSUME NEW S \in SUBSET Height, NEW ts \in [Height -> Int],
         IsFiniteSet(S), Cardinality(S) > Radius
  PROVE  \E m \in {ts[h] : h \in S} : /\ Cardinality({h \in S : ts[h] < m}) <= Radius
                                      /\ Cardinality({h \in S : ts[h] <= m}) > Radius
<1> DEFINE below(m) == {h \in S : ts[h] < m}
           upTo(m) == {h \in S : ts[h] <= m}
           f == [h \in S |-> ts[h]]
           C == {h \in S : Cardinality(upTo(ts[h])) > Radius}
<1>0. f \in [S -> Int] /\ \A h \in S : f[h] = ts[h]
  OBVIOUS
<1>1. S # {}
  BY FS_EmptySet, SearchAssumption
<1>2. C # {}
  <2>1. PICK h \in S : \A g \in S : ts[g] <= ts[h]
    <3> HIDE DEF f
    <3>1. \E h \in S : \A g \in S : f[g] <= f[h]
      BY <1>0, <1>1, Latest
    <3> QED BY <1>0, <3>1
  <2>2. upTo(ts[h]) = S
    BY <2>1
  <2> QED BY <2>2
<1>3. PICK h \in C : \A g \in C : ts[h] <= ts[g]
  <2>1. C \in SUBSET S
    OBVIOUS
  <2> HIDE DEF f, C
  <2>2. \E h \in C : \A g \in C : f[h] <= f[g]
    BY <1>0, <1>2, <2>1, Earliest
  <2> QED BY <1>0, <2>1, <2>2
<1>4. Cardinality(below(ts[h])) <= Radius
  <2> SUFFICES ASSUME ~(Cardinality(below(ts[h])) <= Radius) PROVE FALSE
    OBVIOUS
  <2>0. below(ts[h]) \in SUBSET S /\ IsFiniteSet(below(ts[h]))
    BY FS_Subset
  <2>1. Cardinality(below(ts[h])) > Radius
    BY <2>0, FS_CardinalityType, SearchAssumption
  <2>2. below(ts[h]) # {}
    BY <2>0, <2>1, FS_EmptySet, SearchAssumption
  <2>3. PICK g \in below(ts[h]) : \A k \in below(ts[h]) : ts[k] <= ts[g]
    <3> DEFINE B == below(ts[h])
    <3>1. B \in SUBSET S /\ B # {}
      BY <2>0, <2>2
    <3> HIDE DEF f, B
    <3>2. \E g \in B : \A k \in B : f[k] <= f[g]
      BY <1>0, <3>1, Latest
    <3> USE DEF B
    <3> QED BY <1>0, <2>0, <3>2
  <2>4. upTo(ts[g]) = below(ts[h])
    BY <2>3
  <2>5. g \in C
    BY <2>1, <2>4
  <2> QED BY <1>3, <2>3, <2>5
<1> QED BY <1>3, <1>4

\* ... which is a number.
LEMMA MedianIsTime ==
  ASSUME NEW S \in SUBSET Height, NEW ts \in [Height -> Int],
         IsFiniteSet(S), Cardinality(S) > Radius
  PROVE  Median(ts, S) \in Int
<1>1. Median(ts, S) \in {ts[h] : h \in S}
  BY MedianExists DEF Median
<1> QED BY <1>1

-----------------------------------------------------------------------------
(* Heights within the bounds do not wrap around.                           *)

LEMMA U32Small == \A n \in Nat : n < Word => U32(n) = n
  BY SearchAssumption DEF U32

\* The window of a height within the bounds.
LEMMA WindowInRange ==
  ASSUME LongEnough, NEW h \in First .. Last
  PROVE  /\ h \in Nat
         /\ Window(h) = h - Radius .. h + Radius
         /\ Window(h) \in SUBSET Height
         /\ IsFiniteSet(Window(h))
         /\ Cardinality(Window(h)) = 2 * Radius + 1
<1>1. /\ Radius \in Nat /\ Start \in Nat /\ ChainHeight \in Nat /\ Offset \in Nat
      /\ Word \in Nat
  BY SearchAssumption
<1>2. /\ h \in Nat /\ h - Radius \in Nat /\ h + Radius \in Nat
      /\ h + Radius <= ChainHeight /\ ChainHeight < Word
  BY <1>1 DEF LongEnough, First, Last
<1>3. U32(h - Radius) = h - Radius /\ U32(h + Radius) = h + Radius
  BY <1>1, <1>2, U32Small
<1>4. Window(h) = h - Radius .. h + Radius
  BY <1>3 DEF Window
<1>5. /\ IsFiniteSet(h - Radius .. h + Radius)
      /\ Cardinality(h - Radius .. h + Radius) = 2 * Radius + 1
  BY <1>1, <1>2, FS_Interval
<1> QED BY <1>1, <1>2, <1>4, <1>5 DEF Height

-----------------------------------------------------------------------------
(* The inductive invariant.                                                *)

IInv == TypeOK /\ RequestsInv(pending) /\ BoundsInv /\ SearchInv

\* When searchSync has its answers they are those of its own window.
LEMMA AllAnswered ==
  ASSUME LongEnough, BoundsInv, NEW S, RequestsInv(S), Syncing, Answered
  PROVE  /\ got = Window(height)
         /\ S = {}
         /\ Median(time, got) = MedianTime(height)
<1>1. /\ height \in First .. Last
      /\ got \cup S = Window(height)
      /\ got \cap S = {}
  BY DEF BoundsInv, RequestsInv
<1>2. /\ IsFiniteSet(Window(height))
      /\ Cardinality(Window(height)) = 2 * Radius + 1
  BY <1>1, WindowInRange
<1>3. got = Window(height)
  BY <1>1, <1>2, FS_Subset DEF Answered
<1> QED BY <1>1, <1>3 DEF MedianTime

\* The median times of the range are numbers.
LEMMA MedianTimeType ==
  ASSUME LongEnough, TypeOK, NEW h \in First .. Last
  PROVE  MedianTime(h) \in Int
<1>1. /\ Window(h) \in SUBSET Height /\ IsFiniteSet(Window(h))
      /\ Cardinality(Window(h)) = 2 * Radius + 1
  BY WindowInRange
<1>2. Cardinality(Window(h)) > Radius
  BY <1>1, SearchAssumption
<1> QED BY <1>1, <1>2, MedianIsTime DEF MedianTime, TypeOK

\* Search's bounds, and the requests for the first median.
LEMMA InvInit == ASSUME LongEnough, Init PROVE IInv
<1>1. /\ Start \in Nat /\ Offset \in Nat /\ ChainHeight \in Nat /\ Start \in First .. Last
  BY SearchAssumption DEF LongEnough, First, Last
<1>2. Window(Start) \in SUBSET Nat
  BY <1>1, WindowInRange DEF Height
<1>3. TypeOK
  BY <1>1, <1>2, SearchAssumption DEF Init, TypeOK
<1>4. BoundsInv /\ RequestsInv(pending)
  BY <1>1 DEF Init, RequestsInv, BoundsInv, Syncing, First
<1>5. SearchInv
  BY DEF Init, SearchInv
<1> QED BY <1>3, <1>4, <1>5 DEF IInv

\* Every answer and every step of the search preserves it.
LEMMA InvStep == ASSUME LongEnough, IInv, [Next]_vars PROVE IInv'
<1> USE DEF IInv
<1>0. /\ Start \in Nat /\ Offset \in Nat /\ ChainHeight \in Nat /\ Word \in Nat
      /\ First \in Nat /\ Last \in Nat /\ First < Last /\ 2 * Last < Word
      /\ First \in First .. Last /\ Last \in First .. Last
  BY SearchAssumption DEF LongEnough, First, Last
<1>1. CASE AnswerBlock
  <2>1. time' = time /\ target' = target
    BY <1>1 DEF AnswerBlock
  <2>2. TypeOK'
    BY <1>1 DEF AnswerBlock, TypeOK
  <2>3. BoundsInv' /\ RequestsInv(pending)'
    BY <1>1 DEF AnswerBlock, RequestsInv, BoundsInv, Syncing, MedianTime
  <2>4. SearchInv'
    BY <1>1 DEF AnswerBlock, SearchInv, MedianTime
  <2> QED BY <2>2, <2>3, <2>4
<1>2. CASE GotMin(ChainHeight)
  <2>0. pending = {}
    BY <1>2, AllAnswered DEF GotMin, Syncing
  <2>1. U32(ChainHeight - Offset) = Last
    BY <1>0, U32Small DEF Last
  <2>2. min = First /\ height = First /\ Median(time, got) = MedianTime(First)
    BY <1>2, AllAnswered DEF GotMin, RequestsInv, BoundsInv, Syncing
  <2>3. Window(Last) \in SUBSET Nat
    BY <1>0, WindowInRange DEF Height
  <2>4. TypeOK'
    BY <1>0, <1>2, <2>0, <2>1, <2>3 DEF GotMin, searchSync, TypeOK
  <2>5. BoundsInv' /\ RequestsInv(pending)'
    BY <1>0, <1>2, <2>0, <2>1, <2>2 DEF GotMin, searchSync, RequestsInv, BoundsInv, Syncing, MedianTime
  <2>6. SearchInv'
    BY <1>2, <2>2 DEF GotMin, SearchInv, MedianTime
  <2> QED BY <2>4, <2>5, <2>6
<1>3. CASE GotMax
  <2>0. pending = {}
    BY <1>3, AllAnswered DEF GotMax, Syncing
  <2>1. height = Last /\ max = Last /\ min = First /\ Median(time, got) = MedianTime(Last)
    BY <1>3, AllAnswered DEF GotMax, RequestsInv, BoundsInv, Syncing
  <2>2. TypeOK'
    BY <1>3 DEF GotMax, TypeOK
  <2>3. BoundsInv' /\ RequestsInv(pending)'
    BY <1>0, <1>3, <2>0, <2>1 DEF GotMax, RequestsInv, BoundsInv, Syncing, MedianTime
  <2>4. SearchInv'
    BY <1>3, <2>1 DEF GotMax, SearchInv, MedianTime
  <2> QED BY <2>2, <2>3, <2>4
<1>4. CASE Bisect
  <2>1. min \in Nat /\ max \in Nat /\ First <= min /\ min < max /\ max <= Last
    BY <1>4 DEF Bisect, RequestsInv, BoundsInv, TypeOK
  <2>2. U32(max - min) = max - min /\ U32(max + min) = max + min
    BY <1>0, <2>1, U32Small
  <2> DEFINE avg == (max + min) \div 2
  <2>3. avg \in First .. Last /\ min < avg /\ avg < max
    BY <1>0, <1>4, <2>1, <2>2 DEF Bisect, Adjacent
  <2>4. height' = avg /\ pending' = Window(avg) /\ got' = {}
    BY <1>4, <2>2 DEF Bisect, Middle, searchSync, RequestsInv, BoundsInv
  <2>5. avg \in Nat /\ Window(avg) \in SUBSET Nat
    BY <1>0, <2>3, WindowInRange DEF Height
  <2> HIDE DEF avg
  <2>6. TypeOK'
    BY <1>4, <2>4, <2>5 DEF Bisect, TypeOK
  <2>7. BoundsInv' /\ RequestsInv(pending)'
    BY <1>4, <2>1, <2>3, <2>4 DEF Bisect, RequestsInv, BoundsInv, Syncing, MedianTime
  <2>8. SearchInv'
    BY <1>4 DEF Bisect, SearchInv, MedianTime
  <2> QED BY <2>6, <2>7, <2>8
<1>5. CASE Found
  <2>1. min \in Nat /\ max \in Nat /\ First <= min /\ min < max /\ max <= Last
    BY <1>5 DEF Found, RequestsInv, BoundsInv, TypeOK
  <2>2. max = min + 1
    <3>1. U32(max - min) = max - min
      BY <1>0, <2>1, U32Small
    <3> QED BY <1>5, <2>1, <3>1 DEF Found, Adjacent
  <2>3. TypeOK'
    BY <1>5, <2>1 DEF Found, RequestHeader, TypeOK
  <2>4. BoundsInv' /\ RequestsInv(pending)'
    BY <1>5, <2>1 DEF Found, RequestHeader, RequestsInv, BoundsInv, Syncing, MedianTime
  <2>5. SearchInv'
    BY <1>5, <2>2 DEF Found, RequestHeader, SearchInv, MedianTime
  <2> QED BY <2>3, <2>4, <2>5
<1>6. CASE GotAvg
  <2> DEFINE m == Median(time, got)
  <2>0. pending = {}
    BY <1>6, AllAnswered DEF GotAvg, Syncing
  <2>1. m = MedianTime(height) /\ m \in Int
    BY <1>6, AllAnswered, MedianTimeType DEF GotAvg, RequestsInv, BoundsInv, Syncing
  <2>2. /\ height \in First .. Last /\ min < height /\ height < max
        /\ min \in Nat /\ max \in Nat /\ height \in Nat /\ First <= min /\ max <= Last
    BY <1>6 DEF GotAvg, RequestsInv, BoundsInv, Syncing, TypeOK
  <2>3. target \in Int
    BY DEF TypeOK
  <2> HIDE DEF m
  <2>4. /\ \/ target >= m /\ min' = height /\ minMedian' = m /\ UNCHANGED <<max, maxMedian>>
           \/ target < m /\ max' = height /\ maxMedian' = m /\ UNCHANGED <<min, minMedian>>
        /\ \/ target = m /\ pc' = "header" /\ pending' = {height} /\ got' = {}
           \/ target # m /\ pc' = "loop" /\ UNCHANGED <<pending, got>>
        /\ pc = "avg" /\ UNCHANGED <<time, target, height>>
    BY <1>6, <2>0, <2>1, <2>3 DEF GotAvg, RaisesMin, FoundExactly, RequestHeader, m
  <2>5. TypeOK'
    BY <2>2, <2>4 DEF TypeOK
  <2>6. BoundsInv' /\ RequestsInv(pending)'
    BY <1>0, <2>0, <2>1, <2>2, <2>4 DEF RequestsInv, BoundsInv, Syncing, MedianTime
  <2>7. /\ minMedian <= m /\ m <= maxMedian
        /\ minMedian = MedianTime(min) /\ maxMedian = MedianTime(max)
    <3>1. minMedian = MedianTime(min) /\ maxMedian = MedianTime(max)
      BY <1>6 DEF GotAvg, BoundsInv
    <3>2. MedianTime(min) \in Int /\ MedianTime(max) \in Int
      BY <1>0, <2>2, MedianTimeType
    <3> QED BY <1>6, <2>1, <3>1, <3>2 DEF GotAvg, OutOfOrder, m
  <2>8. /\ MedianTime(min) \in Int /\ MedianTime(max) \in Int
        /\ MedianTime(First) \in Int /\ MedianTime(Last) \in Int
    BY <1>0, <2>2, MedianTimeType DEF TypeOK
  <2>9. /\ MedianTime(First)' = MedianTime(First) /\ MedianTime(Last)' = MedianTime(Last)
    BY <2>4 DEF MedianTime
  <2>10. SearchInv'
    <3>1. /\ target < MedianTime(First) => min' = First
          /\ MedianTime(First) <= target => minMedian' <= target
      BY <2>1, <2>3, <2>4, <2>7, <2>8 DEF SearchInv
    <3>2. /\ target < MedianTime(Last) => target < maxMedian'
          /\ MedianTime(Last) <= target => max' = Last
      BY <2>1, <2>3, <2>4, <2>7, <2>8 DEF SearchInv
    <3>3. pc' = "header" => minMedian' = target
      BY <2>3, <2>4
    <3> QED BY <2>4, <2>9, <3>1, <3>2, <3>3 DEF SearchInv
  <2> QED BY <2>5, <2>6, <2>10
<1>7. CASE NonMonotonic
  <2>0. pending = {}
    BY <1>7, AllAnswered DEF NonMonotonic, Syncing
  <2>1. TypeOK' /\ BoundsInv' /\ RequestsInv(pending)' /\ SearchInv'
    BY <1>7, <2>0 DEF NonMonotonic, TypeOK, RequestsInv, BoundsInv, Syncing, SearchInv, MedianTime
  <2> QED BY <2>1
<1>8. CASE GotHeader
  <2>1. TypeOK' /\ BoundsInv' /\ RequestsInv(pending)' /\ SearchInv'
    BY <1>8 DEF GotHeader, TypeOK, RequestsInv, BoundsInv, Syncing, SearchInv, MedianTime
  <2> QED BY <2>1
<1>9. CASE UNCHANGED vars
  BY <1>9 DEF vars, TypeOK, RequestsInv, BoundsInv, Syncing, SearchInv, MedianTime
<1> QED
  BY <1>1, <1>2, <1>3, <1>4, <1>5, <1>6, <1>7, <1>8, <1>9 DEF Next, Search

\* Bounds, pending requests and medians stay in step through the search.
THEOREM InductiveInvariant == ASSUME LongEnough PROVE Spec => []IInv
<1>1. Init => IInv
  BY InvInit
<1>2. IInv /\ [Next]_vars => IInv'
  BY InvStep
<1> QED BY <1>1, <1>2, PTL DEF Spec

\* No searchSync takes an answer that was meant for another.
THEOREM AnswersAreOwn == ASSUME LongEnough PROVE Spec => []OwnAnswers
<1>1. IInv => OwnAnswers
  BY AllAnswered DEF IInv, OwnAnswers, RequestsInv, BoundsInv, Syncing
<1> QED BY <1>1, InductiveInvariant, PTL

\* Which block Search returns, for any chain, whether or not its medians are
\* monotone, any radius and any target: where it stops, on the target's own median or
\* next to a block that is later, and what it gives for a target outside the range.
THEOREM BoundaryIsFound == ASSUME LongEnough PROVE Spec => []FoundBoundary
<1>1. ASSUME IInv, pc = "done"
      PROVE  /\ minMedian = MedianTime(min) /\ maxMedian = MedianTime(max)
             /\ minMedian = target \/ (max = min + 1 /\ min = max - 1)
             /\ target < MedianTime(First) => min = First
             /\ MedianTime(First) <= target => minMedian <= target
             /\ target < MedianTime(Last) => target < maxMedian
             /\ MedianTime(Last) <= target => max = Last
  BY <1>1 DEF IInv, BoundsInv, SearchInv, TypeOK
<1>2. IInv => FoundBoundary
  BY <1>1 DEF FoundBoundary
<1> QED BY <1>2, InductiveInvariant, PTL

-----------------------------------------------------------------------------
(* Medians on a valid chain.                                               *)

\* A median has at most Radius blocks before it and more than Radius up to it.
LEMMA MedianCounts ==
  ASSUME NEW S \in SUBSET Height, NEW ts \in [Height -> Int],
         IsFiniteSet(S), Cardinality(S) > Radius
  PROVE  /\ Cardinality({h \in S : ts[h] < Median(ts, S)}) <= Radius
         /\ Cardinality({h \in S : ts[h] <= Median(ts, S)}) > Radius
BY MedianExists DEF Median

\* The window of the next height has one block less and a later one more: its median
\* is no earlier.
LEMMA NextMedian ==
  ASSUME LongEnough, TypeOK, ValidTimes(time),
         NEW h \in First .. Last, h + 1 \in First .. Last
  PROVE  MedianTime(h) <= MedianTime(h + 1)
<1> DEFINE W == Window(h)
           V == Window(h + 1)
           b == h + 1 + Radius
           m == MedianTime(h)
           n == MedianTime(h + 1)
           before == {g \in W : time[g] < m}
           upTo == {g \in V : time[g] <= n}
<1>1. /\ h \in Nat /\ Radius \in Nat /\ ChainHeight \in Nat
      /\ W = h - Radius .. h + Radius /\ V = (h + 1) - Radius .. (h + 1) + Radius
      /\ W \in SUBSET Height /\ V \in SUBSET Height
      /\ IsFiniteSet(W) /\ IsFiniteSet(V)
      /\ Cardinality(W) = 2 * Radius + 1 /\ Cardinality(V) = 2 * Radius + 1
  BY WindowInRange, SearchAssumption
<1>2. m \in Int /\ n \in Int /\ time \in [Height -> Int]
  BY MedianTimeType DEF TypeOK
<1>3. Radius <= h
  BY <1>1, SearchAssumption DEF LongEnough, First
<1>4. b \in V /\ b \in Height /\ b > 2 * Radius
      /\ b - 2 * Radius - 1 = h - Radius /\ b - 1 = h + Radius
  BY <1>1, <1>3
<1>5. time[b] > m
  <2>1. time[b] > Median(time, b - 2 * Radius - 1 .. b - 1)
    BY <1>4 DEF ValidTimes
  <2> QED BY <1>1, <1>4, <2>1 DEF MedianTime
<1>6. /\ Cardinality(before) <= Radius
      /\ Cardinality(upTo) > Radius
  <2>1. Cardinality(W) > Radius /\ Cardinality(V) > Radius
    BY <1>1
  <2>2. m = Median(time, W) /\ n = Median(time, V)
    BY DEF MedianTime
  <2> HIDE DEF W, V, m, n
  <2>3. /\ Cardinality({g \in W : time[g] < Median(time, W)}) <= Radius
        /\ Cardinality({g \in V : time[g] <= Median(time, V)}) > Radius
    BY <1>1, <1>2, <2>1, MedianCounts
  <2> QED BY <2>2, <2>3
<1>7. ASSUME n < m PROVE FALSE
  <2>1. upTo \subseteq before
    <3> SUFFICES ASSUME NEW g \in V, time[g] <= n PROVE g \in W /\ time[g] < m
      OBVIOUS
    <3>1. time[g] \in Int /\ time[b] \in Int
      BY <1>1, <1>2, <1>4
    <3>2. time[g] < m
      BY <1>2, <1>7, <3>1
    <3>3. g # b
      BY <1>2, <1>5, <3>1, <3>2
    <3> QED BY <1>1, <3>2, <3>3
  <2>2. IsFiniteSet(before)
    BY <1>1, FS_Subset
  <2>3. Cardinality(upTo) <= Cardinality(before) /\ IsFiniteSet(upTo)
    BY <2>1, <2>2, FS_Subset
  <2>4. Cardinality(upTo) \in Nat /\ Cardinality(before) \in Nat
    BY <2>2, <2>3, FS_CardinalityType
  <2> QED BY <1>1, <1>6, <2>3, <2>4
<1> QED BY <1>2, <1>7

\* So the medians of the whole range are in order: of those that are before one of an
\* earlier height the first would be before its predecessor.
LEMMA MedianMonotonic ==
  ASSUME LongEnough, TypeOK, ValidTimes(time),
         NEW i \in First .. Last, NEW j \in First .. Last, i <= j
  PROVE  MedianTime(i) <= MedianTime(j)
<1> DEFINE S == First .. Last
           early == {k \in S : i <= k /\ ~(MedianTime(i) <= MedianTime(k))}
           id == [k \in S |-> k]
<1>1. First \in Nat /\ Last \in Int /\ IsFiniteSet(S)
  BY SearchAssumption, FS_Interval DEF First, Last
<1>2. MedianTime(i) \in Int /\ \A k \in S : MedianTime(k) \in Int
  BY MedianTimeType
<1>3. ASSUME early # {} PROVE FALSE
  <2>1. PICK k \in early : \A g \in early : k <= g
    <3>1. id \in [S -> Int] /\ early \in SUBSET S /\ \A g \in S : id[g] = g
      BY <1>1
    <3> HIDE DEF id, early, S
    <3>2. \E k \in early : \A g \in early : id[k] <= id[g]
      BY <1>1, <1>3, <3>1, Earliest
    <3> QED BY <3>1, <3>2
  <2>2. k \in S /\ i <= k /\ k # i /\ k \in Int /\ i \in Int
    BY <1>1, <1>2, <2>1
  <2>3. k - 1 \in S /\ i <= k - 1 /\ (k - 1) + 1 = k /\ ~(k <= k - 1)
    BY <1>1, <2>2
  <2>4. MedianTime(i) <= MedianTime(k - 1)
    BY <2>1, <2>3
  <2>5. MedianTime(k - 1) <= MedianTime(k)
    BY <2>2, <2>3, NextMedian
  <2>6. MedianTime(i) <= MedianTime(k)
    BY <1>2, <2>2, <2>3, <2>4, <2>5
  <2> QED BY <2>1, <2>6
<1> QED BY <1>3

\* The sanity check of Search does not fire on a valid chain, of any length, whatever
\* its radius.
THEOREM NeverPanics == ASSUME LongEnough PROVE Spec => []NoPanic
<1>1. Init => NoPanic
  BY DEF Init, NoPanic
<1>2. ASSUME IInv, NoPanic, [Next]_vars PROVE NoPanic'
  <2> SUFFICES ASSUME ValidTimes(time)', pc' = "panic" PROVE FALSE
    BY DEF NoPanic
  <2>1. time' = time
    BY <1>2 DEF Next, Search, AnswerBlock, GotMin, GotMax, Bisect, Found, GotAvg,
                NonMonotonic, GotHeader, vars
  <2>2. ValidTimes(time) /\ pc # "panic"
    BY <1>2, <2>1 DEF NoPanic
  <2>3. NonMonotonic
    BY <1>2, <2>2 DEF Next, Search, AnswerBlock, GotMin, GotMax, Bisect, Found, GotAvg,
                      GotHeader, RequestHeader, vars
  <2>4. /\ Median(time, got) = MedianTime(height)
        /\ minMedian = MedianTime(min) /\ maxMedian = MedianTime(max)
        /\ First <= min /\ max <= Last /\ min < height /\ height < max
        /\ height \in Nat /\ min \in Nat /\ max \in Nat
    BY <1>2, <2>3, AllAnswered
    DEF NonMonotonic, IInv, TypeOK, BoundsInv, Syncing
  <2>5. First \in Nat /\ Last \in Int
    BY SearchAssumption DEF First, Last
  <2>6. min \in First .. Last /\ height \in First .. Last /\ max \in First .. Last
    BY <2>4, <2>5
  <2>7. /\ MedianTime(min) <= MedianTime(height) /\ MedianTime(height) <= MedianTime(max)
        /\ MedianTime(min) \in Int /\ MedianTime(height) \in Int /\ MedianTime(max) \in Int
    BY <1>2, <2>2, <2>4, <2>6, MedianMonotonic, MedianTimeType DEF IInv
  <2> QED BY <2>3, <2>4, <2>7 DEF NonMonotonic, OutOfOrder
<1> QED BY <1>1, <1>2, InductiveInvariant, PTL DEF Spec

-----------------------------------------------------------------------------
(* The channels of a recorded and of a replayed search.                    *)

\* What is taken from a channel, and what is left.
LEMMA Taken ==
  ASSUME NEW S, NEW q \in Seq(S), q # <<>>, IsInjective(q)
  PROVE  /\ Head(q) \in S /\ Tail(q) \in Seq(S) /\ IsInjective(Tail(q))
         /\ Head(q) \in Range(q) /\ Range(Tail(q)) = Range(q) \ {Head(q)}
<1>1. /\ Len(q) \in Nat /\ 1 <= Len(q) /\ DOMAIN q = 1 .. Len(q) /\ Head(q) = q[1]
      /\ Tail(q) \in Seq(S) /\ Len(Tail(q)) = Len(q) - 1
      /\ DOMAIN Tail(q) = 1 .. Len(q) - 1
      /\ \A i \in 1 .. Len(q) - 1 : Tail(q)[i] = q[i + 1]
  OBVIOUS
<1> DEFINE n == Len(q)
           t == Tail(q)
<1>2. Head(q) \in S
  BY <1>1
<1>3. IsInjective(t)
  <2> SUFFICES ASSUME NEW i \in 1 .. n - 1, NEW j \in 1 .. n - 1, t[i] = t[j] PROVE i = j
    BY <1>1 DEF IsInjective
  <2>1. i + 1 \in DOMAIN q /\ j + 1 \in DOMAIN q /\ q[i + 1] = q[j + 1]
    BY <1>1
  <2>2. i + 1 = j + 1
    BY <2>1 DEF IsInjective
  <2> QED BY <1>1, <2>2
<1>4. 1 \in DOMAIN q
  BY <1>1
<1>5. Head(q) \in Range(q)
  BY <1>1, <1>4 DEF Range
<1>6. Range(t) \subseteq Range(q) \ {Head(q)}
  <2> SUFFICES ASSUME NEW i \in 1 .. n - 1 PROVE t[i] \in Range(q) /\ t[i] # Head(q)
    BY <1>1 DEF Range
  <2>1. i + 1 \in DOMAIN q /\ t[i] = q[i + 1] /\ i + 1 # 1
    BY <1>1
  <2> QED BY <1>1, <1>4, <2>1 DEF Range, IsInjective
<1>7. Range(q) \ {Head(q)} \subseteq Range(t)
  <2> SUFFICES ASSUME NEW i \in 1 .. n, q[i] # Head(q) PROVE q[i] \in Range(t)
    BY <1>1 DEF Range
  <2>1. i # 1
    BY <1>1
  <2>2. i - 1 \in 1 .. n - 1 /\ t[i - 1] = q[i]
    BY <1>1, <2>1
  <2> QED BY <1>1, <2>2 DEF Range
<1> QED BY <1>1, <1>2, <1>3, <1>5, <1>6, <1>7

\* What is sent on a channel.
LEMMA Sent ==
  ASSUME NEW S, NEW q \in Seq(S), NEW x \in S, x \notin Range(q), IsInjective(q)
  PROVE  /\ Append(q, x) \in Seq(S) /\ IsInjective(Append(q, x))
         /\ Range(Append(q, x)) = Range(q) \cup {x}
<1> DEFINE n == Len(q)
           s == Append(q, x)
<1>1. /\ n \in Nat /\ DOMAIN q = 1 .. n /\ s \in Seq(S) /\ DOMAIN s = 1 .. n + 1
      /\ \A i \in 1 .. n : s[i] = q[i]
      /\ s[n + 1] = x
  OBVIOUS
<1>2. \A i \in DOMAIN s : i \in 1 .. n \/ i = n + 1
  BY <1>1
<1>3. \A i \in 1 .. n : i \in DOMAIN s /\ n + 1 \in DOMAIN s
  BY <1>1
<1>4. n + 1 \in DOMAIN s
  BY <1>1
<1> HIDE DEF n, s
<1>5. IsInjective(s)
  BY <1>1, <1>2 DEF IsInjective, Range
<1>6. Range(s) = Range(q) \cup {x}
  BY <1>1, <1>2, <1>3, <1>4 DEF Range
<1> USE DEF s
<1> QED BY <1>1, <1>5, <1>6

\* Nothing is in an empty channel, and in no other.
LEMMA EmptyChannel == Range(<<>>) = {} /\ IsInjective(<<>>) /\ \A S : <<>> \in Seq(S)
  BY DEF Range, IsInjective

LEMMA ChannelIsEmpty ==
  ASSUME NEW S, NEW q \in Seq(S), Range(q) = {}
  PROVE  q = <<>>
<1> SUFFICES ASSUME q # <<>> PROVE FALSE
  OBVIOUS
<1>1. 1 \in DOMAIN q
  OBVIOUS
<1> QED BY <1>1 DEF Range

\* A goroutine takes a request,
LEMMA Holds ==
  ASSUME SearchReplayTypeOK, OneCopy, NEW w \in Worker, ~Holding(w),
         NEW l \in {"reply", "requeue"}, NEW b \in Height, b \notin Held, become(w, l, b)
  PROVE  /\ Held' = Held \cup {b}
         /\ worker' \in [Worker -> [at : {"select", "reply", "requeue", "returned"},
                                    block : Height]]
         /\ (\A u, v \in Worker :
               Holding(u) /\ Holding(v) /\ worker[u].block = worker[v].block => u = v)'
<1>1. worker \in [Worker -> [at : {"select", "reply", "requeue", "returned"}, block : Height]]
  BY DEF SearchReplayTypeOK
<1>2. /\ worker'[w] = [at |-> l, block |-> b]
      /\ \A v \in Worker : v # w => worker'[v] = worker[v]
      /\ worker' \in [Worker -> [at : {"select", "reply", "requeue", "returned"}, block : Height]]
  BY <1>1 DEF become, At
<1>3. /\ Holding(w)' /\ worker'[w].block = b
      /\ \A v \in Worker : v # w => (Holding(v)' <=> Holding(v))
                                    /\ worker'[v].block = worker[v].block
  BY <1>2 DEF Holding
<1>4. Held' = Held \cup {b}
  BY <1>3 DEF Held
<1>5. \A v \in Worker : Holding(v) => worker[v].block \in Held
  BY DEF Held
<1> QED BY <1>2, <1>3, <1>4, <1>5 DEF OneCopy

\* and lets go of it.
LEMMA LetsGo ==
  ASSUME SearchReplayTypeOK, OneCopy, NEW w \in Worker, Holding(w),
         NEW l \in {"select", "returned"}, become(w, l, 0)
  PROVE  /\ Held' = Held \ {worker[w].block} /\ worker[w].block \in Held
         /\ worker[w].block \in Height
         /\ worker' \in [Worker -> [at : {"select", "reply", "requeue", "returned"},
                                    block : Height]]
         /\ (\A u, v \in Worker :
               Holding(u) /\ Holding(v) /\ worker[u].block = worker[v].block => u = v)'
<1>1. worker \in [Worker -> [at : {"select", "reply", "requeue", "returned"}, block : Height]]
  BY DEF SearchReplayTypeOK
<1>2. 0 \in Height
  BY SearchAssumption DEF Height
<1>3. /\ worker'[w] = [at |-> l, block |-> 0]
      /\ \A v \in Worker : v # w => worker'[v] = worker[v]
      /\ worker' \in [Worker -> [at : {"select", "reply", "requeue", "returned"}, block : Height]]
  BY <1>1, <1>2 DEF become, At
<1>4. /\ ~Holding(w)'
      /\ \A v \in Worker : v # w => (Holding(v)' <=> Holding(v))
                                    /\ worker'[v].block = worker[v].block
  BY <1>3 DEF Holding
<1>5. Held' = Held \ {worker[w].block}
  BY <1>4 DEF Held, OneCopy
<1> QED BY <1>1, <1>3, <1>4, <1>5 DEF OneCopy, Held

\* Requests are for blocks of the chain.
LEMMA FlightHeights ==
  ASSUME LongEnough, SearchReplayInv, Running
  PROVE  InFlight \subseteq Height /\ pending \subseteq Height
<1>0. pending \subseteq InFlight
  BY DEF InFlight
<1>1. CASE Syncing
  <2>1. height \in First .. Last /\ InFlight \subseteq Window(height)
    BY <1>1 DEF SearchReplayInv, BoundsInv, RequestsInv
  <2> QED BY <1>0, <2>1, WindowInRange
<1>2. CASE pc \in {"loop", "panic"}
  BY <1>0, <1>2 DEF SearchReplayInv, RequestsInv
<1>3. CASE pc \in {"header", "done"}
  <2>1. InFlight \subseteq {min}
    BY <1>3 DEF SearchReplayInv, RequestsInv
  <2>2. First \in Nat /\ Last \in Int /\ Last <= ChainHeight
    BY SearchAssumption DEF First, Last
  <2>3. min \in Nat /\ max \in Nat
    BY DEF SearchReplayInv, SearchReplayTypeOK, TypeOK
  <2>4. min <= Last
    <3>1. CASE phase = "record"
      <4>1. min < max /\ max <= Last
        BY <1>3, <3>1 DEF SearchReplayInv, BoundsInv, RecordInv
      <4> QED BY <2>2, <2>3, <4>1
    <3>2. CASE phase = "replay"
      BY <1>3, <2>2, <3>2 DEF SearchReplayInv, ReplayInv
    <3> QED BY <3>1, <3>2 DEF Running
  <2>5. min \in Height
    BY <2>2, <2>3, <2>4, SearchAssumption DEF Height
  <2> QED BY <1>0, <2>1, <2>5
<1> QED BY <1>1, <1>2, <1>3 DEF Syncing, SearchReplayInv, SearchReplayTypeOK, TypeOK

\* The loop of searchSync takes the least block it has still to request.
LEMMA LeastPending ==
  ASSUME LongEnough, SearchReplayInv, Running, pending # {}
  PROVE  Min(pending) \in pending /\ Min(pending) \in Height
<1> DEFINE id == [h \in Height |-> h]
<1>1. pending \in SUBSET Height
  BY FlightHeights
<1>2. id \in [Height -> Int] /\ (\A h \in Height : id[h] = h) /\ IsFiniteSet(Height)
  BY SearchAssumption, FS_Interval DEF Height
<1>3. \E h \in pending : \A g \in pending : h <= g
  <2> HIDE DEF id
  <2>1. \E h \in pending : \A g \in pending : id[h] <= id[g]
    BY <1>1, <1>2, Earliest
  <2> QED BY <1>1, <1>2, <2>1
<1>4. Min(pending) \in pending
  BY <1>3 DEF Min
<1> QED BY <1>1, <1>4

Places == <<pending, blockRequests, worker, liveResponses, hand, blockResponses>>

\* Where a request is, a step may change; that it is in one place, and which are on
\* their way, it does not.
Carried == /\ InFlight' = InFlight
           /\ OneCopy'
           /\ pending' \subseteq pending
           /\ blockRequests' \in Seq(Height)
           /\ worker' \in [Worker -> [at : {"select", "reply", "requeue", "returned"},
                                      block : Height]]
           /\ liveResponses' \in Seq(Height)
           /\ hand' \in [at : {"select", "forward", "returned"}, block : Height]
           /\ blockResponses' \in Seq(Height)

LEMMA Typed ==
  ASSUME SearchReplayInv
  PROVE  /\ pending \subseteq Nat
         /\ blockRequests \in Seq(Height)
         /\ worker \in [Worker -> [at : {"select", "reply", "requeue", "returned"},
                                   block : Height]]
         /\ liveResponses \in Seq(Height)
         /\ hand \in [at : {"select", "forward", "returned"}, block : Height]
         /\ blockResponses \in Seq(Height)
         /\ OneCopy /\ SearchReplayTypeOK
  BY DEF SearchReplayInv, SearchReplayTypeOK, TypeOK

LEMMA HeldKept == ASSUME UNCHANGED worker PROVE Held' = Held /\ \A w : Holding(w)' <=> Holding(w)
  BY DEF Held, Holding

LEMMA RequestCarried ==
  ASSUME LongEnough, SearchReplayInv, Running, BlockRequest
  PROVE  Carried
<1> DEFINE b == Min(pending)
<1>1. b \in pending /\ b \in Height
  BY LeastPending DEF BlockRequest
<1>2. /\ blockRequests' = Append(blockRequests, b) /\ pending' = pending \ {b}
      /\ UNCHANGED <<worker, liveResponses, hand, blockResponses>>
  BY DEF BlockRequest, proxyVars
<1>3. b \notin Range(blockRequests)
  BY <1>1, Typed DEF OneCopy
<1> HIDE DEF b
<1>4. /\ blockRequests' \in Seq(Height) /\ IsInjective(blockRequests')
      /\ Range(blockRequests') = Range(blockRequests) \cup {b}
  BY <1>1, <1>2, <1>3, Typed, Sent DEF OneCopy
<1>5. Held' = Held /\ InHand' = InHand
  BY <1>2, HeldKept DEF InHand
<1>6. InFlight' = InFlight
  BY <1>1, <1>2, <1>4, <1>5 DEF InFlight
<1>7. OneCopy'
  BY <1>1, <1>2, <1>4, <1>5, Typed, HeldKept DEF OneCopy
<1> QED BY <1>2, <1>4, <1>6, <1>7, Typed DEF Carried

LEMMA TakeCarried ==
  ASSUME SearchReplayInv, NEW w \in Worker, worker[w].at = "select", blockRequests # <<>>,
         NEW l \in {"reply", "requeue"}, become(w, l, Head(blockRequests)),
         blockRequests' = Tail(blockRequests),
         UNCHANGED <<pending, liveResponses, hand, blockResponses>>
  PROVE  Carried
<1> DEFINE b == Head(blockRequests)
<1>1. /\ b \in Height /\ b \in Range(blockRequests)
      /\ blockRequests' \in Seq(Height) /\ IsInjective(blockRequests')
      /\ Range(blockRequests') = Range(blockRequests) \ {b}
  BY Typed, Taken DEF OneCopy
<1>2. ~Holding(w) /\ b \notin Held
  BY <1>1, Typed DEF Holding, OneCopy
<1> HIDE DEF b
<1>3. /\ Held' = Held \cup {b}
      /\ worker' \in [Worker -> [at : {"select", "reply", "requeue", "returned"}, block : Height]]
      /\ (\A u, v \in Worker :
            Holding(u) /\ Holding(v) /\ worker[u].block = worker[v].block => u = v)'
  BY <1>1, <1>2, Typed, Holds DEF b
<1>4. InHand' = InHand
  BY DEF InHand
<1>5. InFlight' = InFlight
  BY <1>1, <1>3, <1>4 DEF InFlight
<1>6. OneCopy'
  BY <1>1, <1>2, <1>3, <1>4, Typed DEF OneCopy
<1> QED BY <1>1, <1>3, <1>5, <1>6, Typed DEF Carried

LEMMA ReplyCarried ==
  ASSUME SearchReplayInv, NEW w \in Worker, ReplyBlock(w)
  PROVE  Carried
<1> DEFINE b == worker[w].block
<1>1. /\ Holding(w) /\ become(w, "select", 0)
      /\ liveResponses' = Append(liveResponses, b)
      /\ UNCHANGED <<pending, blockRequests, hand, blockResponses>>
  BY DEF ReplyBlock, Holding, vars, proxyVars
<1>2. /\ Held' = Held \ {b} /\ b \in Held /\ b \in Height
      /\ worker' \in [Worker -> [at : {"select", "reply", "requeue", "returned"}, block : Height]]
      /\ (\A u, v \in Worker :
            Holding(u) /\ Holding(v) /\ worker[u].block = worker[v].block => u = v)'
  BY <1>1, Typed, LetsGo
<1>3. b \notin Range(liveResponses)
  BY <1>2, Typed DEF OneCopy
<1> HIDE DEF b
<1>4. /\ liveResponses' \in Seq(Height) /\ IsInjective(liveResponses')
      /\ Range(liveResponses') = Range(liveResponses) \cup {b}
  BY <1>1, <1>2, <1>3, Typed, Sent DEF OneCopy
<1>5. InHand' = InHand
  BY <1>1 DEF InHand
<1>6. InFlight' = InFlight
  BY <1>1, <1>2, <1>4, <1>5 DEF InFlight
<1>7. OneCopy'
  BY <1>1, <1>2, <1>4, <1>5, Typed DEF OneCopy
<1> QED BY <1>1, <1>2, <1>4, <1>6, <1>7, Typed DEF Carried

LEMMA RequeueCarried ==
  ASSUME SearchReplayInv, NEW w \in Worker, RequeueBlock(w)
  PROVE  Carried
<1> DEFINE b == worker[w].block
<1>1. /\ Holding(w) /\ become(w, "returned", 0)
      /\ blockRequests' = Append(blockRequests, b)
      /\ UNCHANGED <<pending, liveResponses, hand, blockResponses>>
  BY DEF RequeueBlock, Holding, requeue, vars, proxyVars
<1>2. /\ Held' = Held \ {b} /\ b \in Held /\ b \in Height
      /\ worker' \in [Worker -> [at : {"select", "reply", "requeue", "returned"}, block : Height]]
      /\ (\A u, v \in Worker :
            Holding(u) /\ Holding(v) /\ worker[u].block = worker[v].block => u = v)'
  BY <1>1, Typed, LetsGo
<1>3. b \notin Range(blockRequests)
  BY <1>2, Typed DEF OneCopy
<1> HIDE DEF b
<1>4. /\ blockRequests' \in Seq(Height) /\ IsInjective(blockRequests')
      /\ Range(blockRequests') = Range(blockRequests) \cup {b}
  BY <1>1, <1>2, <1>3, Typed, Sent DEF OneCopy
<1>5. InHand' = InHand
  BY <1>1 DEF InHand
<1>6. InFlight' = InFlight
  BY <1>1, <1>2, <1>4, <1>5 DEF InFlight
<1>7. OneCopy'
  BY <1>1, <1>2, <1>4, <1>5, Typed DEF OneCopy
<1> QED BY <1>1, <1>2, <1>4, <1>6, <1>7, Typed DEF Carried

\* The recorder's goroutine takes a response,
LEMMA StoreCarried ==
  ASSUME SearchReplayInv, StoreBlock
  PROVE  Carried
<1> DEFINE b == Head(liveResponses)
<1>1. /\ liveResponses # <<>> /\ hand.at = "select" /\ hand' = [at |-> "forward", block |-> b]
      /\ liveResponses' = Tail(liveResponses)
      /\ UNCHANGED <<pending, blockRequests, worker, blockResponses>>
  BY DEF StoreBlock, AfterStore, At, vars
<1>2. /\ b \in Height /\ b \in Range(liveResponses)
      /\ liveResponses' \in Seq(Height) /\ IsInjective(liveResponses')
      /\ Range(liveResponses') = Range(liveResponses) \ {b}
  BY <1>1, Typed, Taken DEF OneCopy
<1> HIDE DEF b
<1>3. InHand = {} /\ InHand' = {b}
  BY <1>1 DEF InHand
<1>4. Held' = Held
  BY <1>1, HeldKept
<1>5. InFlight' = InFlight
  BY <1>1, <1>2, <1>3, <1>4 DEF InFlight
<1>6. OneCopy'
  BY <1>1, <1>2, <1>3, <1>4, Typed, HeldKept DEF OneCopy
<1> QED BY <1>1, <1>2, <1>5, <1>6, Typed DEF Carried

\* that of the fixture a request,
LEMMA FixtureCarried ==
  ASSUME SearchReplayInv, FixtureBlock, UNCHANGED phase
  PROVE  Carried
<1> DEFINE b == Head(blockRequests)
<1>1. /\ blockRequests # <<>> /\ hand.at = "select" /\ hand' = [at |-> "forward", block |-> b]
      /\ blockRequests' = Tail(blockRequests) /\ b \in DOMAIN blockIndex
      /\ UNCHANGED <<pending, liveResponses, worker, blockResponses>>
  BY DEF FixtureBlock, Crash, At, vars
<1>2. /\ b \in Height /\ b \in Range(blockRequests)
      /\ blockRequests' \in Seq(Height) /\ IsInjective(blockRequests')
      /\ Range(blockRequests') = Range(blockRequests) \ {b}
  BY <1>1, Typed, Taken DEF OneCopy
<1> HIDE DEF b
<1>3. InHand = {} /\ InHand' = {b}
  BY <1>1 DEF InHand
<1>4. Held' = Held
  BY <1>1, HeldKept
<1>5. InFlight' = InFlight
  BY <1>1, <1>2, <1>3, <1>4 DEF InFlight
<1>6. OneCopy'
  BY <1>1, <1>2, <1>3, <1>4, Typed, HeldKept DEF OneCopy
<1> QED BY <1>1, <1>2, <1>5, <1>6, Typed DEF Carried

\* and both send a response on.
LEMMA ForwardCarried ==
  ASSUME SearchReplayInv, ForwardBlock
  PROVE  Carried
<1> DEFINE b == hand.block
<1>1. /\ hand.at = "forward" /\ hand' = [at |-> "select", block |-> 0]
      /\ blockResponses' = Append(blockResponses, b)
      /\ UNCHANGED <<pending, blockRequests, worker, liveResponses>>
  BY DEF ForwardBlock, At, vars, liveVars
<1>2. b \in Height /\ InHand = {b} /\ InHand' = {} /\ 0 \in Height
  BY <1>1, Typed, SearchAssumption DEF InHand, Height
<1>3. b \notin Range(blockResponses)
  BY <1>2, Typed DEF OneCopy
<1> HIDE DEF b
<1>4. /\ blockResponses' \in Seq(Height) /\ IsInjective(blockResponses')
      /\ Range(blockResponses') = Range(blockResponses) \cup {b}
  BY <1>1, <1>2, <1>3, Typed, Sent DEF OneCopy
<1>5. Held' = Held
  BY <1>1, HeldKept
<1>6. InFlight' = InFlight
  BY <1>1, <1>2, <1>4, <1>5 DEF InFlight
<1>7. OneCopy'
  BY <1>1, <1>2, <1>4, <1>5, Typed, HeldKept DEF OneCopy
<1> QED BY <1>1, <1>2, <1>4, <1>6, <1>7, Typed DEF Carried

\* Nothing moves.
LEMMA StillCarried ==
  ASSUME SearchReplayInv, UNCHANGED <<pending, blockRequests, worker, liveResponses,
                                      blockResponses>>,
         \/ UNCHANGED hand
         \/ hand.at # "forward" /\ hand' = [at |-> "returned", block |-> 0]
  PROVE  Carried
<1>0. 0 \in Height
  BY SearchAssumption DEF Height
<1>1. InHand' = InHand /\ hand' \in [at : {"select", "forward", "returned"}, block : Height]
  <2>1. CASE UNCHANGED hand
    BY <2>1, Typed DEF InHand
  <2>2. CASE hand.at # "forward" /\ hand' = [at |-> "returned", block |-> 0]
    BY <1>0, <2>2 DEF InHand
  <2> QED BY <2>1, <2>2
<1>2. InFlight' = InFlight
  BY <1>1, HeldKept DEF InFlight
<1>3. OneCopy'
  BY <1>1, HeldKept, Typed DEF OneCopy
<1> QED BY <1>1, <1>2, <1>3, Typed DEF Carried

\* Search receives a response: it is one it waits for, and not another of its kind.
LEMMA Received ==
  ASSUME SearchReplayInv, Receive
  PROVE  LET b == Head(blockResponses)
         IN  /\ b \in Range(blockResponses) /\ b \in InFlight /\ b \in Height
             /\ InFlight' = InFlight \ {b}
             /\ got' = got \cup {b}
             /\ Range(blockResponses)' \subseteq Range(blockResponses)
             /\ blockResponses' \in Seq(Height)
             /\ OneCopy'
<1> DEFINE b == Head(blockResponses)
<1>1. /\ blockResponses # <<>> /\ blockResponses' = Tail(blockResponses)
      /\ UNCHANGED <<pending, blockRequests, worker, liveResponses, hand>>
      /\ got' = got \cup {b}
  BY DEF Receive, liveVars
<1>2. /\ b \in Height /\ b \in Range(blockResponses)
      /\ blockResponses' \in Seq(Height) /\ IsInjective(blockResponses')
      /\ Range(blockResponses') = Range(blockResponses) \ {b}
  BY <1>1, Typed, Taken DEF OneCopy
<1> HIDE DEF b
<1>3. InHand' = InHand /\ Held' = Held
  BY <1>1, HeldKept DEF InHand
<1>4. InFlight' = InFlight \ {b} /\ b \in InFlight
  BY <1>1, <1>2, <1>3, Typed DEF InFlight, OneCopy
<1>5. OneCopy'
  BY <1>1, <1>2, <1>3, Typed, HeldKept DEF OneCopy
<1> USE DEF b
<1> QED BY <1>1, <1>2, <1>4, <1>5

-----------------------------------------------------------------------------
(* A step of Search, once its requests are answered.                       *)

\* What the steps of Search do not change.
LEMMA ComputeFrame ==
  ASSUME Compute
  PROVE  /\ UNCHANGED <<blockRequests, worker, liveResponses, hand, blockIndex,
                        blockResponses, doneCh, writePC, file, recorded, phase, tip,
                        time, target>>
         /\ pending = {} /\ Search(tip)
  BY DEF Compute, Search, GotMin, GotMax, Bisect, Found, GotAvg, NonMonotonic, GotHeader,
         liveVars, proxyVars, diskVars, runVars

\* Nothing is on its way then, so that the step is one of Blockfinder with the requests
\* it makes as the only ones.
LEMMA ComputeStep ==
  ASSUME LongEnough, SearchReplayInv, Compute
  PROVE  /\ InFlight = {} /\ IInv /\ Search(ChainHeight)
         /\ IInv' /\ InFlight' = pending' /\ OneCopy' /\ SearchReplayTypeOK'
<1>1. pending = {} /\ Search(ChainHeight)
  BY ComputeFrame, Typed DEF SearchReplayTypeOK
<1>2. RequestsInv(InFlight) /\ BoundsInv /\ SearchInv /\ TypeOK
  BY DEF SearchReplayInv, SearchReplayTypeOK
<1>3. InFlight = {}
  <2>1. CASE GotMin(ChainHeight) \/ GotMax \/ GotAvg \/ NonMonotonic
    <3>1. Syncing /\ Answered
      BY <2>1 DEF GotMin, GotMax, GotAvg, NonMonotonic, Syncing
    <3> QED BY <1>2, <3>1, AllAnswered
  <2>2. CASE Bisect \/ Found
    BY <1>2, <2>2 DEF Bisect, Found, RequestsInv
  <2>3. CASE GotHeader
    BY <1>2, <2>3 DEF GotHeader, RequestsInv
  <2> QED BY <1>1, <2>1, <2>2, <2>3 DEF Search
<1>4. IInv
  BY <1>1, <1>2, <1>3 DEF IInv
<1>5. IInv'
  BY <1>1, <1>4, InvStep DEF Next
<1>6. /\ Range(blockRequests) = {} /\ Held = {} /\ Range(liveResponses) = {}
      /\ InHand = {} /\ Range(blockResponses) = {}
  BY <1>3 DEF InFlight
<1>7. /\ Range(blockRequests)' = {} /\ Held' = {} /\ Range(liveResponses)' = {}
      /\ InHand' = {} /\ Range(blockResponses)' = {}
  BY <1>6, ComputeFrame, HeldKept DEF InHand
<1>8. InFlight' = pending'
  BY <1>7 DEF InFlight
<1>9. OneCopy'
  BY <1>7, ComputeFrame, HeldKept, Typed DEF OneCopy
<1>10. SearchReplayTypeOK'
  <2>1. TypeOK'
    BY <1>5 DEF IInv
  <2> QED BY <2>1, ComputeFrame, Typed DEF SearchReplayTypeOK
<1> QED BY <1>1, <1>3, <1>4, <1>5, <1>8, <1>9, <1>10

-----------------------------------------------------------------------------
(* The intervals of a search.                                              *)

\* What has been stored stays, and so do the medians of what has been stored.
LEMMA Kept ==
  ASSUME target' = target, DOMAIN blockIndex \subseteq DOMAIN (blockIndex'),
         \A h : Seen(h) => MedianTime(h)' = MedianTime(h)
  PROVE  /\ \A h : Seen(h) => Seen(h)'
         /\ \A I : Path(I) => Path(I)'
         /\ \A I, p : Path(I) /\ p \in I /\ Halved(p, I) => Halved(p, I)'
         /\ \A I, b : Path(I) /\ LeadsTo(I, b) => LeadsTo(I, b)'
<1>1. \A h : Seen(h) => Seen(h)'
  BY DEF Seen
<1>2. \A I : Path(I) => Path(I)'
  BY <1>1 DEF Path
<1>3. ASSUME NEW p, Seen(p[1]), Seen(p[2]), Asked(p)
      PROVE  /\ Asked(p)'
             /\ MedianTime(MiddleOf(p))' = MedianTime(MiddleOf(p))
  BY <1>1, <1>3 DEF Asked
<1>4. \A I, p : Path(I) /\ p \in I /\ Halved(p, I) => Halved(p, I)'
  BY <1>3 DEF Halved, Path
<1>5. \A I, p, b : Path(I) /\ p \in I /\ EndsAt(p, b) => EndsAt(p, b)'
  BY <1>3 DEF EndsAt, Path
<1>6. \A I, b : Path(I) /\ LeadsTo(I, b) => LeadsTo(I, b)'
  BY <1>4, <1>5 DEF LeadsTo
<1> QED BY <1>1, <1>2, <1>4, <1>6

LEMMA TimesKept ==
  ASSUME UNCHANGED time
  PROVE  \A h : MedianTime(h)' = MedianTime(h)
  BY DEF MedianTime

LEMMA BoundsFit ==
  ASSUME LongEnough
  PROVE  /\ First \in Nat /\ Last \in Nat /\ First < Last
         /\ Word \in Nat /\ 2 * Last < Word /\ Last <= ChainHeight
<1>1. /\ Start \in Nat /\ Offset \in Nat /\ ChainHeight \in Nat /\ Word \in Nat
      /\ Start + Offset < ChainHeight /\ 2 * ChainHeight < Word
  BY SearchAssumption DEF LongEnough
<1> QED BY <1>1 DEF First, Last

LEMMA More == \A p, I, J : I \subseteq J /\ Halved(p, I) => Halved(p, J)
  BY DEF Halved

\* The bounds when a median has been asked for, and what they are.
LEMMA AvgFacts ==
  ASSUME LongEnough, SearchReplayInv, IInv, pc = "avg", Answered
  PROVE  /\ got = Window(height) /\ Median(time, got) = MedianTime(height)
         /\ height = MiddleOf(Interval) /\ pending = {}
         /\ min \in Nat /\ max \in Nat /\ height \in Nat /\ min < height /\ height < max
         /\ First \in Nat /\ Last \in Int /\ First <= min /\ max <= Last
         /\ minMedian = MedianTime(min) /\ maxMedian = MedianTime(max)
         /\ minMedian \in Int /\ maxMedian \in Int /\ MedianTime(height) \in Int
         /\ target \in Int
<1>1. /\ got = Window(height) /\ Median(time, got) = MedianTime(height) /\ pending = {}
  BY AllAnswered DEF IInv, Syncing
<1>2. height = MiddleOf(Interval)
  BY DEF SearchReplayInv
<1>3. /\ min \in Nat /\ max \in Nat /\ height \in Nat /\ target \in Int
      /\ min < height /\ height < max /\ First <= min /\ max <= Last
      /\ minMedian = MedianTime(min) /\ maxMedian = MedianTime(max)
  BY DEF IInv, TypeOK, BoundsInv
<1>4. First \in Nat /\ Last \in Int
  BY SearchAssumption DEF First, Last
<1>5. min \in First .. Last /\ max \in First .. Last /\ height \in First .. Last
  BY <1>3, <1>4
<1>6. MedianTime(min) \in Int /\ MedianTime(max) \in Int /\ MedianTime(height) \in Int
  BY <1>5, MedianTimeType DEF IInv
<1> QED BY <1>1, <1>2, <1>3, <1>4, <1>6

\* The cases of GotAvg.
LEMMA AvgCases ==
  ASSUME LongEnough, SearchReplayInv, IInv, GotAvg
  PROVE  /\ ~OutOfOrder(MedianTime(height))
         /\ \/ /\ target = MedianTime(height) /\ pc' = "header" /\ got' = {}
               /\ min' = height /\ max' = max
            \/ /\ target # MedianTime(height) /\ pc' = "loop" /\ got' = got
               /\ \/ target >= MedianTime(height) /\ min' = height /\ max' = max
                  \/ ~(target >= MedianTime(height)) /\ min' = min /\ max' = height
<1>1. pc = "avg" /\ Answered
  BY DEF GotAvg
<1>2. Median(time, got) = MedianTime(height) /\ MedianTime(height) \in Int /\ target \in Int
  BY <1>1, AvgFacts
<1> DEFINE m == MedianTime(height)
<1>3. m \in Int
  BY <1>2
<1>4. target = m => target >= m
  BY <1>2, <1>3
<1> HIDE DEF m
<1>5. /\ ~OutOfOrder(m)
      /\ IF target >= m THEN min' = height /\ max' = max ELSE max' = height /\ min' = min
      /\ IF target = m THEN pc' = "header" /\ got' = {} ELSE pc' = "loop" /\ got' = got
  BY <1>1, <1>2 DEF GotAvg, RaisesMin, FoundExactly, RequestHeader, m
<1>6. CASE target = m
  BY <1>4, <1>5, <1>6 DEF m
<1>7. CASE target # m /\ target >= m
  BY <1>5, <1>7 DEF m
<1>8. CASE target # m /\ ~(target >= m)
  BY <1>5, <1>8 DEF m
<1> QED BY <1>6, <1>7, <1>8

\* A median that is in order is asked for.
LEMMA AskedNow ==
  ASSUME LongEnough, SearchReplayInv, IInv, pc = "avg", Answered,
         ~OutOfOrder(MedianTime(height)), got \subseteq DOMAIN blockIndex
  PROVE  Asked(Interval)
<1>1. Interval[1] = min /\ Interval[2] = max
  BY DEF Interval
<1>2. MedianTime(min) <= MedianTime(height) /\ MedianTime(height) <= MedianTime(max)
  BY AvgFacts DEF OutOfOrder
<1>3. max - min > 1
  <2>1. min \in Nat /\ max \in Nat /\ height \in Nat /\ min < height /\ height < max
    BY AvgFacts
  <2> QED BY <2>1
<1>4. Seen(height)
  BY AvgFacts DEF Seen
<1> QED BY <1>1, <1>2, <1>3, <1>4, AvgFacts DEF Asked

\* The middle of the interval does not wrap around.
LEMMA MiddleIsMiddle ==
  ASSUME LongEnough, SearchReplayInv, Compute
  PROVE  (pc = "avg" => height = MiddleOf(Interval))'
<1> SUFFICES ASSUME pc' = "avg" PROVE height' = MiddleOf(Interval)'
  OBVIOUS
<1>1. Search(tip)
  BY ComputeFrame
<1>2. Bisect
  BY <1>1 DEF Search, GotMin, GotMax, Found, GotAvg, NonMonotonic, GotHeader, RequestHeader
<1>3. /\ min \in Nat /\ max \in Nat /\ max <= Last
      /\ min < max /\ min' = min /\ max' = max /\ height' = Middle
  BY <1>2, ComputeStep DEF Bisect, searchSync, IInv, TypeOK, BoundsInv
<1>4. Last \in Int /\ Word \in Nat /\ 2 * Last < Word
  BY BoundsFit
<1>5. max + min \in Nat /\ max + min < Word
  BY <1>3, <1>4
<1>6. U32(max + min) = max + min
  BY <1>5, U32Small
<1>7. Middle = (min + max) \div 2
  BY <1>3, <1>6 DEF Middle
<1>8. MiddleOf(Interval)' = (min + max) \div 2
  BY <1>3 DEF MiddleOf, Interval
<1> QED BY <1>3, <1>7, <1>8

\* Search takes a step over the recorder.
LEMMA RecordCompute ==
  ASSUME LongEnough, SearchReplayInv, phase = "record", Compute
  PROVE  RecordInv'
<1>0. IInv /\ Search(ChainHeight) /\ RecordInv
  BY ComputeStep DEF SearchReplayInv
<1>1. UNCHANGED <<hand, blockIndex, blockResponses, doneCh, writePC, file, time, target>>
  BY ComputeFrame
<1>2. /\ \A h : Seen(h)' <=> Seen(h)
      /\ \A I : Path(I) => Path(I)'
      /\ \A I, p : Path(I) /\ p \in I /\ Halved(p, I) => Halved(p, I)'
      /\ \A I, b : Path(I) /\ LeadsTo(I, b) => LeadsTo(I, b)'
  <2>1. \A h : Seen(h)' <=> Seen(h)
    BY <1>1 DEF Seen
  <2> QED BY <1>1, <2>1, Kept, TimesKept
<1> DEFINE Rest ==
      /\ pc # "min" => Seen(min)
      /\ pc \notin {"min", "max"} => Seen(max)
      /\ pc \in {"loop", "avg"} =>
           \E I \in SUBSET ((First .. min) \X (max .. Last)) :
             Path(I) /\ Interval \in I /\ \A p \in I : p = Interval \/ Halved(p, I)
      /\ pc \in {"header", "done"} =>
           min < max /\ \E I \in SUBSET ((First .. min) \X ((min + 1) .. Last)) :
                          Path(I) /\ LeadsTo(I, min)
<1>3. ASSUME pc # "done", got' \subseteq got, Rest' PROVE RecordInv'
  <2>1. doneCh = FALSE /\ writePC = "none"
    BY <1>0, <1>3, Typed DEF RecordInv, SearchReplayTypeOK
  <2>2. (got \cup Range(blockResponses) \cup InHand \subseteq DOMAIN blockIndex)'
    BY <1>0, <1>1, <1>3 DEF RecordInv, InHand
  <2>3. (\A h \in DOMAIN blockIndex : blockIndex[h] = time[h])'
    BY <1>0, <1>1 DEF RecordInv
  <2> QED BY <1>1, <1>3, <2>1, <2>2, <2>3 DEF RecordInv
<1>4. got \subseteq DOMAIN blockIndex
  BY <1>0 DEF RecordInv
<1>5. First \in Nat /\ Last \in Int /\ First < Last
  BY BoundsFit
<1> HIDE DEF Rest
<1>6. CASE GotMin(ChainHeight)
  <2>1. pc = "min" /\ pc' = "max" /\ min' = min /\ got' = {} /\ Answered
    BY <1>6 DEF GotMin, searchSync
  <2>2. got = Window(height) /\ min = First /\ height = First
    BY <1>0, <2>1, AllAnswered DEF IInv, BoundsInv, Syncing
  <2>3. Seen(min)'
    BY <1>1, <1>4, <2>1, <2>2 DEF Seen
  <2>4. Rest'
    BY <2>1, <2>3 DEF Rest
  <2> QED BY <1>3, <2>1, <2>4
<1>7. CASE GotMax
  <2>1. pc = "max" /\ pc' = "loop" /\ UNCHANGED <<min, max, got>> /\ Answered
    BY <1>7 DEF GotMax
  <2>2. got = Window(height) /\ min = First /\ height = Last /\ max = Last
    BY <1>0, <2>1, AllAnswered DEF IInv, BoundsInv, Syncing
  <2>3. Seen(min)' /\ Seen(max)' /\ Seen(First) /\ Seen(Last)
    BY <1>0, <1>1, <1>4, <2>1, <2>2 DEF Seen, RecordInv
  <2> DEFINE I == {<<First, Last>>}
  <2>4. Path(I)
    BY <2>3 DEF Path
  <2>5. Interval' \in I /\ \A p \in I : p = Interval'
    BY <2>1, <2>2 DEF Interval
  <2>6. I \in SUBSET ((First .. min') \X (max' .. Last))
    BY <1>5, <2>1, <2>2
  <2> HIDE DEF I
  <2>7. Rest'
    BY <1>2, <2>1, <2>3, <2>4, <2>5, <2>6 DEF Rest
  <2> QED BY <1>3, <2>1, <2>7
<1>8. CASE Bisect
  <2>1. pc = "loop" /\ pc' = "avg" /\ min' = min /\ max' = max /\ got' = {}
    BY <1>8 DEF Bisect, searchSync
  <2>2. PICK I \in SUBSET ((First .. min) \X (max .. Last)) :
          Path(I) /\ Interval \in I /\ \A p \in I : p = Interval \/ Halved(p, I)
    BY <1>0, <2>1 DEF RecordInv
  <2>3. Interval' = Interval
    BY <2>1 DEF Interval
  <2>4. Seen(min)' /\ Seen(max)'
    BY <1>0, <1>1, <2>1 DEF RecordInv, Seen
  <2>5. Rest'
    BY <1>2, <2>1, <2>2, <2>3, <2>4 DEF Rest
  <2> QED BY <1>3, <2>1, <2>5
<1>9. CASE Found
  <2>1. pc = "loop" /\ pc' = "header" /\ min' = min /\ max' = max /\ got' = {} /\ Adjacent
    BY <1>9 DEF Found, RequestHeader
  <2>2. PICK I \in SUBSET ((First .. min) \X (max .. Last)) :
          Path(I) /\ Interval \in I /\ \A p \in I : p = Interval \/ Halved(p, I)
    BY <1>0, <2>1 DEF RecordInv
  <2>3. min \in Nat /\ max \in Nat /\ min < max /\ max <= Last
    BY <1>0, <2>1 DEF IInv, TypeOK, BoundsInv
  <2>4. max = min + 1
    <3>1. Last \in Nat /\ Word \in Nat /\ 2 * Last < Word
      BY BoundsFit
    <3>2. max - min \in Nat /\ max - min < Word
      BY <1>5, <2>3, <3>1
    <3>3. U32(max - min) = max - min
      BY <3>2, U32Small
    <3> QED BY <2>1, <2>3, <3>3 DEF Adjacent
  <2>5. EndsAt(Interval, min)
    BY <2>3, <2>4 DEF EndsAt, Interval
  <2>6. LeadsTo(I, min)'
    <3>1. PICK b : b = min
      OBVIOUS
    <3>2. LeadsTo(I, b)
      BY <2>2, <2>5, <3>1 DEF LeadsTo
    <3>3. LeadsTo(I, b)'
      BY <1>2, <2>2, <3>2
    <3> QED BY <2>1, <3>1, <3>3 DEF LeadsTo, EndsAt
  <2>7. Seen(min)' /\ Seen(max)'
    BY <1>0, <1>1, <2>1 DEF RecordInv, Seen
  <2>8. I \in SUBSET ((First .. min') \X ((min' + 1) .. Last)) /\ Path(I)' /\ min' < max'
    BY <1>2, <2>1, <2>2, <2>3, <2>4
  <2>9. Rest'
    BY <2>1, <2>6, <2>7, <2>8 DEF Rest
  <2> QED BY <1>3, <2>1, <2>9
<1>10. CASE GotAvg
  <2>1. pc = "avg" /\ Answered
    BY <1>10 DEF GotAvg
  <2>2. PICK I \in SUBSET ((First .. min) \X (max .. Last)) :
          Path(I) /\ Interval \in I /\ \A p \in I : p = Interval \/ Halved(p, I)
    BY <1>0, <2>1 DEF RecordInv
  <2>3. Asked(Interval)
    BY <1>0, <1>4, <1>10, <2>1, AvgCases, AskedNow
  <2>4. Seen(min) /\ Seen(max) /\ Seen(height)
    BY <1>0, <1>4, <2>1, AvgFacts DEF RecordInv, Seen
  <2>5. /\ min \in Nat /\ max \in Nat /\ height \in Nat /\ min < height /\ height < max
        /\ First <= min /\ max <= Last /\ height = MiddleOf(Interval)
    BY <1>0, <2>1, AvgFacts
  <2>6. Interval[1] = min /\ Interval[2] = max
    BY DEF Interval
  <2>7. CASE /\ target = MedianTime(height) /\ pc' = "header" /\ got' = {}
             /\ min' = height /\ max' = max
    <3>1. EndsAt(Interval, height)
      BY <2>3, <2>5, <2>7 DEF EndsAt
    <3>2. I \in SUBSET ((First .. min') \X ((min' + 1) .. Last))
      <4>1. (First .. min) \subseteq (First .. min') /\ (max .. Last) \subseteq ((min' + 1) .. Last)
        BY <1>5, <2>5, <2>7
      <4> QED BY <2>2, <4>1
    <3>3. PICK b : b = height
      OBVIOUS
    <3>4. LeadsTo(I, b)
      BY <2>2, <3>1, <3>3 DEF LeadsTo
    <3>5. Path(I)' /\ LeadsTo(I, b)'
      BY <1>2, <2>2, <3>4
    <3>6. LeadsTo(I, min)'
      BY <2>7, <3>3, <3>5 DEF LeadsTo, EndsAt
    <3>7. Seen(min)' /\ Seen(max)'
      BY <1>1, <2>4, <2>7 DEF Seen
    <3>8. min' < max'
      BY <2>5, <2>7
    <3>9. Rest'
      BY <2>7, <3>2, <3>5, <3>6, <3>7, <3>8 DEF Rest
    <3> QED BY <1>3, <2>1, <2>7, <3>9
  <2>8. ASSUME target # MedianTime(height), pc' = "loop", got' = got,
               NEW n, n = Interval', Seen(min'), Seen(max'),
               n = IF target >= MedianTime(height) THEN <<height, max>> ELSE <<min, height>>,
               First <= min', min' \in Nat, min <= min', max' \in Nat, max' <= max
        PROVE  RecordInv'
    <3> DEFINE J == I \cup {n}
    <3>1. J \in SUBSET ((First .. min') \X (max' .. Last))
      <4>1. (First .. min) \subseteq (First .. min') /\ (max .. Last) \subseteq (max' .. Last)
        BY <1>5, <2>5, <2>8
      <4>2. min' \in First .. min' /\ max' \in max' .. Last /\ n = <<min', max'>>
        BY <1>5, <2>5, <2>8 DEF Interval
      <4>3. n \in (First .. min') \X (max' .. Last)
        BY <4>2
      <4> QED BY <2>2, <4>1, <4>3
    <3>2. Path(J)
      <4>1. n[1] = min' /\ n[2] = max'
        BY <2>8 DEF Interval
      <4> QED BY <2>2, <2>8, <4>1 DEF Path
    <3>3. Halved(Interval, J)
      <4>1. (IF target >= MedianTime(height) THEN <<height, Interval[2]>>
                                             ELSE <<Interval[1], height>>) \in J
        BY <2>6, <2>8
      <4> HIDE DEF J
      <4> QED BY <2>3, <2>5, <2>8, <4>1 DEF Halved
    <3>4. \A p \in J : p = Interval' \/ Halved(p, J)
      <4> SUFFICES ASSUME NEW p \in I PROVE p = Interval' \/ Halved(p, J)
        BY <2>8
      <4>1. CASE p = Interval
        BY <3>3, <4>1
      <4>2. CASE Halved(p, I)
        BY <4>2, More
      <4> QED BY <2>2, <4>1, <4>2
    <3>5. Interval' \in J
      BY <2>8
    <3> HIDE DEF J
    <3>6. Path(J)' /\ \A p \in J : p = Interval' \/ Halved(p, J)'
      BY <1>2, <3>2, <3>4
    <3>7. Seen(min)' /\ Seen(max)'
      BY <1>1, <2>8 DEF Seen
    <3>8. Rest'
      BY <2>8, <3>1, <3>5, <3>6, <3>7 DEF Rest
    <3> QED BY <1>3, <2>1, <2>8, <3>8
  <2>9. CASE /\ target # MedianTime(height) /\ pc' = "loop" /\ got' = got
             /\ target >= MedianTime(height) /\ min' = height /\ max' = max
    <3>1. Interval' = <<height, max>>
      BY <2>9 DEF Interval
    <3> QED BY <1>5, <2>4, <2>5, <2>8, <2>9, <3>1
  <2>10. CASE /\ target # MedianTime(height) /\ pc' = "loop" /\ got' = got
              /\ ~(target >= MedianTime(height)) /\ min' = min /\ max' = height
    <3>1. Interval' = <<min, height>>
      BY <2>10 DEF Interval
    <3> QED BY <1>5, <2>4, <2>5, <2>8, <2>10, <3>1
  <2> QED BY <1>0, <1>10, <2>7, <2>9, <2>10, AvgCases
<1>11. CASE NonMonotonic
  <2>1. pc = "avg" /\ pc' = "panic" /\ UNCHANGED <<min, max, got>>
    BY <1>11 DEF NonMonotonic
  <2>2. Seen(min)' /\ Seen(max)'
    BY <1>0, <1>1, <2>1 DEF RecordInv, Seen
  <2>3. Rest'
    BY <2>1, <2>2 DEF Rest
  <2> QED BY <1>3, <2>1, <2>3
<1>12. CASE GotHeader
  <2>1. pc = "header" /\ pc' = "done" /\ UNCHANGED <<min, max, got>>
    BY <1>12 DEF GotHeader
  <2>2. Seen(min)' /\ Seen(max)'
    BY <1>0, <1>1, <2>1 DEF RecordInv, Seen
  <2>3. PICK I \in SUBSET ((First .. min) \X ((min + 1) .. Last)) : Path(I) /\ LeadsTo(I, min)
    BY <1>0, <2>1 DEF RecordInv
  <2>4. min' = min /\ min < max /\ Path(I)' /\ LeadsTo(I, min)'
    <3> DEFINE b == min
    <3>1. b' = b
      BY <2>1
    <3>2. \A c : Path(I) /\ LeadsTo(I, c) => LeadsTo(I, c)'
      BY <1>2
    <3> QED BY <1>0, <1>2, <2>1, <2>3, <3>2 DEF RecordInv, LeadsTo, EndsAt
  <2>5. Rest'
    BY <2>1, <2>2, <2>3, <2>4 DEF Rest
  <2> QED BY <1>3, <2>1, <2>5
<1> QED BY <1>0, <1>6, <1>7, <1>8, <1>9, <1>10, <1>11, <1>12 DEF Search

\* Search takes a step over the fixture: it is one that the recorded search took.
LEMMA ReplayCompute ==
  ASSUME LongEnough, SearchReplayInv, phase = "replay", Compute
  PROVE  ReplayInv'
<1>0. IInv /\ Search(ChainHeight) /\ ReplayInv
  BY ComputeStep DEF SearchReplayInv
<1>1. UNCHANGED <<blockIndex, time, target, recorded>>
  BY ComputeFrame
<1>2. PICK b : b = recorded[1]
  OBVIOUS
<1>3. PICK I \in SUBSET ((First .. b) \X ((b + 1) .. Last)) :
        Path(I) /\ LeadsTo(I, b) /\ (pc \in {"loop", "avg"} => Interval \in I)
  BY <1>0, <1>2 DEF ReplayInv
<1>4. /\ pc # "panic" /\ b \in First .. Last /\ Seen(b)
      /\ recorded = <<b, MedianTime(b), time[b]>>
      /\ pc \in {"header", "done"} => min = b
  BY <1>0, <1>2 DEF ReplayInv
<1>5. Seen(b)' /\ Path(I)' /\ LeadsTo(I, b)' /\ recorded' = <<b, MedianTime(b)', time'[b]>>
      /\ recorded'[1] = b
  <2>1. \A h : Seen(h)' <=> Seen(h)
    BY <1>1 DEF Seen
  <2>2. Path(I)' /\ LeadsTo(I, b)' /\ MedianTime(b)' = MedianTime(b)
    BY <1>1, <1>3, <2>1, Kept, TimesKept
  <2> QED BY <1>1, <1>2, <1>4, <2>1, <2>2
<1>6. ASSUME pc' # "panic", pc' \in {"header", "done"} => min' = b,
             pc' \in {"loop", "avg"} => Interval' \in I
      PROVE  ReplayInv'
  <2>1. (\E J \in SUBSET ((First .. b) \X ((b + 1) .. Last)) :
           Path(J) /\ LeadsTo(J, b) /\ (pc \in {"loop", "avg"} => Interval \in J))'
    BY <1>5, <1>6
  <2>2. recorded'[1] = b
    BY <1>5
  <2> QED BY <1>4, <1>5, <1>6, <2>1, <2>2 DEF ReplayInv
<1>7. Interval[1] = min /\ Interval[2] = max
  BY DEF Interval
<1>8. Interval \in I => Halved(Interval, I) \/ EndsAt(Interval, b)
  BY <1>3 DEF LeadsTo
<1>9. CASE GotMin(ChainHeight)
  BY <1>6, <1>9 DEF GotMin
<1>10. CASE GotMax
  <2>1. pc = "max" /\ pc' = "loop" /\ UNCHANGED <<min, max>>
    BY <1>10 DEF GotMax
  <2>2. min = First /\ max = Last
    BY <1>0, <2>1 DEF IInv, BoundsInv
  <2>3. Interval' \in I
    BY <1>3, <2>1, <2>2 DEF Interval, Path
  <2> QED BY <1>6, <2>1, <2>3
<1>11. CASE Bisect
  <2>1. pc = "loop" /\ pc' = "avg" /\ Interval' = Interval
    BY <1>11 DEF Bisect, Interval
  <2> QED BY <1>3, <1>6, <2>1
<1>12. CASE Found
  <2>1. pc = "loop" /\ pc' = "header" /\ min' = min /\ Adjacent
    BY <1>12 DEF Found, RequestHeader
  <2>2. min \in Nat /\ max \in Nat /\ min < max /\ max <= Last
    BY <1>0, <2>1 DEF IInv, TypeOK, BoundsInv
  <2>3. max = min + 1
    <3>1. Last \in Nat /\ Word \in Nat /\ 2 * Last < Word
      BY BoundsFit
    <3>2. max - min \in Nat /\ max - min < Word
      BY <2>2, <3>1
    <3>3. U32(max - min) = max - min
      BY <3>2, U32Small
    <3> QED BY <2>1, <2>2, <3>3 DEF Adjacent
  <2>4. ~Asked(Interval)
    BY <1>7, <2>2, <2>3 DEF Asked
  <2>5. min = b
    BY <1>3, <1>7, <1>8, <2>1, <2>4 DEF Halved, EndsAt
  <2> QED BY <1>6, <2>1, <2>5
<1>13. CASE GotAvg
  <2>1. pc = "avg" /\ Answered
    BY <1>13 DEF GotAvg
  <2>2. /\ min \in Nat /\ max \in Nat /\ height \in Nat /\ min < height /\ height < max
        /\ height = MiddleOf(Interval)
    BY <1>0, <2>1, AvgFacts
  <2>3. max - min # 1
    BY <2>2
  <2>4. Halved(Interval, I) \/ EndsAt(Interval, b)
    BY <1>3, <1>8, <2>1
  <2>5. CASE /\ target = MedianTime(height) /\ pc' = "header" /\ min' = height
    <3>1. height = b
      BY <1>7, <2>2, <2>3, <2>4, <2>5 DEF Halved, EndsAt
    <3> QED BY <1>6, <2>5, <3>1
  <2>6. CASE /\ target # MedianTime(height) /\ pc' = "loop"
             /\ \/ target >= MedianTime(height) /\ min' = height /\ max' = max
                \/ ~(target >= MedianTime(height)) /\ min' = min /\ max' = height
    <3>1. (IF target >= MedianTime(height) THEN <<height, max>> ELSE <<min, height>>) \in I
      BY <1>7, <2>2, <2>3, <2>4, <2>6 DEF Halved, EndsAt
    <3>2. Interval' \in I
      BY <2>6, <3>1 DEF Interval
    <3> QED BY <1>6, <2>6, <3>2
  <2> QED BY <1>0, <1>13, <2>5, <2>6, AvgCases
<1>14. CASE NonMonotonic
  <2>1. pc = "avg" /\ Answered /\ OutOfOrder(Median(time, got))
    BY <1>14 DEF NonMonotonic
  <2>2. /\ min \in Nat /\ max \in Nat /\ height \in Nat /\ min < height /\ height < max
        /\ height = MiddleOf(Interval) /\ Median(time, got) = MedianTime(height)
        /\ minMedian = MedianTime(min) /\ maxMedian = MedianTime(max)
        /\ minMedian \in Int /\ maxMedian \in Int /\ MedianTime(height) \in Int
    BY <1>0, <2>1, AvgFacts
  <2>3. max - min # 1
    BY <2>2
  <2>4. Asked(Interval)
    BY <1>3, <1>7, <1>8, <2>1, <2>3 DEF Halved, EndsAt
  <2>5. minMedian <= MedianTime(height) /\ MedianTime(height) <= maxMedian
    BY <1>7, <2>2, <2>4 DEF Asked
  <2> QED BY <2>1, <2>2, <2>5 DEF OutOfOrder
<1>15. CASE GotHeader
  <2>1. pc = "header" /\ pc' = "done" /\ min' = min
    BY <1>15 DEF GotHeader
  <2> QED BY <1>4, <1>6, <2>1
<1> QED BY <1>0, <1>9, <1>10, <1>11, <1>12, <1>13, <1>14, <1>15 DEF Search

-----------------------------------------------------------------------------
(* The file, and the second process.                                       *)

\* A median depends on the timestamps of its own blocks.
LEMMA MedianSame ==
  ASSUME NEW S, NEW ts, NEW us, \A h \in S : ts[h] = us[h]
  PROVE  Median(ts, S) = Median(us, S)
<1>1. {ts[h] : h \in S} = {us[h] : h \in S}
  OBVIOUS
<1>2. \A m : /\ {h \in S : ts[h] < m} = {h \in S : us[h] < m}
             /\ {h \in S : ts[h] <= m} = {h \in S : us[h] <= m}
  OBVIOUS
<1> QED BY <1>1, <1>2 DEF Median

\* The index that is read is the one that was written.
LEMMA IndexLoaded ==
  ASSUME NEW D, NEW f \in [D -> Int]
  PROVE  LoadBlocks({[height |-> h, timestamp |-> f[h]] : h \in D}) = f
<1> DEFINE entries == {[height |-> h, timestamp |-> f[h]] : h \in D}
<1>1. {e.height : e \in entries} = D
  <2>1. \A h \in D : [height |-> h, timestamp |-> f[h]] \in entries
    OBVIOUS
  <2>2. \A e \in entries : e.height \in D
    OBVIOUS
  <2>3. \A h \in D : \E e \in entries : e.height = h
    BY <2>1
  <2> HIDE DEF entries
  <2> QED BY <2>2, <2>3
<1>2. ASSUME NEW h \in D
      PROVE  (CHOOSE e \in entries : e.height = h).timestamp = f[h]
  <2>1. [height |-> h, timestamp |-> f[h]] \in entries
    OBVIOUS
  <2>2. \E e \in entries : e.height = h
    BY <2>1
  <2>3. \A e \in entries : e.height = h => e.timestamp = f[h]
    OBVIOUS
  <2> HIDE DEF entries
  <2> QED BY <2>2, <2>3
<1> HIDE DEF entries
<1>3. LoadBlocks(entries) = [h \in D |-> f[h]]
  BY <1>1, <1>2 DEF LoadBlocks
<1> QED BY <1>3 DEF entries

\* When Search has returned no request is on its way.
LEMMA DoneFlight ==
  ASSUME SearchReplayInv, pc = "done"
  PROVE  /\ InFlight = {}
         /\ pending = {} /\ Range(blockRequests) = {} /\ Held = {}
         /\ Range(liveResponses) = {} /\ InHand = {} /\ Range(blockResponses) = {}
<1>1. InFlight = {}
  BY DEF SearchReplayInv, RequestsInv, BoundsInv
<1> QED BY <1>1 DEF InFlight

LEMMA LoadStep ==
  ASSUME LongEnough, SearchReplayInv, Load
  PROVE  SearchReplayInv'
<1>1. /\ phase = "record" /\ writePC = "written" /\ RecordInv /\ pc = "done"
      /\ file = [height |-> ChainHeight,
                 blocks |-> {[height |-> h, timestamp |-> blockIndex[h]] :
                               h \in DOMAIN blockIndex}]
  BY DEF Load, SearchReplayInv, RecordInv
<1>2. /\ blockIndex \in [DOMAIN blockIndex -> Int] /\ DOMAIN blockIndex \subseteq Height
      /\ time \in [Height -> Int] /\ target \in Int /\ min \in Nat /\ max \in Nat
  BY DEF SearchReplayInv, SearchReplayTypeOK, TypeOK
<1>3. LoadBlocks(file.blocks) = blockIndex /\ LoadHeight(file) = ChainHeight
  BY <1>1, <1>2, IndexLoaded DEF LoadHeight
<1>4. /\ phase' = "replay" /\ recorded' = <<min, minMedian, time[min]>>
      /\ blockIndex' = blockIndex /\ tip' = ChainHeight
      /\ time' = [h \in Height |-> IF h \in DOMAIN blockIndex THEN blockIndex[h] ELSE 0]
      /\ pc' = "min" /\ min' = Start /\ max' = 0 /\ minMedian' = 0 /\ maxMedian' = 0
      /\ height' = Start /\ pending' = Window(Start) /\ got' = {}
      /\ blockRequests' = <<>> /\ blockResponses' = <<>>
      /\ hand' = [at |-> "select", block |-> 0]
      /\ doneCh' = FALSE
      /\ UNCHANGED <<target, worker, liveResponses, writePC, file, backend>>
  BY <1>3 DEF Load, Result, At
<1>5. /\ First \in Nat /\ Last \in Nat /\ First < Last /\ Last <= ChainHeight
      /\ Start = First /\ First \in First .. Last
  BY BoundsFit DEF First
<1>6. Window(Start) \subseteq Height /\ Window(Start) \subseteq Nat
  BY <1>5, WindowInRange, SearchAssumption DEF Height
<1>7. SearchReplayTypeOK'
  <2>1. 0 \in Height
    BY SearchAssumption DEF Height
  <2>2. TypeOK'
    <3>1. time' \in [Height -> Int]
      BY <1>2, <1>4
    <3> QED BY <1>2, <1>4, <1>5, <1>6, <3>1 DEF TypeOK
  <2>3. hand' \in [at : {"select", "forward", "returned"}, block : Height]
    BY <1>4, <2>1
  <2>4. blockIndex' \in [DOMAIN (blockIndex') -> Int] /\ DOMAIN (blockIndex') \subseteq Height
    BY <1>2, <1>4
  <2>5. blockRequests' \in Seq(Height) /\ blockResponses' \in Seq(Height)
    BY <1>4, EmptyChannel
  <2> QED BY <1>4, <2>2, <2>3, <2>4, <2>5, Typed DEF SearchReplayTypeOK
<1>8. /\ Range(blockRequests)' = {} /\ Held' = {} /\ Range(liveResponses)' = {}
      /\ InHand' = {} /\ Range(blockResponses)' = {}
  <2>1. Held' = {} /\ Range(liveResponses)' = {}
    BY <1>1, <1>4, DoneFlight, HeldKept
  <2> QED BY <1>4, <2>1, EmptyChannel DEF InHand
<1>9. OneCopy'
  BY <1>4, <1>8, HeldKept, EmptyChannel, Typed DEF OneCopy
<1>10. InFlight' = Window(Start)
  BY <1>4, <1>8 DEF InFlight
<1>11. RequestsInv(InFlight)'
  BY <1>4, <1>10 DEF RequestsInv, Syncing
<1>12. BoundsInv' /\ SearchInv'
  BY <1>4, <1>5 DEF BoundsInv, SearchInv, Syncing
<1>13. ReplayInv'
  <2>1. PICK b : b = min
    OBVIOUS
  <2>2. /\ Seen(b) /\ min < max /\ max <= Last /\ First <= min
        /\ minMedian = MedianTime(min)
        /\ \A h \in DOMAIN blockIndex : blockIndex[h] = time[h]
    BY <1>1, <2>1 DEF RecordInv, SearchReplayInv, BoundsInv
  <2>3. b \in First .. Last
    BY <1>2, <1>5, <2>1, <2>2
  <2>4. b \in Window(b)
    <3>1. Window(b) = b - Radius .. b + Radius /\ b \in Nat
      BY <2>3, WindowInRange
    <3> QED BY <3>1, SearchAssumption
  <2>5. \A h \in DOMAIN blockIndex : time'[h] = time[h]
    BY <1>2, <1>4, <2>2
  <2>6. \A h : Seen(h) => MedianTime(h)' = MedianTime(h)
    <3> SUFFICES ASSUME NEW h, Seen(h) PROVE Median(time', Window(h)) = Median(time, Window(h))
      BY DEF MedianTime
    <3>1. \A g \in Window(h) : time'[g] = time[g]
      BY <2>5 DEF Seen
    <3> QED BY <3>1, MedianSame
  <2>7. PICK I \in SUBSET ((First .. min) \X ((min + 1) .. Last)) : Path(I) /\ LeadsTo(I, min)
    BY <1>1 DEF RecordInv
  <2>8. Path(I)' /\ LeadsTo(I, b)' /\ Seen(b)'
    BY <1>4, <2>1, <2>2, <2>6, <2>7, Kept
  <2>9. recorded' = <<b, MedianTime(b)', time'[b]>> /\ recorded'[1] = b
    <3>1. time'[b] = time[b]
      BY <2>2, <2>4, <2>5 DEF Seen
    <3>2. MedianTime(b)' = minMedian
      BY <2>1, <2>2, <2>6
    <3> QED BY <1>4, <2>1, <3>1, <3>2
  <2>10. I \in SUBSET ((First .. b) \X ((b + 1) .. Last))
    BY <2>1, <2>7
  <2> QED BY <1>4, <2>3, <2>8, <2>9, <2>10 DEF ReplayInv
<1> QED BY <1>4, <1>7, <1>9, <1>11, <1>12, <1>13 DEF SearchReplayInv

-----------------------------------------------------------------------------
(* Every step of either process.                                           *)

\* A step that carries requests on leaves Search where it is.
LEMMA CarriedSearch ==
  ASSUME SearchReplayInv, Carried,
         UNCHANGED <<time, target, pc, min, max, minMedian, maxMedian, height, got>>
  PROVE  /\ RequestsInv(InFlight)' /\ BoundsInv' /\ SearchInv'
         /\ (pc = "avg" => height = MiddleOf(Interval))'
         /\ TypeOK' /\ OneCopy'
<1>1. RequestsInv(InFlight)'
  BY DEF SearchReplayInv, Carried, RequestsInv, Syncing
<1>2. BoundsInv' /\ SearchInv'
  BY DEF SearchReplayInv, BoundsInv, SearchInv, Syncing, MedianTime
<1>3. (pc = "avg" => height = MiddleOf(Interval))'
  BY DEF SearchReplayInv, MiddleOf, Interval
<1>4. TypeOK'
  BY DEF SearchReplayInv, SearchReplayTypeOK, TypeOK, Carried
<1> QED BY <1>1, <1>2, <1>3, <1>4 DEF Carried

\* What the recorder knows of the search, while the search stays where it is.
LEMMA RecordKept ==
  ASSUME RecordInv, SearchReplayInv,
         UNCHANGED <<time, target, pc, min, max>>,
         DOMAIN blockIndex \subseteq DOMAIN (blockIndex'),
         \A h \in DOMAIN (blockIndex') : blockIndex'[h] = time[h],
         (got \cup Range(blockResponses) \cup InHand)' \subseteq DOMAIN (blockIndex'),
         (doneCh \/ writePC # "none")' => pc = "done",
         writePC' = "written" =>
           file' = [height |-> ChainHeight,
                    blocks |-> {[height |-> h, timestamp |-> blockIndex'[h]] :
                                  h \in DOMAIN (blockIndex')}]
  PROVE  RecordInv'
<1>1. /\ \A h : Seen(h) => Seen(h)'
      /\ \A I : Path(I) => Path(I)'
      /\ \A I, p : Path(I) /\ p \in I /\ Halved(p, I) => Halved(p, I)'
      /\ \A I, b : Path(I) /\ LeadsTo(I, b) => LeadsTo(I, b)'
  BY Kept, TimesKept
<1>2. (got \cup Range(blockResponses) \cup InHand \subseteq DOMAIN blockIndex)'
  BY DEF RecordInv
<1>3. (pc # "min" => Seen(min))' /\ (pc \notin {"min", "max"} => Seen(max))'
  BY <1>1 DEF RecordInv, Seen
<1>4. (pc \in {"loop", "avg"} =>
         \E I \in SUBSET ((First .. min) \X (max .. Last)) :
           Path(I) /\ Interval \in I /\ \A p \in I : p = Interval \/ Halved(p, I))'
  <2> SUFFICES ASSUME pc \in {"loop", "avg"}
               PROVE  (\E I \in SUBSET ((First .. min) \X (max .. Last)) :
                         Path(I) /\ Interval \in I /\ \A p \in I : p = Interval \/ Halved(p, I))'
    OBVIOUS
  <2>1. PICK I \in SUBSET ((First .. min) \X (max .. Last)) :
          Path(I) /\ Interval \in I /\ \A p \in I : p = Interval \/ Halved(p, I)
    BY DEF RecordInv
  <2>2. Interval' = Interval
    BY DEF Interval
  <2> QED BY <1>1, <2>1, <2>2
<1>5. (pc \in {"header", "done"} =>
         min < max /\ \E I \in SUBSET ((First .. min) \X ((min + 1) .. Last)) :
                        Path(I) /\ LeadsTo(I, min))'
  <2> SUFFICES ASSUME pc \in {"header", "done"}
               PROVE  (min < max /\ \E I \in SUBSET ((First .. min) \X ((min + 1) .. Last)) :
                                      Path(I) /\ LeadsTo(I, min))'
    OBVIOUS
  <2>1. PICK I \in SUBSET ((First .. min) \X ((min + 1) .. Last)) :
          min < max /\ Path(I) /\ LeadsTo(I, min)
    BY DEF RecordInv
  <2>2. PICK b : b = min
    OBVIOUS
  <2>3. LeadsTo(I, b)'
    BY <1>1, <2>1, <2>2
  <2>4. LeadsTo(I, min)'
    BY <2>2, <2>3 DEF LeadsTo, EndsAt
  <2> QED BY <1>1, <2>1, <2>4
<1> QED BY <1>2, <1>3, <1>4, <1>5 DEF RecordInv

\* ... and what the replay knows.
LEMMA ReplayKept ==
  ASSUME ReplayInv, SearchReplayInv,
         UNCHANGED <<time, target, pc, min, max, blockIndex, recorded>>
  PROVE  ReplayInv'
<1>1. PICK b : b = recorded[1]
  OBVIOUS
<1>2. PICK I \in SUBSET ((First .. b) \X ((b + 1) .. Last)) :
        Path(I) /\ LeadsTo(I, b) /\ (pc \in {"loop", "avg"} => Interval \in I)
  BY <1>1 DEF ReplayInv
<1>3. Path(I)' /\ LeadsTo(I, b)' /\ MedianTime(b)' = MedianTime(b) /\ Interval' = Interval
  BY <1>2, Kept, TimesKept DEF Interval
<1>4. Seen(b)'
  BY <1>1 DEF ReplayInv, Seen
<1>5. (\E J \in SUBSET ((First .. b) \X ((b + 1) .. Last)) :
         Path(J) /\ LeadsTo(J, b) /\ (pc \in {"loop", "avg"} => Interval \in J))'
  BY <1>2, <1>3
<1>6. recorded'[1] = b
  BY <1>1
<1> QED BY <1>1, <1>3, <1>4, <1>5, <1>6 DEF ReplayInv

\* A process that has stopped.
LEMMA StoppedStep ==
  ASSUME SearchReplayInv, phase' \in {"refused", "crashed"},
         UNCHANGED <<vars, liveVars, proxyVars, diskVars, tip>>
  PROVE  SearchReplayInv'
<1>1. Carried
  BY StillCarried DEF vars, liveVars, proxyVars
<1>2. SearchReplayTypeOK'
  <2>1. TypeOK'
    BY <1>1, CarriedSearch DEF vars
  <2> QED BY <1>1, <2>1, Typed DEF Carried, SearchReplayTypeOK, proxyVars, diskVars
<1> QED BY <1>1, <1>2, CarriedSearch DEF vars, SearchReplayInv

\* A step that carries requests on.
LEMMA CarriedStep ==
  ASSUME SearchReplayInv, Carried,
         UNCHANGED <<time, target, pc, min, max, minMedian, maxMedian, height, got, tip, phase>>,
         blockIndex' \in [DOMAIN (blockIndex') -> Int], DOMAIN (blockIndex') \subseteq Height,
         doneCh' \in BOOLEAN, writePC' \in {"none", "write", "written", "failed"},
         phase = "record" => RecordInv', phase = "replay" => ReplayInv'
  PROVE  SearchReplayInv'
<1>1. SearchReplayTypeOK'
  BY CarriedSearch, Typed DEF Carried, SearchReplayTypeOK
<1> QED BY <1>1, CarriedSearch DEF SearchReplayInv

\* ... and changes no more than where requests are.
LEMMA OnlyCarried ==
  ASSUME SearchReplayInv, Carried,
         UNCHANGED <<time, target, pc, min, max, minMedian, maxMedian, height, got, tip, phase,
                     blockIndex, doneCh, writePC, file, recorded>>,
         (Range(blockResponses) \cup InHand)' \subseteq Range(blockResponses) \cup InHand
  PROVE  SearchReplayInv'
<1>1. /\ blockIndex' \in [DOMAIN (blockIndex') -> Int] /\ DOMAIN (blockIndex') \subseteq Height
      /\ doneCh' \in BOOLEAN /\ writePC' \in {"none", "write", "written", "failed"}
  BY Typed DEF SearchReplayTypeOK
<1>2. phase = "record" => RecordInv'
  <2> SUFFICES ASSUME phase = "record" PROVE RecordInv'
    OBVIOUS
  <2>1. RecordInv
    BY DEF SearchReplayInv
  <2>2. /\ \A h \in DOMAIN (blockIndex') : blockIndex'[h] = time[h]
        /\ (got \cup Range(blockResponses) \cup InHand)' \subseteq DOMAIN (blockIndex')
        /\ (doneCh \/ writePC # "none")' => pc = "done"
    BY <2>1 DEF RecordInv
  <2>3. writePC' = "written" =>
          file' = [height |-> ChainHeight,
                   blocks |-> {[height |-> h, timestamp |-> blockIndex'[h]] :
                                 h \in DOMAIN (blockIndex')}]
    BY <2>1 DEF RecordInv
  <2> QED BY <2>1, <2>2, <2>3, RecordKept
<1>3. phase = "replay" => ReplayInv'
  BY ReplayKept DEF SearchReplayInv
<1> QED BY <1>1, <1>2, <1>3, CarriedStep

\* The goroutines of the live backend.
LEMMA LiveStep ==
  ASSUME SearchReplayInv, NEW w \in Worker, live(w)
  PROVE  SearchReplayInv'
<1>1. CASE TakeBlock(w)
  <2>1. Carried
    BY <1>1, TakeCarried DEF TakeBlock, vars, proxyVars
  <2> QED BY <1>1, <2>1, OnlyCarried DEF TakeBlock, vars, proxyVars, diskVars, runVars, InHand
<1>2. CASE ReplyBlock(w)
  BY <1>2, ReplyCarried, OnlyCarried DEF ReplyBlock, vars, proxyVars, diskVars, runVars, InHand
<1>3. CASE BlockFails(w)
  <2>1. Carried
    BY <1>3, TakeCarried DEF BlockFails, vars, proxyVars
  <2> QED BY <1>3, <2>1, OnlyCarried DEF BlockFails, vars, proxyVars, diskVars, runVars, InHand
<1>4. CASE RequeueBlock(w)
  BY <1>4, RequeueCarried, OnlyCarried
  DEF RequeueBlock, vars, proxyVars, diskVars, runVars, InHand
<1>5. CASE BlockPanic(w)
  BY <1>5, StoppedStep DEF BlockPanic, Crash
<1> QED BY <1>1, <1>2, <1>3, <1>4, <1>5 DEF live

\* That of the recorder, and that of the fixture.
LEMMA ProxyStep ==
  ASSUME SearchReplayInv, proxy
  PROVE  SearchReplayInv'
<1>1. CASE StoreBlock
  <2>1. Carried
    BY <1>1, StoreCarried
  <2> DEFINE b == Head(liveResponses)
  <2>2. /\ phase = "record" /\ liveResponses # <<>> /\ b \in Height
        /\ b \in Range(liveResponses)
    BY <1>1, Typed, Taken DEF StoreBlock, OneCopy
  <2>3. /\ blockIndex' = [h \in DOMAIN blockIndex \cup {b} |->
                            IF h = b THEN time[b] ELSE blockIndex[h]]
        /\ hand' = [at |-> "forward", block |-> b]
        /\ UNCHANGED <<time, target, pc, min, max, minMedian, maxMedian, height, got, tip,
                       phase, blockResponses, doneCh, writePC, file, recorded>>
    BY <1>1 DEF StoreBlock, AfterStore, At, vars, diskVars, runVars
  <2>4. RecordInv /\ time \in [Height -> Int]
    BY <2>2 DEF SearchReplayInv, SearchReplayTypeOK, TypeOK
  <2>5. pc # "done"
    BY <2>2, DoneFlight
  <2> HIDE DEF b
  <2>6. /\ DOMAIN (blockIndex') = DOMAIN blockIndex \cup {b}
        /\ \A h \in DOMAIN (blockIndex') : blockIndex'[h] = time[h]
    BY <2>3, <2>4 DEF RecordInv
  <2>7. /\ blockIndex' \in [DOMAIN (blockIndex') -> Int] /\ DOMAIN (blockIndex') \subseteq Height
    <3>1. DOMAIN (blockIndex') \subseteq Height
      BY <2>2, <2>6, Typed DEF SearchReplayTypeOK
    <3>2. \A h \in DOMAIN (blockIndex') : blockIndex'[h] \in Int
      BY <2>4, <2>6, <3>1
    <3>3. blockIndex' = [h \in DOMAIN (blockIndex') |-> blockIndex'[h]]
      BY <2>3
    <3> QED BY <3>1, <3>2, <3>3
  <2>8. (got \cup Range(blockResponses) \cup InHand)' \subseteq DOMAIN (blockIndex')
    BY <2>3, <2>4, <2>6 DEF RecordInv, InHand
  <2>9. doneCh' = FALSE /\ writePC' = "none"
    BY <2>3, <2>4, <2>5, Typed DEF RecordInv, SearchReplayTypeOK
  <2>10. RecordInv'
    BY <2>3, <2>4, <2>6, <2>8, <2>9, RecordKept
  <2> QED BY <2>1, <2>2, <2>3, <2>7, <2>9, <2>10, CarriedStep
<1>2. CASE FixtureBlock /\ UNCHANGED phase
  <2>1. Carried
    BY <1>2, FixtureCarried
  <2>2. /\ phase = "replay"
        /\ UNCHANGED <<time, target, pc, min, max, minMedian, maxMedian, height, got,
                       phase, blockIndex, doneCh, writePC, file, recorded>>
    BY <1>2 DEF FixtureBlock, vars, diskVars
  <2>3. UNCHANGED tip
    BY <1>2 DEF FixtureBlock, Crash, runVars
  <2>4. ReplayInv'
    BY <2>2, ReplayKept DEF SearchReplayInv
  <2> QED BY <2>1, <2>2, <2>3, <2>4, Typed, CarriedStep DEF SearchReplayTypeOK
<1>3. CASE FixtureBlock /\ ~UNCHANGED phase
  <2>1. Crash /\ UNCHANGED <<vars, liveVars, proxyVars, diskVars>>
    BY <1>3 DEF FixtureBlock, runVars, liveVars, proxyVars
  <2> QED BY <2>1, StoppedStep DEF Crash
<1>4. CASE ForwardBlock
  <2>1. Carried
    BY <1>4, ForwardCarried
  <2>2. /\ blockResponses' = Append(blockResponses, hand.block)
        /\ hand' = [at |-> "select", block |-> 0] /\ InHand = {hand.block}
        /\ UNCHANGED <<time, target, pc, min, max, minMedian, maxMedian, height, got, tip,
                       phase, blockIndex, doneCh, writePC, file, recorded>>
    BY <1>4 DEF ForwardBlock, At, InHand, vars, diskVars, runVars
  <2>3. hand.block \in Height /\ hand.block \notin Range(blockResponses)
    BY <2>2, Typed DEF OneCopy, InHand
  <2>4. Range(blockResponses)' = Range(blockResponses) \cup {hand.block}
    BY <2>2, <2>3, Typed, Sent DEF OneCopy
  <2>5. (Range(blockResponses) \cup InHand)' \subseteq Range(blockResponses) \cup InHand
    BY <2>2, <2>4 DEF InHand
  <2> QED BY <2>1, <2>2, <2>5, OnlyCarried
<1>5. CASE Done
  <2>1. Carried
    BY <1>5, StillCarried DEF Done, At, vars, liveVars
  <2>2. (Range(blockResponses) \cup InHand)' \subseteq Range(blockResponses) \cup InHand
    BY <1>5 DEF Done, At, InHand
  <2> QED BY <1>5, <2>1, <2>2, OnlyCarried DEF Done, vars, diskVars, runVars
<1> QED BY <1>1, <1>2, <1>3, <1>4, <1>5 DEF proxy

\* Search, over either backend.
LEMMA ClientStep ==
  ASSUME LongEnough, SearchReplayInv, Running, client
  PROVE  SearchReplayInv'
<1>1. CASE BlockRequest
  <2>1. Carried
    BY <1>1, RequestCarried
  <2>2. (Range(blockResponses) \cup InHand)' \subseteq Range(blockResponses) \cup InHand
    BY <1>1 DEF BlockRequest, proxyVars, InHand
  <2> QED BY <1>1, <2>1, <2>2, OnlyCarried DEF BlockRequest, proxyVars, diskVars, runVars
<1>2. CASE Receive
  <2> DEFINE b == Head(blockResponses)
  <2>1. /\ b \in Range(blockResponses) /\ b \in InFlight /\ b \in Height
        /\ InFlight' = InFlight \ {b}
        /\ got' = got \cup {b}
        /\ Range(blockResponses)' \subseteq Range(blockResponses)
        /\ blockResponses' \in Seq(Height)
        /\ OneCopy'
    BY <1>2, Received
  <2>2. /\ UNCHANGED <<time, target, pc, min, max, minMedian, maxMedian, height, pending,
                       blockRequests, worker, liveResponses, hand, blockIndex, doneCh, writePC,
                       file, recorded, phase, tip>>
        /\ pc \in {"min", "max", "avg", "header"}
    BY <1>2 DEF Receive, liveVars, diskVars, runVars
  <2> HIDE DEF b
  <2>3. SearchReplayTypeOK'
    <3>1. TypeOK'
      BY <2>1, <2>2, Typed DEF SearchReplayTypeOK, TypeOK
    <3> QED BY <2>1, <2>2, <3>1, Typed DEF SearchReplayTypeOK
  <2>4. RequestsInv(InFlight)'
    BY <2>1, <2>2 DEF SearchReplayInv, RequestsInv, Syncing
  <2>5. BoundsInv' /\ SearchInv'
    BY <2>2 DEF SearchReplayInv, BoundsInv, SearchInv, Syncing, MedianTime
  <2>6. (pc = "avg" => height = MiddleOf(Interval))'
    BY <2>2 DEF SearchReplayInv, MiddleOf, Interval
  <2>7. phase = "record" => RecordInv'
    <3> SUFFICES ASSUME phase = "record" PROVE RecordInv'
      OBVIOUS
    <3>1. RecordInv
      BY DEF SearchReplayInv
    <3>2. /\ \A h \in DOMAIN (blockIndex') : blockIndex'[h] = time[h]
          /\ (got \cup Range(blockResponses) \cup InHand)' \subseteq DOMAIN (blockIndex')
          /\ (doneCh \/ writePC # "none")' => pc = "done"
      BY <2>1, <2>2, <3>1 DEF RecordInv, InHand
    <3>3. writePC' = "written" =>
            file' = [height |-> ChainHeight,
                     blocks |-> {[height |-> h, timestamp |-> blockIndex'[h]] :
                                   h \in DOMAIN (blockIndex')}]
      BY <2>2, <3>1 DEF RecordInv
    <3> QED BY <2>2, <3>1, <3>2, <3>3, RecordKept
  <2>8. phase = "replay" => ReplayInv'
    BY <2>2, ReplayKept DEF SearchReplayInv
  <2> QED BY <2>1, <2>2, <2>3, <2>4, <2>5, <2>6, <2>7, <2>8 DEF SearchReplayInv
<1>3. CASE Compute
  <2>1. IInv' /\ InFlight' = pending' /\ OneCopy' /\ SearchReplayTypeOK' /\ UNCHANGED phase
    BY <1>3, ComputeStep, ComputeFrame
  <2>2. RequestsInv(InFlight)' /\ BoundsInv' /\ SearchInv'
    BY <2>1 DEF IInv, RequestsInv
  <2> QED BY <1>3, <2>1, <2>2, MiddleIsMiddle, RecordCompute, ReplayCompute DEF SearchReplayInv
<1> QED BY <1>1, <1>2, <1>3 DEF client

\* Finish and the file.
LEMMA FinishStep ==
  ASSUME SearchReplayInv, Finish \/ Write
  PROVE  SearchReplayInv'
<1>1. UNCHANGED <<vars, liveVars, proxyVars, recorded, runVars>>
  BY DEF Finish, Write
<1>2. Carried
  BY <1>1, StillCarried DEF vars, liveVars, proxyVars
<1>3. /\ blockIndex' \in [DOMAIN (blockIndex') -> Int] /\ DOMAIN (blockIndex') \subseteq Height
      /\ doneCh' \in BOOLEAN /\ writePC' \in {"none", "write", "written", "failed"}
  <2>1. CASE Finish
    BY <1>1, <2>1, Typed DEF Finish, proxyVars, SearchReplayTypeOK
  <2>2. CASE Write
    BY <1>1, <2>2, Typed DEF Write, proxyVars, SearchReplayTypeOK
  <2> QED BY <2>1, <2>2
<1>4. phase = "record" => RecordInv'
  <2> SUFFICES ASSUME phase = "record" PROVE RecordInv'
    OBVIOUS
  <2>1. RecordInv /\ tip = ChainHeight
    BY Typed DEF SearchReplayInv, SearchReplayTypeOK
  <2>2. /\ \A h \in DOMAIN (blockIndex') : blockIndex'[h] = time[h]
        /\ (got \cup Range(blockResponses) \cup InHand)' \subseteq DOMAIN (blockIndex')
    BY <1>1, <2>1 DEF RecordInv, InHand, vars, proxyVars
  <2>3. pc = "done"
    BY <2>1 DEF Finish, Write, RecordInv
  <2>4. writePC' = "written" =>
          file' = [height |-> ChainHeight,
                   blocks |-> {[height |-> h, timestamp |-> blockIndex'[h]] :
                                 h \in DOMAIN (blockIndex')}]
    <3>1. CASE Finish
      BY <3>1 DEF Finish
    <3>2. CASE Write
      BY <1>1, <2>1, <3>2 DEF Write, proxyVars
    <3> QED BY <3>1, <3>2
  <2>5. UNCHANGED <<time, target, pc, min, max, blockIndex>>
    BY <1>1 DEF vars, proxyVars
  <2> QED BY <2>1, <2>2, <2>3, <2>4, <2>5, RecordKept
<1>5. phase = "replay" => ReplayInv'
  BY <1>1, ReplayKept DEF SearchReplayInv, vars, proxyVars
<1> QED BY <1>1, <1>2, <1>3, <1>4, <1>5, CarriedStep DEF vars, runVars

LEMMA SearchReplayStep ==
  ASSUME LongEnough, SearchReplayInv, [SearchReplayNext]_allVars
  PROVE  SearchReplayInv'
<1>1. CASE Refuse
  BY <1>1, StoppedStep DEF Refuse
<1>2. CASE UNCHANGED allVars
  <2>1. Carried
    BY <1>2, StillCarried DEF allVars, vars, liveVars, proxyVars
  <2>2. (Range(blockResponses) \cup InHand)' \subseteq Range(blockResponses) \cup InHand
    BY <1>2 DEF allVars, proxyVars, InHand
  <2> QED BY <1>2, <2>1, <2>2, OnlyCarried DEF allVars, vars, proxyVars, diskVars, runVars
<1> QED BY <1>1, <1>2, ClientStep, LiveStep, ProxyStep, FinishStep, LoadStep
        DEF SearchReplayNext

LEMMA SearchReplayStart == ASSUME LongEnough, SearchReplayInit PROVE SearchReplayInv
<1>1. IInv
  BY InvInit DEF SearchReplayInit
<1>2. /\ phase = "record" /\ blockRequests = <<>> /\ liveResponses = <<>>
      /\ blockResponses = <<>> /\ hand = [at |-> "select", block |-> 0]
      /\ worker = [w \in Worker |-> [at |-> "select", block |-> 0]]
      /\ doneCh = FALSE /\ blockIndex = [h \in {} |-> 0] /\ writePC = "none"
      /\ tip = ChainHeight /\ pc = "min" /\ got = {}
  BY DEF SearchReplayInit, Init, At
<1>3. /\ Range(blockRequests) = {} /\ Held = {} /\ Range(liveResponses) = {} /\ InHand = {}
      /\ Range(blockResponses) = {} /\ \A w \in Worker : ~Holding(w)
  BY <1>2, EmptyChannel DEF Held, Holding, InHand
<1>4. InFlight = pending /\ OneCopy
  BY <1>2, <1>3, EmptyChannel DEF InFlight, OneCopy
<1>5. SearchReplayTypeOK
  <2>1. 0 \in Height
    BY SearchAssumption DEF Height
  <2>2. /\ blockIndex \in [DOMAIN blockIndex -> Int] /\ DOMAIN blockIndex \subseteq Height
    BY <1>2
  <2>3. worker \in [Worker -> [at : {"select", "reply", "requeue", "returned"}, block : Height]]
    BY <1>2, <2>1
  <2> QED BY <1>1, <1>2, <2>1, <2>2, <2>3, EmptyChannel DEF SearchReplayTypeOK, IInv
<1>6. RecordInv
  BY <1>2, <1>3 DEF RecordInv
<1> QED BY <1>1, <1>2, <1>4, <1>5, <1>6 DEF SearchReplayInv, IInv

-----------------------------------------------------------------------------
(* The theorems.                                                           *)

\* The requests, bounds and medians of both searches, what the recorder has stored
\* and what the fixture has read stay in step, for all goroutines and channels.
THEOREM SearchReplayInvariant == ASSUME LongEnough PROVE SearchReplaySpec => []SearchReplayInv
<1>1. SearchReplayInit => SearchReplayInv
  BY SearchReplayStart
<1>2. SearchReplayInv /\ [SearchReplayNext]_allVars => SearchReplayInv'
  BY SearchReplayStep
<1> QED BY <1>1, <1>2, PTL DEF SearchReplaySpec

\* What the recorder has stored of one search is all that its replay takes: the same
\* block is found, with the same median and timestamp, in whatever order the blocks
\* of either search are answered.
THEOREM ReplayIsSame == ASSUME LongEnough PROVE SearchReplaySpec => []ReplaySame
<1>1. ASSUME SearchReplayInv PROVE ReplaySame
  <2> SUFFICES ASSUME phase = "replay", pc = "done" PROVE Result = recorded
    BY DEF ReplaySame
  <2>1. recorded = <<min, MedianTime(min), time[min]>>
    BY <1>1 DEF SearchReplayInv, ReplayInv
  <2>2. minMedian = MedianTime(min)
    BY <1>1 DEF SearchReplayInv, BoundsInv
  <2> QED BY <2>1, <2>2 DEF Result
<1> QED BY <1>1, SearchReplayInvariant, PTL

\* A replay has the blocks it asks for.
LEMMA ReplayIndexed ==
  ASSUME LongEnough, SearchReplayInv, phase = "replay"
  PROVE  InFlight \subseteq DOMAIN blockIndex
<1>1. PICK b : b = recorded[1]
  OBVIOUS
<1>2. PICK I \in SUBSET ((First .. b) \X ((b + 1) .. Last)) :
        Path(I) /\ LeadsTo(I, b) /\ (pc \in {"loop", "avg"} => Interval \in I)
  BY <1>1 DEF SearchReplayInv, ReplayInv
<1>3. /\ pc # "panic" /\ b \in First .. Last /\ Seen(b)
      /\ pc \in {"header", "done"} => min = b
  BY <1>1 DEF SearchReplayInv, ReplayInv
<1>4. RequestsInv(InFlight) /\ BoundsInv
  BY DEF SearchReplayInv
<1>5. CASE Syncing
  <2>1. InFlight \subseteq Window(height)
    BY <1>4, <1>5 DEF RequestsInv
  <2>2. CASE pc \in {"min", "max"}
    <3>1. height \in {First, Last}
      BY <1>4, <2>2 DEF BoundsInv
    <3>2. Seen(First) /\ Seen(Last)
      BY <1>2 DEF Path
    <3> QED BY <2>1, <3>1, <3>2 DEF Seen
  <2>3. CASE pc = "avg"
    <3>1. /\ min \in Nat /\ max \in Nat /\ height \in Nat /\ min < height /\ height < max
          /\ height = MiddleOf(Interval)
      BY <1>4, <2>3, Typed DEF BoundsInv, SearchReplayInv, SearchReplayTypeOK, TypeOK
    <3>2. max - min # 1
      BY <3>1
    <3>3. Halved(Interval, I) \/ EndsAt(Interval, b)
      BY <1>2, <2>3 DEF LeadsTo
    <3>4. Asked(Interval)
      BY <3>2, <3>3 DEF Halved, EndsAt, Interval
    <3> QED BY <2>1, <3>1, <3>4 DEF Asked, Seen
  <2> QED BY <1>5, <2>2, <2>3 DEF Syncing
<1>6. CASE pc = "loop"
  BY <1>4, <1>6 DEF RequestsInv
<1>7. CASE pc \in {"header", "done"}
  <2>1. InFlight \subseteq {b}
    BY <1>3, <1>4, <1>7 DEF RequestsInv
  <2>2. Window(b) = b - Radius .. b + Radius /\ b \in Nat
    BY <1>3, WindowInRange
  <2>3. b \in Window(b)
    BY <2>2, SearchAssumption
  <2> QED BY <1>3, <2>1, <2>3 DEF Seen
<1> QED BY <1>3, <1>5, <1>6, <1>7 DEF Syncing, SearchReplayInv, SearchReplayTypeOK, TypeOK

\* The fixture is asked for no block that the recorder has not stored, so that it
\* never panics.
THEOREM NoBlockIsMissing == ASSUME LongEnough PROVE SearchReplaySpec => NoMissingBlock
<1>1. ASSUME SearchReplayInv, [SearchReplayNext]_allVars, phase = "replay"
      PROVE  phase' = "replay"
  <2>1. CASE client
    BY <1>1, <2>1, ComputeFrame DEF client, BlockRequest, Receive, runVars
  <2>2. ASSUME NEW w \in Worker, live(w) PROVE FALSE
    BY <1>1, <2>2 DEF live
  <2>3. CASE FixtureBlock
    <3>1. blockRequests # <<>> /\ Head(blockRequests) \in Range(blockRequests)
      BY <1>1, <2>3, Typed, Taken DEF FixtureBlock, OneCopy
    <3>2. Head(blockRequests) \in DOMAIN blockIndex
      BY <1>1, <3>1, ReplayIndexed DEF InFlight
    <3> QED BY <1>1, <2>3, <3>2 DEF FixtureBlock, runVars
  <2>4. CASE StoreBlock \/ ForwardBlock \/ Done
    BY <1>1, <2>4 DEF StoreBlock, ForwardBlock, Done, runVars
  <2>5. CASE Finish \/ Write
    BY <1>1, <2>5 DEF Finish, Write, runVars
  <2>6. CASE Load \/ Refuse
    BY <1>1, <2>6 DEF Load, Refuse
  <2>7. CASE UNCHANGED allVars
    BY <1>1, <2>7 DEF allVars, runVars
  <2> QED BY <1>1, <2>1, <2>2, <2>3, <2>4, <2>5, <2>6, <2>7 DEF SearchReplayNext, proxy
<1>2. SearchReplayInv /\ [SearchReplayNext]_allVars => (phase = "replay" => phase' = "replay")
  BY <1>1
<1> QED BY <1>2, SearchReplayInvariant, PTL DEF SearchReplaySpec, NoMissingBlock

-----------------------------------------------------------------------------
(* The refinement of Blockfinder.                                          *)

\* What goes on between Search and the chain is nothing to Blockfinder.
LEMMA CarriedStutters ==
  ASSUME Carried,
         UNCHANGED <<time, target, pc, min, max, minMedian, maxMedian, height, got>>
  PROVE  UNCHANGED Abstract!vars
  BY DEF Carried, Abstract!vars

\* A response that is received answers a request.
LEMMA ReceiveAnswers ==
  ASSUME SearchReplayInv, Receive
  PROVE  Abstract!AnswerBlock
<1> DEFINE b == Head(blockResponses)
<1>1. b \in InFlight /\ b \in Height /\ InFlight' = InFlight \ {b} /\ got' = got \cup {b}
  BY Received
<1>2. UNCHANGED <<time, target, pc, min, max, minMedian, maxMedian, height>>
  BY DEF Receive
<1> HIDE DEF b
<1> QED BY <1>1, <1>2 DEF Abstract!AnswerBlock, Abstract!Height, Height

\* Both count, and take medians, the same way.
LEMMA SameCount == \A S : Abstract!Cardinality(S) = Cardinality(S)
  BY DEF Abstract!Cardinality, Cardinality

LEMMA SameMedian == \A ts, S : Abstract!Median(ts, S) = Median(ts, S)
<1> SUFFICES ASSUME NEW ts, NEW S PROVE Abstract!Median(ts, S) = Median(ts, S)
  OBVIOUS
<1>1. \A m : /\ Abstract!Cardinality({h \in S : ts[h] < m})
                  = Cardinality({h \in S : ts[h] < m})
             /\ Abstract!Cardinality({h \in S : ts[h] <= m})
                  = Cardinality({h \in S : ts[h] <= m})
  BY SameCount
<1> QED BY <1>1 DEF Abstract!Median, Median

LEMMA SameAnswered == Abstract!Answered <=> Answered
  BY SameCount DEF Abstract!Answered, Answered

\* Every step of Search is the same step there.
LEMMA ComputeSearches ==
  ASSUME LongEnough, SearchReplayInv, Compute
  PROVE  Abstract!Search(ChainHeight)
<1>1. InFlight = {} /\ pending = {} /\ InFlight' = pending' /\ Search(ChainHeight)
  BY ComputeStep, ComputeFrame
<1>2. Abstract!Answered <=> Answered
  BY SameAnswered
<1>3. Abstract!Median(time, got) = Median(time, got)
  BY SameMedian
<1> USE DEF Abstract!U32, U32, Abstract!searchSync, searchSync, Abstract!Window, Window,
            Abstract!RequestHeader, RequestHeader
<1>4. CASE GotMin(ChainHeight)
  BY <1>1, <1>2, <1>3, <1>4 DEF GotMin, Abstract!GotMin, Abstract!Search
<1>5. CASE GotMax
  BY <1>1, <1>2, <1>3, <1>5 DEF GotMax, Abstract!GotMax, Abstract!Search
<1>6. CASE Bisect
  BY <1>1, <1>6 DEF Bisect, Abstract!Bisect, Abstract!Search, Adjacent, Abstract!Adjacent,
                    Middle, Abstract!Middle
<1>7. CASE Found
  BY <1>1, <1>7 DEF Found, Abstract!Found, Abstract!Search, Adjacent, Abstract!Adjacent
<1>8. CASE GotAvg
  BY <1>1, <1>2, <1>3, <1>8
  DEF GotAvg, Abstract!GotAvg, Abstract!Search, OutOfOrder, Abstract!OutOfOrder,
      RaisesMin, Abstract!RaisesMin, FoundExactly, Abstract!FoundExactly
<1>9. CASE NonMonotonic
  BY <1>1, <1>2, <1>3, <1>9
  DEF NonMonotonic, Abstract!NonMonotonic, Abstract!Search, OutOfOrder, Abstract!OutOfOrder
<1>10. CASE GotHeader
  BY <1>1, <1>10 DEF GotHeader, Abstract!GotHeader, Abstract!Search
<1> QED BY <1>1, <1>4, <1>5, <1>6, <1>7, <1>8, <1>9, <1>10 DEF Search

LEMMA AbstractStep ==
  ASSUME LongEnough, SearchReplayInv, [SearchReplayNext]_allVars, phase' = phase
  PROVE  [Abstract!Next]_(Abstract!vars)
<1> DEFINE still == UNCHANGED <<time, target, pc, min, max, minMedian, maxMedian, height, got>>
<1>1. CASE Running /\ client
  <2>1. CASE BlockRequest
    BY <1>1, <2>1, RequestCarried, CarriedStutters DEF BlockRequest
  <2>2. CASE Receive
    BY <2>2, ReceiveAnswers DEF Abstract!Next
  <2>3. CASE Compute
    BY <2>3, ComputeSearches DEF Abstract!Next
  <2> QED BY <1>1, <2>1, <2>2, <2>3 DEF client
<1>2. ASSUME NEW w \in Worker, live(w) PROVE UNCHANGED Abstract!vars
  <2>1. still
    BY <1>2 DEF live, TakeBlock, ReplyBlock, BlockPanic, BlockFails, RequeueBlock, vars
  <2>2. Carried
    <3>1. CASE TakeBlock(w)
      BY <3>1, TakeCarried DEF TakeBlock, vars, proxyVars
    <3>2. CASE BlockFails(w)
      BY <3>2, TakeCarried DEF BlockFails, vars, proxyVars
    <3>3. CASE BlockPanic(w)
      BY <1>2, <3>3 DEF live, BlockPanic, Crash
    <3> QED BY <1>2, <3>1, <3>2, <3>3, ReplyCarried, RequeueCarried DEF live
  <2> QED BY <2>1, <2>2, CarriedStutters
<1>3. CASE proxy
  <2>1. still
    BY <1>3 DEF proxy, StoreBlock, FixtureBlock, ForwardBlock, Done, vars
  <2>2. CASE Done
    BY <2>1, <2>2, StillCarried, CarriedStutters DEF Done, At, vars, liveVars
  <2> QED BY <1>3, <2>1, <2>2, StoreCarried, FixtureCarried, ForwardCarried, CarriedStutters
          DEF proxy
<1>4. CASE Finish \/ Write
  <2>1. Carried
    BY <1>4, StillCarried DEF Finish, Write, vars, liveVars, proxyVars
  <2> QED BY <1>4, <2>1, CarriedStutters DEF Finish, Write, vars
<1>5. CASE Load \/ Refuse
  BY <1>5 DEF Load, Refuse
<1>6. CASE UNCHANGED allVars
  <2>1. Carried
    BY <1>6, StillCarried DEF allVars, vars, liveVars, proxyVars
  <2> QED BY <1>6, <2>1, CarriedStutters DEF allVars, vars
<1> QED BY <1>1, <1>2, <1>3, <1>4, <1>5, <1>6 DEF SearchReplayNext

\* Over any number of goroutines that fail, channels of any size and requeues, a search
\* is that of Blockfinder: each request has its one answer.  So is its replay.
THEOREM SearchReplayImplementsSearch ==
  ASSUME LongEnough PROVE SearchReplaySpec => ImplementsSearch
<1>1. SearchReplayInit => Abstract!Init
  <2> SUFFICES ASSUME SearchReplayInit PROVE Abstract!Init
    OBVIOUS
  <2>1. InFlight = pending
    <3>1. /\ blockRequests = <<>> /\ liveResponses = <<>> /\ blockResponses = <<>>
          /\ hand.at = "select" /\ \A w \in Worker : ~Holding(w)
      BY DEF SearchReplayInit, At, Holding
    <3>2. Range(blockRequests) = {} /\ Range(liveResponses) = {} /\ Range(blockResponses) = {}
      BY <3>1, EmptyChannel
    <3>3. Held = {} /\ InHand = {}
      BY <3>1 DEF Held, InHand
    <3> QED BY <3>2, <3>3 DEF InFlight
  <2> QED BY <2>1 DEF SearchReplayInit, Init, Abstract!Init, Abstract!Window, Window,
                      Abstract!U32, U32
<1>2. SearchReplayInv /\ [SearchReplayNext]_allVars =>
        (phase' = phase => [Abstract!Next]_(Abstract!vars))
  BY AbstractStep
<1> QED BY <1>1, <1>2, SearchReplayInvariant, PTL DEF SearchReplaySpec, ImplementsSearch
=============================================================================
