----------------------------- MODULE Blockfinder -----------------------------
(***************************************************************************)
(* The search for a block by time (src/blockfinder/blockfinder.go): a       *)
(* binary search over median block times, each of which takes 2 * Radius +  *)
(* 1 block requests that the backend answers in any order.                  *)
(*                                                                         *)
(* Heights are uint32 values and wrap around.                              *)
(***************************************************************************)
EXTENDS Integers, FiniteSets

CONSTANTS
  Radius,       \* blocks on either side of the one whose median is taken; 5
  Start,        \* the first lower bound; 10
  Offset,       \* the first upper bound lies this far below the tip; 11
  Word,         \* number of values of a uint32; 2^32
  ChainHeight,
  Chains,       \* timestamps, by height, of the chains considered
  Targets       \* the times that may be asked for

Height == 0 .. ChainHeight

ASSUME SearchAssumption ==
  /\ Radius \in Nat /\ Start \in Nat /\ Offset \in Nat
  /\ Word \in Nat \ {0}
  /\ ChainHeight \in 0 .. Word - 1
  /\ Chains \subseteq [Height -> Int]
  /\ Targets \subseteq Int

VARIABLES
  time,        \* the chain: height |-> timestamp
  target,
  pc,          \* "min", "max", "loop", "avg", "header", "done", "panic"
  min, max, minMedian, maxMedian,
  height,      \* argument of the searchSync in progress
  pending,     \* blocks requested and not answered
  got          \* blocks answered

vars == <<time, target, pc, min, max, minMedian, maxMedian, height, pending, got>>

U32(n) == n % Word

-----------------------------------------------------------------------------
(* searchSync                                                              *)

\* for i := height - 5; i <= (height + 5); i++
Window(h) == U32(h - Radius) .. U32(h + Radius)

\* timestamps[5] of the sorted timestamps: as many lie on either side of it.
Median(ts, S) ==
  CHOOSE m \in {ts[h] : h \in S} :
    /\ Cardinality({h \in S : ts[h] < m}) <= Radius
    /\ Cardinality({h \in S : ts[h] <= m}) > Radius

\* The requests of searchSync(h); the channels have room for all of them.
searchSync(h) ==
  /\ height' = h
  /\ pending' = pending \cup Window(h)
  /\ got' = {}

\* Mutant: one answer too few.
AnsweredEarly == Cardinality(got) = 2 * Radius

\* It returns after 2 * Radius + 1 answers, whichever requests they are for.
Answered == Cardinality(got) = 2 * Radius + 1

-----------------------------------------------------------------------------
Init ==
  /\ time \in Chains
  /\ target \in Targets
  /\ pc = "min"
  /\ min = Start
  /\ max = 0 /\ minMedian = 0 /\ maxMedian = 0
  /\ height = Start
  /\ pending = Window(Start)
  /\ got = {}

\* processRequests of a backend: a block that is not on the chain has no answer.
AnswerBlock ==
  /\ \E b \in pending \cap Height :
       /\ pending' = pending \ {b}
       /\ got' = got \cup {b}
  /\ UNCHANGED <<time, target, pc, min, max, minMedian, maxMedian, height>>

\* tip is the backend's ChainHeight().
GotMin(tip) ==
  /\ pc = "min"
  /\ Answered
  /\ minMedian' = Median(time, got)
  /\ max' = U32(tip - Offset)
  /\ searchSync(U32(tip - Offset))
  /\ pc' = "max"
  /\ UNCHANGED <<time, target, min, maxMedian>>

GotMax ==
  /\ pc = "max"
  /\ Answered
  /\ maxMedian' = Median(time, got)
  /\ pc' = "loop"
  /\ UNCHANGED <<time, target, min, max, minMedian, height, pending, got>>

\* Mutant: goes on until the bounds meet.
AdjacentNever == max = min

\* The loop is for max-min > 1.
Adjacent == U32(max - min) <= 1

Middle == U32(max + min) \div 2

Bisect ==
  /\ pc = "loop"
  /\ ~Adjacent
  /\ searchSync(Middle)
  /\ pc' = "avg"
  /\ UNCHANGED <<time, target, min, max, minMedian, maxMedian>>

\* BlockRequest(min), for the header of the block that was found.
RequestHeader(h) ==
  /\ pending' = pending \cup {h}
  /\ got' = {}
  /\ pc' = "header"

Found ==
  /\ pc = "loop"
  /\ Adjacent
  /\ RequestHeader(min)
  /\ UNCHANGED <<time, target, min, max, minMedian, maxMedian, height>>

\* Mutant: equal medians are taken for a decrease.
OutOfOrderStrict(m) == m <= minMedian \/ m > maxMedian

OutOfOrder(m) == m < minMedian \/ m > maxMedian

RaisesMin(m) == target >= m

\* Mutant: the comparison the wrong way round.
FoundExactlyLate(m) == target >= m

\* The loop ends early on a block with exactly the target as its median.
FoundExactly(m) == target = m

GotAvg ==
  LET avg == height
      m   == Median(time, got)
  IN  /\ pc = "avg"
      /\ Answered
      /\ ~OutOfOrder(m)
      /\ IF RaisesMin(m)
         THEN min' = avg /\ minMedian' = m /\ UNCHANGED <<max, maxMedian>>
         ELSE max' = avg /\ maxMedian' = m /\ UNCHANGED <<min, minMedian>>
      /\ IF FoundExactly(m)
         THEN RequestHeader(avg)
         ELSE pc' = "loop" /\ UNCHANGED <<pending, got>>
      /\ UNCHANGED <<time, target, height>>

\* panic("non-monotonic medians")
NonMonotonic ==
  /\ pc = "avg"
  /\ Answered
  /\ OutOfOrder(Median(time, got))
  /\ pc' = "panic"
  /\ UNCHANGED <<time, target, min, max, minMedian, maxMedian, height,
                 pending, got>>

\* Search returns min, its median and the header, after Finish.
GotHeader ==
  /\ pc = "header"
  /\ got # {}
  /\ pc' = "done"
  /\ UNCHANGED <<time, target, min, max, minMedian, maxMedian, height,
                 pending, got>>

Search(tip) ==
  \/ GotMin(tip) \/ GotMax \/ Bisect \/ Found
  \/ GotAvg \/ NonMonotonic \/ GotHeader

Next == AnswerBlock \/ Search(ChainHeight)

Spec == Init /\ [][Next]_vars

\* The backend answers and the search goes on.
FairSpec == Spec /\ WF_vars(AnswerBlock) /\ WF_vars(Search(ChainHeight))

-----------------------------------------------------------------------------
TypeOK ==
  /\ time \in [Height -> Int]
  /\ target \in Int
  /\ pc \in {"min", "max", "loop", "avg", "header", "done", "panic"}
  /\ min \in Nat /\ max \in Nat /\ height \in Nat
  /\ pending \subseteq Nat /\ got \subseteq Height

\* The median time of block h.
MedianTime(h) == Median(time, Window(h))

\* The chain is long enough for the bounds of the search.
LongEnough ==
  /\ Radius <= Start
  /\ Offset >= Radius
  /\ Start + Offset < ChainHeight
  /\ 2 * ChainHeight < Word

First == Start
Last == ChainHeight - Offset

\* The answers of one searchSync are never taken for those of another: when a
\* median is computed the blocks received are those around its own height, and
\* the header returned in the end is that of the block that was found.
OwnAnswers ==
  /\ pc \in {"min", "max", "avg"} /\ Answered => got = Window(height) /\ pending = {}
  /\ pc = "done" => got = {min} /\ pending = {}

\* What Search returns, on any chain and for any time. A time before the range gives
\* the first block. Otherwise the block has a median no later than the time, and it
\* is that very time, where the loop breaks, or its successor's is later; a time
\* past the range gives the block before the last, unless the loop has broken.
FoundBoundary ==
  pc = "done" =>
    /\ minMedian = MedianTime(min)
    /\ target < MedianTime(First) => min = First
    /\ MedianTime(First) <= target => minMedian <= target
    /\ target < MedianTime(Last) => minMedian = target \/ target < MedianTime(min + 1)
    /\ MedianTime(Last) <= target => minMedian = target \/ min = Last - 1

\* The consensus rule: a block is later than the median of the 2 * Radius + 1
\* blocks before it.
ValidTimes(ts) ==
  \A h \in Height : h > 2 * Radius =>
    ts[h] > Median(ts, h - 2 * Radius - 1 .. h - 1)

\* On a valid chain medians around a block never decrease, so that the sanity
\* check never fires ("Any consecutive 11 blocks has monotonic medians").
NoPanic == ValidTimes(time) => pc # "panic"

\* The last of the blocks S.
LastOf(S) == CHOOSE h \in S : \A g \in S : g <= h

\* "find the last block before a given timestamp" (src/blockfinder/blockfinder.go:10),
\* of the blocks the search considers: whether or not a block with that very median
\* time counts as before it, the block returned is the last one on a valid chain.
LastBefore ==
  pc = "done" /\ ValidTimes(time) /\ MedianTime(First) < target =>
    \/ min = LastOf({h \in First .. Last : MedianTime(h) < target})
    \/ min = LastOf({h \in First .. Last : MedianTime(h) <= target})

\* The search ends.
Terminates == <>(pc \in {"done", "panic"})

-----------------------------------------------------------------------------
(* The inductive invariant behind FoundBoundary.                           *)

Syncing == pc \in {"min", "max", "avg"}

\* Blocks asked for and not received, wherever they are, are those of the window,
\* or the one of the header, that have not been received.
RequestsInv(outstanding) ==
  /\ Syncing => /\ got \cup outstanding = Window(height)
                /\ got \cap outstanding = {}
  /\ pc \in {"loop", "panic"} => outstanding = {}
  /\ pc \in {"header", "done"} => /\ got \cup outstanding = {min}
                                  /\ got \cap outstanding = {}

BoundsInv ==
  /\ Syncing => height \in First .. Last
  /\ pc = "done" => got # {}
  /\ pc = "min" => min = First /\ height = First
  /\ pc # "min" => /\ minMedian = MedianTime(min)
                   /\ First <= min
  /\ pc = "max" => min = First /\ max = Last /\ height = Last
  /\ pc \in {"loop", "avg"} => min < max
  /\ pc \notin {"min", "max"} => /\ maxMedian = MedianTime(max)
                                 /\ max <= Last
  /\ pc = "avg" => min < height /\ height < max

SearchInv ==
  pc # "min" =>
    /\ target < MedianTime(First) => min = First
    /\ MedianTime(First) <= target => minMedian <= target
    /\ pc \notin {"min", "max"} => /\ target < MedianTime(Last) => target < maxMedian
                                   /\ MedianTime(Last) <= target => max = Last
    /\ pc \in {"header", "done"} => minMedian = target \/ max = min + 1
=============================================================================
