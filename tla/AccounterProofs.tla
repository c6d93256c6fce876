--------------------------- MODULE AccounterProofs ---------------------------
(***************************************************************************)
(* Proofs about the fetch phase of the accounter, for every lookahead,      *)
(* chain and gap: its type invariant, and that complete() only answers yes  *)
(* when nothing is missing, provided that no uint32 sum wraps around.       *)
(***************************************************************************)
EXTENDS Accounter, FiniteSetTheorems, WellFoundedInduction, TLAPS

-----------------------------------------------------------------------------
(* Facts about the operators.                                              *)

\* A uint32 sum that stays below 2^32 is the sum.
LEMMA U32Small == \A n \in Nat : n < Word => U32(n) = n
  BY SizesAssumption DEF U32

\* A uint32 sum is a natural number.
LEMMA U32Type == \A n \in Nat : U32(n) \in Nat
  BY SizesAssumption DEF U32

\* Derive maps a request that can be derived to an address.
LEMMA DeriveType ==
  ASSUME NEW r \in Request, ~DerivePanics(r[2])
  PROVE  Derive(r) \in Address
<1>1. CASE singleAddress
  BY <1>1, SizesAssumption DEF Derive, Address, Changes
<1>2. CASE ~singleAddress
  BY <1>2, SizesAssumption DEF Derive, DerivePanics, Request, Address
<1> QED BY <1>1, <1>2

-----------------------------------------------------------------------------
(* Type correctness: a hardened index never reaches the backend, so every    *)
(* answer is about an address.                                             *)

TypeInv == TypeOK /\ Derivable

\* Types are established by New.
LEMMA TypeInit == Init => TypeInv
<1> SUFFICES ASSUME Init PROVE TypeInv
  OBVIOUS
<1>1. history \in [Address -> SUBSET Tx]
  BY ChainAssumption DEF Init
<1>2. resp \in Address
  BY SizesAssumption DEF Init, Address, Changes
<1> QED BY <1>1, <1>2, SizesAssumption DEF Init, TypeInv, TypeOK, Derivable, Changes

\* Types are preserved by every step of either goroutine.
LEMMA TypeStep == TypeInv /\ [Next]_vars => TypeInv'
<1> SUFFICES ASSUME TypeOK, Derivable, [Next]_vars PROVE TypeOK' /\ Derivable'
  BY DEF TypeInv
<1> USE DEF TypeOK, Derivable, DerivePanics
<1>1. CASE NextChange
  BY <1>1 DEF NextChange, recvVars, Changes
<1>2. CASE DeriveAddr
  BY <1>2 DEF DeriveAddr, recvVars
<1>3. CASE DeriveAddrPanic
  BY <1>3 DEF DeriveAddrPanic, recvVars
<1>4. CASE RequestAddr
  <2>1. <<change, indexes[change]>> \in Request
    BY DEF Request
  <2> QED BY <1>4, <2>1 DEF RequestAddr, recvVars, Request
<1>5. CASE RecvSomeAddr
  <2>0. PICK r \in addrPending : \E h \in Answers(Derive(r)) : RecvAddr(r, h)
    BY <1>5 DEF RecvSomeAddr
  <2>1. PICK h \in Answers(Derive(r)) : RecvAddr(r, h)
    BY <2>0
  <2>2. Derive(r) \in Address
    BY DeriveType
  <2>3. h \in SUBSET Tx
    BY <2>2 DEF Answers
  <2>4. /\ DOMAIN addresses' \subseteq Address
        /\ addresses' \in [DOMAIN addresses' -> SUBSET Tx]
    BY <2>1, <2>2, <2>3 DEF RecvAddr
  <2>5. IsFiniteSet(h \ transactions)
    BY <2>3, ChainAssumption, FS_Subset
  <2>6. seenTxCount' \in Nat
    BY <2>1, <2>5, FS_CardinalityType DEF RecvAddr
  <2>7. txPending' \subseteq Request \X Tx
    BY <2>1, <2>3 DEF RecvAddr
  <2> QED BY <2>1, <2>2, <2>4, <2>6, <2>7 DEF RecvAddr, AfterAnswer, sendVars
<1>6. CASE ExtendRange
  <2>1. resp[1] \in Changes /\ resp[2] + Lookahead \in Nat
    BY SizesAssumption DEF Address
  <2>2. lastAddresses' \in [Changes -> Nat]
    BY <1>6, <2>1, U32Type DEF ExtendRange, Reach, Max2
  <2> QED BY <1>6, <2>2 DEF ExtendRange, sendVars
<1>7. CASE RecvSomeTx
  BY <1>7 DEF RecvSomeTx, RecvTx, sendVars
<1>8. CASE Tick
  BY <1>8 DEF Tick, sendVars
<1>9. CASE UNCHANGED vars
  BY <1>9 DEF vars, sendVars, recvVars
<1> QED
  BY <1>1, <1>2, <1>3, <1>4, <1>5, <1>6, <1>7, <1>8, <1>9
  DEF Next, sendWork, recvWork

\* Every variable keeps its type; in particular each answer is about an address
\* that sendWork could derive.
THEOREM TypeCorrect == Spec => []TypeOK
<1>1. TypeInv => TypeOK
  BY DEF TypeInv
<1> QED BY <1>1, TypeInit, TypeStep, PTL DEF Spec

-----------------------------------------------------------------------------
(* The inductive invariant.                                                *)

\* The safety part of IInv that is left once types are known.
Inv1 ==
  /\ SendInRange
  /\ CountersMatch
  /\ NothingLost
  /\ RangeExtended
  /\ RangeBounded
  /\ DoneIsQuiet

\* Taking out the answers to one address request: the transaction requests it
\* causes are all new, so the number of pending ones grows by their number.
LEMMA NewTxRequests ==
  ASSUME NEW P, IsFiniteSet(P), NEW r, NEW N, IsFiniteSet(N),
         \A q \in P : q[1] # r
  PROVE  /\ IsFiniteSet(P \cup ({r} \X N))
         /\ Cardinality(P \cup ({r} \X N)) = Cardinality(P) + Cardinality(N)
<1>1. IsFiniteSet({r}) /\ Cardinality({r}) = 1
  BY FS_Singleton
<1>2. /\ IsFiniteSet({r} \X N)
      /\ Cardinality({r} \X N) = Cardinality({r}) * Cardinality(N)
  BY <1>1, FS_Product
<1>3. P \cap ({r} \X N) = {}
  OBVIOUS
<1>4. Cardinality(N) \in Nat /\ Cardinality(P) \in Nat
  BY FS_CardinalityType
<1>5. Cardinality(P \cap ({r} \X N)) = 0
  BY <1>3, FS_EmptySet
<1>6. /\ IsFiniteSet(P \cup ({r} \X N))
      /\ Cardinality(P \cup ({r} \X N)) =
           Cardinality(P) + Cardinality({r} \X N) - Cardinality(P \cap ({r} \X N))
  BY <1>2, FS_Union
<1> QED BY <1>1, <1>2, <1>4, <1>5, <1>6

\* New establishes the invariant.
LEMMA InvInit == ASSUME Init PROVE Inv1
<1>1. /\ IsFiniteSet({}) /\ Cardinality({}) = 0
  BY FS_EmptySet
<1>2. \A a \in Address : a[2] >= MaxUsed => history[a] = {}
  BY ChainAssumption DEF Init
<1>3. SendInRange
  BY SizesAssumption DEF Init, SendInRange, Changes
<1>4. CountersMatch
  BY <1>1 DEF Init, CountersMatch, Changes
<1>5. NothingLost
  BY DEF Init, NothingLost, Requested, Changes
<1>6. RangeExtended /\ DoneIsQuiet
  BY DEF Init, RangeExtended, DoneIsQuiet
<1>7. RangeBounded
  BY <1>2, SizesAssumption DEF Init, RangeBounded, Changes
<1> QED BY <1>3, <1>4, <1>5, <1>6, <1>7 DEF Inv1

\* Every step of either goroutine preserves it, as long as no sum wraps around.
LEMMA InvStep ==
  ASSUME NoWrap, TypeInv, TypeInv', Inv1, [Next]_vars
  PROVE  Inv1'
<1> USE DEF TypeInv, Inv1
<1>c. /\ Cardinality(addrPending) \in Nat
      /\ Cardinality(txPending) \in Nat
  BY FS_CardinalityType DEF CountersMatch
<1>1. CASE NextChange
  <2>1. SendInRange'
    BY <1>1 DEF NextChange, recvVars, SendInRange, TypeOK, Changes
  <2>2. CountersMatch'
    BY <1>1 DEF NextChange, recvVars, CountersMatch
  <2>3. NothingLost'
    BY <1>1 DEF NextChange, recvVars, NothingLost, Requested, Answers, Derive
  <2>4. RangeExtended' /\ RangeBounded' /\ DoneIsQuiet'
    BY <1>1 DEF NextChange, recvVars, RangeExtended, RangeBounded, DoneIsQuiet
  <2> QED BY <2>1, <2>2, <2>3, <2>4
<1>2. CASE DeriveAddr
  <2>0. recvPC # "done"
    BY <1>2 DEF DeriveAddr, DoneIsQuiet, SendInRange, TypeOK
  <2>1. SendInRange'
    BY <1>2 DEF DeriveAddr, recvVars, SendInRange
  <2>2. CountersMatch'
    BY <1>2 DEF DeriveAddr, recvVars, CountersMatch, TypeOK, Changes
  <2>3. NothingLost'
    BY <1>2 DEF DeriveAddr, recvVars, NothingLost, Requested, Answers, Derive
  <2>4. RangeExtended' /\ RangeBounded' /\ DoneIsQuiet'
    BY <1>2, <2>0
    DEF DeriveAddr, recvVars, RangeExtended, RangeBounded, DoneIsQuiet
  <2> QED BY <2>1, <2>2, <2>3, <2>4
<1>3. CASE DeriveAddrPanic
  <2>1. SendInRange' /\ CountersMatch'
    BY <1>3 DEF DeriveAddrPanic, recvVars, SendInRange, CountersMatch
  <2>2. NothingLost'
    BY <1>3 DEF DeriveAddrPanic, recvVars, NothingLost, Requested, Answers, Derive
  <2>3. RangeExtended' /\ RangeBounded' /\ DoneIsQuiet'
    BY <1>3
    DEF DeriveAddrPanic, recvVars, RangeExtended, RangeBounded, DoneIsQuiet
  <2> QED BY <2>1, <2>2, <2>3
<1>4. CASE RequestAddr
  <2> DEFINE r == <<change, indexes[change]>>
  <2>0. recvPC # "done"
    BY <1>4 DEF RequestAddr, DoneIsQuiet
  <2>1. r \notin Requested /\ Requested' = Requested \cup {r}
    BY <1>4 DEF RequestAddr, Requested, TypeOK, Changes
  <2>2. SendInRange'
    BY <1>4 DEF RequestAddr, recvVars, SendInRange, TypeOK
  <2>3. CountersMatch'
    <3>1. /\ IsFiniteSet(addrPending \cup {r})
          /\ Cardinality(addrPending \cup {r}) = Cardinality(addrPending) + 1
      BY <2>1, FS_AddElement DEF CountersMatch, NothingLost
    <3>2. indexes'[0] + indexes'[1] = indexes[0] + indexes[1] + 1
      BY <1>4 DEF RequestAddr, TypeOK, Changes
    <3> QED BY <1>4, <1>c, <3>1, <3>2 DEF RequestAddr, recvVars, CountersMatch, TypeOK, Changes
  <2>4. NothingLost'
    BY <1>4, <2>1 DEF RequestAddr, recvVars, NothingLost, Answers, Derive
  <2>5. RangeExtended' /\ RangeBounded' /\ DoneIsQuiet'
    BY <1>4, <2>0
    DEF RequestAddr, recvVars, RangeExtended, RangeBounded, DoneIsQuiet
  <2> QED BY <2>2, <2>3, <2>4, <2>5
<1>5. CASE RecvSomeAddr
  <2>0. PICK r \in addrPending : \E h \in Answers(Derive(r)) : RecvAddr(r, h)
    BY <1>5 DEF RecvSomeAddr
  <2>1. PICK h \in Answers(Derive(r)) : RecvAddr(r, h)
    BY <2>0
  <2> DEFINE new == h \ transactions
             a == Derive(r)
  <2>2. a \in Address /\ h \in SUBSET Tx
    <3>1. a \in Address
      BY DeriveType DEF TypeOK, Derivable
    <3> QED BY <3>1 DEF Answers, TypeOK
  <2>3. IsFiniteSet(new) /\ Cardinality(new) \in Nat
    BY <2>2, ChainAssumption, FS_Subset, FS_CardinalityType
  <2>4. SendInRange'
    BY <2>1 DEF RecvAddr, sendVars, SendInRange
  <2>5. CountersMatch'
    <3>1. /\ IsFiniteSet(addrPending \ {r})
          /\ Cardinality(addrPending \ {r}) = Cardinality(addrPending) - 1
      BY FS_RemoveElement DEF CountersMatch
    <3>2. \A q \in txPending : q[1] # r
      BY DEF NothingLost
    <3>3. /\ IsFiniteSet(txPending \cup ({r} \X new))
          /\ Cardinality(txPending \cup ({r} \X new))
               = Cardinality(txPending) + Cardinality(new)
      <4>1. IsFiniteSet(txPending)
        BY DEF CountersMatch
      <4> HIDE DEF new, a
      <4> QED BY <2>3, <3>2, <4>1, NewTxRequests
    <3> QED BY <1>c, <2>1, <2>3, <3>1, <3>3
            DEF RecvAddr, sendVars, CountersMatch, TypeOK
  <2>6. NothingLost'
    <3>1. Requested' = Requested
      BY <2>1 DEF RecvAddr, sendVars, Requested
    <3>2. /\ addrPending' \subseteq Requested
          /\ \A q \in txPending' : q[1] \in Requested \ addrPending'
      BY <2>1 DEF RecvAddr, NothingLost
    <3>3. DOMAIN addresses' = DOMAIN addresses \cup {a}
      BY <2>1 DEF RecvAddr
    <3>4. \A q \in Requested \ addrPending' : Derive(q) \in DOMAIN addresses'
      BY <2>1, <3>3 DEF RecvAddr, NothingLost
    <3>5. \A x \in DOMAIN addresses' : \A t \in addresses'[x] :
            t \in transactions' \/ \E q \in txPending' : q[2] = t
      <4> SUFFICES ASSUME NEW x \in DOMAIN addresses', NEW t \in addresses'[x],
                          t \notin transactions
                   PROVE  \E q \in txPending' : q[2] = t
        BY <2>1 DEF RecvAddr
      <4>1. CASE x = a
        <5>1. t \in new
          BY <2>1, <4>1 DEF RecvAddr
        <5>2. <<r, t>> \in txPending'
          BY <2>1, <5>1 DEF RecvAddr
        <5> QED BY <5>2
      <4>2. CASE x # a
        <5>1. x \in DOMAIN addresses /\ addresses'[x] = addresses[x]
          BY <2>1, <4>2 DEF RecvAddr
        <5> QED BY <2>1, <5>1 DEF RecvAddr, NothingLost
      <4> QED BY <4>1, <4>2
    <3>6. \A x \in DOMAIN addresses' : addresses'[x] \in Answers(x)
      BY <2>1 DEF RecvAddr, NothingLost
    <3>7. \A x : Answers(x)' = Answers(x)
      BY <2>1 DEF RecvAddr, Answers
    <3>8. \A q : Derive(q)' = Derive(q)
      BY <2>1 DEF RecvAddr, Derive
    <3> QED BY <3>1, <3>2, <3>4, <3>5, <3>6, <3>7, <3>8 DEF NothingLost
  <2>7. RangeExtended'
    BY <2>1 DEF RecvAddr, AfterAnswer, RangeExtended
  <2>8. RangeBounded'
    BY <2>1, <2>2 DEF RecvAddr, AfterAnswer, RangeBounded
  <2>9. DoneIsQuiet'
    BY <2>1 DEF RecvAddr, AfterAnswer, DoneIsQuiet
  <2> QED BY <2>4, <2>5, <2>6, <2>7, <2>8, <2>9
<1>6. CASE ExtendRange
  <2> DEFINE la == lastAddresses[resp[1]]
  <2>0. resp[1] \in Changes /\ resp[2] \in Nat /\ Lookahead \in Nat /\ MaxUsed \in Nat
    BY SizesAssumption DEF TypeOK, Address
  <2>1. resp[2] < MaxUsed
    <3>1. history[resp] # {}
      BY <1>6 DEF ExtendRange, RangeBounded, NothingLost, Answers
    <3> QED BY <2>0, <3>1 DEF RangeBounded, TypeOK
  <2>2. U32(resp[2] + Lookahead) = resp[2] + Lookahead
    BY <2>0, <2>1, U32Small, SizesAssumption DEF NoWrap
  <2>3. /\ \A c \in Changes : /\ lastAddresses'[c] >= lastAddresses[c]
                             /\ lastAddresses'[c] \in Lookahead .. MaxUsed + Lookahead
        /\ lastAddresses'[resp[1]] >= resp[2] + Lookahead
    BY <1>6, <2>0, <2>1, <2>2 DEF ExtendRange, Reach, RangeBounded, Max2, TypeOK
  <2>4. SendInRange'
    BY <1>6, <2>3 DEF ExtendRange, sendVars, SendInRange, TypeOK
  <2>5. CountersMatch'
    BY <1>6 DEF ExtendRange, sendVars, CountersMatch
  <2>6. NothingLost'
    BY <1>6 DEF ExtendRange, sendVars, NothingLost, Requested, Answers, Derive
  <2>7. RangeExtended'
    <3> SUFFICES ASSUME NEW x \in DOMAIN addresses, addresses[x] # {}
                 PROVE  lastAddresses'[x[1]] >= x[2] + Lookahead
      BY <1>6 DEF ExtendRange, RangeExtended
    <3>1. x[1] \in Changes /\ x[2] \in Nat
      BY DEF TypeOK, Address
    <3>2. CASE resp = x
      BY <2>3, <3>2
    <3>3. CASE resp # x
      BY <2>0, <2>3, <3>1, <3>3 DEF RangeExtended, TypeOK
    <3> QED BY <3>2, <3>3
  <2>8. RangeBounded' /\ DoneIsQuiet'
    BY <1>6, <2>3 DEF ExtendRange, RangeBounded, DoneIsQuiet
  <2> QED BY <2>4, <2>5, <2>6, <2>7, <2>8
<1>7. CASE RecvSomeTx
  <2>1. PICK q \in txPending : RecvTx(q)
    BY <1>7 DEF RecvSomeTx
  <2>2. SendInRange'
    BY <2>1 DEF RecvTx, sendVars, SendInRange
  <2>3. CountersMatch'
    <3>1. /\ IsFiniteSet(txPending \ {q})
          /\ Cardinality(txPending \ {q}) = Cardinality(txPending) - 1
      BY FS_RemoveElement DEF CountersMatch
    <3> QED BY <1>c, <2>1, <3>1 DEF RecvTx, sendVars, CountersMatch, TypeOK
  <2>4. NothingLost'
    BY <2>1 DEF RecvTx, sendVars, NothingLost, Requested, Answers, Derive
  <2>5. RangeExtended' /\ RangeBounded' /\ DoneIsQuiet'
    BY <2>1 DEF RecvTx, RangeExtended, RangeBounded, DoneIsQuiet
  <2> QED BY <2>2, <2>3, <2>4, <2>5
<1>8. CASE Tick
  <2>1. SendInRange' /\ CountersMatch'
    BY <1>8 DEF Tick, sendVars, SendInRange, CountersMatch
  <2>2. NothingLost'
    BY <1>8 DEF Tick, sendVars, NothingLost, Requested, Answers, Derive
  <2>3. RangeExtended' /\ RangeBounded'
    BY <1>8 DEF Tick, RangeExtended, RangeBounded
  <2>4. DoneIsQuiet'
    <3> DEFINE n == lastAddresses[0] + lastAddresses[1]
    <3>1. U32(n) = n
      <4>1. /\ lastAddresses[0] \in Nat /\ lastAddresses[0] <= MaxUsed + Lookahead
            /\ lastAddresses[1] \in Nat /\ lastAddresses[1] <= MaxUsed + Lookahead
        BY SizesAssumption DEF RangeBounded, TypeOK, Changes
      <4>2. n \in Nat /\ n < Word
        BY <4>1, SizesAssumption DEF NoWrap
      <4> QED BY <4>2, U32Small
    <3>2. /\ derivedAddrCount = n /\ processedAddrCount = n
          /\ seenTxCount = processedTxCount
      BY <1>8, <3>1 DEF Tick, complete
    <3>3. /\ indexes[0] \in Nat /\ indexes[1] \in Nat
          /\ lastAddresses[0] \in Nat /\ lastAddresses[1] \in Nat
          /\ indexes[0] <= lastAddresses[0] /\ indexes[1] <= lastAddresses[1]
      BY DEF SendInRange, TypeOK, Changes
    <3>4. Cardinality(addrPending) = 0 /\ Cardinality(txPending) = 0
      BY <1>c, <3>2, <3>3 DEF CountersMatch, TypeOK
    <3>5. addrPending = {} /\ txPending = {}
      BY <3>4, FS_EmptySet DEF CountersMatch
    <3>6. sendPC # "request"
      BY <3>2, <3>3, <3>4 DEF CountersMatch
    <3>7. indexes[0] = lastAddresses[0] /\ indexes[1] = lastAddresses[1]
      BY <3>2, <3>3, <3>6 DEF CountersMatch
    <3>8. indexes = lastAddresses
      BY <3>7 DEF TypeOK, Changes
    <3> QED BY <1>8, <3>5, <3>6, <3>8 DEF Tick, sendVars, DoneIsQuiet
  <2> QED BY <2>1, <2>2, <2>3, <2>4
<1>9. CASE UNCHANGED vars
  <2> USE <1>9 DEF vars, sendVars, recvVars
  <2>1. SendInRange' /\ CountersMatch' /\ RangeExtended' /\ RangeBounded' /\ DoneIsQuiet'
    BY DEF SendInRange, CountersMatch, RangeExtended, RangeBounded, DoneIsQuiet
  <2>2. NothingLost'
    BY DEF NothingLost, Requested, Answers, Derive
  <2> QED BY <2>1, <2>2
<1> QED
  BY <1>1, <1>2, <1>3, <1>4, <1>5, <1>6, <1>7, <1>8, <1>9
  DEF Next, sendWork, recvWork

\* New establishes the invariant of the scan.
LEMMA ScanInit == ASSUME Init PROVE ScanInv
<1>1. SendInRange
  BY SizesAssumption DEF Init, SendInRange, Changes
<1>2. RangeReached
  BY SizesAssumption DEF Init, RangeReached
<1> QED BY <1>1, <1>2 DEF Init, ScanInv, AnsweredOnce, PanicInRange

\* Every step preserves it, even where a sum wraps around: the remainder only
\* falls short of the sum.
LEMMA ScanStep ==
  ASSUME TypeInv, TypeInv', ScanInv, [Next]_vars
  PROVE  ScanInv'
<1> USE DEF TypeInv, ScanInv
<1>l. Lookahead \in Nat
  BY SizesAssumption
<1>1. CASE NextChange
  <2>1. SendInRange' /\ PanicInRange'
    BY <1>1 DEF NextChange, recvVars, SendInRange, PanicInRange, TypeOK, Changes
  <2>2. RangeReached' /\ AnsweredOnce'
    BY <1>1 DEF NextChange, recvVars, RangeReached, AnsweredOnce, Requested
  <2> QED BY <2>1, <2>2
<1>2. CASE DeriveAddr
  <2>1. SendInRange' /\ PanicInRange'
    BY <1>2 DEF DeriveAddr, recvVars, SendInRange, PanicInRange
  <2>2. RangeReached' /\ AnsweredOnce'
    BY <1>2 DEF DeriveAddr, recvVars, RangeReached, AnsweredOnce, Requested
  <2> QED BY <2>1, <2>2
<1>3. CASE DeriveAddrPanic
  <2>1. SendInRange' /\ PanicInRange'
    BY <1>3 DEF DeriveAddrPanic, recvVars, SendInRange, PanicInRange, DerivePanics
  <2>2. RangeReached' /\ AnsweredOnce'
    BY <1>3 DEF DeriveAddrPanic, recvVars, RangeReached, AnsweredOnce, Requested
  <2> QED BY <2>1, <2>2
<1>4. CASE RequestAddr
  <2> DEFINE r == <<change, indexes[change]>>
  <2>1. r \notin Requested /\ Requested' = Requested \cup {r}
    BY <1>4 DEF RequestAddr, Requested, TypeOK, Changes
  <2>2. SendInRange' /\ PanicInRange'
    BY <1>4 DEF RequestAddr, recvVars, SendInRange, PanicInRange, TypeOK
  <2>3. RangeReached'
    BY <1>4 DEF RequestAddr, recvVars, RangeReached
  <2>4. AnsweredOnce'
    BY <1>4, <2>1 DEF RequestAddr, recvVars, AnsweredOnce
  <2> QED BY <2>2, <2>3, <2>4
<1>5. CASE RecvSomeAddr
  <2>0. PICK r \in addrPending : \E h \in Answers(Derive(r)) : RecvAddr(r, h)
    BY <1>5 DEF RecvSomeAddr
  <2>1. PICK h \in Answers(Derive(r)) : RecvAddr(r, h)
    BY <2>0
  <2> DEFINE a == Derive(r)
  <2>2. a \in Address
    BY DeriveType DEF TypeOK, Derivable
  <2>3. Requested' = Requested
    BY <2>1 DEF RecvAddr, sendVars, Requested
  <2>4. DOMAIN addresses' = DOMAIN addresses \cup {a}
    BY <2>1 DEF RecvAddr
  <2>5. SendInRange' /\ PanicInRange'
    BY <2>1 DEF RecvAddr, sendVars, SendInRange, PanicInRange, DerivePanics
  <2>6. AnsweredOnce'
    BY <2>1, <2>3, <2>4 DEF RecvAddr, AnsweredOnce, Derive
  <2>7. RangeReached'
    <3>1. recvPC' = "extend" => resp' \in DOMAIN addresses' /\ addresses'[resp'] # {}
      BY <2>1, <2>4 DEF RecvAddr, AfterAnswer
    <3>2. \A x \in DOMAIN addresses' : addresses'[x] \subseteq history'[x]
      BY <2>1, <2>4 DEF RecvAddr, RangeReached, Answers
    <3>3. ASSUME NEW c \in Changes, lastAddresses'[c] > Lookahead
          PROVE  \E x \in DOMAIN addresses' : /\ x[1] = c /\ addresses'[x] # {}
                                             /\ lastAddresses'[c] <= x[2] + Lookahead
      <4>1. lastAddresses' = lastAddresses
        BY <2>1 DEF RecvAddr
      <4>2. PICK x \in DOMAIN addresses : /\ x[1] = c /\ addresses[x] # {}
                                         /\ lastAddresses[c] <= x[2] + Lookahead
        BY <3>3, <4>1 DEF RangeReached
      <4>3. x # <<0, 0>> \/ ~singleAddress
        <5> SUFFICES ASSUME x = <<0, 0>> PROVE FALSE
          BY DEF AnsweredOnce
        <5>1. lastAddresses[c] <= Lookahead /\ lastAddresses[c] \in Nat
          BY <1>l, <4>2 DEF TypeOK
        <5> QED BY <1>l, <3>3, <4>1, <5>1
      <4>4. x # a
        BY <4>3 DEF AnsweredOnce, Derive
      <4>5. x \in DOMAIN addresses' /\ addresses'[x] = addresses[x]
        BY <2>1, <4>4 DEF RecvAddr
      <4> QED BY <4>1, <4>2, <4>5
    <3> QED BY <3>1, <3>2, <3>3 DEF RangeReached
  <2> QED BY <2>5, <2>6, <2>7
<1>6. CASE ExtendRange
  <2>0. resp[1] \in Changes /\ resp[2] \in Nat
    BY DEF TypeOK, Address
  <2>1. Reach(resp[2]) \in Nat /\ Reach(resp[2]) <= resp[2] + Lookahead
    BY <2>0, SizesAssumption DEF Reach, U32
  <2>2. /\ \A c \in Changes : lastAddresses'[c] \in Nat
        /\ \A c \in Changes : lastAddresses'[c] >= lastAddresses[c]
        /\ \A c \in Changes :
             \/ lastAddresses'[c] = lastAddresses[c]
             \/ c = resp[1] /\ lastAddresses'[c] = Reach(resp[2])
    BY <1>6, <2>0, <2>1 DEF ExtendRange, Max2, TypeOK
  <2>3. SendInRange'
    BY <1>6, <2>2 DEF ExtendRange, sendVars, SendInRange, TypeOK
  <2>4. AnsweredOnce' /\ PanicInRange'
    BY <1>6 DEF ExtendRange, sendVars, AnsweredOnce, PanicInRange, Requested, DerivePanics
  <2>5. RangeReached'
    BY <1>6, <2>1, <2>2 DEF ExtendRange, RangeReached
  <2> QED BY <2>3, <2>4, <2>5
<1>7. CASE RecvSomeTx
  BY <1>7 DEF RecvSomeTx, RecvTx, sendVars, SendInRange, RangeReached, AnsweredOnce,
              PanicInRange, Requested, DerivePanics
<1>8. CASE Tick
  BY <1>8 DEF Tick, sendVars, SendInRange, RangeReached, AnsweredOnce,
              PanicInRange, Requested, DerivePanics
<1>9. CASE UNCHANGED vars
  BY <1>9 DEF vars, sendVars, recvVars, SendInRange, RangeReached, AnsweredOnce,
              PanicInRange, Requested, DerivePanics
<1> QED
  BY <1>1, <1>2, <1>3, <1>4, <1>5, <1>6, <1>7, <1>8, <1>9
  DEF Next, sendWork, recvWork

\* New establishes the invariant of the answers.
LEMMA AnswersInit == ASSUME Init PROVE AnswersInv
<1>1. Stepped(addresses, lastAddresses)
  BY SizesAssumption DEF Init, Stepped
<1> QED BY <1>1 DEF Init, AnswersInv, NothingInvented

\* Every step preserves it: an answer is never replaced by another one, and the range
\* is extended from below its end.
LEMMA AnswersStep ==
  ASSUME TypeInv, TypeInv', ScanInv, AnswersInv, [Next]_vars
  PROVE  AnswersInv'
<1> USE DEF AnswersInv
<1>1. CASE UNCHANGED <<singleAddress, lastAddresses, addresses, transactions, txPending>>
  BY <1>1 DEF NothingInvented, Stepped
<1>2. CASE RecvSomeAddr
  <2>0. PICK r \in addrPending : \E h \in Answers(Derive(r)) : RecvAddr(r, h)
    BY <1>2 DEF RecvSomeAddr
  <2>1. PICK h \in Answers(Derive(r)) : RecvAddr(r, h)
    BY <2>0
  <2> DEFINE a == Derive(r)
  <2>2. /\ DOMAIN addresses' = DOMAIN addresses \cup {a}
        /\ addresses'[a] = h
        /\ \A x \in DOMAIN addresses : x # a => addresses'[x] = addresses[x]
        /\ lastAddresses' = lastAddresses /\ transactions' = transactions
        /\ txPending' = txPending \cup ({r} \X (h \ transactions))
        /\ singleAddress' = singleAddress
    BY <2>1 DEF RecvAddr
  <2>3. ASSUME ~singleAddress
        PROVE  a = r /\ a \notin DOMAIN addresses
    BY <2>3 DEF ScanInv, AnsweredOnce, Derive
  <2>4. NothingInvented'
    <3> HIDE DEF a
    <3> SUFFICES ASSUME ~singleAddress PROVE
          /\ \A t \in transactions' : \E x \in DOMAIN addresses' : t \in addresses'[x]
          /\ \A q \in txPending' :
               q[1] \in DOMAIN addresses' /\ q[2] \in addresses'[q[1]]
      BY <2>2 DEF NothingInvented
    <3>1. \A x \in DOMAIN addresses : x \in DOMAIN addresses' /\ addresses'[x] = addresses[x]
      BY <2>2, <2>3
    <3>2. \A t \in transactions' : \E x \in DOMAIN addresses' : t \in addresses'[x]
      BY <2>2, <3>1 DEF NothingInvented
    <3>3. ASSUME NEW q \in txPending'
          PROVE  q[1] \in DOMAIN addresses' /\ q[2] \in addresses'[q[1]]
      <4>1. CASE q \in txPending
        BY <3>1, <4>1 DEF NothingInvented
      <4>2. CASE q \in {r} \X (h \ transactions)
        BY <2>2, <2>3, <4>2
      <4> QED BY <2>2, <3>3, <4>1, <4>2
    <3> QED BY <3>2, <3>3
  <2>5. Stepped(addresses, lastAddresses)'
    <3>1. ASSUME NEW c \in Changes, NEW n \in Lookahead .. lastAddresses[c] - 1
          PROVE  \E j \in 0 .. n - 1 : /\ <<c, j>> \in DOMAIN addresses'
                                       /\ addresses'[<<c, j>>] # {}
                                       /\ n < j + Lookahead
      <4>1. PICK j \in 0 .. n - 1 : /\ <<c, j>> \in DOMAIN addresses
                                    /\ addresses[<<c, j>>] # {}
                                    /\ n < j + Lookahead
        BY DEF Stepped
      <4>2. <<c, j>> # a
        <5>1. CASE ~singleAddress
          BY <2>3, <4>1, <5>1
        <5>2. CASE singleAddress
          <6>1. j = 0
            BY <4>1, <5>2 DEF ScanInv, AnsweredOnce
          <6> QED BY <4>1, <6>1, SizesAssumption DEF TypeInv, TypeOK
        <5> QED BY <5>1, <5>2
      <4>3. <<c, j>> \in DOMAIN addresses' /\ addresses'[<<c, j>>] # {}
        BY <2>2, <4>1, <4>2
      <4> QED BY <4>1, <4>3
    <3> HIDE DEF a
    <3> QED BY <2>2, <3>1 DEF Stepped
  <2> QED BY <2>4, <2>5
<1>3. CASE ExtendRange
  <2>1. resp[1] \in Changes /\ resp[2] \in Nat /\ resp = <<resp[1], resp[2]>>
    BY DEF TypeInv, TypeOK, Address
  <2>2. Reach(resp[2]) \in Nat /\ Reach(resp[2]) <= resp[2] + Lookahead
    BY <2>1, SizesAssumption DEF Reach, U32
  <2>3. /\ \A c \in Changes :
             \/ lastAddresses'[c] = lastAddresses[c]
             \/ c = resp[1] /\ lastAddresses'[c] = Reach(resp[2])
        /\ UNCHANGED <<singleAddress, addresses, transactions, txPending>>
    BY <1>3, <2>1, <2>2 DEF ExtendRange, Max2, TypeInv, TypeOK
  <2>4. resp \in DOMAIN addresses /\ addresses[resp] # {}
    BY <1>3 DEF ExtendRange, ScanInv, RangeReached
  <2>5. ASSUME NEW c \in Changes, NEW n \in Lookahead .. lastAddresses'[c] - 1
        PROVE  \E j \in 0 .. n - 1 : /\ <<c, j>> \in DOMAIN addresses
                                     /\ addresses[<<c, j>>] # {}
                                     /\ n < j + Lookahead
    <3>0. /\ Lookahead \in Nat /\ lastAddresses[c] \in Nat /\ lastAddresses'[c] \in Nat
          /\ n \in Nat /\ n >= Lookahead /\ n < lastAddresses'[c]
      BY SizesAssumption DEF TypeInv, TypeOK
    <3>1. CASE n < lastAddresses[c]
      <4>1. n \in Lookahead .. lastAddresses[c] - 1
        BY <3>0, <3>1
      <4> QED BY <4>1 DEF Stepped
    <3>2. CASE n >= lastAddresses[c]
      <4>1. c = resp[1] /\ n < resp[2] + Lookahead
        BY <2>1, <2>2, <2>3, <3>0, <3>2
      <4>2. ~singleAddress
        <5> SUFFICES ASSUME singleAddress PROVE FALSE
          OBVIOUS
        <5>1. resp[2] = 0
          BY <2>1, <2>4 DEF ScanInv, AnsweredOnce
        <5> QED BY <3>0, <4>1, <5>1
      <4>3. resp[2] < n
        <5>1. resp \in Requested
          BY <2>4, <4>2 DEF ScanInv, AnsweredOnce
        <5>2. resp[2] < indexes[c] /\ indexes[c] \in Nat
          BY <2>1, <4>1, <5>1 DEF Requested, TypeInv, TypeOK
        <5>3. indexes[c] <= lastAddresses[c]
          BY DEF ScanInv, SendInRange
        <5> QED BY <2>1, <3>0, <3>2, <5>2, <5>3
      <4>4. resp[2] \in 0 .. n - 1 /\ <<c, resp[2]>> = resp
        BY <2>1, <3>0, <4>1, <4>3
      <4>5. <<c, resp[2]>> \in DOMAIN addresses /\ addresses[<<c, resp[2]>>] # {}
        BY <2>4, <4>4
      <4> DEFINE j == resp[2]
      <4>6. j \in 0 .. n - 1 /\ n < j + Lookahead
        BY <4>1, <4>4
      <4>7. <<c, j>> \in DOMAIN addresses /\ addresses[<<c, j>>] # {}
        BY <4>5
      <4> HIDE DEF j
      <4> QED BY <4>6, <4>7
    <3>3. n < lastAddresses[c] \/ n >= lastAddresses[c]
      BY <3>0
    <3> QED BY <3>1, <3>2, <3>3
  <2>6. Stepped(addresses, lastAddresses)'
    BY <2>3, <2>5 DEF Stepped
  <2> QED BY <2>3, <2>6 DEF NothingInvented
<1>4. CASE RecvSomeTx
  <2>1. PICK q \in txPending : RecvTx(q)
    BY <1>4 DEF RecvSomeTx
  <2>2. /\ transactions' = transactions \cup {q[2]} /\ txPending' \subseteq txPending
        /\ UNCHANGED <<singleAddress, lastAddresses, addresses>>
    BY <2>1 DEF RecvTx
  <2> QED BY <2>2 DEF NothingInvented, Stepped
<1>5. ASSUME sendWork \/ Tick \/ UNCHANGED vars
      PROVE  UNCHANGED <<singleAddress, lastAddresses, addresses, transactions, txPending>>
  BY <1>5 DEF sendWork, NextChange, DeriveAddr, DeriveAddrPanic, RequestAddr, Tick,
              vars, recvVars
<1> QED BY <1>1, <1>2, <1>3, <1>4, <1>5 DEF Next, recvWork

\* The bounds of the scan, and what it rests on, hold without any assumption on the
\* sizes.
THEOREM ScanInvariant == Spec => [](TypeInv /\ ScanInv /\ AnswersInv)
<1>1. Init => TypeInv /\ ScanInv /\ AnswersInv
  BY TypeInit, ScanInit, AnswersInit
<1>2. TypeInv /\ ScanInv /\ AnswersInv /\ [Next]_vars
        => (TypeInv /\ ScanInv /\ AnswersInv)'
  BY TypeStep, ScanStep, AnswersStep
<1> QED BY <1>1, <1>2, PTL DEF Spec

\* The counters, the pending sets and the scanned range stay in step.
THEOREM InductiveInvariant == ASSUME NoWrap PROVE Spec => []IInv
<1>1. Init => TypeInv /\ Inv1
  BY TypeInit, InvInit
<1>2. TypeInv /\ Inv1 /\ [Next]_vars => (TypeInv /\ Inv1)'
  BY TypeStep, InvStep
<1>3. TypeInv /\ Inv1 /\ ScanInv /\ AnswersInv => IInv
  BY DEF TypeInv, Inv1, IInv
<1> QED BY <1>1, <1>2, <1>3, ScanInvariant, PTL DEF Spec

-----------------------------------------------------------------------------
(* What follows from it.                                                   *)

\* In a state where recvWork has returned, the invariant gives FetchComplete.
LEMMA DoneComplete == IInv => FetchComplete
<1> SUFFICES ASSUME IInv, recvPC = "done"
             PROVE  RangeAnswered /\ AnswersFetched /\ GapScanned
  BY DEF FetchComplete
<1>0. addrPending = {} /\ txPending = {} /\ indexes = lastAddresses
  BY DEF IInv, DoneIsQuiet
<1>1. RangeAnswered
  <2> SUFFICES ASSUME NEW c \in Changes, NEW i \in 0 .. lastAddresses[c] - 1
               PROVE  Derive(<<c, i>>) \in DOMAIN addresses
    BY DEF RangeAnswered
  <2>1. <<c, i>> \in Requested
    BY <1>0 DEF Requested, IInv, TypeOK
  <2> QED BY <1>0, <2>1 DEF IInv, NothingLost
<1>2. AnswersFetched
  BY <1>0 DEF AnswersFetched, IInv, NothingLost
<1>3. GapScanned
  BY DEF GapScanned, IInv, RangeExtended
<1> QED BY <1>1, <1>2, <1>3

\* What recvWork leaves behind is a complete scan.
LEMMA DoneScanned ==
  ASSUME IInv, recvPC = "done", ~singleAddress
  PROVE  Scanned(addresses, lastAddresses)
<1>0. addrPending = {} /\ indexes = lastAddresses
  BY DEF IInv, DoneIsQuiet
<1>1. /\ lastAddresses \in [Changes -> Nat]
      /\ \A c \in Changes : lastAddresses[c] >= Lookahead
  BY SizesAssumption DEF IInv, TypeOK, RangeBounded
<1>2. RangeAnswered /\ GapScanned
  BY DoneComplete DEF FetchComplete
<1>3. DOMAIN addresses = {a \in Address : a[2] < lastAddresses[a[1]]}
  <2>1. ASSUME NEW a \in DOMAIN addresses
        PROVE  a \in Address /\ a[2] < lastAddresses[a[1]]
    <3>1. a \in Address /\ a \in Requested
      BY DEF IInv, TypeOK, ScanInv, AnsweredOnce
    <3> QED BY <1>0, <1>1, <3>1 DEF Requested
  <2>2. ASSUME NEW a \in Address, a[2] < lastAddresses[a[1]]
        PROVE  a \in DOMAIN addresses
    <3>1. a[1] \in Changes /\ a[2] \in Nat /\ a = <<a[1], a[2]>>
      BY DEF Address
    <3>2. a[2] \in 0 .. lastAddresses[a[1]] - 1
      BY <1>1, <2>2, <3>1
    <3> QED BY <1>2, <3>1, <3>2 DEF RangeAnswered, Derive
  <2> QED BY <2>1, <2>2
<1>4. ASSUME NEW a \in DOMAIN addresses, addresses[a] # {}
      PROVE  a[2] + Lookahead <= lastAddresses[a[1]]
  <2>1. a[1] \in Changes /\ a[2] \in Nat
    BY DEF IInv, TypeOK, Address
  <2> QED BY <1>1, <1>2, <1>4, <2>1, SizesAssumption DEF GapScanned
<1> QED BY <1>1, <1>3, <1>4 DEF Scanned, IInv, AnswersInv

\* Two complete scans that agree wherever both have an answer have the same answers:
\* neither range can end before the other's.
LEMMA SameScan ==
  ASSUME NEW f, NEW g, NEW m, NEW n, Scanned(f, m), Scanned(g, n),
         \A a \in DOMAIN f \cap DOMAIN g : f[a] = g[a]
  PROVE  DOMAIN f = DOMAIN g
<1>1. ASSUME NEW p, NEW q, NEW r, NEW s, Scanned(p, r), Scanned(q, s),
             \A a \in DOMAIN p \cap DOMAIN q : p[a] = q[a],
             NEW c \in Changes, r[c] < s[c]
      PROVE  FALSE
  <2>1. r[c] \in Lookahead .. s[c] - 1 /\ r[c] \in Nat /\ Lookahead \in Nat
    BY <1>1, SizesAssumption DEF Scanned
  <2>2. PICK j \in 0 .. r[c] - 1 :
          <<c, j>> \in DOMAIN q /\ q[<<c, j>>] # {} /\ r[c] < j + Lookahead
    BY <1>1, <2>1 DEF Scanned, Stepped
  <2>3. <<c, j>> \in DOMAIN p
    BY <1>1, <2>1, <2>2 DEF Scanned
  <2>4. p[<<c, j>>] # {}
    BY <1>1, <2>2, <2>3
  <2>5. j + Lookahead <= r[c]
    BY <1>1, <2>3, <2>4 DEF Scanned
  <2> QED BY <2>1, <2>2, <2>5
<1>2. \A c \in Changes : m[c] \in Nat /\ n[c] \in Nat
  BY DEF Scanned
<1>3. \A c \in Changes : ~(m[c] < n[c]) /\ ~(n[c] < m[c])
  BY <1>1
<1>4. \A a \in Address : a[1] \in Changes /\ m[a[1]] = n[a[1]]
  BY <1>2, <1>3 DEF Address
<1> QED BY <1>4 DEF Scanned

\* complete() only compares counters, yet recvWork returns only when every
\* address of the range is answered, every listed transaction is fetched and
\* the range ends Lookahead past the last used address: for any lookahead, any
\* history and any order of answers.
THEOREM FetchIsComplete == ASSUME NoWrap PROVE Spec => []FetchComplete
BY InductiveInvariant, DoneComplete, PTL

\* A non-empty set of natural numbers has a least element: the initial segments
\* they span are finite sets, on which strict inclusion is well-founded.
LEMMA LeastNat ==
  ASSUME NEW S \in SUBSET Nat, S # {}
  PROVE  \E m \in S : \A n \in S : m <= n
<1> DEFINE Seg == {0 .. n : n \in S}
<1>1. Seg \subseteq FiniteSubsetsOf(Nat)
  <2> SUFFICES ASSUME NEW n \in S PROVE 0 .. n \in FiniteSubsetsOf(Nat)
    OBVIOUS
  <2>1. IsFiniteSet(0 .. n)
    BY FS_Interval
  <2> QED BY <2>1 DEF FiniteSubsetsOf
<1>2. IsWellFoundedOn(StrictSubsetOrdering(Nat), FiniteSubsetsOf(Nat))
  BY FS_StrictSubsetOrderingWellFounded
<1>3. \E x \in Seg : \A y \in Seg : <<y, x>> \notin StrictSubsetOrdering(Nat)
  <2>1. Seg # {}
    OBVIOUS
  <2> HIDE DEF Seg
  <2> QED BY <1>1, <1>2, <2>1, WFMin
<1>4. PICK m \in S : \A n \in S : <<0 .. n, 0 .. m>> \notin StrictSubsetOrdering(Nat)
  BY <1>3
<1>5. \A n \in S : ~(n < m)
  <2> SUFFICES ASSUME NEW n \in S, n < m PROVE FALSE
    OBVIOUS
  <2>1. 0 .. n \subseteq 0 .. m /\ m \in 0 .. m /\ m \notin 0 .. n
    OBVIOUS
  <2>2. <<0 .. n, 0 .. m>> \in StrictSubsetOrdering(Nat)
    BY <2>1 DEF StrictSubsetOrdering
  <2> QED BY <1>4, <2>2
<1> QED BY <1>5

\* When recvWork has returned no settled address lies beyond the range: the
\* first one that did would be within Lookahead of a settled address in range.
LEMMA GapClosed ==
  ASSUME IInv, recvPC = "done", GapRespected, ~singleAddress, NEW a \in Address,
         Settled(a) # {}
  PROVE  a[2] < lastAddresses[a[1]]
<1> DEFINE c == a[1]
           Beyond == {i \in Nat : /\ i < HardenedKeyStart
                                  /\ Settled(<<c, i>>) # {}
                                  /\ lastAddresses[c] <= i}
<1>0. /\ c \in Changes /\ a[2] \in Nat /\ a[2] < HardenedKeyStart /\ a = <<c, a[2]>>
      /\ lastAddresses[c] \in Nat /\ Lookahead \in Nat /\ HardenedKeyStart \in Nat
  BY SizesAssumption DEF Address, IInv, TypeOK
<1> SUFFICES ASSUME a[2] >= lastAddresses[c] PROVE FALSE
  BY <1>0
<1>1. Beyond \in SUBSET Nat /\ Beyond # {}
  BY <1>0
<1>2. PICK m \in Beyond : \A n \in Beyond : m <= n
  BY <1>1, LeastNat
<1>3. <<c, m>> \in Address /\ m \in Nat /\ Settled(<<c, m>>) # {}
  BY <1>0, <1>2 DEF Address
<1>4. ~(m < Lookahead)
  BY <1>0, <1>2 DEF IInv, RangeBounded
<1>5. PICK j \in 0 .. m - 1 : Settled(<<c, j>>) # {} /\ m < j + Lookahead
  BY <1>3, <1>4 DEF GapRespected
<1>6. j \in Nat /\ j < m /\ j < lastAddresses[c]
  BY <1>0, <1>2, <1>3, <1>5
<1>7. <<c, j>> \in DOMAIN addresses
  BY <1>0, <1>6, DoneComplete DEF FetchComplete, RangeAnswered, Derive
<1>8. addresses[<<c, j>>] # {}
  BY <1>5, <1>7 DEF IInv, NothingLost, Answers, Settled
<1>9. lastAddresses[c] >= j + Lookahead
  BY <1>7, <1>8, DoneComplete DEF FetchComplete, GapScanned
<1> QED BY <1>0, <1>2, <1>5, <1>6, <1>9

\* Every settled transaction of a wallet that respects the gap limit has been
\* fetched when recvWork returns: what the balance is computed from is complete.
THEOREM WalletIsCovered == ASSUME NoWrap PROVE Spec => []WalletCovered
<1>1. IInv => WalletCovered
  <2> SUFFICES ASSUME IInv, recvPC = "done", GapRespected, ~singleAddress,
                      NEW a \in Address, NEW t \in Settled(a)
               PROVE  t \in transactions
    BY DEF WalletCovered
  <2>1. a[2] < lastAddresses[a[1]]
    BY GapClosed
  <2>2. a[1] \in Changes /\ a[2] \in Nat /\ a = <<a[1], a[2]>>
        /\ lastAddresses[a[1]] \in Nat
    BY SizesAssumption DEF Address, IInv, TypeOK
  <2>3. a \in DOMAIN addresses
    BY <2>1, <2>2, DoneComplete DEF FetchComplete, RangeAnswered, Derive
  <2>4. t \in addresses[a]
    BY <2>3 DEF IInv, NothingLost, Answers, Settled
  <2> QED BY <2>3, <2>4, DoneComplete DEF FetchComplete, AnswersFetched
<1> QED BY <1>1, InductiveInvariant, PTL

\* The same for a single address: the last of its answers to arrive overwrote
\* the others, and any of them lists every settled transaction.
THEOREM SingleAddressIsCovered == ASSUME NoWrap PROVE Spec => []SingleAddressCovered
<1>1. IInv => SingleAddressCovered
  <2> SUFFICES ASSUME IInv, recvPC = "done", singleAddress, Lookahead > 0,
                      NEW t \in Settled(<<0, 0>>)
               PROVE  t \in transactions
    BY DEF SingleAddressCovered
  <2>1. 0 \in Changes /\ 0 \in 0 .. lastAddresses[0] - 1
    BY SizesAssumption DEF Changes, IInv, RangeBounded, TypeOK
  <2>2. <<0, 0>> \in DOMAIN addresses
    BY <2>1, DoneComplete DEF FetchComplete, RangeAnswered, Derive
  <2>3. t \in addresses[<<0, 0>>]
    BY <2>2 DEF IInv, NothingLost, Answers, Settled
  <2> QED BY <2>2, <2>3, DoneComplete DEF FetchComplete, AnswersFetched
<1> QED BY <1>1, InductiveInvariant, PTL

\* Once recvWork has returned neither goroutine makes a request nor changes a
\* result, so processTransactions reads maps that nobody writes.
THEOREM QuietWhenDone == ASSUME NoWrap PROVE Spec => QuietAfterDone
<1>1. IInv /\ [Next]_vars =>
        (recvPC = "done" =>
           UNCHANGED <<derivedAddrCount, addrPending, txPending, addresses,
                       transactions>>)
  <2> SUFFICES ASSUME IInv, [Next]_vars, recvPC = "done"
               PROVE  UNCHANGED <<derivedAddrCount, addrPending, txPending,
                                  addresses, transactions>>
    OBVIOUS
  <2>1. CASE NextChange
    BY <2>1 DEF NextChange, recvVars
  <2>2. ~DeriveAddr /\ ~RequestAddr
    BY DEF DeriveAddr, RequestAddr, IInv, DoneIsQuiet, SendInRange, TypeOK
  <2>3. CASE DeriveAddrPanic
    BY <2>3 DEF DeriveAddrPanic, recvVars
  <2>4. ~RecvSomeAddr /\ ~ExtendRange /\ ~RecvSomeTx /\ ~Tick
    BY DEF RecvSomeAddr, RecvAddr, ExtendRange, RecvSomeTx, RecvTx, Tick
  <2>5. CASE UNCHANGED vars
    BY <2>5 DEF vars, sendVars, recvVars
  <2> QED BY <2>1, <2>2, <2>3, <2>4, <2>5 DEF Next, sendWork, recvWork
<1> QED BY <1>1, InductiveInvariant, PTL DEF Spec, QuietAfterDone

\* Whatever sendWork has derived lies within Lookahead of the start or of an
\* address found used: indexes[c] stays in a range that only used addresses
\* extend.  A sum that wraps around makes the range shorter, never longer.
THEOREM ScanStaysClose == Spec => []NoOverscan
<1>1. TypeInv /\ ScanInv => NoOverscan
  <2> SUFFICES ASSUME TypeInv, ScanInv, NEW c \in Changes, indexes[c] > Lookahead
               PROVE  \E a \in DOMAIN addresses :
                        /\ a[1] = c /\ addresses[a] # {}
                        /\ indexes[c] <= a[2] + Lookahead
    BY DEF NoOverscan
  <2>1. /\ indexes[c] \in Nat /\ lastAddresses[c] \in Nat /\ Lookahead \in Nat
        /\ indexes[c] <= lastAddresses[c]
    BY SizesAssumption DEF TypeInv, TypeOK, ScanInv, SendInRange
  <2>2. PICK a \in DOMAIN addresses : /\ a[1] = c /\ addresses[a] # {}
                                     /\ lastAddresses[c] <= a[2] + Lookahead
    BY <2>1 DEF ScanInv, RangeReached
  <2>3. a[2] \in Nat
    BY DEF TypeInv, TypeOK, Address
  <2> QED BY <2>1, <2>2, <2>3
<1> QED BY <1>1, ScanInvariant, PTL

\* The process dies in a derivation only if the lookahead, or an address with a
\* transaction and the lookahead past it, reaches beyond the indexes that a
\* public key can derive.
THEOREM PanicIsJustified == Spec => []PanicJustified
<1>1. TypeInv /\ ScanInv => PanicJustified
  <2> SUFFICES ASSUME TypeInv, ScanInv, sendPC = "panic",
                      ~(Lookahead > HardenedKeyStart)
               PROVE  \E a \in Address : /\ history[a] # {}
                                         /\ a[2] + Lookahead > HardenedKeyStart
    BY DEF PanicJustified
  <2>1. /\ change \in Changes /\ indexes[change] \in Nat /\ lastAddr \in Nat
        /\ lastAddresses[change] \in Nat
        /\ Lookahead \in Nat /\ HardenedKeyStart \in Nat
    BY SizesAssumption DEF TypeInv, TypeOK
  <2>2. lastAddresses[change] > HardenedKeyStart
    BY <2>1 DEF ScanInv, PanicInRange, DerivePanics, SendInRange
  <2>3. PICK a \in DOMAIN addresses : /\ addresses[a] # {}
                                     /\ lastAddresses[change] <= a[2] + Lookahead
    BY <2>1, <2>2 DEF ScanInv, RangeReached
  <2>4. a \in Address /\ a[2] \in Nat /\ history[a] # {}
    BY <2>3 DEF TypeInv, TypeOK, Address, ScanInv, RangeReached
  <2> QED BY <2>1, <2>2, <2>3, <2>4
<1> QED BY <1>1, ScanInvariant, PTL
=============================================================================
