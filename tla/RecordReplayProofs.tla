-------------------------- MODULE RecordReplayProofs --------------------------
(***************************************************************************)
(* Proofs about a recorded run and its replay, for every wallet, chain and  *)
(* size of the channels: either run keeps the contract of Accounter, the    *)
(* recording is what the accounter saw, and the replay ends where the       *)
(* recorded run did.                                                       *)
(***************************************************************************)
EXTENDS RecordReplay, SequenceTheorems, TLAPS

\* The request that the response in processRequests' hands answers, as Delivery has
\* it: there is one goroutine, 0.
Nobody == [g \in {} |-> <<0, 0>>]
Holds(label) == label \in {"store", "forward"}
AddrHeldIn(label, m) == [g \in IF Holds(label) /\ IsAddr(m) THEN {0} ELSE {} |-> m.addr]
TxHeldIn(label, m) == [g \in IF Holds(label) /\ ~IsAddr(m) THEN {0} ELSE {} |-> m.req]
AddrHeld == AddrHeldIn(pc, hand)
TxHeld == TxHeldIn(pc, hand)

DP == INSTANCE DeliveryProofs WITH
        Goroutine <- {0},
        Heights   <- {0, 1},
        addrHeld  <- AddrHeld,
        txHeld    <- TxHeld

TxReq == [from : Address, tx : Tx]

-----------------------------------------------------------------------------
(* Sequences.                                                              *)

\* What is left of a channel when the request at some position was taken.
LEMMA Removed ==
  ASSUME NEW S, NEW s \in Seq(S), NEW i \in 1 .. Len(s)
  PROVE  /\ RemoveAt(s, i) \in Seq(S) /\ Len(RemoveAt(s, i)) = Len(s) - 1
         /\ \A j \in 1 .. Len(s) - 1 :
              RemoveAt(s, i)[j] = IF j < i THEN s[j] ELSE s[j + 1]
<1> DEFINE p == SubSeq(s, 1, i - 1)
           q == SubSeq(s, i + 1, Len(s))
<1>0. Len(s) \in Nat /\ i \in Nat /\ 1 <= i /\ i <= Len(s)
  OBVIOUS
<1>1. p \in Seq(S) /\ Len(p) = i - 1 /\ \A j \in 1 .. i - 1 : p[j] = s[j]
  OBVIOUS
<1>2. q \in Seq(S) /\ Len(q) = Len(s) - i /\ \A j \in 1 .. Len(s) - i : q[j] = s[i + j]
  OBVIOUS
<1>3. RemoveAt(s, i) = p \o q
  BY DEF RemoveAt
<1> HIDE DEF p, q
<1>4. /\ p \o q \in Seq(S) /\ Len(p \o q) = Len(p) + Len(q)
      /\ \A j \in 1 .. Len(p) + Len(q) :
           (p \o q)[j] = IF j <= Len(p) THEN p[j] ELSE q[j - Len(p)]
  BY <1>1, <1>2, ConcatProperties
<1>5. ASSUME NEW j \in 1 .. Len(s) - 1
      PROVE  (p \o q)[j] = IF j < i THEN s[j] ELSE s[j + 1]
  <2>1. CASE j < i
    BY <1>0, <1>1, <1>2, <1>4, <2>1
  <2>2. CASE j >= i
    <3>1. j - (i - 1) \in 1 .. Len(s) - i /\ i + (j - (i - 1)) = j + 1
      BY <1>0, <2>2
    <3>2. q[j - (i - 1)] = s[j + 1]
      BY <1>2, <3>1
    <3> QED BY <1>0, <1>1, <1>2, <1>4, <2>2, <3>2
  <2>3. j < i \/ j >= i
    BY <1>0
  <2> QED BY <2>1, <2>2, <2>3
<1>6. Len(p \o q) = Len(s) - 1
  BY <1>0, <1>1, <1>2, <1>4
<1> QED BY <1>3, <1>4, <1>5, <1>6

\* A receive from a channel to which a send is still due.
LEMMA TailAppend ==
  ASSUME NEW S, NEW s \in Seq(S), NEW x \in S, s # <<>>
  PROVE  /\ Append(s, x) \in Seq(S) /\ Append(s, x) # <<>>
         /\ Tail(Append(s, x)) = Append(Tail(s), x)
         /\ Head(Append(s, x)) = Head(s)
BY HeadTailAppend, AppendProperties

\* What responses say, when one is sent.
LEMMA PairsAppend ==
  ASSUME NEW R, NEW ms \in Seq(R), NEW m \in R
  PROVE  /\ addrPairs(Append(ms, m)) = Append(addrPairs(ms), <<m.addr, m.txHashes>>)
         /\ txPairs(Append(ms, m)) = Append(txPairs(ms), <<m.req.tx, m.height>>)
<1>1. /\ DOMAIN Append(ms, m) = 1 .. Len(ms) + 1 /\ Len(ms) \in Nat
      /\ DOMAIN ms = 1 .. Len(ms)
      /\ \A i \in 1 .. Len(ms) + 1 : Append(ms, m)[i] = IF i <= Len(ms) THEN ms[i] ELSE m
  OBVIOUS
<1>2. ASSUME NEW f, NEW x, f = [i \in 1 .. Len(ms) |-> f[i]]
      PROVE  Append(f, x) = [i \in 1 .. Len(ms) + 1 |-> IF i <= Len(ms) THEN f[i] ELSE x]
  BY <1>1, <1>2
<1>3. addrPairs(Append(ms, m)) = Append(addrPairs(ms), <<m.addr, m.txHashes>>)
  <2> DEFINE f == addrPairs(ms)
  <2>1. f = [i \in 1 .. Len(ms) |-> <<ms[i].addr, ms[i].txHashes>>]
    BY <1>1 DEF addrPairs
  <2>2. /\ f = [i \in 1 .. Len(ms) |-> f[i]]
        /\ \A i \in 1 .. Len(ms) : f[i] = <<ms[i].addr, ms[i].txHashes>>
    BY <2>1
  <2>3. addrPairs(Append(ms, m))
          = [i \in 1 .. Len(ms) + 1 |-> IF i <= Len(ms) THEN f[i] ELSE <<m.addr, m.txHashes>>]
    <3> HIDE DEF f
    <3> QED BY <1>1, <2>2 DEF addrPairs
  <2> QED BY <1>2, <2>2, <2>3
<1>4. txPairs(Append(ms, m)) = Append(txPairs(ms), <<m.req.tx, m.height>>)
  <2> DEFINE f == txPairs(ms)
  <2>1. f = [i \in 1 .. Len(ms) |-> <<ms[i].req.tx, ms[i].height>>]
    BY <1>1 DEF txPairs
  <2>2. /\ f = [i \in 1 .. Len(ms) |-> f[i]]
        /\ \A i \in 1 .. Len(ms) : f[i] = <<ms[i].req.tx, ms[i].height>>
    BY <2>1
  <2>3. txPairs(Append(ms, m))
          = [i \in 1 .. Len(ms) + 1 |-> IF i <= Len(ms) THEN f[i] ELSE <<m.req.tx, m.height>>]
    <3> HIDE DEF f
    <3> QED BY <1>1, <2>2 DEF txPairs
  <2> QED BY <1>2, <2>2, <2>3
<1> QED BY <1>3, <1>4

\* What they say when one is received.
LEMMA PairsTail ==
  ASSUME NEW R, NEW ms \in Seq(R), ms # <<>>
  PROVE  /\ addrPairs(ms) # <<>> /\ addrPairs(Tail(ms)) = Tail(addrPairs(ms))
         /\ Head(addrPairs(ms)) = <<Head(ms).addr, Head(ms).txHashes>>
         /\ txPairs(ms) # <<>> /\ txPairs(Tail(ms)) = Tail(txPairs(ms))
         /\ Head(txPairs(ms)) = <<Head(ms).req.tx, Head(ms).height>>
<1>1. /\ Len(ms) \in Nat /\ Len(ms) > 0 /\ DOMAIN ms = 1 .. Len(ms) /\ Head(ms) = ms[1]
      /\ DOMAIN Tail(ms) = 1 .. Len(ms) - 1
      /\ \A i \in 1 .. Len(ms) - 1 : Tail(ms)[i] = ms[i + 1]
  OBVIOUS
<1>2. ASSUME NEW f, f = [i \in 1 .. Len(ms) |-> f[i]]
      PROVE  /\ f # <<>> /\ Head(f) = f[1]
             /\ Tail(f) = [i \in 1 .. Len(ms) - 1 |-> f[i + 1]]
  BY <1>1, <1>2
<1>3. /\ addrPairs(ms) # <<>> /\ addrPairs(Tail(ms)) = Tail(addrPairs(ms))
      /\ Head(addrPairs(ms)) = <<Head(ms).addr, Head(ms).txHashes>>
  <2> DEFINE f == addrPairs(ms)
  <2>1. f = [i \in 1 .. Len(ms) |-> <<ms[i].addr, ms[i].txHashes>>]
    BY <1>1 DEF addrPairs
  <2>2. /\ f = [i \in 1 .. Len(ms) |-> f[i]]
        /\ \A i \in 1 .. Len(ms) : f[i] = <<ms[i].addr, ms[i].txHashes>>
    BY <2>1
  <2>3. addrPairs(Tail(ms)) = [i \in 1 .. Len(ms) - 1 |-> f[i + 1]]
    <3> HIDE DEF f
    <3> QED BY <1>1, <2>2 DEF addrPairs
  <2>4. f[1] = <<Head(ms).addr, Head(ms).txHashes>>
    BY <1>1, <2>2
  <2> QED BY <1>2, <2>2, <2>3, <2>4
<1>4. /\ txPairs(ms) # <<>> /\ txPairs(Tail(ms)) = Tail(txPairs(ms))
      /\ Head(txPairs(ms)) = <<Head(ms).req.tx, Head(ms).height>>
  <2> DEFINE f == txPairs(ms)
  <2>1. f = [i \in 1 .. Len(ms) |-> <<ms[i].req.tx, ms[i].height>>]
    BY <1>1 DEF txPairs
  <2>2. /\ f = [i \in 1 .. Len(ms) |-> f[i]]
        /\ \A i \in 1 .. Len(ms) : f[i] = <<ms[i].req.tx, ms[i].height>>
    BY <2>1
  <2>3. txPairs(Tail(ms)) = [i \in 1 .. Len(ms) - 1 |-> f[i + 1]]
    <3> HIDE DEF f
    <3> QED BY <1>1, <2>2 DEF txPairs
  <2>4. f[1] = <<Head(ms).req.tx, Head(ms).height>>
    BY <1>1, <2>2
  <2> QED BY <1>2, <2>2, <2>3, <2>4
<1> QED BY <1>3, <1>4

\* The keys and values that responses are about.
LEMMA PairsType ==
  /\ \A ms \in Seq(AddrAnswer) : addrPairs(ms) \in Seq(Address \X SUBSET Tx)
  /\ \A ms \in Seq(TxAnswer) : txPairs(ms) \in Seq(Tx \X {0, 1})
<1>1. ASSUME NEW ms \in Seq(AddrAnswer)
      PROVE  addrPairs(ms) \in Seq(Address \X SUBSET Tx)
  <2>1. \A i \in 1 .. Len(ms) : ms[i] \in AddrAnswer
    BY ElementOfSeq
  <2>2. \A m \in AddrAnswer : <<m.addr, m.txHashes>> \in Address \X SUBSET Tx
    BY DEF AddrAnswer
  <2>3. /\ Len(ms) \in Nat /\ DOMAIN ms = 1 .. Len(ms)
        /\ \A i \in 1 .. Len(ms) : <<ms[i].addr, ms[i].txHashes>> \in Address \X SUBSET Tx
    BY <2>1, <2>2, LenProperties
  <2> QED BY <2>3 DEF addrPairs
<1>2. ASSUME NEW ms \in Seq(TxAnswer)
      PROVE  txPairs(ms) \in Seq(Tx \X {0, 1})
  <2>1. \A i \in 1 .. Len(ms) : ms[i] \in TxAnswer
    BY ElementOfSeq
  <2>2. \A m \in TxAnswer : <<m.req.tx, m.height>> \in Tx \X {0, 1}
    BY DEF TxAnswer
  <2>3. /\ Len(ms) \in Nat /\ DOMAIN ms = 1 .. Len(ms)
        /\ \A i \in 1 .. Len(ms) : <<ms[i].req.tx, ms[i].height>> \in Tx \X {0, 1}
    BY <2>1, <2>2, LenProperties
  <2> QED BY <2>3 DEF txPairs
<1> QED BY <1>1, <1>2

-----------------------------------------------------------------------------
(* A map that catches up with an index, and one that comes from it.         *)

\* Positions of a channel before and after a send.
LEMMA AppendAt ==
  ASSUME NEW S, NEW s \in Seq(S), NEW x \in S
  PROVE  /\ Len(s) \in Nat /\ DOMAIN s = 1 .. Len(s)
         /\ DOMAIN Append(s, x) = 1 .. Len(s) + 1
         /\ \A i \in 1 .. Len(s) : Append(s, x)[i] = s[i]
         /\ Append(s, x)[Len(s) + 1] = x
OBVIOUS

\* The same for a receive.
LEMMA TailAt ==
  ASSUME NEW S, NEW s \in Seq(S), s # <<>>
  PROVE  /\ Len(s) \in Nat \ {0} /\ DOMAIN s = 1 .. Len(s) /\ s[1] = Head(s)
         /\ DOMAIN Tail(s) = 1 .. Len(s) - 1
         /\ \A i \in 1 .. Len(s) - 1 : Tail(s)[i] = s[i + 1]
OBVIOUS

\* A response is stored and then sent.
LEMMA CatchStored ==
  ASSUME NEW S, NEW sent \in Seq(S), NEW map, NEW index, CatchesUp(map, sent, index),
         NEW k, NEW v, <<k, v>> \in S
  PROVE  CatchesUp(map, Append(sent, <<k, v>>), Put(index, k, v))
<1> DEFINE s2 == Append(sent, <<k, v>>)
           i2 == Put(index, k, v)
           n == Len(sent) + 1
<1>1. /\ n \in DOMAIN s2 /\ s2[n] = <<k, v>> /\ n \notin DOMAIN sent
      /\ DOMAIN s2 = DOMAIN sent \cup {n}
      /\ \A i \in DOMAIN sent : s2[i] = sent[i] /\ ~(i > n)
      /\ \A j \in DOMAIN s2 : ~(j > n)
  BY AppendAt
<1>2. /\ DOMAIN i2 = DOMAIN index \cup {k} /\ i2[k] = v
      /\ \A x \in DOMAIN index : x # k => i2[x] = index[x]
  BY DEF Put
<1> HIDE DEF s2, i2, n
<1>3. DOMAIN map \subseteq DOMAIN i2 /\ \A i \in DOMAIN s2 : s2[i][1] \in DOMAIN i2
  BY <1>1, <1>2 DEF CatchesUp
<1>4. \E i \in DOMAIN s2 : s2[i] = <<k, i2[k]>> /\ \A j \in DOMAIN s2 : j > i => s2[j][1] # k
  BY <1>1, <1>2
<1>5. ASSUME NEW x \in DOMAIN index, x # k
      PROVE  \/ /\ x \in DOMAIN map /\ map[x] = i2[x]
                /\ \A i \in DOMAIN s2 : s2[i][1] # x
             \/ \E i \in DOMAIN s2 : /\ s2[i] = <<x, i2[x]>>
                                     /\ \A j \in DOMAIN s2 : j > i => s2[j][1] # x
  <2>1. i2[x] = index[x] /\ s2[n][1] # x
    BY <1>1, <1>2, <1>5
  <2>2. CASE /\ x \in DOMAIN map /\ map[x] = index[x]
             /\ \A i \in DOMAIN sent : sent[i][1] # x
    BY <1>1, <2>1, <2>2
  <2>3. CASE \E i \in DOMAIN sent : /\ sent[i] = <<x, index[x]>>
                                    /\ \A j \in DOMAIN sent : j > i => sent[j][1] # x
    BY <1>1, <2>1, <2>3
  <2> QED BY <2>2, <2>3 DEF CatchesUp
<1>6. \A x \in DOMAIN i2 : x = k \/ x \in DOMAIN index
  BY <1>2
<1> QED BY <1>3, <1>4, <1>5, <1>6 DEF CatchesUp, s2, i2

\* A response is received.
LEMMA CatchReceived ==
  ASSUME NEW S, NEW sent \in Seq(S), NEW map, NEW index, CatchesUp(map, sent, index),
         NEW k, NEW v, sent # <<>>, Head(sent) = <<k, v>>
  PROVE  CatchesUp(Put(map, k, v), Tail(sent), index)
<1> DEFINE s2 == Tail(sent)
           m2 == Put(map, k, v)
<1>1. /\ sent[1] = <<k, v>> /\ 1 \in DOMAIN sent
      /\ DOMAIN sent \subseteq Nat
      /\ \A i \in DOMAIN sent : i = 1 \/ (i > 1 /\ i - 1 \in DOMAIN s2)
      /\ \A i \in DOMAIN s2 : i + 1 \in DOMAIN sent /\ s2[i] = sent[i + 1] /\ i + 1 > 1
      /\ \A i \in DOMAIN s2 : i \in Nat
  BY TailAt
<1>2. /\ DOMAIN m2 = DOMAIN map \cup {k} /\ m2[k] = v
      /\ \A x \in DOMAIN map : x # k => m2[x] = map[x]
  BY DEF Put
<1> HIDE DEF s2, m2
<1>3. k \in DOMAIN index
  <2>1. sent[1][1] = k
    BY <1>1
  <2> QED BY <1>1, <2>1 DEF CatchesUp
<1>4. DOMAIN m2 \subseteq DOMAIN index /\ \A i \in DOMAIN s2 : s2[i][1] \in DOMAIN index
  BY <1>1, <1>2, <1>3 DEF CatchesUp
<1>5. ASSUME NEW x \in DOMAIN index
      PROVE  \/ /\ x \in DOMAIN m2 /\ m2[x] = index[x]
                /\ \A i \in DOMAIN s2 : s2[i][1] # x
             \/ \E i \in DOMAIN s2 : /\ s2[i] = <<x, index[x]>>
                                     /\ \A j \in DOMAIN s2 : j > i => s2[j][1] # x
  <2>2. CASE /\ x \in DOMAIN map /\ map[x] = index[x]
             /\ \A i \in DOMAIN sent : sent[i][1] # x
    <3>1. x # k
      BY <1>1, <2>2
    <3> QED BY <1>1, <1>2, <2>2, <3>1
  <2>3. ASSUME NEW i \in DOMAIN sent, sent[i] = <<x, index[x]>>,
               \A j \in DOMAIN sent : j > i => sent[j][1] # x
        PROVE  \/ /\ x \in DOMAIN m2 /\ m2[x] = index[x]
                  /\ \A j \in DOMAIN s2 : s2[j][1] # x
               \/ \E j \in DOMAIN s2 : /\ s2[j] = <<x, index[x]>>
                                       /\ \A l \in DOMAIN s2 : l > j => s2[l][1] # x
    <3>1. CASE i = 1
      <4>1. x = k /\ index[x] = v
        BY <1>1, <2>3, <3>1
      <4> QED BY <1>1, <1>2, <2>3, <3>1, <4>1
    <3>2. CASE i > 1 /\ i - 1 \in DOMAIN s2
      <4> DEFINE p == i - 1
      <4>1. p \in DOMAIN s2 /\ p + 1 = i /\ p \in Nat
        BY <1>1, <3>2
      <4> HIDE DEF p
      <4>2. s2[p] = <<x, index[x]>>
        BY <1>1, <2>3, <4>1
      <4>3. ASSUME NEW l \in DOMAIN s2, l > p PROVE s2[l][1] # x
        <5>1. l + 1 \in DOMAIN sent /\ l + 1 > i /\ s2[l] = sent[l + 1]
          BY <1>1, <4>1, <4>3
        <5> QED BY <2>3, <5>1
      <4> QED BY <4>1, <4>2, <4>3
    <3> QED BY <1>1, <3>1, <3>2
  <2> QED BY <2>2, <2>3 DEF CatchesUp
<1> QED BY <1>4, <1>5 DEF CatchesUp, s2, m2

\* When nothing is on its way the map has caught up.
LEMMA CatchDone ==
  ASSUME NEW V, NEW map, NEW index, CatchesUp(map, <<>>, index),
         map \in [DOMAIN map -> V], index \in [DOMAIN index -> V]
  PROVE  map = index
<1>1. DOMAIN <<>> = {}
  OBVIOUS
<1>2. \A k \in DOMAIN index : k \in DOMAIN map /\ map[k] = index[k]
  BY <1>1 DEF CatchesUp
<1>3. DOMAIN map = DOMAIN index
  BY <1>2 DEF CatchesUp
<1> QED BY <1>2, <1>3

\* An answer from the index is sent.
LEMMA ComesSent ==
  ASSUME NEW S, NEW sent \in Seq(S), NEW map, NEW index, ComesFrom(map, sent, index),
         NEW k \in DOMAIN index, NEW v, v = index[k], <<k, v>> \in S
  PROVE  ComesFrom(map, Append(sent, <<k, v>>), index)
<1> DEFINE s2 == Append(sent, <<k, v>>)
           n == Len(sent) + 1
<1>1. /\ s2[n] = <<k, v>> /\ DOMAIN s2 = DOMAIN sent \cup {n}
      /\ \A i \in DOMAIN sent : s2[i] = sent[i]
  BY AppendAt
<1> HIDE DEF s2, n
<1>2. s2[n][1] = k /\ s2[n][2] = v
  BY <1>1
<1> QED BY <1>1, <1>2 DEF ComesFrom, s2

\* An answer is received.
LEMMA ComesReceived ==
  ASSUME NEW S, NEW sent \in Seq(S), NEW map, NEW index, ComesFrom(map, sent, index),
         NEW k, NEW v, sent # <<>>, Head(sent) = <<k, v>>
  PROVE  /\ ComesFrom(Put(map, k, v), Tail(sent), index)
         /\ k \in DOMAIN index /\ v = index[k]
<1> DEFINE s2 == Tail(sent)
           m2 == Put(map, k, v)
<1>1. /\ sent[1] = <<k, v>> /\ 1 \in DOMAIN sent
      /\ \A i \in DOMAIN s2 : i + 1 \in DOMAIN sent /\ s2[i] = sent[i + 1]
  BY TailAt
<1>2. /\ DOMAIN m2 = DOMAIN map \cup {k} /\ m2[k] = v
      /\ \A x \in DOMAIN map : x # k => m2[x] = map[x]
  BY DEF Put
<1> HIDE DEF s2, m2
<1>3. k \in DOMAIN index /\ v = index[k]
  <2>1. sent[1][1] = k /\ sent[1][2] = v
    BY <1>1
  <2> QED BY <1>1, <2>1 DEF ComesFrom
<1>4. ComesFrom(m2, s2, index)
  BY <1>1, <1>2, <1>3 DEF ComesFrom
<1> QED BY <1>3, <1>4 DEF s2, m2

\* An answer is taken back, to be sent again after the others.
LEMMA ComesAgain ==
  ASSUME NEW S, NEW sent \in Seq(S), NEW map, NEW index, ComesFrom(map, sent, index),
         sent # <<>>
  PROVE  ComesFrom(map, Append(Tail(sent), Head(sent)), index)
<1> DEFINE s1 == Tail(sent)
           x == Head(sent)
           s2 == Append(s1, x)
           n == Len(s1) + 1
<1>1. /\ sent[1] = x /\ 1 \in DOMAIN sent /\ s1 \in Seq(S) /\ x \in S
      /\ \A i \in DOMAIN s1 : i + 1 \in DOMAIN sent /\ s1[i] = sent[i + 1]
  BY TailAt
<1> HIDE DEF s1, x
<1>2. s2[n] = x /\ DOMAIN s2 = DOMAIN s1 \cup {n} /\ \A i \in DOMAIN s1 : s2[i] = s1[i]
  BY <1>1, AppendAt
<1> HIDE DEF s2, n
<1>3. \A i \in DOMAIN s2 : \E j \in DOMAIN sent : s2[i] = sent[j]
  BY <1>1, <1>2
<1>4. ComesFrom(map, s2, index)
  BY <1>3 DEF ComesFrom
<1> QED BY <1>4 DEF s1, x, s2

\* What is written for a map is read back as that map.
LEMMA LoadedAddrs ==
  ASSUME NEW V, NEW f, f \in [DOMAIN f -> V]
  PROVE  LoadAddrs({[address |-> a, txHashes |-> f[a]] : a \in DOMAIN f}) = f
<1> DEFINE E == {[address |-> a, txHashes |-> f[a]] : a \in DOMAIN f}
<1>1. {e.address : e \in E} = DOMAIN f
  <2>1. \A e \in E : e.address \in DOMAIN f
    OBVIOUS
  <2>2. ASSUME NEW a \in DOMAIN f PROVE \E e \in E : e.address = a
    <3>1. [address |-> a, txHashes |-> f[a]] \in E
      OBVIOUS
    <3>2. [address |-> a, txHashes |-> f[a]].address = a
      OBVIOUS
    <3> QED BY <3>1, <3>2
  <2> HIDE DEF E
  <2> QED BY <2>1, <2>2
<1>2. \A e \in E : e.address \in DOMAIN f /\ e.txHashes = f[e.address]
  OBVIOUS
<1> HIDE DEF E
<1>3. ASSUME NEW a \in DOMAIN f PROVE (CHOOSE e \in E : e.address = a).txHashes = f[a]
  <2>1. \E e \in E : e.address = a
    BY <1>1
  <2>2. (CHOOSE e \in E : e.address = a) \in E /\ (CHOOSE e \in E : e.address = a).address = a
    BY <2>1
  <2> QED BY <1>2, <2>2
<1>4. LoadAddrs(E) = f
  BY <1>1, <1>3 DEF LoadAddrs
<1> QED BY <1>4 DEF E

\* The same for transactions.
LEMMA LoadedTxs ==
  ASSUME NEW V, NEW f, f \in [DOMAIN f -> V]
  PROVE  LoadTxs({[hash |-> t, height |-> f[t]] : t \in DOMAIN f}) = f
<1> DEFINE E == {[hash |-> t, height |-> f[t]] : t \in DOMAIN f}
<1>1. {e.hash : e \in E} = DOMAIN f
  <2>1. \A e \in E : e.hash \in DOMAIN f
    OBVIOUS
  <2>2. ASSUME NEW t \in DOMAIN f PROVE \E e \in E : e.hash = t
    <3>1. [hash |-> t, height |-> f[t]] \in E
      OBVIOUS
    <3>2. [hash |-> t, height |-> f[t]].hash = t
      OBVIOUS
    <3> QED BY <3>1, <3>2
  <2> HIDE DEF E
  <2> QED BY <2>1, <2>2
<1>2. \A e \in E : e.hash \in DOMAIN f /\ e.height = f[e.hash]
  OBVIOUS
<1> HIDE DEF E
<1>3. ASSUME NEW t \in DOMAIN f PROVE (CHOOSE e \in E : e.hash = t).height = f[t]
  <2>1. \E e \in E : e.hash = t
    BY <1>1
  <2>2. (CHOOSE e \in E : e.hash = t) \in E /\ (CHOOSE e \in E : e.hash = t).hash = t
    BY <2>1
  <2> QED BY <1>2, <2>2
<1>4. LoadTxs(E) = f
  BY <1>1, <1>3 DEF LoadTxs
<1> QED BY <1>4 DEF E

-----------------------------------------------------------------------------
(* The terms that this module and Delivery have in common.                  *)

\* Delivery's assumption is the one made here.
LEMMA DeliveryAssumption == DP!PipelineAssumption
<1>1. DP!Address = Address
  BY DEF DP!Address, DP!Changes, Address, Changes
<1> QED BY <1>1, PipelineAssumption DEF DP!PipelineAssumption, DP!IsFiniteSet, IsFiniteSet

\* They mean the same by these.
LEMMA SameTerms ==
  /\ DP!Address = Address /\ DP!TxReq = TxReq /\ DP!Changes = Changes
  /\ \A a : DP!Answers(a) = Answers(a)
  /\ \A ch, size : DP!HasRoom(ch, size) <=> HasRoom(ch, size)
  /\ \A ch : DP!InChannel(ch) = InChannel(ch)
BY DEF DP!Address, DP!Changes, Address, Changes, DP!TxReq, TxReq, DP!Answers, Answers,
       DP!HasRoom, HasRoom, DP!InChannel, InChannel

\* The accounter's goroutines take the same steps.
LEMMA SamePipeline == (DP!sendWork <=> sendWork) /\ (DP!recvWork <=> recvWork)
<1> USE DEF DP!recvVars, recvVars, DP!sendVars, sendVars, DP!channels, channels,
            DP!HasRoom, HasRoom
<1>1. DP!sendWork <=> sendWork
  BY DEF DP!sendWork, sendWork, DP!NextChange, NextChange, DP!DeriveAddr, DeriveAddr,
         DP!RequestAddr, RequestAddr, DP!countMuFree, countMuFree
<1>2. DP!recvWork <=> recvWork
  BY DEF DP!recvWork, recvWork, DP!RecvAddr, RecvAddr, DP!RequestTx, RequestTx,
         DP!RequestedTxs, RequestedTxs, DP!ExtendRange, ExtendRange, DP!RecvTx,
         RecvTx, DP!Tick, Tick, DP!complete, complete
<1> QED BY <1>1, <1>2

\* What the channels hold, from Delivery's invariant, and what recvWork has.
LEMMA Typed ==
  ASSUME DP!Ready
  PROVE  /\ addrRequests \in Seq(Address) /\ txRequests \in Seq(TxReq)
         /\ addrResponses \in Seq(AddrAnswer)
         /\ txResponses \in Seq(TxAnswer)
         /\ history \in [Address -> SUBSET Tx]
         /\ lastAddresses \in [Changes -> Nat]
         /\ addresses \in [DOMAIN addresses -> SUBSET Tx]
<1>1. addresses \in [DOMAIN addresses -> SUBSET Tx]
  BY DEF DP!Ready, DP!FetchP!TypeInv, DP!FetchP!TypeOK
<1>2. lastAddresses \in [Changes -> Nat]
  BY DeliveryAssumption, DP!ReadyTypes, SameTerms
<1>3. AddrAnswer = [addr : Address, txHashes : SUBSET Tx]
      /\ TxAnswer = [req : TxReq, height : {0, 1}]
  BY DEF AddrAnswer, TxAnswer, TxReq
<1> QED BY <1>1, <1>2, <1>3, DeliveryAssumption, DP!ChannelTypes, SameTerms

\* What processRequests holds is one answer or none.
LEMMA HeldIs ==
  ASSUME NEW p, NEW m
  PROVE  /\ ~Holds(p) => AddrHeldIn(p, m) = Nobody /\ TxHeldIn(p, m) = Nobody
         /\ Holds(p) /\ m \in AddrAnswer => /\ IsAddr(m) /\ TxHeldIn(p, m) = Nobody
                                            /\ AddrHeldIn(p, m) = [g \in {0} |-> m.addr]
         /\ Holds(p) /\ m \in TxAnswer => /\ ~IsAddr(m) /\ AddrHeldIn(p, m) = Nobody
                                          /\ TxHeldIn(p, m) = [g \in {0} |-> m.req]
<1>1. m \in AddrAnswer => IsAddr(m)
  BY DEF AddrAnswer, IsAddr
<1>2. m \in TxAnswer => ~IsAddr(m)
  BY DEF TxAnswer, IsAddr
<1>3. \A x : [g \in {} |-> x] = Nobody
  BY DEF Nobody
<1>4. ~Holds(p) \/ ~IsAddr(m) => AddrHeldIn(p, m) = Nobody
  BY <1>3 DEF AddrHeldIn
<1>5. ~Holds(p) \/ IsAddr(m) => TxHeldIn(p, m) = Nobody
  BY <1>3 DEF TxHeldIn
<1>6. Holds(p) /\ IsAddr(m) => AddrHeldIn(p, m) = [g \in {0} |-> m.addr]
  BY DEF AddrHeldIn
<1>7. Holds(p) /\ ~IsAddr(m) => TxHeldIn(p, m) = [g \in {0} |-> m.req]
  BY DEF TxHeldIn
<1> QED BY <1>1, <1>2, <1>4, <1>5, <1>6, <1>7

\* What is on its way from an index is what the channel has and, while a response
\* is to be forwarded, that response.
LEMMA SentIs ==
  /\ pc = "forward" /\ IsAddr(hand) => /\ addrSent = addrPairs(Append(addrResponses, hand))
                                       /\ txSent = txPairs(txResponses)
  /\ pc = "forward" /\ ~IsAddr(hand) => /\ addrSent = addrPairs(addrResponses)
                                        /\ txSent = txPairs(Append(txResponses, hand))
  /\ pc # "forward" => addrSent = addrPairs(addrResponses) /\ txSent = txPairs(txResponses)
BY DEF addrSent, txSent

\* The same after a step.
LEMMA SentBecomes ==
  /\ pc' = "forward" /\ IsAddr(hand') => /\ addrSent' = addrPairs(Append(addrResponses', hand'))
                                         /\ txSent' = txPairs(txResponses')
  /\ pc' = "forward" /\ ~IsAddr(hand') => /\ addrSent' = addrPairs(addrResponses')
                                          /\ txSent' = txPairs(Append(txResponses', hand'))
  /\ pc' # "forward" => addrSent' = addrPairs(addrResponses') /\ txSent' = txPairs(txResponses')
BY DEF addrSent, txSent

\* The responses in the channels and in hand, as sequences of responses.
LEMMA SentTypes ==
  ASSUME DP!Ready, HandInv
  PROVE  /\ addrSent \in Seq(Address \X SUBSET Tx)
         /\ txSent \in Seq(Tx \X {0, 1})
<1>1. addrResponses \in Seq(AddrAnswer) /\ txResponses \in Seq(TxAnswer)
  BY Typed
<1>2. pc = "forward" => IF IsAddr(hand) THEN hand \in AddrAnswer ELSE hand \in TxAnswer
  BY HeldIs DEF HandInv, InHand, Holds
<1>3. /\ pc = "forward" /\ IsAddr(hand) => Append(addrResponses, hand) \in Seq(AddrAnswer)
      /\ pc = "forward" /\ ~IsAddr(hand) => Append(txResponses, hand) \in Seq(TxAnswer)
  BY <1>1, <1>2, AppendProperties
<1> QED BY <1>1, <1>3, SentIs, PairsType

-----------------------------------------------------------------------------
(* Steps of the accounter.                                                 *)

\* Only the indexes and the channels' contents matter to the file and the replay.
LEMMA FixtureKept ==
  ASSUME IInv, UNCHANGED <<history, addrIndex, txIndex, recorded, lastAddresses>>
  PROVE  (FixtureInv => FixtureInv') /\ (RangeInv => RangeInv')
<1>1. FixtureInv => FixtureInv'
  BY DEF FixtureInv, Answers
<1>2. RangeInv => RangeInv'
  BY DEF RangeInv
<1> QED BY <1>1, <1>2

\* A step that changes neither a map nor what is on its way to one.
LEMMA NothingSent ==
  ASSUME IInv, addrSent' = addrSent, txSent' = txSent,
         UNCHANGED <<history, fileVars, addresses, transactions, addrIndex, txIndex,
                     recvPC, lastAddresses>>
  PROVE  RecordInv' /\ FileInv' /\ ReplayInv'
<1>1. RecordInv'
  BY DEF IInv, RecordInv, fileVars
<1>2. FileInv'
  BY DEF IInv, FileInv, fileVars
<1>3. ReplayInv'
  BY FixtureKept DEF IInv, ReplayInv, fileVars
<1> QED BY <1>1, <1>2, <1>3

\* What no step of the accounter touches.
LEMMA AccounterKeeps ==
  ASSUME accounter
  PROVE  /\ UNCHANGED <<history, backendVars, fileVars>>
         /\ AddrHeld' = AddrHeld /\ TxHeld' = TxHeld
         /\ DP!Next
<1>1. UNCHANGED <<history, backendVars, fileVars>>
  BY DEF accounter, sendWork, NextChange, DeriveAddr, RequestAddr, recvWork, RecvAddr,
         RequestTx, RequestedTxs, ExtendRange, RecvTx, Tick
<1>2. AddrHeld' = AddrHeld /\ TxHeld' = TxHeld
  BY <1>1 DEF AddrHeld, TxHeld, backendVars
<1>3. DP!Next
  BY <1>2, SamePipeline DEF accounter, DP!Next, DP!accounter
<1> QED BY <1>1, <1>2, <1>3

\* sendWork, and recvWork where it neither receives nor extends the range.
LEMMA QuietStep ==
  ASSUME DP!Ready, IInv, accounter,
         sendWork \/ RequestTx \/ RequestedTxs \/ Tick
  PROVE  IInv'
<1>1. UNCHANGED <<history, pc, hand, addrIndex, txIndex, doneCh, fileVars>>
  BY AccounterKeeps DEF backendVars
<1>2. UNCHANGED <<addresses, transactions, lastAddresses, addrResponses, txResponses>>
  BY DEF sendWork, NextChange, DeriveAddr, RequestAddr, RequestTx, RequestedTxs, Tick,
         recvVars, channels
<1>3. addrSent' = addrSent /\ txSent' = txSent
  BY <1>1, <1>2 DEF addrSent, txSent
<1>4. Len(addrRequests') <= AddrChanSize /\ Len(txRequests') <= TxChanSize
  <2> USE PipelineAssumption, Typed DEF IInv, TypeOK
  <2>1. CASE RequestAddr
    BY <2>1 DEF RequestAddr, HasRoom
  <2>2. CASE RequestTx
    BY <2>2 DEF RequestTx, HasRoom
  <2>3. CASE NextChange \/ DeriveAddr \/ RequestedTxs \/ Tick
    BY <2>3 DEF NextChange, DeriveAddr, RequestedTxs, Tick, channels
  <2> QED BY <2>1, <2>2, <2>3 DEF sendWork
<1>5. TypeOK'
  BY <1>1, <1>2, <1>4 DEF IInv, TypeOK, fileVars
<1>6. HandInv'
  BY <1>1, <1>2 DEF IInv, HandInv, InHand, Answers, fileVars
<1>7. RecordInv'
  BY <1>1, <1>2, <1>3 DEF IInv, RecordInv, fileVars
<1>8. FileInv'
  <2>1. recvPC = "done" => recvPC' = "done"
    BY DEF sendWork, NextChange, DeriveAddr, RequestAddr, RequestTx, RequestedTxs, Tick,
           recvVars
  <2> QED BY <1>1, <2>1 DEF IInv, FileInv, fileVars
<1>9. ReplayInv'
  BY <1>1, <1>2, <1>3, FixtureKept DEF IInv, ReplayInv, fileVars
<1> QED BY <1>5, <1>6, <1>7, <1>8, <1>9 DEF IInv

\* The replay extends its range for an answer of the recorded scan, which had done
\* so before.
LEMMA ExtendRangeStep ==
  ASSUME DP!Ready, IInv, accounter, ExtendRange
  PROVE  IInv'
<1>1. UNCHANGED <<history, pc, hand, addrIndex, txIndex, doneCh, fileVars>>
  BY AccounterKeeps DEF backendVars
<1>2. UNCHANGED <<addresses, transactions, channels>>
  BY DEF ExtendRange
<1>3. addrSent' = addrSent /\ txSent' = txSent
  BY <1>1, <1>2 DEF addrSent, txSent, channels
<1>4. TypeOK' /\ HandInv'
  BY <1>1, <1>2 DEF IInv, TypeOK, HandInv, InHand, Answers, fileVars, channels
<1>5. RecordInv'
  BY <1>1, <1>2, <1>3 DEF IInv, RecordInv, fileVars
<1>6. FileInv'
  BY <1>1 DEF IInv, FileInv, fileVars, ExtendRange
<1>7. ASSUME phase = "replay" PROVE RangeInv'
  <2>1. PICK range \in [Changes -> 0 .. HardenedKeyStart] :
          /\ Fetch!Scanned(addrIndex, range)
          /\ \A c \in Changes : lastAddresses[c] <= range[c]
    BY <1>7 DEF IInv, ReplayInv, RangeInv
  <2>2. resp \in DOMAIN addresses /\ addresses[resp] # {} /\ resp \in Address
    <3>1. DP!fetchPC = "extend"
      BY DEF ExtendRange, DP!fetchPC
    <3>2. DP!FetchP!RangeReached
      BY DEF DP!Ready, DP!FetchP!ScanInv
    <3> QED BY <3>1, <3>2, DeliveryAssumption, DP!ReadyTypes, SameTerms
            DEF DP!FetchP!RangeReached
  <2>3. resp \in DOMAIN addrIndex /\ addrIndex[resp] # {}
    BY <1>7, <2>2 DEF IInv, ReplayInv, ComesFrom
  <2>4. resp[2] + Lookahead <= range[resp[1]]
    BY <2>1, <2>3 DEF Fetch!Scanned
  <2>5. ASSUME NEW c \in Changes PROVE lastAddresses'[c] <= range[c]
    <3>1. lastAddresses'[c] = lastAddresses[c]
            \/ (c = resp[1] /\ lastAddresses'[c] = resp[2] + Lookahead)
      BY <2>2, Typed DEF ExtendRange, Address
    <3> QED BY <2>1, <2>4, <3>1
  <2> QED BY <1>1, <2>1, <2>5 DEF RangeInv
<1>8. FixtureInv => FixtureInv'
  BY <1>1 DEF FixtureInv, Answers, fileVars
<1>9. ReplayInv'
  BY <1>1, <1>2, <1>3, <1>7, <1>8 DEF IInv, ReplayInv, fileVars
<1> QED BY <1>4, <1>5, <1>6, <1>9 DEF IInv

\* recvWork takes the first of the address answers that are on their way.
LEMMA AddrReceived ==
  ASSUME DP!Ready, HandInv, addrResponses # <<>>,
         addrResponses' = Tail(addrResponses), UNCHANGED <<pc, hand>>
  PROVE  /\ addrSent # <<>> /\ addrSent' = Tail(addrSent)
         /\ Head(addrSent) = <<Head(addrResponses).addr, Head(addrResponses).txHashes>>
         /\ Len(addrResponses') <= Len(addrResponses)
<1>1. addrResponses \in Seq(AddrAnswer)
  BY Typed
<1>2. Len(addrResponses') <= Len(addrResponses)
  BY <1>1, HeadTailProperties, LenProperties
<1>3. CASE pc = "forward" /\ IsAddr(hand)
  <2>1. hand \in AddrAnswer
    BY <1>3, HeldIs DEF HandInv, InHand, Holds
  <2> DEFINE X == Append(addrResponses, hand)
  <2>2. /\ X \in Seq(AddrAnswer) /\ X # <<>>
        /\ Tail(X) = Append(Tail(addrResponses), hand) /\ Head(X) = Head(addrResponses)
    BY <1>1, <2>1, TailAppend
  <2>3. addrSent = addrPairs(X) /\ addrSent' = addrPairs(Tail(X))
    BY <1>3, <2>2, SentIs, SentBecomes
  <2> HIDE DEF X
  <2> QED BY <1>2, <2>2, <2>3, PairsTail
<1>4. CASE ~(pc = "forward" /\ IsAddr(hand))
  <2>1. addrSent = addrPairs(addrResponses) /\ addrSent' = addrPairs(Tail(addrResponses))
    BY <1>4, SentIs, SentBecomes
  <2> QED BY <1>1, <1>2, <2>1, PairsTail
<1> QED BY <1>3, <1>4

\* The same for transactions.
LEMMA TxReceived ==
  ASSUME DP!Ready, HandInv, txResponses # <<>>,
         txResponses' = Tail(txResponses), UNCHANGED <<pc, hand>>
  PROVE  /\ txSent # <<>> /\ txSent' = Tail(txSent)
         /\ Head(txSent) = <<Head(txResponses).req.tx, Head(txResponses).height>>
         /\ Head(txResponses) \in TxAnswer
         /\ Len(txResponses') <= Len(txResponses)
<1>1. txResponses \in Seq(TxAnswer)
  BY Typed
<1>2. Len(txResponses') <= Len(txResponses) /\ Head(txResponses) \in TxAnswer
  BY <1>1, HeadTailProperties, LenProperties
<1>3. CASE pc = "forward" /\ ~IsAddr(hand)
  <2>1. hand \in TxAnswer
    BY <1>3, HeldIs DEF HandInv, InHand, Holds
  <2> DEFINE X == Append(txResponses, hand)
  <2>2. /\ X \in Seq(TxAnswer) /\ X # <<>>
        /\ Tail(X) = Append(Tail(txResponses), hand) /\ Head(X) = Head(txResponses)
    BY <1>1, <2>1, TailAppend
  <2>3. txSent = txPairs(X) /\ txSent' = txPairs(Tail(X))
    BY <1>3, <2>2, SentIs, SentBecomes
  <2> HIDE DEF X
  <2> QED BY <1>2, <2>2, <2>3, PairsTail
<1>4. CASE ~(pc = "forward" /\ ~IsAddr(hand))
  <2>1. txSent = txPairs(txResponses) /\ txSent' = txPairs(Tail(txResponses))
    BY <1>4, SentIs, SentBecomes
  <2> QED BY <1>1, <1>2, <2>1, PairsTail
<1> QED BY <1>3, <1>4

\* recvWork takes an address answer: its map catches up with the recorder's, or
\* agrees with the fixture's.
LEMMA RecvAddrStep ==
  ASSUME DP!Ready, IInv, accounter, RecvAddr
  PROVE  IInv'
<1> DEFINE k == Head(addrResponses).addr
           v == Head(addrResponses).txHashes
<1>1. UNCHANGED <<history, pc, hand, addrIndex, txIndex, doneCh, fileVars>>
  BY AccounterKeeps DEF backendVars
<1>2. /\ addrResponses # <<>> /\ addrResponses' = Tail(addrResponses)
      /\ UNCHANGED <<transactions, lastAddresses, addrRequests, txRequests, txResponses>>
      /\ recvPC = "select"
  BY DEF RecvAddr
<1>3. addresses' = Put(addresses, k, v)
  BY DEF RecvAddr, Put
<1> HIDE DEF k, v
<1>4. /\ addrSent # <<>> /\ addrSent' = Tail(addrSent) /\ Head(addrSent) = <<k, v>>
      /\ Len(addrResponses') <= Len(addrResponses)
      /\ txSent' = txSent
  <2>1. txSent' = txSent
    BY <1>1, <1>2 DEF txSent
  <2> QED BY <1>1, <1>2, <2>1, AddrReceived DEF IInv, k, v
<1>5. addrSent \in Seq(Address \X SUBSET Tx)
  BY SentTypes DEF IInv
<1>6. TypeOK'
  <2>1. addrResponses' \in Seq(AddrAnswer) /\ addrResponses \in Seq(AddrAnswer)
    BY <1>2, Typed, HeadTailProperties
  <2>2. Len(addrResponses') <= AddrChanSize
    <3>1. Len(addrResponses') \in Nat /\ Len(addrResponses) \in Nat
      BY <2>1, LenProperties
    <3> QED BY <1>4, <3>1, PipelineAssumption DEF IInv, TypeOK
  <2> QED BY <1>1, <1>2, <2>2 DEF IInv, TypeOK, fileVars
<1>7. HandInv'
  BY <1>1, <1>2 DEF IInv, HandInv, InHand, Answers, fileVars
<1>8. RecordInv'
  <2>1. phase = "record" => CatchesUp(addresses', addrSent', addrIndex)
    BY <1>3, <1>4, <1>5, CatchReceived DEF IInv, RecordInv
  <2> QED BY <1>1, <1>2, <1>4, <2>1 DEF IInv, RecordInv, fileVars
<1>9. FileInv'
  BY <1>1, <1>2 DEF IInv, FileInv, fileVars
<1>10. ReplayInv'
  <2>1. phase = "replay" => ComesFrom(addresses', addrSent', addrIndex)
    BY <1>3, <1>4, <1>5, ComesReceived DEF IInv, ReplayInv
  <2> QED BY <1>1, <1>2, <1>4, <2>1, FixtureKept DEF IInv, ReplayInv, fileVars
<1> QED BY <1>6, <1>7, <1>8, <1>9, <1>10 DEF IInv

\* recvWork takes a transaction.
LEMMA RecvTxStep ==
  ASSUME DP!Ready, IInv, accounter, RecvTx
  PROVE  IInv'
<1> DEFINE k == Head(txResponses).req.tx
           v == Head(txResponses).height
<1>1. UNCHANGED <<history, pc, hand, addrIndex, txIndex, doneCh, fileVars>>
  BY AccounterKeeps DEF backendVars
<1>2. /\ txResponses # <<>> /\ txResponses' = Tail(txResponses)
      /\ UNCHANGED <<addresses, lastAddresses, addrRequests, txRequests, addrResponses, recvPC>>
      /\ recvPC = "select"
  BY DEF RecvTx
<1>3. transactions' = Put(transactions, k, v)
  BY DEF RecvTx, Put
<1>4. v \in {0, 1}
  BY <1>1, <1>2, TxReceived DEF IInv, TxAnswer
<1> HIDE DEF k, v
<1>5. /\ txSent # <<>> /\ txSent' = Tail(txSent) /\ Head(txSent) = <<k, v>>
      /\ Len(txResponses') <= Len(txResponses)
      /\ addrSent' = addrSent
  <2>1. addrSent' = addrSent
    BY <1>1, <1>2 DEF addrSent
  <2> QED BY <1>1, <1>2, <2>1, TxReceived DEF IInv, k, v
<1>6. txSent \in Seq(Tx \X {0, 1})
  BY SentTypes DEF IInv
<1>7. TypeOK'
  <2>1. txResponses' \in Seq(TxAnswer) /\ txResponses \in Seq(TxAnswer)
    BY <1>2, Typed, HeadTailProperties
  <2>2. Len(txResponses') <= TxChanSize
    <3>1. Len(txResponses') \in Nat /\ Len(txResponses) \in Nat
      BY <2>1, LenProperties
    <3> QED BY <1>5, <3>1, PipelineAssumption DEF IInv, TypeOK
  <2> QED BY <1>1, <1>2, <2>2 DEF IInv, TypeOK, fileVars
<1>8. HandInv'
  <2>1. transactions' \in [DOMAIN transactions' -> {0, 1}]
    BY <1>3, <1>4 DEF IInv, HandInv, Put
  <2> QED BY <1>1, <2>1 DEF IInv, HandInv, InHand, Answers, fileVars
<1>9. RecordInv'
  <2>1. phase = "record" => CatchesUp(transactions', txSent', txIndex)
    BY <1>3, <1>5, <1>6, CatchReceived DEF IInv, RecordInv
  <2> QED BY <1>1, <1>2, <1>5, <2>1 DEF IInv, RecordInv, fileVars
<1>10. FileInv'
  BY <1>1, <1>2 DEF IInv, FileInv, fileVars
<1>11. ReplayInv'
  <2>1. phase = "replay" => ComesFrom(transactions', txSent', txIndex)
    BY <1>3, <1>5, <1>6, ComesReceived DEF IInv, ReplayInv
  <2> QED BY <1>1, <1>2, <1>5, <2>1, FixtureKept DEF IInv, ReplayInv, fileVars
<1> QED BY <1>7, <1>8, <1>9, <1>10, <1>11 DEF IInv

\* Every step of the accounter is one of Delivery's and keeps the invariant.
LEMMA AccounterStep ==
  ASSUME DP!Ready, IInv, accounter
  PROVE  IInv' /\ DP!Next
BY AccounterKeeps, QuietStep, ExtendRangeStep, RecvAddrStep, RecvTxStep
DEF accounter, recvWork

-----------------------------------------------------------------------------
(* Steps of either backend.                                                *)

\* What is in a channel when the request at some position was taken.
LEMMA RemovedIn ==
  ASSUME NEW S, NEW s \in Seq(S), NEW i \in 1 .. Len(s)
  PROVE  /\ RemoveAt(s, i) \in Seq(S) /\ s[i] \in S
         /\ DP!InChannel(s) = DP!InChannel(RemoveAt(s, i)) \cup {s[i]}
         /\ DP!Distinct(s) => /\ DP!Distinct(RemoveAt(s, i))
                              /\ s[i] \notin DP!InChannel(RemoveAt(s, i))
<1> DEFINE r == RemoveAt(s, i)
           at == [j \in 1 .. Len(s) - 1 |-> IF j < i THEN j ELSE j + 1]
<1>1. /\ r \in Seq(S) /\ Len(s) \in Nat /\ DOMAIN s = 1 .. Len(s) /\ s[i] \in S
      /\ DOMAIN r = 1 .. Len(s) - 1
      /\ \A j \in 1 .. Len(s) - 1 : r[j] = IF j < i THEN s[j] ELSE s[j + 1]
  BY Removed, LenProperties, ElementOfSeq
<1>2. \A j \in DOMAIN r : at[j] \in DOMAIN s /\ at[j] # i /\ r[j] = s[at[j]]
  BY <1>1
<1>3. \A j, l \in DOMAIN r : j # l => at[j] # at[l]
  BY <1>1
<1>4. ASSUME NEW l \in DOMAIN s, l # i PROVE \E j \in DOMAIN r : r[j] = s[l]
  <2>1. CASE l < i
    BY <1>1, <2>1
  <2>2. CASE l > i
    <3> DEFINE j == l - 1
    <3>1. j \in 1 .. Len(s) - 1 /\ ~(j < i) /\ j + 1 = l
      BY <1>1, <2>2
    <3> HIDE DEF j
    <3> QED BY <1>1, <3>1
  <2>3. l < i \/ l > i
    BY <1>1, <1>4
  <2> QED BY <2>1, <2>2, <2>3
<1> HIDE DEF r, at
<1>5. DP!InChannel(s) = DP!InChannel(r) \cup {s[i]}
  BY <1>1, <1>2, <1>4 DEF DP!InChannel
<1>6. ASSUME DP!Distinct(s) PROVE DP!Distinct(r) /\ s[i] \notin DP!InChannel(r)
  BY <1>1, <1>2, <1>3, <1>6 DEF DP!InChannel, DP!Distinct
<1> QED BY <1>1, <1>5, <1>6 DEF r

\* What the one goroutine has in its hands.
LEMMA InHands ==
  /\ Nobody = [g \in DOMAIN Nobody |-> Nobody[g]] /\ DOMAIN Nobody = {}
  /\ DP!InChannel(Nobody) = {} /\ DP!Distinct(Nobody)
  /\ \A x : /\ DP!InChannel([g \in {0} |-> x]) = {x} /\ DP!Distinct([g \in {0} |-> x])
            /\ DOMAIN [g \in {0} |-> x] = {0} /\ [g \in {0} |-> x][0] = x
BY DEF Nobody, DP!InChannel, DP!Distinct

\* The request at some position of the channel is answered.
LEMMA TransitPick ==
  ASSUME NEW S, NEW reqs, NEW done, DP!Transit(S, reqs, Nobody, done),
         NEW i \in DOMAIN reqs
  PROVE  /\ DP!Transit(S, RemoveAt(reqs, i), [g \in {0} |-> reqs[i]], done)
         /\ DP!Under(RemoveAt(reqs, i), [g \in {0} |-> reqs[i]], done)
              = DP!Under(reqs, Nobody, done)
<1> DEFINE x == reqs[i]
           r == RemoveAt(reqs, i)
           h == [g \in {0} |-> x]
<1>1. reqs \in Seq(S) /\ i \in 1 .. Len(reqs)
  BY LenProperties DEF DP!Transit
<1>2. /\ x \in S /\ r \in Seq(S)
      /\ DP!InChannel(reqs) = DP!InChannel(r) \cup {x}
      /\ DP!Distinct(r) /\ x \notin DP!InChannel(r)
  BY <1>1, RemovedIn DEF DP!Transit
<1>3. /\ DP!InChannel(h) = {x} /\ DP!Distinct(h) /\ h \in [DOMAIN h -> S]
  BY <1>2, InHands
<1>4. DP!InChannel(Nobody) = {}
  BY InHands
<1> HIDE DEF x, r, h
<1>5. DP!Transit(S, r, h, done)
  BY <1>2, <1>3 DEF DP!Transit
<1>6. DP!Under(r, h, done) = DP!Under(reqs, Nobody, done)
  BY <1>2, <1>3, <1>4 DEF DP!Under
<1> QED BY <1>5, <1>6 DEF x, r, h

\* An answer is taken back from the channel.
LEMMA TransitBack ==
  ASSUME NEW S, NEW reqs, NEW done, DP!Transit(S, reqs, Nobody, done), done # <<>>
  PROVE  /\ DP!Transit(S, reqs, [g \in {0} |-> Head(done)], Tail(done))
         /\ DP!Under(reqs, [g \in {0} |-> Head(done)], Tail(done))
              = DP!Under(reqs, Nobody, done)
<1> DEFINE x == Head(done)
           d == Tail(done)
           h == [g \in {0} |-> x]
<1>1. done \in Seq(S) /\ DP!Distinct(done)
  BY DEF DP!Transit
<1>2. /\ x \in S /\ d \in Seq(S)
      /\ DP!InChannel(done) = DP!InChannel(d) \cup {x}
      /\ DP!Distinct(d) /\ x \notin DP!InChannel(d)
  BY <1>1, DeliveryAssumption, DP!InTail
<1>3. /\ DP!InChannel(h) = {x} /\ DP!Distinct(h) /\ h \in [DOMAIN h -> S]
  BY <1>2, InHands
<1>4. DP!InChannel(Nobody) = {}
  BY InHands
<1> HIDE DEF x, d, h
<1>5. DP!Transit(S, reqs, h, d)
  BY <1>2, <1>3 DEF DP!Transit
<1>6. DP!Under(reqs, h, d) = DP!Under(reqs, Nobody, done)
  BY <1>2, <1>3, <1>4 DEF DP!Under
<1> QED BY <1>5, <1>6 DEF x, d, h

\* A response is forwarded: what is on its way stays so.
LEMMA SendStep ==
  ASSUME DP!Ready, IInv, Send("select")
  PROVE  IInv' /\ DP!Next
<1>1. /\ pc = "forward" /\ pc' = "select" /\ Holds(pc) /\ ~Holds(pc')
      /\ UNCHANGED <<history, sendVars, recvVars, addrRequests, txRequests,
                     addrIndex, txIndex, doneCh, fileVars>>
  BY DEF Send, Hold, Holds
<1>2. AddrHeld' = Nobody /\ TxHeld' = Nobody
  BY <1>1, HeldIs DEF AddrHeld, TxHeld
<1>3. addrResponses \in Seq(AddrAnswer) /\ txResponses \in Seq(TxAnswer)
  BY Typed
<1>4. HandInv'
  BY <1>1 DEF IInv, HandInv, InHand, Answers, recvVars
<1>5. CASE IsAddr(hand)
  <2>1. hand \in AddrAnswer /\ hand.txHashes \in Answers(hand.addr)
    BY <1>1, <1>5, HeldIs DEF IInv, HandInv, InHand
  <2>2. /\ HasRoom(addrResponses, AddrChanSize)
        /\ addrResponses' = Append(addrResponses, hand) /\ txResponses' = txResponses
    BY <1>5 DEF Send
  <2>3. AddrHeld = [g \in {0} |-> hand.addr] /\ TxHeld = Nobody
    BY <1>1, <2>1, HeldIs DEF AddrHeld, TxHeld
  <2>4. 0 \in DOMAIN AddrHeld /\ AddrHeld[0] = hand.addr /\ DP!leaves(AddrHeld, 0) = Nobody
    BY <2>3 DEF DP!leaves, Nobody
  <2>5. hand = [addr |-> AddrHeld[0], txHashes |-> hand.txHashes]
    BY <2>1, <2>4 DEF AddrAnswer
  <2>6. \E h \in DP!Answers(AddrHeld[0]) :
          addrResponses' = Append(addrResponses, [addr |-> AddrHeld[0], txHashes |-> h])
    BY <2>1, <2>2, <2>4, <2>5, SameTerms
  <2>7. DP!ReplyAddr(0)
    BY <1>1, <1>2, <2>2, <2>3, <2>4, <2>6, SameTerms
    DEF DP!ReplyAddr, DP!sendVars, sendVars, DP!recvVars, recvVars
  <2>8. addrSent' = addrSent /\ txSent' = txSent
    BY <1>1, <1>5, <2>2, SentIs, SentBecomes
  <2>9. Len(addrResponses') <= AddrChanSize
    BY <1>3, <2>1, <2>2, AppendProperties, LenProperties, PipelineAssumption DEF HasRoom
  <2>10. TypeOK'
    BY <1>1, <2>2, <2>9 DEF IInv, TypeOK, fileVars
  <2> QED BY <1>1, <1>4, <2>7, <2>8, <2>10, NothingSent
          DEF IInv, recvVars, DP!Next, DP!processRequests
<1>6. CASE ~IsAddr(hand)
  <2>1. hand \in TxAnswer
    BY <1>1, <1>6, HeldIs DEF IInv, HandInv, InHand
  <2>2. /\ HasRoom(txResponses, TxChanSize)
        /\ txResponses' = Append(txResponses, hand) /\ addrResponses' = addrResponses
    BY <1>6 DEF Send
  <2>3. TxHeld = [g \in {0} |-> hand.req] /\ AddrHeld = Nobody
    BY <1>1, <2>1, HeldIs DEF AddrHeld, TxHeld
  <2>4. 0 \in DOMAIN TxHeld /\ TxHeld[0] = hand.req /\ DP!leaves(TxHeld, 0) = Nobody
    BY <2>3 DEF DP!leaves, Nobody
  <2>5. hand = [req |-> TxHeld[0], height |-> hand.height] /\ hand.height \in {0, 1}
    BY <2>1, <2>4 DEF TxAnswer
  <2>6. \E n \in {0, 1} :
          txResponses' = Append(txResponses, [req |-> TxHeld[0], height |-> n])
    BY <2>2, <2>5
  <2>7. DP!ReplyTx(0)
    BY <1>1, <1>2, <2>2, <2>3, <2>4, <2>6, SameTerms
    DEF DP!ReplyTx, DP!sendVars, sendVars, DP!recvVars, recvVars
  <2>8. addrSent' = addrSent /\ txSent' = txSent
    BY <1>1, <1>6, <2>2, SentIs, SentBecomes
  <2>9. Len(txResponses') <= TxChanSize
    BY <1>3, <2>1, <2>2, AppendProperties, LenProperties, PipelineAssumption DEF HasRoom
  <2>10. TypeOK'
    BY <1>1, <2>2, <2>9 DEF IInv, TypeOK, fileVars
  <2> QED BY <1>1, <1>4, <2>7, <2>8, <2>10, NothingSent
          DEF IInv, recvVars, DP!Next, DP!processRequests
<1> QED BY <1>5, <1>6

\* A step in which requests only change places is nothing to Accounter.
LEMMA HandsMoved ==
  ASSUME DP!Ready, UNCHANGED <<history, sendVars, recvVars>>,
         DP!TransitInv', DP!ResponsesInv',
         DP!addrUnder' = DP!addrUnder, DP!txUnder' = DP!txUnder
  PROVE  DP!Ready' /\ UNCHANGED DP!FetchP!vars
<1>1. UNCHANGED <<history, DP!sendVars, DP!recvVars>>
  BY DEF sendVars, recvVars, DP!sendVars, DP!recvVars
<1>2. DP!IInv' /\ UNCHANGED DP!FetchP!vars
  BY <1>1, DeliveryAssumption, DP!HandsMove
<1>3. DP!Ready'
  BY <1>2, DeliveryAssumption, DP!ReadyKept
<1> QED BY <1>2, <1>3

\* Nothing changes hands.
LEMMA NothingMoved ==
  ASSUME DP!Ready, UNCHANGED pipelineVars, AddrHeld' = AddrHeld, TxHeld' = TxHeld
  PROVE  UNCHANGED DP!vars
BY DEF pipelineVars, channels, sendVars, recvVars,
       DP!vars, DP!pipelineVars, DP!channels, DP!sendVars, DP!recvVars

-----------------------------------------------------------------------------
(* Steps of the recorder.                                                  *)

\* The wrapped backend answers an address request, from anywhere in the channel.
LEMMA RecordAddrStep ==
  ASSUME DP!Ready, IInv, RecordAddr
  PROVE  IInv' /\ DP!Ready' /\ UNCHANGED DP!FetchP!vars
<1>0. addrRequests \in Seq(Address)
  BY Typed
<1>1. PICK i \in DOMAIN addrRequests : \E h \in Answers(addrRequests[i]) :
        /\ addrRequests' = RemoveAt(addrRequests, i)
        /\ hand' = [addr |-> addrRequests[i], txHashes |-> h]
  BY DEF RecordAddr, Hold
<1> DEFINE x == addrRequests[i]
<1>2. PICK h \in Answers(x) : hand' = [addr |-> x, txHashes |-> h]
  BY <1>1
<1>3. /\ phase = "record" /\ pc = "select" /\ pc' = "store"
      /\ addrRequests' = RemoveAt(addrRequests, i)
      /\ UNCHANGED <<history, sendVars, recvVars, addrResponses, txRequests, txResponses,
                     addrIndex, txIndex, doneCh, fileVars>>
  BY <1>1 DEF RecordAddr, Hold, After
<1>4. /\ RemoveAt(addrRequests, i) \in Seq(Address) /\ x \in Address
      /\ Len(RemoveAt(addrRequests, i)) = Len(addrRequests) - 1 /\ Len(addrRequests) \in Nat
  BY <1>0, Removed, LenProperties, ElementOfSeq
<1>5. hand' \in AddrAnswer /\ hand'.addr = x /\ hand'.txHashes \in Answers(hand'.addr)
  <2>1. h \subseteq Tx
    BY <1>2, <1>4, Typed DEF Answers
  <2> QED BY <1>2, <1>4, <2>1 DEF AddrAnswer
<1> HIDE DEF x
<1>6. /\ AddrHeld = Nobody /\ TxHeld = Nobody
      /\ AddrHeld' = [g \in {0} |-> x] /\ TxHeld' = Nobody
  BY <1>3, <1>5, HeldIs DEF AddrHeld, TxHeld, Holds
<1>7. /\ DP!addrAnswered' = DP!addrAnswered /\ DP!txAnswered' = DP!txAnswered
      /\ txRequests' = txRequests
  BY <1>3 DEF DP!addrAnswered, DP!txAnswered
<1>8. /\ DP!Transit(Address, addrRequests', AddrHeld', DP!addrAnswered')
      /\ DP!Under(addrRequests', AddrHeld', DP!addrAnswered') = DP!addrUnder
  BY <1>3, <1>6, <1>7, TransitPick, SameTerms
  DEF DP!Ready, DP!IInv, DP!TransitInv, DP!addrUnder, x
<1>9. DP!TransitInv' /\ DP!addrUnder' = DP!addrUnder /\ DP!txUnder' = DP!txUnder
  BY <1>6, <1>7, <1>8, SameTerms
  DEF DP!Ready, DP!IInv, DP!TransitInv, DP!addrUnder, DP!txUnder, DP!Address, DP!Changes,
      Address, Changes
<1>10. DP!ResponsesInv'
  BY <1>3 DEF DP!Ready, DP!IInv, DP!ResponsesInv, DP!Answers
<1>11. DP!Ready' /\ UNCHANGED DP!FetchP!vars
  BY <1>3, <1>9, <1>10, HandsMoved
<1>12. TypeOK'
  <2>1. Len(addrRequests') <= AddrChanSize
    BY <1>3, <1>4, PipelineAssumption DEF IInv, TypeOK
  <2> QED BY <1>3, <2>1 DEF IInv, TypeOK, fileVars
<1>13. HandInv'
  BY <1>3, <1>5 DEF IInv, HandInv, Answers, recvVars, fileVars
<1>14. addrSent' = addrSent /\ txSent' = txSent
  BY <1>3, SentIs, SentBecomes
<1> QED BY <1>3, <1>11, <1>12, <1>13, <1>14, NothingSent DEF IInv, recvVars

\* It answers a transaction request.
LEMMA RecordTxStep ==
  ASSUME DP!Ready, IInv, RecordTx
  PROVE  IInv' /\ DP!Ready' /\ UNCHANGED DP!FetchP!vars
<1>0. txRequests \in Seq(TxReq)
  BY Typed
<1>1. PICK i \in DOMAIN txRequests : \E n \in HeightsOf(txRequests[i].tx) :
        /\ txRequests' = RemoveAt(txRequests, i)
        /\ hand' = [req |-> txRequests[i], height |-> n]
  BY DEF RecordTx, Hold
<1> DEFINE x == txRequests[i]
<1>2. PICK n \in {0, 1} : hand' = [req |-> x, height |-> n]
  BY <1>1 DEF HeightsOf
<1>3. /\ phase = "record" /\ pc = "select" /\ pc' = "store"
      /\ txRequests' = RemoveAt(txRequests, i)
      /\ UNCHANGED <<history, sendVars, recvVars, addrResponses, addrRequests, txResponses,
                     addrIndex, txIndex, doneCh, fileVars>>
  BY <1>1 DEF RecordTx, Hold, After
<1>4. /\ RemoveAt(txRequests, i) \in Seq(TxReq) /\ x \in TxReq
      /\ Len(RemoveAt(txRequests, i)) = Len(txRequests) - 1 /\ Len(txRequests) \in Nat
  BY <1>0, Removed, LenProperties, ElementOfSeq
<1>5. hand' \in TxAnswer /\ hand'.req = x
  BY <1>2, <1>4 DEF TxAnswer, TxReq
<1> HIDE DEF x
<1>6. /\ AddrHeld = Nobody /\ TxHeld = Nobody
      /\ TxHeld' = [g \in {0} |-> x] /\ AddrHeld' = Nobody
  BY <1>3, <1>5, HeldIs DEF AddrHeld, TxHeld, Holds
<1>7. /\ DP!addrAnswered' = DP!addrAnswered /\ DP!txAnswered' = DP!txAnswered
      /\ addrRequests' = addrRequests
  BY <1>3 DEF DP!addrAnswered, DP!txAnswered
<1>8. /\ DP!Transit(TxReq, txRequests', TxHeld', DP!txAnswered')
      /\ DP!Under(txRequests', TxHeld', DP!txAnswered') = DP!txUnder
  BY <1>3, <1>6, <1>7, TransitPick, SameTerms
  DEF DP!Ready, DP!IInv, DP!TransitInv, DP!txUnder, x
<1>9. DP!TransitInv' /\ DP!addrUnder' = DP!addrUnder /\ DP!txUnder' = DP!txUnder
  BY <1>6, <1>7, <1>8, SameTerms
  DEF DP!Ready, DP!IInv, DP!TransitInv, DP!addrUnder, DP!txUnder
<1>10. DP!ResponsesInv'
  BY <1>3 DEF DP!Ready, DP!IInv, DP!ResponsesInv, DP!Answers
<1>11. DP!Ready' /\ UNCHANGED DP!FetchP!vars
  BY <1>3, <1>9, <1>10, HandsMoved
<1>12. TypeOK'
  <2>1. Len(txRequests') <= TxChanSize
    BY <1>3, <1>4, PipelineAssumption DEF IInv, TypeOK
  <2> QED BY <1>3, <2>1 DEF IInv, TypeOK, fileVars
<1>13. HandInv'
  BY <1>3, <1>5 DEF IInv, HandInv, Answers, recvVars, fileVars
<1>14. addrSent' = addrSent /\ txSent' = txSent
  BY <1>3, SentIs, SentBecomes
<1> QED BY <1>3, <1>11, <1>12, <1>13, <1>14, NothingSent DEF IInv, recvVars

\* When recvWork has returned nothing is on its way or in processRequests' hands.
LEMMA NobodyHolds ==
  ASSUME DP!Ready, IInv, recvPC = "done"
  PROVE  ~InHand /\ addrSent = <<>> /\ txSent = <<>>
<1>1. DP!addrUnder = {} /\ DP!txUnder = {}
  BY DeliveryAssumption, DP!DoneWhole
<1>2. ~InHand
  <2>1. SUFFICES ASSUME InHand PROVE FALSE
    OBVIOUS
  <2>2. AddrHeld = [g \in {0} |-> hand.addr] \/ TxHeld = [g \in {0} |-> hand.req]
    BY <2>1, HeldIs DEF IInv, HandInv, InHand, Holds, AddrHeld, TxHeld
  <2>3. DP!InChannel(AddrHeld) = {} /\ DP!InChannel(TxHeld) = {}
    BY <1>1 DEF DP!addrUnder, DP!txUnder, DP!Under
  <2> QED BY <2>2, <2>3, InHands
<1>3. addrResponses = <<>> /\ txResponses = <<>>
  <2>1. DP!InChannel(DP!addrAnswered) = {} /\ DP!InChannel(DP!txAnswered) = {}
    BY <1>1 DEF DP!addrUnder, DP!txUnder, DP!Under
  <2>2. DOMAIN addrResponses = {} /\ DOMAIN txResponses = {}
    BY <2>1 DEF DP!InChannel, DP!addrAnswered, DP!txAnswered
  <2>3. addrResponses \in Seq(AddrAnswer) /\ txResponses \in Seq(TxAnswer)
    BY Typed
  <2>4. ASSUME NEW R, NEW s \in Seq(R), DOMAIN s = {} PROVE s = <<>>
    BY <2>4
  <2> QED BY <2>2, <2>3, <2>4
<1>4. addrPairs(<<>>) = <<>> /\ txPairs(<<>>) = <<>>
  BY DEF addrPairs, txPairs
<1> QED BY <1>2, <1>3, <1>4, SentIs DEF InHand

\* The response is stored, and with it in the index it is on its way to the
\* accounter: which has not returned, so that nothing is being written.
LEMMA StoreStep ==
  ASSUME DP!Ready, IInv, Store
  PROVE  IInv' /\ UNCHANGED DP!vars
<1>1. /\ phase = "record" /\ pc = "store" /\ pc' = "forward" /\ hand' = hand
      /\ UNCHANGED <<pipelineVars, doneCh, fileVars>>
      /\ Holds(pc) /\ Holds(pc')
  BY DEF Store, After, Holds
<1>2. UNCHANGED <<history, addresses, transactions, recvPC, lastAddresses,
                  addrRequests, addrResponses, txRequests, txResponses>>
  BY <1>1 DEF pipelineVars, recvVars, channels
<1>3. recvPC # "done" /\ writePC = "none"
  <2>1. recvPC # "done"
    BY <1>1, NobodyHolds DEF InHand
  <2> QED BY <1>1, <2>1 DEF IInv, FileInv
<1>4. AddrHeld' = AddrHeld /\ TxHeld' = TxHeld
  BY <1>1 DEF AddrHeld, TxHeld, AddrHeldIn, TxHeldIn
<1>5. UNCHANGED DP!vars
  BY <1>1, <1>4, NothingMoved
<1>6. addrResponses \in Seq(AddrAnswer) /\ txResponses \in Seq(TxAnswer)
  BY Typed
<1>7. FileInv' /\ ReplayInv'
  BY <1>1, <1>3 DEF IInv, FileInv, ReplayInv, fileVars
<1>8. CASE IsAddr(hand)
  <2> DEFINE k == hand.addr
             v == hand.txHashes
  <2>1. hand \in AddrAnswer /\ v \in Answers(k) /\ k \in Address /\ v \in SUBSET Tx
    <3>1. hand \in AddrAnswer /\ v \in Answers(k)
      BY <1>1, <1>8, HeldIs DEF IInv, HandInv, InHand
    <3> QED BY <3>1 DEF AddrAnswer
  <2>2. addrIndex' = Put(addrIndex, k, v) /\ txIndex' = txIndex
    BY <1>8 DEF Store
  <2>3. addrSent' = Append(addrSent, <<k, v>>) /\ txSent' = txSent
    BY <1>1, <1>2, <1>6, <1>8, <2>1, SentIs, SentBecomes, PairsAppend
  <2>4. addrSent \in Seq(Address \X SUBSET Tx) /\ <<k, v>> \in Address \X SUBSET Tx
    BY <2>1, SentTypes DEF IInv
  <2> HIDE DEF k, v
  <2>5. CatchesUp(addresses, addrSent', addrIndex')
    BY <1>1, <2>2, <2>3, <2>4, CatchStored DEF IInv, RecordInv
  <2>6. RecordInv'
    BY <1>1, <1>2, <2>2, <2>3, <2>5 DEF IInv, RecordInv, fileVars
  <2>7. /\ DOMAIN addrIndex' \subseteq Address
        /\ addrIndex' \in [DOMAIN addrIndex' -> SUBSET Tx]
    BY <2>1, <2>2 DEF IInv, TypeOK, HandInv, Put
  <2>8. TypeOK'
    BY <1>1, <1>2, <2>2, <2>7 DEF IInv, TypeOK, fileVars
  <2>9. HandInv'
    BY <1>1, <1>2, <2>2, <2>7 DEF IInv, HandInv, InHand, Answers, fileVars
  <2> QED BY <1>5, <1>7, <2>6, <2>8, <2>9 DEF IInv
<1>9. CASE ~IsAddr(hand)
  <2> DEFINE k == hand.req.tx
             v == hand.height
  <2>1. hand \in TxAnswer /\ k \in Tx /\ v \in {0, 1}
    <3>1. hand \in TxAnswer
      BY <1>1, <1>9, HeldIs DEF IInv, HandInv, InHand
    <3> QED BY <3>1 DEF TxAnswer
  <2>2. txIndex' = Put(txIndex, k, v) /\ addrIndex' = addrIndex
    BY <1>9 DEF Store
  <2>3. txSent' = Append(txSent, <<k, v>>) /\ addrSent' = addrSent
    BY <1>1, <1>2, <1>6, <1>9, <2>1, SentIs, SentBecomes, PairsAppend
  <2>4. txSent \in Seq(Tx \X {0, 1}) /\ <<k, v>> \in Tx \X {0, 1}
    BY <2>1, SentTypes DEF IInv
  <2> HIDE DEF k, v
  <2>5. CatchesUp(transactions, txSent', txIndex')
    BY <1>1, <2>2, <2>3, <2>4, CatchStored DEF IInv, RecordInv
  <2>6. RecordInv'
    BY <1>1, <1>2, <2>2, <2>3, <2>5 DEF IInv, RecordInv, fileVars
  <2>7. /\ DOMAIN txIndex' \subseteq Tx
        /\ txIndex' \in [DOMAIN txIndex' -> {0, 1}]
    BY <2>1, <2>2 DEF IInv, TypeOK, HandInv, Put
  <2>8. TypeOK'
    BY <1>1, <1>2, <2>2, <2>7 DEF IInv, TypeOK, fileVars
  <2>9. HandInv'
    BY <1>1, <1>2, <1>9, <2>2, <2>7 DEF IInv, HandInv, InHand, Answers, fileVars
  <2> QED BY <1>5, <1>7, <2>6, <2>8, <2>9 DEF IInv
<1> QED BY <1>8, <1>9

-----------------------------------------------------------------------------
(* The ends of the runs, and the file.                                     *)

\* processRequests returns.
LEMMA DoneStep ==
  ASSUME DP!Ready, IInv, Done
  PROVE  IInv' /\ UNCHANGED DP!vars
<1>1. /\ pc = "select" /\ pc' = "returned" /\ ~Holds(pc) /\ ~Holds(pc')
      /\ UNCHANGED <<pipelineVars, hand, addrIndex, txIndex, doneCh, fileVars>>
  BY DEF Done, Holds
<1>2. AddrHeld' = AddrHeld /\ TxHeld' = TxHeld
  BY <1>1, HeldIs DEF AddrHeld, TxHeld
<1>3. UNCHANGED DP!vars
  BY <1>1, <1>2, NothingMoved
<1>4. UNCHANGED <<history, addresses, transactions, recvPC, lastAddresses,
                  addrRequests, addrResponses, txRequests, txResponses>>
  BY <1>1 DEF pipelineVars, recvVars, channels
<1>5. addrSent' = addrSent /\ txSent' = txSent
  BY <1>1, <1>4, SentIs, SentBecomes
<1>6. TypeOK' /\ HandInv'
  BY <1>1, <1>4 DEF IInv, TypeOK, HandInv, InHand, Answers, fileVars
<1> QED BY <1>1, <1>3, <1>4, <1>5, <1>6, NothingSent DEF IInv

\* Finish, the steps of writeToFile, and a fixture that refuses the file leave the
\* accounter, its channels and both indexes alone.
LEMMA FileStep ==
  ASSUME DP!Ready, IInv, Finish \/ writeToFile \/ Refuse
  PROVE  IInv' /\ UNCHANGED DP!vars
<1>1. UNCHANGED <<pipelineVars, pc, hand, addrIndex, txIndex, recorded>>
  BY DEF Finish, writeToFile, WriteAddrs, WriteTxs, Save, WriteFails, Refuse, backendVars
<1>2. AddrHeld' = AddrHeld /\ TxHeld' = TxHeld
  BY <1>1 DEF AddrHeld, TxHeld
<1>3. UNCHANGED DP!vars
  BY <1>1, <1>2, NothingMoved
<1>4. UNCHANGED <<history, addresses, transactions, recvPC, lastAddresses,
                  addrRequests, addrResponses, txRequests, txResponses>>
  BY <1>1 DEF pipelineVars, recvVars, channels
<1>5. addrSent' = addrSent /\ txSent' = txSent
  BY <1>1, <1>4 DEF addrSent, txSent
<1>6. phase' = phase \/ (phase = "record" /\ phase' = "refused" /\ Refuse)
  BY DEF Finish, writeToFile, WriteAddrs, WriteTxs, Save, WriteFails, Refuse
<1>7. TypeOK'
  BY <1>1, <1>4 DEF IInv, TypeOK, Finish, writeToFile, WriteAddrs, WriteTxs, Save,
                    WriteFails, Refuse, backendVars
<1>8. HandInv'
  <2>1. Refuse => pc # "store"
    BY NobodyHolds DEF Refuse, IInv, FileInv, InHand
  <2>2. pc = "store" => phase' = "record"
    BY <1>6, <2>1 DEF IInv, HandInv
  <2> QED BY <1>1, <1>4, <2>2 DEF IInv, HandInv, InHand, Answers
<1>9. RecordInv'
  BY <1>1, <1>4, <1>5, <1>6 DEF IInv, RecordInv
<1>10. ReplayInv'
  BY <1>1, <1>4, <1>5, <1>6, FixtureKept DEF IInv, ReplayInv
<1>11. FileInv'
  <2>1. CASE Finish
    BY <1>4, <2>1 DEF Finish, IInv, FileInv
  <2>2. CASE WriteAddrs
    <3>1. addrIndex \in [DOMAIN addrIndex -> SUBSET Tx]
      BY DEF IInv, HandInv
    <3> DEFINE E == {[address |-> a, txHashes |-> addrIndex[a]] : a \in DOMAIN addrIndex}
    <3>2. LoadAddrs(E) = addrIndex
      BY <3>1, LoadedAddrs
    <3> HIDE DEF E
    <3>3. phase = "record" => /\ DOMAIN file' = {"addresses", "transactions"}
                              /\ file'.addresses = E
      BY <2>2 DEF WriteAddrs, IInv, FileInv, E
    <3> QED BY <1>1, <1>4, <2>2, <3>2, <3>3 DEF WriteAddrs, IInv, FileInv
  <2>3. CASE WriteTxs
    <3>1. txIndex \in [DOMAIN txIndex -> {0, 1}]
      BY DEF IInv, HandInv
    <3> DEFINE E == {[hash |-> t, height |-> txIndex[t]] : t \in DOMAIN txIndex}
    <3>2. LoadTxs(E) = txIndex
      BY <3>1, LoadedTxs
    <3> HIDE DEF E
    <3>3. phase = "record" => /\ DOMAIN file' = {"addresses", "transactions"}
                              /\ file'.addresses = file.addresses
                              /\ file'.transactions = E
      BY <2>3 DEF WriteTxs, IInv, FileInv, E
    <3> QED BY <1>1, <1>4, <2>3, <3>2, <3>3 DEF WriteTxs, IInv, FileInv
  <2>4. CASE Save \/ WriteFails
    BY <1>1, <1>4, <2>4 DEF Save, WriteFails, IInv, FileInv, backendVars
  <2>5. CASE Refuse
    BY <2>5 DEF Refuse, FileInv
  <2> QED BY <2>1, <2>2, <2>3, <2>4, <2>5 DEF writeToFile
<1> QED BY <1>3, <1>7, <1>8, <1>9, <1>10, <1>11 DEF IInv

-----------------------------------------------------------------------------
(* Steps of the fixture.                                                   *)

\* The fixture answers an address request: the address is within the range of the
\* recorded scan, hence in the file.
LEMMA ProcessAddrStep ==
  ASSUME DP!Ready, IInv, processAddrRequest
  PROVE  IInv' /\ DP!Next
<1> DEFINE a == Head(addrRequests)
           v == IF a \in DOMAIN addrIndex THEN addrIndex[a] ELSE {}
<1>1. /\ phase = "replay" /\ pc = "select" /\ pc' = "forward"
      /\ addrRequests # <<>> /\ addrRequests' = Tail(addrRequests)
      /\ hand' = [addr |-> a, txHashes |-> v]
      /\ UNCHANGED <<history, sendVars, recvVars, addrResponses, txRequests, txResponses,
                     addrIndex, txIndex, doneCh, fileVars>>
      /\ ~Holds(pc) /\ Holds(pc')
  BY DEF processAddrRequest, Hold, Holds
<1>2. /\ addrRequests \in Seq(Address) /\ addrRequests' \in Seq(Address)
      /\ a \in Address /\ Len(addrRequests') = Len(addrRequests) - 1
      /\ Len(addrRequests) \in Nat
  BY <1>1, Typed, HeadTailProperties, LenProperties
<1>3. a \in DOMAIN addrIndex /\ addrIndex[a] \in Answers(a)
  <2>1. a \in DP!addrUnder
    <3>1. DP!InChannel(addrRequests) = DP!InChannel(Tail(addrRequests)) \cup {a}
      BY <1>1, <1>2, DeliveryAssumption, DP!InTail
    <3> QED BY <3>1 DEF DP!addrUnder, DP!Under
  <2>2. a[2] < lastAddresses[a[1]]
    BY <2>1, DeliveryAssumption, DP!RequestsKnown
  <2>3. PICK range \in [Changes -> 0 .. HardenedKeyStart] :
          /\ Fetch!Scanned(addrIndex, range)
          /\ \A c \in Changes : lastAddresses[c] <= range[c]
    BY <1>1 DEF IInv, ReplayInv, RangeInv
  <2>4. a[1] \in Changes /\ a[2] \in Nat
    BY <1>2 DEF Address
  <2>5. lastAddresses[a[1]] \in Nat /\ range[a[1]] \in Nat
        /\ lastAddresses[a[1]] <= range[a[1]]
    BY <2>3, <2>4, Typed, PipelineAssumption
  <2>6. a[2] < range[a[1]]
    BY <2>2, <2>4, <2>5
  <2>7. Fetch!Address = Address
    BY DEF Fetch!Address, Fetch!Changes, Address, Changes
  <2>8. a \in DOMAIN addrIndex
    BY <1>2, <2>3, <2>6, <2>7 DEF Fetch!Scanned
  <2> QED BY <1>1, <2>8 DEF IInv, ReplayInv, FixtureInv
<1>4. v = addrIndex[a] /\ v \in Answers(a) /\ v \in SUBSET Tx
  BY <1>2, <1>3, Typed DEF Answers
<1> HIDE DEF a, v
<1>5. hand' \in AddrAnswer /\ hand'.addr = a /\ hand'.txHashes = v /\ IsAddr(hand')
  <2>1. hand' \in AddrAnswer
    BY <1>1, <1>2, <1>4 DEF AddrAnswer
  <2> QED BY <1>1, <2>1, HeldIs
<1>6. /\ AddrHeld = Nobody /\ TxHeld = Nobody
      /\ AddrHeld' = [g \in {0} |-> a] /\ TxHeld' = Nobody
  BY <1>1, <1>5, HeldIs DEF AddrHeld, TxHeld
<1>7. DP!TakeAddr(0)
  <2>1. 0 \notin DOMAIN AddrHeld /\ AddrHeld' = DP!takes(AddrHeld, 0, a)
    BY <1>6 DEF DP!takes, Nobody
  <2> QED BY <1>1, <1>6, <2>1
          DEF DP!TakeAddr, DP!sendVars, sendVars, DP!recvVars, recvVars, a
<1>8. addrSent' = Append(addrSent, <<a, v>>) /\ txSent' = txSent
  <2>1. addrResponses \in Seq(AddrAnswer)
    BY Typed
  <2>2. addrPairs(Append(addrResponses, hand')) = Append(addrPairs(addrResponses), <<a, v>>)
    BY <1>5, <2>1, PairsAppend
  <2> QED BY <1>1, <1>5, <2>2, SentIs, SentBecomes
<1>9. ComesFrom(addresses, addrSent', addrIndex)
  <2>1. addrSent \in Seq(Address \X SUBSET Tx) /\ <<a, v>> \in Address \X SUBSET Tx
    BY <1>2, <1>4, SentTypes DEF IInv
  <2> QED BY <1>1, <1>3, <1>4, <1>8, <2>1, ComesSent DEF IInv, ReplayInv
<1>10. UNCHANGED <<addresses, transactions, lastAddresses, recvPC>>
  BY <1>1 DEF recvVars
<1>11. TypeOK'
  <2>1. Len(addrRequests') <= AddrChanSize
    BY <1>2, PipelineAssumption DEF IInv, TypeOK
  <2> QED BY <1>1, <2>1 DEF IInv, TypeOK, fileVars
<1>12. HandInv'
  BY <1>1, <1>4, <1>5, <1>10 DEF IInv, HandInv, Answers, fileVars
<1>13. RecordInv' /\ FileInv'
  BY <1>1 DEF RecordInv, FileInv, fileVars
<1>14. ReplayInv'
  BY <1>1, <1>8, <1>9, <1>10, FixtureKept DEF IInv, ReplayInv, fileVars
<1> QED BY <1>7, <1>11, <1>12, <1>13, <1>14 DEF IInv, DP!Next, DP!processRequests

\* The fixture answers a transaction request: an answer of the recorded scan lists the
\* transaction, so that it is in the file.
LEMMA ProcessTxStep ==
  ASSUME DP!Ready, IInv, processTxRequest
  PROVE  IInv' /\ DP!Next
<1> DEFINE q == Head(txRequests)
           k == q.tx
<1>1. /\ phase = "replay" /\ pc = "select"
      /\ txRequests # <<>> /\ txRequests' = Tail(txRequests)
      /\ UNCHANGED <<history, sendVars, recvVars, addrRequests, addrResponses, txResponses,
                     addrIndex, txIndex, doneCh, fileVars>>
      /\ ~Holds(pc)
  BY DEF processTxRequest, Holds
<1>2. /\ txRequests \in Seq(TxReq) /\ txRequests' \in Seq(TxReq)
      /\ q \in TxReq /\ Len(txRequests') = Len(txRequests) - 1
      /\ Len(txRequests) \in Nat
  BY <1>1, Typed, HeadTailProperties, LenProperties
<1>3. k \in DOMAIN txIndex /\ txIndex[k] \in {0, 1} /\ k \in Tx
  <2>1. q \in DP!txUnder
    <3>1. DP!InChannel(txRequests) = DP!InChannel(Tail(txRequests)) \cup {q}
      BY <1>1, <1>2, DeliveryAssumption, DP!InTail
    <3> QED BY <3>1 DEF DP!txUnder, DP!Under
  <2>2. q.from \in DOMAIN addresses /\ k \in addresses[q.from]
    BY <2>1, DeliveryAssumption, DP!RequestsKnown
  <2>3. q.from \in DOMAIN addrIndex /\ k \in addrIndex[q.from]
    BY <1>1, <2>2 DEF IInv, ReplayInv, ComesFrom
  <2>4. k \in DOMAIN txIndex
    BY <1>1, <2>3 DEF IInv, ReplayInv, FixtureInv
  <2> QED BY <1>2, <2>4 DEF IInv, HandInv, TxReq
<1>4. pc' = "forward" /\ Holds(pc') /\ hand' = [req |-> q, height |-> txIndex[k]]
  BY <1>3 DEF processTxRequest, Hold, Holds
<1>5. hand' \in TxAnswer /\ hand'.req = q /\ hand'.height = txIndex[k] /\ ~IsAddr(hand')
  <2>1. hand' \in TxAnswer
    BY <1>2, <1>3, <1>4 DEF TxAnswer, TxReq
  <2> QED BY <1>4, <2>1, HeldIs
<1>6. /\ AddrHeld = Nobody /\ TxHeld = Nobody
      /\ TxHeld' = [g \in {0} |-> q] /\ AddrHeld' = Nobody
  BY <1>1, <1>4, <1>5, HeldIs DEF AddrHeld, TxHeld
<1>7. DP!TakeTx(0)
  <2>1. 0 \notin DOMAIN TxHeld /\ TxHeld' = DP!takes(TxHeld, 0, q)
    BY <1>6 DEF DP!takes, Nobody
  <2> QED BY <1>1, <1>6, <2>1
          DEF DP!TakeTx, DP!sendVars, sendVars, DP!recvVars, recvVars
<1>8. txSent' = Append(txSent, <<k, txIndex[k]>>) /\ addrSent' = addrSent
  <2>1. txResponses \in Seq(TxAnswer)
    BY Typed
  <2>2. txPairs(Append(txResponses, hand'))
          = Append(txPairs(txResponses), <<hand'.req.tx, hand'.height>>)
    BY <1>5, <2>1, PairsAppend
  <2>3. hand'.req.tx = k /\ hand'.height = txIndex[k]
    BY <1>5
  <2> HIDE DEF k, q
  <2> QED BY <1>1, <1>4, <1>5, <2>2, <2>3, SentIs, SentBecomes
<1> HIDE DEF k, q
<1>9. ComesFrom(transactions, txSent', txIndex)
  <2>1. txSent \in Seq(Tx \X {0, 1}) /\ <<k, txIndex[k]>> \in Tx \X {0, 1}
    BY <1>3, SentTypes DEF IInv
  <2> QED BY <1>1, <1>3, <1>8, <2>1, ComesSent DEF IInv, ReplayInv
<1>10. UNCHANGED <<addresses, transactions, lastAddresses, recvPC>>
  BY <1>1 DEF recvVars
<1>11. TypeOK'
  <2>1. Len(txRequests') <= TxChanSize
    BY <1>2, PipelineAssumption DEF IInv, TypeOK
  <2> QED BY <1>1, <1>4, <2>1 DEF IInv, TypeOK, fileVars
<1>12. HandInv'
  BY <1>1, <1>4, <1>5, <1>10 DEF IInv, HandInv, Answers, fileVars
<1>13. RecordInv' /\ FileInv'
  BY <1>1 DEF RecordInv, FileInv, fileVars
<1>14. ReplayInv'
  BY <1>1, <1>8, <1>9, <1>10, FixtureKept DEF IInv, ReplayInv, fileVars
<1> QED BY <1>7, <1>11, <1>12, <1>13, <1>14 DEF IInv, DP!Next, DP!processRequests

\* The fixture takes an address response back, to send it again.
LEMMA TakeBackAddrStep ==
  ASSUME DP!Ready, IInv, TakeBackAddr
  PROVE  IInv' /\ DP!Ready' /\ UNCHANGED DP!FetchP!vars
<1> DEFINE m == Head(addrResponses)
<1>1. /\ phase = "replay" /\ pc = "select" /\ pc' = "forward" /\ hand' = m
      /\ addrResponses # <<>> /\ addrResponses' = Tail(addrResponses)
      /\ UNCHANGED <<history, sendVars, recvVars, addrRequests, txRequests, txResponses,
                     addrIndex, txIndex, doneCh, fileVars>>
      /\ ~Holds(pc) /\ Holds(pc')
  BY DEF TakeBackAddr, AfterTakeBack, Hold, Holds
<1>2. /\ addrResponses \in Seq(AddrAnswer) /\ addrResponses' \in Seq(AddrAnswer)
      /\ m \in AddrAnswer /\ Len(addrResponses') = Len(addrResponses) - 1
      /\ Len(addrResponses) \in Nat
  BY <1>1, Typed, HeadTailProperties, LenProperties
<1>3. /\ DP!InChannel(addrResponses) = DP!InChannel(addrResponses') \cup {m}
      /\ m.txHashes \in Answers(m.addr)
  <2>1. DP!InChannel(addrResponses) = DP!InChannel(addrResponses') \cup {m}
    BY <1>1, <1>2, DeliveryAssumption, DP!InTail
  <2>2. m.txHashes \in DP!Answers(m.addr)
    BY <2>1 DEF DP!Ready, DP!IInv, DP!ResponsesInv
  <2> QED BY <2>1, <2>2, SameTerms
<1>4. IsAddr(m)
  BY <1>1, <1>2, HeldIs
<1>5. /\ AddrHeld = Nobody /\ TxHeld = Nobody
      /\ AddrHeld' = [g \in {0} |-> m.addr] /\ TxHeld' = Nobody
  BY <1>1, <1>2, HeldIs DEF AddrHeld, TxHeld
<1>6. /\ DP!addrAnswered # <<>> /\ DP!addrAnswered' = Tail(DP!addrAnswered)
      /\ Head(DP!addrAnswered) = m.addr
      /\ DP!txAnswered' = DP!txAnswered
  <2>1. DP!addrAnswered = [i \in DOMAIN addrResponses |-> addrResponses[i].addr]
    BY DEF DP!addrAnswered
  <2>2. DP!addrAnswered' = [i \in DOMAIN Tail(addrResponses) |-> Tail(addrResponses)[i].addr]
    BY <1>1 DEF DP!addrAnswered
  <2>3. DP!txAnswered' = DP!txAnswered
    BY <1>1 DEF DP!txAnswered
  <2> QED BY <1>1, <1>2, <2>1, <2>2, <2>3, DeliveryAssumption, DP!AnsweredTail
<1> HIDE DEF m
<1>7. /\ DP!Transit(Address, addrRequests', AddrHeld', DP!addrAnswered')
      /\ DP!Under(addrRequests', AddrHeld', DP!addrAnswered') = DP!addrUnder
  <2>1. DP!Transit(Address, addrRequests, Nobody, DP!addrAnswered)
    BY <1>5, SameTerms DEF DP!Ready, DP!IInv, DP!TransitInv
  <2> QED BY <1>1, <1>5, <1>6, <2>1, TransitBack DEF DP!addrUnder
<1>8. DP!TransitInv' /\ DP!addrUnder' = DP!addrUnder /\ DP!txUnder' = DP!txUnder
  BY <1>1, <1>5, <1>6, <1>7
  DEF DP!Ready, DP!IInv, DP!TransitInv, DP!addrUnder, DP!txUnder, DP!Address, DP!Changes,
      Address, Changes
<1>9. DP!ResponsesInv'
  <2>1. addrResponses' \in Seq([addr : DP!Address, txHashes : SUBSET Tx])
    BY <1>2, SameTerms DEF AddrAnswer
  <2> QED BY <1>1, <1>3, <2>1 DEF DP!Ready, DP!IInv, DP!ResponsesInv, DP!Answers
<1>10. DP!Ready' /\ UNCHANGED DP!FetchP!vars
  BY <1>1, <1>8, <1>9, HandsMoved
<1>11. addrSent' = Append(Tail(addrSent), Head(addrSent)) /\ txSent' = txSent /\ addrSent # <<>>
  <2>1. /\ addrSent # <<>> /\ Tail(addrSent) = addrPairs(addrResponses')
        /\ Head(addrSent) = <<m.addr, m.txHashes>>
    BY <1>1, <1>2, SentIs, PairsTail DEF m
  <2>2. addrPairs(Append(addrResponses', m))
          = Append(addrPairs(addrResponses'), <<m.addr, m.txHashes>>)
    BY <1>2, PairsAppend
  <2> QED BY <1>1, <1>4, <2>1, <2>2, SentIs, SentBecomes
<1>12. ComesFrom(addresses, addrSent', addrIndex)
  BY <1>1, <1>11, SentTypes, ComesAgain DEF IInv, ReplayInv
<1>13. UNCHANGED <<addresses, transactions, lastAddresses, recvPC>>
  BY <1>1 DEF recvVars
<1>14. TypeOK'
  <2>1. Len(addrResponses') <= AddrChanSize
    BY <1>2, PipelineAssumption DEF IInv, TypeOK
  <2> QED BY <1>1, <2>1 DEF IInv, TypeOK, fileVars
<1>15. HandInv'
  BY <1>1, <1>2, <1>3, <1>13 DEF IInv, HandInv, Answers, fileVars
<1>16. RecordInv' /\ FileInv'
  BY <1>1 DEF RecordInv, FileInv, fileVars
<1>17. ReplayInv'
  BY <1>1, <1>11, <1>12, <1>13, FixtureKept DEF IInv, ReplayInv, fileVars
<1> QED BY <1>10, <1>14, <1>15, <1>16, <1>17 DEF IInv

\* The same for a transaction response.
LEMMA TakeBackTxStep ==
  ASSUME DP!Ready, IInv, TakeBackTx
  PROVE  IInv' /\ DP!Ready' /\ UNCHANGED DP!FetchP!vars
<1> DEFINE m == Head(txResponses)
<1>1. /\ phase = "replay" /\ pc = "select" /\ pc' = "forward" /\ hand' = m
      /\ txResponses # <<>> /\ txResponses' = Tail(txResponses)
      /\ UNCHANGED <<history, sendVars, recvVars, addrRequests, addrResponses, txRequests,
                     addrIndex, txIndex, doneCh, fileVars>>
      /\ ~Holds(pc) /\ Holds(pc')
  BY DEF TakeBackTx, AfterTakeBack, Hold, Holds
<1>2. /\ txResponses \in Seq(TxAnswer) /\ txResponses' \in Seq(TxAnswer)
      /\ m \in TxAnswer /\ Len(txResponses') = Len(txResponses) - 1
      /\ Len(txResponses) \in Nat
  BY <1>1, Typed, HeadTailProperties, LenProperties
<1>3. ~IsAddr(m)
  BY <1>1, <1>2, HeldIs
<1>4. /\ AddrHeld = Nobody /\ TxHeld = Nobody
      /\ TxHeld' = [g \in {0} |-> m.req] /\ AddrHeld' = Nobody
  BY <1>1, <1>2, HeldIs DEF AddrHeld, TxHeld
<1>5. /\ DP!txAnswered # <<>> /\ DP!txAnswered' = Tail(DP!txAnswered)
      /\ Head(DP!txAnswered) = m.req
      /\ DP!addrAnswered' = DP!addrAnswered
  <2>1. DP!txAnswered = [i \in DOMAIN txResponses |-> txResponses[i].req]
    BY DEF DP!txAnswered
  <2>2. DP!txAnswered' = [i \in DOMAIN Tail(txResponses) |-> Tail(txResponses)[i].req]
    BY <1>1 DEF DP!txAnswered
  <2>3. DP!addrAnswered' = DP!addrAnswered
    BY <1>1 DEF DP!addrAnswered
  <2> QED BY <1>1, <1>2, <2>1, <2>2, <2>3, DeliveryAssumption, DP!AnsweredTail
<1> HIDE DEF m
<1>6. /\ DP!Transit(TxReq, txRequests', TxHeld', DP!txAnswered')
      /\ DP!Under(txRequests', TxHeld', DP!txAnswered') = DP!txUnder
  <2>1. DP!Transit(TxReq, txRequests, Nobody, DP!txAnswered)
    BY <1>4, SameTerms DEF DP!Ready, DP!IInv, DP!TransitInv
  <2> QED BY <1>1, <1>4, <1>5, <2>1, TransitBack DEF DP!txUnder
<1>7. DP!TransitInv' /\ DP!addrUnder' = DP!addrUnder /\ DP!txUnder' = DP!txUnder
  BY <1>1, <1>4, <1>5, <1>6, SameTerms
  DEF DP!Ready, DP!IInv, DP!TransitInv, DP!addrUnder, DP!txUnder
<1>8. DP!ResponsesInv'
  <2>1. txResponses' \in Seq([req : DP!TxReq, height : {0, 1}])
    BY <1>2, SameTerms DEF TxAnswer, TxReq
  <2> QED BY <1>1, <2>1 DEF DP!Ready, DP!IInv, DP!ResponsesInv, DP!Answers
<1>9. DP!Ready' /\ UNCHANGED DP!FetchP!vars
  BY <1>1, <1>7, <1>8, HandsMoved
<1>10. txSent' = Append(Tail(txSent), Head(txSent)) /\ addrSent' = addrSent /\ txSent # <<>>
  <2>1. /\ txSent # <<>> /\ Tail(txSent) = txPairs(txResponses')
        /\ Head(txSent) = <<m.req.tx, m.height>>
    BY <1>1, <1>2, SentIs, PairsTail DEF m
  <2>2. txPairs(Append(txResponses', m))
          = Append(txPairs(txResponses'), <<m.req.tx, m.height>>)
    BY <1>2, PairsAppend
  <2> QED BY <1>1, <1>3, <2>1, <2>2, SentIs, SentBecomes
<1>11. ComesFrom(transactions, txSent', txIndex)
  BY <1>1, <1>10, SentTypes, ComesAgain DEF IInv, ReplayInv
<1>12. UNCHANGED <<addresses, transactions, lastAddresses, recvPC>>
  BY <1>1 DEF recvVars
<1>13. TypeOK'
  <2>1. Len(txResponses') <= TxChanSize
    BY <1>2, PipelineAssumption DEF IInv, TypeOK
  <2> QED BY <1>1, <2>1 DEF IInv, TypeOK, fileVars
<1>14. HandInv'
  BY <1>1, <1>2, <1>12 DEF IInv, HandInv, Answers, fileVars
<1>15. RecordInv' /\ FileInv'
  BY <1>1 DEF RecordInv, FileInv, fileVars
<1>16. ReplayInv'
  BY <1>1, <1>10, <1>11, <1>12, FixtureKept DEF IInv, ReplayInv, fileVars
<1> QED BY <1>9, <1>13, <1>14, <1>15, <1>16 DEF IInv

-----------------------------------------------------------------------------
(* The replay begins.                                                      *)

\* The two notions of a complete scan are one.
LEMMA SameScanned ==
  \A f, range : DP!FetchP!Scanned(f, range) <=> Fetch!Scanned(f, range)
BY DEF DP!FetchP!Scanned, Fetch!Scanned, DP!FetchP!Stepped, Fetch!Stepped,
       DP!FetchP!Address, Fetch!Address, DP!FetchP!Changes, Fetch!Changes

\* When the recorded run's recvWork has returned its maps have caught up.
LEMMA Caught ==
  ASSUME DP!Ready, IInv, phase = "record", recvPC = "done"
  PROVE  addresses = addrIndex /\ transactions = txIndex
<1>1. CatchesUp(addresses, <<>>, addrIndex) /\ CatchesUp(transactions, <<>>, txIndex)
  BY NobodyHolds DEF IInv, RecordInv
<1>2. addresses = addrIndex
  <2>1. addresses \in [DOMAIN addresses -> SUBSET Tx]
    BY Typed
  <2>2. addrIndex \in [DOMAIN addrIndex -> SUBSET Tx]
    BY DEF IInv, HandInv
  <2> QED BY <1>1, <2>1, <2>2, CatchDone
<1>3. transactions = txIndex
  <2>1. /\ transactions \in [DOMAIN transactions -> {0, 1}]
        /\ txIndex \in [DOMAIN txIndex -> {0, 1}]
    BY DEF IInv, HandInv
  <2> QED BY <1>1, <2>1, CatchDone
<1> QED BY <1>2, <1>3

\* Where an accounter begins is Delivery's initial state, also in the second process.
LEMMA ReadyAgain == DP!Init' => DP!Ready'
<1>1. DP!Init => DP!Ready
  BY DeliveryAssumption, DP!ReadyInit
<1> QED BY <1>1, PTL

\* The fixture loads the file: what it knows is a complete scan.
LEMMA LoadStep ==
  ASSUME DP!Ready, IInv, Load
  PROVE  IInv' /\ DP!Ready'
<1>1. phase = "record" /\ writePC = "written" /\ recvPC = "done"
  BY DEF Load, IInv, FileInv
<1>2. addresses = addrIndex /\ transactions = txIndex
  BY <1>1, Caught
<1>3. LoadAddrs(file.addresses) = addrIndex /\ LoadTxs(file.transactions) = txIndex
  BY <1>1 DEF IInv, FileInv
<1>4. /\ phase' = "replay" /\ pc' = "select" /\ hand' = Nothing /\ ~Holds(pc')
      /\ addrIndex' = addrIndex /\ txIndex' = txIndex
      /\ recorded' = [addresses |-> addrIndex, transactions |-> txIndex]
      /\ addresses' = Empty /\ transactions' = Empty
      /\ lastAddresses' = [c \in Changes |-> Lookahead]
      /\ addrRequests' = <<>> /\ addrResponses' = <<>>
      /\ txRequests' = <<>> /\ txResponses' = <<>>
      /\ doneCh' = FALSE /\ UNCHANGED <<history, writePC, file>>
  BY <1>2, <1>3 DEF Load, Hold, Holds
<1>5. DP!Ready'
  <2>1. AddrHeld' = Nobody /\ TxHeld' = Nobody
    BY <1>4, HeldIs DEF AddrHeld, TxHeld
  <2>2. [x \in {} |-> {}] = [t \in {} |-> 0]
    OBVIOUS
  <2>3. history' \in Histories
    BY <1>4 DEF IInv, HandInv
  <2>4. DP!PipelineInit'
    BY <1>4, <2>2, <2>3 DEF Load, DP!PipelineInit, DP!Changes, Changes, Empty
  <2> QED BY <2>1, <2>4, ReadyAgain DEF DP!Init, Nobody
<1>6. TypeOK'
  <2>1. Len(<<>>) <= AddrChanSize /\ Len(<<>>) <= TxChanSize
    BY PipelineAssumption
  <2> QED BY <1>4, <2>1 DEF IInv, TypeOK
<1>7. HandInv'
  <2>1. Empty \in [DOMAIN Empty -> {0, 1}]
    BY DEF Empty
  <2> QED BY <1>4, <2>1 DEF IInv, HandInv, InHand
<1>8. RecordInv' /\ FileInv'
  BY <1>4 DEF RecordInv, FileInv
<1>9. FixtureInv'
  <2>1. \A a \in DOMAIN addrIndex : addrIndex[a] \in Answers(a)
    BY <1>2, DeliveryAssumption, DP!WholeAnswers, SameTerms
  <2>2. /\ \A a \in DOMAIN addrIndex : addrIndex[a] \subseteq DOMAIN txIndex
        /\ \A t \in DOMAIN txIndex : \E a \in DOMAIN addrIndex : t \in addrIndex[a]
    BY <1>1, <1>2, DeliveryAssumption, DP!DoneWhole
  <2> QED BY <1>4, <2>1, <2>2 DEF FixtureInv, Answers
<1>10. RangeInv'
  <2>1. Fetch!Scanned(addrIndex, lastAddresses)
    BY <1>1, <1>2, DeliveryAssumption, DP!DoneWhole, SameScanned
  <2>2. lastAddresses \in [Changes -> 0 .. HardenedKeyStart]
    <3>1. \A c \in Changes : lastAddresses[c] <= MaxUsed + Lookahead
      BY DeliveryAssumption, DP!ReadyTypes, SameTerms
    <3> QED BY <3>1, Typed, PipelineAssumption
  <2>3. \A c \in Changes : lastAddresses'[c] <= lastAddresses[c]
    BY <1>4, <2>1 DEF Fetch!Scanned, Fetch!Changes, Changes
  <2> QED BY <1>4, <2>1, <2>2, <2>3 DEF RangeInv
<1>11. /\ ComesFrom(addresses', addrSent', addrIndex')
       /\ ComesFrom(transactions', txSent', txIndex')
  <2>1. addrSent' = <<>> /\ txSent' = <<>>
    BY <1>4, SentBecomes DEF addrPairs, txPairs
  <2>2. DOMAIN Empty = {} /\ DOMAIN <<>> = {}
    BY DEF Empty
  <2> QED BY <1>4, <2>1, <2>2 DEF ComesFrom
<1>12. ReplayInv'
  BY <1>9, <1>10, <1>11 DEF ReplayInv
<1> QED BY <1>5, <1>6, <1>7, <1>8, <1>12 DEF IInv

-----------------------------------------------------------------------------
(* Both runs.                                                              *)

\* The initial state is Delivery's.
LEMMA RecordReplayInit == Init => DP!Init /\ IInv
<1> SUFFICES ASSUME Init PROVE DP!Init /\ IInv
  OBVIOUS
<1>1. ~Holds(pc) /\ AddrHeld = Nobody /\ TxHeld = Nobody
  BY HeldIs DEF Init, Holds, AddrHeld, TxHeld
<1>2. DP!PipelineInit
  BY DEF Init, PipelineInit, DP!PipelineInit, DP!Changes, Changes
<1>3. DP!Init
  BY <1>1, <1>2 DEF DP!Init, Nobody
<1>4. TypeOK /\ HandInv
  <2>1. Len(<<>>) <= AddrChanSize /\ Len(<<>>) <= TxChanSize
    BY PipelineAssumption
  <2>2. TypeOK
    BY <2>1 DEF Init, PipelineInit, TypeOK, Empty
  <2>3. HandInv
    BY DEF Init, PipelineInit, HandInv, InHand, Empty
  <2> QED BY <2>2, <2>3
<1>5. RecordInv
  <2>1. addrSent = <<>> /\ txSent = <<>>
    BY SentIs DEF Init, PipelineInit, addrPairs, txPairs
  <2>2. DOMAIN <<>> = {}
    OBVIOUS
  <2> QED BY <2>1, <2>2 DEF Init, PipelineInit, RecordInv, CatchesUp, Empty
<1>6. FileInv /\ ReplayInv
  BY DEF Init, FileInv, ReplayInv, NoData
<1> QED BY <1>3, <1>4, <1>5, <1>6 DEF IInv

\* A step of Delivery is one of Accounter or none.
LEMMA Delivered ==
  ASSUME DP!Ready, [DP!Next]_DP!vars
  PROVE  DP!Ready' /\ [DP!FetchP!Next]_DP!FetchP!vars
<1>1. DP!IInv' /\ [DP!FetchP!Next]_DP!FetchP!vars
  BY DeliveryAssumption, DP!DeliveryStep
<1> QED BY <1>1, DeliveryAssumption, DP!ReadyKept

\* Every step keeps the invariants and, within a run, is one of Accounter or none.
LEMMA RecordReplayStep ==
  ASSUME DP!Ready, IInv, [Next]_vars
  PROVE  /\ DP!Ready' /\ IInv'
         /\ phase' = phase => [DP!FetchP!Next]_DP!FetchP!vars
<1>1. CASE accounter
  BY <1>1, AccounterStep, Delivered
<1>2. CASE Send("select")
  BY <1>2, SendStep, Delivered
<1>3. CASE RecordAddr \/ RecordTx \/ TakeBackAddr \/ TakeBackTx
  BY <1>3, RecordAddrStep, RecordTxStep, TakeBackAddrStep, TakeBackTxStep
<1>4. CASE Store \/ Done \/ Finish \/ writeToFile \/ Refuse
  <2>1. IInv' /\ UNCHANGED DP!vars
    BY <1>4, StoreStep, DoneStep, FileStep
  <2> QED BY <2>1, Delivered
<1>5. CASE processAddrRequest \/ processTxRequest
  BY <1>5, ProcessAddrStep, ProcessTxStep, Delivered
<1>6. CASE Load
  <2>1. phase' # phase
    BY <1>6 DEF Load
  <2> QED BY <1>6, <2>1, LoadStep
<1>7. CASE UNCHANGED vars
  <2>1. /\ UNCHANGED <<pipelineVars, pc, hand, addrIndex, txIndex, doneCh, fileVars>>
        /\ UNCHANGED <<history, addresses, transactions, recvPC, lastAddresses,
                       addrRequests, addrResponses, txRequests, txResponses>>
    BY <1>7 DEF vars, backendVars, pipelineVars, recvVars, channels
  <2>2. AddrHeld' = AddrHeld /\ TxHeld' = TxHeld
    BY <2>1 DEF AddrHeld, TxHeld
  <2>3. addrSent' = addrSent /\ txSent' = txSent
    BY <2>1 DEF addrSent, txSent
  <2>4. TypeOK' /\ HandInv'
    BY <2>1 DEF IInv, TypeOK, HandInv, InHand, Answers, fileVars
  <2>5. IInv'
    BY <2>1, <2>3, <2>4, NothingSent DEF IInv
  <2>6. UNCHANGED DP!vars
    BY <2>1, <2>2, NothingMoved
  <2> QED BY <2>5, <2>6, Delivered
<1>8. After("forward") = "select"
  BY DEF After
<1> QED BY <1>1, <1>2, <1>3, <1>4, <1>5, <1>6, <1>7, <1>8 DEF Next, Record, Replay

\* In both runs every request is in one place, the counters agree with the requests
\* under way, an answer is in the recorder's index before it is on its way to the
\* accounter, and the replay stays within what was recorded.
THEOREM RecordReplayInvariant == Spec => [](DP!Ready /\ IInv)
<1>1. Init => DP!Ready /\ IInv
  BY RecordReplayInit, DeliveryAssumption, DP!ReadyInit
<1>2. DP!Ready /\ IInv /\ [Next]_vars => (DP!Ready /\ IInv)'
  BY RecordReplayStep
<1> QED BY <1>1, <1>2, PTL DEF Spec

\* Channels stay within their sizes, and either goroutine and the writing of the file
\* where they may be.
THEOREM RecordReplayTypes == Spec => []TypeOK
<1>1. DP!Ready /\ IInv => TypeOK
  BY DEF IInv
<1> QED BY <1>1, RecordReplayInvariant, PTL

\* The file that Finish writes holds what the accounter saw, to the last height: it
\* could read the maps too early, or a transaction answered twice could end up with
\* one height in the map and another with the accounter.
THEOREM RecordingIsComplete == Spec => []RecordingComplete
<1>1. DP!Ready /\ IInv => RecordingComplete
  BY Caught DEF RecordingComplete, IInv, FileInv
<1> QED BY <1>1, RecordReplayInvariant, PTL

\* writeToFile needs no mutex: processRequests stores nothing any more once recvWork
\* has returned, as nothing is then left to be answered.
THEOREM MapsAreQuiet == Spec => QuietMaps
<1>1. ASSUME DP!Ready, IInv, [Next]_vars, phase = "record", writePC # "none", phase' = phase
      PROVE  UNCHANGED <<addrIndex, txIndex>>
  <2>1. ~InHand
    BY <1>1, NobodyHolds DEF IInv, FileInv
  <2>2. ~Store /\ ~Load
    BY <1>1, <2>1 DEF Store, Load, InHand
  <2>3. CASE UNCHANGED vars
    BY <2>3 DEF vars, backendVars
  <2>4. CASE Next
    BY <2>2, <2>4
    DEF Next, accounter, backendVars, Record, RecordAddr, RecordTx, Send, Done, Finish,
        writeToFile, WriteAddrs, WriteTxs, Save, WriteFails, Refuse, Replay,
        processAddrRequest, processTxRequest, TakeBackAddr, TakeBackTx
  <2> QED BY <1>1, <2>3, <2>4
<1>2. /\ DP!Ready /\ IInv /\ [Next]_vars
      => [phase = "record" /\ writePC # "none" /\ phase' = phase =>
            UNCHANGED <<addrIndex, txIndex>>]_vars
  BY <1>1
<1> QED BY <1>2, RecordReplayInvariant, PTL DEF Spec, QuietMaps

\* A replay that has ended has scanned what the recorded run had: neither range can
\* end before the other's, since each got where it ends by the answers that the
\* other has too.
LEMMA ReplayedWhole ==
  ASSUME DP!Ready, IInv, phase = "replay", recvPC = "done"
  PROVE  addresses = addrIndex /\ transactions = txIndex
<1>1. PICK range \in [Changes -> 0 .. HardenedKeyStart] : DP!FetchP!Scanned(addrIndex, range)
  BY SameScanned DEF IInv, ReplayInv, RangeInv
<1>2. DP!FetchP!Scanned(addresses, lastAddresses)
  BY DeliveryAssumption, DP!DoneWhole
<1>3. /\ \A a \in DOMAIN addresses : a \in DOMAIN addrIndex /\ addresses[a] = addrIndex[a]
      /\ \A t \in DOMAIN transactions : t \in DOMAIN txIndex /\ transactions[t] = txIndex[t]
  BY DEF IInv, ReplayInv, ComesFrom
<1>4. DOMAIN addresses = DOMAIN addrIndex
  <2>1. \A a \in DOMAIN addresses \cap DOMAIN addrIndex : addresses[a] = addrIndex[a]
    BY <1>3
  <2> QED BY <1>1, <1>2, <2>1, DeliveryAssumption, DP!FetchAssumptions, DP!FetchP!SameScan
<1>5. addresses = addrIndex
  <2>1. addresses \in [DOMAIN addresses -> SUBSET Tx]
    BY Typed
  <2>2. addrIndex \in [DOMAIN addrIndex -> SUBSET Tx]
    BY DEF IInv, HandInv
  <2> QED BY <1>3, <1>4, <2>1, <2>2
<1>6. DOMAIN txIndex \subseteq DOMAIN transactions
  <2>1. ASSUME NEW t \in DOMAIN txIndex PROVE t \in DOMAIN transactions
    <3>1. PICK a \in DOMAIN addrIndex : t \in addrIndex[a]
      BY DEF IInv, ReplayInv, FixtureInv
    <3>2. addresses[a] \subseteq DOMAIN transactions
      BY <1>5, DeliveryAssumption, DP!DoneWhole
    <3> QED BY <1>5, <3>1, <3>2
  <2> QED BY <2>1
<1>7. transactions = txIndex
  <2>1. /\ transactions \in [DOMAIN transactions -> {0, 1}]
        /\ txIndex \in [DOMAIN txIndex -> {0, 1}]
    BY DEF IInv, HandInv
  <2>2. DOMAIN transactions = DOMAIN txIndex
    BY <1>3, <1>6
  <2> QED BY <1>3, <2>1, <2>2
<1> QED BY <1>5, <1>7

\* A replayed run ends with the addresses, transactions and heights of the recorded
\* one, though it asks and is answered in another order and responses are taken back
\* and sent again on the way.
THEOREM ReplayIsSame == Spec => []ReplaySame
<1>1. DP!Ready /\ IInv => ReplaySame
  BY ReplayedWhole DEF ReplaySame, IInv, ReplayInv, FixtureInv
<1> QED BY <1>1, RecordReplayInvariant, PTL

\* The state of Accounter that a state stands for, as RecordReplay and as Delivery
\* have it.
SamePending ==
  /\ addrPendingWith(IF InHand /\ IsAddr(hand) THEN {hand.addr} ELSE {}) = DP!addrPending
  /\ txPendingWith(IF InHand /\ ~IsAddr(hand) THEN {hand.req} ELSE {}) = DP!txPending
  /\ fetchPC = DP!fetchPC /\ seenTxCount + Cardinality(todo) = DP!fetchSeen

\* The two are one.
LEMMA PendingIs == SamePending
<1>1. \A x : /\ DP!InChannel([g \in {0} |-> x]) = {x}
             /\ DP!InChannel([g \in {} |-> x]) = {}
  BY DEF DP!InChannel
<1>2. DP!InChannel(AddrHeld) = (IF InHand /\ IsAddr(hand) THEN {hand.addr} ELSE {})
  BY <1>1 DEF AddrHeld, AddrHeldIn, InHand, Holds
<1>3. DP!InChannel(TxHeld) = (IF InHand /\ ~IsAddr(hand) THEN {hand.req} ELSE {})
  BY <1>1 DEF TxHeld, TxHeldIn, InHand, Holds
<1>4. \A ch : DP!InChannel(ch) = InChannel(ch)
  BY SameTerms
<1>5. \A h : addrPendingWith(h) = DP!addrPendingWith(h) /\ txPendingWith(h) = DP!txPendingWith(h)
  BY <1>4 DEF addrPendingWith, DP!addrPendingWith, txPendingWith, DP!txPendingWith
<1>6. fetchPC = DP!fetchPC
  BY DEF fetchPC, DP!fetchPC
<1>7. seenTxCount + Cardinality(todo) = DP!fetchSeen
  BY DEF DP!fetchSeen, DP!Cardinality, Cardinality
<1> QED BY <1>2, <1>3, <1>5, <1>6, <1>7 DEF SamePending, DP!addrPending, DP!txPending

\* They are one after a step, too.
LEMMA PendingBecomes == SamePending'
BY PendingIs, PTL

\* So Accounter's steps are the same by either way.
LEMMA SameFetch ==
  /\ DP!FetchP!Init => Fetch!Init
  /\ [DP!FetchP!Next]_DP!FetchP!vars => [Fetch!Next]_Fetch!vars
<1>1. DP!FetchP!Init => Fetch!Init
  BY PendingIs DEF SamePending, DP!FetchP!Init, Fetch!Init, DP!FetchP!Changes, Fetch!Changes
<1>2. DP!FetchP!Next => Fetch!Next
  <2> USE PendingIs, PendingBecomes
      DEF SamePending, DP!FetchP!recvVars, Fetch!recvVars, DP!FetchP!sendVars, Fetch!sendVars
  <2>1. DP!FetchP!sendWork => Fetch!sendWork
    BY DEF DP!FetchP!sendWork, Fetch!sendWork,
           DP!FetchP!NextChange, Fetch!NextChange,
           DP!FetchP!DeriveAddr, Fetch!DeriveAddr,
           DP!FetchP!DeriveAddrPanic, Fetch!DeriveAddrPanic,
           DP!FetchP!RequestAddr, Fetch!RequestAddr,
           DP!FetchP!DerivePanics, Fetch!DerivePanics
  <2>2. DP!FetchP!recvWork => Fetch!recvWork
    BY DEF DP!FetchP!recvWork, Fetch!recvWork,
           DP!FetchP!RecvSomeAddr, Fetch!RecvSomeAddr,
           DP!FetchP!RecvAddr, Fetch!RecvAddr,
           DP!FetchP!Answers, Fetch!Answers, DP!FetchP!Derive, Fetch!Derive,
           DP!FetchP!AfterAnswer, Fetch!AfterAnswer,
           DP!FetchP!Cardinality, Fetch!Cardinality,
           DP!FetchP!ExtendRange, Fetch!ExtendRange,
           DP!FetchP!Reach, Fetch!Reach, DP!FetchP!Max2, Fetch!Max2,
           DP!FetchP!RecvSomeTx, Fetch!RecvSomeTx,
           DP!FetchP!RecvTx, Fetch!RecvTx, DP!FetchP!Tick, Fetch!Tick,
           DP!FetchP!complete, Fetch!complete, DP!FetchP!U32, Fetch!U32
  <2> QED BY <2>1, <2>2 DEF DP!FetchP!Next, Fetch!Next
<1>3. DP!FetchP!vars = Fetch!vars /\ DP!FetchP!vars' = Fetch!vars'
  BY PendingIs, PendingBecomes
  DEF SamePending, DP!FetchP!vars, Fetch!vars, DP!FetchP!recvVars, Fetch!recvVars,
      DP!FetchP!sendVars, Fetch!sendVars
<1> QED BY <1>1, <1>2, <1>3

\* Either run keeps the contract the accounter relies on: storing, forwarding and
\* taking back lose, repeat and invent no answer.
THEOREM RecordReplayImplementsFetch == Spec => ImplementsFetch
<1>1. Init => Fetch!Init
  BY RecordReplayInit, DeliveryAssumption, DP!DeliveryInit, SameFetch
<1>2. /\ DP!Ready /\ IInv /\ [Next]_vars
      => [phase' = phase => [Fetch!Next]_(Fetch!vars)]_vars
  BY RecordReplayStep, SameFetch
<1> QED BY <1>1, <1>2, RecordReplayInvariant, PTL DEF Spec, ImplementsFetch
=============================================================================
