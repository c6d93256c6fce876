--------------------------- MODULE BtcdBackendProofs ---------------------------
(***************************************************************************)
(* Proofs about the accounter on the Btcd backend, for every node, chain,   *)
(* number of workers and size of the channels: the pool of workers is what  *)
(* Delivery says of a backend, so that it implements Accounter, and its     *)
(* caches give every transaction the height of its block.                   *)
(***************************************************************************)
EXTENDS BtcdBackend, TLAPS

DP == INSTANCE DeliveryProofs WITH
        Goroutine <- Worker,
        Heights   <- {Height[t] : t \in Tx},
        addrHeld  <- AddrHeld,
        txHeld    <- TxHeld

-----------------------------------------------------------------------------
(* The terms that this module and Delivery have in common.                  *)

TxReq == [from : Address, tx : Tx]

\* Delivery's assumption is the one made here.
LEMMA DeliveryAssumption == DP!PipelineAssumption
<1>1. DP!Address = Address
  BY DEF DP!Address, DP!Changes, Address, Changes
<1> QED BY <1>1, PipelineAssumption DEF DP!PipelineAssumption, DP!IsFiniteSet, IsFiniteSet

\* They mean the same by these.
LEMMA SameTerms ==
  /\ DP!Address = Address /\ DP!TxReq = TxReq
  /\ \A a : DP!Answers(a) = Answers(a)
  /\ \A ch, size : DP!HasRoom(ch, size) <=> HasRoom(ch, size)
BY DEF DP!Address, DP!Changes, Address, Changes, DP!TxReq, TxReq, DP!Answers, Answers,
       DP!HasRoom, HasRoom

\* The accounter's goroutines take the same steps.
LEMMA SamePipeline == (DP!sendWork <=> sendWork) /\ (DP!recvWork <=> recvWork)
<1> USE DEF DP!recvVars, recvVars, DP!sendVars, sendVars, DP!channels, channels,
            DP!HasRoom, HasRoom
<1>1. DP!sendWork <=> sendWork
  BY DEF DP!sendWork, sendWork, DP!NextChange, NextChange, DP!DeriveAddr, DeriveAddr,
         DP!RequestAddr, RequestAddr, DP!countMuFree, countMuFree
<1>2. DP!recvWork <=> recvWork
  BY DEF DP!recvWork, recvWork, DP!RecvAddr, RecvAddr, DP!RequestTx, RequestTx,
         DP!RequestedTxs, RequestedTxs, DP!ExtendRange, ExtendRange, DP!RecvTx,
         RecvTx, DP!Tick, Tick, DP!complete, complete
<1> QED BY <1>1, <1>2

\* What the channels and the workers' hands hold, from Delivery's invariant.
LEMMA Typed ==
  ASSUME DP!Ready
  PROVE  /\ addrRequests \in Seq(Address) /\ txRequests \in Seq(TxReq)
         /\ addrResponses \in Seq([addr : Address, txHashes : SUBSET Tx])
         /\ txResponses \in Seq([req : TxReq, height : {Height[t] : t \in Tx}])
         /\ \A w \in DOMAIN AddrHeld : AddrHeld[w] \in Address
         /\ \A w \in DOMAIN TxHeld : TxHeld[w] \in TxReq
         /\ history \in [Address -> SUBSET Tx]
BY DeliveryAssumption, DP!ChannelTypes, SameTerms

-----------------------------------------------------------------------------
(* Steps of the accounter.                                                 *)

\* Channels stay within their sizes, and what recvWork takes is at its height.
LEMMA AccounterStep ==
  ASSUME DP!Ready, IInv, accounter
  PROVE  IInv' /\ DP!Next
<1>1. UNCHANGED <<pc, hand, cachedTransactions, blockHeightLookup>>
  BY DEF accounter
<1>2. AddrHeld' = AddrHeld /\ TxHeld' = TxHeld
  BY <1>1 DEF AddrHeld, TxHeld
<1>3. DP!Next
  BY <1>2, SamePipeline DEF accounter, DP!Next, DP!accounter
<1>4. history' = history
  BY DEF accounter, sendWork, NextChange, DeriveAddr, RequestAddr, recvWork, RecvAddr,
         RequestTx, RequestedTxs, ExtendRange, RecvTx, Tick
<1>5. HandInv'
  BY <1>1, <1>4 DEF IInv, HandInv, Answers
<1> DEFINE T == [req : TxReq, height : {Height[t] : t \in Tx}]
           Sizes == /\ Len(addrRequests) <= AddrChanSize
                    /\ Len(addrResponses) <= AddrChanSize
                    /\ Len(txRequests) <= TxChanSize
                    /\ Len(txResponses) <= TxChanSize
<1>6. Sizes' /\ DOMAIN transactions' \subseteq Tx /\ CacheInv' /\ HeightsRight'
  <2> USE PipelineAssumption, Typed DEF IInv, TypeOK
  <2>1. CASE NextChange \/ DeriveAddr
    BY <1>1, <2>1 DEF NextChange, DeriveAddr, recvVars, channels, CacheInv, HeightsRight
  <2>2. CASE RequestAddr
    BY <1>1, <2>2 DEF RequestAddr, HasRoom, recvVars, CacheInv, HeightsRight
  <2>3. CASE RecvAddr
    BY <1>1, <2>3 DEF RecvAddr, CacheInv, HeightsRight
  <2>4. CASE RequestTx
    BY <1>1, <2>4 DEF RequestTx, HasRoom, CacheInv, HeightsRight
  <2>5. CASE RequestedTxs \/ ExtendRange \/ Tick
    BY <1>1, <2>5 DEF RequestedTxs, ExtendRange, Tick, channels, CacheInv, HeightsRight
  <2>6. CASE RecvTx
    <3> DEFINE r == Head(txResponses)
    <3>0. /\ txResponses \in Seq(T) /\ txResponses # <<>>
          /\ txResponses' = Tail(txResponses)
      BY <2>6 DEF RecvTx
    <3>1. /\ r \in T /\ Len(txResponses') <= TxChanSize
          /\ r = txResponses[1] /\ 1 \in DOMAIN txResponses
          /\ DOMAIN txResponses' = 1 .. Len(txResponses) - 1
          /\ \A i \in 1 .. Len(txResponses) - 1 :
               i + 1 \in DOMAIN txResponses /\ txResponses'[i] = txResponses[i + 1]
      <4> HIDE DEF T
      <4> QED BY <3>0
    <3>2. r.height = Height[r.req.tx] /\ r.req.tx \in Tx
      <4>1. r.req \in TxReq
        BY <3>1
      <4>2. r.req.tx \in Tx
        BY <4>1 DEF TxReq
      <4> QED BY <3>1, <4>2 DEF CacheInv
    <3>3. CacheInv'
      <4>1. ASSUME NEW i \in DOMAIN txResponses'
            PROVE  txResponses'[i].height = Height[txResponses'[i].req.tx]
        <5>1. i + 1 \in DOMAIN txResponses /\ txResponses'[i] = txResponses[i + 1]
          BY <3>1
        <5>2. txResponses[i + 1].height = Height[txResponses[i + 1].req.tx]
          BY <5>1 DEF CacheInv
        <5> QED BY <5>1, <5>2
      <4> QED BY <1>1, <4>1 DEF CacheInv
    <3>4. /\ DOMAIN transactions' = DOMAIN transactions \cup {r.req.tx}
          /\ \A x \in DOMAIN transactions' :
               transactions'[x] = IF x = r.req.tx THEN r.height ELSE transactions[x]
      BY <2>6 DEF RecvTx
    <3> HIDE DEF r
    <3>5. HeightsRight' /\ DOMAIN transactions' \subseteq Tx
      BY <3>2, <3>4 DEF HeightsRight
    <3> QED BY <2>6, <3>1, <3>3, <3>5 DEF RecvTx
  <2> QED BY <2>1, <2>2, <2>3, <2>4, <2>5, <2>6 DEF accounter, sendWork, recvWork
<1>7. TypeOK'
  BY <1>1, <1>6 DEF IInv, TypeOK
<1> QED BY <1>3, <1>5, <1>6, <1>7 DEF IInv

-----------------------------------------------------------------------------
(* Steps of a worker with an address request.                              *)

\* A worker that goes from one state to another, with what it then holds.
Moves(w, label, x) == goto(w, label) /\ hold(w, x)

\* What a move of one worker leaves of the others.
LEMMA MovesOne ==
  ASSUME IInv, NEW w \in Worker, NEW label, NEW x, Moves(w, label, x)
  PROVE  /\ pc'[w] = label /\ hand'[w] = x
         /\ \A v \in Worker : v # w => pc'[v] = pc[v] /\ hand'[v] = hand[v]
         /\ hand' = [v \in Worker |-> hand'[v]]
         /\ DOMAIN pc' = Worker
BY DEF IInv, TypeOK, HandInv, Moves, goto, hold

\* The rest of HandInv is kept if the worker that moved has what it should.
LEMMA HandKept ==
  ASSUME IInv, NEW w \in Worker, NEW label, NEW x, Moves(w, label, x),
         history' = history,
         label \in {"cacheTxs", "cacheStore", "replyAddr"} => x.txHashes \in Answers(x.addr),
         label \in {"cacheTxs", "cacheStore"} => x.left \subseteq x.txHashes,
         label = "cacheStore" => x.tx \in x.left,
         label = "replyTx" => x = [req |-> x.req, height |-> Height[x.req.tx]]
  PROVE  HandInv'
<1>1. \A a : Answers(a)' = Answers(a)
  BY DEF Answers
<1> QED BY <1>1, MovesOne DEF IInv, HandInv

\* A result that is not longer than maxTxsPerAddr has not been cut short.
LEMMA FitsWhole ==
  ASSUME NEW a, NEW x \in Search(a), Fits(x)
  PROVE  x \in Answers(a)
<1>1. PICK h \in Answers(a) : x = h \/ Cardinality(x) = maxTxsPerAddr + 1
  BY DEF Search
<1>2. Cardinality(x) # maxTxsPerAddr + 1
  BY BtcdAssumption DEF Fits
<1> QED BY <1>1, <1>2

\* A worker takes an address request and asks the node.
LEMMA TakeAddrStep ==
  ASSUME DP!Ready, IInv, NEW w \in Worker, TakeAddr(w)
  PROVE  IInv' /\ DP!TakeAddr(w)
<1> DEFINE r == Head(addrRequests)
<1>1. PICK x \in Search(r) :
        Fits(x) /\ hold(w, [addr |-> r, txHashes |-> x, left |-> x])
  BY DEF TakeAddr
<1> DEFINE y == [addr |-> r, txHashes |-> x, left |-> x]
<1>2. Moves(w, "cacheTxs", y) /\ pc[w] = "select"
  BY <1>1 DEF TakeAddr, Moves
<1>3. x \in Answers(r)
  BY <1>1, FitsWhole
<1>4. HandInv'
  <2>1. y.addr = r /\ y.txHashes = x /\ y.left = x /\ history' = history
    BY DEF TakeAddr
  <2> HIDE DEF y, r
  <2> QED BY <1>2, <1>3, <2>1, HandKept
<1>5. AddrHeld' = DP!takes(AddrHeld, w, r) /\ TxHeld' = TxHeld /\ w \notin DOMAIN AddrHeld
  <2>1. y.addr = r
    OBVIOUS
  <2> HIDE DEF y, r
  <2> QED BY <1>2, <2>1, MovesOne DEF AddrHeld, TxHeld, DP!takes
<1>6. DP!TakeAddr(w)
  BY <1>5 DEF TakeAddr, DP!TakeAddr, DP!sendVars, sendVars, DP!recvVars, recvVars
<1>7. TypeOK'
  <2>1. Len(addrRequests') <= AddrChanSize
    <3>1. addrRequests \in Seq(Address) /\ addrRequests # <<>>
          /\ addrRequests' = Tail(addrRequests)
      BY Typed DEF TakeAddr
    <3> QED BY <3>1, PipelineAssumption DEF IInv, TypeOK
  <2> QED BY <2>1 DEF IInv, TypeOK, TakeAddr, goto, recvVars
<1>8. CacheInv' /\ HeightsRight'
  BY DEF IInv, CacheInv, HeightsRight, TakeAddr, recvVars
<1> QED BY <1>4, <1>6, <1>7, <1>8 DEF IInv

\* Panics change nothing that anybody looks at afterwards.
LEMMA PanicStep ==
  ASSUME DP!Ready, IInv, Panic
  PROVE  IInv' /\ UNCHANGED DP!vars
<1>1. AddrHeld' = AddrHeld /\ TxHeld' = TxHeld
  BY DEF Panic, AddrHeld, TxHeld
<1>2. UNCHANGED DP!vars
  BY <1>1 DEF Panic, pipelineVars, sendVars, recvVars, channels,
              DP!vars, DP!pipelineVars, DP!sendVars, DP!recvVars, DP!channels
<1>3. IInv'
  BY DEF Panic, pipelineVars, sendVars, recvVars, channels, IInv, TypeOK, HandInv,
         CacheInv, HeightsRight, Answers
<1> QED BY <1>2, <1>3

\* A step on the caches alone: the accounter and its channels are as they were, and
\* so is the request in the worker's hands.
LEMMA CacheOnly ==
  ASSUME IInv, UNCHANGED pipelineVars, AddrHeld' = AddrHeld, TxHeld' = TxHeld
  PROVE  UNCHANGED DP!vars /\ HeightsRight' /\ history' = history
BY DEF IInv, HeightsRight, pipelineVars, sendVars, recvVars, channels,
       DP!vars, DP!pipelineVars, DP!sendVars, DP!recvVars, DP!channels

\* cacheTxs looks at a transaction, or is over.
LEMMA CacheLookupStep ==
  ASSUME DP!Ready, IInv, NEW w \in Worker, CacheLookup(w)
  PROVE  IInv' /\ UNCHANGED DP!vars
<1> DEFINE b == hand[w]
<1>0. /\ pc[w] = "cacheTxs" /\ b.txHashes \in Answers(b.addr) /\ b.left \subseteq b.txHashes
      /\ UNCHANGED <<pipelineVars, cachedTransactions, blockHeightLookup>>
  BY DEF CacheLookup, IInv, HandInv
<1>1. CASE goto(w, "replyAddr") /\ UNCHANGED hand
  <2>1. AddrHeld' = AddrHeld /\ TxHeld' = TxHeld
    BY <1>0, <1>1 DEF IInv, TypeOK, goto, AddrHeld, TxHeld
  <2>2. UNCHANGED DP!vars /\ HeightsRight' /\ history' = history
    BY <1>0, <2>1, CacheOnly
  <2>3. HandInv'
    BY <1>0, <1>1, <2>2 DEF IInv, TypeOK, HandInv, goto, Answers
  <2>4. TypeOK' /\ CacheInv'
    BY <1>0, <1>1 DEF IInv, TypeOK, CacheInv, goto, pipelineVars, recvVars, channels
  <2> QED BY <2>2, <2>3, <2>4 DEF IInv
<1>2. ASSUME NEW t \in b.left,
             goto(w, "cacheStore"),
             hold(w, [addr |-> b.addr, txHashes |-> b.txHashes, left |-> b.left, tx |-> t])
      PROVE  IInv' /\ UNCHANGED DP!vars
  <2> DEFINE y == [addr |-> b.addr, txHashes |-> b.txHashes, left |-> b.left, tx |-> t]
  <2>1. Moves(w, "cacheStore", y)
    BY <1>2 DEF Moves
  <2>2. y.addr = b.addr /\ y.txHashes = b.txHashes /\ y.left = b.left /\ y.tx = t
    OBVIOUS
  <2> HIDE DEF y
  <2>3. AddrHeld' = AddrHeld /\ TxHeld' = TxHeld
    BY <1>0, <2>1, <2>2, MovesOne DEF AddrHeld, TxHeld
  <2>4. UNCHANGED DP!vars /\ HeightsRight' /\ history' = history
    BY <1>0, <2>3, CacheOnly
  <2>5. HandInv'
    BY <1>0, <1>2, <2>1, <2>2, <2>4, HandKept
  <2>6. TypeOK' /\ CacheInv'
    BY <1>0, <1>2 DEF IInv, TypeOK, CacheInv, goto, pipelineVars, recvVars, channels
  <2> QED BY <2>4, <2>5, <2>6 DEF IInv
<1> QED BY <1>1, <1>2 DEF CacheLookup

\* getBlockHeight returns the height of the block, whether it finds it in the table or
\* asks for it, and leaves the table right: one block has one height.
LEMMA HeightKnown ==
  ASSUME IInv, NEW t \in Tx
  PROVE  /\ getBlockHeight(t) = Height[t]
         /\ DOMAIN Known(t) \subseteq {BlockHash[u] : u \in Tx}
         /\ \A u \in Tx : BlockHash[u] \in DOMAIN Known(t) => Known(t)[BlockHash[u]] = Height[u]
<1>1. getBlockHeight(t) = Height[t]
  BY DEF IInv, CacheInv, getBlockHeight
<1>2. DOMAIN Known(t) = DOMAIN blockHeightLookup \cup {BlockHash[t]}
  BY DEF Known
<1>3. ASSUME NEW u \in Tx, BlockHash[u] \in DOMAIN Known(t)
      PROVE  Known(t)[BlockHash[u]] = Height[u]
  <2>1. CASE BlockHash[u] = BlockHash[t]
    BY <1>1, <1>2, <2>1, BtcdAssumption DEF Known
  <2>2. CASE BlockHash[u] # BlockHash[t]
    BY <1>2, <1>3, <2>2 DEF Known, IInv, CacheInv
  <2> QED BY <2>1, <2>2
<1> QED BY <1>1, <1>2, <1>3 DEF IInv, TypeOK

\* cacheTxs stores a transaction at the height of its block.
LEMMA CacheStoreStep ==
  ASSUME DP!Ready, IInv, NEW w \in Worker, CacheStore(w)
  PROVE  IInv' /\ UNCHANGED DP!vars
<1> DEFINE b == hand[w]
           y == [addr |-> b.addr, txHashes |-> b.txHashes, left |-> b.left \ {b.tx}]
<1>0. /\ pc[w] = "cacheStore" /\ b.txHashes \in Answers(b.addr)
      /\ b.left \subseteq b.txHashes /\ b.tx \in b.left
      /\ UNCHANGED pipelineVars
  BY DEF CacheStore, IInv, HandInv
<1>1. Moves(w, "cacheTxs", y)
  BY DEF CacheStore, Moves
<1>2. y.addr = b.addr /\ y.txHashes = b.txHashes /\ y.left = b.left \ {b.tx}
  OBVIOUS
<1> HIDE DEF y
<1>3. AddrHeld' = AddrHeld /\ TxHeld' = TxHeld
  BY <1>0, <1>1, <1>2, MovesOne DEF AddrHeld, TxHeld
<1>4. UNCHANGED DP!vars /\ HeightsRight' /\ history' = history
  BY <1>0, <1>3, CacheOnly
<1>5. HandInv'
  BY <1>0, <1>1, <1>2, <1>4, HandKept
<1>6. b.tx \in Tx
  <2>1. w \in DOMAIN AddrHeld /\ AddrHeld[w] = b.addr
    BY <1>0 DEF AddrHeld
  <2>2. b.addr \in Address
    BY <2>1, Typed
  <2>3. b.txHashes \subseteq Tx
    BY <1>0, <2>2, Typed DEF Answers
  <2> QED BY <1>0, <2>3
<1>7. TypeOK' /\ CacheInv'
  <2>1. DOMAIN cachedTransactions' = DOMAIN cachedTransactions \cup {b.tx}
    BY DEF CacheStore
  <2>2. \A t \in DOMAIN cachedTransactions' : cachedTransactions'[t] = Height[t]
    BY <1>6, HeightKnown DEF CacheStore, IInv, CacheInv
  <2>3. /\ DOMAIN blockHeightLookup' \subseteq {BlockHash[t] : t \in Tx}
        /\ \A t \in Tx : BlockHash[t] \in DOMAIN blockHeightLookup' =>
             blockHeightLookup'[BlockHash[t]] = Height[t]
    BY <1>6, HeightKnown DEF CacheStore, KnowHeight
  <2>4. TypeOK'
    BY <1>0, <1>1, <1>6, <2>1, <2>3 DEF IInv, TypeOK, Moves, goto, pipelineVars, recvVars, channels
  <2>5. CacheInv'
    BY <1>0, <2>2, <2>3 DEF IInv, CacheInv, pipelineVars, channels
  <2> QED BY <2>4, <2>5
<1> QED BY <1>4, <1>5, <1>7 DEF IInv

\* The answer is sent: it is the whole of one that a server may give.
LEMMA ReplyAddrStep ==
  ASSUME DP!Ready, IInv, NEW w \in Worker, ReplyAddr(w)
  PROVE  IInv' /\ DP!ReplyAddr(w)
<1> DEFINE b == hand[w]
           m == [addr |-> b.addr, txHashes |-> b.txHashes]
<1>0. /\ pc[w] = "replyAddr" /\ b.txHashes \in Answers(b.addr)
      /\ w \in DOMAIN AddrHeld /\ AddrHeld[w] = b.addr
      /\ addrResponses' = Append(addrResponses, m)
      /\ HasRoom(addrResponses, AddrChanSize) /\ history' = history
  BY DEF ReplyAddr, IInv, HandInv, AddrHeld
<1>1. Moves(w, "select", Nothing)
  BY DEF ReplyAddr, Moves
<1>2. AddrHeld' = DP!leaves(AddrHeld, w) /\ TxHeld' = TxHeld
  BY <1>0, <1>1, MovesOne DEF AddrHeld, TxHeld, DP!leaves
<1>3. HandInv'
  BY <1>0, <1>1, HandKept
<1>4. DP!ReplyAddr(w)
  <2>1. b.txHashes \in DP!Answers(AddrHeld[w]) /\ DP!HasRoom(addrResponses, AddrChanSize)
    BY <1>0, SameTerms
  <2>2. \E h \in DP!Answers(AddrHeld[w]) :
          addrResponses' = Append(addrResponses, [addr |-> AddrHeld[w], txHashes |-> h])
    BY <1>0, <2>1
  <2> QED BY <1>0, <1>2, <2>1, <2>2
          DEF ReplyAddr, DP!ReplyAddr, DP!sendVars, sendVars, DP!recvVars, recvVars
<1>5. TypeOK'
  <2>1. Len(addrResponses') <= AddrChanSize
    <3>1. addrResponses \in Seq([addr : Address, txHashes : SUBSET Tx])
      BY Typed
    <3>2. Len(addrResponses') = Len(addrResponses) + 1 /\ Len(addrResponses) \in Nat
      <4> HIDE DEF m
      <4> QED BY <1>0, <3>1
    <3> QED BY <1>0, <3>2, PipelineAssumption DEF HasRoom
  <2> QED BY <2>1 DEF IInv, TypeOK, ReplyAddr, goto, recvVars
<1>6. CacheInv' /\ HeightsRight'
  BY DEF IInv, CacheInv, HeightsRight, ReplyAddr, recvVars
<1> QED BY <1>3, <1>4, <1>5, <1>6 DEF IInv

-----------------------------------------------------------------------------
(* Steps of a worker with a transaction request.                           *)

\* A worker takes a transaction request and looks the transaction up.
LEMMA TakeTxStep ==
  ASSUME DP!Ready, IInv, NEW w \in Worker, TakeTx(w)
  PROVE  IInv' /\ DP!TakeTx(w)
<1> DEFINE q == Head(txRequests)
<1>0. /\ pc[w] = "select" /\ txRequests # <<>> /\ history' = history
      /\ txRequests \in Seq(TxReq) /\ txRequests' = Tail(txRequests)
      /\ UNCHANGED <<cachedTransactions, blockHeightLookup>>
  BY Typed DEF TakeTx
<1>1. ASSUME NEW label \in {"replyTx", "fetchTx"}, NEW x, Moves(w, label, x), x.req = q
      PROVE  AddrHeld' = AddrHeld /\ TxHeld' = DP!takes(TxHeld, w, q) /\ w \notin DOMAIN TxHeld
  <2> HIDE DEF q
  <2> QED BY <1>0, <1>1, MovesOne DEF AddrHeld, TxHeld, DP!takes
<1>2. /\ HandInv' /\ w \notin DOMAIN TxHeld
      /\ AddrHeld' = AddrHeld /\ TxHeld' = DP!takes(TxHeld, w, q)
      /\ pc' \in [Worker -> {"select", "cacheTxs", "cacheStore", "replyAddr",
                            "fetchTx", "replyTx", "returned"}]
  <2>1. CASE q.tx \in DOMAIN cachedTransactions
    <3> DEFINE y == [req |-> q, height |-> cachedTransactions[q.tx]]
    <3>1. Moves(w, "replyTx", y)
      BY <2>1 DEF TakeTx, Moves
    <3>2. y.req = q /\ y = [req |-> y.req, height |-> Height[y.req.tx]]
      BY <2>1 DEF IInv, CacheInv
    <3> HIDE DEF y, q
    <3>3. HandInv'
      BY <1>0, <3>1, <3>2, HandKept
    <3> QED BY <1>1, <3>1, <3>2, <3>3 DEF Moves, goto, IInv, TypeOK
  <2>2. CASE q.tx \notin DOMAIN cachedTransactions
    <3> DEFINE y == [req |-> q]
    <3>1. Moves(w, "fetchTx", y) /\ y.req = q
      BY <2>2 DEF TakeTx, Moves
    <3> HIDE DEF y, q
    <3>2. HandInv'
      BY <1>0, <3>1, HandKept
    <3> QED BY <1>1, <3>1, <3>2 DEF Moves, goto, IInv, TypeOK
  <2> QED BY <2>1, <2>2
<1>3. DP!TakeTx(w)
  BY <1>2 DEF TakeTx, DP!TakeTx, DP!sendVars, sendVars, DP!recvVars, recvVars
<1>4. TypeOK'
  <2>1. Len(txRequests') <= TxChanSize
    BY <1>0, PipelineAssumption DEF IInv, TypeOK
  <2> QED BY <1>0, <1>2, <2>1 DEF IInv, TypeOK, TakeTx, recvVars
<1>5. CacheInv' /\ HeightsRight'
  BY DEF IInv, CacheInv, HeightsRight, TakeTx, recvVars
<1> QED BY <1>2, <1>3, <1>4, <1>5 DEF IInv

\* A transaction that was not in the cache is fetched, and its block's height.
LEMMA FetchTxStep ==
  ASSUME DP!Ready, IInv, NEW w \in Worker, FetchTx(w)
  PROVE  IInv' /\ UNCHANGED DP!vars
<1> DEFINE q == hand[w].req
           y == [req |-> q, height |-> Height[q.tx]]
<1>0. pc[w] = "fetchTx" /\ UNCHANGED <<pipelineVars, cachedTransactions>>
  BY DEF FetchTx
<1>tx. q.tx \in Tx
  <2>1. w \in DOMAIN TxHeld /\ TxHeld[w] = q
    BY <1>0 DEF TxHeld
  <2>2. q \in TxReq
    BY <2>1, Typed
  <2> QED BY <2>2 DEF TxReq
<1>1. Moves(w, "replyTx", y)
  BY <1>tx, HeightKnown DEF FetchTx, Moves, AfterFetch
<1>2. y.req = q /\ y = [req |-> y.req, height |-> Height[y.req.tx]]
  OBVIOUS
<1> HIDE DEF y
<1>3. AddrHeld' = AddrHeld /\ TxHeld' = TxHeld
  BY <1>0, <1>1, <1>2, MovesOne DEF AddrHeld, TxHeld
<1>4. UNCHANGED DP!vars /\ HeightsRight' /\ history' = history
  BY <1>0, <1>3, CacheOnly
<1>5. HandInv'
  BY <1>1, <1>2, <1>4, HandKept
<1>7. /\ DOMAIN blockHeightLookup' \subseteq {BlockHash[t] : t \in Tx}
      /\ \A t \in Tx : BlockHash[t] \in DOMAIN blockHeightLookup' =>
           blockHeightLookup'[BlockHash[t]] = Height[t]
  BY <1>tx, HeightKnown DEF FetchTx, KnowHeight
<1>8. TypeOK' /\ CacheInv'
  BY <1>0, <1>1, <1>7
  DEF IInv, TypeOK, CacheInv, Moves, goto, pipelineVars, recvVars, channels
<1> QED BY <1>4, <1>5, <1>8 DEF IInv

\* The transaction is sent, at the height of its block.
LEMMA ReplyTxStep ==
  ASSUME DP!Ready, IInv, NEW w \in Worker, ReplyTx(w)
  PROVE  IInv' /\ DP!ReplyTx(w)
<1> DEFINE m == hand[w]
<1>0. /\ pc[w] = "replyTx" /\ m = [req |-> m.req, height |-> Height[m.req.tx]]
      /\ w \in DOMAIN TxHeld /\ TxHeld[w] = m.req
      /\ txResponses' = Append(txResponses, m)
      /\ HasRoom(txResponses, TxChanSize) /\ history' = history
      /\ UNCHANGED <<transactions, cachedTransactions, blockHeightLookup>>
  BY DEF ReplyTx, IInv, HandInv, TxHeld, recvVars
<1>1. Moves(w, "select", Nothing)
  BY DEF ReplyTx, Moves
<1>2. AddrHeld' = AddrHeld /\ TxHeld' = DP!leaves(TxHeld, w)
  BY <1>0, <1>1, MovesOne DEF AddrHeld, TxHeld, DP!leaves
<1>3. HandInv'
  BY <1>0, <1>1, HandKept
<1>4. m.req \in TxReq /\ m.req.tx \in Tx /\ m.height = Height[m.req.tx]
  <2>1. m.req \in TxReq
    BY <1>0, Typed
  <2>2. m.height = Height[m.req.tx]
    BY <1>0
  <2> QED BY <2>1, <2>2 DEF TxReq
<1>5. DP!ReplyTx(w)
  <2>1. DP!HasRoom(txResponses, TxChanSize)
    BY <1>0, SameTerms
  <2>2. \E n \in {Height[t] : t \in Tx} :
          txResponses' = Append(txResponses, [req |-> TxHeld[w], height |-> n])
    BY <1>0, <1>4
  <2> QED BY <1>0, <1>2, <2>1, <2>2
          DEF ReplyTx, DP!ReplyTx, DP!sendVars, sendVars, DP!recvVars, recvVars
<1>6. /\ txResponses \in Seq([req : TxReq, height : {Height[t] : t \in Tx}])
      /\ m \in [req : TxReq, height : {Height[t] : t \in Tx}]
  BY <1>0, <1>4, Typed
<1>7. /\ Len(txResponses') = Len(txResponses) + 1 /\ Len(txResponses) \in Nat
      /\ DOMAIN txResponses' = 1 .. Len(txResponses) + 1
      /\ \A i \in 1 .. Len(txResponses) :
           i \in DOMAIN txResponses /\ txResponses'[i] = txResponses[i]
      /\ txResponses'[Len(txResponses) + 1] = m
  <2> HIDE DEF m
  <2> QED BY <1>0, <1>6
<1>8. TypeOK'
  <2>1. Len(txResponses') <= TxChanSize
    BY <1>0, <1>7, PipelineAssumption DEF HasRoom
  <2> QED BY <2>1 DEF IInv, TypeOK, ReplyTx, goto, recvVars
<1>9. CacheInv'
  <2>1. ASSUME NEW i \in DOMAIN txResponses'
        PROVE  txResponses'[i].height = Height[txResponses'[i].req.tx]
    <3>1. CASE i = Len(txResponses) + 1
      BY <1>4, <1>7, <3>1
    <3>2. CASE i # Len(txResponses) + 1
      BY <1>7, <3>2 DEF IInv, CacheInv
    <3> QED BY <3>1, <3>2
  <2> QED BY <1>0, <2>1 DEF IInv, CacheInv
<1> QED BY <1>0, <1>3, <1>5, <1>8, <1>9 DEF IInv, HeightsRight

\* The closed doneCh sends a worker round its loop; Finish closes it.
LEMMA DoneStep ==
  ASSUME DP!Ready, IInv, Finish \/ \E w \in Worker : Done(w)
  PROVE  IInv' /\ UNCHANGED DP!vars
<1>1. /\ pc' = pc
      /\ UNCHANGED <<pipelineVars, hand, cachedTransactions, blockHeightLookup>>
  BY DEF Finish, Done, AfterDone, goto, IInv, TypeOK
<1>2. AddrHeld' = AddrHeld /\ TxHeld' = TxHeld
  BY <1>1 DEF AddrHeld, TxHeld
<1>3. UNCHANGED DP!vars /\ HeightsRight' /\ history' = history
  BY <1>1, <1>2, CacheOnly
<1>4. TypeOK' /\ HandInv' /\ CacheInv'
  BY <1>1, <1>3 DEF IInv, TypeOK, HandInv, CacheInv, Answers, pipelineVars, recvVars, channels
<1> QED BY <1>3, <1>4 DEF IInv

-----------------------------------------------------------------------------
(* The invariant, and what follows from it.                                *)

\* The initial state stands for Delivery's.
LEMMA BtcdInit == Init => IInv /\ DP!Init
<1> SUFFICES ASSUME Init PROVE IInv /\ DP!Init
  OBVIOUS
<1>1. AddrHeld = [g \in {} |-> <<0, 0>>] /\ TxHeld = [g \in {} |-> <<0, 0>>]
  BY DEF Init, AddrHeld, TxHeld
<1>2. DP!Init
  BY <1>1 DEF Init, DP!Init, PipelineInit, DP!PipelineInit, Changes, DP!Changes
<1>3. TypeOK
  BY PipelineAssumption DEF Init, PipelineInit, TypeOK
<1>4. HandInv /\ CacheInv /\ HeightsRight
  BY DEF Init, PipelineInit, HandInv, CacheInv, HeightsRight
<1> QED BY <1>2, <1>3, <1>4 DEF IInv

\* Every step is one that Delivery allows, or nothing to it.
LEMMA BtcdStep ==
  ASSUME DP!Ready, IInv, [Next]_vars
  PROVE  IInv' /\ [DP!Next]_DP!vars
<1>1. CASE accounter
  BY <1>1, AccounterStep
<1>2. CASE Finish
  BY <1>2, DoneStep
<1>3. ASSUME NEW w \in Worker, processRequests(w)
      PROVE  IInv' /\ [DP!Next]_DP!vars
  <2>1. CASE TakeAddr(w)
    BY <2>1, TakeAddrStep DEF DP!Next, DP!processRequests
  <2>2. CASE AddrPanic(w) \/ CachePanic(w) \/ TxPanic(w)
    BY <2>2, PanicStep DEF AddrPanic, CachePanic, TxPanic
  <2>3. CASE CacheLookup(w)
    BY <2>3, CacheLookupStep
  <2>4. CASE CacheStore(w)
    BY <2>4, CacheStoreStep
  <2>5. CASE ReplyAddr(w)
    BY <2>5, ReplyAddrStep DEF DP!Next, DP!processRequests
  <2>6. CASE TakeTx(w)
    BY <2>6, TakeTxStep DEF DP!Next, DP!processRequests
  <2>7. CASE FetchTx(w)
    BY <2>7, FetchTxStep
  <2>8. CASE ReplyTx(w)
    BY <2>8, ReplyTxStep DEF DP!Next, DP!processRequests
  <2>9. CASE Done(w)
    BY <2>9, DoneStep
  <2> QED BY <1>3, <2>1, <2>2, <2>3, <2>4, <2>5, <2>6, <2>7, <2>8, <2>9
          DEF processRequests
<1>4. CASE UNCHANGED vars
  <2>1. /\ pc' = pc
        /\ UNCHANGED <<pipelineVars, hand, cachedTransactions, blockHeightLookup>>
    BY <1>4 DEF vars
  <2>2. AddrHeld' = AddrHeld /\ TxHeld' = TxHeld
    BY <2>1 DEF AddrHeld, TxHeld
  <2>3. UNCHANGED DP!vars /\ HeightsRight' /\ history' = history
    BY <2>1, <2>2, CacheOnly
  <2>4. TypeOK' /\ HandInv' /\ CacheInv'
    BY <2>1, <2>3
    DEF IInv, TypeOK, HandInv, CacheInv, Answers, pipelineVars, recvVars, channels
  <2> QED BY <2>3, <2>4 DEF IInv
<1> QED BY <1>1, <1>2, <1>3, <1>4 DEF Next

\* Delivery's invariant and this module's hold together.
THEOREM BtcdInvariant == Spec => [](DP!Ready /\ IInv)
<1>1. Init => DP!Ready /\ IInv
  BY BtcdInit, DeliveryAssumption, DP!ReadyInit
<1>2. DP!Ready /\ IInv /\ [Next]_vars => (DP!Ready /\ IInv)'
  BY BtcdStep, DeliveryAssumption, DP!ReadyStep
<1> QED BY <1>1, <1>2, PTL DEF Spec

\* The pool of workers is a backend as Delivery describes them.
THEOREM BtcdImplementsDelivery == Spec => DP!Spec
<1>1. Init => DP!Init
  BY BtcdInit
<1>2. DP!Ready /\ IInv /\ [Next]_vars => [DP!Next]_DP!vars
  BY BtcdStep
<1> QED BY <1>1, <1>2, BtcdInvariant, PTL DEF Spec, DP!Spec

\* The terms of Accounter's refinement, as instantiated by way of the proofs about
\* Delivery and of Delivery itself.
LEMMA SamePending ==
  /\ DP!fetchPC = Deliver!fetchPC /\ DP!fetchSeen = Deliver!fetchSeen
  /\ DP!addrPending = Deliver!addrPending /\ DP!txPending = Deliver!txPending
  /\ DP!fetchPC' = Deliver!fetchPC' /\ DP!fetchSeen' = Deliver!fetchSeen'
  /\ DP!addrPending' = Deliver!addrPending' /\ DP!txPending' = Deliver!txPending'
BY DEF DP!fetchPC, Deliver!fetchPC, DP!fetchSeen, Deliver!fetchSeen,
       DP!addrPending, Deliver!addrPending, DP!txPending, Deliver!txPending,
       DP!addrPendingWith, Deliver!addrPendingWith,
       DP!txPendingWith, Deliver!txPendingWith,
       DP!InChannel, Deliver!InChannel, DP!Cardinality, Deliver!Cardinality

\* So Accounter's specification is the same by either way.
LEMMA SameFetch ==
  /\ DP!Fetch!Init => Deliver!Fetch!Init
  /\ [DP!Fetch!Next]_DP!Fetch!vars => [Deliver!Fetch!Next]_Deliver!Fetch!vars
<1>1. DP!Fetch!Init => Deliver!Fetch!Init
  BY SamePending DEF DP!Fetch!Init, Deliver!Fetch!Init, DP!Fetch!Changes, Deliver!Fetch!Changes
<1>2. DP!Fetch!Next => Deliver!Fetch!Next
  <2> USE SamePending DEF DP!Fetch!recvVars, Deliver!Fetch!recvVars,
                          DP!Fetch!sendVars, Deliver!Fetch!sendVars
  <2>1. DP!Fetch!sendWork => Deliver!Fetch!sendWork
    BY DEF DP!Fetch!sendWork, Deliver!Fetch!sendWork,
           DP!Fetch!NextChange, Deliver!Fetch!NextChange,
           DP!Fetch!DeriveAddr, Deliver!Fetch!DeriveAddr,
           DP!Fetch!DeriveAddrPanic, Deliver!Fetch!DeriveAddrPanic,
           DP!Fetch!RequestAddr, Deliver!Fetch!RequestAddr,
           DP!Fetch!DerivePanics, Deliver!Fetch!DerivePanics
  <2>2. DP!Fetch!recvWork => Deliver!Fetch!recvWork
    BY DEF DP!Fetch!recvWork, Deliver!Fetch!recvWork,
           DP!Fetch!RecvSomeAddr, Deliver!Fetch!RecvSomeAddr,
           DP!Fetch!RecvAddr, Deliver!Fetch!RecvAddr,
           DP!Fetch!Answers, Deliver!Fetch!Answers, DP!Fetch!Derive, Deliver!Fetch!Derive,
           DP!Fetch!AfterAnswer, Deliver!Fetch!AfterAnswer,
           DP!Fetch!Cardinality, Deliver!Fetch!Cardinality,
           DP!Fetch!ExtendRange, Deliver!Fetch!ExtendRange,
           DP!Fetch!Reach, Deliver!Fetch!Reach, DP!Fetch!Max2, Deliver!Fetch!Max2,
           DP!Fetch!RecvSomeTx, Deliver!Fetch!RecvSomeTx,
           DP!Fetch!RecvTx, Deliver!Fetch!RecvTx, DP!Fetch!Tick, Deliver!Fetch!Tick,
           DP!Fetch!complete, Deliver!Fetch!complete, DP!Fetch!U32, Deliver!Fetch!U32
  <2> QED BY <2>1, <2>2 DEF DP!Fetch!Next, Deliver!Fetch!Next
<1>3. DP!Fetch!vars = Deliver!Fetch!vars /\ DP!Fetch!vars' = Deliver!Fetch!vars'
  BY SamePending DEF DP!Fetch!vars, Deliver!Fetch!vars, DP!Fetch!recvVars,
                     Deliver!Fetch!recvVars, DP!Fetch!sendVars, Deliver!Fetch!sendVars
<1> QED BY <1>1, <1>2, <1>3

\* The pool, its channels and its caches keep the promise the accounter relies on:
\* each request is answered once, by a complete answer, whichever worker takes what.
THEOREM BtcdImplementsFetch == Spec => ImplementsFetch
<1>1. DP!Spec => DP!Fetch!Spec
  BY DeliveryAssumption, DP!DeliveryImplementsFetch
<1>2. DP!Fetch!Spec => Deliver!Fetch!Spec
  BY SameFetch, PTL DEF DP!Fetch!Spec, Deliver!Fetch!Spec
<1> QED BY <1>1, <1>2, BtcdImplementsDelivery, PTL DEF ImplementsFetch

\* What the balance rests on, on this backend: when recvWork returns, every settled
\* transaction of a wallet that respects the gap limit has been fetched.
THEOREM BtcdWalletIsCovered == Spec => []Deliver!Fetch!WalletCovered
<1>1. DP!Spec => [](DP!Fetch!FetchComplete /\ DP!Fetch!WalletCovered)
  BY DeliveryAssumption, DP!DeliveryIsComplete
<1>2. DP!Fetch!WalletCovered => Deliver!Fetch!WalletCovered
  BY SamePending
  DEF DP!Fetch!WalletCovered, Deliver!Fetch!WalletCovered, DP!Fetch!GapRespected,
      Deliver!Fetch!GapRespected, DP!Fetch!Settled, Deliver!Fetch!Settled,
      DP!Fetch!Address, Deliver!Fetch!Address, DP!Fetch!Changes, Deliver!Fetch!Changes
<1> QED BY <1>1, <1>2, BtcdImplementsDelivery, PTL

\* Channels stay within their sizes and every worker is where it may be.
THEOREM BtcdTypes == Spec => []TypeOK
<1>1. DP!Ready /\ IInv => TypeOK
  BY DEF IInv
<1> QED BY <1>1, BtcdInvariant, PTL

\* Whichever way a transaction came, it is at the height of its block: cacheTxs of
\* any worker, a cache hit and the miss path agree.
THEOREM HeightsAreRight == Spec => []HeightsRight
<1>1. DP!Ready /\ IInv => HeightsRight
  BY DEF IInv
<1> QED BY <1>1, BtcdInvariant, PTL

\* A search that the node cut short at maxTxsPerAddr + 1 results never counts as an
\* address's history.
THEOREM NothingIsTruncated == Spec => []NeverTruncated
<1>1. DP!Ready => NeverTruncated
  BY DeliveryAssumption, DP!WholeAnswers, SameTerms DEF NeverTruncated
<1> QED BY <1>1, BtcdInvariant, PTL
=============================================================================
