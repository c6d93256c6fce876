------------------------- MODULE ElectrumBackendProofs -------------------------
(***************************************************************************)
(* Proofs about the accounter on the Electrum backend, for any servers that *)
(* come and go, chain, number of goroutines and size of the channels: it is *)
(* a backend as Delivery describes them, so that it implements Accounter,   *)
(* and the panics of its cache are not reached without cause.               *)
(***************************************************************************)
EXTENDS ElectrumBackend, TLAPS

DP == INSTANCE DeliveryProofs WITH
        Goroutine <- Conn,
        Heights   <- {Height[t] : t \in Tx} \cup {0},
        addrHeld  <- AddrHeld,
        txHeld    <- TxHeld

-----------------------------------------------------------------------------
(* The terms that this module and Delivery have in common.                  *)

TxReq == [from : Address, tx : Tx]
Reply == [addr : Address, txHashes : SUBSET Tx]
TxReply == [req : TxReq, height : {Height[t] : t \in Tx} \cup {0}]

\* Delivery's assumption is the one made here.
LEMMA DeliveryAssumption == DP!PipelineAssumption
<1>1. DP!Address = Address
  BY DEF DP!Address, DP!Changes, Address, Changes
<1> QED BY <1>1, PipelineAssumption DEF DP!PipelineAssumption, DP!IsFiniteSet, IsFiniteSet

\* They mean the same by these.
LEMMA SameTerms ==
  /\ DP!Address = Address /\ DP!TxReq = TxReq
  /\ \A a : DP!Answers(a) = Answers(a)
  /\ \A ch, size : DP!HasRoom(ch, size) <=> HasRoom(ch, size)
BY DEF DP!Address, DP!Changes, Address, Changes, DP!TxReq, TxReq, DP!Answers, Answers,
       DP!HasRoom, HasRoom

\* The accounter's goroutines take the same steps.
LEMMA SamePipeline == (DP!sendWork <=> sendWork) /\ (DP!recvWork <=> recvWork)
<1> USE DEF DP!recvVars, recvVars, DP!sendVars, sendVars, DP!channels, channels,
            DP!HasRoom, HasRoom
<1>1. DP!sendWork <=> sendWork
  BY DEF DP!sendWork, sendWork, DP!NextChange, NextChange, DP!DeriveAddr, DeriveAddr,
         DP!RequestAddr, RequestAddr, DP!countMuFree, countMuFree
<1>2. DP!recvWork <=> recvWork
  BY DEF DP!recvWork, recvWork, DP!RecvAddr, RecvAddr, DP!RequestTx, RequestTx,
         DP!RequestedTxs, RequestedTxs, DP!ExtendRange, ExtendRange, DP!RecvTx,
         RecvTx, DP!Tick, Tick, DP!complete, complete
<1> QED BY <1>1, <1>2

\* What the channels and the goroutines' hands hold, from Delivery's invariant.
LEMMA Typed ==
  ASSUME DP!Ready
  PROVE  /\ addrRequests \in Seq(Address) /\ txRequests \in Seq(TxReq)
         /\ addrResponses \in Seq(Reply) /\ txResponses \in Seq(TxReply)
         /\ \A k \in DOMAIN AddrHeld : AddrHeld[k] \in Address
         /\ \A k \in DOMAIN TxHeld : TxHeld[k] \in TxReq
         /\ history \in [Address -> SUBSET Tx]
BY DeliveryAssumption, DP!ChannelTypes, SameTerms DEF Reply, TxReply

-----------------------------------------------------------------------------
(* Facts about channels.                                                   *)

\* What a channel holds after a send.
LEMMA Sent ==
  ASSUME NEW S, NEW s \in Seq(S), NEW x \in S
  PROVE  /\ Len(Append(s, x)) = Len(s) + 1 /\ Len(s) \in Nat
         /\ \A i \in DOMAIN Append(s, x) :
              (i \in DOMAIN s /\ Append(s, x)[i] = s[i]) \/ Append(s, x)[i] = x
OBVIOUS

\* What it holds after a receive.
LEMMA Received ==
  ASSUME NEW S, NEW s \in Seq(S), s # <<>>
  PROVE  /\ Len(Tail(s)) = Len(s) - 1 /\ Len(s) \in Nat
         /\ Head(s) \in S /\ 1 \in DOMAIN s /\ Head(s) = s[1]
         /\ \A i \in DOMAIN Tail(s) : i + 1 \in DOMAIN s /\ Tail(s)[i] = s[i + 1]
OBVIOUS

\* The channels are within their sizes.
Sizes ==
  /\ Len(addrRequests) <= AddrChanSize /\ Len(addrResponses) <= AddrChanSize
  /\ Len(txRequests) <= TxChanSize /\ Len(txResponses) <= TxChanSize

\* They are so by the invariant.
LEMMA SizesOK == IInv => Sizes
BY DEF IInv, TypeOK, Sizes

-----------------------------------------------------------------------------
(* Steps of the accounter.                                                 *)

\* recvWork takes an answer, whose transactions are cached.
LEMMA RecvAddrKeeps ==
  ASSUME DP!Ready, IInv, RecvAddr,
         UNCHANGED <<pc, hand, txHeights, AddrHeld, TxHeld>>
  PROVE  Sizes' /\ CacheInv' /\ ListedInv'
<1>1. /\ addrResponses \in Seq(Reply) /\ addrResponses # <<>>
      /\ addrResponses' = Tail(addrResponses)
      /\ UNCHANGED <<transactions, addrRequests, txRequests, txResponses>>
  BY Typed DEF RecvAddr
<1>2. /\ Len(addrResponses') = Len(addrResponses) - 1 /\ Len(addrResponses) \in Nat
      /\ 1 \in DOMAIN addrResponses /\ Head(addrResponses) = addrResponses[1]
      /\ \A i \in DOMAIN addrResponses' :
           /\ i + 1 \in DOMAIN addrResponses
           /\ addrResponses'[i] = addrResponses[i + 1]
  BY <1>1, Received
<1>3. todo' \subseteq Head(addrResponses).txHashes
  BY DEF RecvAddr
<1>4. Head(addrResponses).txHashes \subseteq DOMAIN txHeights
  BY <1>2 DEF IInv, ListedInv
<1>5. ListedInv'
  BY <1>1, <1>2, <1>3, <1>4 DEF IInv, ListedInv
<1>6. Sizes'
  BY <1>1, <1>2, PipelineAssumption, SizesOK DEF Sizes
<1>7. CacheInv'
  BY <1>1 DEF IInv, CacheInv, MayReport
<1> QED BY <1>5, <1>6, <1>7

\* recvWork requests a transaction, which is cached.
LEMMA RequestTxKeeps ==
  ASSUME DP!Ready, IInv, RequestTx,
         UNCHANGED <<pc, hand, txHeights, AddrHeld, TxHeld>>
  PROVE  Sizes' /\ CacheInv' /\ ListedInv'
<1>1. PICK t \in todo : /\ txRequests' = Append(txRequests, [from |-> resp, tx |-> t])
                       /\ todo' = todo \ {t}
  BY DEF RequestTx
<1> DEFINE x == [from |-> resp, tx |-> t]
<1>2. x \in TxReq /\ x.tx = t
  <2>1. resp \in Address /\ todo \subseteq Tx
    BY DeliveryAssumption, DP!RecvTypes, SameTerms
  <2> QED BY <2>1 DEF TxReq
<1>3. /\ txRequests \in Seq(TxReq) /\ HasRoom(txRequests, TxChanSize)
      /\ UNCHANGED <<transactions, addrRequests, addrResponses, txResponses>>
  BY Typed DEF RequestTx
<1> HIDE DEF x
<1>4. txRequests' = Append(txRequests, x)
  BY <1>1 DEF x
<1>5. /\ Len(txRequests') = Len(txRequests) + 1 /\ Len(txRequests) \in Nat
      /\ \A i \in DOMAIN txRequests' :
           \/ i \in DOMAIN txRequests /\ txRequests'[i] = txRequests[i]
           \/ txRequests'[i] = x
  BY <1>2, <1>3, <1>4, Sent
<1>6. ListedInv'
  BY <1>1, <1>2, <1>3, <1>5 DEF IInv, ListedInv
<1>7. Sizes'
  BY <1>3, <1>5, PipelineAssumption, SizesOK DEF HasRoom, Sizes
<1>8. CacheInv'
  BY <1>3 DEF IInv, CacheInv, MayReport
<1> QED BY <1>6, <1>7, <1>8

\* recvWork takes a transaction, at a height that a server has reported.
LEMMA RecvTxKeeps ==
  ASSUME DP!Ready, IInv, RecvTx,
         UNCHANGED <<pc, hand, txHeights, AddrHeld, TxHeld>>
  PROVE  Sizes' /\ CacheInv' /\ ListedInv'
<1> DEFINE r == Head(txResponses)
<1>1. /\ txResponses \in Seq(TxReply) /\ txResponses # <<>>
      /\ txResponses' = Tail(txResponses)
      /\ UNCHANGED <<todo, addrRequests, addrResponses, txRequests>>
  BY Typed DEF RecvTx
<1>2. /\ Len(txResponses') = Len(txResponses) - 1 /\ Len(txResponses) \in Nat
      /\ 1 \in DOMAIN txResponses /\ r = txResponses[1] /\ r \in TxReply
      /\ \A i \in DOMAIN txResponses' :
           i + 1 \in DOMAIN txResponses /\ txResponses'[i] = txResponses[i + 1]
  BY <1>1, Received
<1>3. MayReport(r.req.tx, r.height) /\ r.req.tx \in Tx
  <2>1. r.req.tx \in Tx
    BY <1>2 DEF TxReply, TxReq
  <2> QED BY <1>2, <2>1 DEF IInv, CacheInv
<1>4. /\ DOMAIN transactions' = DOMAIN transactions \cup {r.req.tx}
      /\ \A y \in DOMAIN transactions' :
           transactions'[y] = IF y = r.req.tx THEN r.height ELSE transactions[y]
  BY DEF RecvTx
<1> HIDE DEF r
<1>5. \A y \in DOMAIN transactions' : MayReport(y, transactions'[y])
  BY <1>3, <1>4 DEF IInv, CacheInv
<1>6. \A i \in DOMAIN txResponses' :
        MayReport(txResponses'[i].req.tx, txResponses'[i].height)
  BY <1>2 DEF IInv, CacheInv
<1>7. CacheInv' /\ ListedInv'
  BY <1>1, <1>5, <1>6 DEF IInv, CacheInv, ListedInv, MayReport
<1>8. Sizes'
  BY <1>1, <1>2, PipelineAssumption, SizesOK DEF Sizes
<1> QED BY <1>7, <1>8

\* A step of the accounter is one that Delivery knows, and goroutines, connections
\* and cache stay as they are.
LEMMA AccounterStep ==
  ASSUME DP!Ready, IInv, accounter
  PROVE  IInv' /\ DP!Next
<1>1. UNCHANGED <<peerVars, hand, txHeights, finder, panicked, failures>>
  BY DEF accounter
<1>2. AddrHeld' = AddrHeld /\ TxHeld' = TxHeld
  BY <1>1 DEF peerVars, AddrHeld, TxHeld
<1>3. DP!Next
  BY <1>2, SamePipeline DEF accounter, DP!Next, DP!accounter
<1>4. history' = history
  BY DEF accounter, sendWork, NextChange, DeriveAddr, RequestAddr, recvWork, RecvAddr,
         RequestTx, RequestedTxs, ExtendRange, RecvTx, Tick
<1>5. HandInv'
  BY <1>1, <1>4 DEF IInv, HandInv, Answers, peerVars, MayReport
<1>6. UNCHANGED <<pc, hand, txHeights, AddrHeld, TxHeld>>
  BY <1>1, <1>2 DEF peerVars
<1>7. Sizes' /\ CacheInv' /\ ListedInv'
  <2>1. ASSUME UNCHANGED <<transactions, todo, addrRequests, addrResponses, txRequests,
                           txResponses>>
        PROVE  Sizes' /\ CacheInv' /\ ListedInv'
    BY <1>6, <2>1, SizesOK DEF Sizes, IInv, CacheInv, ListedInv, MayReport
  <2>2. CASE NextChange \/ DeriveAddr
    BY <2>1, <2>2 DEF NextChange, DeriveAddr, recvVars, channels
  <2>3. CASE RequestAddr
    <3> DEFINE x == <<change, indexes[change]>>
    <3>1. addrRequests' = Append(addrRequests, x) /\ HasRoom(addrRequests, AddrChanSize)
          /\ addrRequests \in Seq(Address)
          /\ UNCHANGED <<transactions, todo, addrResponses, txRequests, txResponses>>
      BY <2>3, Typed DEF RequestAddr, recvVars
    <3>2. Len(addrRequests') = Len(addrRequests) + 1 /\ Len(addrRequests) \in Nat
      <4> HIDE DEF x
      <4> QED BY <3>1
    <3>3. Sizes'
      BY <3>1, <3>2, PipelineAssumption, SizesOK DEF Sizes, HasRoom
    <3> QED BY <1>6, <3>1, <3>3 DEF IInv, CacheInv, ListedInv, MayReport
  <2>4. CASE RecvAddr
    BY <1>6, <2>4, RecvAddrKeeps
  <2>5. CASE RequestTx
    BY <1>6, <2>5, RequestTxKeeps
  <2>6. CASE RequestedTxs \/ ExtendRange \/ Tick
    BY <2>1, <2>6 DEF RequestedTxs, ExtendRange, Tick, channels
  <2>7. CASE RecvTx
    BY <1>6, <2>7, RecvTxKeeps
  <2> QED BY <2>2, <2>3, <2>4, <2>5, <2>6, <2>7 DEF accounter, sendWork, recvWork
<1>8. TypeOK'
  BY <1>1, <1>7 DEF IInv, TypeOK, Sizes, peerVars
<1>9. NoCacheMiss' /\ PanicJustified'
  BY <1>1 DEF IInv, NoCacheMiss, PanicJustified
<1> QED BY <1>3, <1>5, <1>7, <1>8, <1>9 DEF IInv

-----------------------------------------------------------------------------
(* Steps that move no request: servers are found, connect and go.           *)

\* Where a goroutine has a request in its hands.
Holding == {"replyAddr", "requeueAddr", "replyTx", "requeueTx"}

\* A step that moves no request keeps what is known of them.
LEMMA NothingMoves ==
  ASSUME IInv, TypeOK', UNCHANGED <<pipelineVars, hand, txHeights, panicked>>,
         \A k \in Conn : pc'[k] = pc[k] \/ (pc[k] \notin Holding /\ pc'[k] \notin Holding)
  PROVE  IInv' /\ UNCHANGED DP!vars
<1>1. AddrHeld' = AddrHeld /\ TxHeld' = TxHeld
  BY DEF AddrHeld, TxHeld, Holding
<1>2. UNCHANGED <<history, transactions, todo, addrRequests, addrResponses, txRequests,
                  txResponses>>
  BY DEF pipelineVars, recvVars, channels
<1>3. HandInv'
  BY <1>2 DEF IInv, HandInv, Holding, Answers, MayReport
<1>4. CacheInv' /\ ListedInv' /\ NoCacheMiss' /\ PanicJustified'
  BY <1>1, <1>2
  DEF IInv, CacheInv, ListedInv, NoCacheMiss, PanicJustified, MayReport
<1>5. UNCHANGED DP!vars
  BY <1>1 DEF pipelineVars, sendVars, recvVars, channels, DP!vars, DP!pipelineVars,
              DP!sendVars, DP!recvVars, DP!channels
<1> QED BY <1>3, <1>4, <1>5 DEF IInv

\* The channels are the same when the accounter is.
LEMMA SizesSame == ASSUME IInv, UNCHANGED pipelineVars PROVE Sizes'
BY SizesOK DEF Sizes, pipelineVars, channels

\* A goroutine adds its server.
LEMMA AddNodeStep ==
  ASSUME IInv, NEW k \in Conn, addNode(k)
  PROVE  IInv' /\ UNCHANGED DP!vars
<1>1. /\ UNCHANGED <<pipelineVars, hand, txHeights, finder, panicked, ident>>
      /\ \E label \in {"returned", "connect", "register", "select"} : goto(k, label)
      /\ pc[k] \in {"addNode", "connect", "register"}
  BY DEF addNode, CheckNode, Connect, ConnectFails, Register
<1>2. /\ \A j \in Conn : pc'[j] = pc[j] \/ (pc[j] \notin Holding /\ pc'[j] \notin Holding)
      /\ pc' \in [Conn -> {"unused", "addNode", "connect", "register", "select", "peers",
                          "replyAddr", "requeueAddr", "replyTx", "requeueTx", "returned"}]
  BY <1>1 DEF IInv, TypeOK, goto, Holding
<1>3. /\ up' \subseteq Conn /\ blacklistedNodes' \subseteq Ident
      /\ nodes' \in [DOMAIN nodes' -> Conn] /\ DOMAIN nodes' \subseteq Ident
      /\ failures' \in 0 .. MaxFailures
  <2>1. /\ up \subseteq Conn /\ blacklistedNodes \subseteq Ident /\ ident[k] \in Ident
        /\ nodes \in [DOMAIN nodes -> Conn] /\ DOMAIN nodes \subseteq Ident
        /\ failures \in 0 .. MaxFailures
    BY DEF IInv, TypeOK
  <2>2. CASE CheckNode(k)
    BY <2>1, <2>2 DEF CheckNode
  <2>3. CASE Connect(k)
    BY <2>1, <2>3 DEF Connect
  <2>4. CASE ConnectFails(k)
    BY <2>1, <2>4, ElectrumAssumption DEF ConnectFails
  <2>5. CASE Register(k)
    BY <2>1, <2>5 DEF Register
  <2> QED BY <2>2, <2>3, <2>4, <2>5 DEF addNode
<1>4. TypeOK'
  BY <1>1, <1>2, <1>3, SizesSame DEF IInv, TypeOK, Sizes
<1> QED BY <1>1, <1>2, <1>4, NothingMoves

\* The servers that are registered and the goroutines that are known.
NodesOK ==
  /\ up \subseteq Conn
  /\ nodes \in [DOMAIN nodes -> Conn] /\ DOMAIN nodes \subseteq Ident
  /\ failures \in 0 .. MaxFailures

\* Removing a server closes a connection and forgets the server.
LEMMA RemoveNodeOK ==
  ASSUME NodesOK, NEW k \in Conn, NEW i, NEW open \in OpenAfterFailure(k),
         CallFails(k), removeNode(i, open)
  PROVE  NodesOK'
<1>1. failures' \in 0 .. MaxFailures
  BY ElectrumAssumption DEF CallFails, NodesOK
<1>2. open \subseteq Conn
  BY DEF OpenAfterFailure, NodesOK
<1> QED BY <1>1, <1>2 DEF removeNode, NodesOK

\* findPeers asks a goroutine for more servers and the goroutine answers, or gives up;
\* Finish closes every connection; or nothing happens.
LEMMA PeersStep ==
  ASSUME IInv,
         \/ \E k \in Conn : TakePeers(k) \/ PeersReply(k) \/ PeersFail(k)
         \/ findPeers \/ Finish \/ UNCHANGED vars
  PROVE  IInv' /\ UNCHANGED DP!vars
<1> DEFINE Label == {"unused", "addNode", "connect", "register", "select", "peers",
                     "replyAddr", "requeueAddr", "replyTx", "requeueTx", "returned"}
           StaysOut == \A j \in Conn : \/ pc'[j] = pc[j]
                                       \/ pc[j] \notin Holding /\ pc'[j] \notin Holding
<1>1. UNCHANGED <<pipelineVars, hand, txHeights, panicked, blacklistedNodes>>
  BY DEF TakePeers, PeersReply, PeersFail, findPeers, Finish, vars, peerVars
<1>2. ASSUME StaysOut, pc' \in [Conn -> Label], ident' \in [Conn -> Ident], NodesOK',
             finder' \in {"ask", "asked", "sleep", "returned"}
      PROVE  IInv' /\ UNCHANGED DP!vars
  <2>1. TypeOK'
    BY <1>1, <1>2, SizesSame DEF IInv, TypeOK, Sizes, NodesOK
  <2> QED BY <1>1, <1>2, <2>1, NothingMoves
<1>3. /\ pc \in [Conn -> Label] /\ ident \in [Conn -> Ident] /\ NodesOK
      /\ finder \in {"ask", "asked", "sleep", "returned"}
  BY DEF IInv, TypeOK, NodesOK
<1>4. CASE \E k \in Conn : TakePeers(k)
  <2>1. StaysOut /\ pc' \in [Conn -> Label]
    BY <1>3, <1>4 DEF TakePeers, goto, Holding
  <2>2. ident' = ident /\ finder' = "asked" /\ UNCHANGED <<up, nodes, failures>>
    BY <1>4 DEF TakePeers
  <2>3. NodesOK'
    BY <1>3, <2>2 DEF NodesOK
  <2> QED BY <1>2, <1>3, <2>1, <2>2, <2>3
<1>5. CASE \E k \in Conn : PeersReply(k)
  <2>1. StaysOut /\ pc' \in [Conn -> Label]
    BY <1>3, <1>5 DEF PeersReply, Holding
  <2>2. ident' \in [Conn -> Ident] /\ finder' = finder /\ UNCHANGED <<up, nodes, failures>>
    BY <1>3, <1>5 DEF PeersReply, CallSucceeds
  <2>3. NodesOK'
    BY <1>3, <2>2 DEF NodesOK
  <2> QED BY <1>2, <1>3, <2>1, <2>2, <2>3
<1>6. CASE \E k \in Conn : PeersFail(k)
  <2>1. StaysOut /\ pc' \in [Conn -> Label]
    BY <1>3, <1>6 DEF PeersFail, goto, Holding
  <2>2. UNCHANGED <<ident, finder, nodes>>
    BY <1>6 DEF PeersFail
  <2>3. NodesOK'
    BY <1>3, <1>6, <2>2, ElectrumAssumption DEF NodesOK, PeersFail, CallFails, OpenAfterFailure
  <2> QED BY <1>2, <1>3, <2>1, <2>2, <2>3
<1>7. CASE findPeers
  <2>1. UNCHANGED <<pc, ident, up, nodes, failures>>
    BY <1>7 DEF findPeers, peerVars
  <2>2. finder' \in {"ask", "asked", "sleep", "returned"}
    BY <1>7 DEF findPeers
  <2>3. NodesOK'
    BY <1>3, <2>1 DEF NodesOK
  <2> QED BY <1>2, <1>3, <2>1, <2>2, <2>3
<1>8. CASE Finish
  <2>1. UNCHANGED <<pc, ident, finder, failures>>
    BY <1>8 DEF Finish
  <2>2. NodesOK'
    BY <1>3, <1>8 DEF NodesOK, Finish
  <2> QED BY <1>2, <1>3, <2>1, <2>2
<1>9. CASE UNCHANGED vars
  <2>1. UNCHANGED <<pc, ident, finder, up, nodes, failures>>
    BY <1>9 DEF vars, peerVars
  <2>2. NodesOK'
    BY <1>3, <2>1 DEF NodesOK
  <2> QED BY <1>2, <1>3, <2>1, <2>2
<1> QED BY <1>4, <1>5, <1>6, <1>7, <1>8, <1>9

-----------------------------------------------------------------------------
(* What any step of a goroutine with a request keeps.                      *)

\* A goroutine that goes from one state to another, with what it then holds.
Moves(k, label, x) == goto(k, label) /\ hold(k, x)

Labels == {"unused", "addNode", "connect", "register", "select", "peers",
           "replyAddr", "requeueAddr", "replyTx", "requeueTx", "returned"}

\* What a move of one goroutine leaves of the others.
LEMMA MovesOne ==
  ASSUME IInv, NEW k \in Conn, NEW label, NEW x, Moves(k, label, x)
  PROVE  /\ pc'[k] = label /\ hand'[k] = x
         /\ \A j \in Conn : j # k => pc'[j] = pc[j] /\ hand'[j] = hand[j]
         /\ hand' = [j \in Conn |-> hand'[j]]
         /\ DOMAIN pc' = Conn
BY DEF IInv, TypeOK, HandInv, Moves, goto, hold

\* The rest of HandInv is kept if the goroutine that moved has what it should: the
\* cache of heights only grows.
LEMMA HandKept ==
  ASSUME IInv, NEW k \in Conn, NEW label, NEW x, Moves(k, label, x),
         history' = history, DOMAIN txHeights \subseteq DOMAIN txHeights',
         label = "replyAddr" => /\ x = [addr |-> x.addr, txHashes |-> x.txHashes]
                                /\ x.txHashes \in Answers(x.addr)
                                /\ x.txHashes \subseteq DOMAIN txHeights',
         label = "replyTx" => /\ x = [req |-> x.req, height |-> x.height]
                              /\ MayReport(x.req.tx, x.height)
  PROVE  HandInv'
<1>1. \A a : Answers(a)' = Answers(a)
  BY DEF Answers
<1>2. \A t, n : MayReport(t, n)' = MayReport(t, n)
  BY DEF MayReport
<1> QED BY <1>1, <1>2, MovesOne DEF IInv, HandInv

\* So are the types, and the panic's cause.
LEMMA TypesKept ==
  ASSUME IInv, NEW k \in Conn, NEW label \in Labels, NEW x, Moves(k, label, x),
         Sizes', NodesOK', UNCHANGED <<ident, blacklistedNodes, finder, panicked>>,
         DOMAIN txHeights \subseteq DOMAIN txHeights', DOMAIN txHeights' \subseteq Tx
  PROVE  TypeOK' /\ NoCacheMiss' /\ PanicJustified'
<1>1. pc' \in [Conn -> Labels]
  BY DEF IInv, TypeOK, Moves, goto, Labels
<1>2. TypeOK'
  BY <1>1 DEF IInv, TypeOK, Sizes, NodesOK, Labels
<1>3. NoCacheMiss' /\ PanicJustified'
  BY DEF IInv, NoCacheMiss, PanicJustified
<1> QED BY <1>2, <1>3

\* The heights known stay as they are.
LEMMA CacheKept ==
  ASSUME IInv, UNCHANGED <<txHeights, txResponses, transactions>>
  PROVE  CacheInv'
BY DEF IInv, CacheInv, MayReport

\* What is cached stays cached.
LEMMA ListedKept ==
  ASSUME IInv, UNCHANGED <<addrResponses, todo, txRequests, TxHeld>>,
         DOMAIN txHeights \subseteq DOMAIN txHeights'
  PROVE  ListedInv'
BY DEF IInv, ListedInv

\* Where no call fails the servers are as they were.
LEMMA NodesKept ==
  ASSUME IInv, UNCHANGED <<up, nodes, failures>>
  PROVE  NodesOK'
BY DEF IInv, TypeOK, NodesOK

\* The channels after a receive from addrRequests.
LEMMA AddrTaken ==
  ASSUME DP!Ready, IInv, addrRequests # <<>>, addrRequests' = Tail(addrRequests),
         UNCHANGED <<addrResponses, txRequests, txResponses>>
  PROVE  Sizes'
<1>1. Len(addrRequests') = Len(addrRequests) - 1 /\ Len(addrRequests) \in Nat
  BY Typed, Received
<1> QED BY <1>1, SizesOK, PipelineAssumption DEF Sizes

\* The channels after a receive from txRequests: what is left was there before.
LEMMA TxTaken ==
  ASSUME DP!Ready, IInv, txRequests # <<>>, txRequests' = Tail(txRequests),
         UNCHANGED <<addrResponses, addrRequests, txResponses>>
  PROVE  /\ Sizes' /\ Head(txRequests) \in TxReq
         /\ Head(txRequests).tx \in DOMAIN txHeights
         /\ \A i \in DOMAIN txRequests' : txRequests'[i].tx \in DOMAIN txHeights
<1>1. txRequests \in Seq(TxReq)
  BY Typed
<1>2. /\ Len(txRequests') = Len(txRequests) - 1 /\ Len(txRequests) \in Nat
      /\ Head(txRequests) \in TxReq
      /\ 1 \in DOMAIN txRequests /\ Head(txRequests) = txRequests[1]
      /\ \A i \in DOMAIN txRequests' :
           i + 1 \in DOMAIN txRequests /\ txRequests'[i] = txRequests[i + 1]
  BY <1>1, Received
<1>3. Sizes'
  BY <1>2, SizesOK, PipelineAssumption DEF Sizes
<1> QED BY <1>2, <1>3 DEF IInv, ListedInv

-----------------------------------------------------------------------------
(* Steps of a goroutine with an address request.                           *)

\* A goroutine takes an address request, and the answer has passed cacheTxs.
LEMMA AddrCachedStep ==
  ASSUME DP!Ready, IInv, NEW k \in Conn, TakeAddr(k), panicked' = panicked,
         NEW h \in Answers(Head(addrRequests)), NEW f \in HeightsOf(h),
         addrRequests' = Tail(addrRequests), txHeights' = cacheTxs(h, f),
         Moves(k, "replyAddr", [addr |-> Head(addrRequests), txHashes |-> h])
  PROVE  IInv' /\ DP!TakeAddr(k)
<1> DEFINE r == Head(addrRequests)
           y == [addr |-> r, txHashes |-> h]
<1>0. /\ pc[k] = "select" /\ addrRequests # <<>> /\ history' = history
      /\ UNCHANGED <<ident, up, nodes, failures, blacklistedNodes, finder, todo,
                     transactions, addrResponses, txRequests, txResponses>>
  BY DEF TakeAddr, CallSucceeds, recvVars
<1>1. h \subseteq Tx
  <2>1. r \in Address
    BY <1>0, Typed, Received
  <2> QED BY <2>1, Typed DEF Answers
<1>2. /\ DOMAIN txHeights' = DOMAIN txHeights \cup h
      /\ \A t \in DOMAIN txHeights' : MayReport(t, txHeights'[t])
  <2>1. \A t \in h : MayReport(t, f[t])
    BY DEF HeightsOf
  <2> QED BY <2>1 DEF cacheTxs, IInv, CacheInv
<1>3. /\ Moves(k, "replyAddr", y) /\ y = [addr |-> y.addr, txHashes |-> y.txHashes]
      /\ y.addr = r /\ y.txHashes = h
  OBVIOUS
<1> HIDE DEF y, r
<1>4. AddrHeld' = DP!takes(AddrHeld, k, r) /\ TxHeld' = TxHeld /\ k \notin DOMAIN AddrHeld
  BY <1>0, <1>3, MovesOne DEF AddrHeld, TxHeld, DP!takes
<1>5. HandInv'
  <2>1. h \in Answers(r)
    BY DEF r
  <2> QED BY <1>0, <1>2, <1>3, <2>1, HandKept
<1>6. DP!TakeAddr(k)
  BY <1>4 DEF r, TakeAddr, DP!TakeAddr, DP!sendVars, sendVars, DP!recvVars, recvVars
<1>7. Sizes' /\ NodesOK'
  BY <1>0, AddrTaken, NodesKept
<1>8. TypeOK' /\ NoCacheMiss' /\ PanicJustified'
  <2>1. "replyAddr" \in Labels /\ DOMAIN txHeights' \subseteq Tx
    BY <1>1, <1>2 DEF Labels, IInv, TypeOK
  <2> QED BY <1>0, <1>2, <1>3, <1>7, <2>1, TypesKept
<1>9. CacheInv'
  BY <1>0, <1>2 DEF IInv, CacheInv, MayReport
<1>10. ListedInv'
  BY <1>0, <1>2, <1>4, ListedKept
<1> QED BY <1>5, <1>6, <1>8, <1>9, <1>10 DEF IInv

\* cacheTxs panics, for the sake of a transaction that two servers, or one at two
\* times, may report at two heights.
LEMMA InconsistentStep ==
  ASSUME DP!Ready, IInv, NEW k \in Conn, TakeAddr(k),
         NEW h \in Answers(Head(addrRequests)), NEW f \in HeightsOf(h),
         NEW t \in inconsistent(h, f),
         panicked' = [why |-> "inconsistent cache", tx |-> t,
                      cached |-> txHeights[t], listed |-> f[t]],
         UNCHANGED <<addrRequests, pc, hand, txHeights>>
  PROVE  IInv' /\ UNCHANGED DP!vars
<1>1. /\ UNCHANGED pipelineVars
      /\ UNCHANGED <<ident, up, nodes, failures, blacklistedNodes, finder>>
  BY DEF TakeAddr, CallSucceeds, pipelineVars, channels
<1>2. t \in h \cap DOMAIN txHeights /\ txHeights[t] # f[t] /\ t \in Tx
  BY DEF inconsistent, IInv, TypeOK
<1>3. MayReport(t, f[t]) /\ MayReport(t, txHeights[t])
  BY <1>2 DEF HeightsOf, IInv, CacheInv
<1>4. /\ t \in Recent /\ {txHeights[t], f[t]} = {0, Height[t]}
      /\ txHeights[t] \in Nat /\ f[t] \in Nat
  <2>1. /\ t \in Recent /\ Height[t] \in Nat
        /\ \/ txHeights[t] = 0 /\ f[t] = Height[t]
           \/ txHeights[t] = Height[t] /\ f[t] = 0
    BY <1>2, <1>3, ElectrumAssumption DEF MayReport
  <2>2. \A a, b, c : (a = 0 /\ b = c) \/ (a = c /\ b = 0) => {a, b} = {0, c}
    OBVIOUS
  <2>3. 0 \in Nat
    OBVIOUS
  <2> QED BY <2>1, <2>2, <2>3, Zenon
<1>5. PanicJustified' /\ NoCacheMiss'
  BY <1>4 DEF PanicJustified, NoCacheMiss
<1>6. AddrHeld' = AddrHeld /\ TxHeld' = TxHeld
  BY DEF AddrHeld, TxHeld
<1>7. UNCHANGED DP!vars
  BY <1>1, <1>6 DEF pipelineVars, sendVars, recvVars, channels, DP!vars,
                    DP!pipelineVars, DP!sendVars, DP!recvVars, DP!channels
<1>8. TypeOK'
  <2>1. panicked' \in Panics
    BY <1>2, <1>4 DEF Panics
  <2> QED BY <1>1, <2>1, SizesSame DEF IInv, TypeOK, Sizes
<1>9. UNCHANGED <<history, transactions, todo, addrResponses, txRequests, txResponses>>
  BY <1>1 DEF pipelineVars, recvVars, channels
<1>10. HandInv'
  BY <1>9 DEF IInv, HandInv, Answers, MayReport
<1>11. CacheInv' /\ ListedInv'
  BY <1>6, <1>9, CacheKept, ListedKept
<1> QED BY <1>5, <1>7, <1>8, <1>10, <1>11 DEF IInv

\* So a goroutine that takes an address request is one of Delivery's, or the process
\* dies.
LEMMA TakeAddrStep ==
  ASSUME DP!Ready, IInv, NEW k \in Conn, TakeAddr(k)
  PROVE  IInv' /\ (DP!TakeAddr(k) \/ UNCHANGED DP!vars)
<1> DEFINE Conflict(h, f) ==
        /\ \E t \in inconsistent(h, f) :
             panicked' = [why |-> "inconsistent cache", tx |-> t,
                          cached |-> txHeights[t], listed |-> f[t]]
        /\ UNCHANGED <<addrRequests, pc, hand, txHeights>>
      Cached(h, f) ==
        /\ addrRequests' = Tail(addrRequests)
        /\ txHeights' = cacheTxs(h, f)
        /\ goto(k, "replyAddr")
        /\ hold(k, [addr |-> Head(addrRequests), txHashes |-> h])
        /\ UNCHANGED panicked
<1>1. PICK h \in Answers(Head(addrRequests)) :
        \E f \in HeightsOf(h) : Conflict(h, f) \/ Cached(h, f)
  BY DEF TakeAddr
<1>2. PICK f \in HeightsOf(h) : Conflict(h, f) \/ Cached(h, f)
  BY <1>1
<1>3. CASE Conflict(h, f)
  BY <1>3, InconsistentStep
<1>4. CASE Cached(h, f)
  BY <1>4, AddrCachedStep DEF Moves
<1> QED BY <1>2, <1>3, <1>4

\* The answer is sent.
LEMMA ReplyAddrStep ==
  ASSUME DP!Ready, IInv, NEW k \in Conn, ReplyAddr(k)
  PROVE  IInv' /\ DP!ReplyAddr(k)
<1> DEFINE m == hand[k]
<1>0. /\ pc[k] = "replyAddr" /\ m = [addr |-> m.addr, txHashes |-> m.txHashes]
      /\ m.txHashes \in Answers(m.addr) /\ m.txHashes \subseteq DOMAIN txHeights
      /\ k \in DOMAIN AddrHeld /\ AddrHeld[k] = m.addr
      /\ addrResponses' = Append(addrResponses, m)
      /\ HasRoom(addrResponses, AddrChanSize) /\ history' = history
      /\ UNCHANGED <<txHeights, ident, up, nodes, failures, blacklistedNodes, finder,
                     panicked, todo, transactions, addrRequests, txRequests, txResponses>>
  BY DEF ReplyAddr, IInv, HandInv, AddrHeld, recvVars
<1>1. Moves(k, "select", Nothing)
  BY DEF ReplyAddr, Moves
<1>2. AddrHeld' = DP!leaves(AddrHeld, k) /\ TxHeld' = TxHeld
  BY <1>0, <1>1, MovesOne DEF AddrHeld, TxHeld, DP!leaves
<1>3. HandInv'
  BY <1>0, <1>1, HandKept
<1>4. m \in Reply
  <2>1. m.addr \in Address
    BY <1>0, Typed
  <2>2. m.txHashes \subseteq Tx
    BY <1>0, <2>1, Typed DEF Answers
  <2> QED BY <1>0, <2>1, <2>2 DEF Reply
<1>5. DP!ReplyAddr(k)
  <2>1. m.txHashes \in DP!Answers(AddrHeld[k]) /\ DP!HasRoom(addrResponses, AddrChanSize)
    BY <1>0, SameTerms
  <2>2. \E h \in DP!Answers(AddrHeld[k]) :
          addrResponses' = Append(addrResponses, [addr |-> AddrHeld[k], txHashes |-> h])
    BY <1>0, <2>1
  <2> QED BY <1>0, <1>2, <2>1, <2>2
          DEF ReplyAddr, DP!ReplyAddr, DP!sendVars, sendVars, DP!recvVars, recvVars
<1> HIDE DEF m
<1>6. /\ Len(addrResponses') = Len(addrResponses) + 1 /\ Len(addrResponses) \in Nat
      /\ \A i \in DOMAIN addrResponses' :
           \/ i \in DOMAIN addrResponses /\ addrResponses'[i] = addrResponses[i]
           \/ addrResponses'[i] = m
  BY <1>0, <1>4, Typed, Sent
<1>7. ListedInv'
  BY <1>0, <1>2, <1>6 DEF IInv, ListedInv
<1>8. Sizes' /\ NodesOK'
  BY <1>0, <1>6, PipelineAssumption, SizesOK, NodesKept DEF HasRoom, Sizes
<1>9. TypeOK' /\ NoCacheMiss' /\ PanicJustified'
  <2>1. "select" \in Labels /\ DOMAIN txHeights' \subseteq Tx
    BY <1>0 DEF Labels, IInv, TypeOK
  <2> QED BY <1>0, <1>1, <1>8, <2>1, TypesKept
<1>10. CacheInv'
  BY <1>0, CacheKept
<1> QED BY <1>3, <1>5, <1>7, <1>9, <1>10 DEF IInv

\* A call fails: the goroutine takes the request and removes its server.
LEMMA AddrFailsStep ==
  ASSUME DP!Ready, IInv, NEW k \in Conn, AddrFails(k)
  PROVE  IInv' /\ DP!TakeAddr(k)
<1> DEFINE r == Head(addrRequests)
           y == [addr |-> r]
<1>0. /\ pc[k] = "select" /\ addrRequests # <<>> /\ history' = history
      /\ addrRequests' = Tail(addrRequests)
      /\ UNCHANGED <<ident, blacklistedNodes, finder, todo, txHeights, panicked,
                     transactions, addrResponses, txRequests, txResponses>>
  BY DEF AddrFails, recvVars
<1>1. Moves(k, "requeueAddr", y) /\ y.addr = r
  BY DEF AddrFails, Moves
<1> HIDE DEF y, r
<1>2. AddrHeld' = DP!takes(AddrHeld, k, r) /\ TxHeld' = TxHeld /\ k \notin DOMAIN AddrHeld
  BY <1>0, <1>1, MovesOne DEF AddrHeld, TxHeld, DP!takes
<1>3. HandInv'
  BY <1>0, <1>1, HandKept
<1>4. DP!TakeAddr(k)
  BY <1>2 DEF r, AddrFails, DP!TakeAddr, DP!sendVars, sendVars, DP!recvVars, recvVars
<1>5. Sizes' /\ NodesOK'
  <2>1. NodesOK
    BY DEF IInv, TypeOK, NodesOK
  <2> QED BY <1>0, <2>1, AddrTaken, RemoveNodeOK DEF AddrFails
<1>6. TypeOK' /\ NoCacheMiss' /\ PanicJustified'
  <2>1. "requeueAddr" \in Labels /\ DOMAIN txHeights' \subseteq Tx
    BY <1>0 DEF Labels, IInv, TypeOK
  <2> QED BY <1>0, <1>1, <1>5, <2>1, TypesKept
<1>7. CacheInv' /\ ListedInv'
  BY <1>0, <1>2, CacheKept, ListedKept
<1> QED BY <1>3, <1>4, <1>6, <1>7 DEF IInv

\* The request goes to the back of its channel.
LEMMA RequeueAddrStep ==
  ASSUME DP!Ready, IInv, NEW k \in Conn, RequeueAddr(k)
  PROVE  IInv' /\ DP!RequeueAddr(k)
<1> DEFINE r == hand[k].addr
<1>0. /\ pc[k] = "requeueAddr" /\ k \in DOMAIN AddrHeld /\ AddrHeld[k] = r
      /\ addrRequests' = Append(addrRequests, r)
      /\ HasRoom(addrRequests, AddrChanSize) /\ history' = history
      /\ UNCHANGED <<txHeights, ident, up, nodes, failures, blacklistedNodes, finder,
                     panicked, todo, transactions, addrResponses, txRequests, txResponses>>
  BY DEF RequeueAddr, requeue, AddrHeld, recvVars
<1>1. Moves(k, "returned", Nothing)
  BY DEF RequeueAddr, Moves
<1>2. AddrHeld' = DP!leaves(AddrHeld, k) /\ TxHeld' = TxHeld
  BY <1>0, <1>1, MovesOne DEF AddrHeld, TxHeld, DP!leaves
<1>3. HandInv'
  BY <1>0, <1>1, HandKept
<1>4. DP!RequeueAddr(k)
  BY <1>0, <1>2, SameTerms
  DEF RequeueAddr, DP!RequeueAddr, DP!sendVars, sendVars, DP!recvVars, recvVars
<1> HIDE DEF r
<1>5. Len(addrRequests') = Len(addrRequests) + 1 /\ Len(addrRequests) \in Nat
  <2>1. r \in Address /\ addrRequests \in Seq(Address)
    BY <1>0, Typed
  <2> QED BY <1>0, <2>1, Sent
<1>6. Sizes' /\ NodesOK'
  BY <1>0, <1>5, PipelineAssumption, SizesOK, NodesKept DEF HasRoom, Sizes
<1>7. TypeOK' /\ NoCacheMiss' /\ PanicJustified'
  <2>1. "returned" \in Labels /\ DOMAIN txHeights' \subseteq Tx
    BY <1>0 DEF Labels, IInv, TypeOK
  <2> QED BY <1>0, <1>1, <1>6, <2>1, TypesKept
<1>8. CacheInv' /\ ListedInv'
  BY <1>0, <1>2, CacheKept, ListedKept
<1> QED BY <1>3, <1>4, <1>7, <1>8 DEF IInv

-----------------------------------------------------------------------------
(* Steps of a goroutine with a transaction request.                        *)

\* A goroutine that takes a transaction request, to answer it or to put it back, takes
\* one whose transaction is cached.
LEMMA TxTakenStep ==
  ASSUME DP!Ready, IInv, NEW k \in Conn, NEW label \in {"replyTx", "requeueTx"}, NEW y,
         pc[k] = "select", txRequests # <<>>, txRequests' = Tail(txRequests),
         Moves(k, label, y), y.req = Head(txRequests),
         label = "replyTx" => /\ y = [req |-> y.req, height |-> y.height]
                              /\ MayReport(y.req.tx, y.height),
         NodesOK',
         UNCHANGED <<history, sendVars, recvVars, addrRequests, addrResponses, txResponses,
                     ident, blacklistedNodes, txHeights, finder, panicked>>
  PROVE  IInv' /\ DP!TakeTx(k)
<1> DEFINE q == Head(txRequests)
<1>0. UNCHANGED <<todo, transactions>>
  BY DEF recvVars
<1>1. /\ Sizes' /\ q \in TxReq /\ q.tx \in DOMAIN txHeights
      /\ \A i \in DOMAIN txRequests' : txRequests'[i].tx \in DOMAIN txHeights
  BY TxTaken
<1>2. y.req = q
  OBVIOUS
<1>3. AddrHeld' = AddrHeld /\ TxHeld' = DP!takes(TxHeld, k, q) /\ k \notin DOMAIN TxHeld
  <2> HIDE DEF q
  <2> QED BY <1>2, MovesOne DEF AddrHeld, TxHeld, DP!takes
<1>4. HandInv'
  BY HandKept
<1>5. DP!TakeTx(k)
  BY <1>3 DEF DP!TakeTx, DP!sendVars, sendVars, DP!recvVars, recvVars
<1> HIDE DEF q
<1>6. TypeOK' /\ NoCacheMiss' /\ PanicJustified'
  <2>1. label \in Labels /\ DOMAIN txHeights' \subseteq Tx
    BY DEF Labels, IInv, TypeOK
  <2> QED BY <1>1, <2>1, TypesKept
<1>7. ListedInv'
  <2>1. \A j \in DOMAIN TxHeld' : TxHeld'[j].tx \in DOMAIN txHeights
    BY <1>1, <1>3 DEF DP!takes, IInv, ListedInv
  <2> QED BY <1>0, <1>1, <2>1 DEF IInv, ListedInv
<1>8. CacheInv'
  BY <1>0, CacheKept
<1> QED BY <1>4, <1>5, <1>6, <1>7, <1>8 DEF IInv

\* The transaction is fetched, at the height that the cache has for it: there is one.
LEMMA TakeTxStep ==
  ASSUME DP!Ready, IInv, NEW k \in Conn, TakeTx(k)
  PROVE  IInv' /\ DP!TakeTx(k)
<1> DEFINE q == Head(txRequests)
           y == [req |-> q, height |-> txHeights[q.tx]]
<1>1. txRequests # <<>> /\ txRequests \in Seq(TxReq)
  BY Typed DEF TakeTx
<1>2. q.tx \in DOMAIN txHeights
  <2>1. 1 \in DOMAIN txRequests /\ q = txRequests[1]
    BY <1>1, Received
  <2> QED BY <2>1 DEF IInv, ListedInv
<1>3. /\ pc[k] = "select" /\ txRequests' = Tail(txRequests) /\ Moves(k, "replyTx", y)
      /\ UNCHANGED <<history, sendVars, recvVars, addrRequests, addrResponses, txResponses,
                     ident, up, nodes, failures, blacklistedNodes, txHeights, finder,
                     panicked>>
  BY <1>2 DEF TakeTx, Moves, CallSucceeds
<1>4. y.req = q /\ y = [req |-> y.req, height |-> y.height] /\ MayReport(y.req.tx, y.height)
  BY <1>2 DEF IInv, CacheInv
<1>5. NodesOK'
  BY <1>3, NodesKept
<1> HIDE DEF y
<1> QED BY <1>1, <1>3, <1>4, <1>5, TxTakenStep

\* A call fails: the goroutine takes the request and removes its server.
LEMMA TxFailsStep ==
  ASSUME DP!Ready, IInv, NEW k \in Conn, TxFails(k)
  PROVE  IInv' /\ DP!TakeTx(k)
<1> DEFINE y == [req |-> Head(txRequests)]
<1>1. /\ pc[k] = "select" /\ txRequests # <<>> /\ txRequests' = Tail(txRequests)
      /\ Moves(k, "requeueTx", y) /\ y.req = Head(txRequests)
      /\ UNCHANGED <<history, sendVars, recvVars, addrRequests, addrResponses, txResponses,
                     ident, blacklistedNodes, txHeights, finder, panicked>>
  BY DEF TxFails, Moves
<1>2. NodesOK'
  <2>1. NodesOK
    BY DEF IInv, TypeOK, NodesOK
  <2> QED BY <2>1, RemoveNodeOK DEF TxFails
<1> HIDE DEF y
<1> QED BY <1>1, <1>2, TxTakenStep

\* The transaction is sent.
LEMMA ReplyTxStep ==
  ASSUME DP!Ready, IInv, NEW k \in Conn, ReplyTx(k)
  PROVE  IInv' /\ DP!ReplyTx(k)
<1> DEFINE m == hand[k]
<1>0. /\ pc[k] = "replyTx" /\ m = [req |-> m.req, height |-> m.height]
      /\ MayReport(m.req.tx, m.height)
      /\ k \in DOMAIN TxHeld /\ TxHeld[k] = m.req
      /\ txResponses' = Append(txResponses, m)
      /\ HasRoom(txResponses, TxChanSize) /\ history' = history
      /\ UNCHANGED <<txHeights, ident, up, nodes, failures, blacklistedNodes, finder,
                     panicked, todo, transactions, addrRequests, addrResponses, txRequests>>
  BY DEF ReplyTx, IInv, HandInv, TxHeld, recvVars
<1>1. Moves(k, "select", Nothing)
  BY DEF ReplyTx, Moves
<1>2. AddrHeld' = AddrHeld /\ TxHeld' = DP!leaves(TxHeld, k)
  BY <1>0, <1>1, MovesOne DEF AddrHeld, TxHeld, DP!leaves
<1>3. HandInv'
  BY <1>0, <1>1, HandKept
<1>4. m.req \in TxReq /\ m.height \in {Height[t] : t \in Tx} \cup {0}
  <2>1. m.req \in TxReq
    BY <1>0, Typed
  <2>2. m.req.tx \in Tx
    BY <2>1 DEF TxReq
  <2> QED BY <1>0, <2>1, <2>2 DEF MayReport
<1>5. DP!ReplyTx(k)
  <2>1. DP!HasRoom(txResponses, TxChanSize)
    BY <1>0, SameTerms
  <2>2. \E n \in {Height[t] : t \in Tx} \cup {0} :
          txResponses' = Append(txResponses, [req |-> TxHeld[k], height |-> n])
    BY <1>0, <1>4
  <2> QED BY <1>0, <1>2, <2>1, <2>2
          DEF ReplyTx, DP!ReplyTx, DP!sendVars, sendVars, DP!recvVars, recvVars
<1>6. m \in TxReply
  BY <1>0, <1>4 DEF TxReply
<1> HIDE DEF m
<1>7. /\ Len(txResponses') = Len(txResponses) + 1 /\ Len(txResponses) \in Nat
      /\ \A i \in DOMAIN txResponses' :
           \/ i \in DOMAIN txResponses /\ txResponses'[i] = txResponses[i]
           \/ txResponses'[i] = m
  BY <1>0, <1>6, Typed, Sent
<1>8. CacheInv'
  <2>1. \A i \in DOMAIN txResponses' :
          MayReport(txResponses'[i].req.tx, txResponses'[i].height)
    BY <1>0, <1>7 DEF IInv, CacheInv
  <2> QED BY <1>0, <2>1 DEF IInv, CacheInv, MayReport
<1>9. Sizes' /\ NodesOK'
  BY <1>0, <1>7, PipelineAssumption, SizesOK, NodesKept DEF HasRoom, Sizes
<1>10. TypeOK' /\ NoCacheMiss' /\ PanicJustified'
  <2>1. "select" \in Labels /\ DOMAIN txHeights' \subseteq Tx
    BY <1>0 DEF Labels, IInv, TypeOK
  <2> QED BY <1>0, <1>1, <1>9, <2>1, TypesKept
<1>11. ListedInv'
  BY <1>0, <1>2 DEF IInv, ListedInv, DP!leaves
<1> QED BY <1>3, <1>5, <1>8, <1>10, <1>11 DEF IInv

\* The request goes to the back of its channel.
LEMMA RequeueTxStep ==
  ASSUME DP!Ready, IInv, NEW k \in Conn, RequeueTx(k)
  PROVE  IInv' /\ DP!RequeueTx(k)
<1> DEFINE q == hand[k].req
<1>0. /\ pc[k] = "requeueTx" /\ k \in DOMAIN TxHeld /\ TxHeld[k] = q
      /\ txRequests' = Append(txRequests, q)
      /\ HasRoom(txRequests, TxChanSize) /\ history' = history
      /\ UNCHANGED <<txHeights, ident, up, nodes, failures, blacklistedNodes, finder,
                     panicked, todo, transactions, addrRequests, addrResponses, txResponses>>
  BY DEF RequeueTx, requeue, TxHeld, recvVars
<1>1. Moves(k, "returned", Nothing)
  BY DEF RequeueTx, Moves
<1>2. AddrHeld' = AddrHeld /\ TxHeld' = DP!leaves(TxHeld, k)
  BY <1>0, <1>1, MovesOne DEF AddrHeld, TxHeld, DP!leaves
<1>3. HandInv'
  BY <1>0, <1>1, HandKept
<1>4. DP!RequeueTx(k)
  BY <1>0, <1>2, SameTerms
  DEF RequeueTx, DP!RequeueTx, DP!sendVars, sendVars, DP!recvVars, recvVars
<1> HIDE DEF q
<1>5. /\ Len(txRequests') = Len(txRequests) + 1 /\ Len(txRequests) \in Nat
      /\ \A i \in DOMAIN txRequests' :
           \/ i \in DOMAIN txRequests /\ txRequests'[i] = txRequests[i]
           \/ txRequests'[i] = q
  <2>1. q \in TxReq /\ txRequests \in Seq(TxReq)
    BY <1>0, Typed
  <2> QED BY <1>0, <2>1, Sent
<1>6. Sizes' /\ NodesOK'
  BY <1>0, <1>5, PipelineAssumption, SizesOK, NodesKept DEF HasRoom, Sizes
<1>7. TypeOK' /\ NoCacheMiss' /\ PanicJustified'
  <2>1. "returned" \in Labels /\ DOMAIN txHeights' \subseteq Tx
    BY <1>0 DEF Labels, IInv, TypeOK
  <2> QED BY <1>0, <1>1, <1>6, <2>1, TypesKept
<1>8. ListedInv'
  BY <1>0, <1>2, <1>5 DEF IInv, ListedInv, DP!leaves
<1>9. CacheInv'
  BY <1>0, CacheKept
<1> QED BY <1>3, <1>4, <1>7, <1>8, <1>9 DEF IInv

-----------------------------------------------------------------------------
(* The invariant, and what follows from it.                                *)

\* The initial state stands for Delivery's.
LEMMA ElectrumInit == Init => IInv /\ DP!Init
<1> SUFFICES ASSUME Init PROVE IInv /\ DP!Init
  OBVIOUS
<1>1. AddrHeld = [g \in {} |-> <<0, 0>>] /\ TxHeld = [g \in {} |-> <<0, 0>>]
  BY DEF Init, AddrHeld, TxHeld
<1>2. DP!Init
  BY <1>1 DEF Init, DP!Init, PipelineInit, DP!PipelineInit, Changes, DP!Changes
<1>3. TypeOK
  BY PipelineAssumption, ElectrumAssumption DEF Init, PipelineInit, TypeOK, Panics
<1>4. HandInv /\ CacheInv
  BY DEF Init, PipelineInit, HandInv, CacheInv
<1>5. ListedInv /\ NoCacheMiss /\ PanicJustified
  BY <1>1 DEF Init, PipelineInit, ListedInv, NoCacheMiss, PanicJustified, NotPanicked
<1> QED BY <1>2, <1>3, <1>4, <1>5 DEF IInv

\* Every step is one that Delivery allows, or nothing to it.
LEMMA ElectrumStep ==
  ASSUME DP!Ready, IInv, [Next]_vars
  PROVE  IInv' /\ [DP!Next]_DP!vars
<1>1. CASE accounter
  BY <1>1, AccounterStep
<1>2. CASE Finish \/ findPeers \/ UNCHANGED vars
  BY <1>2, PeersStep
<1>3. ASSUME NEW k \in Conn, addNode(k)
      PROVE  IInv' /\ [DP!Next]_DP!vars
  BY <1>3, AddNodeStep
<1>4. ASSUME NEW k \in Conn, processRequests(k)
      PROVE  IInv' /\ [DP!Next]_DP!vars
  <2>1. CASE TakePeers(k) \/ PeersReply(k) \/ PeersFail(k)
    BY <2>1, PeersStep
  <2>2. CASE TakeAddr(k)
    BY <2>2, TakeAddrStep DEF DP!Next, DP!processRequests
  <2>3. CASE ReplyAddr(k)
    BY <2>3, ReplyAddrStep DEF DP!Next, DP!processRequests
  <2>4. CASE AddrFails(k)
    BY <2>4, AddrFailsStep DEF DP!Next, DP!processRequests
  <2>5. CASE RequeueAddr(k)
    BY <2>5, RequeueAddrStep DEF DP!Next, DP!processRequests
  <2>6. CASE TakeTx(k)
    BY <2>6, TakeTxStep DEF DP!Next, DP!processRequests
  <2>7. CASE ReplyTx(k)
    BY <2>7, ReplyTxStep DEF DP!Next, DP!processRequests
  <2>8. CASE TxFails(k)
    BY <2>8, TxFailsStep DEF DP!Next, DP!processRequests
  <2>9. CASE RequeueTx(k)
    BY <2>9, RequeueTxStep DEF DP!Next, DP!processRequests
  <2> QED BY <1>4, <2>1, <2>2, <2>3, <2>4, <2>5, <2>6, <2>7, <2>8, <2>9
          DEF processRequests
<1> QED BY <1>1, <1>2, <1>3, <1>4 DEF Next

\* Delivery's invariant and this module's hold together.
THEOREM ElectrumInvariant == Spec => [](DP!Ready /\ IInv)
<1>1. Init => DP!Ready /\ IInv
  BY ElectrumInit, DeliveryAssumption, DP!ReadyInit
<1>2. DP!Ready /\ IInv /\ [Next]_vars => (DP!Ready /\ IInv)'
  BY ElectrumStep, DeliveryAssumption, DP!ReadyStep
<1> QED BY <1>1, <1>2, PTL DEF Spec

\* Delivery's specification is the same as instantiated by way of the proofs about it.
LEMMA SameDelivery ==
  /\ DP!Init => Deliver!Init
  /\ [DP!Next]_DP!vars => [Deliver!Next]_Deliver!vars
<1> USE DEF DP!recvVars, Deliver!recvVars, DP!sendVars, Deliver!sendVars, DP!channels,
            Deliver!channels, DP!HasRoom, Deliver!HasRoom
<1>1. DP!Init => Deliver!Init
  BY DEF DP!Init, Deliver!Init, DP!PipelineInit, Deliver!PipelineInit, DP!Changes,
         Deliver!Changes
<1>2. DP!accounter => Deliver!accounter
  <2>1. DP!sendWork => Deliver!sendWork
    BY DEF DP!sendWork, Deliver!sendWork, DP!NextChange, Deliver!NextChange,
           DP!DeriveAddr, Deliver!DeriveAddr, DP!RequestAddr, Deliver!RequestAddr,
           DP!countMuFree, Deliver!countMuFree
  <2>2. DP!recvWork => Deliver!recvWork
    BY DEF DP!recvWork, Deliver!recvWork, DP!RecvAddr, Deliver!RecvAddr,
           DP!RequestTx, Deliver!RequestTx, DP!RequestedTxs, Deliver!RequestedTxs,
           DP!ExtendRange, Deliver!ExtendRange, DP!RecvTx, Deliver!RecvTx,
           DP!Tick, Deliver!Tick, DP!complete, Deliver!complete
  <2> QED BY <2>1, <2>2 DEF DP!accounter, Deliver!accounter
<1>3. ASSUME NEW g, DP!processRequests(g) PROVE Deliver!processRequests(g)
  BY <1>3
  DEF DP!processRequests, Deliver!processRequests, DP!TakeAddr, Deliver!TakeAddr,
      DP!ReplyAddr, Deliver!ReplyAddr, DP!RequeueAddr, Deliver!RequeueAddr,
      DP!TakeTx, Deliver!TakeTx, DP!ReplyTx, Deliver!ReplyTx,
      DP!RequeueTx, Deliver!RequeueTx, DP!takes, Deliver!takes, DP!leaves,
      Deliver!leaves, DP!Answers, Deliver!Answers
<1>4. DP!vars = Deliver!vars /\ DP!vars' = Deliver!vars'
  BY DEF DP!vars, Deliver!vars, DP!pipelineVars, Deliver!pipelineVars
<1> QED BY <1>1, <1>2, <1>3, <1>4 DEF DP!Next, Deliver!Next

\* However servers come and go, this is a backend as Delivery describes them: each
\* request is in one place, and moves from a goroutine's hands only into the answer or
\* back to its channel.
THEOREM ElectrumImplementsDelivery == Spec => DP!Spec /\ ImplementsDelivery
<1>1. Init => DP!Init
  BY ElectrumInit
<1>2. DP!Ready /\ IInv /\ [Next]_vars => [DP!Next]_DP!vars
  BY ElectrumStep
<1>3. Spec => DP!Spec
  BY <1>1, <1>2, ElectrumInvariant, PTL DEF Spec, DP!Spec
<1>4. DP!Spec => Deliver!Spec
  BY SameDelivery, PTL DEF DP!Spec, Deliver!Spec
<1> QED BY <1>3, <1>4, PTL DEF ImplementsDelivery

\* The terms of Accounter's refinement, as instantiated by way of the proofs about
\* Delivery and of Delivery itself.
LEMMA SamePending ==
  /\ DP!fetchPC = Deliver!fetchPC /\ DP!fetchSeen = Deliver!fetchSeen
  /\ DP!addrPending = Deliver!addrPending /\ DP!txPending = Deliver!txPending
  /\ DP!fetchPC' = Deliver!fetchPC' /\ DP!fetchSeen' = Deliver!fetchSeen'
  /\ DP!addrPending' = Deliver!addrPending' /\ DP!txPending' = Deliver!txPending'
BY DEF DP!fetchPC, Deliver!fetchPC, DP!fetchSeen, Deliver!fetchSeen,
       DP!addrPending, Deliver!addrPending, DP!txPending, Deliver!txPending,
       DP!addrPendingWith, Deliver!addrPendingWith,
       DP!txPendingWith, Deliver!txPendingWith,
       DP!InChannel, Deliver!InChannel, DP!Cardinality, Deliver!Cardinality

\* So Accounter's specification is the same by either way.
LEMMA SameFetch ==
  /\ DP!Fetch!Init => Deliver!Fetch!Init
  /\ [DP!Fetch!Next]_DP!Fetch!vars => [Deliver!Fetch!Next]_Deliver!Fetch!vars
<1>1. DP!Fetch!Init => Deliver!Fetch!Init
  BY SamePending DEF DP!Fetch!Init, Deliver!Fetch!Init, DP!Fetch!Changes, Deliver!Fetch!Changes
<1>2. DP!Fetch!Next => Deliver!Fetch!Next
  <2> USE SamePending DEF DP!Fetch!recvVars, Deliver!Fetch!recvVars,
                          DP!Fetch!sendVars, Deliver!Fetch!sendVars
  <2>1. DP!Fetch!sendWork => Deliver!Fetch!sendWork
    BY DEF DP!Fetch!sendWork, Deliver!Fetch!sendWork,
           DP!Fetch!NextChange, Deliver!Fetch!NextChange,
           DP!Fetch!DeriveAddr, Deliver!Fetch!DeriveAddr,
           DP!Fetch!DeriveAddrPanic, Deliver!Fetch!DeriveAddrPanic,
           DP!Fetch!RequestAddr, Deliver!Fetch!RequestAddr,
           DP!Fetch!DerivePanics, Deliver!Fetch!DerivePanics
  <2>2. DP!Fetch!recvWork => Deliver!Fetch!recvWork
    BY DEF DP!Fetch!recvWork, Deliver!Fetch!recvWork,
           DP!Fetch!RecvSomeAddr, Deliver!Fetch!RecvSomeAddr,
           DP!Fetch!RecvAddr, Deliver!Fetch!RecvAddr,
           DP!Fetch!Answers, Deliver!Fetch!Answers, DP!Fetch!Derive, Deliver!Fetch!Derive,
           DP!Fetch!AfterAnswer, Deliver!Fetch!AfterAnswer,
           DP!Fetch!Cardinality, Deliver!Fetch!Cardinality,
           DP!Fetch!ExtendRange, Deliver!Fetch!ExtendRange,
           DP!Fetch!Reach, Deliver!Fetch!Reach, DP!Fetch!Max2, Deliver!Fetch!Max2,
           DP!Fetch!RecvSomeTx, Deliver!Fetch!RecvSomeTx,
           DP!Fetch!RecvTx, Deliver!Fetch!RecvTx, DP!Fetch!Tick, Deliver!Fetch!Tick,
           DP!Fetch!complete, Deliver!Fetch!complete, DP!Fetch!U32, Deliver!Fetch!U32
  <2> QED BY <2>1, <2>2 DEF DP!Fetch!Next, Deliver!Fetch!Next
<1>3. DP!Fetch!vars = Deliver!Fetch!vars /\ DP!Fetch!vars' = Deliver!Fetch!vars'
  BY SamePending DEF DP!Fetch!vars, Deliver!Fetch!vars, DP!Fetch!recvVars,
                     Deliver!Fetch!recvVars, DP!Fetch!sendVars, Deliver!Fetch!sendVars
<1> QED BY <1>1, <1>2, <1>3

\* Requests that fail go round by way of their channel, and yet the promise that the
\* accounter relies on is kept: each is answered at most once, by a complete answer.
THEOREM ElectrumImplementsFetch == Spec => ImplementsFetch
<1>1. DP!Spec => DP!Fetch!Spec
  BY DeliveryAssumption, DP!DeliveryImplementsFetch
<1>2. DP!Fetch!Spec => Deliver!Fetch!Spec
  BY SameFetch, PTL DEF DP!Fetch!Spec, Deliver!Fetch!Spec
<1> QED BY <1>1, <1>2, ElectrumImplementsDelivery, PTL DEF ImplementsFetch

\* What the balance rests on, on this backend: when recvWork returns, every settled
\* transaction of a wallet that respects the gap limit has been fetched.
THEOREM ElectrumWalletIsCovered == Spec => []Deliver!Fetch!WalletCovered
<1>1. DP!Spec => [](DP!Fetch!FetchComplete /\ DP!Fetch!WalletCovered)
  BY DeliveryAssumption, DP!DeliveryIsComplete
<1>2. DP!Fetch!WalletCovered => Deliver!Fetch!WalletCovered
  BY SamePending
  DEF DP!Fetch!WalletCovered, Deliver!Fetch!WalletCovered, DP!Fetch!GapRespected,
      Deliver!Fetch!GapRespected, DP!Fetch!Settled, Deliver!Fetch!Settled,
      DP!Fetch!Address, Deliver!Fetch!Address, DP!Fetch!Changes, Deliver!Fetch!Changes
<1> QED BY <1>1, <1>2, ElectrumImplementsDelivery, PTL

\* Channels stay within their sizes, and connections and servers are what they may be.
THEOREM ElectrumTypes == Spec => []TypeOK
<1>1. DP!Ready /\ IInv => TypeOK
  BY DEF IInv
<1> QED BY <1>1, ElectrumInvariant, PTL

\* getTxHeight never panics: the cache that all goroutines share has the transaction
\* before any of them can be asked for it, after requeues too.
THEOREM NoCacheMisses == Spec => []NoCacheMiss
<1>1. DP!Ready /\ IInv => NoCacheMiss
  BY DEF IInv
<1> QED BY <1>1, ElectrumInvariant, PTL

\* cacheTxs panics only over a transaction that was not settled when the run began, with
\* the height of its block in one of the two histories and none in the other; never over
\* one that is merely shared, requeued or answered by several servers.
THEOREM PanicHasACause == Spec => []PanicJustified
<1>1. DP!Ready /\ IInv => PanicJustified
  BY DEF IInv
<1> QED BY <1>1, ElectrumInvariant, PTL

\* A settled transaction is counted at the height of its block, whichever of the
\* servers answered for it.
THEOREM HeightsAreRight == Spec => []HeightsRight
<1>1. DP!Ready /\ IInv => HeightsRight
  BY DEF IInv, CacheInv, MayReport, HeightsRight
<1> QED BY <1>1, ElectrumInvariant, PTL
=============================================================================
