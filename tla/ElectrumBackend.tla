--------------------------- MODULE ElectrumBackend ---------------------------
(***************************************************************************)
(* The accounter on the Electrum backend (src/backend/electrum_backend.go). *)
(*                                                                         *)
(* A goroutine that has connected to a server (addNode) serves requests     *)
(* over that connection (processRequests) until one fails; it then removes  *)
(* the server from nodes, puts the request back and returns.  The findPeers *)
(* goroutine keeps asking a connected server for more servers, each of      *)
(* which gets an addNode goroutine of its own.  A member of Conn stands for *)
(* an addNode goroutine, the electrum.Node it makes and the processRequests *)
(* goroutine it starts; NewElectrumBackend has done all this for Seed.      *)
(***************************************************************************)
EXTENDS Pipeline

CONSTANTS
  Ident,        \* servers
  Seed,         \* the server given on the command line
  Conn,         \* goroutines that may ever be started: bounds the run
  firstConn,    \* the one NewElectrumBackend starts
  maxPeers,
  MaxFailures,  \* bound on the calls that fail
  Height        \* the height of the block each settled transaction is in

ASSUME ElectrumAssumption ==
  /\ Seed \in Ident
  /\ firstConn \in Conn
  /\ maxPeers \in Nat \ {0}
  /\ MaxFailures \in Nat
  /\ Height \in [Tx -> Nat \ {0}]

VARIABLES
  pc,                \* what each goroutine does
  ident,             \* the server it connects to
  hand,              \* the request, and answer, in its hands
  up,                \* the goroutines whose connection is open
  nodes,             \* server |-> the goroutine registered for it
  blacklistedNodes,
  txHeights,         \* the map transactions: transaction |-> height
  finder,            \* findPeers: "ask", "asked", "sleep", "returned"
  doneCh,            \* TRUE when closed
  panicked,          \* why the process died, if it has, and over what
  failures

peerVars == <<pc, ident, up, nodes, blacklistedNodes>>
vars == <<pipelineVars, peerVars, hand, txHeights, finder, doneCh, panicked, failures>>

Nothing == [addr |-> <<0, 0>>]
NotPanicked == [why |-> "none"]

Init ==
  /\ PipelineInit
  /\ pc = [k \in Conn |-> IF k = firstConn THEN "select" ELSE "unused"]
  /\ ident = [k \in Conn |-> Seed]
  /\ hand = [k \in Conn |-> Nothing]
  /\ up = {firstConn}
  /\ nodes = [i \in {Seed} |-> firstConn]
  /\ blacklistedNodes = {}
  /\ txHeights = [t \in {} |-> 0]
  /\ finder = "ask"
  /\ doneCh = FALSE
  /\ panicked = NotPanicked
  /\ failures = 0

goto(k, label) == pc' = [pc EXCEPT ![k] = label]
hold(k, x) == hand' = [hand EXCEPT ![k] = x]

\* A call over the connection of k returns an error: for certain when the
\* connection is closed, and now and then otherwise.  SendMessage closes the
\* connection unless the error is the server's own answer.
CallFails(k) ==
  /\ k \in up => failures < MaxFailures
  /\ failures' = IF k \in up THEN failures + 1 ELSE failures

OpenAfterFailure(k) == {up, up \ {k}}

CallSucceeds(k) == k \in up /\ UNCHANGED failures

\* removeNode closes whichever connection is registered for the server.
removeNode(i, open) ==
  IF i \in DOMAIN nodes
  THEN /\ up' = open \ {nodes[i]}
       /\ nodes' = [j \in DOMAIN nodes \ {i} |-> nodes[j]]
  ELSE up' = open /\ UNCHANGED nodes

-----------------------------------------------------------------------------
(* addNode                                                                 *)

\* The maps are read under nodeMu, which is released before they are written.
CheckNode(k) ==
  /\ pc[k] = "addNode"
  /\ goto(k, IF ident[k] \in DOMAIN nodes \cup blacklistedNodes
             THEN "returned" ELSE "connect")
  /\ UNCHANGED <<pipelineVars, ident, up, nodes, blacklistedNodes, hand,
                 txHeights, finder, doneCh, panicked, failures>>

\* NewNode, ServerFeatures, the genesis and version checks, ServerVersion.
Connect(k) ==
  /\ pc[k] = "connect"
  /\ goto(k, "register")
  /\ up' = up \cup {k}
  /\ UNCHANGED <<pipelineVars, ident, nodes, blacklistedNodes, hand,
                 txHeights, finder, doneCh, panicked, failures>>

ConnectFails(k) ==
  /\ pc[k] = "connect"
  /\ failures < MaxFailures
  /\ failures' = failures + 1
  /\ blacklistedNodes' = blacklistedNodes \cup {ident[k]}
  /\ goto(k, "returned")
  /\ UNCHANGED <<pipelineVars, ident, up, nodes, hand, txHeights, finder,
                 doneCh, panicked>>

Register(k) ==
  /\ pc[k] = "register"
  /\ nodes' = [i \in DOMAIN nodes \cup {ident[k]} |->
                 IF i = ident[k] THEN k ELSE nodes[i]]
  /\ goto(k, "select")
  /\ UNCHANGED <<pipelineVars, ident, up, blacklistedNodes, hand, txHeights,
                 finder, doneCh, panicked, failures>>

addNode(k) == CheckNode(k) \/ Connect(k) \/ ConnectFails(k) \/ Register(k)

-----------------------------------------------------------------------------
(* findPeers and processPeersRequest                                       *)

\* peersRequests is unbuffered: findPeers waits for a goroutine in its select.
TakePeers(k) ==
  /\ pc[k] = "select"
  /\ finder = "ask"
  /\ finder' = "asked"
  /\ goto(k, IF Cardinality(DOMAIN nodes) >= maxPeers THEN "select" ELSE "peers")
  /\ UNCHANGED <<pipelineVars, ident, up, nodes, blacklistedNodes, hand,
                 txHeights, doneCh, panicked, failures>>

\* addPeer starts a goroutine for every peer it does not skip.
PeersReply(k) ==
  /\ pc[k] = "peers"
  /\ CallSucceeds(k)
  /\ \E started \in SUBSET {g \in Conn : pc[g] = "unused"} :
     \E peer \in [started -> Ident] :
       /\ pc' = [g \in Conn |-> CASE g \in started -> "addNode"
                                  [] g = k -> "select"
                                  [] OTHER -> pc[g]]
       /\ ident' = [g \in Conn |-> IF g \in started THEN peer[g] ELSE ident[g]]
  /\ UNCHANGED <<pipelineVars, up, nodes, blacklistedNodes, hand, txHeights,
                 finder, doneCh, panicked>>

\* The goroutine returns; its server stays in nodes.
PeersFail(k) ==
  /\ pc[k] = "peers"
  /\ CallFails(k)
  /\ up' \in OpenAfterFailure(k)
  /\ goto(k, "returned")
  /\ UNCHANGED <<pipelineVars, ident, nodes, blacklistedNodes, hand,
                 txHeights, finder, doneCh, panicked>>

\* The rendezvous is over: report the number of peers and wait for the ticker,
\* or for doneCh.
findPeers ==
  /\ \/ finder = "asked" /\ finder' = "sleep"
     \/ finder = "sleep" /\ finder' = "ask"
     \/ finder = "sleep" /\ doneCh /\ finder' = "returned"
  /\ UNCHANGED <<pipelineVars, peerVars, hand, txHeights, doneCh, panicked, failures>>

-----------------------------------------------------------------------------
(* processAddrRequest                                                      *)

\* The heights a server may report: 0 for a transaction that is not mined yet.
MayReport(t, n) == n = Height[t] \/ (t \in Recent /\ n = 0)

HeightsOf(h) ==
  {f \in [h -> {Height[t] : t \in h} \cup {0}] : \A t \in h : MayReport(t, f[t])}

\* Mutant: a transaction that two addresses share is taken for a conflict.
inconsistentIfShared(h, f) == h \cap DOMAIN txHeights

\* Transactions listed before at another height, over the first of which cacheTxs
\* panics; the history may be in any order.
inconsistent(h, f) == {t \in h \cap DOMAIN txHeights : txHeights[t] # f[t]}

\* Mutant: transactions that are not mined are not cached.
cacheTxsMined(h, f) ==
  LET mined == {t \in h : f[t] > 0}
  IN  [t \in DOMAIN txHeights \cup mined |-> IF t \in h THEN f[t] ELSE txHeights[t]]

\* Mutant: every transaction of a list is given one and the same height.
cacheTxsOneHeight(h, f) ==
  [t \in DOMAIN txHeights \cup h |->
     IF t \in h THEN CHOOSE n \in {f[u] : u \in h} : \A u \in h : n >= f[u]
     ELSE txHeights[t]]

\* The map transactions after cacheTxs.
cacheTxs(h, f) ==
  [t \in DOMAIN txHeights \cup h |-> IF t \in h THEN f[t] ELSE txHeights[t]]

TakeAddr(k) ==
  LET r == Head(addrRequests)
  IN  /\ pc[k] = "select"
      /\ addrRequests # <<>>
      /\ CallSucceeds(k)
      /\ \E h \in Answers(r) : \E f \in HeightsOf(h) :
           \/ /\ \E t \in inconsistent(h, f) :
                   panicked' = [why |-> "inconsistent cache", tx |-> t,
                                cached |-> txHeights[t], listed |-> f[t]]
              /\ UNCHANGED <<addrRequests, pc, hand, txHeights>>
           \/ /\ inconsistent(h, f) = {}
              /\ addrRequests' = Tail(addrRequests)
              /\ txHeights' = cacheTxs(h, f)
              /\ goto(k, "replyAddr")
              /\ hold(k, [addr |-> r, txHashes |-> h])
              /\ UNCHANGED panicked
      /\ UNCHANGED <<history, sendVars, recvVars, addrResponses, txRequests,
                     txResponses, ident, up, nodes, blacklistedNodes, finder, doneCh>>

ReplyAddr(k) ==
  /\ pc[k] = "replyAddr"
  /\ HasRoom(addrResponses, AddrChanSize)
  /\ addrResponses' = Append(addrResponses, hand[k])
  /\ goto(k, "select")
  /\ hold(k, Nothing)
  /\ UNCHANGED <<history, sendVars, recvVars, addrRequests, txRequests,
                 txResponses, ident, up, nodes, blacklistedNodes, txHeights,
                 finder, doneCh, panicked, failures>>

AddrFails(k) ==
  /\ pc[k] = "select"
  /\ addrRequests # <<>>
  /\ CallFails(k)
  /\ addrRequests' = Tail(addrRequests)
  /\ \E open \in OpenAfterFailure(k) : removeNode(ident[k], open)
  /\ goto(k, "requeueAddr")
  /\ hold(k, [addr |-> Head(addrRequests)])
  /\ UNCHANGED <<history, sendVars, recvVars, addrResponses, txRequests,
                 txResponses, ident, blacklistedNodes, txHeights, finder,
                 doneCh, panicked>>

\* Mutant: the request is dropped with its server.
requeueNothing(ch, r) == ch

\* The failed request goes to the back of its channel.
requeue(ch, r) == Append(ch, r)

\* The goroutine puts the request back, which blocks while the channel is full,
\* and returns.
RequeueAddr(k) ==
  /\ pc[k] = "requeueAddr"
  /\ HasRoom(addrRequests, AddrChanSize)
  /\ addrRequests' = requeue(addrRequests, hand[k].addr)
  /\ goto(k, "returned")
  /\ hold(k, Nothing)
  /\ UNCHANGED <<history, sendVars, recvVars, addrResponses, txRequests,
                 txResponses, ident, up, nodes, blacklistedNodes, txHeights,
                 finder, doneCh, panicked, failures>>

-----------------------------------------------------------------------------
(* processTxRequest                                                        *)

\* getTxHeight panics when no address answer has cached the transaction.
TakeTx(k) ==
  LET q == Head(txRequests)
  IN  /\ pc[k] = "select"
      /\ txRequests # <<>>
      /\ CallSucceeds(k)
      /\ IF q.tx \in DOMAIN txHeights
         THEN /\ txRequests' = Tail(txRequests)
              /\ goto(k, "replyTx")
              /\ hold(k, [req |-> q, height |-> txHeights[q.tx]])
              /\ UNCHANGED panicked
         ELSE /\ panicked' = [why |-> "cache miss", tx |-> q.tx]
              /\ UNCHANGED <<txRequests, pc, hand>>
      /\ UNCHANGED <<history, sendVars, recvVars, addrRequests, addrResponses,
                     txResponses, ident, up, nodes, blacklistedNodes,
                     txHeights, finder, doneCh>>

ReplyTx(k) ==
  /\ pc[k] = "replyTx"
  /\ HasRoom(txResponses, TxChanSize)
  /\ txResponses' = Append(txResponses, hand[k])
  /\ goto(k, "select")
  /\ hold(k, Nothing)
  /\ UNCHANGED <<history, sendVars, recvVars, addrRequests, addrResponses,
                 txRequests, ident, up, nodes, blacklistedNodes, txHeights,
                 finder, doneCh, panicked, failures>>

TxFails(k) ==
  /\ pc[k] = "select"
  /\ txRequests # <<>>
  /\ CallFails(k)
  /\ txRequests' = Tail(txRequests)
  /\ \E open \in OpenAfterFailure(k) : removeNode(ident[k], open)
  /\ goto(k, "requeueTx")
  /\ hold(k, [req |-> Head(txRequests)])
  /\ UNCHANGED <<history, sendVars, recvVars, addrRequests, addrResponses,
                 txResponses, ident, blacklistedNodes, txHeights, finder,
                 doneCh, panicked>>

RequeueTx(k) ==
  /\ pc[k] = "requeueTx"
  /\ HasRoom(txRequests, TxChanSize)
  /\ txRequests' = requeue(txRequests, hand[k].req)
  /\ goto(k, "returned")
  /\ hold(k, Nothing)
  /\ UNCHANGED <<history, sendVars, recvVars, addrRequests, addrResponses,
                 txResponses, ident, up, nodes, blacklistedNodes, txHeights,
                 finder, doneCh, panicked, failures>>

processRequests(k) ==
  \/ TakePeers(k) \/ PeersReply(k) \/ PeersFail(k)
  \/ TakeAddr(k) \/ ReplyAddr(k) \/ AddrFails(k) \/ RequeueAddr(k)
  \/ TakeTx(k) \/ ReplyTx(k) \/ TxFails(k) \/ RequeueTx(k)

-----------------------------------------------------------------------------
\* Finish and removeAllNodes: every registered connection is closed.
Finish ==
  /\ recvPC = "done"
  /\ ~doneCh
  /\ doneCh' = TRUE
  /\ up' = up \ {nodes[i] : i \in DOMAIN nodes}
  /\ nodes' = [i \in {} |-> firstConn]
  /\ UNCHANGED <<pipelineVars, pc, ident, blacklistedNodes, hand, txHeights,
                 finder, panicked, failures>>

accounter == /\ sendWork \/ recvWork
             /\ UNCHANGED <<peerVars, hand, txHeights, finder, doneCh,
                            panicked, failures>>

alive == panicked = NotPanicked

Next == alive /\ ( \/ accounter
                   \/ Finish
                   \/ findPeers
                   \/ \E k \in Conn : addNode(k) \/ processRequests(k) )

\* Every goroutine is scheduled and every call over a connection returns; Go's
\* select takes each of its ready cases in the end.
Fairness ==
  /\ WF_vars(alive /\ sendWork /\ accounter)
  /\ WF_vars(alive /\ recvWork /\ accounter)
  /\ WF_vars(alive /\ Finish)
  /\ WF_vars(alive /\ findPeers)
  /\ \A k \in Conn : WF_vars(alive /\ (addNode(k) \/ processRequests(k)))
  /\ SF_vars(alive /\ \E k \in Conn : TakeAddr(k) \/ AddrFails(k))
  /\ SF_vars(alive /\ \E k \in Conn : TakeTx(k) \/ TxFails(k))

Spec == Init /\ [][Next]_vars
FairSpec == Spec /\ Fairness

-----------------------------------------------------------------------------
Panics ==
  {NotPanicked} \cup [why : {"cache miss"}, tx : Tx]
    \cup [why : {"inconsistent cache"}, tx : Tx, cached : Nat, listed : Nat]

TypeOK ==
  /\ Len(addrRequests) <= AddrChanSize /\ Len(addrResponses) <= AddrChanSize
  /\ Len(txRequests) <= TxChanSize /\ Len(txResponses) <= TxChanSize
  /\ pc \in [Conn -> {"unused", "addNode", "connect", "register", "select", "peers",
                      "replyAddr", "requeueAddr", "replyTx", "requeueTx", "returned"}]
  /\ ident \in [Conn -> Ident]
  /\ up \subseteq Conn
  /\ nodes \in [DOMAIN nodes -> Conn] /\ DOMAIN nodes \subseteq Ident
  /\ blacklistedNodes \subseteq Ident
  /\ DOMAIN txHeights \subseteq Tx
  /\ finder \in {"ask", "asked", "sleep", "returned"}
  /\ panicked \in Panics
  /\ failures \in 0 .. MaxFailures

\* Requests in the hands of the goroutines.
AddrHeld ==
  [k \in {g \in Conn : pc[g] \in {"replyAddr", "requeueAddr"}} |-> hand[k].addr]
TxHeld == [k \in {g \in Conn : pc[g] \in {"replyTx", "requeueTx"}} |-> hand[k].req]

Deliver == INSTANCE Delivery WITH
             Goroutine <- Conn,
             Heights   <- {Height[t] : t \in Tx} \cup {0},
             addrHeld  <- AddrHeld,
             txHeld    <- TxHeld

\* Servers come and go and requests move from one to another, yet each is
\* answered once and none is lost: a request that fails goes back to its
\* channel before its goroutine returns.
ImplementsFetch == Deliver!Fetch!Spec

\* The same request by request, whatever addNode and removeNode do to each other: one
\* that a goroutine has taken leaves its hands as an answer or back to its channel.
ImplementsDelivery == Deliver!Spec

\* getTxHeight's panic is never reached: whoever takes a transaction request,
\* the address answer that caused it has cached the height.
NoCacheMiss == panicked.why # "cache miss"

\* cacheTxs only panics over a transaction that was not settled when the run began,
\* and that one history has as not mined yet and another at the height of its block.
PanicJustified ==
  panicked.why = "inconsistent cache" =>
    /\ panicked.tx \in Recent
    /\ {panicked.cached, panicked.listed} = {0, Height[panicked.tx]}

\* A settled transaction is counted at the height of its block.
HeightsRight ==
  \A t \in DOMAIN transactions \ Recent : transactions[t] = Height[t]

\* Goroutines that serve requests or are on their way to.
Serving ==
  {k \in Conn : pc[k] \notin {"unused", "requeueAddr", "requeueTx", "returned"}}

\* As long as some goroutine serves requests the fetch phase ends, however many
\* requests have been put back, given room for every transaction request.
Terminates == <>(doneCh \/ ~alive \/ Serving = {})

\* electrum_backend.go, NewElectrumBackend: "The background job fails if there
\* are no peers left."
BackgroundJobFails == (Serving = {}) ~> (finder = "returned" \/ ~alive)

-----------------------------------------------------------------------------
(* The inductive invariant behind these, next to Delivery's.               *)

\* An answer in a goroutine's hands is whole and its transactions are cached; a
\* transaction in its hands is at a height that a server has reported.
HandInv ==
  /\ hand = [k \in Conn |-> hand[k]]
  /\ \A k \in Conn :
       /\ pc[k] = "replyAddr" =>
            /\ hand[k] = [addr |-> hand[k].addr, txHashes |-> hand[k].txHashes]
            /\ hand[k].txHashes \in Answers(hand[k].addr)
            /\ hand[k].txHashes \subseteq DOMAIN txHeights
       /\ pc[k] = "replyTx" =>
            /\ hand[k] = [req |-> hand[k].req, height |-> hand[k].height]
            /\ MayReport(hand[k].req.tx, hand[k].height)

CacheInv ==
  /\ \A t \in DOMAIN txHeights : MayReport(t, txHeights[t])
  /\ \A i \in DOMAIN txResponses : MayReport(txResponses[i].req.tx, txResponses[i].height)
  /\ \A t \in DOMAIN transactions : MayReport(t, transactions[t])

\* A transaction is cached before the accounter hears of it, and so wherever a
\* request for it may be.
ListedInv ==
  /\ \A i \in DOMAIN addrResponses : addrResponses[i].txHashes \subseteq DOMAIN txHeights
  /\ todo \subseteq DOMAIN txHeights
  /\ \A i \in DOMAIN txRequests : txRequests[i].tx \in DOMAIN txHeights
  /\ \A k \in DOMAIN TxHeld : TxHeld[k].tx \in DOMAIN txHeights

IInv == TypeOK /\ HandInv /\ CacheInv /\ ListedInv /\ NoCacheMiss /\ PanicJustified
=============================================================================
