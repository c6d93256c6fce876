----------------------------- MODULE BtcdBackend -----------------------------
(***************************************************************************)
(* The accounter on the Btcd backend (src/backend/btcd_backend.go): a fixed *)
(* pool of processRequests goroutines between the request and the response  *)
(* channels, with the shared caches cachedTransactions and                  *)
(* blockHeightLookup.  Any RPC of the node may fail; every failure but one  *)
(* is a panic that takes the process down.                                  *)
(*                                                                         *)
(* The block requests of the same goroutines are in SearchReplay.          *)
(***************************************************************************)
EXTENDS Pipeline

CONSTANTS
  Worker,         \* the goroutines started by NewBtcdBackend
  maxTxsPerAddr,
  RPCMayFail,     \* FALSE for a node that answers every RPC
  Height,         \* the height of the block each transaction is mined in
  BlockHash       \* the hash of that block

ASSUME BtcdAssumption ==
  /\ maxTxsPerAddr \in Nat
  /\ RPCMayFail \in BOOLEAN
  /\ Height \in [Tx -> Nat \ {0}]
  /\ \A t, u \in Tx : BlockHash[t] = BlockHash[u] => Height[t] = Height[u]

VARIABLES
  pc,                  \* what each worker does
  hand,                \* the request, and partial answer, of each worker
  cachedTransactions,  \* transaction |-> height
  blockHeightLookup,   \* block hash |-> height
  doneCh,              \* TRUE when closed
  panicked

vars == <<pipelineVars, pc, hand, cachedTransactions, blockHeightLookup,
          doneCh, panicked>>

Nothing == [addr |-> <<0, 0>>, txHashes |-> {}]

Init ==
  /\ PipelineInit
  /\ pc = [w \in Worker |-> "select"]
  /\ hand = [w \in Worker |-> Nothing]
  /\ cachedTransactions = [t \in {} |-> 0]
  /\ blockHeightLookup = [b \in {} |-> 0]
  /\ doneCh = FALSE
  /\ panicked = FALSE

goto(w, label) == pc' = [pc EXCEPT ![w] = label]
hold(w, x) == hand' = [hand EXCEPT ![w] = x]

\* A panic ends the process: no state is used after it.
Panic ==
  /\ panicked' = TRUE
  /\ UNCHANGED <<pipelineVars, pc, hand, cachedTransactions, blockHeightLookup,
                 doneCh>>

-----------------------------------------------------------------------------
(* processAddrRequest                                                      *)

\* SearchRawTransactionsVerbose returns at most maxTxsPerAddr + 1 results.
Search(a) ==
  {x \in SUBSET history[a] : \E h \in Answers(a) :
     x \subseteq h /\ \/ x = h
                      \/ Cardinality(x) = maxTxsPerAddr + 1}

\* Mutant: off by one, lets a list pass that may have been cut.
FitsOneMore(x) == Cardinality(x) <= maxTxsPerAddr + 1

Fits(x) == Cardinality(x) <= maxTxsPerAddr

\* An address the node does not know is answered like one without results.
TakeAddr(w) ==
  /\ pc[w] = "select"
  /\ addrRequests # <<>>
  /\ addrRequests' = Tail(addrRequests)
  /\ \E x \in Search(Head(addrRequests)) :
       /\ Fits(x)
       /\ hold(w, [addr |-> Head(addrRequests), txHashes |-> x, left |-> x])
  /\ goto(w, "cacheTxs")
  /\ UNCHANGED <<history, sendVars, recvVars, addrResponses, txRequests,
                 txResponses, cachedTransactions, blockHeightLookup, doneCh,
                 panicked>>

\* The search fails for another reason, or its result may be cut short.
AddrPanic(w) ==
  /\ pc[w] = "select"
  /\ addrRequests # <<>>
  /\ \/ RPCMayFail
     \/ \E x \in Search(Head(addrRequests)) : ~Fits(x)
  /\ Panic

\* cacheTxs, one transaction: if it is cached the function returns, leaving
\* those after it to processTxRequest.
CacheLookup(w) ==
  /\ pc[w] = "cacheTxs"
  /\ \/ /\ hand[w].left = {}
        /\ goto(w, "replyAddr")
        /\ UNCHANGED hand
     \/ \E t \in hand[w].left :
          IF t \in DOMAIN cachedTransactions
          THEN goto(w, "replyAddr") /\ UNCHANGED hand
          ELSE /\ goto(w, "cacheStore")
               /\ hold(w, [addr |-> hand[w].addr, txHashes |-> hand[w].txHashes,
                           left |-> hand[w].left, tx |-> t])
  /\ UNCHANGED <<pipelineVars, cachedTransactions, blockHeightLookup, doneCh,
                 panicked>>

\* Mutant: a hit returns the zero value of the map.
getBlockHeightZero(t) ==
  IF BlockHash[t] \in DOMAIN blockHeightLookup THEN 0 ELSE Height[t]

\* getBlockHeight(block of t), from the lookup table or by an RPC.
getBlockHeight(t) ==
  IF BlockHash[t] \in DOMAIN blockHeightLookup
  THEN blockHeightLookup[BlockHash[t]]
  ELSE Height[t]

\* What it leaves in the table.
Known(t) ==
  [b \in DOMAIN blockHeightLookup \cup {BlockHash[t]} |->
     IF b = BlockHash[t] THEN getBlockHeight(t) ELSE blockHeightLookup[b]]

\* Mutant: a hit leaves blockHeightMu locked.
KnowHeightLocked(t) ==
  /\ BlockHash[t] \notin DOMAIN blockHeightLookup
  /\ blockHeightLookup' = Known(t)

KnowHeight(t) == blockHeightLookup' = Known(t)

CacheStore(w) ==
  LET t == hand[w].tx
  IN  /\ pc[w] = "cacheStore"
      /\ KnowHeight(t)
      /\ cachedTransactions' =
           [x \in DOMAIN cachedTransactions \cup {t} |->
              IF x = t THEN getBlockHeight(t) ELSE cachedTransactions[x]]
      /\ goto(w, "cacheTxs")
      /\ hold(w, [addr |-> hand[w].addr, txHashes |-> hand[w].txHashes,
                  left |-> hand[w].left \ {t}])
      /\ UNCHANGED <<pipelineVars, doneCh, panicked>>

\* getBlockHeight fails: on its RPC, or because the transaction is not mined
\* yet and has no block hash.
HeightFails(t) ==
  \/ RPCMayFail /\ BlockHash[t] \notin DOMAIN blockHeightLookup
  \/ t \in Recent

CachePanic(w) == pc[w] = "cacheStore" /\ HeightFails(hand[w].tx) /\ Panic

ReplyAddr(w) ==
  /\ pc[w] = "replyAddr"
  /\ HasRoom(addrResponses, AddrChanSize)
  /\ addrResponses' = Append(addrResponses, [addr |-> hand[w].addr,
                                             txHashes |-> hand[w].txHashes])
  /\ goto(w, "select")
  /\ hold(w, Nothing)
  /\ UNCHANGED <<history, sendVars, recvVars, addrRequests, txRequests,
                 txResponses, cachedTransactions, blockHeightLookup, doneCh,
                 panicked>>

-----------------------------------------------------------------------------
(* processTxRequest                                                        *)

TakeTx(w) ==
  LET q == Head(txRequests)
  IN  /\ pc[w] = "select"
      /\ txRequests # <<>>
      /\ txRequests' = Tail(txRequests)
      /\ IF q.tx \in DOMAIN cachedTransactions
         THEN /\ goto(w, "replyTx")
              /\ hold(w, [req |-> q, height |-> cachedTransactions[q.tx]])
         ELSE /\ goto(w, "fetchTx")
              /\ hold(w, [req |-> q])
      /\ UNCHANGED <<history, sendVars, recvVars, addrRequests, addrResponses,
                     txResponses, cachedTransactions, blockHeightLookup,
                     doneCh, panicked>>

\* Mutant: the miss path forgets the response.
AfterFetchNothing == "select"

\* The response is sent after the RPCs.
AfterFetch == "replyTx"

\* Cache miss: GetRawTransactionVerbose, then getBlockHeight.
FetchTx(w) ==
  LET q == hand[w].req
  IN  /\ pc[w] = "fetchTx"
      /\ KnowHeight(q.tx)
      /\ goto(w, AfterFetch)
      /\ hold(w, [req |-> q, height |-> getBlockHeight(q.tx)])
      /\ UNCHANGED <<pipelineVars, cachedTransactions, doneCh, panicked>>

TxPanic(w) ==
  /\ pc[w] = "fetchTx"
  /\ RPCMayFail \/ HeightFails(hand[w].req.tx)
  /\ Panic

ReplyTx(w) ==
  /\ pc[w] = "replyTx"
  /\ HasRoom(txResponses, TxChanSize)
  /\ txResponses' = Append(txResponses, hand[w])
  /\ goto(w, "select")
  /\ hold(w, Nothing)
  /\ UNCHANGED <<history, sendVars, recvVars, addrRequests, addrResponses,
                 txRequests, cachedTransactions, blockHeightLookup, doneCh,
                 panicked>>

-----------------------------------------------------------------------------
\* The doneCh case: its break leaves the select and not the loop, so that no
\* goroutine comes to "returned".
AfterDone == "select"

Done(w) ==
  /\ pc[w] = "select"
  /\ doneCh
  /\ goto(w, AfterDone)
  /\ UNCHANGED <<pipelineVars, hand, cachedTransactions, blockHeightLookup,
                 doneCh, panicked>>

processRequests(w) ==
  \/ TakeAddr(w) \/ AddrPanic(w) \/ CacheLookup(w) \/ CacheStore(w)
  \/ CachePanic(w) \/ ReplyAddr(w)
  \/ TakeTx(w) \/ FetchTx(w) \/ TxPanic(w) \/ ReplyTx(w)
  \/ Done(w)

\* fetchTransactions calls Finish when recvWork returns.
Finish ==
  /\ recvPC = "done"
  /\ ~doneCh
  /\ doneCh' = TRUE
  /\ UNCHANGED <<pipelineVars, pc, hand, cachedTransactions,
                 blockHeightLookup, panicked>>

accounter == /\ sendWork \/ recvWork
             /\ UNCHANGED <<pc, hand, cachedTransactions, blockHeightLookup,
                            doneCh, panicked>>

Next == ~panicked /\ (accounter \/ Finish \/ \E w \in Worker : processRequests(w))

\* Every goroutine is scheduled, and an RPC returns or fails.
Fairness ==
  /\ WF_vars(~panicked /\ sendWork /\ accounter)
  /\ WF_vars(~panicked /\ recvWork /\ accounter)
  /\ WF_vars(~panicked /\ Finish)
  /\ \A w \in Worker : WF_vars(~panicked /\ processRequests(w))

Spec == Init /\ [][Next]_vars
FairSpec == Spec /\ Fairness

-----------------------------------------------------------------------------
TypeOK ==
  /\ Len(addrRequests) <= AddrChanSize /\ Len(addrResponses) <= AddrChanSize
  /\ Len(txRequests) <= TxChanSize /\ Len(txResponses) <= TxChanSize
  /\ pc \in [Worker -> {"select", "cacheTxs", "cacheStore", "replyAddr",
                        "fetchTx", "replyTx", "returned"}]
  /\ DOMAIN cachedTransactions \subseteq Tx
  /\ DOMAIN transactions \subseteq Tx
  /\ DOMAIN blockHeightLookup \subseteq {BlockHash[t] : t \in Tx}

\* Requests in the hands of the workers.
AddrHeld ==
  [w \in {v \in Worker : pc[v] \in {"cacheTxs", "cacheStore", "replyAddr"}} |-> hand[w].addr]
TxHeld == [w \in {v \in Worker : pc[v] \in {"fetchTx", "replyTx"}} |-> hand[w].req]

Deliver == INSTANCE Delivery WITH
             Goroutine <- Worker,
             Heights   <- {Height[t] : t \in Tx},
             addrHeld  <- AddrHeld,
             txHeld    <- TxHeld

\* The pool, its channels and its caches keep the promise the accounter relies
\* on: each request is answered once, by a complete answer, and none is lost,
\* repeated or invented, whichever worker takes what.
ImplementsFetch == Deliver!Fetch!Spec

\* Every fetched transaction has the height of the block it is in, whether it
\* came from the cache, from another address's search or from the miss path.
HeightsRight ==
  \A t \in DOMAIN transactions : transactions[t] = Height[t]

\* An address whose history the node cuts short never reaches the accounter.
NeverTruncated ==
  \A a \in DOMAIN addresses : addresses[a] \in Answers(a)

\* With room for every transaction request, the accounter comes to an end.  The
\* process may die instead.
Terminates == <>(doneCh \/ panicked)

-----------------------------------------------------------------------------
(* The inductive invariant behind these, next to Delivery's.               *)

\* An answer in a worker's hands is whole, and what cacheTxs has left to do is
\* part of it; a transaction in its hands is at its height.
HandInv ==
  /\ hand = [w \in Worker |-> hand[w]]
  /\ \A w \in Worker :
       /\ pc[w] \in {"cacheTxs", "cacheStore", "replyAddr"} =>
            hand[w].txHashes \in Answers(hand[w].addr)
       /\ pc[w] \in {"cacheTxs", "cacheStore"} => hand[w].left \subseteq hand[w].txHashes
       /\ pc[w] = "cacheStore" => hand[w].tx \in hand[w].left
       /\ pc[w] = "replyTx" =>
            hand[w] = [req |-> hand[w].req, height |-> Height[hand[w].req.tx]]

\* So are those in the cache and in the channel of responses, and blocks in the
\* lookup table.
CacheInv ==
  /\ \A t \in DOMAIN cachedTransactions : cachedTransactions[t] = Height[t]
  /\ \A i \in DOMAIN txResponses : txResponses[i].height = Height[txResponses[i].req.tx]
  /\ \A t \in Tx : BlockHash[t] \in DOMAIN blockHeightLookup =>
       blockHeightLookup[BlockHash[t]] = Height[t]

IInv == TypeOK /\ HandInv /\ CacheInv /\ HeightsRight
=============================================================================
