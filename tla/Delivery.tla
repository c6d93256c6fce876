------------------------------- MODULE Delivery -------------------------------
(***************************************************************************)
(* What the goroutines of a backend do with the requests of the accounter,  *)
(* whichever backend it is: a goroutine takes a request from the front of   *)
(* its channel and later answers it or, if it cannot, puts it back.         *)
(*                                                                         *)
(* BtcdBackend and ElectrumBackend implement this specification, which      *)
(* implements Accounter.  What they ask of their servers in between, and    *)
(* how goroutines come and go, is left to them.                             *)
(***************************************************************************)
EXTENDS Pipeline

CONSTANTS
  Goroutine,  \* goroutines of the backend
  Heights     \* heights that a transaction response may give

VARIABLES
  addrHeld,   \* goroutine |-> the address request in its hands
  txHeld      \* goroutine |-> the transaction request in its hands

vars == <<pipelineVars, addrHeld, txHeld>>

Init ==
  /\ PipelineInit
  /\ addrHeld = [g \in {} |-> <<0, 0>>]
  /\ txHeld = [g \in {} |-> <<0, 0>>]

takes(held, g, r) == [x \in DOMAIN held \cup {g} |-> IF x = g THEN r ELSE held[x]]
leaves(held, g) == [x \in DOMAIN held \ {g} |-> held[x]]

-----------------------------------------------------------------------------
(* Address requests                                                        *)

TakeAddr(g) ==
  /\ addrRequests # <<>>
  /\ g \notin DOMAIN addrHeld
  /\ addrRequests' = Tail(addrRequests)
  /\ addrHeld' = takes(addrHeld, g, Head(addrRequests))
  /\ UNCHANGED <<history, sendVars, recvVars, addrResponses, txRequests,
                 txResponses, txHeld>>

ReplyAddr(g) ==
  /\ g \in DOMAIN addrHeld
  /\ HasRoom(addrResponses, AddrChanSize)
  /\ \E h \in Answers(addrHeld[g]) :
       addrResponses' = Append(addrResponses, [addr |-> addrHeld[g], txHashes |-> h])
  /\ addrHeld' = leaves(addrHeld, g)
  /\ UNCHANGED <<history, sendVars, recvVars, addrRequests, txRequests,
                 txResponses, txHeld>>

RequeueAddr(g) ==
  /\ g \in DOMAIN addrHeld
  /\ HasRoom(addrRequests, AddrChanSize)
  /\ addrRequests' = Append(addrRequests, addrHeld[g])
  /\ addrHeld' = leaves(addrHeld, g)
  /\ UNCHANGED <<history, sendVars, recvVars, addrResponses, txRequests,
                 txResponses, txHeld>>

-----------------------------------------------------------------------------
(* Transaction requests                                                    *)

TakeTx(g) ==
  /\ txRequests # <<>>
  /\ g \notin DOMAIN txHeld
  /\ txRequests' = Tail(txRequests)
  /\ txHeld' = takes(txHeld, g, Head(txRequests))
  /\ UNCHANGED <<history, sendVars, recvVars, addrRequests, addrResponses,
                 txResponses, addrHeld>>

ReplyTx(g) ==
  /\ g \in DOMAIN txHeld
  /\ HasRoom(txResponses, TxChanSize)
  /\ \E n \in Heights :
       txResponses' = Append(txResponses, [req |-> txHeld[g], height |-> n])
  /\ txHeld' = leaves(txHeld, g)
  /\ UNCHANGED <<history, sendVars, recvVars, addrRequests, addrResponses,
                 txRequests, addrHeld>>

RequeueTx(g) ==
  /\ g \in DOMAIN txHeld
  /\ HasRoom(txRequests, TxChanSize)
  /\ txRequests' = Append(txRequests, txHeld[g])
  /\ txHeld' = leaves(txHeld, g)
  /\ UNCHANGED <<history, sendVars, recvVars, addrRequests, addrResponses,
                 txResponses, addrHeld>>

processRequests(g) ==
  \/ TakeAddr(g) \/ ReplyAddr(g) \/ RequeueAddr(g)
  \/ TakeTx(g) \/ ReplyTx(g) \/ RequeueTx(g)

-----------------------------------------------------------------------------
accounter == (sendWork \/ recvWork) /\ UNCHANGED <<addrHeld, txHeld>>

Next == accounter \/ \E g \in Goroutine : processRequests(g)

Spec == Init /\ [][Next]_vars

-----------------------------------------------------------------------------
(* The state of Accounter that this stands for.                            *)

addrPending == addrPendingWith(InChannel(addrHeld))
txPending == txPendingWith(InChannel(txHeld))
fetchSeen == seenTxCount + Cardinality(todo)

Fetch == INSTANCE Accounter WITH
           singleAddress <- FALSE,
           transactions  <- DOMAIN transactions,
           recvPC        <- fetchPC,
           seenTxCount   <- fetchSeen

-----------------------------------------------------------------------------
(* The inductive invariant that this needs.                                *)

Distinct(f) == \A x, y \in DOMAIN f : x # y => f[x] # f[y]

\* The requests that are somewhere between AddrRequest or TxRequest and recvWork.
Under(reqs, held, done) == InChannel(reqs) \cup InChannel(held) \cup InChannel(done)

\* Each of them is in one place and there once.
Transit(S, reqs, held, done) ==
  /\ reqs \in Seq(S) /\ held \in [DOMAIN held -> S] /\ done \in Seq(S)
  /\ Distinct(reqs) /\ Distinct(held) /\ Distinct(done)
  /\ InChannel(reqs) \cap InChannel(held) = {}
  /\ InChannel(reqs) \cap InChannel(done) = {}
  /\ InChannel(held) \cap InChannel(done) = {}

TxReq == [from : Address, tx : Tx]

addrAnswered == [i \in DOMAIN addrResponses |-> addrResponses[i].addr]
txAnswered == [i \in DOMAIN txResponses |-> txResponses[i].req]

addrUnder == Under(addrRequests, addrHeld, addrAnswered)
txUnder == Under(txRequests, txHeld, txAnswered)

TransitInv ==
  /\ Transit(Address, addrRequests, addrHeld, addrAnswered)
  /\ Transit(TxReq, txRequests, txHeld, txAnswered)

ResponsesInv ==
  /\ addrResponses \in Seq([addr : Address, txHashes : SUBSET Tx])
  /\ \A m \in InChannel(addrResponses) : m.txHashes \in Answers(m.addr)
  /\ txResponses \in Seq([req : TxReq, height : Heights])

\* recvWork holds countMu while a transaction of the answer is to be requested,
\* and none of those has been requested yet on account of that address.
TodoInv ==
  /\ recvPC \in {"select", "requestTxs", "extend", "done"}
  /\ todo \subseteq Tx
  /\ todo # {} => recvPC = "requestTxs"
  /\ \A t \in todo : [from |-> resp, tx |-> t] \notin txUnder

\* The range ends before the indexes that cannot be derived.
SendInv == seenTxCount \in Nat /\ sendPC # "panic"

IInv == TransitInv /\ ResponsesInv /\ TodoInv /\ SendInv
=============================================================================
