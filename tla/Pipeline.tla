------------------------------- MODULE Pipeline -------------------------------
(***************************************************************************)
(* The accounter's two goroutines (src/accounter/accounter.go) at the       *)
(* granularity of the channels that join them to a backend.                 *)
(*                                                                         *)
(* Channels are bounded FIFO queues and a send blocks while the queue is    *)
(* full.  recvWork sends its transaction requests one at a time while it    *)
(* holds countMu, so sendWork, which needs countMu for every address, and   *)
(* recvWork's own receives all wait for that loop.  A backend module        *)
(* EXTENDS this one with the goroutines at the other end of the channels    *)
(* and is shown to implement Accounter.                                    *)
(*                                                                         *)
(* Derivation limits, 32-bit wrap-around and --type single-address are the  *)
(* subject of Accounter; here the range is assumed to stay clear of them.   *)
(***************************************************************************)
EXTENDS Integers, Sequences, FiniteSets

CONSTANTS
  Lookahead,
  Word,
  HardenedKeyStart,
  Tx,
  Recent,            \* transactions that were not settled when the run began
  MaxUsed,
  Histories,
  AddrChanSize,      \* capacity of addrRequests and of addrResponses
  TxChanSize         \* capacity of txRequests and of txResponses

Changes == {0, 1}
Address == Changes \X (0 .. HardenedKeyStart - 1)

ASSUME PipelineAssumption ==
  /\ Lookahead \in Nat
  /\ Word \in Nat \ {0}
  /\ HardenedKeyStart \in Nat \ {0}
  /\ MaxUsed \in Nat
  /\ IsFiniteSet(Tx)
  /\ Recent \subseteq Tx
  /\ Histories \subseteq [Address -> SUBSET Tx]
  /\ \A h \in Histories : \A a \in Address : a[2] >= MaxUsed => h[a] = {}
  /\ AddrChanSize \in Nat \ {0}
  /\ TxChanSize \in Nat \ {0}
  /\ MaxUsed + Lookahead <= HardenedKeyStart
  /\ 2 * (MaxUsed + Lookahead) < Word

VARIABLES
  history,             \* the chain: the transactions of each address
  indexes, change, lastAddr, sendPC,                          \* sendWork
  lastAddresses, derivedAddrCount, processedAddrCount,        \* under countMu
  seenTxCount, processedTxCount,                              \* under countMu
  addresses,           \* recvWork: answered address |-> its transactions
  transactions,        \* recvWork: fetched transaction |-> its height
  recvPC,              \* "select", "requestTxs" (countMu held), "extend", "done"
  resp,                \* recvWork: the address of the answer in its hands
  todo,                \* recvWork: transactions of the answer still to request
  addrRequests, addrResponses, txRequests, txResponses        \* channels

sendVars == <<indexes, change, lastAddr, sendPC, derivedAddrCount>>
recvVars == <<lastAddresses, processedAddrCount, seenTxCount, processedTxCount,
              addresses, transactions, recvPC, resp, todo>>
channels == <<addrRequests, addrResponses, txRequests, txResponses>>
pipelineVars == <<history, sendVars, recvVars, channels>>

\* Mutant: an unbounded channel.
HasRoomAlways(ch, size) == TRUE

\* A send blocks while the channel is full.
HasRoom(ch, size) == Len(ch) < size

\* Answers a server may give for an address (as in Accounter).
Answers(a) == {h \in SUBSET history[a] : history[a] \ Recent \subseteq h}

PipelineInit ==
  /\ history \in Histories
  /\ indexes = [c \in Changes |-> 0]
  /\ change = 0
  /\ lastAddr = Lookahead
  /\ sendPC = "loop"
  /\ lastAddresses = [c \in Changes |-> Lookahead]
  /\ derivedAddrCount = 0
  /\ processedAddrCount = 0
  /\ seenTxCount = 0
  /\ processedTxCount = 0
  /\ addresses = [a \in {} |-> {}]
  /\ transactions = [t \in {} |-> 0]
  /\ recvPC = "select"
  /\ resp = <<0, 0>>
  /\ todo = {}
  /\ addrRequests = <<>>
  /\ addrResponses = <<>>
  /\ txRequests = <<>>
  /\ txResponses = <<>>

-----------------------------------------------------------------------------
(* sendWork                                                                *)

countMuFree == recvPC # "requestTxs"

NextChange ==
  /\ sendPC = "loop"
  /\ indexes[change] >= lastAddr
  /\ countMuFree
  /\ change' = 1 - change
  /\ lastAddr' = lastAddresses[1 - change]
  /\ UNCHANGED <<history, indexes, sendPC, derivedAddrCount, recvVars, channels>>

DeriveAddr ==
  /\ sendPC = "loop"
  /\ indexes[change] < lastAddr
  /\ countMuFree
  /\ derivedAddrCount' = derivedAddrCount + 1
  /\ sendPC' = "request"
  /\ UNCHANGED <<history, indexes, change, lastAddr, recvVars, channels>>

\* AddrRequest: blocks while addrRequests is full.
RequestAddr ==
  /\ sendPC = "request"
  /\ HasRoom(addrRequests, AddrChanSize)
  /\ addrRequests' = Append(addrRequests, <<change, indexes[change]>>)
  /\ indexes' = [indexes EXCEPT ![change] = @ + 1]
  /\ sendPC' = "loop"
  /\ UNCHANGED <<history, change, lastAddr, derivedAddrCount, recvVars,
                 addrResponses, txRequests, txResponses>>

sendWork == NextChange \/ DeriveAddr \/ RequestAddr

-----------------------------------------------------------------------------
(* recvWork                                                                *)

\* An address answer; countMu is taken for the loop over its transactions.
RecvAddr ==
  /\ recvPC = "select"
  /\ addrResponses # <<>>
  /\ LET a == Head(addrResponses).addr
         h == Head(addrResponses).txHashes
     IN  /\ processedAddrCount' = processedAddrCount + 1
         /\ addresses' = [x \in DOMAIN addresses \cup {a} |->
                            IF x = a THEN h ELSE addresses[x]]
         /\ resp' = a
         /\ todo' = h \ DOMAIN transactions
         /\ recvPC' = IF h = {} THEN "select" ELSE "requestTxs"
  /\ addrResponses' = Tail(addrResponses)
  /\ UNCHANGED <<history, sendVars, lastAddresses, seenTxCount,
                 processedTxCount, transactions, addrRequests, txRequests,
                 txResponses>>

\* TxRequest: blocks while txRequests is full, countMu held.  A request is
\* tagged with the address that caused it, to tell apart requests for one
\* hash; nothing in the code reads the tag.
RequestTx ==
  /\ recvPC = "requestTxs"
  /\ HasRoom(txRequests, TxChanSize)
  /\ \E t \in todo :
       /\ txRequests' = Append(txRequests, [from |-> resp, tx |-> t])
       /\ todo' = todo \ {t}
  /\ seenTxCount' = seenTxCount + 1
  /\ UNCHANGED <<history, sendVars, lastAddresses, processedAddrCount,
                 processedTxCount, addresses, transactions, recvPC, resp,
                 addrRequests, addrResponses, txResponses>>

\* The loop is over: countMu is released, then taken again for the range.
RequestedTxs ==
  /\ recvPC = "requestTxs"
  /\ todo = {}
  /\ recvPC' = "extend"
  /\ UNCHANGED <<history, sendVars, lastAddresses, processedAddrCount,
                 seenTxCount, processedTxCount, addresses, transactions,
                 resp, todo, channels>>

ExtendRange ==
  /\ recvPC = "extend"
  /\ LET n == resp[2] + Lookahead
     IN  lastAddresses' = [lastAddresses EXCEPT
                             ![resp[1]] = IF n > @ THEN n ELSE @]
  /\ recvPC' = "select"
  /\ UNCHANGED <<history, sendVars, processedAddrCount, seenTxCount,
                 processedTxCount, addresses, transactions, resp, todo, channels>>

RecvTx ==
  /\ recvPC = "select"
  /\ txResponses # <<>>
  /\ LET r == Head(txResponses)
     IN  transactions' = [x \in DOMAIN transactions \cup {r.req.tx} |->
                            IF x = r.req.tx THEN r.height ELSE transactions[x]]
  /\ processedTxCount' = processedTxCount + 1
  /\ txResponses' = Tail(txResponses)
  /\ UNCHANGED <<history, sendVars, lastAddresses, processedAddrCount,
                 seenTxCount, addresses, recvPC, resp, todo, addrRequests,
                 addrResponses, txRequests>>

complete ==
  LET n == lastAddresses[0] + lastAddresses[1]
  IN  /\ derivedAddrCount = n
      /\ processedAddrCount = n
      /\ seenTxCount = processedTxCount

Tick ==
  /\ recvPC = "select"
  /\ complete
  /\ recvPC' = "done"
  /\ UNCHANGED <<history, sendVars, lastAddresses, processedAddrCount,
                 seenTxCount, processedTxCount, addresses, transactions,
                 resp, todo, channels>>

recvWork == RecvAddr \/ RequestTx \/ RequestedTxs \/ ExtendRange \/ RecvTx \/ Tick

-----------------------------------------------------------------------------
(* The state of Accounter that a state of the pipeline stands for: what is  *)
(* in a channel, in the hands of a backend's goroutine or still in recvWork's *)
(* loop is pending.                                                        *)

InChannel(ch) == {ch[i] : i \in DOMAIN ch}

addrPendingWith(hands) ==
  InChannel(addrRequests) \cup hands \cup {m.addr : m \in InChannel(addrResponses)}

txPendingWith(hands) ==
  {<<q.from, q.tx>> : q \in InChannel(txRequests) \cup hands
                            \cup {m.req : m \in InChannel(txResponses)}}
    \cup ({resp} \X todo)

fetchPC == IF recvPC = "requestTxs" THEN "extend" ELSE recvPC
=============================================================================
