------------------------------ MODULE Accounter ------------------------------
(***************************************************************************)
(* The fetch phase of the accounter (src/accounter/accounter.go) against    *)
(* the contract of the Backend interface (src/backend/backend.go).          *)
(*                                                                         *)
(* Two goroutines share the counters under countMu.  sendWork derives       *)
(* addresses up to lastAddresses and hands them to the backend; recvWork    *)
(* consumes the answers, requests the transactions they list, extends       *)
(* lastAddresses, and returns when complete() says that the counters agree. *)
(*                                                                         *)
(* The backend promises one answer to each request, at any later time and   *)
(* in any order: a request is in a set from the moment it is made until     *)
(* recvWork takes its answer.  How the goroutines and channels of a backend *)
(* keep this promise is the subject of the modules that refine this one.    *)
(***************************************************************************)
EXTENDS Integers, FiniteSets

CONSTANTS
  Lookahead,         \* --lookahead: addresses scanned past the last used one
  Word,              \* number of values of a uint32; 2^32 in the code
  HardenedKeyStart,  \* indexes from here on cannot be derived from a public key
  Tx,                \* transaction hashes
  Recent,            \* transactions that were not settled when the run began
  MaxUsed,           \* no address with this index or above was ever used
  Histories          \* what the chain may hold about the addresses

Changes == {0, 1}
Address == Changes \X (0 .. HardenedKeyStart - 1)
Request == Changes \X Nat

ASSUME SizesAssumption ==
  /\ Lookahead \in Nat
  /\ Word \in Nat \ {0}
  /\ HardenedKeyStart \in Nat \ {0}
  /\ MaxUsed \in Nat
  /\ Lookahead < Word

ASSUME ChainAssumption ==
  /\ IsFiniteSet(Tx)
  /\ Recent \subseteq Tx
  /\ Histories \subseteq [Address -> SUBSET Tx]
  /\ \A h \in Histories : \A a \in Address : a[2] >= MaxUsed => h[a] = {}

VARIABLES
  history,             \* the chain: the transactions of each address
  singleAddress,       \* TRUE for --type single-address
  indexes,             \* sendWork: next index of each change value
  change,              \* sendWork: position in its loop over change values
  lastAddr,            \* sendWork: its copy of lastAddresses[change]
  sendPC,              \* "loop", "request" (derived and counted), "panic"
  lastAddresses,       \* shared: first index that is not to be scanned
  derivedAddrCount,    \* shared
  processedAddrCount,  \* shared
  seenTxCount,         \* shared
  processedTxCount,    \* shared
  addresses,           \* recvWork: answered address |-> its transactions
  transactions,        \* recvWork: transactions that were fetched
  recvPC,              \* "select", "extend" (range update is due), "done"
  resp,                \* recvWork: the address of the answer in its hands
  addrPending,         \* backend: address requests not answered yet
  txPending            \* backend: transaction requests not answered yet

sendVars == <<indexes, change, lastAddr, sendPC, derivedAddrCount>>
recvVars == <<lastAddresses, processedAddrCount, seenTxCount,
              processedTxCount, addresses, transactions, recvPC, resp>>
vars == <<history, singleAddress, sendVars, recvVars, addrPending, txPending>>

-----------------------------------------------------------------------------
(* Arithmetic and derivation.                                              *)

\* Addition of uint32 values.
U32(n) == n % Word

\* Mutant: the newer value wins.
Max2Latest(m, n) == n

\* utils.Max
Max2(m, n) == IF n > m THEN n ELSE m

\* AddressDeriver.Derive: a single address answers for every change and index.
Derive(r) == IF singleAddress THEN <<0, 0>> ELSE r

\* Mutant: off by one.
DerivePanicsEarly(index) == ~singleAddress /\ index >= HardenedKeyStart - 1

\* hdkeychain's Child refuses a hardened index on a public key; PanicOnError
\* turns the refusal into a panic.
DerivePanics(index) == ~singleAddress /\ index >= HardenedKeyStart

\* The answers a backend may give for an address: a settled transaction is
\* always listed, an unsettled one may or may not have reached the server.
Answers(a) == {h \in SUBSET history[a] : history[a] \ Recent \subseteq h}

-----------------------------------------------------------------------------
(* New, and the environment it is given.                                   *)

Init ==
  /\ history \in Histories
  /\ singleAddress \in BOOLEAN
  /\ indexes = [c \in Changes |-> 0]
  /\ change = 0
  /\ lastAddr = Lookahead
  /\ sendPC = "loop"
  /\ lastAddresses = [c \in Changes |-> Lookahead]
  /\ derivedAddrCount = 0
  /\ processedAddrCount = 0
  /\ seenTxCount = 0
  /\ processedTxCount = 0
  /\ addresses = [a \in {} |-> {}]
  /\ transactions = {}
  /\ recvPC = "select"
  /\ resp = <<0, 0>>
  /\ addrPending = {}
  /\ txPending = {}

-----------------------------------------------------------------------------
(* sendWork                                                                *)

\* Mutant: the loop is over receiving addresses alone.
NextChangeStays ==
  /\ sendPC = "loop"
  /\ indexes[change] >= lastAddr
  /\ lastAddr' = lastAddresses[change]
  /\ UNCHANGED <<history, singleAddress, indexes, change, sendPC, derivedAddrCount,
                 recvVars, addrPending, txPending>>

\* The inner loop ends; the next iteration reads its bound under countMu.
NextChange ==
  /\ sendPC = "loop"
  /\ indexes[change] >= lastAddr
  /\ change' = 1 - change
  /\ lastAddr' = lastAddresses[1 - change]
  /\ UNCHANGED <<history, singleAddress, indexes, sendPC, derivedAddrCount,
                 recvVars, addrPending, txPending>>

\* Derive the next address and count it, before it is requested.
DeriveAddr ==
  /\ sendPC = "loop"
  /\ indexes[change] < lastAddr
  /\ ~DerivePanics(indexes[change])
  /\ derivedAddrCount' = derivedAddrCount + 1
  /\ sendPC' = "request"
  /\ UNCHANGED <<history, singleAddress, indexes, change, lastAddr, recvVars,
                 addrPending, txPending>>

\* The derivation fails: the panic takes the whole process down.
DeriveAddrPanic ==
  /\ sendPC = "loop"
  /\ indexes[change] < lastAddr
  /\ DerivePanics(indexes[change])
  /\ sendPC' = "panic"
  /\ UNCHANGED <<history, singleAddress, indexes, change, lastAddr,
                 derivedAddrCount, recvVars, addrPending, txPending>>

\* backend.AddrRequest
RequestAddr ==
  /\ sendPC = "request"
  /\ addrPending' = addrPending \cup {<<change, indexes[change]>>}
  /\ indexes' = [indexes EXCEPT ![change] = @ + 1]
  /\ sendPC' = "loop"
  /\ UNCHANGED <<history, singleAddress, change, lastAddr, derivedAddrCount,
                 recvVars, txPending>>

sendWork == NextChange \/ DeriveAddr \/ DeriveAddrPanic \/ RequestAddr

-----------------------------------------------------------------------------
(* recvWork                                                                *)

\* Mutant: an address all of whose transactions are known extends nothing.
AfterAnswerIfNew(h) == IF h \subseteq transactions THEN "select" ELSE "extend"

\* HasTransactions decides whether the range is extended.
AfterAnswer(h) == IF h # {} THEN "extend" ELSE "select"

\* The answer to address request r lists the transactions h: those that have
\* not been fetched are requested, even if another address did so before.
RecvAddr(r, h) ==
  LET a   == Derive(r)
      new == h \ transactions
  IN  /\ sendPC # "panic"
      /\ recvPC = "select"
      /\ r \in addrPending
      /\ addrPending' = addrPending \ {r}
      /\ processedAddrCount' = processedAddrCount + 1
      /\ addresses' = [x \in DOMAIN addresses \cup {a} |->
                         IF x = a THEN h ELSE addresses[x]]
      /\ txPending' = txPending \cup ({r} \X new)
      /\ seenTxCount' = seenTxCount + Cardinality(new)
      /\ resp' = a
      /\ recvPC' = AfterAnswer(h)
      /\ UNCHANGED <<history, singleAddress, sendVars, lastAddresses,
                     processedTxCount, transactions>>

\* Mutant: off by one.
ReachOneMore(index) == U32(index + Lookahead + 1)

\* The end of the range that an address with transactions calls for.
Reach(index) == U32(index + Lookahead)

\* An address with transactions extends the range, in a critical section of
\* its own.
ExtendRange ==
  /\ sendPC # "panic"
  /\ recvPC = "extend"
  /\ lastAddresses' = [lastAddresses EXCEPT
                         ![resp[1]] = Max2(@, Reach(resp[2]))]
  /\ recvPC' = "select"
  /\ UNCHANGED <<history, singleAddress, sendVars, processedAddrCount,
                 seenTxCount, processedTxCount, addresses, transactions, resp,
                 addrPending, txPending>>

RecvTx(q) ==
  /\ sendPC # "panic"
  /\ recvPC = "select"
  /\ q \in txPending
  /\ txPending' = txPending \ {q}
  /\ processedTxCount' = processedTxCount + 1
  /\ transactions' = transactions \cup {q[2]}
  /\ UNCHANGED <<history, singleAddress, sendVars, lastAddresses,
                 processedAddrCount, seenTxCount, addresses, recvPC, resp,
                 addrPending>>

\* Mutant: does not wait for the answers to address requests.
completeWhenDerived ==
  /\ derivedAddrCount = U32(lastAddresses[0] + lastAddresses[1])
  /\ seenTxCount = processedTxCount

\* Mutant: does not wait for the transactions.
completeWithoutTxs ==
  LET n == U32(lastAddresses[0] + lastAddresses[1])
  IN  derivedAddrCount = n /\ processedAddrCount = n

complete ==
  LET n == U32(lastAddresses[0] + lastAddresses[1])
  IN  /\ derivedAddrCount = n
      /\ processedAddrCount = n
      /\ seenTxCount = processedTxCount

\* A tick that finds everything complete ends recvWork; any other tick leaves
\* the state as it is.
Tick ==
  /\ sendPC # "panic"
  /\ recvPC = "select"
  /\ complete
  /\ recvPC' = "done"
  /\ UNCHANGED <<history, singleAddress, sendVars, lastAddresses,
                 processedAddrCount, seenTxCount, processedTxCount, addresses,
                 transactions, resp, addrPending, txPending>>

RecvSomeAddr == \E r \in addrPending : \E h \in Answers(Derive(r)) : RecvAddr(r, h)
RecvSomeTx == \E q \in txPending : RecvTx(q)

recvWork == RecvSomeAddr \/ ExtendRange \/ RecvSomeTx \/ Tick

-----------------------------------------------------------------------------
Next == sendWork \/ recvWork

\* Both goroutines are scheduled, the backend answers, and the ticker fires
\* while it is left alone: after the last answer nothing else can preempt it.
Fairness == WF_vars(sendWork) /\ WF_vars(recvWork)

Spec == Init /\ [][Next]_vars
FairSpec == Spec /\ Fairness

-----------------------------------------------------------------------------
(* What the fetch phase promises.                                          *)

TypeOK ==
  /\ history \in [Address -> SUBSET Tx]
  /\ singleAddress \in BOOLEAN
  /\ indexes \in [Changes -> Nat]
  /\ change \in Changes
  /\ lastAddr \in Nat
  /\ sendPC \in {"loop", "request", "panic"}
  /\ lastAddresses \in [Changes -> Nat]
  /\ derivedAddrCount \in Nat
  /\ processedAddrCount \in Nat
  /\ seenTxCount \in Nat
  /\ processedTxCount \in Nat
  /\ DOMAIN addresses \subseteq Address
  /\ addresses \in [DOMAIN addresses -> SUBSET Tx]
  /\ transactions \subseteq Tx
  /\ recvPC \in {"select", "extend", "done"}
  /\ resp \in Address
  /\ addrPending \subseteq Request
  /\ txPending \subseteq Request \X Tx

\* The sums complete() and recvWork compute in 32 bits do not wrap around.
NoWrap == 2 * (MaxUsed + Lookahead) < Word

\* Every address of the range has been answered ...
RangeAnswered ==
  \A c \in Changes : \A i \in 0 .. lastAddresses[c] - 1 :
    Derive(<<c, i>>) \in DOMAIN addresses

\* ... every transaction of those answers has been fetched ...
AnswersFetched ==
  \A a \in DOMAIN addresses : addresses[a] \subseteq transactions

\* ... and the range ends Lookahead addresses past the last used one.
GapScanned ==
  \A a \in DOMAIN addresses :
    addresses[a] # {} => lastAddresses[a[1]] >= a[2] + Lookahead

\* complete() tells the truth: it only compares counters, yet when recvWork
\* returns on its word the scanned range is closed under the lookahead rule
\* and no answer, listed transaction or address of the range is missing,
\* whatever the order in which requests were made and answers arrived.
FetchComplete ==
  recvPC = "done" => RangeAnswered /\ AnswersFetched /\ GapScanned

Settled(a) == history[a] \ Recent

\* A wallet that never leaves Lookahead unused addresses before a used one.
GapRespected ==
  \A a \in Address : Settled(a) # {} =>
    \/ a[2] < Lookahead
    \/ \E j \in 0 .. a[2] - 1 : /\ Settled(<<a[1], j>>) # {}
                               /\ a[2] < j + Lookahead

\* What the balance rests on: when recvWork returns, every settled transaction
\* of a wallet that respects the gap limit has been fetched.
WalletCovered ==
  recvPC = "done" /\ GapRespected /\ ~singleAddress =>
    \A a \in Address : Settled(a) \subseteq transactions

\* The same for --type single-address, where every request is for one address
\* and each answer overwrites the one before.
SingleAddressCovered ==
  recvPC = "done" /\ singleAddress /\ Lookahead > 0 =>
    Settled(<<0, 0>>) \subseteq transactions

\* The scan never strays: whatever sendWork has derived lies within Lookahead of
\* the start or of an address that was found used, for each change value apart.
NoOverscan ==
  \A c \in Changes : indexes[c] > Lookahead =>
    \E a \in DOMAIN addresses :
      a[1] = c /\ addresses[a] # {} /\ indexes[c] <= a[2] + Lookahead

\* The process dies in a derivation only if the wallet itself, or the lookahead,
\* reaches the end of the indexes that a public key can derive.
PanicJustified ==
  sendPC = "panic" =>
    \/ Lookahead > HardenedKeyStart
    \/ \E a \in Address : history[a] # {} /\ a[2] + Lookahead > HardenedKeyStart

\* Once recvWork has returned (and fetchTransactions calls backend.Finish)
\* sendWork, which runs for ever, makes no further request and the results
\* stay as they are.
QuietAfterDone ==
  [][recvPC = "done" =>
       UNCHANGED <<derivedAddrCount, addrPending, txPending, addresses,
                   transactions>>]_vars

\* If every request is answered the fetch phase ends, for whatever history:
\* the extensions of the range do not outrun complete().
Terminates == <>(recvPC = "done" \/ sendPC = "panic")

-----------------------------------------------------------------------------
(* The inductive invariant that these need.                                *)

\* Requests made so far.
Requested == UNION {{c} \X (0 .. indexes[c] - 1) : c \in Changes}

\* Only indexes that can be derived are counted and requested.
Derivable ==
  /\ sendPC = "request" => ~DerivePanics(indexes[change])
  /\ \A r \in addrPending : ~DerivePanics(r[2])

\* sendWork stays within the range it has read, which only grows.
SendInRange ==
  /\ lastAddr <= lastAddresses[change]
  /\ \A c \in Changes : indexes[c] <= lastAddresses[c]
  /\ sendPC = "request" => indexes[change] < lastAddr

\* Each counter is the size of the set it stands for.
CountersMatch ==
  /\ derivedAddrCount =
       indexes[0] + indexes[1] + (IF sendPC = "request" THEN 1 ELSE 0)
  /\ IsFiniteSet(addrPending)
  /\ processedAddrCount + Cardinality(addrPending) = indexes[0] + indexes[1]
  /\ IsFiniteSet(txPending)
  /\ processedTxCount + Cardinality(txPending) = seenTxCount

\* Nothing is lost between a request and its answer.
NothingLost ==
  /\ addrPending \subseteq Requested
  /\ \A q \in txPending : q[1] \in Requested \ addrPending
  /\ \A r \in Requested \ addrPending : Derive(r) \in DOMAIN addresses
  /\ \A a \in DOMAIN addresses : \A t \in addresses[a] :
       t \in transactions \/ \E q \in txPending : q[2] = t
  /\ \A a \in DOMAIN addresses : addresses[a] \in Answers(a)

\* An answered address has extended the range, or is about to.
RangeExtended ==
  \A a \in DOMAIN addresses :
    addresses[a] # {} =>
      \/ lastAddresses[a[1]] >= a[2] + Lookahead
      \/ recvPC = "extend" /\ resp = a

\* The range stays clear of 32-bit wrap-around.
RangeBounded ==
  /\ \A a \in Address : a[2] >= MaxUsed => history[a] = {}
  /\ \A c \in Changes : lastAddresses[c] \in Lookahead .. MaxUsed + Lookahead
  /\ recvPC = "extend" => /\ resp \in DOMAIN addresses
                         /\ addresses[resp] # {}

\* When recvWork has returned nothing is pending and nothing is left to do.
DoneIsQuiet ==
  recvPC = "done" =>
    /\ addrPending = {}
    /\ txPending = {}
    /\ indexes = lastAddresses
    /\ sendPC # "request"

\* The range has been extended for used addresses alone, and no further than
\* they call for.
RangeReached ==
  /\ \A c \in Changes : lastAddresses[c] > Lookahead =>
       \E a \in DOMAIN addresses :
         a[1] = c /\ addresses[a] # {} /\ lastAddresses[c] <= a[2] + Lookahead
  /\ recvPC = "extend" => resp \in DOMAIN addresses /\ addresses[resp] # {}
  /\ \A a \in DOMAIN addresses : addresses[a] \subseteq history[a]

\* Only the answers for a single address replace one another.
AnsweredOnce ==
  /\ addrPending \subseteq Requested
  /\ singleAddress => DOMAIN addresses \subseteq {<<0, 0>>}
  /\ ~singleAddress => DOMAIN addresses \subseteq Requested \ addrPending

\* The derivation that failed was of an address in range.
PanicInRange ==
  sendPC = "panic" => DerivePanics(indexes[change]) /\ indexes[change] < lastAddr

\* What NoOverscan and PanicJustified rest on, sums that wrap around or not.
ScanInv == SendInRange /\ RangeReached /\ AnsweredOnce /\ PanicInRange

\* A range got where it ends by steps of at most Lookahead: from the start to any
\* later index there is an address found used before it that has it in reach.
Stepped(f, range) ==
  \A c \in Changes : \A n \in Lookahead .. range[c] - 1 :
    \E j \in 0 .. n - 1 :
      <<c, j>> \in DOMAIN f /\ f[<<c, j>>] # {} /\ n < j + Lookahead

\* Nothing is asked for or fetched that no answer lists.
NothingInvented ==
  ~singleAddress =>
    /\ \A t \in transactions : \E a \in DOMAIN addresses : t \in addresses[a]
    /\ \A q \in txPending : q[1] \in DOMAIN addresses /\ q[2] \in addresses[q[1]]

\* What a scan that has ended depends on: the answers, not their order.
AnswersInv == Stepped(addresses, lastAddresses) /\ NothingInvented

\* A complete scan: the answers f to the addresses of a range that they call for.
Scanned(f, range) ==
  /\ range \in [Changes -> Nat]
  /\ \A c \in Changes : range[c] >= Lookahead
  /\ DOMAIN f = {a \in Address : a[2] < range[a[1]]}
  /\ \A a \in DOMAIN f : f[a] # {} => a[2] + Lookahead <= range[a[1]]
  /\ Stepped(f, range)

IInv ==
  /\ TypeOK
  /\ Derivable
  /\ SendInRange
  /\ CountersMatch
  /\ NothingLost
  /\ RangeExtended
  /\ RangeBounded
  /\ DoneIsQuiet
  /\ ScanInv
  /\ AnswersInv
=============================================================================
