---------------------------- MODULE RecordReplay ----------------------------
(***************************************************************************)
(* A run that is recorded and then replayed: the accounter on the recorder  *)
(* backend (src/backend/recorder_backend.go), the file the recorder writes  *)
(* on Finish, and a second run of the accounter on the fixture backend      *)
(* (src/backend/fixture_backend.go) that loads it.                          *)
(*                                                                         *)
(* Either backend is one goroutine between the accounter's channels, called *)
(* processRequests in both.  The recorder's takes the answers of the        *)
(* backend it wraps, here any backend that keeps the contract of Accounter: *)
(* a request in addrRequests or txRequests may be answered at any time, in  *)
(* any order.  The fixture's takes requests in order and answers from the   *)
(* file; its select also takes its own responses and sends them again.      *)
(*                                                                         *)
(* Not modelled: the block requests and the recorded chain height, and a    *)
(* file that was there before the recording.                               *)
(***************************************************************************)
EXTENDS Pipeline, SequencesExt

VARIABLES
  phase,      \* "record", "replay", "refused" (the fixture file is unusable)
  pc,         \* processRequests: "select", "store", "forward", "returned"
  hand,       \* processRequests: the response it holds
  addrIndex,  \* address |-> transactions
  txIndex,    \* transaction |-> height
  doneCh,     \* TRUE when closed
  writePC,    \* writeToFile: "none", "addrs", "txs", "save", "written", "failed"
  file,       \* what writeToFile has collected, then the file
  recorded    \* the accounter's maps at the end of the recorded run

backendVars == <<pc, hand, addrIndex, txIndex, doneCh>>
fileVars == <<phase, writePC, file, recorded>>
vars == <<pipelineVars, backendVars, fileVars>>

Empty == [x \in {} |-> {}]
NoData == [addresses |-> {}, transactions |-> {}]
Nothing == [addr |-> <<0, 0>>, txHashes |-> {}]

\* Assignment to a key of a Go map.
Put(f, k, v) == [x \in DOMAIN f \cup {k} |-> IF x = k THEN v ELSE f[x]]

\* A message is an address response or a transaction response.
IsAddr(m) == "addr" \in DOMAIN m

Init ==
  /\ PipelineInit
  /\ phase = "record"
  /\ pc = "select"
  /\ hand = Nothing
  /\ addrIndex = Empty
  /\ txIndex = Empty
  /\ doneCh = FALSE
  /\ writePC = "none"
  /\ file = NoData
  /\ recorded = [addresses |-> Empty, transactions |-> Empty]

\* The goroutine has a response in its hands.
Hold(m, label) == hand' = m /\ pc' = label

\* The send of that response blocks while its channel is full.
Send(label) ==
  /\ pc = "forward"
  /\ IF IsAddr(hand)
     THEN /\ HasRoom(addrResponses, AddrChanSize)
          /\ addrResponses' = Append(addrResponses, hand)
          /\ UNCHANGED txResponses
     ELSE /\ HasRoom(txResponses, TxChanSize)
          /\ txResponses' = Append(txResponses, hand)
          /\ UNCHANGED addrResponses
  /\ Hold(IF label = "select" THEN Nothing ELSE hand, label)
  /\ UNCHANGED <<history, sendVars, recvVars, addrRequests, txRequests,
                 addrIndex, txIndex, doneCh, fileVars>>

\* The doneCh case of either select returns.
Done ==
  /\ pc = "select"
  /\ doneCh
  /\ pc' = "returned"
  /\ UNCHANGED <<pipelineVars, hand, addrIndex, txIndex, doneCh, fileVars>>

-----------------------------------------------------------------------------
(* RecorderBackend.processRequests                                         *)

\* Mutant: forwards a response before it is stored.
AfterForwardFirst(label) ==
  CASE label = "select"  -> "forward"
    [] label = "forward" -> "store"
    [] label = "store"   -> "select"

\* A response is stored, then forwarded.
After(label) ==
  CASE label = "select"  -> "store"
    [] label = "store"   -> "forward"
    [] label = "forward" -> "select"

\* The wrapped backend answers an address request.
RecordAddr ==
  /\ phase = "record"
  /\ pc = "select"
  /\ \E i \in DOMAIN addrRequests : \E h \in Answers(addrRequests[i]) :
       /\ addrRequests' = RemoveAt(addrRequests, i)
       /\ Hold([addr |-> addrRequests[i], txHashes |-> h], After("select"))
  /\ UNCHANGED <<history, sendVars, recvVars, addrResponses, txRequests,
                 txResponses, addrIndex, txIndex, doneCh, fileVars>>

\* What a backend may report as the height of a transaction: one that is not
\* settled may be reported unmined at one time and mined at another.
HeightsOf(t) == IF t \in Recent THEN {0, 1} ELSE {1}

RecordTx ==
  /\ phase = "record"
  /\ pc = "select"
  /\ \E i \in DOMAIN txRequests : \E h \in HeightsOf(txRequests[i].tx) :
       /\ txRequests' = RemoveAt(txRequests, i)
       /\ Hold([req |-> txRequests[i], height |-> h], After("select"))
  /\ UNCHANGED <<history, sendVars, recvVars, addrRequests, addrResponses,
                 txResponses, addrIndex, txIndex, doneCh, fileVars>>

Store ==
  /\ phase = "record"
  /\ pc = "store"
  /\ IF IsAddr(hand)
     THEN /\ addrIndex' = Put(addrIndex, hand.addr, hand.txHashes)
          /\ UNCHANGED txIndex
     ELSE /\ txIndex' = Put(txIndex, hand.req.tx, hand.height)
          /\ UNCHANGED addrIndex
  /\ pc' = After("store")
  /\ UNCHANGED <<pipelineVars, hand, doneCh, fileVars>>

Record ==
  \/ RecordAddr \/ RecordTx \/ Store
  \/ phase = "record" /\ Send(After("forward"))

-----------------------------------------------------------------------------
(* Finish of either backend; the recorder's goes on to writeToFile, without *)
(* the mutexes of the maps it reads.                                       *)

Finish ==
  /\ recvPC = "done"
  /\ ~doneCh
  /\ doneCh' = TRUE
  /\ writePC' = IF phase = "record" THEN "addrs" ELSE writePC
  /\ UNCHANGED <<pipelineVars, pc, hand, addrIndex, txIndex, phase, file,
                 recorded>>

WriteAddrs ==
  /\ writePC = "addrs"
  /\ file' = [file EXCEPT !.addresses =
                {[address |-> a, txHashes |-> addrIndex[a]] : a \in DOMAIN addrIndex}]
  /\ writePC' = "txs"
  /\ UNCHANGED <<pipelineVars, backendVars, phase, recorded>>

WriteTxs ==
  /\ writePC = "txs"
  /\ file' = [file EXCEPT !.transactions =
                {[hash |-> t, height |-> txIndex[t]] : t \in DOMAIN txIndex}]
  /\ writePC' = "save"
  /\ UNCHANGED <<pipelineVars, backendVars, phase, recorded>>

Save ==
  /\ writePC = "save"
  /\ writePC' = "written"
  /\ UNCHANGED <<pipelineVars, backendVars, phase, file, recorded>>

\* The file cannot be created, or not be written to the end: the error is
\* printed and the run goes on to its balance.
WriteFails ==
  /\ writePC \in {"addrs", "save"}
  /\ writePC' = "failed"
  /\ UNCHANGED <<pipelineVars, backendVars, phase, file, recorded>>

writeToFile == WriteAddrs \/ WriteTxs \/ Save \/ WriteFails

-----------------------------------------------------------------------------
(* NewFixtureBackend, in a second process with an accounter of its own.    *)

\* The addresses of the file, by their string; the file has each once.
LoadAddrs(entries) ==
  [a \in {e.address : e \in entries} |->
     (CHOOSE e \in entries : e.address = a).txHashes]

\* Mutant: the height is left out of the TxResponse.
LoadTxsNoHeight(entries) == [t \in {e.hash : e \in entries} |-> 0]

\* The transactions of the file, by their hash.
LoadTxs(entries) ==
  [t \in {e.hash : e \in entries} |-> (CHOOSE e \in entries : e.hash = t).height]

Load ==
  /\ phase = "record"
  /\ writePC = "written"
  /\ phase' = "replay"
  /\ recorded' = [addresses |-> addresses, transactions |-> transactions]
  /\ Hold(Nothing, "select")
  /\ addrIndex' = LoadAddrs(file.addresses)
  /\ txIndex' = LoadTxs(file.transactions)
  /\ doneCh' = FALSE
  /\ indexes' = [c \in Changes |-> 0]
  /\ change' = 0
  /\ lastAddr' = Lookahead
  /\ sendPC' = "loop"
  /\ lastAddresses' = [c \in Changes |-> Lookahead]
  /\ derivedAddrCount' = 0
  /\ processedAddrCount' = 0
  /\ seenTxCount' = 0
  /\ processedTxCount' = 0
  /\ addresses' = Empty
  /\ transactions' = Empty
  /\ recvPC' = "select"
  /\ resp' = <<0, 0>>
  /\ todo' = {}
  /\ addrRequests' = <<>>
  /\ addrResponses' = <<>>
  /\ txRequests' = <<>>
  /\ txResponses' = <<>>
  /\ UNCHANGED <<history, writePC, file>>

\* There is no file, it cannot be read, or what there is of it does not parse.
Refuse ==
  /\ phase = "record"
  /\ writePC \in {"written", "failed"}
  /\ phase' = "refused"
  /\ UNCHANGED <<pipelineVars, backendVars, writePC, file, recorded>>

-----------------------------------------------------------------------------
(* FixtureBackend.processRequests                                          *)

\* An address that is not in the file is taken to be unused.
processAddrRequest ==
  LET a == Head(addrRequests)
  IN  /\ phase = "replay"
      /\ pc = "select"
      /\ addrRequests # <<>>
      /\ addrRequests' = Tail(addrRequests)
      /\ Hold([addr |-> a,
               txHashes |-> IF a \in DOMAIN addrIndex THEN addrIndex[a] ELSE {}],
              "forward")
      /\ UNCHANGED <<history, sendVars, recvVars, addrResponses, txRequests,
                     txResponses, addrIndex, txIndex, doneCh, fileVars>>

\* A transaction that is not in the file gets no answer.
processTxRequest ==
  LET q == Head(txRequests)
  IN  /\ phase = "replay"
      /\ pc = "select"
      /\ txRequests # <<>>
      /\ txRequests' = Tail(txRequests)
      /\ IF q.tx \in DOMAIN txIndex
         THEN Hold([req |-> q, height |-> txIndex[q.tx]], "forward")
         ELSE UNCHANGED <<hand, pc>>
      /\ UNCHANGED <<history, sendVars, recvVars, addrRequests, addrResponses,
                     txResponses, addrIndex, txIndex, doneCh, fileVars>>

\* Mutant: a response that was taken back is not sent again.
AfterTakeBackDropped == "select"

AfterTakeBack == "forward"

\* The select may also receive from the response channels.
TakeBackAddr ==
  /\ phase = "replay"
  /\ pc = "select"
  /\ addrResponses # <<>>
  /\ addrResponses' = Tail(addrResponses)
  /\ Hold(Head(addrResponses), AfterTakeBack)
  /\ UNCHANGED <<history, sendVars, recvVars, addrRequests, txRequests,
                 txResponses, addrIndex, txIndex, doneCh, fileVars>>

TakeBackTx ==
  /\ phase = "replay"
  /\ pc = "select"
  /\ txResponses # <<>>
  /\ txResponses' = Tail(txResponses)
  /\ Hold(Head(txResponses), AfterTakeBack)
  /\ UNCHANGED <<history, sendVars, recvVars, addrRequests, addrResponses,
                 txRequests, addrIndex, txIndex, doneCh, fileVars>>

Replay ==
  \/ processAddrRequest \/ processTxRequest \/ TakeBackAddr \/ TakeBackTx
  \/ phase = "replay" /\ Send("select")

-----------------------------------------------------------------------------
accounter == (sendWork \/ recvWork) /\ UNCHANGED <<backendVars, fileVars>>

Next ==
  \/ phase # "refused" /\ accounter
  \/ Record \/ Done \/ Finish \/ writeToFile \/ Load \/ Refuse \/ Replay

\* Goroutines are scheduled and the wrapped backend answers.  The fixture takes
\* responses back for as long as they wait, so that weak fairness says nothing
\* of the cases of its select, nor of a receive from the channel that it
\* empties for a moment; but a select chooses among its ready cases at random,
\* and a send hands its value to a receiver that is waiting.
Fairness ==
  /\ WF_vars(sendWork /\ accounter)
  /\ SF_vars(recvWork /\ accounter)
  /\ WF_vars(Record)
  /\ WF_vars(Done)
  /\ WF_vars(Finish)
  /\ WF_vars(writeToFile)
  /\ WF_vars(Load)
  /\ WF_vars(Refuse)
  /\ SF_vars(processAddrRequest)
  /\ SF_vars(processTxRequest)
  /\ WF_vars(phase = "replay" /\ Send("select"))

Spec == Init /\ [][Next]_vars
FairSpec == Spec /\ Fairness

-----------------------------------------------------------------------------
TypeOK ==
  /\ Len(addrRequests) <= AddrChanSize /\ Len(addrResponses) <= AddrChanSize
  /\ Len(txRequests) <= TxChanSize /\ Len(txResponses) <= TxChanSize
  /\ phase \in {"record", "replay", "refused"}
  /\ pc \in {"select", "store", "forward", "returned"}
  /\ DOMAIN addrIndex \subseteq Address /\ DOMAIN txIndex \subseteq Tx
  /\ doneCh \in BOOLEAN
  /\ writePC \in {"none", "addrs", "txs", "save", "written", "failed"}

\* The recording is what the accounter saw, to the last height: although a
\* transaction may be answered twice, with different heights, the map and the
\* accounter end up with the same one, and nothing is still on its way when
\* the maps are read.
RecordingComplete ==
  phase = "record" /\ writePC = "written" =>
    /\ LoadAddrs(file.addresses) = addresses
    /\ LoadTxs(file.transactions) = transactions

\* writeToFile may read the maps without their mutexes: nobody writes to them
\* any more once it has begun.
QuietMaps ==
  [][phase = "record" /\ writePC # "none" /\ phase' = phase =>
       UNCHANGED <<addrIndex, txIndex>>]_vars

\* A replayed run ends with the addresses, transactions and heights of the
\* recorded one, hence with its balance, though it asks and is answered in
\* another order.
ReplaySame ==
  phase = "replay" /\ recvPC = "done" =>
    recorded = [addresses |-> addresses, transactions |-> transactions]

InHand == pc \in {"store", "forward"}

Fetch == INSTANCE Accounter WITH
           singleAddress <- FALSE,
           transactions  <- DOMAIN transactions,
           recvPC        <- fetchPC,
           seenTxCount   <- seenTxCount + Cardinality(todo),
           addrPending   <- addrPendingWith(IF InHand /\ IsAddr(hand)
                                            THEN {hand.addr} ELSE {}),
           txPending     <- txPendingWith(IF InHand /\ ~IsAddr(hand)
                                          THEN {hand.req} ELSE {})

\* Either run keeps the contract the accounter relies on: storing, forwarding
\* and taking back lose, repeat and invent no answer.
ImplementsFetch ==
  /\ Fetch!Init
  /\ [][phase' = phase => [Fetch!Next]_(Fetch!vars)]_vars

\* The one way to wait for ever: recvWork has a transaction request to send, the
\* backend's goroutine a response, and both channels are full.
Stalled ==
  /\ recvPC = "requestTxs"
  /\ todo # {}
  /\ ~HasRoom(txRequests, TxChanSize)
  /\ pc = "forward"
  /\ IF IsAddr(hand) THEN ~HasRoom(addrResponses, AddrChanSize)
                     ELSE ~HasRoom(txResponses, TxChanSize)

\* Both runs come to an end and their goroutine returns, unless the transaction
\* requests of a wallet outgrow the channels.  In particular the replay never
\* asks for a transaction that the file does not have.
Terminates ==
  <>(\/ phase = "refused"
     \/ phase = "replay" /\ pc = "returned"
     \/ Stalled)

-----------------------------------------------------------------------------
(* The inductive invariant that these need, beside Accounter's.             *)

AddrAnswer == [addr : Address, txHashes : SUBSET Tx]
TxAnswer == [req : [from : Address, tx : Tx], height : {0, 1}]

\* What processRequests has in its hands is an answer that may be given.
HandInv ==
  /\ history \in Histories
  /\ InHand => \/ hand \in AddrAnswer /\ hand.txHashes \in Answers(hand.addr)
               \/ hand \in TxAnswer
  /\ pc = "store" => phase = "record"
  /\ addrIndex \in [DOMAIN addrIndex -> SUBSET Tx]
  /\ txIndex \in [DOMAIN txIndex -> {0, 1}]
  /\ transactions \in [DOMAIN transactions -> {0, 1}]

\* What the responses say, by key and value.
addrPairs(ms) == [i \in DOMAIN ms |-> <<ms[i].addr, ms[i].txHashes>>]
txPairs(ms) == [i \in DOMAIN ms |-> <<ms[i].req.tx, ms[i].height>>]

\* The answers on their way from an index to the accounter.
addrSent == addrPairs(IF pc = "forward" /\ IsAddr(hand) THEN Append(addrResponses, hand)
                                                        ELSE addrResponses)
txSent == txPairs(IF pc = "forward" /\ ~IsAddr(hand) THEN Append(txResponses, hand)
                                                     ELSE txResponses)

\* The accounter's map is catching up with the index: the newest value of a key is
\* in the map or the last of that key on its way there.
CatchesUp(map, sent, index) ==
  /\ DOMAIN map \subseteq DOMAIN index
  /\ \A i \in DOMAIN sent : sent[i][1] \in DOMAIN index
  /\ \A k \in DOMAIN index :
       \/ /\ k \in DOMAIN map /\ map[k] = index[k]
          /\ \A i \in DOMAIN sent : sent[i][1] # k
       \/ \E i \in DOMAIN sent : /\ sent[i] = <<k, index[k]>>
                                 /\ \A j \in DOMAIN sent : j > i => sent[j][1] # k

RecordInv ==
  phase = "record" => /\ CatchesUp(addresses, addrSent, addrIndex)
                      /\ CatchesUp(transactions, txSent, txIndex)

\* The file is written from indexes that are complete.
FileInv ==
  phase = "record" =>
    /\ DOMAIN file = {"addresses", "transactions"}
    /\ writePC # "none" => recvPC = "done"
    /\ writePC \in {"txs", "save", "written"} => LoadAddrs(file.addresses) = addrIndex
    /\ writePC \in {"save", "written"} => LoadTxs(file.transactions) = txIndex

\* Whatever has come from an index, or is on its way, is as the index says.
ComesFrom(map, sent, index) ==
  /\ \A k \in DOMAIN map : k \in DOMAIN index /\ map[k] = index[k]
  /\ \A i \in DOMAIN sent : sent[i][1] \in DOMAIN index /\ sent[i][2] = index[sent[i][1]]

\* The fixture's indexes are what the recorded run ended with: answers, and the
\* transactions that they list ...
FixtureInv ==
  /\ recorded = [addresses |-> addrIndex, transactions |-> txIndex]
  /\ \A a \in DOMAIN addrIndex : /\ addrIndex[a] \in Answers(a)
                                /\ addrIndex[a] \subseteq DOMAIN txIndex
  /\ \A t \in DOMAIN txIndex : \E a \in DOMAIN addrIndex : t \in addrIndex[a]

\* ... a complete scan, which the replay does not go beyond.
RangeInv ==
  \E range \in [Changes -> 0 .. HardenedKeyStart] :
    /\ Fetch!Scanned(addrIndex, range)
    /\ \A c \in Changes : lastAddresses[c] <= range[c]

ReplayInv ==
  phase = "replay" => /\ FixtureInv
                      /\ RangeInv
                      /\ ComesFrom(addresses, addrSent, addrIndex)
                      /\ ComesFrom(transactions, txSent, txIndex)

IInv == TypeOK /\ HandInv /\ RecordInv /\ FileInv /\ ReplayInv
=============================================================================
