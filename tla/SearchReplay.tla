---------------------------- MODULE SearchReplay ----------------------------
(***************************************************************************)
(* A search by time that is recorded and then replayed: Blockfinder over    *)
(* the channels of the recorder on a btcd or an Electrum backend, the file  *)
(* the recorder writes when Search calls Finish, and a second process that  *)
(* searches for the same time on the fixture backend.                       *)
(*                                                                         *)
(* The steps of Search are those of Blockfinder, with pending now the       *)
(* blocks searchSync has still to request: it sends all its requests        *)
(* before it receives an answer, and blocks while blockRequests is full.    *)
(* A response in a channel is the height of its block; in the replay the    *)
(* timestamps, and the height of the chain, are those of the file.          *)
(***************************************************************************)
EXTENDS Blockfinder, Sequences, FiniteSetsExt, Functions

CONSTANTS
  Worker,          \* goroutines that ever serve requests of the live backend
  LiveChanSize,    \* capacity of the live backend's and the recorder's channels
  FixtureChanSize  \* capacity of the fixture's channels; 10, for windows of 11

ASSUME SearchReplayAssumption ==
  /\ LiveChanSize \in Nat \ {0}
  /\ FixtureChanSize \in Nat \ {0}

VARIABLES
  phase,           \* "record", "replay", "refused" (no usable file), "crashed"
  backend,         \* the live backend: "btcd", "electrum"
  blockRequests,
  worker,          \* live backend: what each goroutine does, and its request
  liveResponses,   \* live backend: blockResponses
  hand,            \* the recorder's, then the fixture's, goroutine and response
  blockIndex,      \* height |-> timestamp
  blockResponses,  \* the channel Search receives from
  doneCh,          \* TRUE when closed
  writePC,         \* writeToFile: "none", "write", "written", "failed"
  file,
  tip,             \* ChainHeight() of the backend in use
  recorded         \* what the recorded search returned

liveVars == <<blockRequests, worker, liveResponses>>
proxyVars == <<hand, blockIndex, blockResponses>>
diskVars == <<doneCh, writePC, file, recorded>>
runVars == <<phase, backend, tip>>
allVars == <<vars, liveVars, proxyVars, diskVars, runVars>>

At(label, b) == [at |-> label, block |-> b]

SearchReplayInit ==
  /\ Init
  /\ phase = "record"
  /\ backend \in {"btcd", "electrum"}
  /\ worker = [w \in Worker |-> At("select", 0)]
  /\ blockRequests = <<>> /\ liveResponses = <<>> /\ blockResponses = <<>>
  /\ hand = At("select", 0)
  /\ doneCh = FALSE
  /\ blockIndex = [h \in {} |-> 0]
  /\ writePC = "none"
  /\ file = [height |-> 0, blocks |-> {}]
  /\ tip = ChainHeight
  /\ recorded = <<>>

-----------------------------------------------------------------------------
(* The client: Blockfinder                                                 *)

RequestChanSize == IF phase = "record" THEN LiveChanSize ELSE FixtureChanSize

\* BlockRequest, in the order of the loop of searchSync.
BlockRequest ==
  /\ pending # {}
  /\ Len(blockRequests) < RequestChanSize
  /\ blockRequests' = Append(blockRequests, Min(pending))
  /\ pending' = pending \ {Min(pending)}
  /\ UNCHANGED <<time, target, pc, min, max, minMedian, maxMedian, height, got,
                 worker, liveResponses, proxyVars, diskVars, runVars>>

\* The loop that receives, once the one that sends is over.
Receive ==
  /\ pending = {}
  /\ \/ pc \in {"min", "max", "avg"} /\ ~Answered
     \/ pc = "header" /\ got = {}
  /\ blockResponses # <<>>
  /\ got' = got \cup {Head(blockResponses)}
  /\ blockResponses' = Tail(blockResponses)
  /\ UNCHANGED <<time, target, pc, min, max, minMedian, maxMedian, height,
                 pending, liveVars, hand, blockIndex, diskVars, runVars>>

Compute ==
  /\ pending = {}
  /\ Search(tip)
  /\ UNCHANGED <<liveVars, proxyVars, diskVars, runVars>>

client == BlockRequest \/ Receive \/ Compute

-----------------------------------------------------------------------------
(* The live backend: processBlockRequest of btcd and of electrum           *)

become(w, label, b) == worker' = [worker EXCEPT ![w] = At(label, b)]

Crash == phase' = "crashed" /\ UNCHANGED <<backend, tip>>

\* The calls for the header of a block of the chain succeed.
TakeBlock(w) ==
  /\ worker[w].at = "select"
  /\ blockRequests # <<>>
  /\ Head(blockRequests) \in Height
  /\ blockRequests' = Tail(blockRequests)
  /\ become(w, "reply", Head(blockRequests))
  /\ UNCHANGED <<vars, liveResponses, proxyVars, diskVars, runVars>>

ReplyBlock(w) ==
  /\ worker[w].at = "reply"
  /\ Len(liveResponses) < LiveChanSize
  /\ liveResponses' = Append(liveResponses, worker[w].block)
  /\ become(w, "select", 0)
  /\ UNCHANGED <<vars, blockRequests, proxyVars, diskVars, runVars>>

\* btcd: a call fails, or there is no such block.  electrum: a header that does
\* not decode, which is what a server answers for a block that does not exist.
BlockPanic(w) ==
  /\ worker[w].at = "select"
  /\ blockRequests # <<>>
  /\ Crash
  /\ UNCHANGED <<vars, liveVars, proxyVars, diskVars>>

\* electrum: a call fails, the server is removed and the request put back.
BlockFails(w) ==
  /\ backend = "electrum"
  /\ worker[w].at = "select"
  /\ blockRequests # <<>>
  /\ blockRequests' = Tail(blockRequests)
  /\ become(w, "requeue", Head(blockRequests))
  /\ UNCHANGED <<vars, liveResponses, proxyVars, diskVars, runVars>>

\* Mutant: the request is dropped with its server.
requeueNothing(b) == blockRequests

requeue(b) == Append(blockRequests, b)

RequeueBlock(w) ==
  /\ worker[w].at = "requeue"
  /\ Len(blockRequests) < LiveChanSize
  /\ blockRequests' = requeue(worker[w].block)
  /\ become(w, "returned", 0)
  /\ UNCHANGED <<vars, liveResponses, proxyVars, diskVars, runVars>>

live(w) ==
  /\ phase = "record"
  /\ \/ TakeBlock(w) \/ ReplyBlock(w) \/ BlockPanic(w)
     \/ BlockFails(w) \/ RequeueBlock(w)

-----------------------------------------------------------------------------
(* The goroutine of the recorder, and that of the fixture                  *)

\* Mutant: a block that is in the index already is not forwarded again.
AfterStoreNew(b) == IF b \in DOMAIN blockIndex THEN "select" ELSE "forward"

AfterStore(b) == "forward"

\* The recorder takes a response of the live backend and stores it.
StoreBlock ==
  /\ phase = "record"
  /\ hand.at = "select"
  /\ liveResponses # <<>>
  /\ LET b == Head(liveResponses)
     IN  /\ liveResponses' = Tail(liveResponses)
         /\ blockIndex' = [h \in DOMAIN blockIndex \cup {b} |->
                             IF h = b THEN time[b] ELSE blockIndex[h]]
         /\ hand' = At(AfterStore(b), b)
  /\ UNCHANGED <<vars, blockRequests, worker, blockResponses, diskVars, runVars>>

\* The fixture looks a request up in its index; log.Panicf if it is not there.
FixtureBlock ==
  /\ phase = "replay"
  /\ hand.at = "select"
  /\ blockRequests # <<>>
  /\ LET b == Head(blockRequests)
     IN  IF b \in DOMAIN blockIndex
         THEN /\ blockRequests' = Tail(blockRequests)
              /\ hand' = At("forward", b)
              /\ UNCHANGED runVars
         ELSE Crash /\ UNCHANGED <<blockRequests, hand>>
  /\ UNCHANGED <<vars, worker, liveResponses, blockIndex, blockResponses, diskVars>>

ForwardBlock ==
  /\ hand.at = "forward"
  /\ Len(blockResponses) < RequestChanSize
  /\ blockResponses' = Append(blockResponses, hand.block)
  /\ hand' = At("select", 0)
  /\ UNCHANGED <<vars, liveVars, blockIndex, diskVars, runVars>>

Done ==
  /\ hand.at = "select"
  /\ doneCh
  /\ hand' = At("returned", 0)
  /\ UNCHANGED <<vars, liveVars, blockIndex, blockResponses, diskVars, runVars>>

proxy == StoreBlock \/ FixtureBlock \/ ForwardBlock \/ Done

-----------------------------------------------------------------------------
(* Finish, the file, and the second process                                *)

Result == <<min, minMedian, time[min]>>

\* Search calls Finish before it returns; the recorder's writes the file.
Finish ==
  /\ pc = "done"
  /\ ~doneCh
  /\ doneCh' = TRUE
  /\ writePC' = IF phase = "record" THEN "write" ELSE writePC
  /\ UNCHANGED <<vars, liveVars, proxyVars, file, recorded, runVars>>

Write ==
  /\ writePC = "write"
  /\ writePC' \in {"written", "failed"}
  /\ file' = [height |-> tip,
              blocks |-> {[height |-> h, timestamp |-> blockIndex[h]] :
                            h \in DOMAIN blockIndex}]
  /\ UNCHANGED <<vars, liveVars, proxyVars, doneCh, recorded, runVars>>

\* Mutant: the timestamp is left out of the BlockResponse.
LoadBlocksNoTime(blocks) == [h \in {b.height : b \in blocks} |-> 0]

LoadBlocks(blocks) ==
  [h \in {b.height : b \in blocks} |->
     (CHOOSE b \in blocks : b.height = h).timestamp]

\* Mutant: the height is not taken from the file.
LoadHeightDefault(f) == 0

LoadHeight(f) == f.height

\* NewFixtureBackend in a process of its own, whose Search begins.
Load ==
  LET index == LoadBlocks(file.blocks)
  IN  /\ phase = "record"
      /\ writePC = "written"
      /\ phase' = "replay"
      /\ recorded' = Result
      /\ blockIndex' = index
      /\ tip' = LoadHeight(file)
      /\ time' = [h \in Height |-> IF h \in DOMAIN index THEN index[h] ELSE 0]
      /\ pc' = "min" /\ min' = Start
      /\ max' = 0 /\ minMedian' = 0 /\ maxMedian' = 0
      /\ height' = Start /\ pending' = Window(Start) /\ got' = {}
      /\ blockRequests' = <<>> /\ blockResponses' = <<>>
      /\ hand' = At("select", 0)
      /\ doneCh' = FALSE
      /\ UNCHANGED <<target, worker, liveResponses, writePC, file, backend>>

\* There is no file, or what there is of it does not parse.
Refuse ==
  /\ phase = "record"
  /\ writePC \in {"written", "failed"}
  /\ phase' = "refused"
  /\ UNCHANGED <<vars, liveVars, proxyVars, diskVars, backend, tip>>

-----------------------------------------------------------------------------
Running == phase \in {"record", "replay"}

SearchReplayNext ==
  /\ Running
  /\ client \/ (\E w \in Worker : live(w)) \/ proxy \/ Finish \/ Write \/ Load \/ Refuse

\* Goroutines are scheduled, and a call to a server returns or fails.
SearchReplaySpec ==
  /\ SearchReplayInit /\ [][SearchReplayNext]_allVars
  /\ WF_allVars(Running /\ client)
  /\ \A w \in Worker : WF_allVars(live(w))
  /\ WF_allVars(Running /\ proxy)
  /\ WF_allVars(Running /\ (Finish \/ Write \/ Load \/ Refuse))

-----------------------------------------------------------------------------
Holding(w) == worker[w].at \in {"reply", "requeue"}
Held == {worker[w].block : w \in {v \in Worker : Holding(v)}}
InHand == IF hand.at = "forward" THEN {hand.block} ELSE {}

\* Blocks requested and not received, wherever they are.
InFlight ==
  pending \cup Range(blockRequests) \cup Held \cup Range(liveResponses)
    \cup InHand \cup Range(blockResponses)

Abstract == INSTANCE Blockfinder WITH pending <- InFlight

\* Recorded or replayed, the channels, goroutines and requeues between Search
\* and the chain give each request of searchSync its one answer.
ImplementsSearch ==
  /\ Abstract!Init
  /\ [][phase' = phase => [Abstract!Next]_(Abstract!vars)]_allVars

\* A replay asks for no block that the recorded search did not, so that the
\* fixture never panics; this needs the height of the chain to be recorded too.
NoMissingBlock == [][phase = "replay" => phase' = "replay"]_allVars

\* A replayed search returns the block, median and timestamp of the recorded
\* one, though blocks are answered in another order.
ReplaySame == phase = "replay" /\ pc = "done" => Result = recorded

\* Both searches end, and so does the fixture's goroutine: fewer places in its
\* channels than blocks in a window are enough, since it is emptying one while
\* it fills the other.  The live search may lose every server or crash.
SearchesEnd ==
  <>(\/ phase \in {"crashed", "refused"}
     \/ pc = "panic"
     \/ phase = "record" /\ \A w \in Worker : worker[w].at = "returned"
     \/ phase = "replay" /\ hand.at = "returned")

-----------------------------------------------------------------------------
(* The inductive invariant behind ImplementsSearch, NoMissingBlock and      *)
(* ReplaySame, on a chain with LongEnough.                                  *)

SearchReplayTypeOK ==
  /\ TypeOK
  /\ phase \in {"record", "replay", "refused", "crashed"}
  /\ blockRequests \in Seq(Height)
  /\ worker \in [Worker -> [at : {"select", "reply", "requeue", "returned"}, block : Height]]
  /\ liveResponses \in Seq(Height)
  /\ hand \in [at : {"select", "forward", "returned"}, block : Height]
  /\ blockIndex \in [DOMAIN blockIndex -> Int] /\ DOMAIN blockIndex \subseteq Height
  /\ blockResponses \in Seq(Height)
  /\ doneCh \in BOOLEAN
  /\ writePC \in {"none", "write", "written", "failed"}
  /\ tip = ChainHeight

\* A request is in one place, and there once.
OneCopy ==
  /\ IsInjective(blockRequests)
  /\ \A v, w \in Worker :
       Holding(v) /\ Holding(w) /\ worker[v].block = worker[w].block => v = w
  /\ IsInjective(liveResponses)
  /\ IsInjective(blockResponses)
  /\ pending \cap (Range(blockRequests) \cup Held \cup Range(liveResponses)
                     \cup InHand \cup Range(blockResponses)) = {}
  /\ Range(blockRequests) \cap (Held \cup Range(liveResponses)
                                  \cup InHand \cup Range(blockResponses)) = {}
  /\ Held \cap (Range(liveResponses) \cup InHand \cup Range(blockResponses)) = {}
  /\ Range(liveResponses) \cap (InHand \cup Range(blockResponses)) = {}
  /\ InHand \cap Range(blockResponses) = {}

\* The blocks of a median are in the index.
Seen(h) == Window(h) \subseteq DOMAIN blockIndex

Interval == <<min, max>>
MiddleOf(p) == (p[1] + p[2]) \div 2

\* Search halves the interval p, whose median in the middle is in order.
Asked(p) ==
  /\ p[2] - p[1] > 1
  /\ Seen(MiddleOf(p))
  /\ MedianTime(p[1]) <= MedianTime(MiddleOf(p))
  /\ MedianTime(MiddleOf(p)) <= MedianTime(p[2])

\* ... and goes on with one half, which is in I.
Halved(p, I) ==
  LET mid == MiddleOf(p)
  IN  /\ Asked(p)
      /\ target # MedianTime(mid)
      /\ (IF target >= MedianTime(mid) THEN <<mid, p[2]>> ELSE <<p[1], mid>>) \in I

\* Search ends at interval p with block b.
EndsAt(p, b) ==
  \/ p[2] - p[1] = 1 /\ b = p[1]
  \/ Asked(p) /\ target = MedianTime(MiddleOf(p)) /\ b = MiddleOf(p)

\* I has the first interval, and the medians of the bounds of each.
Path(I) ==
  /\ <<First, Last>> \in I
  /\ \A p \in I : Seen(p[1]) /\ Seen(p[2])

\* From each of the intervals I the search goes on within I or ends with block b.
LeadsTo(I, b) == \A p \in I : Halved(p, I) \/ EndsAt(p, b)

\* What a recorded search has stored leads to where it is.
RecordInv ==
  /\ got \cup Range(blockResponses) \cup InHand \subseteq DOMAIN blockIndex
  /\ \A h \in DOMAIN blockIndex : blockIndex[h] = time[h]
  /\ pc # "min" => Seen(min)
  /\ pc \notin {"min", "max"} => Seen(max)
  /\ pc \in {"loop", "avg"} =>
       \E I \in SUBSET ((First .. min) \X (max .. Last)) :
         Path(I) /\ Interval \in I /\ \A p \in I : p = Interval \/ Halved(p, I)
  /\ pc \in {"header", "done"} =>
       min < max /\ \E I \in SUBSET ((First .. min) \X ((min + 1) .. Last)) :
                      Path(I) /\ LeadsTo(I, min)
  /\ doneCh \/ writePC # "none" => pc = "done"
  /\ writePC = "written" =>
       file = [height |-> ChainHeight,
               blocks |-> {[height |-> h, timestamp |-> blockIndex[h]] :
                             h \in DOMAIN blockIndex}]

\* The intervals of the replay are those of the recording.
ReplayInv ==
  LET b == recorded[1]
  IN  /\ pc # "panic"
      /\ b \in First .. Last /\ Seen(b)
      /\ recorded = <<b, MedianTime(b), time[b]>>
      /\ pc \in {"header", "done"} => min = b
      /\ \E I \in SUBSET ((First .. b) \X ((b + 1) .. Last)) :
           Path(I) /\ LeadsTo(I, b) /\ (pc \in {"loop", "avg"} => Interval \in I)

SearchReplayInv ==
  /\ SearchReplayTypeOK
  /\ OneCopy
  /\ RequestsInv(InFlight)
  /\ BoundsInv
  /\ SearchInv
  /\ pc = "avg" => height = MiddleOf(Interval)
  /\ phase = "record" => RecordInv
  /\ phase = "replay" => ReplayInv
=============================================================================
