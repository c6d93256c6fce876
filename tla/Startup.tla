------------------------------- MODULE Startup -------------------------------
(***************************************************************************)
(* From the command line to a backend that serves requests: compute-balance *)
(* and find-block of src/main.go, the constructors of the backends, and     *)
(* what an Electrum server is asked before it is used (getHeight, addNode,  *)
(* addPeer), over the connections of Transport.                             *)
(*                                                                         *)
(* getHeight uses a connection of its own, "height", addNode for the same   *)
(* server "work", and every other member of Conn is the connection to a     *)
(* server learnt from it.  What a server answers is not fixed, except for   *)
(* the chain it serves.  A line the user types is its prefix and whether it *)
(* still has its line end.                                                  *)
(***************************************************************************)
EXTENDS Transport, Integers

CONSTANTS
  Options,           \* command lines, with the lines typed at the prompts
  Tips,              \* heights a server may report
  minConfirmations,  \* 6
  Word,              \* number of values of a uint32; 2^32
  MaxCalls           \* bound on the requests over a connection

Network == {"mainnet", "testnet"}
Prefix == {"xpub", "tpub", "1", "3", "m", "n", "2", "other"}
Typed == [prefix : Prefix, eol : BOOLEAN]
Peer == Conn \ {"height", "work"}
Electrum == {"electrum", "electrum-recorder"}
Btcd == {"btcd", "btcd-recorder"}

ASSUME StartupAssumption ==
  /\ {"height", "work"} \subseteq Conn
  /\ Word \in Nat \ {0}
  /\ Options \subseteq
       [command : {"compute-balance", "find-block"}, type : {"multisig", "single-address"},
        m : Int, n : Int, piped : BOOLEAN, lines : Seq(Typed),
        backend : Electrum \cup Btcd \cup {"fixture"}, addr : {"host", "malformed"},
        fixtureFile : BOOLEAN, blockHeight : 0 .. Word - 1]
  /\ Tips \subseteq 0 .. Word - 1
  /\ minConfirmations \in 0 .. Word - 1
  /\ MaxCalls \in Nat

VARIABLES
  options,
  chain,        \* the network each connection's server, or btcd, is on
  pc,           \* main: "verify", "keys", "backend", "getHeight", "addNode",
                \*       "height", "run", "exit", "panic"
  network, keys,
  chainHeight, blockHeight,
  task,         \* what the goroutine of a connection does, or is to ask next
  nodes         \* connections registered

mainVars == <<options, chain, network, keys, blockHeight>>
startupVars == <<mainVars, pc, chainHeight, task, nodes>>
vars == <<transportVars, startupVars>>

U32(n) == n % Word

Init ==
  /\ TransportInit
  /\ options \in Options
  /\ chain \in {f \in [Conn -> Network] : f["work"] = f["height"]}
  /\ pc = IF options.command = "find-block" THEN "backend" ELSE "verify"
  /\ network = "mainnet"
  /\ keys = <<>>
  /\ chainHeight = 0 /\ blockHeight = 0
  /\ task = [c \in Conn |-> "off"]
  /\ nodes = {}

-----------------------------------------------------------------------------
(* main                                                                    *)

VerifyMandN(m, n) == 0 < m /\ m <= n /\ n <= 20

Verify ==
  /\ pc = "verify"
  /\ pc' = CASE ~VerifyMandN(options.m, options.n) -> "panic"
             [] VerifyMandN(options.m, options.n) /\ options.piped -> "exit"
             [] OTHER -> "keys"
  /\ UNCHANGED <<transportVars, mainVars, chainHeight, task, nodes>>

\* ReadString, which returns what there is at the end of the input.
ReadString(i) ==
  IF i <= Len(options.lines) THEN options.lines[i] ELSE [prefix |-> "other", eol |-> FALSE]

TrimSpace(line) == [line EXCEPT !.eol = FALSE]

\* Prefixes for which XpubToNetwork, and AddressToNetwork, do not panic.
XpubToNetwork == [p \in {"xpub", "tpub"} |-> IF p = "xpub" THEN "mainnet" ELSE "testnet"]
AddressToNetwork ==
  [p \in {"1", "3", "m", "n", "2"} |-> IF p \in {"1", "3"} THEN "mainnet" ELSE "testnet"]

ReadSingleAddress ==
  LET line == ReadString(1)
  IN  /\ pc = "keys"
      /\ options.type = "single-address"
      /\ keys' = <<line>>
      /\ IF line.prefix \in DOMAIN AddressToNetwork
         THEN pc' = "backend" /\ network' = AddressToNetwork[line.prefix]
         ELSE pc' = "panic" /\ UNCHANGED network
      /\ UNCHANGED <<transportVars, options, chain, chainHeight, blockHeight, task, nodes>>

\* Mutant: only the first pubkey's prefix is looked at.
SamePrefixFirst(ks) == TRUE

SamePrefix(ks) == \A i \in DOMAIN ks : ks[i].prefix = ks[1].prefix

\* A line too short to have a prefix panics as an unknown one does.
ReadPubkeys ==
  LET typed == [i \in 1 .. options.n |-> TrimSpace(ReadString(i))]
  IN  /\ pc = "keys"
      /\ options.type = "multisig"
      /\ keys' = typed
      /\ CASE ~SamePrefix(typed) -> pc' = "exit" /\ UNCHANGED network
           [] SamePrefix(typed) /\ typed[1].prefix \in DOMAIN XpubToNetwork ->
                pc' = "backend" /\ network' = XpubToNetwork[typed[1].prefix]
           [] OTHER -> pc' = "panic" /\ UNCHANGED network
      /\ UNCHANGED <<transportVars, options, chain, chainHeight, blockHeight, task, nodes>>

\* Mutant: the chain a server is on is not looked at.
GenesisMatchesAny(c, zero) == ~zero

\* A result that did not unmarshal has no genesis block.
GenesisMatches(c, zero) == ~zero /\ chain[c] = network

Usable == options.fixtureFile \/ options.backend \in {"electrum", "btcd"}

\* computeBalanceBuildBackend and findBlockBuildBackend; the recorder adds
\* nothing that can fail.
BuildElectrum ==
  /\ pc = "backend"
  /\ options.backend \in Electrum
  /\ IF Usable /\ options.addr # "malformed"
     THEN pc' = "getHeight" /\ task' = [task EXCEPT !["height"] = "dial"]
     ELSE pc' = "panic" /\ UNCHANGED task
  /\ UNCHANGED <<transportVars, mainVars, chainHeight, nodes>>

\* btcd has a genesis block and a height; a fixture file has a height, or 0.
BuildOther ==
  /\ pc = "backend"
  /\ options.backend \notin Electrum
  /\ \/ pc' = "panic" /\ UNCHANGED chainHeight
     \/ /\ Usable
        /\ options.backend \in Btcd =>
             options.addr # "malformed" /\ GenesisMatches("work", FALSE)
        /\ chainHeight' \in Tips
        /\ pc' = "height"
  /\ UNCHANGED <<transportVars, mainVars, task, nodes>>

TooHigh(h) == h > U32(chainHeight - minConfirmations)

DefaultHeight == U32(chainHeight - minConfirmations)

\* find-block has no height to settle.
SettleHeight ==
  LET h == IF options.blockHeight = 0 THEN DefaultHeight ELSE options.blockHeight
  IN  /\ pc = "height"
      /\ IF options.command = "find-block"
         THEN pc' = "run" /\ UNCHANGED blockHeight
         ELSE /\ blockHeight' = h
              /\ pc' = IF TooHigh(h) THEN "panic" ELSE "run"
      /\ UNCHANGED <<transportVars, options, chain, network, keys, chainHeight, task, nodes>>

main == Verify \/ ReadSingleAddress \/ ReadPubkeys \/ BuildElectrum \/ BuildOther \/ SettleHeight

-----------------------------------------------------------------------------
(* getHeight, addNode and addPeer                                          *)

taskOf(c, m) == task' = [task EXCEPT ![c] = m]

\* An error ends getHeight, and addNode for the first server, with the program;
\* a server learnt from another is given up, its connection left open.
Fail(c) ==
  /\ IF c \in Peer
     THEN taskOf(c, "given up") /\ UNCHANGED pc
     ELSE pc' = "panic" /\ UNCHANGED task
  /\ UNCHANGED <<chainHeight, nodes>>

Dial(c) ==
  /\ task[c] = "dial"
  /\ \/ /\ open' = open \cup {c}
        /\ taskOf(c, "features")
        /\ UNCHANGED <<pc, chainHeight, nodes>>
     \/ Fail(c) /\ UNCHANGED open
  /\ UNCHANGED <<nextId, call, method, answer, toServer, toClient, subscribed,
                 faults, mainVars>>

Ask(c) ==
  /\ task[c] \in RPC
  /\ request(c, task[c])
  /\ UNCHANGED startupVars

\* What follows server.version: getHeight subscribes, addNode is done.
AfterVersion(c) == IF c = "height" THEN "subscribe" ELSE "serve"

\* node.ServerFeatures: another chain, a protocol that is too old or does not
\* parse, and an empty one, on which checkVersion panics.
GotFeatures(c) ==
  /\ task[c] = "features"
  /\ IF answer[c].err # "none" \/ ~GenesisMatches(c, answer[c].zero)
     THEN Fail(c)
     ELSE \/ taskOf(c, "version") /\ UNCHANGED <<pc, chainHeight, nodes>>
          \/ Fail(c)
          \/ pc' = "panic" /\ UNCHANGED <<chainHeight, task, nodes>>
  /\ keep(open)

\* The registration of addNode, at which NewElectrumBackend is done with "work".
GotVersion(c) ==
  /\ task[c] = "version"
  /\ IF answer[c].err # "none"
     THEN Fail(c)
     ELSE /\ taskOf(c, AfterVersion(c))
          /\ nodes' = IF c = "height" THEN nodes ELSE nodes \cup {c}
          /\ pc' = IF c = "work" THEN "height" ELSE pc
          /\ UNCHANGED chainHeight
  /\ keep(open)

\* getHeight returns and, being deferred, disconnects.
GotHeader(c) ==
  /\ task[c] = "subscribe"
  /\ IF answer[c].err # "none"
     THEN Fail(c) /\ keep(open)
     ELSE /\ chainHeight' \in IF answer[c].zero THEN {0} ELSE Tips
          /\ task' = [task EXCEPT ![c] = "done", !["work"] = "dial"]
          /\ pc' = "addNode"
          /\ keep(open \ {c})
          /\ UNCHANGED nodes

\* Mutant: the height is asked for again as the run goes on.
RequestsSubscribe == {"peers", "history", "subscribe"}

\* A request for peers, and one for an address, a transaction or a block.
Requests == {"peers", "history"}

\* processRequests takes a request from a channel.
Serve(c) ==
  /\ task[c] = "serve"
  /\ nextId[c] < MaxCalls
  /\ \E m \in Requests : request(c, m)
  /\ UNCHANGED startupVars

\* Any of the servers listed may pass addPeer's filters; one that is listed
\* without features, or without a version, is a panic.
GotPeers(c) ==
  /\ task[c] = "serve" /\ method[c] = "peers"
  /\ IF answer[c].err # "none"
     THEN taskOf(c, "returned") /\ UNCHANGED pc
     ELSE \/ /\ ~answer[c].zero
             /\ \E S \in SUBSET {p \in Peer : task[p] = "off"} :
                  task' = [p \in Conn |-> IF p \in S THEN "dial" ELSE task[p]]
             /\ UNCHANGED pc
          \/ pc' = "panic" /\ UNCHANGED task
          \/ answer[c].zero /\ UNCHANGED <<pc, task>>
  /\ keep(open)
  /\ UNCHANGED <<chainHeight, nodes>>

\* removeNode on an error; the request is put back for another server.
GotHistory(c) ==
  /\ task[c] = "serve" /\ method[c] # "peers"
  /\ IF answer[c].err # "none"
     THEN taskOf(c, "returned") /\ nodes' = nodes \ {c} /\ keep(open \ {c})
     ELSE UNCHANGED <<task, nodes>> /\ keep(open)
  /\ UNCHANGED <<pc, chainHeight>>

Got(c) ==
  /\ call[c] = "returned"
  /\ callOf(c, "idle")
  /\ GotFeatures(c) \/ GotVersion(c) \/ GotHeader(c) \/ GotPeers(c) \/ GotHistory(c)
  /\ UNCHANGED <<nextId, method, answer, faults, mainVars>>

goroutine(c) ==
  \/ Dial(c) \/ Ask(c) \/ Serve(c) \/ Got(c)
  \/ SendMessage(c) /\ UNCHANGED startupVars

-----------------------------------------------------------------------------
Alive == pc \notin {"exit", "panic"}

Next ==
  /\ Alive
  /\ \/ main
     \/ \E c \in Conn : goroutine(c)
     \/ (\E c \in Conn : Server(c)) /\ UNCHANGED startupVars

Spec == Init /\ [][Next]_vars

\* main and each goroutine are scheduled, and a deadline passes; nothing is
\* assumed of a server.
FairSpec ==
  /\ Spec
  /\ WF_vars(Alive /\ main)
  /\ \A c \in Conn : WF_vars(Alive /\ goroutine(c))

-----------------------------------------------------------------------------
MainTypeOK ==
  /\ options \in Options
  /\ chain \in [Conn -> Network] /\ network \in Network
  /\ pc \in {"verify", "keys", "backend", "getHeight", "addNode", "height",
             "run", "exit", "panic"}
  /\ keys \in Seq(Typed)
  /\ chainHeight \in 0 .. Word - 1 /\ blockHeight \in 0 .. Word - 1
  /\ task \in [Conn -> RPC \cup {"off", "dial", "serve", "done", "given up", "returned"}]
  /\ nodes \subseteq Conn

TypeOK == TransportTypeOK /\ MainTypeOK

\* A call that returns a result returns the answer to its own request, whatever
\* was lost, late or sent twice on the connection before it.
OwnAnswer ==
  \A c \in Conn :
    call[c] = "returned" /\ answer[c].err = "none" => answer[c].re = nextId[c]

\* A server that keeps to the protocol is never given up for a response that
\* does not match: its notifications ("the rest of this code doesn't know how to
\* deal with notifications") are confined to a connection without requests, and
\* an answer that is too late meets a closed one.
NoMismatch ==
  faults = 0 => \A c \in Conn : answer[c].err \notin {"ErrUnknown", "ErrIdMismatch"}

\* Keys as a backend gets them are of its network, and a pubkey has lost its line
\* end; an address keeps it.
KeysRead ==
  \A i \in DOMAIN keys :
    /\ network = (IF options.type = "multisig" THEN XpubToNetwork ELSE AddressToNetwork)
                   [keys[i].prefix]
    /\ keys[i].eol => options.type = "single-address"

\* The keys, the height and every server asked for histories are of one network, and
\* pubkeys were trimmed (an address was not, src/main.go:208).
RightChain ==
  /\ pc \in {"addNode", "height", "run"} /\ options.backend # "fixture" =>
       chain["height"] = network
  /\ \A c \in nodes : chain[c] = network
  /\ pc = "run" => KeysRead

\* The balance is computed at the height asked for, or at the default, and at
\* least minConfirmations blocks below a tip that is as high as that.
HeightSettled ==
  pc = "run" /\ options.command = "compute-balance" /\ chainHeight >= minConfirmations =>
    /\ blockHeight <= chainHeight - minConfirmations
    /\ options.blockHeight # 0 => blockHeight = options.blockHeight

-----------------------------------------------------------------------------
(* The inductive invariant behind OwnAnswer, NoMismatch, RightChain and      *)
(* HeightSettled.                                                          *)

\* A line answers the request whose id it bears.
LinesInv == \A c \in Conn : \A i \in DOMAIN toClient[c] : toClient[c][i].re = toClient[c][i].id

\* Which part of the start-up each goroutine belongs to.
ControlInv ==
  /\ pc \in {"verify", "keys", "backend"} => task = [c \in Conn |-> "off"] /\ nodes = {}
  /\ pc = "getHeight" => task["work"] = "off"
  /\ pc = "addNode" => task["height"] = "done"
  /\ pc \in {"height", "run"} => task["height"] \in {"off", "done"}
                             /\ task["work"] \in {"off", "serve", "returned"}
  /\ \A c \in Conn : task[c] = "subscribe" => c = "height"
  /\ \A c \in Conn : task[c] = "serve" => c # "height"

\* What the genesis block of a server has been compared for.
ChainInv ==
  /\ chain["work"] = chain["height"]
  /\ \A c \in Conn : task[c] \in {"version", "subscribe", "serve"} => chain[c] = network
  /\ pc \in {"addNode", "height", "run"} /\ options.backend # "fixture" =>
       chain["height"] = network
  /\ \A c \in nodes : chain[c] = network
  /\ pc \in {"verify", "keys"} => keys = <<>>
  /\ pc \notin {"verify", "keys", "exit", "panic"} => KeysRead

\* A call is for what the goroutine of its connection has come to.
CallInv ==
  \A c \in Conn : call[c] # "idle" =>
    IF task[c] = "serve" THEN method[c] \in Requests
                         ELSE task[c] \in RPC /\ method[c] = task[c]

\* A server that keeps to the protocol has only the request of the call that
\* waits for it, its answer comes first, and what follows are notifications, on
\* a connection whose last request was to subscribe.
ProtocolAt(c) ==
  /\ answer[c].err \notin {"ErrUnknown", "ErrIdMismatch"}
  /\ \A i \in DOMAIN toClient[c] : toClient[c][i].kind \in {"result", "error"}
  /\ call[c] # "read" => toServer[c] = <<>> /\ (toClient[c] # <<>> => c \in subscribed)
  /\ call[c] = "read" =>
       \/ toServer[c] = <<>> /\ toClient[c] = <<>>
       \/ /\ toServer[c] = <<[id |-> nextId[c], method |-> method[c]]>>
          /\ toClient[c] = <<>>
       \/ /\ toServer[c] = <<>> /\ toClient[c] # <<>>
          /\ toClient[c][1].id = nextId[c]
          /\ Len(toClient[c]) > 1 => c \in subscribed
  /\ c \in subscribed =>
       /\ method[c] = "subscribe"
       /\ Alive => call[c] \in {"read", "returned"}
       /\ call[c] = "read" => toClient[c] # <<>>

ProtocolInv == faults = 0 => \A c \in Conn : ProtocolAt(c)

IInv ==
  /\ TypeOK
  /\ LinesInv
  /\ OwnAnswer
  /\ ControlInv
  /\ ChainInv
  /\ HeightSettled
  /\ CallInv
  /\ ProtocolInv

-----------------------------------------------------------------------------
\* A server that falls silent holds up neither the start nor, later, a request.
Settles ==
  /\ <>(pc \in {"run", "exit", "panic"})
  /\ \A c \in Conn : call[c] # "idle" ~> (call[c] = "idle" \/ pc = "panic")
=============================================================================
