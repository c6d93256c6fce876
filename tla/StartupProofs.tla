---------------------------- MODULE StartupProofs ----------------------------
(***************************************************************************)
(* What a start-up settles holds for every command line, set of servers,    *)
(* chain and number of faults: answers are those of their requests, keys,   *)
(* height and servers are of one network, and the height is settled.        *)
(***************************************************************************)
EXTENDS Startup, TLAPS

\* A uint32.
LEMMA U32Type == \A n \in Int : U32(n) \in 0 .. Word - 1
  BY StartupAssumption DEF U32

\* No wrap-around.
LEMMA U32Small == \A n \in 0 .. Word - 1 : U32(n) = n
  BY StartupAssumption DEF U32

\* The first element of a queue, and the rest.
LEMMA HeadTail ==
  ASSUME NEW S, NEW q \in Seq(S), q # <<>>
  PROVE  Head(q) = q[1] /\ Head(q) \in S /\ Tail(q) \in Seq(S)
  OBVIOUS

LEMMA EmptySeq == \A S : <<>> \in Seq(S)
  OBVIOUS

LEMMA Element ==
  ASSUME NEW S, NEW q \in Seq(S), NEW i \in Nat \ {0}, i <= Len(q)
  PROVE  q[i] \in S
  OBVIOUS

\* What is left of a connection's lines when some have been taken off.
LEMMA Rest ==
  ASSUME NEW S, NEW s \in Seq(S), NEW n \in 1 .. Len(s)
  PROVE  /\ SubSeq(s, n + 1, Len(s)) \in Seq(S)
         /\ \A i \in DOMAIN SubSeq(s, n + 1, Len(s)) :
              i + n \in DOMAIN s /\ SubSeq(s, n + 1, Len(s))[i] = s[i + n]
  OBVIOUS

\* Sequences of one element, and of n.
LEMMA Singleton == ASSUME NEW S, NEW x \in S PROVE <<x>> \in Seq(S)
  OBVIOUS

LEMMA Enumerated ==
  ASSUME NEW S, NEW n \in Int, NEW f \in [1 .. n -> S]
  PROVE  f \in Seq(S)
<1>1. CASE n \in Nat
  BY <1>1
<1>2. CASE n \notin Nat
  <2>1. 1 .. n = 1 .. 0
    BY <1>2
  <2> QED BY <2>1
<1> QED BY <1>1, <1>2

-----------------------------------------------------------------------------
(* The connections.                                                        *)

LinesOK == TransportTypeOK /\ LinesInv /\ OwnAnswer

USE TransportAssumption

\* A new request: what the last one returned no longer counts.
LEMMA LinesRequest ==
  ASSUME LinesOK, NEW c \in Conn, NEW m \in RPC, request(c, m)
  PROVE  LinesOK'
<1>1. TransportTypeOK'
  BY DEF LinesOK, TransportTypeOK, request, callOf
<1>2. LinesInv' /\ OwnAnswer'
  BY DEF LinesOK, TransportTypeOK, LinesInv, OwnAnswer, request, callOf
<1> QED BY <1>1, <1>2 DEF LinesOK

\* Write and an error: the call has no result.
LEMMA LinesWrite ==
  ASSUME LinesOK, NEW c \in Conn, Write(c)
  PROVE  LinesOK'
<1>1. TransportTypeOK'
  <2>1. [id |-> nextId[c], method |-> method[c]] \in Request
    BY DEF LinesOK, TransportTypeOK, Request
  <2>2. toServer' \in [Conn -> Seq(Request)]
    BY <2>1 DEF LinesOK, TransportTypeOK, Write, push
  <2> QED BY <2>2 DEF LinesOK, TransportTypeOK, Write, callOf
<1>2. LinesInv' /\ OwnAnswer'
  BY DEF LinesOK, TransportTypeOK, LinesInv, OwnAnswer, Write, callOf
<1> QED BY <1>1, <1>2 DEF LinesOK

\* Closing connections loses lines and adds none.
LEMMA KeepOK ==
  ASSUME LinesOK, NEW o \in SUBSET Conn, keep(o)
  PROVE  /\ open' \subseteq Conn /\ subscribed' \subseteq Conn
         /\ toServer' \in [Conn -> Seq(Request)]
         /\ toClient' \in [Conn -> Seq(Line)]
         /\ LinesInv'
<1>1. toServer' \in [Conn -> Seq(Request)]
  BY DEF LinesOK, TransportTypeOK, keep
<1>2. toClient' \in [Conn -> Seq(Line)]
  BY DEF LinesOK, TransportTypeOK, keep
<1>3. LinesInv'
  BY DEF LinesOK, TransportTypeOK, LinesInv, keep
<1> QED BY <1>1, <1>2, <1>3 DEF LinesOK, TransportTypeOK, keep

LEMMA LinesNetworkError ==
  ASSUME LinesOK, NEW c \in Conn, NetworkError(c)
  PROVE  LinesOK'
<1>1. open \ {c} \in SUBSET Conn
  BY DEF LinesOK, TransportTypeOK
<1>2. answer' = [answer EXCEPT ![c] = Returned("ErrNetwork", 0, FALSE)]
  BY DEF NetworkError, return
<1>3. TransportTypeOK'
  <2>1. Returned("ErrNetwork", 0, FALSE) \in
          Result
    BY DEF Returned, Result
  <2>2. answer' \in [Conn -> Result]
    BY <1>2, <2>1 DEF LinesOK, TransportTypeOK
  <2>3. keep(open \ {c})
    BY DEF NetworkError
  <2>4. call' = [call EXCEPT ![c] = "returned"] /\ UNCHANGED <<nextId, method, faults>>
    BY DEF NetworkError, return, callOf
  <2>5. /\ open' \subseteq Conn /\ subscribed' \subseteq Conn
        /\ toServer' \in [Conn -> Seq(Request)]
        /\ toClient' \in [Conn -> Seq(Line)]
    BY <1>1, <2>3, KeepOK
  <2> QED BY <2>2, <2>4, <2>5 DEF LinesOK, TransportTypeOK
<1>4. LinesInv'
  BY <1>1, KeepOK DEF NetworkError
<1>5. OwnAnswer'
  BY <1>2 DEF LinesOK, TransportTypeOK, OwnAnswer, NetworkError, return, callOf, Returned
<1> QED BY <1>3, <1>4, <1>5 DEF LinesOK

\* A line that is taken for a result bears the id of the request in progress.
LEMMA LinesRead ==
  ASSUME LinesOK, NEW c \in Conn, Read(c)
  PROVE  LinesOK'
<1> DEFINE line == Head(toClient[c])
           r == Decode(line, nextId[c])
<1>1. line \in Line /\ line.re = line.id /\ nextId[c] \in Nat
  <2>1. toClient[c] \in Seq(Line) /\ toClient[c] # <<>>
    BY DEF LinesOK, TransportTypeOK, Read
  <2>2. 1 \in DOMAIN toClient[c] /\ line = toClient[c][1]
    BY <2>1
  <2> QED BY <2>1, <2>2 DEF LinesOK, TransportTypeOK, LinesInv
<1>2. /\ r \in Result
      /\ r.err = "none" => r.re = nextId[c]
  BY <1>1 DEF Decode, Mismatch, Returned, Line, Result
<1> HIDE DEF r
<1>3. /\ answer' = [answer EXCEPT ![c] = r]
      /\ call' = [call EXCEPT ![c] = "returned"]
      /\ UNCHANGED <<nextId, method, faults>>
  BY DEF Read, return, callOf, r
<1>4. OwnAnswer'
  BY <1>2, <1>3 DEF LinesOK, TransportTypeOK, OwnAnswer
<1>5. /\ open' \subseteq Conn /\ subscribed' \subseteq Conn
      /\ toServer' \in [Conn -> Seq(Request)]
      /\ toClient' \in [Conn -> Seq(Line)]
      /\ LinesInv'
  <2>1. CASE keep(open \ {c})
    <3>1. open \ {c} \in SUBSET Conn
      BY DEF LinesOK, TransportTypeOK
    <3> QED BY <2>1, <3>1, KeepOK
  <2>2. CASE /\ \E n \in 1 .. Len(toClient[c]) :
                  toClient' = [toClient EXCEPT ![c] = SubSeq(@, n + 1, Len(@))]
             /\ UNCHANGED <<open, toServer, subscribed>>
    <3>1. PICK n \in 1 .. Len(toClient[c]) :
            toClient' = [toClient EXCEPT ![c] = SubSeq(toClient[c], n + 1, Len(toClient[c]))]
      BY <2>2
    <3>2. toClient[c] \in Seq(Line) /\ Len(toClient[c]) \in Nat
      BY DEF LinesOK, TransportTypeOK
    <3> DEFINE rest == SubSeq(toClient[c], n + 1, Len(toClient[c]))
    <3>3. rest \in Seq(Line)
      BY <3>2, Rest
    <3>4. ASSUME NEW i \in DOMAIN rest PROVE rest[i].re = rest[i].id
      <4>1. i + n \in DOMAIN toClient[c] /\ rest[i] = toClient[c][i + n]
        BY <3>2, Rest
      <4> QED BY <4>1 DEF LinesOK, LinesInv
    <3>5. toClient' \in [Conn -> Seq(Line)]
      BY <3>1, <3>3 DEF LinesOK, TransportTypeOK
    <3>6. LinesInv'
      BY <3>1, <3>4 DEF LinesOK, TransportTypeOK, LinesInv
    <3> QED BY <2>2, <3>5, <3>6 DEF LinesOK, TransportTypeOK
  <2> QED BY <2>1, <2>2 DEF Read
<1>6. TransportTypeOK'
  BY <1>2, <1>3, <1>5 DEF LinesOK, TransportTypeOK
<1> QED BY <1>4, <1>5, <1>6 DEF LinesOK

\* Whatever a server sends, what it answers is what its id says.
LEMMA LinesPush ==
  ASSUME LinesOK, NEW c \in Conn, NEW l \in Line, l.re = l.id,
         toClient' = push(toClient, c, l)
  PROVE  toClient' \in [Conn -> Seq(Line)] /\ LinesInv'
<1>1. toClient[c] \in Seq(Line)
  BY DEF LinesOK, TransportTypeOK
<1>2. toClient' \in [Conn -> Seq(Line)]
  BY <1>1 DEF LinesOK, TransportTypeOK, push
<1>3. \A i \in DOMAIN Append(toClient[c], l) :
        Append(toClient[c], l)[i].re = Append(toClient[c], l)[i].id
  BY <1>1 DEF LinesOK, LinesInv
<1>4. toClient' = [toClient EXCEPT ![c] = Append(toClient[c], l)]
  BY DEF push
<1>5. LinesInv'
  BY <1>3, <1>4 DEF LinesOK, TransportTypeOK, LinesInv
<1> QED BY <1>2, <1>5

LEMMA LinesServer ==
  ASSUME LinesOK, NEW c \in Conn, Server(c)
  PROVE  LinesOK'
<1>0. /\ toServer[c] \in Seq(Request)
      /\ nextId[c] \in Nat
  BY DEF LinesOK, TransportTypeOK
<1>1. ASSUME toServer[c] # <<>>
      PROVE  /\ Head(toServer[c]).id \in Nat
             /\ Tail(toServer[c]) \in Seq(Request)
  <2>1. Head(toServer[c]) \in Request /\ Tail(toServer[c]) \in Seq(Request)
    BY <1>0, <1>1, HeadTail
  <2> QED BY <2>1 DEF Request
<1>2. CASE Answer(c)
  <2>1. PICK kind \in {"result", "error"} :
          toClient' = push(toClient, c, [id |-> Head(toServer[c]).id,
                                         re |-> Head(toServer[c]).id, kind |-> kind])
    BY <1>2 DEF Answer
  <2>2. [id |-> Head(toServer[c]).id, re |-> Head(toServer[c]).id, kind |-> kind] \in Line
    BY <1>1, <1>2 DEF Answer, Line
  <2>3. toClient' \in [Conn -> Seq(Line)] /\ LinesInv'
    BY <2>1, <2>2, LinesPush
  <2>4. toServer' \in [Conn -> Seq(Request)]
    BY <1>1, <1>2 DEF Answer, LinesOK, TransportTypeOK
  <2>5. TransportTypeOK'
    BY <1>2, <2>3, <2>4 DEF Answer, LinesOK, TransportTypeOK
  <2>6. OwnAnswer'
    BY <1>2 DEF Answer, LinesOK, OwnAnswer
  <2> QED BY <2>3, <2>5, <2>6 DEF LinesOK
<1>3. CASE Notify(c)
  <2>1. [id |-> 0, re |-> 0, kind |-> "result"] \in Line
    BY DEF Line
  <2>2. toClient' \in [Conn -> Seq(Line)] /\ LinesInv'
    BY <1>3, <2>1, LinesPush DEF Notify
  <2>3. TransportTypeOK'
    BY <1>3, <2>2 DEF Notify, LinesOK, TransportTypeOK
  <2>4. OwnAnswer'
    BY <1>3 DEF Notify, LinesOK, OwnAnswer
  <2> QED BY <2>2, <2>3, <2>4 DEF LinesOK
<1>4. CASE Misbehave(c)
  <2>1. /\ toClient' \in [Conn -> Seq(Line)] /\ LinesInv'
        /\ toServer' \in [Conn -> Seq(Request)]
    <3>1. CASE /\ \E id \in 0 .. nextId[c], kind \in {"junk", "result"} :
                    toClient' = push(toClient, c, [id |-> id, re |-> id, kind |-> kind])
               /\ UNCHANGED toServer
      <4>1. PICK id \in 0 .. nextId[c], kind \in {"junk", "result"} :
              toClient' = push(toClient, c, [id |-> id, re |-> id, kind |-> kind])
        BY <3>1
      <4>2. [id |-> id, re |-> id, kind |-> kind] \in Line
        BY <1>0 DEF Line
      <4> QED BY <3>1, <4>1, <4>2, LinesPush DEF LinesOK, TransportTypeOK
    <3>2. CASE /\ toServer[c] # <<>>
               /\ toClient' = push(toClient, c, [id |-> Head(toServer[c]).id,
                                                 re |-> Head(toServer[c]).id, kind |-> "misfit"])
               /\ toServer' = [toServer EXCEPT ![c] = Tail(@)]
      <4>1. [id |-> Head(toServer[c]).id, re |-> Head(toServer[c]).id, kind |-> "misfit"] \in Line
        BY <1>1, <3>2 DEF Line
      <4> QED BY <1>1, <3>2, <4>1, LinesPush DEF LinesOK, TransportTypeOK
    <3> QED BY <1>4, <3>1, <3>2 DEF Misbehave
  <2>2. TransportTypeOK'
    BY <1>4, <2>1 DEF Misbehave, LinesOK, TransportTypeOK
  <2>3. OwnAnswer'
    BY <1>4 DEF Misbehave, LinesOK, OwnAnswer
  <2> QED BY <2>1, <2>2, <2>3 DEF LinesOK
<1> QED BY <1>2, <1>3, <1>4 DEF Server

\* A call ends, and its connection may be closed.
LEMMA LinesGot ==
  ASSUME LinesOK, NEW c \in Conn, callOf(c, "idle"), NEW o \in SUBSET Conn, keep(o),
         UNCHANGED <<nextId, method, answer, faults>>
  PROVE  LinesOK'
<1>1. TransportTypeOK' /\ LinesInv'
  BY KeepOK DEF LinesOK, TransportTypeOK, callOf
<1>2. OwnAnswer'
  BY DEF LinesOK, TransportTypeOK, OwnAnswer, callOf
<1> QED BY <1>1, <1>2 DEF LinesOK

-----------------------------------------------------------------------------
(* main, and the goroutines of the connections.                            *)

MainOK == MainTypeOK /\ ControlInv /\ ChainInv /\ HeightSettled

LEMMA MainInit == Init => LinesOK /\ MainOK
<1> SUFFICES ASSUME Init PROVE LinesOK /\ MainOK
  OBVIOUS
<1>1. LinesOK
  <2>1. LinesInv /\ OwnAnswer
    BY DEF Init, TransportInit, LinesInv, OwnAnswer
  <2>2. method \in [Conn -> RPC] /\ call \in [Conn -> {"idle", "write", "read", "returned"}]
    BY DEF Init, TransportInit, RPC
  <2>3. answer \in [Conn -> Result]
    BY DEF Init, TransportInit, Returned, Result
  <2>4. /\ toServer \in [Conn -> Seq(Request)]
        /\ toClient \in [Conn -> Seq(Line)]
    BY EmptySeq DEF Init, TransportInit
  <2>5. /\ open \subseteq Conn /\ subscribed \subseteq Conn /\ faults \in 0 .. MaxFaults
        /\ nextId \in [Conn -> Nat]
    BY DEF Init, TransportInit
  <2> QED BY <2>1, <2>2, <2>3, <2>4, <2>5 DEF LinesOK, TransportTypeOK
<1>2. MainTypeOK
  BY StartupAssumption DEF Init, MainTypeOK, Network
<1>3. ControlInv /\ ChainInv /\ HeightSettled
  BY StartupAssumption DEF Init, ControlInv, ChainInv, HeightSettled, KeysRead, Network
<1> QED BY <1>1, <1>2, <1>3 DEF MainOK

\* What a line typed is, trimmed or not.
LEMMA LineTyped ==
  ASSUME MainTypeOK, NEW i \in Nat \ {0}
  PROVE  /\ ReadString(i) \in Typed
         /\ TrimSpace(ReadString(i)) \in Typed
<1>1. options.lines \in Seq(Typed)
  BY StartupAssumption DEF MainTypeOK
<1>2. ReadString(i) \in Typed
  <2>1. CASE i <= Len(options.lines)
    <3>1. options.lines[i] \in Typed
      BY <1>1, <2>1, Element
    <3> QED BY <2>1, <3>1 DEF ReadString
  <2>2. CASE ~(i <= Len(options.lines))
    BY <2>2 DEF ReadString, Prefix, Typed
  <2> QED BY <2>1, <2>2
<1> QED BY <1>2 DEF TrimSpace, Typed

LEMMA VerifyStep == ASSUME MainOK, Verify PROVE MainOK'
  BY DEF MainOK, MainTypeOK, ControlInv, ChainInv, HeightSettled, KeysRead, Verify, mainVars

LEMMA ReadSingleAddressStep == ASSUME MainOK, ReadSingleAddress PROVE MainOK'
<1> DEFINE line == ReadString(1)
<1>1. line \in Typed
  BY LineTyped DEF MainOK
<1>2. /\ keys' = <<line>> /\ options.type = "single-address" /\ pc = "keys"
      /\ UNCHANGED <<options, chain, chainHeight, blockHeight, task, nodes>>
      /\ \/ /\ line.prefix \in DOMAIN AddressToNetwork
            /\ pc' = "backend" /\ network' = AddressToNetwork[line.prefix]
         \/ pc' = "panic" /\ UNCHANGED network
  BY DEF ReadSingleAddress
<1> HIDE DEF line
<1>3. line.prefix \in DOMAIN AddressToNetwork => AddressToNetwork[line.prefix] \in Network
  BY DEF AddressToNetwork, Network
<1>4. keys' \in Seq(Typed)
  BY <1>1, <1>2
<1>5. MainTypeOK'
  BY <1>2, <1>3, <1>4 DEF MainOK, MainTypeOK
<1>6. pc' = "backend" => KeysRead'
  BY <1>2 DEF KeysRead
<1>7. ControlInv' /\ ChainInv' /\ HeightSettled'
  BY <1>2, <1>6 DEF MainOK, ControlInv, ChainInv, HeightSettled
<1> QED BY <1>5, <1>7 DEF MainOK

LEMMA ReadPubkeysStep == ASSUME MainOK, ReadPubkeys PROVE MainOK'
<1> DEFINE typed == [i \in 1 .. options.n |-> TrimSpace(ReadString(i))]
<1>0. options.n \in Int
  BY StartupAssumption DEF MainOK, MainTypeOK
<1>1. ASSUME NEW i \in DOMAIN typed PROVE typed[i] \in Typed
  BY <1>0, LineTyped DEF MainOK
<1>2. typed \in Seq(Typed) /\ \A i \in DOMAIN typed : ~typed[i].eol
  <2>1. typed \in Seq(Typed)
    BY <1>0, <1>1, Enumerated
  <2>2. ASSUME NEW i \in DOMAIN typed PROVE ~typed[i].eol
    <3>1. /\ typed[i] = [ReadString(i) EXCEPT !.eol = FALSE]
          /\ ReadString(i) \in [prefix : Prefix, eol : BOOLEAN]
      BY <1>0, LineTyped DEF TrimSpace, Typed, MainOK
    <3> HIDE DEF typed
    <3> QED BY <3>1
  <2> QED BY <2>1, <2>2
<1>3. /\ keys' = typed /\ options.type = "multisig" /\ pc = "keys"
      /\ UNCHANGED <<options, chain, chainHeight, blockHeight, task, nodes>>
      /\ \/ pc' \in {"exit", "panic"} /\ UNCHANGED network
         \/ /\ SamePrefix(typed)
            /\ typed[1].prefix \in DOMAIN XpubToNetwork
            /\ pc' = "backend" /\ network' = XpubToNetwork[typed[1].prefix]
  BY DEF ReadPubkeys
<1> HIDE DEF typed
<1>4. typed[1].prefix \in DOMAIN XpubToNetwork => XpubToNetwork[typed[1].prefix] \in Network
  BY DEF XpubToNetwork, Network
<1>5. MainTypeOK'
  BY <1>2, <1>3, <1>4 DEF MainOK, MainTypeOK
<1>6. pc' = "backend" => KeysRead'
  BY <1>2, <1>3 DEF KeysRead, SamePrefix
<1>7. ControlInv' /\ ChainInv' /\ HeightSettled'
  BY <1>3, <1>6 DEF MainOK, ControlInv, ChainInv, HeightSettled
<1> QED BY <1>5, <1>7 DEF MainOK

LEMMA BuildElectrumStep == ASSUME MainOK, BuildElectrum PROVE MainOK'
<1>1. MainTypeOK' /\ ControlInv'
  BY StartupAssumption DEF MainOK, MainTypeOK, ControlInv, BuildElectrum, mainVars
<1>2. KeysRead' = KeysRead
  BY DEF BuildElectrum, mainVars, KeysRead
<1>3. ChainInv' /\ HeightSettled'
  BY <1>2 DEF MainOK, MainTypeOK, ControlInv, ChainInv, HeightSettled, BuildElectrum, mainVars
<1> QED BY <1>1, <1>3 DEF MainOK

LEMMA BuildOtherStep == ASSUME MainOK, BuildOther PROVE MainOK'
  BY StartupAssumption DEF MainOK, MainTypeOK, ControlInv, ChainInv, HeightSettled, KeysRead,
     BuildOther, GenesisMatches, mainVars, Electrum, Btcd

\* Where the uint32 arithmetic of main comes in.
LEMMA SettleHeightStep == ASSUME MainOK, SettleHeight PROVE MainOK'
<1> DEFINE h == IF options.blockHeight = 0 THEN DefaultHeight ELSE options.blockHeight
<1>1. /\ chainHeight \in 0 .. Word - 1 /\ blockHeight \in 0 .. Word - 1
      /\ minConfirmations \in 0 .. Word - 1 /\ options.blockHeight \in 0 .. Word - 1
      /\ Word \in Nat
  BY StartupAssumption DEF MainOK, MainTypeOK
<1>2. h \in 0 .. Word - 1
  BY <1>1, U32Type DEF DefaultHeight
<1>3. ASSUME chainHeight >= minConfirmations, ~TooHigh(h)
      PROVE  h <= chainHeight - minConfirmations
  <2>1. U32(chainHeight - minConfirmations) = chainHeight - minConfirmations
    BY <1>1, <1>3, U32Small
  <2> QED BY <1>1, <1>2, <1>3, <2>1 DEF TooHigh
<1>4. options.blockHeight # 0 => h = options.blockHeight
  OBVIOUS
<1>5. /\ pc = "height" /\ UNCHANGED <<options, chain, network, keys, chainHeight, task, nodes>>
      /\ \/ options.command = "find-block" /\ pc' = "run" /\ UNCHANGED blockHeight
         \/ blockHeight' = h /\ pc' = "panic"
         \/ blockHeight' = h /\ pc' = "run" /\ ~TooHigh(h)
  BY DEF SettleHeight
<1> HIDE DEF h
<1>6. MainTypeOK'
  BY <1>1, <1>2, <1>5 DEF MainOK, MainTypeOK
<1>7. HeightSettled'
  BY <1>3, <1>4, <1>5 DEF HeightSettled
<1>8. ControlInv' /\ ChainInv'
  BY <1>5 DEF MainOK, ControlInv, ChainInv, KeysRead
<1> QED BY <1>6, <1>7, <1>8 DEF MainOK

\* A goroutine that goes on to a task that changes nothing else of the start-up.
LEMMA FailStep ==
  ASSUME MainOK, NEW c \in Conn, task[c] # "off", Fail(c), UNCHANGED mainVars
  PROVE  MainOK'
<1>1. MainTypeOK'
  BY DEF MainOK, MainTypeOK, Fail, taskOf, mainVars
<1>2. CASE c \in Peer
  <2>1. /\ task' = [task EXCEPT ![c] = "given up"] /\ c # "height" /\ c # "work"
        /\ UNCHANGED <<options, chain, network, keys, blockHeight, pc, chainHeight, nodes>>
    BY <1>2 DEF Fail, taskOf, Peer, mainVars
  <2>2. ControlInv'
    BY <2>1, StartupAssumption DEF MainOK, MainTypeOK, ControlInv
  <2>3. ChainInv' /\ HeightSettled'
    BY <2>1 DEF MainOK, MainTypeOK, ChainInv, HeightSettled, KeysRead
  <2> QED BY <1>1, <2>2, <2>3 DEF MainOK
<1>3. CASE c \notin Peer
  <2>1. /\ pc' = "panic"
        /\ UNCHANGED <<options, chain, network, keys, blockHeight, task, chainHeight, nodes>>
    BY <1>3 DEF Fail, mainVars
  <2> QED BY <1>1, <2>1 DEF MainOK, ControlInv, ChainInv, HeightSettled, KeysRead
<1> QED BY <1>2, <1>3

LEMMA DialStep ==
  ASSUME LinesOK, MainOK, NEW c \in Conn, Dial(c)
  PROVE  LinesOK' /\ MainOK'
<1>1. LinesOK'
  BY DEF Dial, LinesOK, TransportTypeOK, LinesInv, OwnAnswer
<1>2. CASE taskOf(c, "features") /\ UNCHANGED <<pc, chainHeight, nodes>>
  <2>1. /\ task[c] = "dial" /\ task' = [task EXCEPT ![c] = "features"]
        /\ UNCHANGED <<options, chain, network, keys, blockHeight, pc, chainHeight, nodes>>
    BY <1>2 DEF Dial, taskOf, mainVars
  <2>2. MainTypeOK'
    BY <2>1 DEF MainOK, MainTypeOK, RPC
  <2>3. ControlInv'
    BY <2>1, StartupAssumption DEF MainOK, MainTypeOK, ControlInv
  <2>4. ChainInv' /\ HeightSettled'
    BY <2>1 DEF MainOK, MainTypeOK, ChainInv, HeightSettled, KeysRead
  <2> QED BY <1>1, <2>2, <2>3, <2>4 DEF MainOK
<1>3. CASE Fail(c)
  <2>1. task[c] # "off" /\ UNCHANGED mainVars
    BY DEF Dial, mainVars
  <2> QED BY <1>1, <1>3, <2>1, FailStep
<1> QED BY <1>1, <1>2, <1>3 DEF Dial

LEMMA GotFeaturesStep ==
  ASSUME MainOK, NEW c \in Conn, GotFeatures(c), UNCHANGED mainVars
  PROVE  MainOK'
<1>1. CASE Fail(c)
  BY <1>1, FailStep DEF GotFeatures
<1>2. CASE pc' = "panic" /\ UNCHANGED <<chainHeight, task, nodes>>
  BY <1>2 DEF MainOK, MainTypeOK, ControlInv, ChainInv, HeightSettled, KeysRead, mainVars
<1>3. CASE taskOf(c, "version") /\ UNCHANGED <<pc, chainHeight, nodes>> /\ ~Fail(c)
  <2>1. /\ task[c] = "features" /\ task' = [task EXCEPT ![c] = "version"]
        /\ chain[c] = network
        /\ UNCHANGED <<options, chain, network, keys, blockHeight, pc, chainHeight, nodes>>
    BY <1>3 DEF GotFeatures, GenesisMatches, taskOf, mainVars
  <2> QED BY <2>1, StartupAssumption DEF MainOK, MainTypeOK, ControlInv, ChainInv,
            HeightSettled, KeysRead, RPC
<1> QED BY <1>1, <1>2, <1>3 DEF GotFeatures

LEMMA GotVersionStep ==
  ASSUME MainOK, Alive, NEW c \in Conn, GotVersion(c), UNCHANGED mainVars
  PROVE  MainOK'
<1>1. CASE answer[c].err # "none"
  BY <1>1, FailStep DEF GotVersion
<1>2. CASE answer[c].err = "none"
  <2>1. /\ task[c] = "version"
        /\ task' = [task EXCEPT ![c] = IF c = "height" THEN "subscribe" ELSE "serve"]
        /\ nodes' = IF c = "height" THEN nodes ELSE nodes \cup {c}
        /\ pc' = IF c = "work" THEN "height" ELSE pc
        /\ UNCHANGED <<options, chain, network, keys, blockHeight, chainHeight>>
    BY <1>2 DEF GotVersion, AfterVersion, taskOf, mainVars
  <2>2. MainTypeOK'
    BY <2>1 DEF MainOK, MainTypeOK, RPC
  <2>3. /\ pc \notin {"verify", "keys", "backend", "exit", "panic"}
        /\ c = "work" => pc = "addNode"
    BY <2>1 DEF MainOK, MainTypeOK, ControlInv, Alive
  <2>4. \A d \in Conn : task'[d] = IF d # c THEN task[d]
                                  ELSE IF c = "height" THEN "subscribe" ELSE "serve"
    BY <2>1 DEF MainOK, MainTypeOK
  <2>5. ControlInv'
    BY <2>1, <2>3, <2>4, StartupAssumption DEF MainOK, ControlInv
  <2>6. /\ \A d \in Conn : task'[d] \in {"version", "subscribe", "serve"} => chain[d] = network
        /\ \A d \in nodes' : chain[d] = network
        /\ chain["work"] = chain["height"]
    BY <2>1, <2>4 DEF MainOK, ChainInv
  <2>7. KeysRead'
    BY <2>1, <2>3 DEF MainOK, ChainInv, KeysRead
  <2>8. ChainInv'
    BY <2>1, <2>3, <2>6, <2>7, StartupAssumption DEF MainOK, ChainInv
  <2>9. HeightSettled'
    BY <2>1 DEF MainOK, HeightSettled
  <2> QED BY <2>2, <2>5, <2>8, <2>9 DEF MainOK
<1> QED BY <1>1, <1>2

LEMMA GotHeaderStep ==
  ASSUME MainOK, Alive, NEW c \in Conn, GotHeader(c), UNCHANGED mainVars
  PROVE  MainOK'
<1>1. CASE answer[c].err # "none"
  BY <1>1, FailStep DEF GotHeader
<1>2. CASE answer[c].err = "none"
  <2>1. /\ task["height"] = "subscribe"
        /\ task' = [task EXCEPT !["height"] = "done", !["work"] = "dial"]
        /\ chainHeight' \in {0} \cup Tips
        /\ pc' = "addNode"
        /\ UNCHANGED <<options, chain, network, keys, blockHeight, nodes>>
    BY <1>2 DEF GotHeader, mainVars, MainOK, ControlInv
  <2>2. MainTypeOK'
    <3>1. chainHeight' \in 0 .. Word - 1
      BY <2>1, StartupAssumption
    <3>2. task' \in [Conn -> RPC \cup {"off", "dial", "serve", "done", "given up", "returned"}]
      BY <2>1 DEF MainOK, MainTypeOK
    <3> QED BY <2>1, <3>1, <3>2 DEF MainOK, MainTypeOK
  <2>3. /\ task'["height"] = "done"
        /\ \A d \in Conn : task'[d] \in {"done", "dial", task[d]}
    BY <2>1, StartupAssumption DEF MainOK, MainTypeOK
  <2>4. pc \notin {"verify", "keys", "backend"}
    BY <2>1, StartupAssumption DEF MainOK, ControlInv
  <2>5. ControlInv'
    BY <2>1, <2>3 DEF MainOK, ControlInv
  <2>6. chain["height"] = network
    BY <2>1, StartupAssumption DEF MainOK, ChainInv
  <2>7. KeysRead'
    BY <2>1, <2>4 DEF MainOK, ChainInv, KeysRead, Alive
  <2>8. ChainInv'
    BY <2>1, <2>3, <2>6, <2>7 DEF MainOK, ChainInv
  <2>9. HeightSettled'
    BY <2>1 DEF HeightSettled
  <2> QED BY <2>2, <2>5, <2>8, <2>9 DEF MainOK
<1> QED BY <1>1, <1>2

LEMMA GotPeersStep ==
  ASSUME MainOK, NEW c \in Conn, GotPeers(c), UNCHANGED mainVars
  PROVE  MainOK'
<1>1. CASE taskOf(c, "returned") /\ UNCHANGED pc
  <2>1. /\ task[c] = "serve" /\ task' = [task EXCEPT ![c] = "returned"]
        /\ UNCHANGED <<options, chain, network, keys, blockHeight, pc, chainHeight, nodes>>
    BY <1>1 DEF GotPeers, taskOf, mainVars
  <2> QED BY <2>1, StartupAssumption DEF MainOK, MainTypeOK, ControlInv, ChainInv,
            HeightSettled, KeysRead
<1>2. CASE \E S \in SUBSET {p \in Peer : task[p] = "off"} :
             task' = [p \in Conn |-> IF p \in S THEN "dial" ELSE task[p]] /\ UNCHANGED pc
  <2>1. PICK S \in SUBSET {p \in Peer : task[p] = "off"} :
          task' = [p \in Conn |-> IF p \in S THEN "dial" ELSE task[p]] /\ UNCHANGED pc
    BY <1>2
  <2>2. /\ task[c] = "serve"
        /\ UNCHANGED <<options, chain, network, keys, blockHeight, pc, chainHeight, nodes>>
    BY <2>1 DEF GotPeers, mainVars
  <2>3. /\ \A d \in Conn : task'[d] \in {"dial", task[d]}
        /\ task'["height"] = task["height"] /\ task'["work"] = task["work"]
    BY <2>1, StartupAssumption DEF Peer
  <2>4. MainTypeOK'
    BY <2>1, <2>2 DEF MainOK, MainTypeOK
  <2>5. pc \notin {"verify", "keys", "backend"}
    BY <2>2 DEF MainOK, ControlInv
  <2>6. ControlInv'
    BY <2>2, <2>3, <2>5 DEF MainOK, ControlInv
  <2> QED BY <2>2, <2>3, <2>4, <2>6 DEF MainOK, ChainInv, HeightSettled, KeysRead
<1>3. CASE pc' = "panic" /\ UNCHANGED task
  BY <1>3 DEF GotPeers, MainOK, MainTypeOK, ControlInv, ChainInv, HeightSettled,
     KeysRead, mainVars
<1>4. CASE UNCHANGED <<pc, task>>
  BY <1>4 DEF GotPeers, MainOK, MainTypeOK, ControlInv, ChainInv, HeightSettled,
     KeysRead, mainVars
<1> QED BY <1>1, <1>2, <1>3, <1>4 DEF GotPeers

LEMMA GotHistoryStep ==
  ASSUME MainOK, NEW c \in Conn, GotHistory(c), UNCHANGED mainVars
  PROVE  MainOK'
<1>1. /\ task[c] = "serve" /\ nodes' \subseteq nodes
      /\ task' = [task EXCEPT ![c] = "returned"] \/ UNCHANGED task
      /\ UNCHANGED <<options, chain, network, keys, blockHeight, pc, chainHeight>>
  BY DEF GotHistory, taskOf, mainVars
<1>2. KeysRead' = KeysRead
  BY <1>1 DEF KeysRead
<1>3. MainTypeOK' /\ ControlInv'
  <2>1. MainTypeOK'
    BY <1>1 DEF MainOK, MainTypeOK
  <2>2. \A d \in Conn : task'[d] = IF d = c THEN task'[c] ELSE task[d]
    BY <1>1 DEF MainOK, MainTypeOK
  <2>3. task[c] = "serve" /\ task'[c] \in {"serve", "returned"} /\ pc' = pc
    BY <1>1 DEF MainOK, MainTypeOK
  <2>4. pc \notin {"verify", "keys", "backend"}
    BY <2>3 DEF MainOK, ControlInv
  <2>5. ControlInv'
    BY <2>2, <2>3, <2>4, StartupAssumption DEF MainOK, ControlInv
  <2> QED BY <2>1, <2>5
<1>4. HeightSettled'
  BY <1>1 DEF MainOK, HeightSettled
<1>5. \A d \in Conn : task'[d] \in {"version", "subscribe", "serve"} =>
        task[d] \in {"version", "subscribe", "serve"}
  BY <1>1 DEF MainOK, MainTypeOK
<1>6. ChainInv'
  BY <1>1, <1>2, <1>5 DEF MainOK, ChainInv
<1> QED BY <1>3, <1>4, <1>6 DEF MainOK

LEMMA GotStep ==
  ASSUME LinesOK, MainOK, Alive, NEW c \in Conn, Got(c)
  PROVE  LinesOK' /\ MainOK'
<1>1. UNCHANGED mainVars
  BY DEF Got
<1>2. \E o \in SUBSET Conn : keep(o)
  <2>1. open \in SUBSET Conn /\ open \ {c} \in SUBSET Conn
    BY DEF LinesOK, TransportTypeOK
  <2>2. keep(open) \/ keep(open \ {c})
    BY DEF Got, GotFeatures, GotVersion, GotHeader, GotPeers, GotHistory
  <2> QED BY <2>1, <2>2
<1>3. LinesOK'
  BY <1>2, LinesGot DEF Got
<1>4. MainOK'
  BY <1>1, GotFeaturesStep, GotVersionStep, GotHeaderStep, GotPeersStep, GotHistoryStep DEF Got
<1> QED BY <1>3, <1>4

-----------------------------------------------------------------------------
(* Servers that keep to the protocol.                                       *)

\* Each call is for the task of its connection's goroutine.
LEMMA CallStep ==
  ASSUME LinesOK, MainOK, CallInv, [Next]_vars
  PROVE  CallInv'
<1> USE DEF LinesOK, TransportTypeOK, MainOK, MainTypeOK
<1>1. CASE main
  <2>1. UNCHANGED <<call, method>>
    BY <1>1 DEF main, Verify, ReadSingleAddress, ReadPubkeys, BuildElectrum, BuildOther,
                SettleHeight, transportVars
  <2>2. task' = task \/ task = [c \in Conn |-> "off"]
    BY <1>1 DEF main, Verify, ReadSingleAddress, ReadPubkeys, BuildElectrum, BuildOther,
                SettleHeight, ControlInv
  <2>3. CASE task' = task
    BY <2>1, <2>3 DEF CallInv
  <2>4. CASE task = [c \in Conn |-> "off"]
    <3>1. \A c \in Conn : call[c] = "idle"
      BY <2>4 DEF CallInv, RPC
    <3> QED BY <2>1, <3>1 DEF CallInv
  <2> QED BY <2>2, <2>3, <2>4
<1>2. ASSUME Alive, NEW c \in Conn, goroutine(c) PROVE CallInv'
  <2>1. CASE Dial(c)
    <3>1. call[c] = "idle" /\ UNCHANGED <<call, method>>
      BY <2>1 DEF Dial, CallInv, RPC
    <3>2. \A d \in Conn : d # c => task'[d] = task[d]
      BY <2>1 DEF Dial, Fail, taskOf
    <3> QED BY <3>1, <3>2 DEF CallInv
  <2>2. CASE Ask(c)
    BY <2>2 DEF Ask, request, callOf, startupVars, CallInv, RPC
  <2>3. CASE Serve(c)
    <3>1. PICK m \in Requests : request(c, m)
      BY <2>3 DEF Serve
    <3>2. /\ method' = [method EXCEPT ![c] = m] /\ call' = [call EXCEPT ![c] = "write"]
          /\ UNCHANGED task /\ task[c] = "serve"
      BY <2>3, <3>1 DEF Serve, request, callOf, startupVars
    <3>3. method'[c] = m /\ \A d \in Conn : d # c => method'[d] = method[d] /\ call'[d] = call[d]
      BY <3>2
    <3> QED BY <3>2, <3>3 DEF CallInv
  <2>4. CASE Got(c)
    <3>1. call[c] = "returned" /\ call' = [call EXCEPT ![c] = "idle"] /\ UNCHANGED method
      BY <2>4 DEF Got, callOf
    <3>2. \A d \in Conn : d # c => task'[d] = task[d] \/ task[d] = "off"
      <4>1. CASE GotHeader(c)
        <5>1. c = "height" /\ pc = "getHeight" /\ task["work"] = "off"
          BY <1>2, <4>1, StartupAssumption DEF GotHeader, ControlInv, Alive
        <5> QED BY <4>1, <5>1 DEF GotHeader, Fail, taskOf
      <4>2. CASE GotPeers(c)
        BY <4>2 DEF GotPeers, taskOf
      <4>3. CASE GotFeatures(c) \/ GotVersion(c) \/ GotHistory(c)
        BY <4>3 DEF GotFeatures, GotVersion, GotHistory, Fail, taskOf
      <4> QED BY <2>4, <4>1, <4>2, <4>3 DEF Got
    <3>3. \A d \in Conn : d # c /\ call[d] # "idle" => task'[d] = task[d]
      BY <3>2 DEF CallInv, RPC
    <3> QED BY <3>1, <3>3 DEF CallInv
  <2>5. CASE SendMessage(c) /\ UNCHANGED startupVars
    <3>1. UNCHANGED <<method, task>> /\ call[c] # "idle"
      BY <2>5 DEF SendMessage, Write, NetworkError, MayFail, Read, startupVars
    <3>2. \A d \in Conn : d # c => call'[d] = call[d]
      BY <2>5 DEF SendMessage, Write, NetworkError, Read, return, callOf
    <3> QED BY <3>1, <3>2 DEF CallInv
  <2> QED BY <1>2, <2>1, <2>2, <2>3, <2>4, <2>5 DEF goroutine
<1>3. CASE (\E c \in Conn : Server(c)) /\ UNCHANGED startupVars
  BY <1>3 DEF Server, Answer, Notify, Misbehave, startupVars, CallInv
<1>4. CASE UNCHANGED vars
  BY <1>4 DEF vars, transportVars, startupVars, CallInv
<1> QED BY <1>1, <1>2, <1>3, <1>4 DEF Next

\* A connection that a step leaves alone, or loses the lines of.
LEMMA ProtocolFrame ==
  ASSUME NEW d \in Conn, ProtocolAt(d), Alive' => Alive,
         /\ call'[d] = call[d] /\ method'[d] = method[d]
         /\ answer'[d] = answer[d] /\ nextId'[d] = nextId[d],
         \/ /\ toServer'[d] = toServer[d] /\ toClient'[d] = toClient[d]
            /\ d \in subscribed' <=> d \in subscribed
         \/ toServer'[d] = <<>> /\ toClient'[d] = <<>> /\ d \notin subscribed'
  PROVE  ProtocolAt(d)'
<1>1. CASE /\ toServer'[d] = toServer[d] /\ toClient'[d] = toClient[d]
           /\ d \in subscribed' <=> d \in subscribed
  BY <1>1 DEF ProtocolAt
<1>2. CASE toServer'[d] = <<>> /\ toClient'[d] = <<>> /\ d \notin subscribed'
  BY <1>2 DEF ProtocolAt
<1> QED BY <1>1, <1>2

\* What closing connections does to each of them.
LEMMA KeepEach ==
  ASSUME NEW o, keep(o), NEW d \in Conn
  PROVE  \/ /\ d \in o
            /\ toServer'[d] = toServer[d] /\ toClient'[d] = toClient[d]
            /\ d \in subscribed' <=> d \in subscribed
         \/ /\ d \notin o
            /\ toServer'[d] = <<>> /\ toClient'[d] = <<>> /\ d \notin subscribed'
  BY DEF keep

\* A request is made where nothing is under way.
LEMMA ProtocolRequest ==
  ASSUME LinesOK, ProtocolInv, Alive, Alive', NEW c \in Conn, NEW m \in RPC, request(c, m)
  PROVE  ProtocolInv'
<1> SUFFICES ASSUME faults = 0, NEW d \in Conn PROVE ProtocolAt(d)'
  BY DEF request, ProtocolInv
<1>0. ProtocolAt(d) /\ ProtocolAt(c)
  BY DEF ProtocolInv
<1>1. CASE d # c
  BY <1>0, <1>1, ProtocolFrame DEF request, callOf, LinesOK, TransportTypeOK
<1>2. CASE d = c
  <2>1. c \notin subscribed /\ toServer[c] = <<>> /\ toClient[c] = <<>>
    BY <1>0 DEF request, ProtocolAt
  <2> QED BY <1>0, <1>2, <2>1 DEF request, callOf, ProtocolAt, LinesOK, TransportTypeOK
<1> QED BY <1>1, <1>2

\* Write: the request is under way.
LEMMA ProtocolWrite ==
  ASSUME LinesOK, ProtocolInv, Alive, Alive', NEW c \in Conn, Write(c)
  PROVE  ProtocolInv'
<1> SUFFICES ASSUME faults = 0, NEW d \in Conn PROVE ProtocolAt(d)'
  BY DEF Write, ProtocolInv
<1>0. ProtocolAt(d) /\ ProtocolAt(c)
  BY DEF ProtocolInv
<1>1. CASE d # c
  BY <1>0, <1>1, ProtocolFrame DEF Write, callOf, push, LinesOK, TransportTypeOK
<1>2. CASE d = c
  <2>1. c \notin subscribed /\ toServer[c] = <<>> /\ toClient[c] = <<>>
    BY <1>0 DEF Write, ProtocolAt
  <2>2. toServer'[c] = <<[id |-> nextId[c], method |-> method[c]]>>
    BY <2>1 DEF Write, push, LinesOK, TransportTypeOK
  <2> QED BY <1>0, <1>2, <2>1, <2>2 DEF Write, callOf, ProtocolAt, LinesOK, TransportTypeOK
<1> QED BY <1>1, <1>2

\* An error closes the connection: no late answer reaches the next call.
LEMMA ProtocolNetworkError ==
  ASSUME LinesOK, ProtocolInv, Alive' => Alive, NEW c \in Conn, NetworkError(c)
  PROVE  ProtocolInv'
<1> SUFFICES ASSUME faults = 0, NEW d \in Conn PROVE ProtocolAt(d)'
  BY DEF NetworkError, ProtocolInv
<1>0. ProtocolAt(d)
  BY DEF ProtocolInv
<1>1. /\ keep(open \ {c})
      /\ call' = [call EXCEPT ![c] = "returned"]
      /\ answer' = [answer EXCEPT ![c] = Returned("ErrNetwork", 0, FALSE)]
      /\ UNCHANGED <<nextId, method>>
  BY DEF NetworkError, return, callOf
<1>2. CASE d # c
  BY <1>0, <1>1, <1>2, KeepEach, ProtocolFrame DEF LinesOK, TransportTypeOK
<1>3. CASE d = c
  <2>1. toServer'[d] = <<>> /\ toClient'[d] = <<>> /\ d \notin subscribed'
    BY <1>1, <1>3 DEF keep
  <2>2. answer'[d].err = "ErrNetwork" /\ call'[d] = "returned"
    BY <1>1, <1>3 DEF LinesOK, TransportTypeOK, Returned
  <2> QED BY <2>1, <2>2 DEF ProtocolAt
<1> QED BY <1>2, <1>3

\* Read: the line at the head is the answer, and what is left is notifications.
LEMMA ProtocolRead ==
  ASSUME LinesOK, ProtocolInv, Alive' => Alive, NEW c \in Conn, Read(c)
  PROVE  ProtocolInv'
<1> SUFFICES ASSUME faults = 0, NEW d \in Conn PROVE ProtocolAt(d)'
  BY DEF Read, ProtocolInv
<1>0. ProtocolAt(d) /\ ProtocolAt(c)
  BY DEF ProtocolInv
<1> DEFINE q == toClient[c]
           r == Decode(Head(q), nextId[c])
<1>1. /\ call[c] = "read" /\ q # <<>> /\ q \in Seq(Line)
      /\ call' = [call EXCEPT ![c] = "returned"]
      /\ answer' = [answer EXCEPT ![c] = r]
      /\ UNCHANGED <<nextId, method>>
  BY DEF Read, return, callOf, LinesOK, TransportTypeOK
<1>2. /\ toServer[c] = <<>> /\ q[1].id = nextId[c]
      /\ q[1].kind \in {"result", "error"}
      /\ Len(q) > 1 => c \in subscribed
  <2>1. 1 \in DOMAIN q
    BY <1>1
  <2> QED BY <1>0, <1>1, <2>1 DEF ProtocolAt
<1>3. r.err \in {"none", "ErrAPI"}
  <2>1. Head(q) = q[1]
    BY <1>1
  <2>2. ~Mismatch(Head(q), nextId[c])
    BY <1>2, <2>1 DEF Mismatch
  <2> QED BY <1>2, <2>1, <2>2 DEF Decode, Returned
<1>4. PICK n \in 1 .. Len(q) : toClient' = [toClient EXCEPT ![c] = SubSeq(q, n + 1, Len(q))]
  BY <1>3 DEF Read
<1>5. UNCHANGED <<toServer, subscribed>>
  BY <1>3 DEF Read
<1> HIDE DEF r
<1>6. CASE d # c
  BY <1>0, <1>1, <1>4, <1>5, <1>6, ProtocolFrame DEF LinesOK, TransportTypeOK
<1>7. CASE d = c
  <2> DEFINE s == SubSeq(q, n + 1, Len(q))
  <2>1. toClient'[c] = s /\ Len(q) \in Nat
    BY <1>1, <1>4 DEF LinesOK, TransportTypeOK
  <2>2. \A i \in DOMAIN s : s[i].kind \in {"result", "error"}
    <3> SUFFICES ASSUME NEW i \in DOMAIN s PROVE s[i].kind \in {"result", "error"}
      OBVIOUS
    <3>1. i + n \in DOMAIN q /\ s[i] = q[i + n]
      BY <1>1
    <3> QED BY <1>0, <3>1 DEF ProtocolAt
  <2>3. s # <<>> => c \in subscribed
    <3>1. Len(q) <= 1 => s = <<>>
      BY <1>1
    <3> QED BY <1>2, <2>1, <3>1
  <2>4. answer'[c] = r /\ call'[c] = "returned" /\ toServer'[c] = <<>>
    BY <1>1, <1>2, <1>5 DEF LinesOK, TransportTypeOK
  <2> HIDE DEF s
  <2> QED BY <1>0, <1>1, <1>3, <1>5, <1>7, <2>1, <2>2, <2>3, <2>4 DEF ProtocolAt
<1> QED BY <1>6, <1>7

\* One more line under way to a client.
LEMMA PushEach ==
  ASSUME LinesOK, NEW c \in Conn, NEW l, toClient' = push(toClient, c, l)
  PROVE  /\ toClient'[c] = Append(toClient[c], l)
         /\ \A d \in Conn : d # c => toClient'[d] = toClient[d]
  BY DEF LinesOK, TransportTypeOK, push

\* The kinds of a queue with one more line.
LEMMA AppendKinds ==
  ASSUME NEW q \in Seq(Line), NEW l \in Line, l.kind \in {"result", "error"},
         \A i \in DOMAIN q : q[i].kind \in {"result", "error"}
  PROVE  /\ Append(q, l) # <<>> /\ Len(Append(q, l)) = Len(q) + 1
         /\ Append(q, l)[1] = IF q = <<>> THEN l ELSE q[1]
         /\ \A i \in DOMAIN Append(q, l) : Append(q, l)[i].kind \in {"result", "error"}
<1>1. /\ Len(q) \in Nat /\ DOMAIN q = 1 .. Len(q)
      /\ Len(Append(q, l)) = Len(q) + 1 /\ DOMAIN Append(q, l) = 1 .. Len(q) + 1
      /\ \A i \in 1 .. Len(q) : Append(q, l)[i] = q[i]
      /\ Append(q, l)[Len(q) + 1] = l
  OBVIOUS
<1>2. q = <<>> <=> Len(q) = 0
  OBVIOUS
<1>3. Append(q, l) # <<>>
  BY <1>1
<1>4. \A i \in DOMAIN Append(q, l) : i \in DOMAIN q \/ i = Len(q) + 1
  BY <1>1
<1> QED BY <1>1, <1>2, <1>3, <1>4

\* A server answers the request of the call that waits, and sends notifications
\* only where nothing else is asked; whatever else it sends is a fault.
LEMMA ProtocolServer ==
  ASSUME LinesOK, ProtocolInv, Alive' => Alive, NEW c \in Conn, Server(c)
  PROVE  ProtocolInv'
<1>1. CASE Answer(c)
  <2> SUFFICES ASSUME faults = 0, NEW d \in Conn PROVE ProtocolAt(d)'
    BY <1>1 DEF Answer, ProtocolInv
  <2>0. ProtocolAt(d) /\ ProtocolAt(c)
    BY DEF ProtocolInv
  <2>1. /\ call[c] = "read" /\ toClient[c] = <<>> /\ c \notin subscribed
        /\ toServer[c] = <<[id |-> nextId[c], method |-> method[c]]>>
    BY <1>1, <2>0 DEF Answer, ProtocolAt
  <2>2. Head(toServer[c]) = [id |-> nextId[c], method |-> method[c]] /\ Tail(toServer[c]) = <<>>
    BY <2>1
  <2>3. PICK kind \in {"result", "error"} :
          toClient' = push(toClient, c, [id |-> nextId[c], re |-> nextId[c], kind |-> kind])
    <3>1. Head(toServer[c]).id = nextId[c]
      BY <2>2
    <3> QED BY <1>1, <3>1 DEF Answer
  <2>4. /\ toServer' = [toServer EXCEPT ![c] = <<>>]
        /\ subscribed' = IF method[c] = "subscribe" THEN subscribed \cup {c} ELSE subscribed
        /\ UNCHANGED <<nextId, call, method, answer>>
    <3>1. Head(toServer[c]).method = method[c]
      BY <2>2
    <3> QED BY <1>1, <2>2, <3>1 DEF Answer
  <2>5. CASE d # c
    BY <2>0, <2>3, <2>4, <2>5, PushEach, ProtocolFrame DEF LinesOK, TransportTypeOK
  <2>6. CASE d = c
    <3>1. toClient'[c] = <<[id |-> nextId[c], re |-> nextId[c], kind |-> kind]>>
      BY <2>1, <2>3, PushEach
    <3>2. toServer'[c] = <<>>
      BY <2>4 DEF LinesOK, TransportTypeOK
    <3> DEFINE l == [id |-> nextId[c], re |-> nextId[c], kind |-> kind]
    <3>3. /\ toClient'[c] # <<>> /\ Len(toClient'[c]) = 1 /\ toClient'[c][1].id = nextId[c]
          /\ \A i \in DOMAIN toClient'[c] : toClient'[c][i].kind \in {"result", "error"}
      BY <3>1
    <3> QED BY <2>0, <2>1, <2>4, <2>6, <3>2, <3>3 DEF ProtocolAt
  <2> QED BY <2>5, <2>6
<1>2. CASE Notify(c)
  <2> SUFFICES ASSUME faults = 0, NEW d \in Conn PROVE ProtocolAt(d)'
    BY <1>2 DEF Notify, ProtocolInv
  <2>0. ProtocolAt(d) /\ ProtocolAt(c)
    BY DEF ProtocolInv
  <2> DEFINE l == [id |-> 0, re |-> 0, kind |-> "result"]
  <2>1. /\ c \in subscribed /\ toClient' = push(toClient, c, l)
        /\ UNCHANGED <<nextId, call, method, answer, toServer, subscribed>>
    BY <1>2 DEF Notify
  <2>2. CASE d # c
    BY <2>0, <2>1, <2>2, PushEach, ProtocolFrame
  <2>3. CASE d = c
    <3>1. l \in Line /\ l.kind = "result" /\ toClient[c] \in Seq(Line)
      BY DEF Line, LinesOK, TransportTypeOK
    <3> HIDE DEF l
    <3>2. /\ toClient'[c] # <<>> /\ toClient'[c][1] = IF toClient[c] = <<>> THEN l ELSE toClient[c][1]
          /\ \A i \in DOMAIN toClient'[c] : toClient'[c][i].kind \in {"result", "error"}
      <4>1. toClient'[c] = Append(toClient[c], l)
        BY <2>1, PushEach
      <4>2. \A i \in DOMAIN toClient[c] : toClient[c][i].kind \in {"result", "error"}
        BY <2>0 DEF ProtocolAt
      <4> QED BY <3>1, <4>1, <4>2, AppendKinds
    <3> QED BY <2>0, <2>1, <2>3, <3>2 DEF ProtocolAt
  <2> QED BY <2>2, <2>3
<1>3. CASE Misbehave(c)
  <2>1. faults' # 0
    BY <1>3 DEF Misbehave, LinesOK, TransportTypeOK
  <2> QED BY <2>1 DEF ProtocolInv
<1> QED BY <1>1, <1>2, <1>3 DEF Server

\* The end of a call: of the one that subscribed, getHeight's, the connection is
\* closed, or the program has failed.
LEMMA ProtocolGot ==
  ASSUME LinesOK, MainOK, CallInv, ProtocolInv, Alive, NEW c \in Conn, Got(c)
  PROVE  ProtocolInv'
<1> SUFFICES ASSUME faults = 0, NEW d \in Conn PROVE ProtocolAt(d)'
  BY DEF Got, ProtocolInv
<1>0. ProtocolAt(d) /\ ProtocolAt(c)
  BY DEF ProtocolInv
<1>1. /\ call[c] = "returned" /\ call' = [call EXCEPT ![c] = "idle"]
      /\ UNCHANGED <<nextId, method, answer>>
  BY DEF Got, callOf
<1>2. PICK o \in {open, open \ {c}} : keep(o)
  BY DEF Got, GotFeatures, GotVersion, GotHeader, GotPeers, GotHistory
<1>3. CASE d # c
  <2>1. call'[d] = call[d]
    BY <1>1, <1>3 DEF LinesOK, TransportTypeOK
  <2> QED BY <1>0, <1>1, <1>2, <2>1, KeepEach, ProtocolFrame
<1>4. CASE d = c
  <2>1. toServer[c] = <<>> /\ (toClient[c] # <<>> => c \in subscribed)
    BY <1>0, <1>1 DEF ProtocolAt
  <2>2. c \in subscribed' => ~Alive'
    <3> SUFFICES ASSUME c \in subscribed' PROVE ~Alive'
      OBVIOUS
    <3>1. c \in subscribed
      BY <1>2 DEF keep
    <3>2. task[c] = "subscribe"
      BY <1>0, <1>1, <3>1 DEF ProtocolAt, CallInv, Requests
    <3>3. c = "height" /\ GotHeader(c)
      BY <3>2 DEF MainOK, ControlInv, Got, GotFeatures, GotVersion, GotPeers, GotHistory
    <3>4. ~keep(open \ {c})
      BY DEF keep
    <3> QED BY <3>3, <3>4 DEF GotHeader, Fail, Peer, Alive
  <2>3. /\ toServer'[c] = <<>> /\ toClient'[c] # <<>> => c \in subscribed'
        /\ c \in subscribed' => c \in subscribed
        /\ toClient'[c] \in {toClient[c], <<>>}
    BY <1>2, <2>1, KeepEach
  <2>4. call'[c] = "idle"
    BY <1>1 DEF LinesOK, TransportTypeOK
  <2>5. toServer'[c] = <<>>
    BY <1>2, <2>1, KeepEach
  <2>6. \A i \in DOMAIN toClient'[c] : toClient'[c][i].kind \in {"result", "error"}
    BY <1>0, <2>3 DEF ProtocolAt
  <2> QED BY <1>0, <1>1, <1>4, <2>2, <2>3, <2>4, <2>5, <2>6 DEF ProtocolAt
<1> QED BY <1>3, <1>4

\* Every step keeps it.
LEMMA ProtocolStep ==
  ASSUME LinesOK, LinesOK', MainOK, CallInv, ProtocolInv, [Next]_vars
  PROVE  ProtocolInv'
<1>0. Alive' => Alive
  BY DEF Next, vars, startupVars, Alive
<1>1. ASSUME UNCHANGED transportVars PROVE ProtocolInv'
  BY <1>0, <1>1, ProtocolFrame DEF transportVars, ProtocolInv
<1>2. CASE main
  <2>1. UNCHANGED transportVars
    BY <1>2 DEF main, Verify, ReadSingleAddress, ReadPubkeys, BuildElectrum, BuildOther,
                SettleHeight
  <2> QED BY <1>1, <2>1
<1>3. ASSUME Alive, NEW c \in Conn, goroutine(c) PROVE ProtocolInv'
  <2>1. CASE Dial(c)
    BY <1>0, <2>1, ProtocolFrame DEF Dial, ProtocolInv
  <2>2. CASE Ask(c)
    BY <1>3, <2>2, ProtocolRequest DEF Ask, startupVars, Alive
  <2>3. CASE Serve(c)
    BY <1>3, <2>3, ProtocolRequest DEF Serve, startupVars, Alive, Requests, RPC
  <2>4. CASE Got(c)
    BY <1>3, <2>4, ProtocolGot
  <2>5. CASE SendMessage(c) /\ UNCHANGED startupVars
    <3>1. Alive'
      BY <1>3, <2>5 DEF startupVars, Alive
    <3> QED BY <1>3, <2>5, <3>1, ProtocolWrite, ProtocolNetworkError, ProtocolRead DEF SendMessage
  <2> QED BY <1>3, <2>1, <2>2, <2>3, <2>4, <2>5 DEF goroutine
<1>4. CASE (\E c \in Conn : Server(c)) /\ UNCHANGED startupVars
  BY <1>0, <1>4, ProtocolServer
<1>5. CASE UNCHANGED vars
  BY <1>1, <1>5 DEF vars
<1> QED BY <1>2, <1>3, <1>4, <1>5 DEF Next

\* A start-up begins without a call.
LEMMA ProtocolInit == ASSUME Init PROVE CallInv /\ ProtocolInv
<1>1. CallInv
  BY DEF Init, TransportInit, CallInv
<1>2. ASSUME NEW c \in Conn PROVE ProtocolAt(c)
  <2>1. /\ answer[c].err = "none" /\ call[c] = "idle" /\ toServer[c] = <<>>
        /\ toClient[c] = <<>> /\ c \notin subscribed
    BY DEF Init, TransportInit, Returned
  <2> QED BY <2>1 DEF ProtocolAt
<1> QED BY <1>1, <1>2 DEF ProtocolInv

-----------------------------------------------------------------------------
(* The theorems.                                                           *)

\* Steps that leave the variables of main, or those of the connections, alone.
LEMMA MainUnchanged == ASSUME MainOK, UNCHANGED startupVars PROVE MainOK'
  BY DEF MainOK, MainTypeOK, ControlInv, ChainInv, HeightSettled, KeysRead,
     startupVars, mainVars

LEMMA LinesUnchanged == ASSUME LinesOK, UNCHANGED transportVars PROVE LinesOK'
  BY DEF LinesOK, TransportTypeOK, LinesInv, OwnAnswer, transportVars

LEMMA InvStep == ASSUME LinesOK, MainOK, [Next]_vars PROVE LinesOK' /\ MainOK'
<1>1. CASE main
  <2>1. UNCHANGED transportVars
    BY <1>1 DEF main, Verify, ReadSingleAddress, ReadPubkeys, BuildElectrum, BuildOther, SettleHeight
  <2> QED BY <1>1, <2>1, LinesUnchanged, VerifyStep, ReadSingleAddressStep, ReadPubkeysStep,
            BuildElectrumStep, BuildOtherStep, SettleHeightStep DEF main
<1>2. ASSUME Alive, NEW c \in Conn, goroutine(c) PROVE LinesOK' /\ MainOK'
  <2>1. CASE Dial(c)
    BY <2>1, DialStep
  <2>2. CASE Ask(c)
    BY <2>2, LinesRequest, MainUnchanged DEF Ask
  <2>3. CASE Serve(c)
    <3>1. PICK m \in Requests : request(c, m)
      BY <2>3 DEF Serve
    <3>2. m \in RPC
      BY DEF Requests, RPC
    <3> QED BY <2>3, <3>1, <3>2, LinesRequest, MainUnchanged DEF Serve
  <2>4. CASE Got(c)
    BY <1>2, <2>4, GotStep
  <2>5. CASE SendMessage(c) /\ UNCHANGED startupVars
    BY <2>5, LinesWrite, LinesNetworkError, LinesRead, MainUnchanged DEF SendMessage
  <2> QED BY <1>2, <2>1, <2>2, <2>3, <2>4, <2>5 DEF goroutine
<1>3. CASE (\E c \in Conn : Server(c)) /\ UNCHANGED startupVars
  BY <1>3, LinesServer, MainUnchanged
<1>4. CASE UNCHANGED vars
  BY <1>4, LinesUnchanged, MainUnchanged DEF vars
<1> QED BY <1>1, <1>2, <1>3, <1>4 DEF Next

\* The invariant from which the others follow.
THEOREM InductiveInvariant == Spec => []IInv
<1> DEFINE Inv == LinesOK /\ MainOK /\ CallInv /\ ProtocolInv
<1>1. Init => Inv
  BY MainInit, ProtocolInit
<1>2. Inv /\ [Next]_vars => Inv'
  BY InvStep, CallStep, ProtocolStep
<1>3. Inv => IInv
  BY DEF LinesOK, MainOK, IInv, TypeOK
<1> QED BY <1>1, <1>2, <1>3, PTL DEF Spec

\* Every variable of the connections and of the start-up keeps its type.
THEOREM TypeCorrect == Spec => []TypeOK
<1>1. IInv => TypeOK
  BY DEF IInv
<1> QED BY <1>1, InductiveInvariant, PTL

\* SendMessage returns the answer to the request it has sent, however many lines
\* a server gets wrong, sends late or sends twice.
THEOREM AnswersAreOwn == Spec => []OwnAnswer
<1>1. IInv => OwnAnswer
  BY DEF IInv
<1> QED BY <1>1, InductiveInvariant, PTL

\* A server that makes no mistake is never given up for a line that does not
\* decode or match, however late its answers are and whatever notifications it
\* sends: these come only to the connection that has nothing left to ask.
THEOREM NeverMismatched == Spec => []NoMismatch
<1>1. IInv => NoMismatch
  BY DEF IInv, ProtocolInv, ProtocolAt, NoMismatch
<1> QED BY <1>1, InductiveInvariant, PTL

\* No key, height or server of another network is used.
THEOREM ChainIsRight == Spec => []RightChain
<1>1. IInv => RightChain
  BY DEF IInv, ChainInv, RightChain
<1> QED BY <1>1, InductiveInvariant, PTL

\* The height is the one asked for, or the default, and deep enough.
THEOREM HeightIsSettled == Spec => []HeightSettled
<1>1. IInv => HeightSettled
  BY DEF IInv
<1> QED BY <1>1, InductiveInvariant, PTL
=============================================================================
