------------------------------ MODULE Transport ------------------------------
(***************************************************************************)
(* The client's connections to Electrum servers                             *)
(* (src/backend/electrum/tcp.go, and request and Disconnect of              *)
(* blockchain.go): one request at a time, a line each way, matched by id.   *)
(*                                                                         *)
(* A server answers a request when it likes or never, may send the header   *)
(* of every new block once it is subscribed to, and MaxFaults of its lines  *)
(* are not what the protocol asks for.                                      *)
(***************************************************************************)
EXTENDS Naturals, Sequences

CONSTANTS
  Conn,       \* connections: the nodes made by NewNode
  MaxLines,   \* bound on the lines under way to the client
  MaxFaults   \* bound on the lines a server gets wrong

ASSUME TransportAssumption == MaxLines \in Nat \ {0} /\ MaxFaults \in Nat

\* What is asked of a server; one name stands for histories, transactions and blocks.
RPC == {"features", "version", "subscribe", "peers", "history"}

VARIABLES
  open,        \* connections the client has open
  nextId,      \* the id of the last request of each connection
  call,        \* SendMessage: "idle", "write", "read", "returned"
  method,      \* what it asks for
  answer,      \* what it returned
  toServer,    \* lines under way: [id, method]
  toClient,    \* lines under way: [id, re, kind], re being the request answered
  subscribed,  \* connections whose server sends notifications
  faults

transportVars == <<open, nextId, call, method, answer, toServer, toClient,
                   subscribed, faults>>

\* re is what the result answers; a zero result is one that did not unmarshal,
\* an error request drops.
Returned(err, re, zero) == [err |-> err, re |-> re, zero |-> zero]

TransportInit ==
  /\ open = {}
  /\ nextId = [c \in Conn |-> 0]
  /\ call = [c \in Conn |-> "idle"]
  /\ method = [c \in Conn |-> "features"]
  /\ answer = [c \in Conn |-> Returned("none", 0, FALSE)]
  /\ toServer = [c \in Conn |-> <<>>]
  /\ toClient = [c \in Conn |-> <<>>]
  /\ subscribed = {}
  /\ faults = 0

callOf(c, at) == call' = [call EXCEPT ![c] = at]
push(q, c, x) == [q EXCEPT ![c] = Append(@, x)]

-----------------------------------------------------------------------------
(* request and SendMessage                                                 *)

request(c, m) ==
  /\ call[c] = "idle"
  /\ nextId' = [nextId EXCEPT ![c] = @ + 1]
  /\ method' = [method EXCEPT ![c] = m]
  /\ callOf(c, "write")
  /\ UNCHANGED <<open, answer, toServer, toClient, subscribed, faults>>

Write(c) ==
  /\ call[c] = "write"
  /\ c \in open
  /\ toServer' = push(toServer, c, [id |-> nextId[c], method |-> method[c]])
  /\ callOf(c, "read")
  /\ UNCHANGED <<open, nextId, method, answer, toClient, subscribed, faults>>

\* Closing a connection loses what is under way on it.
keep(o) ==
  /\ open' = o
  /\ toServer' = [c \in Conn |-> IF c \in o THEN toServer[c] ELSE <<>>]
  /\ toClient' = [c \in Conn |-> IF c \in o THEN toClient[c] ELSE <<>>]
  /\ subscribed' = subscribed \cap o

return(c, r) ==
  /\ callOf(c, "returned")
  /\ answer' = [answer EXCEPT ![c] = r]

\* Mutant: no deadline is set.
MayFailClosed(c) == call[c] \in {"write", "read"} /\ c \notin open

\* The peer is gone, the connection is closed, or the deadline has passed.
MayFail(c) == call[c] \in {"write", "read"}

\* The write or the read returns an error.
NetworkError(c) ==
  /\ MayFail(c)
  /\ keep(open \ {c})
  /\ return(c, Returned("ErrNetwork", 0, FALSE))
  /\ UNCHANGED <<nextId, method, faults>>

\* Mutant: the response is not matched with the request.
MismatchNever(line, id) == FALSE

Mismatch(line, id) == line.id # id

\* What SendMessage and request make of a line.
Decode(line, id) ==
  CASE line.kind = "junk"   -> Returned("ErrUnknown", 0, FALSE)
    [] line.kind # "junk" /\ Mismatch(line, id) -> Returned("ErrIdMismatch", 0, FALSE)
    [] line.kind = "error" /\ ~Mismatch(line, id) -> Returned("ErrAPI", line.re, FALSE)
    [] OTHER -> Returned("none", line.re, line.kind = "misfit")

\* The reader is made for this call alone: lines it has buffered beyond the
\* first are gone with it.
Read(c) ==
  /\ call[c] = "read"
  /\ c \in open
  /\ toClient[c] # <<>>
  /\ LET r == Decode(Head(toClient[c]), nextId[c])
     IN  /\ return(c, r)
         /\ IF r.err \in {"ErrUnknown", "ErrIdMismatch"}
            THEN keep(open \ {c})
            ELSE /\ \E n \in 1 .. Len(toClient[c]) :
                      toClient' = [toClient EXCEPT ![c] = SubSeq(@, n + 1, Len(@))]
                 /\ UNCHANGED <<open, toServer, subscribed>>
  /\ UNCHANGED <<nextId, method, faults>>

SendMessage(c) == Write(c) \/ NetworkError(c) \/ Read(c)

-----------------------------------------------------------------------------
(* The server                                                              *)

\* Nothing is sent to a connection that is closed.
canSend(c) == c \in open /\ Len(toClient[c]) < MaxLines

Answer(c) ==
  /\ canSend(c)
  /\ toServer[c] # <<>>
  /\ \E kind \in {"result", "error"} :
       toClient' = push(toClient, c, [id |-> Head(toServer[c]).id,
                                      re |-> Head(toServer[c]).id, kind |-> kind])
  /\ subscribed' = IF Head(toServer[c]).method = "subscribe"
                   THEN subscribed \cup {c} ELSE subscribed
  /\ toServer' = [toServer EXCEPT ![c] = Tail(@)]
  /\ UNCHANGED <<open, nextId, call, method, answer, faults>>

\* A new block: a notification has no id, so that it decodes to 0.
Notify(c) ==
  /\ canSend(c)
  /\ c \in subscribed
  /\ toClient' = push(toClient, c, [id |-> 0, re |-> 0, kind |-> "result"])
  /\ UNCHANGED <<open, nextId, call, method, answer, toServer, subscribed, faults>>

\* A line that is not JSON, one that answers an earlier request once more, or a
\* result of another shape than the request's.
Misbehave(c) ==
  /\ canSend(c)
  /\ faults < MaxFaults
  /\ faults' = faults + 1
  /\ \/ /\ \E id \in 0 .. nextId[c], kind \in {"junk", "result"} :
             toClient' = push(toClient, c, [id |-> id, re |-> id, kind |-> kind])
        /\ UNCHANGED toServer
     \/ /\ toServer[c] # <<>>
        /\ toClient' = push(toClient, c, [id |-> Head(toServer[c]).id,
                                          re |-> Head(toServer[c]).id, kind |-> "misfit"])
        /\ toServer' = [toServer EXCEPT ![c] = Tail(@)]
  /\ UNCHANGED <<open, nextId, call, method, answer, subscribed>>

Server(c) == Answer(c) \/ Notify(c) \/ Misbehave(c)

-----------------------------------------------------------------------------
Line == [id : Nat, re : Nat, kind : {"result", "error", "junk", "misfit"}]
Request == [id : Nat, method : RPC]
Result == [err : {"none", "ErrNetwork", "ErrUnknown", "ErrIdMismatch", "ErrAPI"},
           re : Nat, zero : BOOLEAN]

TransportTypeOK ==
  /\ open \subseteq Conn /\ subscribed \subseteq Conn
  /\ nextId \in [Conn -> Nat]
  /\ call \in [Conn -> {"idle", "write", "read", "returned"}]
  /\ method \in [Conn -> RPC]
  /\ answer \in [Conn -> Result]
  /\ toServer \in [Conn -> Seq(Request)]
  /\ toClient \in [Conn -> Seq(Line)]
  /\ faults \in 0 .. MaxFaults
=============================================================================
