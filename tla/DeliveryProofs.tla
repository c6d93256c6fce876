---------------------------- MODULE DeliveryProofs ----------------------------
(***************************************************************************)
(* Proof that Delivery implements Accounter, for channels of any size and   *)
(* any set of goroutines: each step of a goroutine of the accounter is a    *)
(* step of Accounter or leaves its state alone, and no step of a backend's  *)
(* goroutine changes what is pending.                                       *)
(***************************************************************************)
EXTENDS Delivery, FiniteSetTheorems, TLAPS

-----------------------------------------------------------------------------
(* Facts about channels, and about requests in hands.                      *)

\* What is in a channel after a send.
LEMMA InAppend ==
  ASSUME NEW S, NEW s \in Seq(S), NEW x \in S
  PROVE  /\ Append(s, x) \in Seq(S)
         /\ InChannel(Append(s, x)) = InChannel(s) \cup {x}
         /\ Distinct(s) /\ x \notin InChannel(s) => Distinct(Append(s, x))
<1>1. /\ Append(s, x) \in Seq(S)
      /\ DOMAIN s = 1 .. Len(s) /\ Len(s) \in Nat
      /\ DOMAIN Append(s, x) = 1 .. Len(s) + 1
      /\ \A i \in 1 .. Len(s) : Append(s, x)[i] = s[i]
      /\ Append(s, x)[Len(s) + 1] = x
  OBVIOUS
<1>2. InChannel(Append(s, x)) = InChannel(s) \cup {x}
  <2>1. InChannel(Append(s, x)) \subseteq InChannel(s) \cup {x}
    BY <1>1 DEF InChannel
  <2>2. InChannel(s) \subseteq InChannel(Append(s, x))
    BY <1>1 DEF InChannel
  <2>3. x \in InChannel(Append(s, x))
    BY <1>1 DEF InChannel
  <2> QED BY <2>1, <2>2, <2>3
<1>3. ASSUME Distinct(s), x \notin InChannel(s) PROVE Distinct(Append(s, x))
  BY <1>1, <1>3 DEF Distinct, InChannel
<1> QED BY <1>1, <1>2, <1>3

\* What is in a channel after a receive.
LEMMA InTail ==
  ASSUME NEW S, NEW s \in Seq(S), s # <<>>
  PROVE  /\ Head(s) \in S /\ Tail(s) \in Seq(S)
         /\ InChannel(s) = InChannel(Tail(s)) \cup {Head(s)}
         /\ Distinct(s) => Distinct(Tail(s)) /\ Head(s) \notin InChannel(Tail(s))
<1>1. /\ Head(s) \in S /\ Tail(s) \in Seq(S)
      /\ DOMAIN s = 1 .. Len(s) /\ Len(s) \in Nat /\ Len(s) > 0
      /\ DOMAIN Tail(s) = 1 .. Len(s) - 1
      /\ \A i \in 1 .. Len(s) - 1 : Tail(s)[i] = s[i + 1]
      /\ Head(s) = s[1]
  OBVIOUS
<1>2. InChannel(s) = InChannel(Tail(s)) \cup {Head(s)}
  <2>1. ASSUME NEW i \in 1 .. Len(s) PROVE s[i] \in InChannel(Tail(s)) \cup {Head(s)}
    <3>1. CASE i = 1
      BY <1>1, <3>1
    <3>2. CASE i # 1
      <4>1. i - 1 \in DOMAIN Tail(s) /\ Tail(s)[i - 1] = s[i]
        BY <1>1, <3>2
      <4> QED BY <4>1 DEF InChannel
    <3> QED BY <3>1, <3>2
  <2>2. InChannel(Tail(s)) \cup {Head(s)} \subseteq InChannel(s)
    BY <1>1 DEF InChannel
  <2> QED BY <1>1, <2>1, <2>2 DEF InChannel
<1>3. ASSUME Distinct(s) PROVE Distinct(Tail(s)) /\ Head(s) \notin InChannel(Tail(s))
  BY <1>1, <1>3 DEF Distinct, InChannel
<1> QED BY <1>1, <1>2, <1>3

\* What goroutines hold when one that held nothing takes a request.
LEMMA InTakes ==
  ASSUME NEW held, NEW g, g \notin DOMAIN held, NEW r
  PROVE  /\ InChannel(takes(held, g, r)) = InChannel(held) \cup {r}
         /\ Distinct(held) /\ r \notin InChannel(held) => Distinct(takes(held, g, r))
<1>1. /\ DOMAIN takes(held, g, r) = DOMAIN held \cup {g}
      /\ \A x \in DOMAIN held : takes(held, g, r)[x] = held[x]
      /\ takes(held, g, r)[g] = r
  BY DEF takes
<1>2. InChannel(takes(held, g, r)) = InChannel(held) \cup {r}
  BY <1>1 DEF InChannel
<1>3. ASSUME Distinct(held), r \notin InChannel(held) PROVE Distinct(takes(held, g, r))
  BY <1>1, <1>3 DEF Distinct, InChannel
<1> QED BY <1>2, <1>3

\* What they hold when one of them parts with its request.
LEMMA InLeaves ==
  ASSUME NEW S, NEW held, held \in [DOMAIN held -> S], NEW g \in DOMAIN held
  PROVE  /\ held[g] \in S
         /\ leaves(held, g) \in [DOMAIN leaves(held, g) -> S]
         /\ InChannel(held) = InChannel(leaves(held, g)) \cup {held[g]}
         /\ Distinct(held) => /\ Distinct(leaves(held, g))
                              /\ held[g] \notin InChannel(leaves(held, g))
<1>1. /\ DOMAIN leaves(held, g) = DOMAIN held \ {g}
      /\ \A x \in DOMAIN held \ {g} : leaves(held, g)[x] = held[x]
  BY DEF leaves
<1>2. InChannel(held) = InChannel(leaves(held, g)) \cup {held[g]}
  BY <1>1 DEF InChannel
<1>3. ASSUME Distinct(held)
      PROVE  Distinct(leaves(held, g)) /\ held[g] \notin InChannel(leaves(held, g))
  BY <1>1, <1>3 DEF Distinct, InChannel
<1>4. leaves(held, g) \in [DOMAIN leaves(held, g) -> S]
  BY DEF leaves
<1> QED BY <1>2, <1>3, <1>4

-----------------------------------------------------------------------------
(* How a request moves: each move keeps every request in one place.         *)

\* A new request is sent.
LEMMA TransitSend ==
  ASSUME NEW S, NEW reqs, NEW held, NEW done, Transit(S, reqs, held, done),
         NEW x \in S, x \notin Under(reqs, held, done)
  PROVE  /\ Transit(S, Append(reqs, x), held, done)
         /\ Under(Append(reqs, x), held, done) = Under(reqs, held, done) \cup {x}
BY InAppend DEF Transit, Under

\* A goroutine takes the request at the front of the channel.
LEMMA TransitTake ==
  ASSUME NEW S, NEW reqs, NEW held, NEW done, Transit(S, reqs, held, done),
         reqs # <<>>, NEW g, g \notin DOMAIN held
  PROVE  /\ Transit(S, Tail(reqs), takes(held, g, Head(reqs)), done)
         /\ Under(Tail(reqs), takes(held, g, Head(reqs)), done) = Under(reqs, held, done)
<1> DEFINE x == Head(reqs)
           h2 == takes(held, g, x)
<1>1. /\ x \in S /\ Tail(reqs) \in Seq(S)
      /\ InChannel(reqs) = InChannel(Tail(reqs)) \cup {x}
      /\ Distinct(Tail(reqs)) /\ x \notin InChannel(Tail(reqs))
  BY InTail DEF Transit
<1>2. x \notin InChannel(held) /\ x \notin InChannel(done)
  BY <1>1 DEF Transit
<1> HIDE DEF x
<1>3. /\ h2 \in [DOMAIN h2 -> S]
      /\ InChannel(h2) = InChannel(held) \cup {x}
      /\ Distinct(h2)
  <2>1. held \in [DOMAIN held -> S] /\ Distinct(held)
    BY DEF Transit
  <2>2. x \in S
    BY <1>1
  <2>3. h2 \in [DOMAIN h2 -> S]
    BY <2>1, <2>2 DEF takes
  <2>4. InChannel(h2) = InChannel(held) \cup {x} /\ Distinct(h2)
    BY <1>2, <2>1, InTakes
  <2> QED BY <2>3, <2>4
<1> HIDE DEF h2
<1>4. Transit(S, Tail(reqs), h2, done)
  BY <1>1, <1>2, <1>3 DEF Transit
<1>5. Under(Tail(reqs), h2, done) = Under(reqs, held, done)
  BY <1>1, <1>3 DEF Under
<1> QED BY <1>4, <1>5 DEF x, h2

\* A goroutine answers the request in its hands.
LEMMA TransitReply ==
  ASSUME NEW S, NEW reqs, NEW held, NEW done, Transit(S, reqs, held, done),
         NEW g \in DOMAIN held
  PROVE  /\ held[g] \in S
         /\ Transit(S, reqs, leaves(held, g), Append(done, held[g]))
         /\ Under(reqs, leaves(held, g), Append(done, held[g])) = Under(reqs, held, done)
<1> DEFINE x == held[g]
           h2 == leaves(held, g)
           d2 == Append(done, x)
<1>1. /\ x \in S /\ h2 \in [DOMAIN h2 -> S]
      /\ InChannel(held) = InChannel(h2) \cup {x}
      /\ Distinct(h2) /\ x \notin InChannel(h2)
  BY InLeaves DEF Transit
<1>2. x \notin InChannel(reqs) /\ x \notin InChannel(done)
  BY <1>1 DEF Transit
<1>3. d2 \in Seq(S) /\ InChannel(d2) = InChannel(done) \cup {x} /\ Distinct(d2)
  BY <1>1, <1>2, InAppend DEF Transit
<1> HIDE DEF x, h2, d2
<1>4. Transit(S, reqs, h2, d2)
  BY <1>1, <1>2, <1>3 DEF Transit
<1>5. Under(reqs, h2, d2) = Under(reqs, held, done)
  BY <1>1, <1>3 DEF Under
<1> QED BY <1>1, <1>4, <1>5 DEF x, h2, d2

\* A goroutine puts the request in its hands back.
LEMMA TransitRequeue ==
  ASSUME NEW S, NEW reqs, NEW held, NEW done, Transit(S, reqs, held, done),
         NEW g \in DOMAIN held
  PROVE  /\ Transit(S, Append(reqs, held[g]), leaves(held, g), done)
         /\ Under(Append(reqs, held[g]), leaves(held, g), done) = Under(reqs, held, done)
<1> DEFINE x == held[g]
           h2 == leaves(held, g)
           q2 == Append(reqs, x)
<1>1. /\ x \in S /\ h2 \in [DOMAIN h2 -> S]
      /\ InChannel(held) = InChannel(h2) \cup {x}
      /\ Distinct(h2) /\ x \notin InChannel(h2)
  BY InLeaves DEF Transit
<1>2. x \notin InChannel(reqs) /\ x \notin InChannel(done)
  BY <1>1 DEF Transit
<1>3. q2 \in Seq(S) /\ InChannel(q2) = InChannel(reqs) \cup {x} /\ Distinct(q2)
  BY <1>1, <1>2, InAppend DEF Transit
<1> HIDE DEF x, h2, q2
<1>4. Transit(S, q2, h2, done)
  BY <1>1, <1>2, <1>3 DEF Transit
<1>5. Under(q2, h2, done) = Under(reqs, held, done)
  BY <1>1, <1>3 DEF Under
<1> QED BY <1>4, <1>5 DEF x, h2, q2

\* recvWork receives an answer: its request is nowhere any more.
LEMMA TransitReceive ==
  ASSUME NEW S, NEW reqs, NEW held, NEW done, Transit(S, reqs, held, done),
         done # <<>>
  PROVE  /\ Transit(S, reqs, held, Tail(done))
         /\ Head(done) \in Under(reqs, held, done)
         /\ Under(reqs, held, Tail(done)) = Under(reqs, held, done) \ {Head(done)}
<1> DEFINE x == Head(done)
           d2 == Tail(done)
<1>1. /\ x \in S /\ d2 \in Seq(S)
      /\ InChannel(done) = InChannel(d2) \cup {x}
      /\ Distinct(d2) /\ x \notin InChannel(d2)
  BY InTail DEF Transit
<1>2. x \notin InChannel(reqs) /\ x \notin InChannel(held)
  BY <1>1 DEF Transit
<1> HIDE DEF x, d2
<1>3. Transit(S, reqs, held, d2)
  BY <1>1 DEF Transit
<1>4. x \in Under(reqs, held, done) /\ Under(reqs, held, d2) = Under(reqs, held, done) \ {x}
  BY <1>1, <1>2 DEF Under
<1> QED BY <1>3, <1>4 DEF x, d2

\* The requests that a channel of responses answers, when one is sent.
LEMMA AnsweredAppend ==
  ASSUME NEW R, NEW s \in Seq(R), NEW m \in R
  PROVE  /\ [i \in DOMAIN Append(s, m) |-> Append(s, m)[i].addr]
              = Append([i \in DOMAIN s |-> s[i].addr], m.addr)
         /\ [i \in DOMAIN Append(s, m) |-> Append(s, m)[i].req]
              = Append([i \in DOMAIN s |-> s[i].req], m.req)
OBVIOUS

\* The same when one is received.
LEMMA AnsweredTail ==
  ASSUME NEW R, NEW s \in Seq(R), s # <<>>
  PROVE  /\ [i \in DOMAIN Tail(s) |-> Tail(s)[i].addr]
              = Tail([i \in DOMAIN s |-> s[i].addr])
         /\ [i \in DOMAIN s |-> s[i].addr] # <<>>
         /\ Head(s).addr = Head([i \in DOMAIN s |-> s[i].addr])
         /\ [i \in DOMAIN Tail(s) |-> Tail(s)[i].req]
              = Tail([i \in DOMAIN s |-> s[i].req])
         /\ [i \in DOMAIN s |-> s[i].req] # <<>>
         /\ Head(s).req = Head([i \in DOMAIN s |-> s[i].req])
OBVIOUS

\* The requests that responses answer, as a set.
LEMMA AnsweredIn ==
  ASSUME NEW s
  PROVE  /\ InChannel([i \in DOMAIN s |-> s[i].addr]) = {m.addr : m \in InChannel(s)}
         /\ InChannel([i \in DOMAIN s |-> s[i].req]) = {m.req : m \in InChannel(s)}
BY DEF InChannel

-----------------------------------------------------------------------------
(* Accounter, in the state that a state of Delivery stands for.             *)

FetchP == INSTANCE AccounterProofs WITH
            singleAddress <- FALSE,
            transactions  <- DOMAIN transactions,
            recvPC        <- fetchPC,
            seenTxCount   <- fetchSeen

\* The same notions of a finite set and of its size.
LEMMA SameSizes ==
  /\ \A S : FetchP!IsFiniteSet(S) <=> IsFiniteSet(S)
  /\ \A S : FetchP!Cardinality(S) = Cardinality(S)
<1>1. \A S : FetchP!IsFiniteSet(S) <=> IsFiniteSet(S)
  BY DEF FetchP!IsFiniteSet, IsFiniteSet
<1>2. \A S : FetchP!Cardinality(S) = Cardinality(S)
  BY DEF FetchP!Cardinality, Cardinality
<1> QED BY <1>1, <1>2

\* What is assumed of the accounter holds of it here, and no sum wraps around.
LEMMA FetchAssumptions ==
  FetchP!SizesAssumption /\ FetchP!ChainAssumption /\ FetchP!NoWrap
<1>1. FetchP!Address = Address
  BY DEF FetchP!Address, FetchP!Changes, Address, Changes
<1>2. FetchP!SizesAssumption /\ FetchP!NoWrap
  BY PipelineAssumption DEF FetchP!SizesAssumption, FetchP!NoWrap
<1>3. FetchP!ChainAssumption
  BY <1>1, SameSizes, PipelineAssumption DEF FetchP!ChainAssumption
<1> QED BY <1>2, <1>3

\* The two modules mean the same by these.
LEMMA SameTerms ==
  /\ FetchP!Changes = Changes
  /\ FetchP!Address = Address
  /\ \A a : FetchP!Answers(a) = Answers(a)
  /\ \A r : FetchP!Derive(r) = r
  /\ \A n \in Nat : n < Word => FetchP!U32(n) = n
  /\ \A i : FetchP!DerivePanics(i) <=> i >= HardenedKeyStart
BY PipelineAssumption
DEF FetchP!Changes, Changes, FetchP!Address, Address, FetchP!Answers, Answers,
    FetchP!Derive, FetchP!U32, FetchP!DerivePanics

\* What is pending is what is under way, before and after a step.
LEMMA PendingIs ==
  /\ addrPending = addrUnder
  /\ txPending = {<<q.from, q.tx>> : q \in txUnder} \cup ({resp} \X todo)
  /\ addrPending' = addrUnder'
  /\ txPending' = {<<q.from, q.tx>> : q \in txUnder'} \cup ({resp'} \X todo')
BY AnsweredIn
DEF addrPending, addrPendingWith, addrUnder, addrAnswered,
    txPending, txPendingWith, txUnder, txAnswered, Under

\* All that is known of a state: Accounter's invariant and this module's.
Ready ==
  /\ FetchP!TypeInv /\ FetchP!Inv1 /\ FetchP!ScanInv /\ FetchP!AnswersInv
  /\ IInv

\* What the proofs below need to know of the types.
LEMMA ReadyTypes ==
  ASSUME Ready
  PROVE  /\ indexes \in [Changes -> Nat] /\ change \in Changes /\ lastAddr \in Nat
         /\ lastAddresses \in [Changes -> Nat]
         /\ \A c \in Changes : lastAddresses[c] <= MaxUsed + Lookahead
         /\ lastAddr <= lastAddresses[change]
         /\ derivedAddrCount \in Nat /\ processedAddrCount \in Nat
         /\ processedTxCount \in Nat
         /\ resp \in Address /\ history \in [Address -> SUBSET Tx]
         /\ IsFiniteSet(todo) /\ Cardinality(todo) \in Nat
         /\ addrUnder \subseteq FetchP!Requested
         /\ \A q \in txPending : q[1] \in FetchP!Requested \ addrUnder
<1>1. IsFiniteSet(todo)
  BY PipelineAssumption, FS_Subset DEF Ready, IInv, TodoInv
<1>2. Cardinality(todo) \in Nat
  BY <1>1, FS_CardinalityType
<1>3. /\ indexes \in [Changes -> Nat] /\ change \in Changes /\ lastAddr \in Nat
      /\ lastAddresses \in [Changes -> Nat]
      /\ derivedAddrCount \in Nat /\ processedAddrCount \in Nat
      /\ processedTxCount \in Nat
      /\ resp \in Address /\ history \in [Address -> SUBSET Tx]
  BY SameTerms DEF Ready, FetchP!TypeInv, FetchP!TypeOK
<1>4. lastAddr <= lastAddresses[change]
  BY DEF Ready, FetchP!Inv1, FetchP!SendInRange
<1>5. \A c \in Changes : lastAddresses[c] <= MaxUsed + Lookahead
  <2>1. \A c \in FetchP!Changes : lastAddresses[c] \in Lookahead .. MaxUsed + Lookahead
    BY DEF Ready, FetchP!Inv1, FetchP!RangeBounded
  <2>2. \A c \in Changes : lastAddresses[c] \in Lookahead .. MaxUsed + Lookahead
    BY <2>1, SameTerms
  <2> QED BY <2>2, PipelineAssumption
<1>6. /\ addrUnder \subseteq FetchP!Requested
      /\ \A q \in txPending : q[1] \in FetchP!Requested \ addrUnder
  BY PendingIs DEF Ready, FetchP!Inv1, FetchP!NothingLost
<1> QED BY <1>1, <1>2, <1>3, <1>4, <1>5, <1>6

-----------------------------------------------------------------------------
(* The steps of sendWork.                                                  *)

\* A step that leaves requests and answers alone preserves the invariant.
LEMMA NothingMoves ==
  ASSUME IInv, sendPC' # "panic",
         UNCHANGED <<history, recvPC, resp, todo, seenTxCount, channels, addrHeld, txHeld>>
  PROVE  /\ IInv' /\ addrUnder' = addrUnder /\ txUnder' = txUnder
         /\ addrPending' = addrPending /\ txPending' = txPending
<1>1. addrUnder' = addrUnder /\ txUnder' = txUnder
  BY DEF addrUnder, txUnder, addrAnswered, txAnswered, channels
<1>2. TransitInv'
  BY DEF IInv, TransitInv, addrAnswered, txAnswered, channels
<1>3. ResponsesInv'
  BY DEF IInv, ResponsesInv, Answers, channels
<1>4. TodoInv'
  BY <1>1 DEF IInv, TodoInv
<1> QED BY <1>1, <1>2, <1>3, <1>4, PendingIs DEF IInv, SendInv

\* sendWork goes on to the other change value.
LEMMA NextChangeStep ==
  ASSUME Ready, NextChange, UNCHANGED <<addrHeld, txHeld>>
  PROVE  IInv' /\ FetchP!NextChange
<1>1. IInv' /\ addrPending' = addrPending /\ txPending' = txPending
  BY NothingMoves DEF Ready, IInv, SendInv, NextChange, recvVars
<1> QED BY <1>1 DEF NextChange, recvVars, FetchP!NextChange, FetchP!recvVars,
                    fetchSeen, fetchPC

\* sendWork derives an address: it is within the range, which ends before the
\* indexes that cannot be derived.
LEMMA DeriveAddrStep ==
  ASSUME Ready, DeriveAddr, UNCHANGED <<addrHeld, txHeld>>
  PROVE  IInv' /\ FetchP!DeriveAddr
<1>1. IInv' /\ addrPending' = addrPending /\ txPending' = txPending
  BY NothingMoves DEF Ready, IInv, SendInv, DeriveAddr, recvVars
<1>2. ~(indexes[change] >= HardenedKeyStart)
  BY ReadyTypes, PipelineAssumption DEF DeriveAddr
<1>3. ~FetchP!DerivePanics(indexes[change])
  BY <1>2, SameTerms
<1> QED BY <1>1, <1>3 DEF DeriveAddr, recvVars, FetchP!DeriveAddr, FetchP!recvVars,
                          fetchSeen, fetchPC

\* sendWork requests an address, which has not been requested before.
LEMMA RequestAddrStep ==
  ASSUME Ready, RequestAddr, UNCHANGED <<addrHeld, txHeld>>
  PROVE  IInv' /\ FetchP!RequestAddr
<1> DEFINE x == <<change, indexes[change]>>
<1>1. x \in Address
  <2>1. ~FetchP!DerivePanics(indexes[change])
    BY DEF RequestAddr, Ready, FetchP!TypeInv, FetchP!Derivable
  <2> QED BY <2>1, SameTerms, ReadyTypes, PipelineAssumption DEF Address
<1>2. x \notin addrUnder
  BY ReadyTypes, SameTerms DEF FetchP!Requested
<1>3. addrAnswered' = addrAnswered /\ txUnder' = txUnder
  BY DEF RequestAddr, addrAnswered, txUnder, txAnswered
<1>4. /\ Transit(Address, Append(addrRequests, x), addrHeld, addrAnswered)
      /\ Under(Append(addrRequests, x), addrHeld, addrAnswered) = addrUnder \cup {x}
  BY <1>1, <1>2, TransitSend DEF Ready, IInv, TransitInv, addrUnder
<1>5. addrRequests' = Append(addrRequests, x)
  BY DEF RequestAddr
<1>6. TransitInv'
  BY <1>3, <1>4, <1>5 DEF RequestAddr, Ready, IInv, TransitInv, txAnswered
<1>7. addrUnder' = addrUnder \cup {x}
  BY <1>3, <1>4, <1>5 DEF addrUnder
<1>8. ResponsesInv' /\ TodoInv' /\ SendInv'
  BY <1>3 DEF RequestAddr, recvVars, Ready, IInv, ResponsesInv, TodoInv, SendInv, Answers
<1>9. addrPending' = addrPending \cup {x} /\ txPending' = txPending
  BY <1>3, <1>7, PendingIs DEF RequestAddr, recvVars
<1> QED BY <1>6, <1>8, <1>9
        DEF RequestAddr, recvVars, IInv, FetchP!RequestAddr, FetchP!recvVars,
            fetchSeen, fetchPC

-----------------------------------------------------------------------------
(* The steps of recvWork.                                                  *)

\* recvWork takes an address answer: it has not requested anything on account of
\* that address yet, and does so for the transactions it does not know.
LEMMA RecvAddrStep ==
  ASSUME Ready, RecvAddr, UNCHANGED <<addrHeld, txHeld>>
  PROVE  IInv' /\ FetchP!RecvSomeAddr
<1> DEFINE a == Head(addrResponses).addr
           h == Head(addrResponses).txHashes
           new == h \ DOMAIN transactions
<1>1. /\ a \in Address /\ h \subseteq Tx /\ h \in Answers(a)
      /\ Tail(addrResponses) \in Seq([addr : Address, txHashes : SUBSET Tx])
      /\ InChannel(Tail(addrResponses)) \subseteq InChannel(addrResponses)
  <2> DEFINE R == [addr : Address, txHashes : SUBSET Tx]
  <2>1. addrResponses \in Seq(R) /\ addrResponses # <<>>
    BY DEF RecvAddr, Ready, IInv, ResponsesInv
  <2>2. /\ Head(addrResponses) \in R /\ Tail(addrResponses) \in Seq(R)
        /\ InChannel(addrResponses)
             = InChannel(Tail(addrResponses)) \cup {Head(addrResponses)}
    <3> HIDE DEF R
    <3> QED BY <2>1, InTail
  <2>3. h \in Answers(a)
    BY <2>2 DEF Ready, IInv, ResponsesInv
  <2> QED BY <2>2, <2>3
<1>2. todo = {} /\ Cardinality(todo) = 0
  BY FS_EmptySet DEF RecvAddr, Ready, IInv, TodoInv
<1>3. addrAnswered # <<>> /\ a = Head(addrAnswered) /\ addrAnswered' = Tail(addrAnswered)
  BY AnsweredTail DEF RecvAddr, addrAnswered, Ready, IInv, ResponsesInv
<1>4. /\ Transit(Address, addrRequests, addrHeld, Tail(addrAnswered))
      /\ a \in addrUnder
      /\ Under(addrRequests, addrHeld, Tail(addrAnswered)) = addrUnder \ {a}
  BY <1>3, TransitReceive DEF Ready, IInv, TransitInv, addrUnder
<1>5. addrUnder' = addrUnder \ {a} /\ txUnder' = txUnder
  BY <1>3, <1>4 DEF RecvAddr, addrUnder, txUnder, txAnswered
<1>6. TransitInv'
  BY <1>3, <1>4 DEF RecvAddr, Ready, IInv, TransitInv, txAnswered
<1>7. ResponsesInv'
  BY <1>1 DEF RecvAddr, Ready, IInv, ResponsesInv, Answers
<1>8. /\ resp' = a /\ todo' = new
      /\ recvPC' = IF h = {} THEN "select" ELSE "requestTxs"
  BY DEF RecvAddr
<1>9. TodoInv' /\ SendInv'
  <2>1. ASSUME NEW t \in new PROVE [from |-> a, tx |-> t] \notin txUnder
    <3>1. SUFFICES ASSUME [from |-> a, tx |-> t] \in txUnder PROVE FALSE
      OBVIOUS
    <3>2. <<a, t>> \in txPending
      BY <3>1, PendingIs
    <3> QED BY <1>4, <3>2, ReadyTypes
  <2>2. new \subseteq Tx /\ (new # {} => recvPC' = "requestTxs")
    BY <1>1, <1>8
  <2> HIDE DEF new, a, h
  <2>3. TodoInv'
    BY <1>5, <1>8, <2>1, <2>2 DEF TodoInv
  <2>4. SendInv'
    BY DEF Ready, IInv, SendInv, RecvAddr, sendVars
  <2> QED BY <2>3, <2>4
<1>10. /\ addrPending' = addrPending \ {a} /\ a \in addrPending
       /\ txPending' = txPending \cup ({a} \X new)
  BY <1>2, <1>4, <1>5, <1>8, PendingIs
<1>11. fetchSeen' = fetchSeen + Cardinality(new)
  <2>1. IsFiniteSet(new) /\ Cardinality(new) \in Nat
    BY <1>1, PipelineAssumption, FS_Subset, FS_CardinalityType
  <2>2. fetchSeen = seenTxCount + 0 /\ fetchSeen' = seenTxCount + Cardinality(new)
    BY <1>2, <1>8 DEF fetchSeen, RecvAddr
  <2> QED BY <2>1, <2>2 DEF Ready, IInv, SendInv
<1>12. fetchPC = "select" /\ fetchPC' = FetchP!AfterAnswer(h)
  BY <1>8 DEF RecvAddr, fetchPC, FetchP!AfterAnswer
<1>13. sendPC # "panic"
  BY DEF Ready, IInv, SendInv
<1>14. FetchP!RecvAddr(a, h)
  BY <1>8, <1>10, <1>11, <1>12, <1>13, SameTerms, SameSizes
  DEF RecvAddr, sendVars, FetchP!RecvAddr, FetchP!sendVars
<1> HIDE DEF a, h
<1>15. FetchP!RecvSomeAddr
  BY <1>1, <1>10, <1>14, SameTerms DEF FetchP!RecvSomeAddr
<1> QED BY <1>6, <1>7, <1>9, <1>15 DEF IInv

\* recvWork requests a transaction: it was pending since the answer was taken.
LEMMA RequestTxStep ==
  ASSUME Ready, RequestTx, UNCHANGED <<addrHeld, txHeld>>
  PROVE  IInv' /\ UNCHANGED FetchP!vars
<1>1. PICK t \in todo : /\ txRequests' = Append(txRequests, [from |-> resp, tx |-> t])
                       /\ todo' = todo \ {t}
  BY DEF RequestTx
<1> DEFINE x == [from |-> resp, tx |-> t]
<1>2. x \in TxReq /\ x \notin txUnder
  BY ReadyTypes DEF Ready, IInv, TodoInv, TxReq
<1>3. /\ Transit(TxReq, Append(txRequests, x), txHeld, txAnswered)
      /\ Under(Append(txRequests, x), txHeld, txAnswered) = txUnder \cup {x}
  BY <1>2, TransitSend DEF Ready, IInv, TransitInv, txUnder
<1>4. txAnswered' = txAnswered /\ addrUnder' = addrUnder
  BY DEF RequestTx, txAnswered, addrUnder, addrAnswered
<1>5. TransitInv'
  BY <1>1, <1>3, <1>4 DEF RequestTx, Ready, IInv, TransitInv, addrAnswered
<1>6. txUnder' = txUnder \cup {x}
  BY <1>1, <1>3, <1>4 DEF txUnder
<1>7. ResponsesInv' /\ SendInv'
  BY DEF RequestTx, sendVars, Ready, IInv, ResponsesInv, SendInv, Answers
<1>8. TodoInv'
  <2>1. \A u \in todo' : [from |-> resp, tx |-> u] \notin txUnder \cup {x}
    BY <1>1 DEF Ready, IInv, TodoInv
  <2> HIDE DEF x
  <2> QED BY <1>1, <1>6, <2>1 DEF RequestTx, Ready, IInv, TodoInv
<1>9. resp' = resp /\ txPending' = txPending /\ addrPending' = addrPending
  <2>1. resp' = resp
    BY DEF RequestTx
  <2>2. {<<q.from, q.tx>> : q \in txUnder'}
          = {<<q.from, q.tx>> : q \in txUnder} \cup {<<resp, t>>}
    <3>1. x.from = resp /\ x.tx = t
      OBVIOUS
    <3> HIDE DEF x
    <3> QED BY <1>6, <3>1
  <2>3. {resp} \X todo = ({resp} \X todo') \cup {<<resp, t>>}
    BY <1>1
  <2> QED BY <1>4, <2>1, <2>2, <2>3, PendingIs
<1>10. fetchSeen' = fetchSeen
  <2>1. Cardinality(todo') = Cardinality(todo) - 1
    BY <1>1, ReadyTypes, FS_RemoveElement
  <2> QED BY <2>1, ReadyTypes DEF fetchSeen, RequestTx, Ready, IInv, SendInv
<1> QED BY <1>5, <1>7, <1>8, <1>9, <1>10
        DEF IInv, RequestTx, sendVars, fetchPC, FetchP!vars, FetchP!sendVars, FetchP!recvVars

\* The loop over the answer's transactions is over: the same to Accounter.
LEMMA RequestedTxsStep ==
  ASSUME Ready, RequestedTxs, UNCHANGED <<addrHeld, txHeld>>
  PROVE  IInv' /\ UNCHANGED FetchP!vars
<1>1. addrUnder' = addrUnder /\ txUnder' = txUnder
  BY DEF RequestedTxs, channels, addrUnder, txUnder, addrAnswered, txAnswered
<1>2. TransitInv' /\ ResponsesInv'
  BY DEF RequestedTxs, channels, Ready, IInv, TransitInv, ResponsesInv, Answers,
         addrAnswered, txAnswered
<1>3. TodoInv' /\ SendInv'
  BY <1>1 DEF RequestedTxs, sendVars, Ready, IInv, TodoInv, SendInv
<1>4. addrPending' = addrPending /\ txPending' = txPending
  BY <1>1, PendingIs DEF RequestedTxs
<1> QED BY <1>2, <1>3, <1>4
        DEF RequestedTxs, sendVars, IInv, fetchPC, fetchSeen,
            FetchP!vars, FetchP!sendVars, FetchP!recvVars

\* The range is extended past an address in use: the sum does not wrap around.
LEMMA ExtendRangeStep ==
  ASSUME Ready, ExtendRange, UNCHANGED <<addrHeld, txHeld>>
  PROVE  IInv' /\ FetchP!ExtendRange
<1>1. addrUnder' = addrUnder /\ txUnder' = txUnder
  BY DEF ExtendRange, channels, addrUnder, txUnder, addrAnswered, txAnswered
<1>2. TransitInv' /\ ResponsesInv'
  BY DEF ExtendRange, channels, Ready, IInv, TransitInv, ResponsesInv, Answers,
         addrAnswered, txAnswered
<1>3. TodoInv' /\ SendInv'
  BY <1>1 DEF ExtendRange, sendVars, Ready, IInv, TodoInv, SendInv
<1>4. addrPending' = addrPending /\ txPending' = txPending
  BY <1>1, PendingIs DEF ExtendRange
<1>5. resp[1] \in Changes /\ resp[2] \in Nat /\ resp[2] < MaxUsed
  <2>1. resp[1] \in Changes /\ resp[2] \in Nat /\ resp \in Address
    BY ReadyTypes, PipelineAssumption DEF Address
  <2>2. fetchPC = "extend"
    BY DEF ExtendRange, fetchPC
  <2>3. resp \in DOMAIN addresses /\ addresses[resp] # {}
    BY <2>2 DEF Ready, FetchP!Inv1, FetchP!RangeBounded
  <2>4. addresses[resp] \in Answers(resp)
    BY <2>3, SameTerms DEF Ready, FetchP!Inv1, FetchP!NothingLost
  <2>5. history[resp] # {}
    BY <2>3, <2>4 DEF Answers
  <2>6. resp[2] >= MaxUsed => history[resp] = {}
    BY <2>1, SameTerms DEF Ready, FetchP!Inv1, FetchP!RangeBounded
  <2> QED BY <2>1, <2>5, <2>6, PipelineAssumption
<1>6. FetchP!Reach(resp[2]) = resp[2] + Lookahead
  BY <1>5, SameTerms, PipelineAssumption DEF FetchP!Reach
<1>7. FetchP!ExtendRange
  BY <1>4, <1>6 DEF ExtendRange, sendVars, Ready, IInv, SendInv, fetchPC, fetchSeen,
                    FetchP!ExtendRange, FetchP!sendVars, FetchP!Max2
<1> QED BY <1>2, <1>3, <1>7 DEF IInv

\* recvWork takes a transaction.
LEMMA RecvTxStep ==
  ASSUME Ready, RecvTx, UNCHANGED <<addrHeld, txHeld>>
  PROVE  IInv' /\ FetchP!RecvSomeTx
<1> DEFINE R == [req : TxReq, height : Heights]
           q == Head(txResponses).req
           p == <<q.from, q.tx>>
<1>1. /\ txResponses \in Seq(R) /\ txResponses # <<>>
      /\ Head(txResponses) \in R /\ Tail(txResponses) \in Seq(R)
  <2>1. txResponses \in Seq(R) /\ txResponses # <<>>
    BY DEF RecvTx, Ready, IInv, ResponsesInv
  <2> HIDE DEF R
  <2> QED BY <2>1, InTail
<1>2. todo = {} /\ fetchPC = "select" /\ fetchPC' = "select"
  BY DEF RecvTx, fetchPC, Ready, IInv, TodoInv
<1>3. txAnswered # <<>> /\ q = Head(txAnswered) /\ txAnswered' = Tail(txAnswered)
  <2> HIDE DEF R
  <2> QED BY <1>1, AnsweredTail DEF RecvTx, txAnswered
<1>4. /\ Transit(TxReq, txRequests, txHeld, Tail(txAnswered))
      /\ q \in txUnder
      /\ Under(txRequests, txHeld, Tail(txAnswered)) = txUnder \ {q}
  BY <1>3, TransitReceive DEF Ready, IInv, TransitInv, txUnder
<1>5. txUnder' = txUnder \ {q} /\ addrUnder' = addrUnder
  BY <1>3, <1>4 DEF RecvTx, addrUnder, txUnder, addrAnswered
<1>6. TransitInv'
  BY <1>3, <1>4 DEF RecvTx, Ready, IInv, TransitInv, addrAnswered
<1>7. ResponsesInv'
  BY <1>1 DEF RecvTx, Ready, IInv, ResponsesInv, Answers
<1>8. TodoInv' /\ SendInv'
  BY <1>2 DEF RecvTx, sendVars, Ready, IInv, TodoInv, SendInv
<1>9. txPending' = txPending \ {p} /\ p \in txPending /\ addrPending' = addrPending
  <2>1. txUnder \subseteq TxReq
    BY DEF Ready, IInv, TransitInv, Transit, txUnder, Under, InChannel
  <2>2. todo' = {} /\ resp' = resp
    BY <1>2 DEF RecvTx
  <2>3. \A x \in txUnder : <<x.from, x.tx>> = p => x = q
    BY <1>4, <2>1 DEF TxReq
  <2> HIDE DEF q
  <2> QED BY <1>2, <1>4, <1>5, <2>2, <2>3, PendingIs
<1>10. (DOMAIN transactions)' = DOMAIN transactions \cup {p[2]}
  BY DEF RecvTx
<1>11. FetchP!RecvTx(p)
  BY <1>2, <1>9, <1>10 DEF RecvTx, sendVars, Ready, IInv, SendInv, fetchSeen,
                           FetchP!RecvTx, FetchP!sendVars
<1>12. FetchP!RecvSomeTx
  BY <1>9, <1>11 DEF FetchP!RecvSomeTx
<1> QED BY <1>6, <1>7, <1>8, <1>12 DEF IInv

\* complete() means the same: the sum of the range does not wrap around.
LEMMA TickStep ==
  ASSUME Ready, Tick, UNCHANGED <<addrHeld, txHeld>>
  PROVE  IInv' /\ FetchP!Tick
<1>1. addrUnder' = addrUnder /\ txUnder' = txUnder
  BY DEF Tick, channels, addrUnder, txUnder, addrAnswered, txAnswered
<1>2. TransitInv' /\ ResponsesInv'
  BY DEF Tick, channels, Ready, IInv, TransitInv, ResponsesInv, Answers,
         addrAnswered, txAnswered
<1>3. TodoInv' /\ SendInv'
  BY <1>1 DEF Tick, sendVars, Ready, IInv, TodoInv, SendInv
<1>4. addrPending' = addrPending /\ txPending' = txPending
  BY <1>1, PendingIs DEF Tick
<1>5. fetchSeen = seenTxCount
  BY FS_EmptySet DEF Tick, Ready, IInv, TodoInv, SendInv, fetchSeen
<1>6. FetchP!complete
  <2> DEFINE n == lastAddresses[0] + lastAddresses[1]
  <2>1. n \in Nat /\ n < Word
    BY ReadyTypes, PipelineAssumption DEF Changes
  <2>2. FetchP!U32(n) = n
    BY <2>1, SameTerms
  <2> QED BY <1>5, <2>2 DEF Tick, complete, FetchP!complete
<1>7. FetchP!Tick
  BY <1>4, <1>6 DEF Tick, sendVars, Ready, IInv, SendInv, fetchPC, fetchSeen,
                    FetchP!Tick, FetchP!sendVars
<1> QED BY <1>2, <1>3, <1>7 DEF IInv

-----------------------------------------------------------------------------
(* The steps of a backend's goroutine.                                     *)

\* A step that keeps every request under way is nothing to Accounter.
LEMMA HandsMove ==
  ASSUME Ready, UNCHANGED <<history, sendVars, recvVars>>,
         TransitInv', ResponsesInv', addrUnder' = addrUnder, txUnder' = txUnder
  PROVE  IInv' /\ UNCHANGED FetchP!vars
<1>1. TodoInv' /\ SendInv'
  BY DEF sendVars, recvVars, Ready, IInv, TodoInv, SendInv
<1>2. addrPending' = addrPending /\ txPending' = txPending
  BY PendingIs DEF recvVars
<1> QED BY <1>1, <1>2 DEF sendVars, recvVars, IInv, fetchPC, fetchSeen,
                          FetchP!vars, FetchP!sendVars, FetchP!recvVars

\* A goroutine takes, answers or puts back an address request.
LEMMA AddrStep ==
  ASSUME Ready, NEW g, TakeAddr(g) \/ ReplyAddr(g) \/ RequeueAddr(g)
  PROVE  IInv' /\ UNCHANGED FetchP!vars
<1> USE DEF Ready, IInv
<1>1. Transit(Address, addrRequests, addrHeld, addrAnswered)
  BY DEF TransitInv
<1>2. CASE TakeAddr(g)
  <2>1. addrAnswered' = addrAnswered /\ txUnder' = txUnder
    BY <1>2 DEF TakeAddr, addrAnswered, txUnder, txAnswered
  <2>2. /\ Transit(Address, addrRequests', addrHeld', addrAnswered')
        /\ Under(addrRequests', addrHeld', addrAnswered') = addrUnder
    BY <1>1, <1>2, <2>1, TransitTake DEF TakeAddr, addrUnder
  <2>3. TransitInv' /\ ResponsesInv'
    BY <1>2, <2>2 DEF TakeAddr, TransitInv, txAnswered, ResponsesInv, Answers
  <2> QED BY <1>2, <2>1, <2>2, <2>3, HandsMove DEF TakeAddr, addrUnder
<1>3. CASE ReplyAddr(g)
  <2> DEFINE R == [addr : Address, txHashes : SUBSET Tx]
             x == addrHeld[g]
  <2>1. PICK h \in Answers(x) :
          addrResponses' = Append(addrResponses, [addr |-> x, txHashes |-> h])
    BY <1>3 DEF ReplyAddr
  <2> DEFINE m == [addr |-> x, txHashes |-> h]
  <2>2. addrHeld' = leaves(addrHeld, g) /\ g \in DOMAIN addrHeld
    BY <1>3 DEF ReplyAddr
  <2>3. /\ x \in Address
        /\ Transit(Address, addrRequests, addrHeld', Append(addrAnswered, x))
        /\ Under(addrRequests, addrHeld', Append(addrAnswered, x)) = addrUnder
    BY <1>1, <2>2, TransitReply DEF addrUnder
  <2>4. m \in R /\ m.addr = x /\ m.txHashes \in Answers(m.addr)
    <3>1. h \subseteq Tx
      BY <2>3, ReadyTypes DEF Answers
    <3> QED BY <2>3, <3>1
  <2>5. addrResponses \in Seq(R)
    BY DEF ResponsesInv
  <2>6. addrAnswered' = Append(addrAnswered, x)
    <3> HIDE DEF R, m, x
    <3>1. addrResponses' = Append(addrResponses, m)
      BY <2>1 DEF m
    <3> QED BY <2>4, <2>5, <3>1, AnsweredAppend DEF addrAnswered
  <2>7. txUnder' = txUnder /\ addrRequests' = addrRequests
    BY <1>3 DEF ReplyAddr, txUnder, txAnswered
  <2>8. TransitInv'
    BY <1>3, <2>3, <2>6, <2>7 DEF ReplyAddr, TransitInv, txAnswered
  <2>9. ResponsesInv'
    <3>1. /\ addrResponses' \in Seq(R)
          /\ InChannel(addrResponses') = InChannel(addrResponses) \cup {m}
      <4> HIDE DEF R, m
      <4> QED BY <2>1, <2>4, <2>5, InAppend DEF m
    <3>2. \A y \in InChannel(addrResponses') : y.txHashes \in Answers(y.addr)
      <4> HIDE DEF m
      <4> QED BY <2>4, <3>1 DEF ResponsesInv
    <3> QED BY <1>3, <3>1, <3>2 DEF ReplyAddr, ResponsesInv, Answers
  <2>10. addrUnder' = addrUnder
    BY <2>3, <2>6, <2>7 DEF addrUnder
  <2> QED BY <1>3, <2>7, <2>8, <2>9, <2>10, HandsMove DEF ReplyAddr
<1>4. CASE RequeueAddr(g)
  <2>1. addrAnswered' = addrAnswered /\ txUnder' = txUnder
    BY <1>4 DEF RequeueAddr, addrAnswered, txUnder, txAnswered
  <2>2. /\ Transit(Address, addrRequests', addrHeld', addrAnswered')
        /\ Under(addrRequests', addrHeld', addrAnswered') = addrUnder
    BY <1>1, <1>4, <2>1, TransitRequeue DEF RequeueAddr, addrUnder
  <2>3. TransitInv' /\ ResponsesInv'
    BY <1>4, <2>2 DEF RequeueAddr, TransitInv, txAnswered, ResponsesInv, Answers
  <2> QED BY <1>4, <2>1, <2>2, <2>3, HandsMove DEF RequeueAddr, addrUnder
<1> QED BY <1>2, <1>3, <1>4

\* A goroutine takes, answers or puts back a transaction request.
LEMMA TxStep ==
  ASSUME Ready, NEW g, TakeTx(g) \/ ReplyTx(g) \/ RequeueTx(g)
  PROVE  IInv' /\ UNCHANGED FetchP!vars
<1> USE DEF Ready, IInv
<1>1. Transit(TxReq, txRequests, txHeld, txAnswered)
  BY DEF TransitInv
<1>2. CASE TakeTx(g)
  <2>1. txAnswered' = txAnswered /\ addrUnder' = addrUnder
    BY <1>2 DEF TakeTx, txAnswered, addrUnder, addrAnswered
  <2>2. /\ Transit(TxReq, txRequests', txHeld', txAnswered')
        /\ Under(txRequests', txHeld', txAnswered') = txUnder
    BY <1>1, <1>2, <2>1, TransitTake DEF TakeTx, txUnder
  <2>3. TransitInv' /\ ResponsesInv'
    BY <1>2, <2>2 DEF TakeTx, TransitInv, addrAnswered, ResponsesInv, Answers
  <2> QED BY <1>2, <2>1, <2>2, <2>3, HandsMove DEF TakeTx, txUnder
<1>3. CASE ReplyTx(g)
  <2> DEFINE R == [req : TxReq, height : Heights]
             x == txHeld[g]
  <2>1. PICK n \in Heights :
          txResponses' = Append(txResponses, [req |-> x, height |-> n])
    BY <1>3 DEF ReplyTx
  <2> DEFINE m == [req |-> x, height |-> n]
  <2>2. txHeld' = leaves(txHeld, g) /\ g \in DOMAIN txHeld
    BY <1>3 DEF ReplyTx
  <2>3. /\ x \in TxReq
        /\ Transit(TxReq, txRequests, txHeld', Append(txAnswered, x))
        /\ Under(txRequests, txHeld', Append(txAnswered, x)) = txUnder
    BY <1>1, <2>2, TransitReply DEF txUnder
  <2>4. m \in R /\ m.req = x
    BY <2>3
  <2>5. txResponses \in Seq(R)
    BY DEF ResponsesInv
  <2> HIDE DEF R, m, x
  <2>6. txAnswered' = Append(txAnswered, x) /\ txResponses' \in Seq(R)
    <3>1. txResponses' = Append(txResponses, m)
      BY <2>1 DEF m
    <3>2. txResponses' \in Seq(R)
      BY <2>4, <2>5, <3>1, InAppend
    <3> QED BY <2>4, <2>5, <3>1, <3>2, AnsweredAppend DEF txAnswered
  <2>7. addrUnder' = addrUnder /\ txRequests' = txRequests
    BY <1>3 DEF ReplyTx, addrUnder, addrAnswered
  <2>8. TransitInv'
    BY <1>3, <2>3, <2>6, <2>7 DEF ReplyTx, TransitInv, addrAnswered
  <2>9. ResponsesInv'
    BY <1>3, <2>6 DEF ReplyTx, ResponsesInv, Answers, R
  <2>10. txUnder' = txUnder
    BY <2>3, <2>6, <2>7 DEF txUnder
  <2> QED BY <1>3, <2>7, <2>8, <2>9, <2>10, HandsMove DEF ReplyTx
<1>4. CASE RequeueTx(g)
  <2>1. txAnswered' = txAnswered /\ addrUnder' = addrUnder
    BY <1>4 DEF RequeueTx, txAnswered, addrUnder, addrAnswered
  <2>2. /\ Transit(TxReq, txRequests', txHeld', txAnswered')
        /\ Under(txRequests', txHeld', txAnswered') = txUnder
    BY <1>1, <1>4, <2>1, TransitRequeue DEF RequeueTx, txUnder
  <2>3. TransitInv' /\ ResponsesInv'
    BY <1>4, <2>2 DEF RequeueTx, TransitInv, addrAnswered, ResponsesInv, Answers
  <2> QED BY <1>4, <2>1, <2>2, <2>3, HandsMove DEF RequeueTx, txUnder
<1> QED BY <1>2, <1>3, <1>4

-----------------------------------------------------------------------------
(* Delivery implements Accounter.                                          *)

\* The initial state stands for Accounter's.
LEMMA DeliveryInit == Init => IInv /\ FetchP!Init
<1> SUFFICES ASSUME Init PROVE IInv /\ FetchP!Init
  OBVIOUS
<1> USE DEF Init, PipelineInit
<1>1. /\ InChannel(<<>>) = {} /\ InChannel(addrHeld) = {} /\ InChannel(txHeld) = {}
      /\ addrAnswered = <<>> /\ txAnswered = <<>>
  BY DEF InChannel, addrAnswered, txAnswered
<1>2. addrUnder = {} /\ txUnder = {}
  BY <1>1 DEF addrUnder, txUnder, Under
<1>3. TransitInv
  BY <1>1 DEF TransitInv, Transit, Distinct
<1>4. ResponsesInv
  BY <1>1 DEF ResponsesInv
<1>5. TodoInv /\ SendInv
  BY DEF TodoInv, SendInv
<1>6. addrPending = {} /\ txPending = {}
  BY <1>2, PendingIs
<1>7. fetchSeen = 0
  BY FS_EmptySet DEF fetchSeen
<1>8. FetchP!Init
  BY <1>6, <1>7, SameTerms DEF FetchP!Init, fetchPC
<1> QED BY <1>3, <1>4, <1>5, <1>8 DEF IInv

\* Every step stands for a step of Accounter, or for none.
LEMMA DeliveryStep ==
  ASSUME Ready, [Next]_vars
  PROVE  IInv' /\ [FetchP!Next]_FetchP!vars
<1>1. CASE accounter
  <2>1. UNCHANGED <<addrHeld, txHeld>>
    BY <1>1 DEF accounter
  <2>2. CASE NextChange
    BY <2>1, <2>2, NextChangeStep DEF FetchP!Next, FetchP!sendWork
  <2>3. CASE DeriveAddr
    BY <2>1, <2>3, DeriveAddrStep DEF FetchP!Next, FetchP!sendWork
  <2>4. CASE RequestAddr
    BY <2>1, <2>4, RequestAddrStep DEF FetchP!Next, FetchP!sendWork
  <2>5. CASE RecvAddr
    BY <2>1, <2>5, RecvAddrStep DEF FetchP!Next, FetchP!recvWork
  <2>6. CASE RequestTx
    BY <2>1, <2>6, RequestTxStep
  <2>7. CASE RequestedTxs
    BY <2>1, <2>7, RequestedTxsStep
  <2>8. CASE ExtendRange
    BY <2>1, <2>8, ExtendRangeStep DEF FetchP!Next, FetchP!recvWork
  <2>9. CASE RecvTx
    BY <2>1, <2>9, RecvTxStep DEF FetchP!Next, FetchP!recvWork
  <2>10. CASE Tick
    BY <2>1, <2>10, TickStep DEF FetchP!Next, FetchP!recvWork
  <2> QED BY <1>1, <2>2, <2>3, <2>4, <2>5, <2>6, <2>7, <2>8, <2>9, <2>10
          DEF accounter, sendWork, recvWork
<1>2. ASSUME NEW g \in Goroutine, processRequests(g)
      PROVE  IInv' /\ UNCHANGED FetchP!vars
  BY <1>2, AddrStep, TxStep DEF processRequests
<1>3. CASE UNCHANGED vars
  <2>1. addrUnder' = addrUnder /\ txUnder' = txUnder
    BY <1>3 DEF vars, pipelineVars, channels, addrUnder, txUnder, addrAnswered, txAnswered
  <2>2. TransitInv' /\ ResponsesInv'
    BY <1>3 DEF vars, pipelineVars, channels, Ready, IInv, TransitInv, ResponsesInv,
                Answers, addrAnswered, txAnswered
  <2> QED BY <1>3, <2>1, <2>2, HandsMove DEF vars, pipelineVars
<1> QED BY <1>1, <1>2, <1>3 DEF Next

\* The invariants of both modules hold to begin with.
LEMMA ReadyInit == Init => Ready
BY DeliveryInit, FetchAssumptions, FetchP!TypeInit, FetchP!InvInit, FetchP!ScanInit,
   FetchP!AnswersInit DEF Ready

\* A step of Accounter preserves its invariant.
LEMMA ReadyKept ==
  ASSUME Ready, IInv', [FetchP!Next]_FetchP!vars
  PROVE  Ready'
<1>1. FetchP!TypeInv'
  BY FetchAssumptions, FetchP!TypeStep DEF Ready
<1>2. FetchP!Inv1'
  BY <1>1, FetchAssumptions, FetchP!InvStep DEF Ready
<1>3. FetchP!ScanInv'
  BY <1>1, FetchAssumptions, FetchP!ScanStep DEF Ready
<1>4. FetchP!AnswersInv'
  BY <1>1, FetchAssumptions, FetchP!AnswersStep DEF Ready
<1> QED BY <1>1, <1>2, <1>3, <1>4 DEF Ready

\* Every step preserves them: Accounter's gives the steps here what they need to
\* preserve this module's, and these are then steps of Accounter.
LEMMA ReadyStep == Ready /\ [Next]_vars => Ready'
BY DeliveryStep, ReadyKept

\* Each request is in one place at a time, and Accounter's counters agree with
\* the requests under way.
THEOREM DeliveryInvariant == Spec => []Ready
BY ReadyInit, ReadyStep, PTL DEF Spec

\* Accounter, as this module's proofs and as Delivery instantiate it.
LEMMA SameFetch ==
  (FetchP!Init <=> Fetch!Init) /\ ([FetchP!Next]_FetchP!vars <=> [Fetch!Next]_Fetch!vars)
<1>1. FetchP!Init <=> Fetch!Init
  BY DEF FetchP!Init, Fetch!Init, FetchP!Changes, Fetch!Changes
<1>2. FetchP!vars = Fetch!vars /\ FetchP!vars' = Fetch!vars'
  BY DEF FetchP!vars, FetchP!sendVars, FetchP!recvVars,
         Fetch!vars, Fetch!sendVars, Fetch!recvVars
<1>3. FetchP!sendWork <=> Fetch!sendWork
  <2>1. FetchP!NextChange <=> Fetch!NextChange
    BY DEF FetchP!NextChange, Fetch!NextChange, FetchP!recvVars, Fetch!recvVars
  <2>2. FetchP!DeriveAddr <=> Fetch!DeriveAddr
    BY DEF FetchP!DeriveAddr, Fetch!DeriveAddr, FetchP!recvVars, Fetch!recvVars,
           FetchP!DerivePanics, Fetch!DerivePanics
  <2>3. FetchP!DeriveAddrPanic <=> Fetch!DeriveAddrPanic
    BY DEF FetchP!DeriveAddrPanic, Fetch!DeriveAddrPanic, FetchP!recvVars,
           Fetch!recvVars, FetchP!DerivePanics, Fetch!DerivePanics
  <2>4. FetchP!RequestAddr <=> Fetch!RequestAddr
    BY DEF FetchP!RequestAddr, Fetch!RequestAddr, FetchP!recvVars, Fetch!recvVars
  <2> QED BY <2>1, <2>2, <2>3, <2>4 DEF FetchP!sendWork, Fetch!sendWork
<1>4. FetchP!recvWork <=> Fetch!recvWork
  <2>1. FetchP!RecvSomeAddr <=> Fetch!RecvSomeAddr
    <3>1. \A a : FetchP!Answers(a) = Fetch!Answers(a)
      BY DEF FetchP!Answers, Fetch!Answers
    <3>2. \A r : FetchP!Derive(r) = Fetch!Derive(r)
      BY DEF FetchP!Derive, Fetch!Derive
    <3>3. \A h : FetchP!AfterAnswer(h) = Fetch!AfterAnswer(h)
      BY DEF FetchP!AfterAnswer, Fetch!AfterAnswer
    <3>4. \A S : FetchP!Cardinality(S) = Fetch!Cardinality(S)
      BY DEF FetchP!Cardinality, Fetch!Cardinality
    <3>5. \A r, h : FetchP!RecvAddr(r, h) <=> Fetch!RecvAddr(r, h)
      BY <3>2, <3>3, <3>4
      DEF FetchP!RecvAddr, Fetch!RecvAddr, FetchP!sendVars, Fetch!sendVars
    <3> QED BY <3>1, <3>2, <3>5 DEF FetchP!RecvSomeAddr, Fetch!RecvSomeAddr
  <2>2. FetchP!ExtendRange <=> Fetch!ExtendRange
    BY DEF FetchP!ExtendRange, Fetch!ExtendRange, FetchP!sendVars, Fetch!sendVars,
           FetchP!Max2, Fetch!Max2, FetchP!Reach, Fetch!Reach, FetchP!U32, Fetch!U32
  <2>3. FetchP!RecvSomeTx <=> Fetch!RecvSomeTx
    BY DEF FetchP!RecvSomeTx, Fetch!RecvSomeTx, FetchP!RecvTx, Fetch!RecvTx,
           FetchP!sendVars, Fetch!sendVars
  <2>4. FetchP!Tick <=> Fetch!Tick
    BY DEF FetchP!Tick, Fetch!Tick, FetchP!sendVars, Fetch!sendVars,
           FetchP!complete, Fetch!complete, FetchP!U32, Fetch!U32
  <2> QED BY <2>1, <2>2, <2>3, <2>4 DEF FetchP!recvWork, Fetch!recvWork
<1> QED BY <1>1, <1>2, <1>3, <1>4 DEF FetchP!Next, Fetch!Next

\* Whatever the number of goroutines and the size of the channels, and however
\* requests move between them, each request is answered once and none is lost,
\* repeated or invented: the promise on which Accounter rests.
THEOREM DeliveryImplementsFetch == Spec => Fetch!Spec
<1>1. Init => Fetch!Init
  BY DeliveryInit, SameFetch
<1>2. Ready /\ [Next]_vars => [Fetch!Next]_Fetch!vars
  BY DeliveryStep, SameFetch
<1> QED BY <1>1, <1>2, DeliveryInvariant, PTL DEF Spec, Fetch!Spec

\* complete() tells the truth at the granularity of channels, too: when recvWork
\* returns, nothing is left in a channel, in a goroutine's hands or to be scanned,
\* and every settled transaction of a wallet that respects the gap limit is there.
THEOREM DeliveryIsComplete == Spec => [](Fetch!FetchComplete /\ Fetch!WalletCovered)
<1>1. Spec => FetchP!Spec
  <2>1. Init => FetchP!Init
    BY DeliveryInit
  <2>2. Ready /\ [Next]_vars => [FetchP!Next]_FetchP!vars
    BY DeliveryStep
  <2> QED BY <2>1, <2>2, DeliveryInvariant, PTL DEF Spec, FetchP!Spec
<1>2. FetchP!Spec => []FetchP!FetchComplete
  BY FetchAssumptions, FetchP!FetchIsComplete
<1>3. FetchP!Spec => []FetchP!WalletCovered
  BY FetchAssumptions, FetchP!WalletIsCovered
<1>4. FetchP!FetchComplete => Fetch!FetchComplete
  BY DEF FetchP!FetchComplete, Fetch!FetchComplete, FetchP!RangeAnswered,
         Fetch!RangeAnswered, FetchP!AnswersFetched, Fetch!AnswersFetched,
         FetchP!GapScanned, Fetch!GapScanned, FetchP!Derive, Fetch!Derive,
         FetchP!Changes, Fetch!Changes
<1>5. FetchP!WalletCovered => Fetch!WalletCovered
  BY DEF FetchP!WalletCovered, Fetch!WalletCovered, FetchP!GapRespected,
         Fetch!GapRespected, FetchP!Settled, Fetch!Settled, FetchP!Address,
         Fetch!Address, FetchP!Changes, Fetch!Changes
<1> QED BY <1>1, <1>2, <1>3, <1>4, <1>5, PTL

\* Every answer that the accounter has is one that a server may give: a part of an
\* address's history never counts for the whole.
LEMMA WholeAnswers == Ready => \A a \in DOMAIN addresses : addresses[a] \in Answers(a)
BY SameTerms DEF Ready, FetchP!Inv1, FetchP!NothingLost

\* What is in the channels and in the goroutines' hands.
LEMMA ChannelTypes ==
  Ready => /\ addrRequests \in Seq(Address) /\ txRequests \in Seq(TxReq)
           /\ addrResponses \in Seq([addr : Address, txHashes : SUBSET Tx])
           /\ txResponses \in Seq([req : TxReq, height : Heights])
           /\ \A g \in DOMAIN addrHeld : addrHeld[g] \in Address
           /\ \A g \in DOMAIN txHeld : txHeld[g] \in TxReq
           /\ history \in [Address -> SUBSET Tx]
BY ReadyTypes DEF Ready, IInv, TransitInv, Transit, ResponsesInv

\* What recvWork has in its hands.
LEMMA RecvTypes == Ready => resp \in Address /\ todo \subseteq Tx
BY ReadyTypes DEF Ready, IInv, TodoInv

\* An address request under way has no answer yet and is within the range, and a
\* transaction request under way is for one that an answer lists.
LEMMA RequestsKnown ==
  Ready => /\ \A a \in addrUnder : /\ a \in Address /\ a \notin DOMAIN addresses
                                   /\ a[2] < lastAddresses[a[1]]
           /\ \A q \in txUnder : /\ q.from \in DOMAIN addresses
                                 /\ q.tx \in addresses[q.from]
<1> SUFFICES ASSUME Ready
             PROVE  /\ \A a \in addrUnder : /\ a \in Address /\ a \notin DOMAIN addresses
                                            /\ a[2] < lastAddresses[a[1]]
                    /\ \A q \in txUnder : /\ q.from \in DOMAIN addresses
                                          /\ q.tx \in addresses[q.from]
  OBVIOUS
<1>1. ASSUME NEW a \in addrUnder
      PROVE  a \in Address /\ a \notin DOMAIN addresses /\ a[2] < lastAddresses[a[1]]
  <2>1. a \in Address
    BY DEF Ready, IInv, TransitInv, Transit, addrUnder, Under, InChannel
  <2>2. a \notin DOMAIN addresses
    BY PendingIs DEF Ready, FetchP!ScanInv, FetchP!AnsweredOnce
  <2>3. a[1] \in Changes /\ a[2] \in 0 .. indexes[a[1]] - 1
    BY ReadyTypes, SameTerms DEF FetchP!Requested
  <2>4. indexes[a[1]] <= lastAddresses[a[1]]
    BY <2>3, SameTerms DEF Ready, FetchP!Inv1, FetchP!SendInRange
  <2>5. indexes[a[1]] \in Nat /\ lastAddresses[a[1]] \in Nat
    BY <2>3, ReadyTypes
  <2> QED BY <2>1, <2>2, <2>3, <2>4, <2>5
<1>2. ASSUME NEW q \in txUnder
      PROVE  q.from \in DOMAIN addresses /\ q.tx \in addresses[q.from]
  <2>1. <<q.from, q.tx>> \in txPending
    BY PendingIs
  <2> QED BY <2>1 DEF Ready, FetchP!AnswersInv, FetchP!NothingInvented
<1> QED BY <1>1, <1>2

\* When recvWork has returned nothing is under way, and the answers are a complete
\* scan whose transactions have been fetched, and no others.
LEMMA DoneWhole ==
  ASSUME Ready, recvPC = "done"
  PROVE  /\ addrUnder = {} /\ txUnder = {}
         /\ FetchP!Scanned(addresses, lastAddresses)
         /\ \A a \in DOMAIN addresses : addresses[a] \subseteq DOMAIN transactions
         /\ \A t \in DOMAIN transactions : \E a \in DOMAIN addresses : t \in addresses[a]
<1>1. FetchP!IInv /\ fetchPC = "done"
  BY DEF Ready, FetchP!IInv, FetchP!TypeInv, FetchP!Inv1, fetchPC
<1>2. addrUnder = {} /\ txUnder = {}
  BY <1>1, PendingIs DEF FetchP!IInv, FetchP!DoneIsQuiet
<1>3. FetchP!Scanned(addresses, lastAddresses)
  BY <1>1, FetchAssumptions, FetchP!DoneScanned
<1>4. \A a \in DOMAIN addresses : addresses[a] \subseteq DOMAIN transactions
  BY <1>1, FetchAssumptions, FetchP!DoneComplete
  DEF FetchP!FetchComplete, FetchP!AnswersFetched
<1>5. \A t \in DOMAIN transactions : \E a \in DOMAIN addresses : t \in addresses[a]
  BY DEF Ready, FetchP!AnswersInv, FetchP!NothingInvented
<1> QED BY <1>2, <1>3, <1>4, <1>5
=============================================================================
