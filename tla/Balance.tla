------------------------------- MODULE Balance -------------------------------
(***************************************************************************)
(* What the accounter does with the transactions it has fetched:            *)
(* processTransactions and balance (src/accounter/accounter.go).  Each is a *)
(* sequence of loops over the map transactions, which Go iterates in any    *)
(* order, afresh each time.                                                 *)
(***************************************************************************)
EXTENDS Integers, Sequences, FiniteSets, FiniteSetsExt

CONSTANTS
  Tx,           \* transaction hashes
  Ours,         \* the addresses that were scanned
  Ledgers,      \* what the chain and the mempool may hold
  blockHeight,  \* --block-height
  Corruptions   \* the sets of transactions that may turn out not to parse

Outpoint(t, i) == [hash |-> t, index |-> i]  \* index is 0-based
OutputsIn(l, t) == {Outpoint(t, i) : i \in 0 .. Len(l[t].vout) - 1}

\* The rules of the chain, as far as a balance depends on them: the outputs of a
\* transaction are numbered and worth something; an input of a mined transaction is an
\* output of one mined no later; no two mined transactions spend one output.
Valid(l) ==
  /\ \A t \in Tx : /\ l[t].height \in Int
                   /\ Len(l[t].vout) \in Nat
                   /\ \A i \in 1 .. Len(l[t].vout) : l[t].vout[i].value \in Nat
  /\ \A t, u \in Tx :
       /\ \A o \in l[t].vin : o.hash = u /\ l[t].height > 0 =>
            o \in OutputsIn(l, u) /\ l[u].height \in 1 .. l[t].height
       /\ t # u /\ l[t].height > 0 /\ l[u].height > 0 => l[t].vin \cap l[u].vin = {}

ASSUME BalanceAssumption ==
  /\ blockHeight \in Nat
  /\ IsFiniteSet(Tx)
  /\ Corruptions \subseteq SUBSET Tx
  /\ \A l \in Ledgers : Valid(l)

VARIABLES
  ledger,        \* hash |-> [height, vin: set of outpoints, vout: sequence]
  corrupt,       \* the transactions whose hex does not parse
  pc,            \* the loop that runs, then "done" or "panic"
  left,          \* the hashes it has still to visit
  transactions,  \* the keys of the map
  parsed,        \* those with vin and vout filled in
  spent,         \* our outputs whose spentBy is set
  total          \* the running balance

chain == <<ledger, corrupt>>
vars == <<chain, pc, left, transactions, parsed, spent, total>>

Outputs(t) == OutputsIn(ledger, t)
Output(o) == ledger[o.hash].vout[o.index + 1]
IsOurs(o) == Output(o).address \in Ours
Sum(S) == MapThenSumSet(LAMBDA o : Output(o).value, S)

\* The transactions the histories of our addresses list.
Touches(t) ==
  \/ \E o \in Outputs(t) : IsOurs(o)
  \/ \E o \in ledger[t].vin : o.hash \in Tx /\ o \in Outputs(o.hash) /\ IsOurs(o)

\* fetchTransactions has returned.
Init ==
  /\ ledger \in Ledgers
  /\ corrupt \in Corruptions
  /\ pc = "filter"
  /\ transactions = {t \in Tx : Touches(t)}
  /\ left = transactions
  /\ parsed = {}
  /\ spent = {}
  /\ total = 0

-----------------------------------------------------------------------------
(* processTransactions                                                     *)

\* Mutant: off by one.
TooRecentIncluded(t) == ledger[t].height > blockHeight + 1

TooRecent(t) == ledger[t].height > blockHeight

\* Mutant: takes height 0 for mined.
NotMinedNegative(t) == ledger[t].height < 0

NotMined(t) == ledger[t].height <= 0

Filter ==
  /\ pc = "filter"
  /\ \E t \in left :
       /\ left' = left \ {t}
       /\ transactions' = IF TooRecent(t) \/ NotMined(t)
                          THEN transactions \ {t} ELSE transactions
  /\ UNCHANGED <<chain, pc, parsed, spent, total>>

\* A transaction that cannot be parsed stays in the map without vin and vout.
Parse ==
  /\ pc = "parse"
  /\ \E t \in left :
       /\ left' = left \ {t}
       /\ parsed' = IF t \in corrupt THEN parsed ELSE parsed \cup {t}
  /\ UNCHANGED <<chain, pc, transactions, spent, total>>

-----------------------------------------------------------------------------
(* balance                                                                 *)

vin(t) == IF t \in parsed THEN ledger[t].vin ELSE {}
vout(t) == IF t \in parsed THEN Outputs(t) ELSE {}

Credit ==
  /\ pc = "credit"
  /\ \E t \in left :
       /\ left' = left \ {t}
       /\ total' = total + Sum({o \in vout(t) : IsOurs(o)})
  /\ UNCHANGED <<chain, pc, transactions, parsed, spent>>

\* Inputs whose previous transaction was fetched.
Known(t) == {o \in vin(t) : o.hash \in transactions}

\* Mutant: the bounds check is missing.
DebitPanicsIfSpent(t) == \E o \in Known(t) : IsOurs(o) /\ o \in spent

\* "prev index > vouts", or "both spending".
DebitPanics(t) ==
  \E o \in Known(t) : o \notin vout(o.hash) \/ (IsOurs(o) /\ o \in spent)

Debit ==
  /\ pc = "debit"
  /\ \E t \in left :
       LET mine == {o \in Known(t) : IsOurs(o)}
       IN  /\ ~DebitPanics(t)
           /\ left' = left \ {t}
           /\ total' = total - Sum(mine)
           /\ spent' = spent \cup mine
  /\ UNCHANGED <<chain, pc, transactions, parsed>>

DebitPanic ==
  /\ pc = "debit"
  /\ \E t \in left : DebitPanics(t)
  /\ pc' = "panic"
  /\ UNCHANGED <<chain, left, transactions, parsed, spent, total>>

\* One loop ends and the next begins; after the last, the balance is returned
\* unless it is negative.
NextLoop ==
  /\ pc \in {"filter", "parse", "credit", "debit"}
  /\ left = {}
  /\ left' = transactions
  /\ pc' = CASE pc = "filter" -> "parse"
             [] pc = "parse" -> "credit"
             [] pc = "credit" -> "debit"
             [] pc = "debit" -> IF total < 0 THEN "panic" ELSE "done"
  /\ UNCHANGED <<chain, transactions, parsed, spent, total>>

Next == Filter \/ Parse \/ Credit \/ Debit \/ DebitPanic \/ NextLoop

Spec == Init /\ [][Next]_vars

-----------------------------------------------------------------------------
TypeOK ==
  /\ pc \in {"filter", "parse", "credit", "debit", "done", "panic"}
  /\ transactions \subseteq Tx
  /\ left \subseteq transactions
  /\ parsed \subseteq transactions
  /\ total \in Int

Mined == {t \in Tx : ledger[t].height \in 1 .. blockHeight}

\* The outputs of our addresses that the transactions S create and do not spend.
UnspentIn(S) ==
  {o \in UNION {Outputs(t) : t \in S} :
     IsOurs(o) /\ \A t \in S : o \notin ledger[t].vin}

\* The balance is the value of the unspent outputs at blockHeight, although
\* only transactions that touch our addresses were fetched, later and unmined
\* ones are dropped one by one, and the maps are visited in any order.
BalanceCorrect ==
  pc = "done" /\ corrupt = {} => total = Sum(UnspentIn(Mined))

\* The sanity checks of balance() never fire on a valid chain, whatever the
\* mempool holds: a conflicting spend that is not mined is filtered out first.
NoPanic == corrupt = {} => pc # "panic"

\* What processTransactions' "continue" on a transaction that does not parse
\* amounts to: the returned balance is that of the chain without it (its own
\* debits are lost as well as its credits), and no balance at all is returned
\* if a readable transaction spends one of our outputs in it.
UnreadableSkipped ==
  pc = "done" =>
    /\ total = Sum(UnspentIn(Mined \ corrupt))
    /\ \A t \in Mined \ corrupt : \A o \in ledger[t].vin :
         ~(o.hash \in Mined \cap corrupt /\ IsOurs(o))
=============================================================================
