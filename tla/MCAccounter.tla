----------------------------- MODULE MCAccounter -----------------------------
(***************************************************************************)
(* Instances of Accounter for TLC.                                         *)
(***************************************************************************)
EXTENDS Accounter, TLC

CONSTANTS t1, t2

\* Every history in which a transaction touches at most two addresses, no used
\* index reaches MaxUsed and the change addresses are used no further than 0.
MCHistories ==
  LET spots == {a \in Address : a[2] < MaxUsed /\ (a[1] = 1 => a[2] = 0)}
      uses  == {s \in SUBSET spots : Cardinality(s) \in 1 .. 2}
  IN  {[a \in Address |-> {t \in Tx : a \in use[t]}] : use \in [Tx -> uses]}
=============================================================================
