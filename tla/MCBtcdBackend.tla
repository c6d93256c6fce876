---------------------------- MODULE MCBtcdBackend ----------------------------
(***************************************************************************)
(* Instances of BtcdBackend for TLC.                                       *)
(***************************************************************************)
EXTENDS BtcdBackend

CONSTANTS t1, t2, t3, t4, w1, w2

MCHeight == [t \in Tx |-> IF t = t1 THEN 1 ELSE 2]
MCBlockHash == [t \in Tx |-> IF t = t1 THEN "b1" ELSE "b2"]

\* Histories of the first receiving address, the next one and the first change
\* address: shared and private transactions, and one list that is too long.
MCHistories ==
  {[a \in Address |-> CASE a = <<0, 0>> -> h0
                        [] a = <<0, 1>> -> h1
                        [] a = <<1, 0>> -> h2
                        [] OTHER -> {}] :
     h0 \in SUBSET (Tx \ {t4}) \cup {Tx}, h1 \in SUBSET {t1, t2}, h2 \in {{}, {t1}}}

\* Every scanned address has a transaction.
MCBusyHistories ==
  {[a \in Address |-> IF a[2] < MaxUsed THEN {t1} ELSE {}]}
=============================================================================
