-------------------------- MODULE MCElectrumBackend --------------------------
(***************************************************************************)
(* Instances of ElectrumBackend for TLC.                                   *)
(***************************************************************************)
EXTENDS ElectrumBackend, TLC

CONSTANTS t1, t2, k1, k2, k3, s1, s2

MCHeight == [t \in Tx |-> IF t = t1 THEN 1 ELSE 2]

\* The first receiving and the first change address share a transaction, settled
\* or not; one of them has what is settled too.
MCHistories ==
  {[a \in Address |-> CASE a = <<0, 0>> -> (Tx \ Recent) \cup {t}
                        [] a = <<1, 0>> -> {t}
                        [] OTHER -> {}] : t \in Tx}

\* Goroutines that have not been started are alike.
MCSymmetry == Permutations(Conn \ {firstConn})
=============================================================================
