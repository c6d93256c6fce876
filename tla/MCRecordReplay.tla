--------------------------- MODULE MCRecordReplay ---------------------------
(***************************************************************************)
(* An instance of RecordReplay for TLC.                                    *)
(***************************************************************************)
EXTENDS RecordReplay

CONSTANTS t1, t2

\* The first two receiving addresses and the first change address: unused,
\* with transactions of their own, and with shared ones.
MCHistories ==
  {[a \in Address |-> CASE a = <<0, 0>> -> h0
                        [] a = <<0, 1>> -> h1
                        [] a = <<1, 0>> -> h2
                        [] OTHER -> {}] :
     h0 \in SUBSET Tx, h1 \in {{}, {t2}}, h2 \in {{}, {t2}}}
=============================================================================
