------------------------------ MODULE MCBalance ------------------------------
(***************************************************************************)
(* Instances of Balance for TLC: three transactions with two outputs each,  *)
(* of distinct powers of two, spending outputs of the earlier ones.         *)
(***************************************************************************)
EXTENDS Balance

CONSTANTS t1, t2, t3, us, them

Vouts(v) ==
  {<<[value |-> v, address |-> a], [value |-> 2 * v, address |-> b]>> :
     a, b \in {us, them}}

Outs(t) == {Outpoint(t, 0), Outpoint(t, 1)}

\* Height 0: not mined.
MCLedgers ==
  {l \in {[t \in Tx |-> CASE t = t1 -> [height |-> h1, vin |-> {}, vout |-> o1]
                          [] t = t2 -> [height |-> h2, vin |-> i2, vout |-> o2]
                          [] t = t3 -> [height |-> h3, vin |-> i3, vout |-> o3]] :
            h1 \in 0 .. 1, h2, h3 \in 0 .. 2,
            o1 \in Vouts(1), o2 \in Vouts(4), o3 \in {<<[value |-> 16, address |-> us]>>},
            i2 \in SUBSET Outs(t1), i3 \in SUBSET (Outs(t1) \cup Outs(t2))} :
     Valid(l)}
=============================================================================
