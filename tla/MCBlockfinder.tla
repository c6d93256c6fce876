---------------------------- MODULE MCBlockfinder ----------------------------
(***************************************************************************)
(* Instances of Blockfinder for TLC: chains whose timestamps obey the       *)
(* consensus rule, and arbitrary ones, with times up to MaxTime.            *)
(***************************************************************************)
EXTENDS Blockfinder

CONSTANT MaxTime

\* The valid chains of heights 0 to n.
RECURSIVE ValidUpTo(_)
ValidUpTo(n) ==
  IF n = 0 THEN [{0} -> 0 .. MaxTime]
  ELSE {ts \in {[h \in 0 .. n |-> IF h = n THEN t ELSE ts[h]] :
                  ts \in ValidUpTo(n - 1), t \in 0 .. MaxTime} :
          n > 2 * Radius => ts[n] > Median(ts, n - 2 * Radius - 1 .. n - 1)}

\* The valid chains, and chains whose time falls back from MaxTime to 0, on
\* which the sanity check fires.
MCChains ==
  ValidUpTo(ChainHeight)
    \cup {[h \in Height |-> IF h < k THEN MaxTime ELSE 0] : k \in Height}


MCTargets == 0 .. MaxTime
=============================================================================
