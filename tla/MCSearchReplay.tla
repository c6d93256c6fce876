--------------------------- MODULE MCSearchReplay ---------------------------
(***************************************************************************)
(* An instance of SearchReplay for TLC: a chain whose times rise, one whose *)
(* medians are equal for a while, and one on which the sanity check fires.  *)
(***************************************************************************)
EXTENDS SearchReplay

MCChains ==
  {[h \in Height |-> h],
   [h \in Height |-> IF h < 5 THEN h \div 2 ELSE 3],
   [h \in Height |-> IF h < 4 THEN 5 ELSE 1]}

MCTargets == {0, 3, 4}
=============================================================================
