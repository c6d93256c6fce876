------------------------------ MODULE MCStartup ------------------------------
(***************************************************************************)
(* Instances of Startup for TLC: command lines that reach every branch.     *)
(***************************************************************************)
EXTENDS Startup

typed(p) == [prefix |-> p, eol |-> TRUE]

Usual == [command |-> "compute-balance", type |-> "multisig", m |-> 1, n |-> 1,
          piped |-> FALSE, lines |-> <<typed("xpub"), typed("tpub")>>,
          backend |-> "electrum", addr |-> "host", fixtureFile |-> FALSE,
          blockHeight |-> 0]

AtBtcd == [Usual EXCEPT !.backend = "btcd"]

\* One wallet on Electrum; what else may be typed is tried on the other backends.
MCOptions ==
  {Usual, AtBtcd, [AtBtcd EXCEPT !.command = "find-block"],
   [AtBtcd EXCEPT !.m = 0], [AtBtcd EXCEPT !.m = 2], [AtBtcd EXCEPT !.n = 21],
   [AtBtcd EXCEPT !.piped = TRUE],
   [AtBtcd EXCEPT !.n = 2],
   [AtBtcd EXCEPT !.n = 2, !.lines = <<typed("tpub"), typed("tpub")>>],
   [AtBtcd EXCEPT !.lines = <<typed("other")>>],
   [AtBtcd EXCEPT !.addr = "malformed"],
   [Usual EXCEPT !.addr = "malformed"],
   [Usual EXCEPT !.backend = "electrum-recorder"],
   [Usual EXCEPT !.backend = "fixture"]}
  \cup [command : {"compute-balance"}, type : {"single-address"}, m : {1}, n : {1},
        piped : {FALSE}, lines : {<<typed("m")>>, <<typed("other")>>},
        backend : {"btcd-recorder", "fixture"}, addr : {"host"}, fixtureFile : {TRUE},
        blockHeight : {0, 5, 14, 15, 60}]

MCTips == {3, 20}
=============================================================================
