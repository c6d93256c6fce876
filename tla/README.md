# TLA+ models of beancounter

Beancounter computes the balance of a hierarchical deterministic Bitcoin wallet
at a block height.  It derives addresses, asks a backend for the history of
each, fetches the transactions, and adds up what is unspent.  Most of its own
logic is concurrent: two goroutines of the accounter, a pool of goroutines in
the backend, four bounded channels and a handful of counters that decide when
everything has been fetched.  This directory models that logic, checks it with
TLC on small instances and proves the central results with TLAPS.

## The system

| Part | State it keeps | Operations | What makes it correct |
|---|---|---|---|
| accounter, fetch phase (`accounter/accounter.go`) | `lastAddresses`, four counters (under `countMu`), `addresses`, `transactions`, the indexes local to `sendWork` | `sendWork` derives and requests addresses; `recvWork` takes answers, requests transactions, extends the range, and polls `complete()` once a second | it ends, and only when the lookahead range is closed and everything listed has been fetched |
| accounter, balance (same file) | the map `transactions` with `vin`, `vout`, `ours`, `spentBy` | `processTransactions` filters and parses, `balance` credits and debits | the result is the value of the unspent outputs at the height asked for; the sanity checks hold on valid chains |
| backend interface (`backend/backend.go`) | | `AddrRequest`, `TxRequest`, `BlockRequest`, three response channels, `Finish` | one complete answer to each request, in any order |
| btcd backend (`backend/btcd_backend.go`) | channels, `cachedTransactions`, `blockHeightLookup`, `doneCh` | 100 `processRequests` goroutines | implements the interface; heights are right; histories are never cut short |
| electrum backend (`backend/electrum_backend.go`) | channels, `nodes`, `blacklistedNodes`, the cache `transactions`, `doneCh` | `addNode`, `processRequests` for each server, `findPeers`, `removeNode`, requeues, `Finish` | implements the interface while servers come, go and fail |
| electrum client (`backend/electrum/*.go`) | a connection, a message counter | `SendMessage`, one method for each RPC | a call returns its own answer or an error, and returns |
| blockfinder (`blockfinder/blockfinder.go`) | bounds and medians of a binary search | `Search`, `searchSync` | returns a block of the target's median time or one just before it |
| deriver (`deriver/address_deriver.go`) | keys | `Derive` | pure; panics on hardened indexes |
| fixture and recorder backends | indexes of addresses, transactions, blocks; a file | replay, forward and record | a recording replays to the same balance, or the same block |
| command line (`main.go`) and utils | flags, keys typed, network, height | `doComputeBalance`, `doFindBlock`, the builders of backends | keys, servers and height belong together when the work begins |
| reporter | progress counters | | |

The accounter calls the backend's request methods, which block while a channel
is full, and reads its response channels; everything else is shared memory
inside one component.  What is hard to test is listed with its line under
`hazards` in `PROJECT.json`: counters compared between two steps of another
goroutine, answers out of order, requests that are put back on a channel, the
wait cycles that bounded channels make possible, check-then-act on shared maps,
and the arithmetic of unsigned heights and indexes.

## Modules

| Module | Models | Uses |
|---|---|---|
| `Accounter` | the fetch phase against the backend contract: a request is in a set until `recvWork` takes its answer | |
| `AccounterProofs` | theorems about `Accounter` | `Accounter` |
| `Pipeline` | the same goroutines at the granularity of channels and `countMu` | |
| `Delivery`, `DeliveryProofs` | what any backend does with a request: take it, and answer it or put it back; between the backends and `Accounter` | `Pipeline`, `AccounterProofs` |
| `BtcdBackend`, `BtcdBackendProofs` | `Pipeline` with the worker pool, shown to implement `Delivery` and `Accounter` | `Pipeline`, `DeliveryProofs` |
| `ElectrumBackend`, `ElectrumBackendProofs` | `Pipeline` with the goroutines of each server, peer discovery, failures and requeues, shown to implement `Delivery` and `Accounter` | `Pipeline`, `DeliveryProofs` |
| `RecordReplay`, `RecordReplayProofs` | `Pipeline` on the recorder backend, the file it writes, and `Pipeline` on the fixture backend that loads it; both runs shown to implement `Accounter` | `Pipeline`, `Accounter`, `DeliveryProofs` |
| `Blockfinder` | the search by time | |
| `SearchReplay`, `SearchProofs` | a search over the channels of the recorder on a btcd or an Electrum backend, the file, and the same search on the fixture; both shown to implement `Blockfinder`; and theorems about both modules | `Blockfinder` |
| `Transport` | the connections to Electrum servers: requests, lines, ids, deadlines, and what servers may send | |
| `Startup`, `StartupProofs` | from the command line to a backend that serves: prompts, networks, `getHeight`, `addNode`, `addPeer`, heights; and theorems about it | `Transport` |
| `Balance`, `BalanceProofs` | filtering, parsing and the balance | |
| `MC*` | instances for TLC | |

Operators whose comment begins with "Mutant" are plausible mistakes in the
definition that follows.  Put in its place, each makes TLC report a violation of
the property `PROJECT.json` names, which shows that the property depends on it.

### Accounter

Variables carry the names of the fields and locals they stand for.  `sendPC`
and `recvPC` say where the goroutines are between their critical sections:
`sendWork` derives and counts an address (`DeriveAddr`), then requests it
(`RequestAddr`); `recvWork` takes an answer and requests its transactions
(`RecvAddr`), then extends the range in a critical section of its own
(`ExtendRange`).  A tick that finds `complete()` false changes nothing and is not
an action.  The history of each address is chosen once; transactions in
`Recent` are those not settled when the run begins, which any answer may list or
omit.  Sums of `uint32` values are taken modulo `Word`.  `DeriveAddrPanic` is the
failure of a hardened index; after it the process is dead.

`singleAddress` is chosen once: with it `Derive` answers the one address for every
index, whatever is requested.

Answers are sets: a history that lists one hash twice is not considered.

### Pipeline and the backends

`Pipeline` splits `RecvAddr` into the steps of the loop that sends transaction
requests while `countMu` is held (`RequestTx`, `RequestedTxs`); `sendWork` cannot
take `countMu` meanwhile.  Channels are sequences with the capacities the
constants give.  Derivation limits, wrap-around and single addresses are left to
`Accounter`; `PipelineAssumption` keeps the range clear of them.

`BtcdBackend` gives each worker a program counter and what it holds.  `cacheTxs`
is one lookup and one store at a time, as in the code, with its early return;
any RPC may fail, and every failure is a panic.  `blockHeightLookup` maps the hash
of a block (`BlockHash`) to the height a first RPC gave.  `ElectrumBackend` has one
process for each `addNode` goroutine, its connection and the `processRequests`
goroutine it becomes.  A failing call may or may not close the connection
(`SendMessage` does, unless the error is an answer of the server); the goroutine
then calls `removeNode`, puts the request back and returns.  When the call for
peers fails the goroutine returns and the server stays in `nodes`.
Connections that fail during `addNode` are not tracked further.  `panicked` says what
the process died of: a transaction that was not in the cache, or one that was cached
at one height and listed at another, with both heights.

`RecordReplay` follows one recording from the first request to the end of its
replay.  `phase` tells the two processes apart and `Load` starts the second with
the accounter's state anew.  Both backends are a single goroutine with a response
in its `hand`.  The backend under the recorder is any that keeps the contract: a
request may be answered at any time and in any order, and a transaction that
is not settled may be reported with different heights.  `writeToFile` is a step
for each map it reads and one for the write, with the recorder's goroutine
running beside it; a failing write leaves nothing that loads.  The fixture's
`select` receives from its own response channels too (`TakeBackAddr`,
`TakeBackTx`) and sends what it took again.

`Delivery` leaves out everything that the two live backends do not share: what a
goroutine asks of its server, the caches, and how goroutines come and go.  What
is left is a goroutine that takes a request from the front of its channel, and
sends an answer or puts the request back (`RequeueAddr`, `RequeueTx`).
`BtcdBackend` never puts one back.

The refinement mapping of the backends counts as pending what is in a channel,
in a goroutine's hands, or still in `recvWork`'s loop.

### Blockfinder and Balance

`searchSync(h)` adds its window to the pending requests and takes as many
answers as it asked for, whichever they are; a median is computed from what was
received.  The radius of the window, the first bounds and the word size are
constants (5, 10, 11 and 2^32 in the code).  A backend answers a block that
exists; a block past the tip is never answered (`SearchReplay` has the panic that
follows instead).  `Search` takes the height of the chain as a parameter: that of
the backend in use.  `Balance` visits the map one
transaction at a time in any order; a transaction in `corrupt` does not parse.
`Valid` is what the chain guarantees of a ledger and `Balance` assumes: an input
of a mined transaction is an output of one mined no later, and no two mined
transactions spend one output.  Of the mempool it assumes nothing.

### SearchReplay

The steps of `Search` are those of `Blockfinder`; what `Blockfinder` does in one
step by adding a window to the pending requests is here a loop of
`BlockRequest`s, each of which waits for a place in the channel, before the
first response is taken (`Receive`).  A worker of the live backend takes a
request, calls its server and replies; a failing call is a panic for btcd, and
for Electrum a requeue after which the goroutine returns.  `StoreBlock` and
`ForwardBlock` are the recorder's goroutine, `FixtureBlock` and `ForwardBlock` the
fixture's.  `Load` starts a second process whose chain is what the file holds:
`time` and `tip` come from it, and a block that was not recorded is a panic.
The refinement mapping counts as pending a block that is in any channel or hand.
A channel holds heights; a response carries the timestamp of its block, which is
the same whoever answers.

### Transport and Startup

`SendMessage` is a write, then a read of one line or a failure; any failure before
the answer closes the connection.  A line under way to the client bears the id it
claims (`id`) and, for the properties alone, the request it answers (`re`).  The
reader of a call takes some number of lines off the connection and looks at the
first.  Servers are not trusted to answer: they may be silent, answer late, repeat
an earlier answer, send what is not JSON or has another shape than was asked for
(`MaxFaults` bounds the last three), and notify of new blocks once subscribed to.

`Startup` drives these connections.  `pc` is main, `task` the goroutine of each
connection: `"height"` belongs to `getHeight`, `"work"` to the first `addNode` and
the `processRequests` it becomes, the others to servers learnt from `addPeer`.
`Got` is what a caller does with a response.  The values a server gives for its
height, version and peers are arbitrary; the network it is on is fixed, and is
the same for the two connections to the first host.  `options` is a command line
with what will be typed: a line is its prefix and whether it still has its line
end.  Once main has reached `"run"` the requests stand for those of the
accounter or the search, and `BtcdBackend`, `ElectrumBackend` or `SearchReplay`
takes over.

## Runs

`tlc -config <cfg> <module>`; each takes less than three minutes with two workers on a machine of its own.

| Run | Instance | Shows |
|---|---|---|
| `accounter` | all placements of two transactions (one unsettled) on the first four receiving and the first change address; lookahead 2; the derivable indexes end at 4; each of them with keys and as a single address | `FetchComplete`, `WalletCovered`, `SingleAddressCovered`, `NoOverscan`, `PanicJustified`, `QuietAfterDone`, `Terminates`, and the inductive invariant `IInv` of the proofs |
| `btcd_fetch` | two workers, four transactions, `maxTxsPerAddr` 2, address channels of size 1, failing RPCs | `ImplementsFetch`, `HeightsRight`, `NeverTruncated`, `TypeOK`, `Terminates` |
| `btcd_stall` | one worker, channels in the code's proportions, more transactions than they hold | **violates** `Terminates` |
| `electrum_fetch` | two servers, two goroutines, a failing call, a settled and an unsettled transaction, either of which two addresses share | `ImplementsFetch`, `HeightsRight`, `NoCacheMiss`, `PanicJustified`, `Terminates` |
| `electrum_race` | three goroutines, two of which may race for one server | `ImplementsDelivery` |
| `electrum_nopeers` | one server, one goroutine, a failing call | **violates** `BackgroundJobFails` |
| `record_replay` | two transactions (one unsettled) on the first two receiving and the first change address, lookahead 2, all channels of size 1, a write that may fail | `RecordingComplete`, `ReplaySame`, `QuietMaps`, `ImplementsFetch`, `Terminates` |
| `blockfinder_search` | radius 2, heights 0 to 10, four timestamps, all valid chains and some invalid ones, all targets | `OwnAnswers`, `NoPanic`, `FoundBoundary`, `Terminates` |
| `blockfinder_last` | the same | **violates** `LastBefore` |
| `search_replay` | radius 1 (windows of three blocks), heights 0 to 8, three chains, three targets, two goroutines that may fail, live channels of size 3, fixture channels of size 2 | `ImplementsSearch`, `NoMissingBlock`, `ReplaySame`, `SearchesEnd` |
| `startup` | the connections of `getHeight`, of `addNode` and to one learnt server, four requests each, two lines under way, one faulty line; a tip above and one below `minConfirmations`; 34 command lines that take each branch | `OwnAnswer`, `NoMismatch`, `RightChain`, `Settles`, and the inductive invariant `IInv`, of which `HeightSettled` and `TypeOK` are conjuncts |
| `balance` | three transactions that spend each other's outputs, mined at, after or never by the height asked for; one may not parse | `BalanceCorrect`, `NoPanic`, `UnreadableSkipped` |

Bounds.  Two transactions on five addresses are enough for a transaction shared
by addresses, for answers that extend the range out of order, for a gap, and
for the range to run into the derivation limit.  Address channels of size 1
make every send of an address block in some behaviour; the transaction channels
hold all requests in the passing runs and fewer than all in `btcd_stall`.
`MaxFailures` bounds the failing calls and `Conn` the goroutines ever started.
`Terminates` is claimed of the backends only where the channels have room;
`RecordReplay`, whose channels all have size 1 in the run, instead names the one
state in which it may stop for ever (`Stalled`: `recvWork` and the backend's
goroutine each wait for the other to receive) and shows that there is no other.
With the fixture's 10 address and 1000 transaction places, a wallet with more
than a thousand outstanding transaction requests can reach it.
Three transactions with two outputs of distinct powers of two tell apart all sets
of outputs in a balance.  In `search_replay` the fixture's channels have fewer
places than a window has blocks, as in the code (10 and 11), so that both loops of
`searchSync` block in some behaviour.  In `startup` two lines under way and one
faulty line are enough for a late answer, a repeated one or a notification to be
ahead of the answer that is waited for, and four requests for a connection to go
on after its start; `StartupProofs` has no bound on any of them.

The type invariants of `RecordReplay`, `ElectrumBackend`, `Balance` and
`Blockfinder`, and the inductive invariants of the proofs other than those of
`Accounter` and `Startup`, are no part of a run; they hold when added to the runs
of their components (that of `BalanceProofs` with fewer addresses to choose from,
as TLC is slow to evaluate it): `IInv` of `RecordReplay` and `SearchReplayInv` of
`SearchReplay` are in those modules for that purpose.

Deadlock is not checked where the process may stop: a panic, the end of
`Search`, or a start-up whose servers are all silent; that the program goes on is
what `Terminates`, `SearchesEnd` and `Settles` check.

Fairness.  Weak fairness for each goroutine: the Go scheduler runs each
runnable one, an RPC or call returns or fails (it has a deadline), and the
ticker fires while nothing else is ready.  For the Electrum backend strong
fairness of taking an address and of taking a transaction request: `select`
chooses at random among ready cases, so it does not prefer the peers request
for ever.  For the fixture backend, whose goroutine keeps taking responses back,
the same, and strong fairness of `recvWork`: a send to a channel hands its value
to a receiver that is already waiting.  `SearchReplay` needs weak fairness only.
`Startup` assumes nothing of a server: main and each goroutine are scheduled, and
a write or read that lasts ends with its deadline.  `Settles` is then claimed of
the start and of each single call; that a request is answered in the end needs a
server that does, and is claimed by the backends' modules.

### What the violations show

* `btcd_stall`: `recvWork` sends transaction requests while holding `countMu`,
  and is the only reader of the responses.  When `txRequests` is full and every
  worker waits to send a response, nobody moves.  With the code's constants this
  takes about 4100 outstanding transaction requests; the Electrum backend, with
  a single server, gets there with about 400.
* `electrum_nopeers`: with no goroutine left `findPeers` blocks for ever.  A goroutine that
  is blocked putting a request back on a full channel counts as gone too (`Serving`): while
  another one serves, `Terminates` of `electrum_fetch` says that it gets its place; when all
  the others have returned or are blocked as well, nothing moves any more.
* `blockfinder_last`: the loop breaks at the first median that equals the target, in the
  run at block 5 where blocks 5 to 7 have the target's median.  That is neither the last
  block before it, 4, nor the last no later, 7.  A target past the last median gives the block
  before the last.  `FoundBoundary` says exactly which block is returned.  (The comment
  also speaks of "the previous 11 blocks"; the code takes five on either side.)

Met while modelling, and part of the models, but not runs:

* The workers of btcd go round a closed `doneCh` for ever, since `break` leaves the
  `select` only.
* A transaction in the mempool has no block hash: on btcd `getBlockHeight` fails and the
  process panics, although `processTransactions` is there to drop what has not been
  mined.  `Terminates` of `btcd_fetch` counts a panic as an end and does not see it.
* On a tip below 6 the subtraction of `minConfirmations` wraps around, in the default
  height and in the bound it is checked against; `HeightSettled` claims the
  confirmations for higher tips only.
* `ReadString` keeps the line end and, unlike a pubkey, the address typed for
  `--type single-address` is not trimmed (`KeysRead` says so).  `DecodeAddress` then
  fails in `Address.Script` at the accounter's first answer, and an Electrum server is
  asked for a string that is no address.

## Proofs

Three layers carry the argument for the result as a whole.  Each live
backend implements `Delivery`, `Delivery` implements `Accounter`, and in
`Accounter` a wallet that respects the gap limit has all its settled transactions
fetched when `recvWork` returns; so the same holds of each backend, with any
number of goroutines, servers and transactions and channels of any size.
`Balance` starts from there: from those transactions, the balance is right.

The assumptions are the named ones of the modules (the sizes of the channels and
of the lookahead, the shape of histories, the rules of the chain) and, where a
theorem says so, `NoWrap` (twice the largest range fits a word; `complete()` adds
the two bounds in a `uint32`, so a `--lookahead` above 2^31 breaks it, and
`FetchComplete` with it) or `LongEnough`.

`AccounterProofs`, for every lookahead, word size, set of transactions and history:

* `TypeCorrect`: the type invariant.
* `InductiveInvariant`: `IInv`, under `NoWrap`.
  `FetchComplete` is not inductive: `complete()` looks only at numbers.  `IInv` says
  what they count: `derivedAddrCount` the indexes passed, plus the one about to be
  requested; `processedAddrCount` with the pending requests the indexes passed;
  and the same for transactions (`CountersMatch`).  With `SendInRange`, equal
  counters then force the indexes to the end of the range and nothing pending;
  `NothingLost` and `RangeExtended` turn that into the three parts of
  `FetchComplete`.
* `FetchIsComplete`, `WalletIsCovered`, `SingleAddressIsCovered`: from `IInv`.  The
  second takes the least used address that was not scanned, for each change
  value (`LeastNat`), and finds one before it that should have reached it.
* `QuietWhenDone`: the action property, from `DoneIsQuiet`.
* `ScanInvariant`, `ScanStaysClose`, `PanicIsJustified`: `ScanInv` and from it
  `NoOverscan` and `PanicJustified`, without `NoWrap`: a sum that wraps around makes
  the range shorter only.  It says that a bound beyond the first was reached from an
  answered address that is used.  `AnswersInv` adds that an answer is one the backend
  may give and that nothing is fetched that no answer lists.
* Two lemmas for the replay: when `recvWork` has returned its answers are a complete
  scan (`DoneScanned`: `Scanned`, a range closed under the lookahead rule whose every
  bound was reached), and two complete scans that agree where both have an answer are
  the same (`SameScan`: the shorter one would have been extended by an answer of the
  longer).

`DeliveryProofs`, for every number of goroutines and size of the channels:

* `DeliveryInvariant`: `Ready`, which is `Delivery`'s `IInv` and, through the refinement
  mapping, `Accounter`'s.  The mapping makes sets of channels and hands; a step
  that moves a request changes nothing in `Accounter` only if the request was in
  one place and there once, and an answer takes away exactly its own (`Transit`,
  `Distinct`).  That a new request is nowhere yet follows from `Accounter`'s side:
  `sendWork` does not request an index twice, and `recvWork` takes one answer for an
  address (`TodoInv`).  Neither invariant is inductive without the other.
* `DeliveryImplementsFetch`: each step of `Delivery` is one of `Accounter` or a stutter.
* `DeliveryIsComplete`: `FetchComplete` and `WalletCovered` at this granularity.
* For `RecordReplayProofs`, what `Ready` means to a backend: a request under way is
  within the range and not answered yet (`RequestsKnown`), when `recvWork` has returned
  nothing is under way (`DoneWhole`), and a step of `Accounter` keeps `Ready`
  (`ReadyKept`).

`BtcdBackendProofs`, for every pool of workers:

* `BtcdInvariant`, `BtcdImplementsDelivery`, `BtcdImplementsFetch`, `BtcdWalletIsCovered`:
  a worker that has taken a request holds it until it replies, through the
  lookups and stores of `cacheTxs`.
* `BtcdTypes`, `HeightsAreRight`, `NothingIsTruncated`.  For the heights, `HandInv` and
  `CacheInv` follow a height from the table of block heights through the cache, a worker's
  hands and the channel; a transaction may take the cache or the miss path.
  `HeightKnown` has the lookup of a block: a hit is right because one block has one height.

`ElectrumBackendProofs`, for every set of servers and goroutines, any number of
which fail:

* `ElectrumInvariant`, `ElectrumImplementsDelivery`, `ElectrumImplementsFetch`,
  `ElectrumWalletIsCovered`: a goroutine that stops puts back what it holds before it
  returns, and one that never was in `processRequests` holds nothing.
* `ElectrumTypes`, `PanicHasACause`, `HeightsAreRight`, and `NoCacheMisses`: a request for a
  transaction can be taken by any goroutine, after any number of requeues; so
  `ListedInv` says that the transaction is cached wherever the address's answer or
  the request may be.  `PanicHasACause` names the transaction and its two heights: what
  is cached and what is listed are both heights a server may report (`CacheInv`), and
  there is a second one only for a transaction that was not settled at the start.

`BalanceProofs`, for every finite set of transactions, every ledger with `Valid`, any
addresses and any set of transactions that do not parse:

* `BalanceInvariant`: `IInv` there, which says for each loop what the part of the map
  already visited has come to: what the filter kept (`Kept`), what was parsed
  (`Readable`), credited (`Created`) and debited (`Spent`).
* `BalanceIsCorrect`, `UnreadableAreSkipped`: what was debited is a part of what was
  credited, since the loop stops at any other input, and no transaction outside
  the map makes or spends an output of ours (`UnspentIsWhatIsLeft`).
* `BalanceNeverPanics`: `Valid` excludes both sanity checks and a negative balance.

  The sums are defined by taking one element after the other off a set.  The
  library's induction theorems cannot be used, so `SumUnique`, `SumExists`, `SumAdds`
  and `SumUnion` take instead the smallest set for which they would fail: strict
  inclusion of finite sets is well-founded.

`RecordReplayProofs`, for every wallet, lookahead and size of the channels, and any
order of answers, in both phases:

* `RecordReplayInvariant`: `Ready` and `IInv`.  `ReplaySame` compares the two ends of a
  history, so what the first phase leaves must be carried through the second.  The
  recorder stores an answer before it forwards it, and a transaction may be
  answered twice with different heights: `CatchesUp` says that for each key either
  the accounter has the index's value and no other is on its way, or the last one on
  its way is that value.  When `recvWork` is done nothing is on its way, and the two
  are equal.  `FileInv` follows them through `writeToFile`.  After `Load`, `ComesFrom`
  is the other half: whatever the replay holds is the index's.  The fixture takes an
  address that is not in the file to be unused, and `RangeInv` excludes it: some
  complete scan is in the index, and the replay's range stays within it.
* `RecordingIsComplete`, `MapsAreQuiet`, `RecordReplayTypes`: from `IInv`.
* `ReplayIsSame`: at the end of the replay its answers are a complete scan too, and
  `SameScan` makes it the recorded one.
* `RecordReplayImplementsFetch`: each phase is `Accounter`.  The state of either backend
  is one of `Delivery` with a single goroutine, and `Ready` is stated of it; but the
  backend under the recorder takes any request from a channel, and the fixture may
  take a response back.  Neither is a step of `Delivery`; both are stutters of
  `Accounter`, and `ReadyKept` covers them.

`SearchProofs`, for every radius, bounds and chain with `LongEnough`:

* `AnswersAreOwn`: the pending and received blocks always make up the window.
* `BoundaryIsFound`: the median of the lower bound stays at or below the target
  and that of the upper bound above it, unless the target is outside the range; then
  one of the bounds never moves.  The two end one apart, or the loop has broken.
  `MedianIsTime` shows that a median exists.  Nothing is assumed of the timestamps.
* `NeverPanics`: on a chain whose timestamps obey the consensus rule the medians never
  decrease.  `MedianCounts` says of how many blocks a median is no later;
  `NextMedian` moves a window by one block, and `MedianMonotonic` by any number.

And of `SearchReplay`, for any number of goroutines, any of which may fail, and
channels of any size:

* `SearchReplayInvariant`: `SearchReplayInv`.  The refinement mapping makes a set of
  what is in six places; a step that moves a request is a stutter of `Blockfinder`
  only if the request was in one of them and there once (`OneCopy`), which in turn
  needs the blocks of a window to be distinct from those received (`RequestsInv`).
  That the replay asks for recorded blocks only is about the whole path of the
  bisection, which no variable remembers.  `RecordInv` says instead that there is a
  set of intervals (`Path`) with the first one in it, each of which leads to
  another of the set by a median whose window is in the index, down to the one
  the search is at; once the search has ended, to the block found (`LeadsTo`).
  `Load` hands that set to `ReplayInv`, and the replay's interval is always a member.
* `SearchReplayImplementsSearch`: each step of either phase is one of `Blockfinder` or
  a stutter.
* `NoBlockIsMissing`, `ReplayIsSame`: from `ReplayInv`.  The timestamps need not be
  monotone: a recorded search that panicked leaves no file.

`StartupProofs`, for any set of connections with `"height"` and `"work"` in it, any
command lines, tips, word size and bounds:

* `InductiveInvariant`: `IInv`.  `OwnAnswer` is not inductive: that an id matches says
  nothing unless a line answers the request whose id it bears (`LinesInv`), which
  the server's actions keep.  `RightChain` needs to know at which stage a
  connection is when its genesis block has been compared (`ChainInv`), that `"work"`
  starts after `"height"` is done and that neither starts before the network is
  settled (`ControlInv`).
* `NeverMismatched`: with servers that keep to the protocol no call ends with an
  error of the protocol, although lines that nobody asked for come.  `ProtocolAt`
  says that the answer to the call that waits is the first line, and that
  notifications come only after the last request of a connection.
* `TypeCorrect`, `AnswersAreOwn`, `ChainIsRight`, `HeightIsSettled`: from `IInv`.

Only model-checked: liveness (`Terminates`, `SearchesEnd`, `Settles`), which rests on
fairness and is out of the prover's reach.  Every invariant, action property and
refinement of a passing run is a theorem.  The three violations are
counterexamples and have nothing to prove.

## Not modelled

Key derivation, scripts and parsing of transactions (vendored libraries), and
with them `keytree` and `find-address`, which are loops of one goroutine over
derivations; the text of JSON, of which only the kind of a line is kept; a
recording made over an older file that could not be replaced; the reporter, whose
counters nothing but the log reads; the table of default servers.  `NewNode`
panics on a port that begins with neither `t` nor `s`: it is one of the
malformed addresses of `options`.

## Plan

Modelling: nothing of the program's own concurrency is left out; what remains
is composition, `Startup` with `ElectrumBackend` in one module, once the
product of their states can be kept small.

Proofs: the safety properties are all theorems.  What `LongEnough` excludes is left,
chains so short that the bounds of the search wrap around, on which it ends in a
request that nobody can answer; and `NoWrap`, which a very large lookahead
violates.
