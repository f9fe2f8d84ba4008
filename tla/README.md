# feedbench: TLA+ models, checks and proofs

feedbench (`src/`) connects to several block and transaction feeds of one chain at
once, stamps every message when it is in memory, matches the same block across the
sources and reports who was first. Its output is a table of numbers, so what can go
wrong is that the numbers are about something else than the reader thinks: a block
counted twice or not at all, a winner that was not first, a measurement window in
which a source was down, a session that silently delivers nothing. This directory
models the code that decides these things.

## 1. Inventory

Everything runs in one process on one monotonic clock. Every source has an adapter,
one tokio task; the adapters send `Event`s into one bounded mpsc channel; the main
task is its only reader and owns the `Collector`.

    server -- ws.rs / tonic --> adapter task --+
    server -- ws.rs / tonic --> adapter task --+--> mpsc channel --> main loop --> Collector --> report
                                               |    (2^16 events)    (select!)

| component | state it keeps | operations | what must be true of it |
|---|---|---|---|
| Collector, windows (`stats.rs:167-200`, `277-292`) | `connected`, `ever_connected`, `reconnects`, `all_up` | Connected and Disconnected events; `in_window`, `window_seconds` | the last interval is open iff all sources are connected; the window holds no instant at which a source was down or warming up, and loses none that all cover, up to the lateness of the events |
| Collector, block table (`stats.rs:201-242`) | `blocks`, `block_events` | Block events, the printed line | the winner is the earliest; completion by the number of different sources; one line per block; replays change nothing |
| Collector, transaction table (`stats.rs:243-273`) | `txs`, `tx_events` | Tx events, `tx_summary`, `pair_summary` | matching and first arrival as for blocks, whatever the order; Nitro's block key wins; a block is in one size bucket |
| summaries (`stats.rs:294-`) | none | `block_summary(since, until)` | rolling summaries and the final one agree |
| main loop (`main.rs:163-207`) | ticker, `last_summary`, `block_intervals`, `interrupted` | a turn of `select!` over events, deadline, Ctrl-C, ticker; abort and final summary | every block in one rolling summary; the run ends; Ctrl-C is heard |
| event channel (`event.rs`, `main.rs:128`) | a bounded queue | `send` (waits when full), `recv` | the order of one source is kept; nobody waits for ever |
| Nitro adapter (`nitro.rs`) | `next_seq`, `backoff`, the session | dial, frames to events, hang up | no block lost or repeated over reconnects; honest stamps |
| Eira adapter (`eira.rs`) | `announced`, `seen_blocks`, `backoff` | dial, Ack, SourceStatus, Transaction, failure | one Block event per block; Connected only after the Ack |
| wsjson, wsraw adapters | `backoff` | dial, subscribe, messages to Tx events | dials apart; extraction of hashes and raw transactions |
| WebSocket session (`ws.rs`) | `buf`, `open`, `last_read`, `next_ping` | `connect`, `next_message`, `write` | a dial ends; messages whole and in order, stamped by their last byte, within the limit; pings go on; silence and stalls end a session |
| inflater (`inflate.rs`) | the zlib context, `ended` | `inflate_message` | in step with the server's compressor |
| L2 walk (`l2.rs`), RLP split (`wsraw.rs`), report (`report.rs`), arguments | none | pure functions | every transaction of a message, whole and once; percentiles that are samples; the right date |

What is hard to test: adapters and main loop interleave at every `.await`; an event is
stamped when it arrives and handled when the main loop gets to it, so the Collector sees
events of different sources out of the order of their stamps; ticks, the deadline and
SIGINT race with events; the channel may be full; sources flap and replay; timers are made
anew inside loops. `PROJECT.json` lists each such hazard with its line and the
properties that would catch it.

## 2. Plan

Most important first: what decides the numbers, then what feeds it.

1. `Windows`, `WindowsRun`: the measurement window (done, proved).
2. `Blocks`, `BlocksRun`, `BlockRace`: the block table and its abstract specification (done, proved).
3. `Feed`, `FeedRun`: adapters, channel, main loop; composes 1 and 2 (done, safety and refinement proved).
4. `WsTimers`, `WsMessages` (done, safety proved).
5. `Redial`, `Cursor` (done, safety proved).
6. `Txs`, `TxsRun`: the transaction table, `tx_summary`, `pair_summary` with its buckets (done, proved).
7. `L2`, `RawTxs`, `Ranks`, `Dates`, `Decoders`: pure functions against reference definitions (done, proved).
8. What remains unproved: liveness (see 5).

No module declares a RECURSIVE operator: recursion is in functions, about which the
provers can reason.

## 3. Modules and the code

| module | models | correspondence |
|---|---|---|
| `Windows` | the handlers of Connected and Disconnected | one operator per match arm of `on_event`, plus `in_window` and `window_seconds` |
| `WindowsRun` | every order in which connection events can reach them | stamps of one source never decrease; an event is at most `MaxSkew` older than the newest one handled |
| `Blocks` | the arm for Block events | `Record` is lines 226-233, `OnBlock` the whole arm; `lines` is what was printed |
| `BlocksRun` | every order of deliveries, with replays | as `WindowsRun`; the disorder is not even bounded per source |
| `BlockRace` | abstract specification: a board of first deliveries, a winner among the earliest, the set of announced blocks | `BlocksRun!RefinesRace` maps records to rows of the board |
| `Feed` | adapters, channel, the turns of `select!`, what follows the loop | an action per step between two awaits: an adapter makes a batch (`outbox`), `Send` is `out.send`, `Recv`, `Tick`, `Stop`, `CtrlC` are the branches of `select!`, `Park` is a poll in which none is ready |
| `FeedRun` | `Feed` with a clock and bounds | `MaxLag` is the assumption on the machine: no event waits longer between stamp and handling; `MaxBatch` bounds the blocks of one message; with `Ceaseless` an adapter sends for ever (Eira's failed dials, each a Disconnected, stand for all such traffic: they add nothing to the tables) |
| `WsTimers` | `next_message` and `write`, as far as time goes | timers counted down; `parse` is the inner loop over the complete frames in the buffer (`buffered`), which can answer several pings one behind the other before the next `select!`; `select!` is a state in which a due timer or bytes may be served |
| `WsMessages` | `parse_frame`, `data_frame`, `finish`, `inflate_message` | a frame is two units, header and payload, and a read brings any number of units; the inflater's window is the number of messages it can refer back to |
| `Redial` | `Client::connect` and the loops of the four adapters around a session | seconds; a phase per step of a dial, with its timeout (`ws.rs:226`, `230`, `262`, `eira.rs:118`) or, where the request is written (`ws.rs:252`), without; `head` is what was read of the response, in units of one read; `retry_delay` with its three cases; wsjson and wsraw are one (`"ws"`) |
| `Cursor` | `next_seq` and a server with a backlog | `Top` stands for `u64::MAX` |
| `Txs` | the arm for Tx events, `tx_summary`, `pair_summary` | `OnTx` is the whole arm; a count of a summary is the set it counts (`Matched`, `Firsts`, `FirstBy1ms`, `Rows`, `bucket_rows`); the window is a constant set of instants; `setup` is the kind of every source and the reference |
| `TxsRun` | every order of deliveries of the transactions of some blocks | a Nitro source sends key and count, Eira a key, for each transaction the sequence number's or the block number's (`eira.rs:187`), and the swap flag, the others neither |
| `L2` | `signed_txs` and `walk` | bytes of a small alphabet; `walk` is a function of the depth and the message, `entries` the loop over the entries of a batch |
| `RawTxs` | `split_txs`, `tx_len`, `rlp_item_len` | the classes of first bytes are constants; lengths wrap at the width of `usize` |
| `Ranks` | `nearest_rank`, `median` | whole numbers; `median2` is twice the median |
| `Dates` | the date in `utc_string` | the same divisions |
| `Decoders` | inputs for these four | a message, a list of pieces, a sequence of samples or a date grows by a step: a message becomes the first entry of a batch (`Enclose`), a batch gets a transaction or something else as one more entry (`Join`), or a batch (`Nest`). The reference definitions are over the entries, the pieces, the samples and the calendar |
| `WindowsProofs`, `BlocksProofs`, `WsTimersProofs`, `TxsProofs`, `AdaptersProofs` (of `Redial` and `Cursor`), `DecodersProofs`, `FeedProofs`, `WsMessagesProofs` | the strengthening of each invariant, where it is not stated beside the model | the theorems of section 5 |
| `MC*` | constants for TLC | |

Operators named `X_Something` beside an operator `X` are mutants: what `X` would be with a
plausible bug. Each property has one that violates it.

Abstractions. Bytes, masks, names, hashes, texts and JSON are left out; a key is a model
value. Instants are small numbers. A batch of events made of one message carries one stamp.
A failed dial of a Nitro adapter sends nothing and is a step of `Redial` only, as are the
pauses. Transaction events are in `TxsRun` only: they take part in no decision about blocks
or connections, so `Feed` leaves them out. The step from a dial that stands to a message
is in `WsMessages` (bytes that came with the handshake). In `WsTimers` a stalled peer takes no byte
at all; bytes the kernel still buffers delay the moment at which it counts as stalled.
`ws.rs` appears in `Feed` through `last_read` alone. `tokio::signal`, the timers, the server
and its compressor are not in this repository; they are modelled from how the code uses them
and marked external in the map.

## 4. Runs

All runs are exhaustive. Deadlock is not checked where the bounds, or the end of the run or
session, stop the system; `Redial` never stops, and there it is checked.

| run | asks | bounds, and why they are enough |
|---|---|---|
| `Windows` | do the invariants of the window hold when events come out of order? | 2 sources, 5 instants, lateness 1, one reconnect each, warm-up 1: two intervals, overlapping or not, one of them shorter than its warm-up. The theorems drop the bounds |
| `Blocks` | winner, completion, line, and the abstract race | 3 sources of which 2 are required, 2 blocks, 2 deliveries by each source, lateness 1: replay, late delivery after completion, ties. The theorems drop the bounds |
| `FeedRolling` | do the rolling summaries add up to the table of the run, what does the end drop, and does the Collector meet only the orders that `WindowsRun` and `BlocksRun` allow? | 1 Nitro and 1 Eira source, 1 block, 4 adapter steps each (connect, announce, deliver, hang up), a message with the block or, replayed, with it twice (`MaxBatch` 2), `seen_blocks` cleared at once, 3 instants, ticks at 1 and 2, so that a burst of two occurs; capacity 1, so that sending waits |
| `FeedEnds` | is every sender served, however long the run, and does the run end? | 2 steps per adapter, and Eira's failures without end, so that the loop need never run out of events; capacity 1, so that both adapters can wait for the one slot; a SIGINT at any moment |
| `WsMessages` | whole messages, stamps, limits, inflater | 3 frames of every kind, sizes below, at and above the limit, every compression, reads that cut anywhere, bytes that came with the handshake: fragments with a frame between them, a finished stream followed by a back reference |
| `WsTimers` | is a stall noticed, do pings go on? | periods 3, 4 and 2: pings more frequent than the read timeout, as every adapter has them, and a write that takes most of a ping's period; up to 2 frames in the buffer, so that pongs follow each other and a call begins with one. `StallBounded` drops the bounds |
| `Redial` | backoff, Retry-After, pauses; does a dial end? | the constants of the code in seconds (1, 10, 15, 30, 45); Retry-After 0, 3 and 60; failures counted to 6, where the backoff has reached its cap; a head that may take two reads before it is too long; a request that is never taken |
| `Cursor` | nothing lost, nothing repeated | numbers 0 to 4, 0 or 3 blocks at the start, any number of reconnects, servers that honour the cursor and servers that do not. The theorems drop the bounds |
| `Txs` | do the tables say of a transaction what its deliveries say? | 3 sources in four mixes of kinds, a block of two transactions, each of which Eira names by either key of the block, also differently in a repeat, and a transaction that moved from one block to another; 2 events per source, 2 instants, one in the window and one not, a lead of 1. The two transactions are interchangeable, and so are the two blocks of the third: these are the symmetries. The theorems drop the bounds |
| `Decoders` | do the pure functions compute what they are meant to? | L2 messages of up to 21 bytes, of sixteen values, that reach below the depth limit and above the size limit, the outermost message cut at every byte; frames of up to 3 of 14 pieces under every prefix, among them lengths that wrap; up to 20 samples of 3 values; every day from 1970 to 2400, so that an era of 400 years is complete. The theorems drop the bounds |

Two runs show that something the repository says does not hold:

* `FeedCtrlC`: `tokio::signal::ctrl_c()` is called anew at every turn of `select!`
  (`main.rs:189`), and its handler, once installed, stays. A SIGINT that comes while an event is being
  handled finds no listener and is lost; a second one is needed. README.md:104 says "Ctrl-C
  stops early".
* `WsTimersSilence`: `timeout(read_timeout, ..)` at `ws.rs:353` is made anew at every turn
  of the loop, and the ping every 20 s ends a turn long before 60 s are over. The error "no
  data for 60s" cannot be raised (theorem `ReadTimeoutIsDead`); a server that answers at the
  TCP level but sends nothing is kept for ever, while the source counts as connected. What
  does end such a session is a write that cannot be done (`StallNoticed`).

Other places where the code is less exact than its comments, met while modelling. They
are stated as weaker properties that do hold:

* `stats.rs:132` calls `all_up` the "intervals during which every source was connected". That
  is so when events are handled in the order of their stamps (`AllUpExact`, theorem
  `OrderedExact`); otherwise an interval is wrong by at most the lateness of the events
  (`InWindowSound`, `InWindowComplete`, `WindowSecondsNear`).
* The rolling summary at `main.rs:194` covers stamps up to now but sees what was handled by
  now. A block that completed before the tick and is handled after it belongs to an interval
  that is over, and no rolling summary counts it (`stats.rs:294`: "completed blocks whose
  completion falls in `(since, until]`"). `RollingMissesOnlyLate` says that this is all that is
  lost, `CountedOnce` that nothing is counted twice, `FinalMissesOnlyLate` that the end of the
  run loses no more.
* A list whose stated length leaves `usize` (`wsraw.rs:73`) is taken for a shorter one in a
  build without overflow checks, so that a frame can be split into items that are no transactions,
  where `wsraw.rs:103` says "Returns nothing if the frame is not a run of transactions".
  `SplitExact` names the bytes of the frame where that can happen (`Wrapping`) and allows it for an
  item that begins at one of them, and for no other: what the payload of a transaction holds
  does not matter. The run `Decoders` has such a frame.
* The request of the handshake is written with no timeout (`ws.rs:252`), unlike every other step of
  a dial and every later write; `DialEnds` names this exception.
* Eira names a transaction by its block's number when the update carries no sequence number
  (`eira.rs:187`). Without Nitro sources one block can so have rows under two keys, and the pair
  table counts it under each (`stats.rs:447-455`). `BlocksInBuckets` says that this is the only way
  to count a block twice, and that the rows of one key are in one bucket all the same.
* A transaction that two blocks carried keeps the key that the first Nitro event gave it, but
  the count of the last (`stats.rs:256-262`). `AttributionOrderless` gives the exact block and
  size for a transaction of one block, and `BlocksInBuckets` speaks of blocks that share none.
* The opening of Eira's stream has no timeout (`eira.rs:138`); `DialEnds` ends at the connect.
* With `--min-sources` below the number of sources, the block line is printed before the
  last source is heard, and one that is handled later with an older stamp still wins in the
  tables. `LineNearlyRight` bounds the difference; with all sources required the printed
  winner is final (`PrintedWinnerWins`, theorem `PrintedWinnerFinal`).
* Eira's backoff is never reset (`eira.rs:109`); `BackoffFollowsFailures` therefore only says
  "at least" for Eira.
* A subscription that cannot be sent is dialed again with no pause (`wsjson.rs:142`,
  `wsraw.rs:171`); `DialsApart` names this exception and `Retry-After: 0`.
* A frame with one l2Msg that does not decode is dropped with its good blocks, and the
  cursor passes them (`nitro.rs:137-140`); `NothingMissing` names this exception.

### Fairness

`Redial!FairSpec`: weak fairness of the clock and of `GivesUp`, the failure of a dial whose
timeout is over or whose head is too long: a timer that is over completes its future. Nothing
is assumed of servers, which may send the head byte by byte for as long as they like, nor of the
writing of the request; `DialEnds` holds because the head is limited.

`FeedRun!FairSpec`: weak fairness of the clock, of `Recv` and of `Tick`, the branches of the
loop that stay ready (`select!` polls its branches in a random order, so a branch that is always
ready is taken sooner or later); strong fairness of each `Send`, because the channel is
free only from time to time and others take the slot (tokio serves waiting senders in order). Nothing
is assumed of servers, adapters or SIGINT, and nothing of the deadline: `SendersServed` must
hold however long the run, and an end of the run is no help to it. `RunEnds` takes the fairness of
the deadline's branch as its hypothesis (`StopServed`), against traffic that keeps the other
branch ready at every turn.

`WsTimers!FairSpec`: strong fairness of the clock (time goes on, also between frames); weak fairness of
the adapter coming back, of the parsing of what is buffered, of a write
ending and of a timeout that stays due; strong fairness of `PingDue`, because the ping is due at every turn but
bytes can win any one of them: again the random order of `select!`. Nothing is assumed of
the peer.

## 5. Proofs

Proved for every value of the constants, under the assumptions the modules name. Sources
and keys are arbitrary finite sets, the disorder (`MaxSkew`) and the bounds are arbitrary.

* `WindowsProofs`: the invariant `IInv` of `WindowsRun` adds to the properties what makes
  them inductive. To know that an instant in an interval is covered by a session of every source one
  has to know, when the interval is closed, that each source has a session that began before
  it (`OpenSound`, `ClosedSound`), and that needs the stamps to be in order for each source
  (`StampsOrdered`, `IntervalsEnded`). From it: `OpenIntervalCorrect`, `WindowSound`,
  `WindowComplete`, `OverlapBounded`, `VerdictFinal` (an action property), and `OrderedExact`
  for `MaxSkew = 0`. `WindowLength` is about the sum the report divides by: each interval
  gives the instants from the end of its warm-up (`Given`), shares at most `MaxSkew` of them with
  those before (`SharedLemma`), and the sum grows by one interval at a time (`NearStep`, by
  induction over their number). It assumes that instants have no gaps (`InstantsConsecutive`),
  since lengths are differences of instants and the window is a set of them.
* `BlocksProofs`: `IInv` of `BlocksRun` adds that `seen` is the number of sources that
  delivered (`SeenCounts`, a fact on cardinalities) and that nothing is newer than the newest
  stamp. From it the six invariants, `RecordsPermanent`, `PrintedWinnerFinal` (for
  `MinSources = Cardinality(Source)`), and `TableImplementsRace`: initial states map to
  initial states, every step to a first delivery or a stutter.
* `TxsProofs`: `IInv` of `TxsRun` says of each record that it agrees with everything heard of
  its transaction (`RecordsAgree`): arrivals are the first stamps of each source, `seen` their number,
  `first` the least, key, count and flag those of some event with the say. `NitroNames` and
  `EiraNames` say which block an event can name; no two keys need differ, and Eira may name any
  transaction by either key of its block. `EiraSize` bounds the size of a row by the transactions
  that were given its key. From it `AttributionCorrect`, `FirstsCorrect` and
  `BucketsCorrect`; `RecordsSettle` is an action property.
* `AdaptersProofs`, dialing: what is left of a sleep covers what the server asked for, and an adapter
  that is awake owes nothing (`Owed`); a sleep that is over lasted a second or was one the
  server said to skip (`Rested`). From them `RateLimitCorrect` and `DialsCorrect`.
  `BackoffCorrect` needs the powers of two for any cap: they are the sizes of sets of subsets
  (`Powers`), and a doubling cut off at the cap is the power cut off there (`NextBackoff`).
  It assumes that the model counts failures until the cap is reached (`BoundIsAboveCap`).
  The cursor of `Cursor`: `IInv` relates the cursor to the position in the stream without a maximum
  (`AtCursor`), says that what was seen is behind the position on a server that honours the cursor
  (`Ahead`), and accounts for every block behind the cursor (`Behind`). From it `CursorCorrect`,
  `ReplayCorrect`, `GapsCorrect`.
* `WsTimersProofs`: if pings come more often than the read timeout, counting `MaxLate`
  (`PingsAreFrequent`, true of 20 s and 60 s), the timer of the read stays ahead of the ping's by their
  difference (`PingFirst`), and how far a stall got is bounded by the ping's
  timer (`StallProgress`). From it `ReadTimeoutIsDead`, for such periods; `StallBounded` holds for any,
  however many pongs are owed: only the first write to a stalled peer counts.
* `FeedProofs`: `PipelineInv` follows the events from their stamps to the Collector. A batch
  carries one stamp and is its task's own (`BatchesUniform`); what waits is at most `MaxLag`
  old (`WaitingRecent`); the connection events of a source are in the order of their stamps in the
  Collector, the channel and the batches (`ConnInOrder`); nothing is counted that no step of an
  adapter made (`NoneInvented`, so that the bounds of `WindowsRun` and `BlocksRun` are kept). These are
  the guards of `WindowsRun` and `BlocksRun`: `WindowsInside` and `BlocksInside` say that every step
  of the pipeline is one of theirs or a stutter, and their invariants hold inside it. With them
  `SummaryInv`: the rolling intervals chain (`SummariesChain`), a summary counts what completed in its
  interval and keeps it (`CountedInInterval`), what it misses completed shortly before its end
  (`MissedIsLate`), what was sent has arrived or waits (`SentArrives`). From it `CountedInOne`,
  `RollingComplete`, `RollingKept` and `FinalComplete`. `ReportCorrect` puts the parts together: a
  block of the final report was delivered by enough sources, is credited to one that delivered it
  no later than any other, and came first at an instant around which every source was connected
  and warm, up to `MaxLag`. `WindowInside` and `TableInside` carry the theorems of the two
  Collector modules over to the pipeline, and `RaceInside` composes the two refinements: the
  whole pipeline, seen through its block table, is a behaviour of `BlockRace`.
* `DecodersProofs`: the pure functions, for inputs of any size and the constants of the code as
  well as those of the run. The recursive functions of the models are shown to exist by two
  lemmas on recursion upward and downward (`Upward`, `Downward`).
  - Walk (`SignedTxsCorrect`): every state knows the positions at which the entries of its
    message end and what the walk finds in each (`MessageRight`). The walk reads an entry iff it is
    whole in what is left of a cut message and not too large, so it gathers
    the entries before the first that is not (`Kept`, `Gathered`, `BatchLemma`), at every depth.
  - Splitting (`SplitCorrect`): what `run_of` returns lies in the frame piece after piece, each
    behind its length and each a transaction (`RunSound`); and pieces that lie so are what it
    returns (`RunComplete`), because the first byte and the length decide where a transaction
    ends (`TxLemma`). The size of prefix chosen is the first that fits, so a frame is
    split differently only if it also reads as a run for a size that is tried before. An item
    that is taken is a transaction or begins where a sum wraps (`ItemLemma`, `PieceRight`); a
    transaction is taken, since a list that ends within a frame shorter than `usize` cannot wrap
    (`TooLongLemma`). The property has no other hypothesis on the bytes of the frame.
  - Percentiles (`PercentilesCorrect`): in a sequence in order, the samples up to the one of
    rank r are at least r and those below it at most r - 1, by counting intervals of positions.
  - Dates (`DatesCorrect`): a day has coordinates era, century, four-year period, year and month counted from
    March, which `civil` computes (`Dated`); the calendar's next day has the next coordinates
    (`NextDay`). The property holds for every year, not the four centuries of the run.
  Assumed of the constants: `LengthAssumption` (the lengths of the messages built can be spelt in
  `LenSize` bytes, eight in the code), `ClassAssumption` and `SplitAssumption` (the boundaries
  0x80, 0xb8, 0xc0, 0xf8 and 256 = 0xf8 + 8), and `UsizeAssumption` (a `usize` holds what `Word`
  bytes spell: eight bytes, on a 64-bit target). TLC evaluates them on the constants of the run.
* `WsMessagesProofs`: the open message is what has come of an unfinished message of the server
  (`OpenRight`), what was returned is genuine, in order and all there is (`DeliveredRight`,
  `DeliveredAll`), and the messages the inflater can refer back to are those the server can
  (`ServerKept`, `WindowRight`). From it `WholeMessages`, `Stamped` (a complete frame in the buffer
  was completed by the last read, `BufferFresh`), `WithinLimit` and `InStep`.

Each proof has a lemma for Init, one for the step with a case per action, and a theorem that
combines them by temporal logic. The runs check the same properties on small instances; each
strengthening was checked by TLC on the constants of those runs before it was proved.

The type invariants (`TypeOK`) are proved, not run: `TypeCorrect` (`CursorTypeCorrect`) of each
component with a state of its own. The inputs of `Decoders` have their types in the invariants of
its proofs (`MessageRight`, `FrameInv`, `SamplesInv`, `DateInv`).

Induction over numbers is done on sets (`AllNumbers` in `WindowsProofs`: a set with 0 and the
successors of its members is `Nat`), since the library's induction theorems take an operator.
That a recursive function exists is proved the same way, for any table of steps (`Upward`,
`Downward` in `DecodersProofs`).

Every invariant and every refinement that a passing run checks is the statement of a theorem. Only
model-checked: liveness (`RunEnds`, `SendersServed`, `PingsGoOn`, `DialEnds`: fairness and
ENABLED are out of the prover's reach), and the two properties that runs refute. The theorem
`ReportCorrect` is about a state predicate that no run lists (it follows from those that
runs do).

## 6. Not modelled

The layout of the report, the percentages, the split of a pair table into intervals, the
arguments, the text of the handshake (URL, HTTP head, the negotiation of compression, whose result
is the mode of `WsMessages`), JSON paths, JSON and base64 (formatting and parsing; their results
are constants or inputs of the modules), keccak256, DEFLATE itself, TLS, gRPC, the pinger task of
Eira (the server's view of it is not in this repository), the build script and vendored data.
