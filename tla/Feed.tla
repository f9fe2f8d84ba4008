-------------------------------- MODULE Feed --------------------------------
(***************************************************************************)
(* The pipeline of feedbench: adapter tasks that stamp events and send     *)
(* them into one bounded channel (src/src/nitro.rs, src/src/eira.rs), and  *)
(* the main loop (src/src/main.rs) that takes them out one by one, applies *)
(* the handlers of the Collector (Windows, Blocks), prints a rolling       *)
(* summary at every tick and stops at the deadline or on Ctrl-C.           *)
(*                                                                         *)
(* Transaction events are left out; of a frame only the blocks it carries  *)
(* are kept.  A failed connection attempt of a Nitro adapter leaves no     *)
(* trace in the channel and is not an action.                              *)
(***************************************************************************)
EXTENDS Naturals, Sequences, FiniteSets

CONSTANTS Nitro,       \* the --source feeds
          Eira,        \* the --eira stream, at most one in the program
          Key,         \* block keys
          Message,     \* the blocks a feed message may carry, in order
          Instant,     \* the instants of the one monotonic clock
          NoInstant,   \* Rust's None for an Option<Instant>
          NoKey,       \* the key of an event that is not a Block
          Warmup,      \* --warmup
          MinSources,  \* --min-sources
          Interval,    \* --summary-interval
          Deadline,    \* --seconds
          StampMode,   \* --stamp: "arrival" or "decoded"
          MaxSeen,     \* size at which eira.rs clears seen_blocks
          Capacity     \* of the channel

Source == Nitro \cup Eira

ASSUME SourceAssumption   == Source # {} /\ IsFiniteSet(Source) /\ Nitro \cap Eira = {}
ASSUME MinAssumption      == MinSources \in 1 .. Cardinality(Source)
ASSUME KeyAssumption      == NoKey \notin Key /\ Message \subseteq Seq(Key)
ASSUME InstantAssumption  == Instant \subseteq Nat /\ NoInstant \notin Nat
ASSUME WarmupAssumption   == Warmup \in Nat
ASSUME IntervalAssumption == Interval \in Nat \ {0} /\ Deadline \in Nat
ASSUME CapacityAssumption == Capacity \in Nat \ {0}
ASSUME StampAssumption    == StampMode \in {"arrival", "decoded"}

VARIABLES now,             \* Instant::now()
          link,            \* link[s]: "down", "open" (no Connected sent yet) or "up"
          last_read,       \* ws.rs: instant of the read that last added bytes to the buffer
          seen_blocks,     \* eira.rs: keys the session has sent a Block event for
          outbox,          \* events of the task's current batch not yet in the channel
          channel,         \* the mpsc channel
          connected, ever_connected, reconnects, all_up,    \* Collector, see Windows
          blocks, block_events, lines,                      \* Collector, see Blocks
          pc,              \* the loop: "top", "parked" in select!, or "done"
          armed,           \* the handler of SIGINT is installed
          fired,           \* the listener of this select! has been told of a SIGINT
          signalled,       \* a SIGINT was delivered
          next_tick,       \* the ticker's next instant
          last_summary,    \* end of the last rolling interval
          block_intervals, \* the rolling summaries: [since, until, counted]
          interrupted,     \* stopped by Ctrl-C
          matched          \* the blocks of the final report

adapterVars   == <<link, last_read, seen_blocks, outbox>>
collectorVars == <<connected, ever_connected, reconnects, all_up, blocks, block_events, lines>>
loopVars      == <<pc, armed, fired, next_tick, last_summary, block_intervals, interrupted, matched>>
feedVars      == <<now, adapterVars, channel, collectorVars, loopVars, signalled>>

Win == INSTANCE Windows
Blk == INSTANCE Blocks

FeedInit ==
    /\ now             = 0
    /\ link            = [s \in Source |-> "down"]
    /\ last_read       = [s \in Nitro |-> 0]
    /\ seen_blocks     = [s \in Eira |-> {}]
    /\ outbox          = [s \in Source |-> <<>>]
    /\ channel         = <<>>
    /\ Win!WindowsInit
    /\ Blk!BlocksInit
    /\ pc              = "top"
    /\ armed           = FALSE
    /\ fired           = FALSE
    /\ signalled       = FALSE
    /\ next_tick       = Interval
    /\ last_summary    = 0
    /\ block_intervals = <<>>
    /\ interrupted     = FALSE
    /\ matched         = {}

Event(s, kind, k, t) == [source |-> s, kind |-> kind, key |-> k, t |-> t]

-----------------------------------------------------------------------------
(***************************************************************************)
(* The adapter tasks.  A task is sequential: it waits in out.send until    *)
(* the whole batch is in the channel before it reads on.                   *)
(***************************************************************************)
Idle(s) == pc # "done" /\ outbox[s] = <<>>

Emit(s, batch) == outbox' = [outbox EXCEPT ![s] = batch]

\* A Nitro adapter: Client::connect succeeds; what the server sent along with
\* the handshake stays in the buffer, read at this instant.
Handshake(s) ==
    /\ s \in Nitro /\ Idle(s) /\ link[s] = "down"
    /\ link'      = [link EXCEPT ![s] = "open"]
    /\ last_read' = [last_read EXCEPT ![s] = now]
    /\ UNCHANGED <<seen_blocks, outbox>>

\* ... and Connected is stamped and sent.
Announce(s) ==
    /\ s \in Nitro /\ Idle(s) /\ link[s] = "open"
    /\ link' = [link EXCEPT ![s] = "up"]
    /\ Emit(s, <<Event(s, "connected", NoKey, now)>>)
    /\ UNCHANGED <<last_read, seen_blocks>>

\* Mutant: a frame carries the stamp of the read before.
Frame_OldStamp(s, m, read) ==
    /\ s \in Nitro /\ Idle(s) /\ link[s] = "up"
    /\ read \in {now, last_read[s]}
    /\ last_read' = [last_read EXCEPT ![s] = read]
    /\ Emit(s, [i \in DOMAIN m |-> Event(s, "block", m[i], last_read[s])])
    /\ UNCHANGED <<link, seen_blocks>>

\* A message completes, in bytes read now or with an earlier read; the blocks
\* of one message carry one stamp.  An unparsable one carries no block.
Frame(s, m, read) ==
    /\ s \in Nitro /\ Idle(s) /\ link[s] = "up"
    /\ read \in {now, last_read[s]}
    /\ last_read' = [last_read EXCEPT ![s] = read]
    /\ LET t == IF StampMode = "arrival" THEN read ELSE now
       IN  Emit(s, [i \in DOMAIN m |-> Event(s, "block", m[i], t)])
    /\ UNCHANGED <<link, seen_blocks>>

\* Mutant: the session is said to have ended with its last read.
Hangup_Backdated(s) ==
    /\ s \in Nitro /\ Idle(s) /\ link[s] = "up"
    /\ link' = [link EXCEPT ![s] = "down"]
    /\ Emit(s, <<Event(s, "disconnected", NoKey, last_read[s])>>)
    /\ UNCHANGED <<last_read, seen_blocks>>

\* next_message fails.
Hangup(s) ==
    /\ s \in Nitro /\ Idle(s) /\ link[s] = "up"
    /\ link' = [link EXCEPT ![s] = "down"]
    /\ Emit(s, <<Event(s, "disconnected", NoKey, now)>>)
    /\ UNCHANGED <<last_read, seen_blocks>>

\* The Eira adapter: the stream is open, nothing is announced before its Ack.
Subscribe(s) ==
    /\ s \in Eira /\ Idle(s) /\ link[s] = "down"
    /\ link'        = [link EXCEPT ![s] = "open"]
    /\ seen_blocks' = [seen_blocks EXCEPT ![s] = {}]
    /\ UNCHANGED <<last_read, outbox>>

Ack(s) ==
    /\ s \in Eira /\ Idle(s) /\ link[s] = "open"
    /\ link' = [link EXCEPT ![s] = "up"]
    /\ Emit(s, <<Event(s, "connected", NoKey, now)>>)
    /\ UNCHANGED <<last_read, seen_blocks>>

\* A SourceStatus of the wanted commitment, ignored before the Ack.
SourceStatus(s, kind) ==
    /\ s \in Eira /\ Idle(s) /\ link[s] = "up"
    /\ kind \in {"connected", "disconnected"}
    /\ Emit(s, <<Event(s, kind, NoKey, now)>>)
    /\ UNCHANGED <<link, last_read, seen_blocks>>

\* A transaction of block k: the first one of a block is its Block event, also
\* before the Ack.
Transaction(s, k) ==
    /\ s \in Eira /\ Idle(s) /\ link[s] # "down"
    /\ LET seen == IF Cardinality(seen_blocks[s]) > MaxSeen THEN {} ELSE seen_blocks[s]
       IN  /\ seen_blocks' = [seen_blocks EXCEPT ![s] = seen \cup {k}]
           /\ Emit(s, IF k \in seen THEN <<>> ELSE <<Event(s, "block", k, now)>>)
    /\ UNCHANGED <<link, last_read>>

\* The session fails, or was never opened: a Disconnected event in any case.
Fail(s) ==
    /\ s \in Eira /\ Idle(s)
    /\ link' = [link EXCEPT ![s] = "down"]
    /\ Emit(s, <<Event(s, "disconnected", NoKey, now)>>)
    /\ UNCHANGED <<last_read, seen_blocks>>

\* Mutant: try_send, which drops the event when the channel is full.
Send_Drops(s) ==
    /\ pc # "done" /\ outbox[s] # <<>>
    /\ channel' = IF Len(channel) < Capacity THEN Append(channel, Head(outbox[s])) ELSE channel
    /\ outbox'  = [outbox EXCEPT ![s] = Tail(@)]
    /\ UNCHANGED <<link, last_read, seen_blocks>>

\* out.send gets a slot of the channel.
Send(s) ==
    /\ pc # "done" /\ outbox[s] # <<>> /\ Len(channel) < Capacity
    /\ channel' = Append(channel, Head(outbox[s]))
    /\ outbox'  = [outbox EXCEPT ![s] = Tail(@)]
    /\ UNCHANGED <<link, last_read, seen_blocks>>

-----------------------------------------------------------------------------
(***************************************************************************)
(* The main loop.  Each turn of select! creates its futures anew; it takes *)
(* one of the branches that are ready, or parks until one is.              *)
(***************************************************************************)
Collect(e) ==
    CASE e.kind = "connected" ->
             Win!OnConnected(e.source, e.t) /\ UNCHANGED <<blocks, block_events, lines>>
      [] e.kind = "disconnected" ->
             Win!OnDisconnected(e.source, e.t) /\ UNCHANGED <<blocks, block_events, lines>>
      [] e.kind = "block" ->
             /\ Blk!OnBlock(e.source, e.key, e.t)
             /\ UNCHANGED <<connected, ever_connected, reconnects, all_up>>

\* Mutant: a block is counted by its first arrival, not by its completion.
Counted_ByFirst(since, until) ==
    {k \in DOMAIN blocks :
        /\ blocks[k].completed_at # NoInstant
        /\ blocks[k].first <= until
        /\ blocks[k].first > since
        /\ Win!in_window(blocks[k].first)}

\* Mutant: the window is asked about the completion.
Counted_DoneInWindow(since, until) ==
    {k \in DOMAIN blocks :
        /\ blocks[k].completed_at # NoInstant
        /\ blocks[k].completed_at <= until
        /\ blocks[k].completed_at > since
        /\ Win!in_window(blocks[k].completed_at)}

\* The blocks that block_summary counts in the interval (since, until].
Counted(since, until) ==
    {k \in DOMAIN blocks :
        /\ blocks[k].completed_at # NoInstant
        /\ blocks[k].completed_at <= until
        /\ blocks[k].completed_at > since
        /\ Win!in_window(blocks[k].first)}

\* The next turn of the loop: a new ctrl_c() future hears no earlier signal.
Turn ==
    /\ pc'    = "top"
    /\ fired' = FALSE

\* Mutant: an event does not wake the loop.
Recv_NoWakeup ==
    /\ pc = "top" /\ channel # <<>>
    /\ Collect(Head(channel))
    /\ channel' = Tail(channel)
    /\ Turn
    /\ UNCHANGED <<now, adapterVars, armed, signalled,
                   next_tick, last_summary, block_intervals, interrupted, matched>>

Recv ==
    /\ pc # "done" /\ channel # <<>>
    /\ Collect(Head(channel))
    /\ channel' = Tail(channel)
    /\ Turn
    /\ UNCHANGED <<now, adapterVars, armed, signalled,
                   next_tick, last_summary, block_intervals, interrupted, matched>>

\* Mutant: the next interval begins when this tick was due, not when it came.
Tick_Schedule ==
    /\ pc # "done" /\ now >= next_tick
    /\ block_intervals' = Append(block_intervals,
                                 [since |-> last_summary, until |-> now,
                                  counted |-> Counted(last_summary, now)])
    /\ last_summary' = next_tick
    /\ next_tick'    = next_tick + Interval
    /\ Turn
    /\ UNCHANGED <<now, adapterVars, channel, collectorVars, armed, signalled, interrupted, matched>>

\* The rolling summary.  Missed ticks come in a burst.
Tick ==
    /\ pc # "done" /\ now >= next_tick
    /\ block_intervals' = Append(block_intervals,
                                 [since |-> last_summary, until |-> now,
                                  counted |-> Counted(last_summary, now)])
    /\ last_summary' = now
    /\ next_tick'    = next_tick + Interval
    /\ Turn
    /\ UNCHANGED <<now, adapterVars, channel, collectorVars, armed, signalled, interrupted, matched>>

\* What follows the loop: the tasks are aborted, what is still in the channel
\* is dropped, and the whole run is summarised.  (completed_at > since holds
\* for since = None.)
Finish ==
    /\ pc'      = "done"
    /\ fired'   = FALSE
    /\ matched' = {k \in DOMAIN blocks :
                      /\ blocks[k].completed_at # NoInstant
                      /\ blocks[k].completed_at <= now
                      /\ Win!in_window(blocks[k].first)}
    /\ UNCHANGED <<now, adapterVars, channel, collectorVars, armed, signalled,
                   next_tick, last_summary, block_intervals>>

\* Mutant: `biased;` in the select!, the deadline after the events.
Stop_Biased ==
    /\ pc # "done" /\ now >= Deadline /\ channel = <<>>
    /\ Finish
    /\ UNCHANGED interrupted

Stop ==
    /\ pc # "done" /\ now >= Deadline
    /\ Finish
    /\ UNCHANGED interrupted

CtrlC ==
    /\ pc = "parked" /\ fired
    /\ interrupted' = TRUE
    /\ Finish

\* No branch was ready when polled (or the task has used up its budget of
\* polls and yields): the ctrl_c() future of this turn now listens.
Park ==
    /\ pc = "top"
    /\ pc'    = "parked"
    /\ armed' = TRUE
    /\ UNCHANGED <<now, adapterVars, channel, collectorVars, fired, signalled,
                   next_tick, last_summary, block_intervals, interrupted, matched>>

\* SIGINT, once the handler is installed (before, it kills the process): the
\* runtime tells the listeners there are.
Sigint ==
    /\ pc # "done" /\ armed /\ ~signalled
    /\ signalled' = TRUE
    /\ fired'     = (pc = "parked")
    /\ UNCHANGED <<now, adapterVars, channel, collectorVars, pc, armed,
                   next_tick, last_summary, block_intervals, interrupted, matched>>
=============================================================================
