------------------------------ MODULE FeedRun ------------------------------
(***************************************************************************)
(* The pipeline of Feed with a clock, a bounded number of events and at    *)
(* most one SIGINT.  MaxLag is the assumption on the machine: no event     *)
(* waits longer between its stamp and its processing.                      *)
(*                                                                         *)
(* The history variables are those of WindowsRun and BlocksRun, so that    *)
(* the Collector inside the pipeline can be shown to meet only the orders  *)
(* of events that those modules assume.                                    *)
(***************************************************************************)
EXTENDS Feed

CONSTANTS MaxLag,       \* from the stamp of an event to its processing
          MaxInstant,   \* bound: the last instant
          MaxEvents,    \* bound: steps of each adapter
          Ceaseless,    \* Eira's failures are not bounded: traffic never ends
          MaxBatch,     \* bound: blocks of one message
          Sigints       \* bound: 0 or 1

ASSUME LagAssumption   == MaxLag \in Nat
ASSUME BoundAssumption ==
    /\ MaxInstant \in Nat /\ 0 .. MaxInstant \subseteq Instant
    /\ MaxEvents  \in Nat
    /\ Ceaseless  \in BOOLEAN
    /\ MaxBatch   \in Nat \ {0} /\ \A m \in Message : Len(m) <= MaxBatch

VARIABLES steps,        \* steps[s]: steps the adapter s has taken
          sent,         \* history: sent[s][k] is the stamp of the first Block event
          stamp, newest_conn, since, past,    \* history, see WindowsRun
          newest_block                        \* history, see BlocksRun

history == <<stamp, newest_conn, since, past, newest_block>>
vars    == <<feedVars, steps, sent, history>>

Init ==
    /\ FeedInit
    /\ steps        = [s \in Source |-> 0]
    /\ sent         = [s \in Source |-> [k \in Key |-> NoInstant]]
    /\ stamp        = [s \in Source |-> 0]
    /\ newest_conn  = 0
    /\ since        = [s \in Source |-> NoInstant]
    /\ past         = [s \in Source |-> {}]
    /\ newest_block = 0

Waiting == {channel[i] : i \in DOMAIN channel}
               \cup UNION {{outbox[s][i] : i \in DOMAIN outbox[s]} : s \in Source}

Clock ==
    /\ now < MaxInstant
    /\ \A e \in Waiting : now < e.t + MaxLag
    /\ now' = now + 1
    /\ UNCHANGED <<adapterVars, channel, collectorVars, loopVars, signalled, steps, sent, history>>

\* A step of the adapter s.  Of the events that an adapter may send for ever,
\* the Disconnected of a dial that failed is the one that adds nothing to what
\* the Collector counts; with Ceaseless it stands for all of them.
Adapter(s) ==
    /\ \/ /\ steps[s] < MaxEvents
          /\ steps' = [steps EXCEPT ![s] = @ + 1]
          /\ \/ Handshake(s)
             \/ Announce(s)
             \/ \E m \in Message, read \in Instant : now <= read + MaxLag /\ Frame(s, m, read)
             \/ Hangup(s)
             \/ Subscribe(s)
             \/ Ack(s)
             \/ \E kind \in {"connected", "disconnected"} : SourceStatus(s, kind)
             \/ \E k \in Key : Transaction(s, k)
             \/ Fail(s)
       \/ /\ Ceaseless
          /\ Fail(s)
          /\ UNCHANGED steps
    /\ sent' = [sent EXCEPT ![s] = [k \in Key |->
                   IF @[k] = NoInstant /\ \E i \in DOMAIN outbox'[s] : outbox'[s][i].key = k
                   THEN outbox'[s][1].t ELSE @[k]]]
    /\ UNCHANGED <<now, channel, collectorVars, loopVars, signalled, history>>

Enqueue(s) ==
    /\ Send(s)
    /\ UNCHANGED <<now, collectorVars, loopVars, signalled, steps, sent, history>>

Later(a, b) == IF a < b THEN b ELSE a

\* What the processing of e adds to the history.
Heard(e) ==
    LET s == e.source
        t == e.t
    IN  \/ /\ e.kind = "block"
           /\ newest_block' = Later(newest_block, t)
           /\ UNCHANGED <<stamp, newest_conn, since, past>>
        \/ /\ e.kind = "connected"
           /\ stamp'       = [stamp EXCEPT ![s] = t]
           /\ newest_conn' = Later(newest_conn, t)
           /\ since'       = [since EXCEPT ![s] = IF connected[s] THEN @ ELSE t]
           /\ UNCHANGED <<past, newest_block>>
        \/ /\ e.kind = "disconnected"
           /\ stamp'       = [stamp EXCEPT ![s] = t]
           /\ newest_conn' = Later(newest_conn, t)
           /\ since'       = [since EXCEPT ![s] = NoInstant]
           /\ past'        = IF connected[s]
                             THEN [past EXCEPT ![s] = @ \cup {[from |-> since[s], to |-> t]}]
                             ELSE past
           /\ UNCHANGED newest_block

Process == Recv /\ Heard(Head(channel)) /\ UNCHANGED <<steps, sent>>

Other(A) == A /\ UNCHANGED <<steps, sent, history>>

\* Parking matters to signals only.
Wait      == Sigints = 1 /\ Park
Interrupt == Sigints = 1 /\ Sigint

Next ==
    \/ Clock
    \/ \E s \in Source : Adapter(s) \/ Enqueue(s)
    \/ Process
    \/ Other(Tick)
    \/ Other(Stop)
    \/ Other(CtrlC)
    \/ Other(Wait)
    \/ Other(Interrupt)

Spec == Init /\ [][Next]_vars

\* Time passes, the channel serves the senders that wait in order, and select!,
\* which polls its branches in random order, neglects neither events nor ticks
\* for ever.  Nothing is said of Stop: the deadline may be as late as one likes.
Fairness ==
    /\ WF_vars(Clock)
    /\ \A s \in Source : SF_vars(Enqueue(s))
    /\ WF_vars(Process)
    /\ WF_vars(Other(Tick))

FairSpec == Spec /\ Fairness

-----------------------------------------------------------------------------
\* No block is counted in two rolling summaries (main.rs:194-202), however late
\* its events come and however many ticks are missed.
CountedOnce ==
    \A i, j \in DOMAIN block_intervals :
        i # j => block_intervals[i].counted \cap block_intervals[j].counted = {}

Rolling == UNION {block_intervals[i].counted : i \in DOMAIN block_intervals}

\* A block of the run is missing from the rolling summaries only when it
\* completed at most MaxLag before the end of the interval it belongs to: what
\* still waits at a tick is all that the rolling tables lose.
RollingMissesOnlyLate ==
    \A k \in Counted(0, last_summary) \ Rolling :
        \E i \in DOMAIN block_intervals :
            /\ block_intervals[i].until <= blocks[k].completed_at + MaxLag
            /\ blocks[k].completed_at <= block_intervals[i].until

\* A block that a rolling summary counted leaves the run's table only when its
\* first arrival is at most MaxLag older than that summary.
RollingStaysCounted ==
    \A i \in DOMAIN block_intervals : \A k \in block_intervals[i].counted :
        \/ Win!in_window(blocks[k].first)
        \/ block_intervals[i].until <= blocks[k].first + MaxLag

\* What the end of the run drops is only late: a block that enough sources had
\* delivered more than MaxLag before the end is in the report, if its first
\* arrival was measured at all (main.rs:205-211).
FinalMissesOnlyLate ==
    pc = "done" =>
        \A k \in Key :
            Cardinality({s \in Source : sent[s][k] # NoInstant /\ sent[s][k] + MaxLag < now})
                    >= MinSources =>
                /\ k \in DOMAIN blocks /\ blocks[k].completed_at # NoInstant
                /\ Win!in_window(blocks[k].first) => k \in matched

\* Once SIGINT was delivered the loop does not wait for events, for the deadline
\* or for the next tick any more: README.md:104, "Ctrl-C stops early".
CtrlCNoticed ==
    ~ /\ signalled /\ pc = "parked" /\ ~fired
      /\ channel = <<>> /\ now < Deadline /\ now < next_tick

\* A deadline that is ready at every turn is not neglected for ever either.
StopServed == WF_vars(Other(Stop))

\* The run ends at the deadline, however the sources keep the loop busy
\* (main.rs:188).
RunEnds == StopServed => <>(pc = "done")

\* However long the run: an adapter that waits in out.send gets its events into
\* the channel, against another that never stops sending (main.rs:171).
SendersServed == \A s \in Source : outbox[s] # <<>> ~> (outbox[s] = <<>> \/ pc = "done")

-----------------------------------------------------------------------------
(***************************************************************************)
(* Inside the pipeline the Collector meets only what WindowsRun and        *)
(* BlocksRun assume: the lag bounds the disorder of the stamps.            *)
(***************************************************************************)
WRun == INSTANCE WindowsRun WITH MaxSkew <- MaxLag, MaxReconnects <- MaxEvents,
                                 newest <- newest_conn
BRun == INSTANCE BlocksRun WITH MaxSkew <- MaxLag, newest <- newest_block,
                                NoSource <- NoKey, MaxEvents <- MaxEvents * MaxBatch

\* Connections reach the Collector as WindowsRun says.
RefinesWindows == WRun!Spec

\* Blocks reach the Collector as BlocksRun says.
RefinesBlocks == BRun!Spec

-----------------------------------------------------------------------------
ConnEvent  == [source : Source, kind : {"connected", "disconnected"}, key : {NoKey}, t : Instant]
BlockEvent == [source : Source, kind : {"block"}, key : Key, t : Instant]
AnyEvent   == ConnEvent \cup BlockEvent
Summary    == [since : Nat, until : Nat, counted : SUBSET Key]

\* The state of the pipeline has the types of the code's variables.
TypeOK ==
    /\ now         \in 0 .. MaxInstant
    /\ link        \in [Source -> {"down", "open", "up"}]
    /\ last_read   \in [Nitro -> 0 .. now]
    /\ seen_blocks \in [Eira -> SUBSET Key]
    /\ outbox      \in [Source -> Seq(AnyEvent)]
    /\ channel     \in Seq(AnyEvent)
    /\ pc          \in {"top", "parked", "done"}
    /\ armed \in BOOLEAN /\ fired \in BOOLEAN /\ signalled \in BOOLEAN /\ interrupted \in BOOLEAN
    /\ next_tick \in Nat /\ last_summary \in Nat
    /\ block_intervals \in Seq(Summary)
    /\ matched \subseteq Key
    /\ steps \in [Source -> 0 .. MaxEvents]
    /\ sent  \in [Source -> [Key -> Instant \cup {NoInstant}]]
=============================================================================
