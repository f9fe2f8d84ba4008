------------------------------- MODULE Blocks -------------------------------
(***************************************************************************)
(* The block matching of the Collector (src/src/stats.rs): one record per  *)
(* block key with the first arrival on every source, who was first, and    *)
(* the instant the block became complete.  The module holds the state and  *)
(* the Block arm of on_event; BlocksRun gives it an environment.           *)
(*                                                                         *)
(* The sequence number, the hash and the transaction count a record keeps  *)
(* for printing, and the byte counters, are left out.                      *)
(***************************************************************************)
EXTENDS Naturals, Sequences, FiniteSets

CONSTANTS Source,      \* indices of the configured sources
          Key,         \* block keys ("seq:<n>" or "num:<n>")
          Instant,     \* the instants an event can be stamped with
          NoInstant,   \* Rust's None for an Option<Instant>
          MinSources   \* --min-sources, clamped to 1..n by Collector::new

ASSUME SourceAssumption  == IsFiniteSet(Source)
ASSUME InstantAssumption == Instant \subseteq Nat /\ NoInstant \notin Nat
ASSUME MinAssumption     == MinSources \in 1 .. Cardinality(Source)

VARIABLES blocks,         \* HashMap<String, BlockRec>, a function on the keys seen
          block_events,   \* Block events per source, duplicates included
          lines           \* the BlockLine notices returned so far

blockVars == <<blocks, block_events, lines>>

BlocksInit ==
    /\ blocks       = [k \in {} |-> {}]
    /\ block_events = [s \in Source |-> 0]
    /\ lines        = <<>>

\* The sources whose delivery a table of arrivals records.
Arrived(arrivals) == {r \in Source : arrivals[r] # NoInstant}

\* The latest of the arrivals recorded.
LastArrival(arrivals) ==
    CHOOSE t \in {arrivals[r] : r \in Arrived(arrivals)} :
        \A r \in Arrived(arrivals) : arrivals[r] <= t

\* The record of k, created on its first event.
Entry(k, s, t) ==
    IF k \in DOMAIN blocks THEN blocks[k]
    ELSE [arrivals     |-> [r \in Source |-> NoInstant],
          first        |-> t,
          first_src    |-> s,
          seen         |-> 0,
          completed_at |-> NoInstant]

\* Mutants of Record: the first one processed wins although it is not the
\* earliest; the completion is the stamp of the last one processed.
Record_FirstProcessed(rec, s, t) ==
    LET arrivals == [rec.arrivals EXCEPT ![s] = t]
        seen     == rec.seen + 1
    IN  [arrivals     |-> arrivals,
         first        |-> rec.first,
         first_src    |-> rec.first_src,
         seen         |-> seen,
         completed_at |-> IF seen = MinSources THEN LastArrival(arrivals) ELSE rec.completed_at]

Record_LastProcessed(rec, s, t) ==
    LET seen == rec.seen + 1
    IN  [arrivals     |-> [rec.arrivals EXCEPT ![s] = t],
         first        |-> IF t < rec.first THEN t ELSE rec.first,
         first_src    |-> IF t < rec.first THEN s ELSE rec.first_src,
         seen         |-> seen,
         completed_at |-> IF seen = MinSources THEN t ELSE rec.completed_at]

\* Mutant: the comparison is turned round, the last one wins.
Record_LastWins(rec, s, t) ==
    LET arrivals == [rec.arrivals EXCEPT ![s] = t]
        seen     == rec.seen + 1
    IN  [arrivals     |-> arrivals,
         first        |-> IF t > rec.first THEN t ELSE rec.first,
         first_src    |-> IF t > rec.first THEN s ELSE rec.first_src,
         seen         |-> seen,
         completed_at |-> IF seen = MinSources THEN LastArrival(arrivals) ELSE rec.completed_at]

\* Mutant: the time of the winner is updated, its name is not.
Record_KeepsWinner(rec, s, t) ==
    LET arrivals == [rec.arrivals EXCEPT ![s] = t]
        seen     == rec.seen + 1
    IN  [arrivals     |-> arrivals,
         first        |-> IF t < rec.first THEN t ELSE rec.first,
         first_src    |-> rec.first_src,
         seen         |-> seen,
         completed_at |-> IF seen = MinSources THEN LastArrival(arrivals) ELSE rec.completed_at]

\* The first delivery by s enters the record.
Record(rec, s, t) ==
    LET arrivals == [rec.arrivals EXCEPT ![s] = t]
        seen     == rec.seen + 1
    IN  [arrivals     |-> arrivals,
         first        |-> IF t < rec.first THEN t ELSE rec.first,
         first_src    |-> IF t < rec.first THEN s ELSE rec.first_src,
         seen         |-> seen,
         completed_at |-> IF seen = MinSources THEN LastArrival(arrivals) ELSE rec.completed_at]

\* What is printed of a block when it completes: the delays and the winner.
BlockLine(k, rec) ==
    [key |-> k, arrivals |-> rec.arrivals, first |-> rec.first, winner |-> rec.first_src]

Put(k, rec) == [j \in DOMAIN blocks \cup {k} |-> IF j = k THEN rec ELSE blocks[j]]

\* Mutants of OnBlock: a replayed delivery is recorded again; a line is
\* printed for every delivery once the block is complete.
OnBlock_Replays(s, k, t) ==
    LET rec == Record(Entry(k, s, t), s, t)
    IN  /\ block_events' = [block_events EXCEPT ![s] = @ + 1]
        /\ blocks' = Put(k, rec)
        /\ lines'  = IF rec.seen = MinSources THEN Append(lines, BlockLine(k, rec)) ELSE lines

OnBlock_Reprints(s, k, t) ==
    LET old == Entry(k, s, t)
        new == Record(old, s, t)
    IN  /\ block_events' = [block_events EXCEPT ![s] = @ + 1]
        /\ \/ /\ old.arrivals[s] # NoInstant
              /\ UNCHANGED <<blocks, lines>>
           \/ /\ old.arrivals[s] = NoInstant
              /\ blocks' = Put(k, new)
              /\ lines'  = IF new.seen >= MinSources THEN Append(lines, BlockLine(k, new)) ELSE lines

\* A Block event of source s for key k, stamped t.  A duplicate delivery
\* (backlog replay after a reconnect) is counted and otherwise ignored.
OnBlock(s, k, t) ==
    LET old == Entry(k, s, t)
        new == Record(old, s, t)
    IN  /\ block_events' = [block_events EXCEPT ![s] = @ + 1]
        /\ \/ /\ old.arrivals[s] # NoInstant
              /\ UNCHANGED <<blocks, lines>>
           \/ /\ old.arrivals[s] = NoInstant
              /\ blocks' = Put(k, new)
              /\ lines'  = IF new.seen = MinSources THEN Append(lines, BlockLine(k, new)) ELSE lines
=============================================================================
