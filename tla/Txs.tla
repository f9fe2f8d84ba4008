-------------------------------- MODULE Txs --------------------------------
(***************************************************************************)
(* The transaction table of the Collector (src/src/stats.rs): one record   *)
(* per transaction hash, with its first arrival on every source and the    *)
(* block it is attributed to, and the tables made from it at the end of    *)
(* the run.  TxsRun gives it an environment.                               *)
(*                                                                         *)
(* Percentiles and medians are in Ranks, the window in Windows; here it is *)
(* the constant Window.  Byte counters, the split of a pair table into     *)
(* intervals and the percentages are left out.                             *)
(***************************************************************************)
EXTENDS Integers, FiniteSets

CONSTANTS Source,      \* indices of the configured sources
          Hash,        \* transaction hashes
          Key,         \* block keys ("seq:<n>" or "num:<n>")
          NoKey,       \* None for an Option<String> that holds a key
          NoCount,     \* None for an Option<u32>
          Instant,     \* the instants an event can be stamped with
          NoInstant,   \* None for an Option<Instant>
          MinSources,  \* --min-sources, clamped to 1..n by Collector::new
          Setups,      \* the configurations: the kind of every source, and the reference
          Window,      \* the instants for which in_window holds
          Lead,        \* the lead of one millisecond
          Buckets      \* the sequence of block-size buckets, <<lowest, highest>>

ASSUME SourceAssumption  == IsFiniteSet(Source)
ASSUME InstantAssumption == Instant \subseteq Nat /\ NoInstant \notin Nat
ASSUME NoneAssumption    == NoKey \notin Key /\ NoCount \notin Nat
ASSUME SetupAssumption   == \A c \in Setups :
    c.reference \in Source /\ \A s \in Source : c.kind[s] = "eira" => s = c.reference
ASSUME MinAssumption     == MinSources \in Nat
ASSUME LeadAssumption    == Lead \in Nat
ASSUME BucketAssumption  == \A i, j \in DOMAIN Buckets :
    /\ Buckets[i][1] \in Nat /\ Buckets[i][2] \in Nat
    /\ i # j => Buckets[i][2] < Buckets[j][1] \/ Buckets[j][2] < Buckets[i][1]

VARIABLES txs,         \* HashMap<[u8; 32], TxRec>, a function on the hashes seen
          tx_events,   \* Tx events per source, duplicates included
          setup        \* sources[..].kind and reference, fixed when the run starts

txVars == <<txs, tx_events, setup>>

from_nitro(s) == setup.kind[s] = "nitro"
nitro_present == \E s \in Source : from_nitro(s)

TxsInit ==
    /\ txs       = [h \in {} |-> {}]
    /\ tx_events = [s \in Source |-> 0]
    /\ setup     \in Setups

\* The record of h, created on its first event.
Entry(h, t) ==
    IF h \in DOMAIN txs THEN txs[h]
    ELSE [arrivals         |-> [r \in Source |-> NoInstant],
          first            |-> t,
          seen             |-> 0,
          block_key        |-> NoKey,
          block_from_nitro |-> FALSE,
          tx_count         |-> NoCount,
          synthetic_swap   |-> FALSE]

\* Mutant of TakesKey: the first source that names a block keeps the say.
TakesKey_FirstSays(rec, nitro, key) == key # NoKey /\ rec.block_key = NoKey

\* The event names the block of the transaction: it is the first that does,
\* or the first of a Nitro source.
TakesKey(rec, nitro, key) ==
    key # NoKey /\ (rec.block_key = NoKey \/ (nitro /\ ~rec.block_from_nitro))

\* What every event of a transaction adds to its record, a duplicate too.
Attribute(rec, nitro, ev) ==
    LET takes == TakesKey(rec, nitro, ev.block_key)
    IN  [arrivals         |-> rec.arrivals,
         first            |-> rec.first,
         seen             |-> rec.seen,
         block_key        |-> IF takes THEN ev.block_key ELSE rec.block_key,
         block_from_nitro |-> IF takes THEN nitro ELSE rec.block_from_nitro,
         tx_count         |-> IF nitro /\ ev.tx_count # NoCount THEN ev.tx_count
                              ELSE rec.tx_count,
         synthetic_swap   |-> rec.synthetic_swap \/ ev.synthetic_swap]

\* Mutant of Arrive: the first event processed stays the first.
Arrive_FirstProcessed(rec, s, t) ==
    IF rec.arrivals[s] # NoInstant THEN rec
    ELSE [rec EXCEPT !.arrivals[s] = t, !.seen = rec.seen + 1]

\* The first delivery by s, stamped t; a second one is ignored.
Arrive(rec, s, t) ==
    IF rec.arrivals[s] # NoInstant THEN rec
    ELSE [rec EXCEPT !.arrivals[s] = t,
                     !.seen        = rec.seen + 1,
                     !.first       = IF t < rec.first THEN t ELSE rec.first]

Put(h, rec) == [g \in DOMAIN txs \cup {h} |-> IF g = h THEN rec ELSE txs[g]]

\* Mutant of OnTx: a duplicate is dropped before it is looked at.
OnTx_DropsReplays(s, ev) ==
    LET rec == Entry(ev.hash, ev.t)
    IN  /\ tx_events' = [tx_events EXCEPT ![s] = @ + 1]
        /\ txs' = Put(ev.hash, IF rec.arrivals[s] # NoInstant THEN rec
                               ELSE Arrive(Attribute(rec, from_nitro(s), ev), s, ev.t))
        /\ UNCHANGED setup

\* A Tx event of source s.
OnTx(s, ev) ==
    /\ tx_events' = [tx_events EXCEPT ![s] = @ + 1]
    /\ txs' = Put(ev.hash, Arrive(Attribute(Entry(ev.hash, ev.t), from_nitro(s), ev), s, ev.t))
    /\ UNCHANGED setup

-----------------------------------------------------------------------------
(***************************************************************************)
(* The transaction summary: sets of transactions, whose sizes it prints.   *)
(***************************************************************************)
in_window(t) == t \in Window

Total   == {h \in DOMAIN txs : in_window(txs[h].first)}
Matched == {h \in Total : txs[h].seen >= MinSources}

SeenBy(s) == {h \in Total : txs[h].arrivals[s] # NoInstant}
Firsts(s) == {h \in Matched : txs[h].arrivals[s] = txs[h].first}

\* The arrivals of h on the sources other than s.
Others(h, s) == {txs[h].arrivals[r] : r \in Source \ {s}} \ {NoInstant}

\* The transactions that s delivered at least one millisecond before any other.
FirstBy1ms(s) ==
    {h \in Matched : /\ txs[h].arrivals[s] # NoInstant
                     /\ Others(h, s) # {}
                     /\ \A o \in Others(h, s) : txs[h].arrivals[s] + Lead <= o}

-----------------------------------------------------------------------------
(***************************************************************************)
(* The table of a pair: the reference against another source.              *)
(***************************************************************************)
Rows(other) ==
    {h \in DOMAIN txs : /\ txs[h].arrivals[setup.reference] # NoInstant
                        /\ txs[h].arrivals[other] # NoInstant
                        /\ in_window(txs[h].first)}

\* The rows in which the reference was ahead.
RefFirst(other) ==
    {h \in Rows(other) : txs[h].arrivals[other] - txs[h].arrivals[setup.reference] > 0}

\* Transactions of a block that the reference delivered.
ref_counts(key) ==
    Cardinality({h \in DOMAIN txs : /\ txs[h].arrivals[setup.reference] # NoInstant
                                    /\ txs[h].block_key = key})

\* The size of the block of h: the count of the Nitro message, or without a
\* Nitro source what the reference delivered of the block.
Size(h) ==
    IF nitro_present
    THEN IF txs[h].block_from_nitro THEN txs[h].tx_count ELSE NoCount
    ELSE IF txs[h].block_key = NoKey THEN NoCount ELSE ref_counts(txs[h].block_key)

\* The rows of bucket i; it counts the blocks they name.
bucket_rows(i, other) ==
    {h \in Rows(other) : /\ Size(h) # NoCount
                         /\ Buckets[i][1] <= Size(h) /\ Size(h) <= Buckets[i][2]}
=============================================================================
