----------------------------- MODULE BlocksRun -----------------------------
(***************************************************************************)
(* The block table of Blocks under every order of deliveries: any source   *)
(* may deliver any block at any time and again (a replay after a           *)
(* reconnect), and an event may carry a stamp up to MaxSkew older than the *)
(* newest one already processed.                                           *)
(***************************************************************************)
EXTENDS Blocks

CONSTANTS MaxSkew,     \* how late an event may be processed
          NoSource,    \* the winner of a block nobody delivered
          MaxEvents    \* bound: Block events of each source

ASSUME SkewAssumption  == MaxSkew \in Nat
ASSUME BoundAssumption == MaxEvents \in Nat

VARIABLE newest    \* newest stamp processed

vars == <<blockVars, newest>>

Init == BlocksInit /\ newest = 0

Deliver(s, k, t) ==
    /\ block_events[s] < MaxEvents
    /\ newest <= t + MaxSkew
    /\ newest' = IF newest < t THEN t ELSE newest
    /\ OnBlock(s, k, t)

Next == \E s \in Source, k \in Key, t \in Instant : Deliver(s, k, t)

Spec == Init /\ [][Next]_vars

-----------------------------------------------------------------------------
BlockRec == [arrivals     : [Source -> Instant \cup {NoInstant}],
             first        : Instant,
             first_src    : Source,
             seen         : Nat,
             completed_at : Instant \cup {NoInstant}]

Line == [key      : Key,
         arrivals : [Source -> Instant \cup {NoInstant}],
         first    : Instant,
         winner   : Source]

\* The state has the types of the Collector's fields.
TypeOK ==
    /\ DOMAIN blocks \subseteq Key
    /\ blocks       \in [DOMAIN blocks -> BlockRec]
    /\ block_events \in [Source -> Nat]
    /\ lines        \in Seq(Line)
    /\ newest       \in Nat

\* The running minimum is the minimum: the winner of the tables delivered the
\* block no later than any other source, however the deliveries were ordered.
FirstIsEarliest ==
    \A k \in DOMAIN blocks :
        LET rec == blocks[k]
        IN  /\ rec.arrivals[rec.first_src] = rec.first
            /\ \A s \in Arrived(rec.arrivals) : rec.first <= rec.arrivals[s]

\* A block is complete exactly when MinSources different sources delivered it:
\* replays never complete a block, and no delivery completes it twice.
CompleteByCount ==
    \A k \in DOMAIN blocks :
        blocks[k].completed_at # NoInstant
            <=> Cardinality(Arrived(blocks[k].arrivals)) >= MinSources

\* The completion stamp is right up to the lateness of the events: MinSources
\* sources had delivered by then, and fewer had by MaxSkew earlier.
CompletionTimely ==
    \A k \in DOMAIN blocks :
        LET rec       == blocks[k]
            By(slack) == {s \in Arrived(rec.arrivals) :
                              rec.arrivals[s] + slack <= rec.completed_at}
        IN  rec.completed_at # NoInstant =>
                /\ Cardinality(By(0)) >= MinSources
                /\ Cardinality(By(MaxSkew + 1)) < MinSources

\* Every completed block is printed exactly once, and no other.
OneLinePerBlock ==
    /\ \A i, j \in DOMAIN lines : lines[i].key = lines[j].key => i = j
    /\ {lines[i].key : i \in DOMAIN lines}
           = {k \in DOMAIN blocks : blocks[k].completed_at # NoInstant}

\* No source beats a printed winner by more than the lateness of the events.
LineNearlyRight ==
    \A i \in DOMAIN lines :
        \A s \in Arrived(blocks[lines[i].key].arrivals) :
            lines[i].first <= blocks[lines[i].key].arrivals[s] + MaxSkew

\* The winner printed for a block is the winner the tables count for it:
\* stats.rs:3, "the first source to deliver a block wins".  Holds when a block
\* needs every source.
PrintedWinnerWins ==
    \A i \in DOMAIN lines : lines[i].winner = blocks[lines[i].key].first_src

\* An arrival, once recorded, is never replaced, nor is a completion stamp.
NothingRewritten ==
    [][\A k \in DOMAIN blocks :
          /\ k \in DOMAIN blocks'
          /\ \A s \in Arrived(blocks[k].arrivals) :
                 blocks'[k].arrivals[s] = blocks[k].arrivals[s]
          /\ blocks[k].completed_at # NoInstant =>
                 blocks'[k].completed_at = blocks[k].completed_at]_vars

-----------------------------------------------------------------------------
(***************************************************************************)
(* The table implements the race of BlockRace.                             *)
(***************************************************************************)
Board == [k \in Key |-> IF k \in DOMAIN blocks THEN blocks[k].arrivals
                        ELSE [s \in Source |-> NoInstant]]
Winner == [k \in Key |-> IF k \in DOMAIN blocks THEN blocks[k].first_src ELSE NoSource]
Announced == {k \in DOMAIN blocks : blocks[k].completed_at # NoInstant}

Race == INSTANCE BlockRace WITH board <- Board, winner <- Winner, announced <- Announced

\* Every step of the table is a first delivery of the race or changes nothing.
RefinesRace == Race!Spec

-----------------------------------------------------------------------------
(***************************************************************************)
(* The strengthening that makes the invariants inductive.                  *)
(***************************************************************************)

\* `seen` counts the sources that delivered the block, and one of them last.
SeenCounts ==
    \A k \in DOMAIN blocks :
        LET rec == blocks[k]
        IN  /\ rec.seen = Cardinality(Arrived(rec.arrivals))
            /\ \E r \in Arrived(rec.arrivals) :
                   \A s \in Arrived(rec.arrivals) : rec.arrivals[s] <= rec.arrivals[r]

\* Nothing in a record or a line is newer than the newest stamp.
NothingFromLater ==
    /\ \A k \in DOMAIN blocks :
          /\ \A s \in Arrived(blocks[k].arrivals) : blocks[k].arrivals[s] <= newest
          /\ blocks[k].completed_at # NoInstant => blocks[k].completed_at <= newest
    /\ \A i \in DOMAIN lines : lines[i].first <= newest

IInv ==
    /\ TypeOK
    /\ SeenCounts
    /\ FirstIsEarliest
    /\ CompleteByCount
    /\ NothingFromLater
    /\ CompletionTimely
    /\ OneLinePerBlock
    /\ LineNearlyRight
=============================================================================
