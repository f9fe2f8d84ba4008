------------------------------ MODULE BlockRace ------------------------------
(***************************************************************************)
(* What the block table promises, without counters and running minima: a   *)
(* board with the first delivery of every block by every source, a winner  *)
(* that is one of the earliest on the board, and the set of blocks that    *)
(* have been announced, each in the step in which the board reaches        *)
(* MinSources deliveries.                                                  *)
(***************************************************************************)
EXTENDS Naturals, FiniteSets

CONSTANTS Source, Key, Instant, NoInstant, NoSource, MinSources

VARIABLES board, winner, announced

raceVars == <<board, winner, announced>>

Init ==
    /\ board     = [k \in Key |-> [s \in Source |-> NoInstant]]
    /\ winner    = [k \in Key |-> NoSource]
    /\ announced = {}

Delivered(row) == {s \in Source : row[s] # NoInstant}

Earliest(row) == {s \in Delivered(row) : \A r \in Delivered(row) : row[s] <= row[r]}

\* Source s delivers block k for the first time.
Deliver(s, k, t) ==
    /\ board[k][s] = NoInstant
    /\ board' = [board EXCEPT ![k][s] = t]
    /\ \E w \in Earliest(board'[k]) : winner' = [winner EXCEPT ![k] = w]
    /\ announced' = IF Cardinality(Delivered(board'[k])) = MinSources
                    THEN announced \cup {k}
                    ELSE announced

Next == \E s \in Source, k \in Key, t \in Instant : Deliver(s, k, t)

Spec == Init /\ [][Next]_raceVars
=============================================================================
