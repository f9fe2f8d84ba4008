------------------------------ MODULE Windows ------------------------------
(***************************************************************************)
(* The connection bookkeeping of the Collector (src/src/stats.rs): which   *)
(* sources are connected, how often each reconnected, and the intervals    *)
(* `all_up` during which every source was connected.  The module holds the *)
(* state and the handlers only; WindowsRun gives them an environment.      *)
(*                                                                         *)
(* An instant is a natural number.  An interval (Instant, Option<Instant>) *)
(* is a record whose `to` is NoInstant while the interval is open.  The    *)
(* `details` strings of the report are left out.                           *)
(***************************************************************************)
EXTENDS Naturals, Sequences, FiniteSets

CONSTANTS Source,      \* indices of the configured sources
          Instant,     \* the instants an event can be stamped with
          NoInstant,   \* Rust's None for an Option<Instant>
          Warmup       \* seconds after a reconnect that are not measured

ASSUME SourceAssumption  == Source # {}
ASSUME InstantAssumption == Instant \subseteq Nat /\ NoInstant \notin Nat
ASSUME WarmupAssumption  == Warmup \in Nat

VARIABLES connected, ever_connected, reconnects, all_up

windowVars == <<connected, ever_connected, reconnects, all_up>>

WindowsInit ==
    /\ connected      = [s \in Source |-> FALSE]
    /\ ever_connected = [s \in Source |-> FALSE]
    /\ reconnects     = [s \in Source |-> 0]
    /\ all_up         = <<>>

Last == Len(all_up)

\* all_up.last() exists and has no end.
IntervalOpen == all_up # <<>> /\ all_up[Last].to = NoInstant

-----------------------------------------------------------------------------
(***************************************************************************)
(* The handlers: `s` is ev.source and `t` is ev.t.                         *)
(***************************************************************************)

\* Mutant: an interval opened while a source is still down.
OnConnected_AnySource(s, t) ==
    /\ ~connected[s]
    /\ connected'      = [connected EXCEPT ![s] = TRUE]
    /\ ever_connected' = [ever_connected EXCEPT ![s] = TRUE]
    /\ reconnects'     = [reconnects EXCEPT ![s] = @ + (IF ever_connected[s] THEN 1 ELSE 0)]
    /\ all_up'         = IF IntervalOpen THEN all_up
                         ELSE Append(all_up, [from |-> t, to |-> NoInstant])

\* A Connected event: an interval opens with the last source to connect.
OnConnected(s, t) ==
    \/ /\ connected[s]                 \* only the detail string changes
       /\ UNCHANGED windowVars
    \/ /\ ~connected[s]
       /\ connected'      = [connected EXCEPT ![s] = TRUE]
       /\ ever_connected' = [ever_connected EXCEPT ![s] = TRUE]
       /\ reconnects'     = [reconnects EXCEPT ![s] = @ + (IF ever_connected[s] THEN 1 ELSE 0)]
       /\ all_up'         = IF (\A r \in Source : connected'[r]) /\ ~IntervalOpen
                            THEN Append(all_up, [from |-> t, to |-> NoInstant])
                            ELSE all_up

\* Mutant: the interval is dropped instead of closed.
OnDisconnected_Drops(s, t) ==
    /\ connected[s]
    /\ connected' = [connected EXCEPT ![s] = FALSE]
    /\ all_up'    = IF IntervalOpen THEN SubSeq(all_up, 1, Last - 1) ELSE all_up
    /\ UNCHANGED <<ever_connected, reconnects>>

\* A Disconnected event; one of a source that is not connected is ignored.
OnDisconnected(s, t) ==
    \/ /\ ~connected[s]
       /\ UNCHANGED windowVars
    \/ /\ connected[s]
       /\ connected' = [connected EXCEPT ![s] = FALSE]
       /\ all_up'    = IF IntervalOpen THEN [all_up EXCEPT ![Last].to = t] ELSE all_up
       /\ UNCHANGED <<ever_connected, reconnects>>

-----------------------------------------------------------------------------
(***************************************************************************)
(* What the summaries read.                                                *)
(***************************************************************************)

\* Mutant: the warm-up is forgotten.
in_window_NoWarmup(x) ==
    \E i \in DOMAIN all_up :
        /\ x >= all_up[i].from
        /\ all_up[i].to = NoInstant \/ x < all_up[i].to

\* Is x inside a stretch where every source was connected, past the warm-up?
in_window(x) ==
    \E i \in DOMAIN all_up :
        /\ x >= all_up[i].from + Warmup
        /\ all_up[i].to = NoInstant \/ x < all_up[i].to

\* Mutant: the warm-up is subtracted from the sum of the intervals once.
window_seconds_OneWarmup(now) ==
    LET End(i) == IF all_up[i].to = NoInstant THEN now ELSE all_up[i].to
        sum[i \in 0 .. Last] == IF i = 0 THEN 0 ELSE sum[i - 1] + (End(i) - all_up[i].from)
    IN  IF sum[Last] > Warmup THEN sum[Last] - Warmup ELSE 0

\* What interval i has of the window up to `now`.
seconds(i, now) ==
    LET end   == IF all_up[i].to = NoInstant THEN now ELSE all_up[i].to
        begin == all_up[i].from + Warmup
    IN  IF end > begin THEN end - begin ELSE 0

\* The length of the window up to `now`, which the report divides by.
window_seconds(now) ==
    LET sum[i \in 0 .. Last] == IF i = 0 THEN 0 ELSE sum[i - 1] + seconds(i, now)
    IN  sum[Last]
=============================================================================
