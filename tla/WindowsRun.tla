----------------------------- MODULE WindowsRun -----------------------------
(***************************************************************************)
(* The connection handlers of Windows under every order of events the      *)
(* channel can produce.  An adapter stamps an event and then sends it, so  *)
(* the stamps of one source's connection events never decrease, while      *)
(* events of two sources may be processed in another order than they were  *)
(* stamped.  MaxSkew bounds how much older than the newest an event is: 0  *)
(* is a channel that never reorders, a full channel or a descheduled       *)
(* adapter task makes it larger.                                           *)
(*                                                                         *)
(* `since` and `past` are history: when each source really was connected,  *)
(* by its own stamps.                                                      *)
(***************************************************************************)
EXTENDS Windows

CONSTANTS MaxSkew,         \* how late an event may be processed
          MaxReconnects    \* bound: reconnections of each source

ASSUME SkewAssumption  == MaxSkew \in Nat
ASSUME BoundAssumption == MaxReconnects \in Nat

VARIABLES stamp,    \* stamp[s]: stamp of the last event of s processed
          newest,   \* newest stamp processed
          since,    \* since[s]: when the current session of s began
          past      \* past[s]: the finished sessions of s

history == <<stamp, newest, since, past>>
vars    == <<windowVars, history>>

Init ==
    /\ WindowsInit
    /\ stamp  = [s \in Source |-> 0]
    /\ newest = 0
    /\ since  = [s \in Source |-> NoInstant]
    /\ past   = [s \in Source |-> {}]

Later(a, b) == IF a < b THEN b ELSE a

\* The next event of s to be processed carries the stamp t.
Processed(s, t) ==
    /\ stamp[s] <= t
    /\ newest <= t + MaxSkew
    /\ stamp'  = [stamp EXCEPT ![s] = t]
    /\ newest' = Later(newest, t)

\* A Connected event (eira also sends one while connected).
Connect(s, t) ==
    /\ reconnects[s] < MaxReconnects
    /\ Processed(s, t)
    /\ OnConnected(s, t)
    /\ since' = [since EXCEPT ![s] = IF connected[s] THEN @ ELSE t]
    /\ UNCHANGED past

\* A Disconnected event (eira also sends one while not connected).
Disconnect(s, t) ==
    /\ Processed(s, t)
    /\ OnDisconnected(s, t)
    /\ since' = [since EXCEPT ![s] = NoInstant]
    /\ past'  = IF connected[s]
                THEN [past EXCEPT ![s] = @ \cup {[from |-> since[s], to |-> t]}]
                ELSE past

Next == \E s \in Source, t \in Instant : Connect(s, t) \/ Disconnect(s, t)

Spec == Init /\ [][Next]_vars

-----------------------------------------------------------------------------
Session == [from : Instant, to : Instant]

\* The state has the types of the Collector's fields.
TypeOK ==
    /\ connected      \in [Source -> BOOLEAN]
    /\ ever_connected \in [Source -> BOOLEAN]
    /\ reconnects     \in [Source -> Nat]
    /\ all_up         \in Seq([from : Instant, to : Instant \cup {NoInstant}])
    /\ stamp          \in [Source -> Nat]
    /\ newest         \in Nat
    /\ since          \in [Source -> Instant \cup {NoInstant}]
    /\ past           \in [Source -> SUBSET Session]

\* Every interval but the last is closed, and the last one is open exactly
\* while every source is connected: `last()` and `last_mut()` of the handlers
\* never meet the wrong interval, however the sources flap.
OpenIffAllConnected ==
    /\ \A i \in DOMAIN all_up : i # Last => all_up[i].to # NoInstant
    /\ IntervalOpen <=> \A s \in Source : connected[s]

\* One session of s had begun, and warmed up, by instant x + slack and lasted
\* beyond x - slack.
WarmNear(s, x, slack) ==
    \/ connected[s] /\ since[s] + Warmup <= x + slack
    \/ \E p \in past[s] : p.from + Warmup <= x + slack /\ x < p.to + slack

\* One session of s covers x with a margin of slack on either side.
WarmAround(s, x, slack) ==
    \/ connected[s] /\ since[s] + Warmup + slack <= x
    \/ \E p \in past[s] : p.from + Warmup + slack <= x /\ x + slack < p.to

\* in_window never accepts an instant at which some source was disconnected or
\* still warming up, up to the lateness of the events (stats.rs:132, :277).
InWindowSound ==
    \A x \in Instant : in_window(x) => \A s \in Source : WarmNear(s, x, MaxSkew)

\* in_window rejects no instant that all sources' sessions cover by more than
\* the lateness of the events: no measured time is lost to a flap elsewhere.
InWindowComplete ==
    \A x \in Instant : (\A s \in Source : WarmAround(s, x, MaxSkew)) => in_window(x)

\* Two intervals overlap by at most the lateness of the events, so that
\* window_seconds counts hardly any time twice.
IntervalsOrdered ==
    \A i, j \in DOMAIN all_up : i < j => all_up[i].to <= all_up[j].from + MaxSkew

\* Source s was connected at instant x, by its own stamps.
UpAt(s, x) ==
    \/ connected[s] /\ since[s] <= x
    \/ \E p \in past[s] : p.from <= x /\ x < p.to

\* The intervals are what stats.rs:132 calls them: "intervals during which
\* every source was connected".  True when events are processed in the order
\* of their stamps, and only then.
AllUpExact ==
    \A i \in DOMAIN all_up, x \in Instant :
        /\ all_up[i].from <= x
        /\ all_up[i].to = NoInstant \/ x < all_up[i].to
        => \A s \in Source : UpAt(s, x)

\* The length the report divides by is the number of instants in the window:
\* each interval loses its own warm-up only, and time is counted twice only
\* where intervals overlap, by the lateness of the events (stats.rs:282).
WindowSecondsNear ==
    \A now \in Instant : newest <= now =>
        LET n == Cardinality({x \in Instant : x < now /\ in_window(x)})
        IN  n <= window_seconds(now) /\ window_seconds(now) <= n + MaxSkew * Len(all_up)

\* The verdict on an instant older than the lateness of the events is final: a
\* summary that has counted a block never has to take it back.
WindowSettles ==
    [][\A x \in Instant : x + MaxSkew < newest => (in_window(x)' <=> in_window(x))]_vars
-----------------------------------------------------------------------------
(***************************************************************************)
(* The strengthening that makes the invariants above inductive.            *)
(***************************************************************************)

\* No stamp is newer than the newest, and a source's sessions end before the
\* stamp of its last event.
StampsOrdered ==
    \A s \in Source :
        /\ stamp[s] <= newest
        /\ connected[s] => since[s] \in Instant /\ since[s] <= stamp[s]
        /\ \A p \in past[s] : p.to <= stamp[s]

IntervalsEnded ==
    \A i \in DOMAIN all_up : all_up[i].to # NoInstant => all_up[i].to <= newest

\* The sessions that are open when an interval is, began before it did.
OpenSound ==
    IntervalOpen => \A s \in Source : since[s] <= all_up[Last].from + MaxSkew

\* Each source has a session that holds a closed interval.
ClosedSound ==
    \A i \in DOMAIN all_up, s \in Source :
        all_up[i].to # NoInstant =>
            \/ connected[s] /\ since[s] <= all_up[i].from + MaxSkew
            \/ \E p \in past[s] : /\ p.from <= all_up[i].from + MaxSkew
                                  /\ all_up[i].to <= p.to + MaxSkew

IInv ==
    /\ TypeOK
    /\ OpenIffAllConnected
    /\ StampsOrdered
    /\ IntervalsEnded
    /\ IntervalsOrdered
    /\ OpenSound
    /\ ClosedSound
    /\ InWindowComplete
=============================================================================
