------------------------------ MODULE WsTimers ------------------------------
(***************************************************************************)
(* The timers of a WebSocket session (src/src/ws.rs): next_message takes   *)
(* the complete frames out of the buffer, answering pings as it meets      *)
(* them, and then waits in a select! for bytes, under a timeout made anew  *)
(* at every turn, or for the instant of the next ping; every write is      *)
(* under a timeout of its own.  Between two calls the adapter parses the   *)
(* message and may wait in out.send.                                       *)
(*                                                                         *)
(* Timers are counted down, 0 being due.  A due timer of the select! is    *)
(* served within MaxLate ticks, which is also what parsing may take.       *)
(***************************************************************************)
EXTENDS Naturals

CONSTANTS PingEvery,      \* Config::ping_every
          ReadTimeout,    \* Config::read_timeout
          WriteTimeout,   \* the 5 s of Client::write
          MaxLate,        \* how late a due timer may be served
          MaxFrames,      \* bound: complete frames in the buffer
          MaxQuiet        \* bound: silence is counted up to here

ASSUME TimerAssumption ==
    /\ PingEvery    \in Nat \ {0}
    /\ ReadTimeout  \in Nat \ {0}
    /\ WriteTimeout \in Nat \ {0}
    /\ MaxLate      \in Nat
    /\ MaxFrames    \in Nat
    /\ MaxQuiet     \in Nat

VARIABLES pc,          \* "caller", "parse", "select", "ping", "pong" or "closing" (being
                       \* written), or "closed"
          buffered,    \* complete frames in buf
          to_ping,     \* until next_ping
          to_timeout,  \* until the timeout around read_buf fires
          to_write,    \* until the timeout of the write in progress fires
          overdue,     \* ticks a timer of the select! has been due
          reason,      \* why the session ended
          peer,        \* "alive", maybe silent, or "stalled": no byte can be read or written
          quiet,       \* ticks next_message has waited for a byte, pings included
          stuck        \* ticks waited in next_message since the peer stalled

timers == <<to_ping, to_timeout, to_write, overdue>>
ghosts == <<peer, quiet, stuck>>
vars   == <<pc, buffered, timers, reason, ghosts>>

\* Client::connect; frames may have come with the handshake.
Init ==
    /\ pc         = "caller"
    /\ buffered   \in 0 .. MaxFrames
    /\ to_ping    = PingEvery
    /\ to_timeout = 0
    /\ to_write   = 0
    /\ overdue    = 0
    /\ reason     = "none"
    /\ peer       = "alive"
    /\ quiet      = 0
    /\ stuck      = 0

Writing == {"ping", "pong", "closing"}

Write(what) ==
    /\ pc'       = what
    /\ to_write' = WriteTimeout

End(why) ==
    /\ pc'     = "closed"
    /\ reason' = why
    /\ UNCHANGED <<buffered, timers, ghosts>>

\* The adapter calls next_message.
Call ==
    /\ pc = "caller"
    /\ pc'    = "parse"
    /\ quiet' = 0
    /\ UNCHANGED <<buffered, timers, reason, peer, stuck>>

\* A complete frame is taken out of the buffer: a fragment or a pong; the end of
\* a message, which is returned; a ping, answered before the next frame is looked
\* at; or a close frame, answered before the session ends.
TakeFrame ==
    /\ pc = "parse" /\ buffered > 0
    /\ buffered' = buffered - 1
    /\ \/ pc' \in {"parse", "caller"} /\ UNCHANGED to_write
       \/ Write("pong")
       \/ Write("closing")
    /\ UNCHANGED <<to_ping, to_timeout, overdue, reason, ghosts>>

\* No complete frame is left: the select! and its timeout are made anew.
Select ==
    /\ pc = "parse" /\ buffered = 0
    /\ pc'         = "select"
    /\ to_timeout' = ReadTimeout
    /\ overdue'    = 0
    /\ UNCHANGED <<buffered, to_ping, to_write, reason, ghosts>>

\* Mutant: the bytes received stand in for a ping.
Read_Pongs ==
    /\ pc = "select" /\ peer = "alive"
    /\ pc'       = "parse"
    /\ buffered' \in 0 .. MaxFrames
    /\ quiet'    = 0
    /\ to_ping'  = PingEvery
    /\ UNCHANGED <<to_timeout, to_write, overdue, reason, peer, stuck>>

\* Bytes arrive, and complete any number of frames.
Read ==
    /\ pc = "select" /\ peer = "alive"
    /\ pc'       = "parse"
    /\ buffered' \in 0 .. MaxFrames
    /\ quiet'    = 0
    /\ UNCHANGED <<timers, reason, peer, stuck>>

\* The stream ends or fails, or the next frame is malformed.
Broken ==
    /\ \/ pc = "select" /\ peer = "alive"
       \/ pc = "parse" /\ buffered > 0
    /\ End("broken")

\* The timeout around read_buf: "no data for 60s".
NoData == pc = "select" /\ to_timeout = 0 /\ End("silence")

\* The ping timer wins: the next one is scheduled and the ping written.
PingDue ==
    /\ pc = "select" /\ to_ping = 0
    /\ Write("ping")
    /\ to_ping' = PingEvery
    /\ UNCHANGED <<buffered, to_timeout, overdue, reason, ghosts>>

\* A ping or a pong is written: what is in the buffer comes next.
Written ==
    /\ pc \in {"ping", "pong"} /\ peer = "alive"
    /\ pc' = "parse"
    /\ UNCHANGED <<buffered, timers, reason, ghosts>>

\* Mutant: a ping that cannot be written is forgotten.
WriteFails_Ignored ==
    /\ pc \in {"ping", "pong"} /\ to_write = 0
    /\ pc' = "parse"
    /\ UNCHANGED <<buffered, timers, reason, ghosts>>

\* The write times out, or fails at once.
WriteFails ==
    /\ pc \in {"ping", "pong"}
    /\ to_write = 0 \/ peer = "alive"
    /\ End("write")

\* The close frame is answered, or could not be: no matter.
Farewell ==
    /\ pc = "closing"
    /\ to_write = 0 \/ peer = "alive"
    /\ End("closed")

-----------------------------------------------------------------------------
(***************************************************************************)
(* The environment: time, and a peer that stops.                           *)
(***************************************************************************)
Less(n) == IF n = 0 THEN 0 ELSE n - 1

Due == to_ping = 0 \/ to_timeout = 0

Capped(n) == IF n < MaxQuiet THEN n + 1 ELSE n

Clock ==
    /\ pc \notin {"parse", "closed"}
    /\ pc = "select" /\ Due => overdue < MaxLate
    /\ pc \in Writing       => to_write > 0
    /\ to_ping'    = Less(to_ping)
    /\ to_timeout' = IF pc = "select" THEN Less(to_timeout) ELSE to_timeout
    /\ to_write'   = IF pc \in Writing THEN Less(to_write) ELSE to_write
    /\ overdue'    = IF pc = "select" /\ Due THEN overdue + 1 ELSE overdue
    /\ quiet'      = IF pc \in {"select", "ping"} THEN Capped(quiet) ELSE quiet
    /\ stuck'      = IF pc \in Writing \cup {"select"} /\ peer = "stalled"
                     THEN Capped(stuck) ELSE stuck
    /\ UNCHANGED <<pc, buffered, reason, peer>>

Stall ==
    /\ pc # "closed" /\ peer = "alive"
    /\ peer' = "stalled"
    /\ UNCHANGED <<pc, buffered, timers, reason, quiet, stuck>>

Next ==
    \/ Call \/ TakeFrame \/ Select \/ Read \/ Broken \/ NoData
    \/ PingDue \/ Written \/ WriteFails \/ Farewell
    \/ Clock \/ Stall

Spec == Init /\ [][Next]_vars

\* Time cannot be outrun, the adapter comes back for the next message, what is buffered is
\* parsed, a write ends, a timeout that stays due is served, and a ping that is
\* due at every turn is not always outrun by bytes (select! polls its branches in
\* random order).
Fairness ==
    /\ SF_vars(Clock)
    /\ WF_vars(Call)
    /\ WF_vars(TakeFrame)
    /\ WF_vars(Select)
    /\ WF_vars(NoData)
    /\ WF_vars(Written)
    /\ WF_vars(WriteFails)
    /\ WF_vars(Farewell)
    /\ SF_vars(PingDue)

FairSpec == Spec /\ Fairness

-----------------------------------------------------------------------------
\* Counters and program counter have their types.
TypeOK ==
    /\ pc \in {"caller", "parse", "select", "ping", "pong", "closing", "closed"}
    /\ buffered   \in 0 .. MaxFrames
    /\ to_ping    \in 0 .. PingEvery
    /\ to_timeout \in 0 .. ReadTimeout
    /\ to_write   \in 0 .. WriteTimeout
    /\ overdue    \in 0 .. MaxLate
    /\ reason     \in {"none", "broken", "silence", "write", "closed"}
    /\ peer       \in {"alive", "stalled"}
    /\ quiet      \in 0 .. MaxQuiet
    /\ stuck      \in 0 .. MaxQuiet

\* With pings more frequent than the timeout, the timeout around the read never
\* fires: the ping wins every select! and the timeout starts again (ws.rs:353).
NoDataNever == reason # "silence"

\* A peer that accepts no bytes any more is noticed by the first write to it,
\* within a ping period and the write's timeout, however many pings of its own
\* are still to be answered (ws.rs:321, :337, :365).
StallNoticed ==
    pc # "closed" => stuck <= PingEvery + MaxLate + WriteTimeout

\* Pings go out for as long as the session lasts, also when bytes never stop and
\* pings of the server are answered in between (ws.rs:361).
PingsGoOn == []<>(pc = "ping") \/ <>(pc = "closed")

\* A session does not wait for a byte for more than the read timeout, here with
\* as much again to spare: ws.rs:354, "no data for {read_timeout}".
SilenceEnds ==
    pc = "select" => quiet <= 2 * (ReadTimeout + WriteTimeout + MaxLate)

-----------------------------------------------------------------------------
(***************************************************************************)
(* The inductive invariants: one for any periods, one for pings more       *)
(* frequent than the read timeout.                                         *)
(***************************************************************************)

\* How far a stall can have got.
StallProgress ==
    /\ peer = "alive" => stuck = 0
    /\ pc \in {"caller", "parse"} => stuck = 0
    /\ pc = "select" => stuck + to_ping <= PingEvery + overdue
    /\ pc \in Writing => stuck + to_write <= PingEvery + MaxLate + WriteTimeout

IInv == TypeOK /\ StallProgress /\ StallNoticed

\* The ping is due well before the timeout.
PingFirst ==
    pc = "select" =>
        /\ to_timeout + PingEvery + overdue >= ReadTimeout + to_ping
        /\ to_ping > 0 /\ to_timeout > 0 => overdue = 0

FrequentInv == TypeOK /\ PingFirst /\ NoDataNever
=============================================================================
