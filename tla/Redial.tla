------------------------------- MODULE Redial -------------------------------
(***************************************************************************)
(* How an adapter dials (ws::Client::connect) and dials again (the loops   *)
(* of src/src/nitro.rs, wsjson.rs, wsraw.rs and eira.rs): each step of a   *)
(* dial but the writing of the request has its timeout, a failed one waits *)
(* what ws::retry_delay says, an ended session a second, and Eira its      *)
(* backoff in either case.  Time is counted in seconds; the response head  *)
(* grows by units of what one read brings.                                 *)
(***************************************************************************)
EXTENDS Naturals

CONSTANTS Adapters,     \* of "nitro", "ws" (wsjson and wsraw) and "eira"
          MaxBackoff,   \* the cap of the backoff, 30
          LimitWait,    \* the least wait after a 429, 45
          RetryAfter,   \* values of the header Retry-After
          NoHeader,     \* the header is missing or is no number
          DialTimeout,  \* of the TCP and the TLS handshake, and of Eira's connect, 10
          HeadTimeout,  \* of every read of the response head, 15
          HeadLimit,    \* the size of the head above which nothing more is read
          MaxFailures   \* bound: failures are counted up to here

ASSUME AdapterAssumption == Adapters \subseteq {"nitro", "ws", "eira"}

ASSUME TimeoutAssumption == DialTimeout \in Nat /\ HeadTimeout \in Nat /\ HeadLimit \in Nat

ASSUME WaitAssumption == MaxBackoff \in Nat \ {0} /\ LimitWait \in Nat \ {0}

ASSUME HeaderAssumption == RetryAfter \subseteq Nat /\ NoHeader \notin Nat

ASSUME BoundAssumption == MaxFailures \in Nat

VARIABLES adapter,    \* which one this is
          phase,      \* "dialing", "tls", "request", "head", "opening" (Eira),
                      \* "subscribing", "session" or "sleeping"
          backoff,    \* the local of run()
          wait,       \* seconds left to sleep, or until a timeout of the dial
          head,       \* how much of the response head was read
          told,       \* the last connection event sent to the Collector
          failures,   \* history: failed dials since the last that succeeded
          asked,      \* history: seconds left of what the server asked for
          since,      \* history: seconds since the last dial began, 1 for any more
          cause       \* history: what that dial came to

vars == <<adapter, phase, backoff, wait, head, told, failures, asked, since, cause>>

Init ==
    /\ adapter  \in Adapters
    /\ phase    = "dialing"
    /\ backoff  = 1
    /\ wait     = DialTimeout
    /\ head     = 0
    /\ told     = "nothing"
    /\ failures = 0
    /\ asked    = 0
    /\ since    = 0
    /\ cause    = "none"

AtMost(a, b)  == IF a < b THEN a ELSE b
AtLeast(a, b) == IF a < b THEN b ELSE a

\* Mutant: a rate limiter is taken at its word.
retry_delay_Trusting(status, header) ==
    IF status = "none" \/ header = NoHeader THEN backoff ELSE header

retry_delay(status, header) ==
    CASE status = "429"   -> AtLeast(IF header = NoHeader THEN LimitWait ELSE header, LimitWait)
      [] status = "other" -> IF header = NoHeader THEN backoff ELSE header
      [] status = "none"  -> backoff

Sleep(seconds) ==
    /\ phase' = "sleeping"
    /\ wait'  = seconds

Dial ==
    /\ phase' = "dialing"
    /\ wait'  = DialTimeout
    /\ since' = 0

\* The TCP connection stands; a wss URL has a TLS handshake next.
TcpConnected ==
    /\ adapter # "eira" /\ phase = "dialing"
    /\ \/ phase' = "tls"     /\ wait' = DialTimeout
       \/ phase' = "request" /\ wait' = wait
    /\ head' = 0
    /\ UNCHANGED <<adapter, backoff, told, failures, asked, since, cause>>

\* The TLS handshake is done.
TlsConnected ==
    /\ phase = "tls"
    /\ phase' = "request"
    /\ UNCHANGED <<adapter, backoff, wait, head, told, failures, asked, since, cause>>

\* The request is written, however long the peer took to accept it.
RequestWritten ==
    /\ phase = "request"
    /\ phase' = "head" /\ wait' = HeadTimeout
    /\ UNCHANGED <<adapter, backoff, head, told, failures, asked, since, cause>>

\* Mutant: the head may grow without end.
HeadRead_Unlimited ==
    /\ phase = "head"
    /\ wait' = HeadTimeout
    /\ UNCHANGED <<adapter, phase, backoff, head, told, failures, asked, since, cause>>

\* More bytes, and still no end of the head: the timeout starts anew.
HeadRead ==
    /\ phase = "head" /\ head <= HeadLimit
    /\ wait' = HeadTimeout
    /\ head' = head + 1
    /\ UNCHANGED <<adapter, phase, backoff, told, failures, asked, since, cause>>

Double(b) == AtMost(2 * b, MaxBackoff)

\* History: the pause the answer calls for, whatever the code makes of it.
Asked(status, header) ==
    LET said == IF header = NoHeader THEN 0 ELSE header
    IN  IF status = "429" THEN AtLeast(said, LimitWait) ELSE said

\* Client::connect fails: refused with a status other than 101, or otherwise,
\* at any step.
ConnectFails(status, header) ==
    /\ adapter # "eira"
    /\ \/ status = "none" /\ header = NoHeader /\ phase \in {"dialing", "tls", "request", "head"}
       \/ status \in {"429", "other"} /\ phase = "head"
    /\ Sleep(retry_delay(status, header))
    /\ backoff'  = Double(backoff)
    /\ failures' = AtMost(failures + 1, MaxFailures)
    /\ asked'    = Asked(status, header)
    /\ cause'    = IF header = 0 /\ status = "other" THEN "come back at once" ELSE "failed"
    /\ UNCHANGED <<adapter, head, told, since>>

\* Mutant: the backoff outlives a successful connect.
Connect_KeepsBackoff ==
    /\ phase = "head"
    /\ phase'    = "subscribing"
    /\ failures' = 0
    /\ UNCHANGED <<adapter, backoff, wait, head, told, asked, since, cause>>

\* The head is complete, and in order.
Connect ==
    /\ phase = "head"
    /\ phase'    = "subscribing"
    /\ backoff'  = 1
    /\ failures' = 0
    /\ UNCHANGED <<adapter, wait, head, told, asked, since, cause>>

\* The subscription cannot be sent: dialed again without a pause.
SubscribeFails ==
    /\ adapter = "ws" /\ phase = "subscribing"
    /\ Dial
    /\ cause' = "subscribe"
    /\ UNCHANGED <<adapter, backoff, head, told, failures, asked>>

\* The subscription, if any, is sent; Connected is.
Announce ==
    /\ adapter # "eira" /\ phase = "subscribing"
    /\ phase' = "session"
    /\ told'  = "connected"
    /\ UNCHANGED <<adapter, backoff, wait, head, failures, asked, since, cause>>

\* Mutant: a session that ended is dialed again at once.
SessionEnds_NoPause ==
    /\ adapter # "eira" /\ phase = "session"
    /\ told'  = "disconnected"
    /\ cause' = "ended"
    /\ Sleep(0)
    /\ UNCHANGED <<adapter, backoff, head, failures, asked, since>>

\* next_message fails.
SessionEnds ==
    /\ adapter # "eira" /\ phase = "session"
    /\ told'  = "disconnected"
    /\ cause' = "ended"
    /\ Sleep(1)
    /\ UNCHANGED <<adapter, backoff, head, failures, asked, since>>

\* Eira: the channel stands and the stream is asked for, from here on without
\* any timeout.
Opened ==
    /\ adapter = "eira" /\ phase = "dialing"
    /\ phase' = "opening"
    /\ UNCHANGED <<adapter, backoff, wait, head, told, failures, asked, since, cause>>

\* Eira: the stream is acknowledged.
Acknowledged ==
    /\ phase = "opening"
    /\ phase'    = "session"
    /\ told'     = "connected"
    /\ failures' = 0
    /\ UNCHANGED <<adapter, backoff, wait, head, asked, since, cause>>

\* Eira: session() fails, whether or not it was acknowledged.
EiraFails ==
    /\ adapter = "eira" /\ phase \in {"dialing", "opening", "session"}
    /\ told'     = "disconnected"
    /\ cause'    = IF phase = "session" THEN "ended" ELSE "failed"
    /\ failures' = IF phase = "session" THEN failures ELSE AtMost(failures + 1, MaxFailures)
    /\ Sleep(backoff)
    /\ backoff'  = Double(backoff)
    /\ UNCHANGED <<adapter, head, asked, since>>

Wake ==
    /\ phase = "sleeping" /\ wait = 0
    /\ Dial
    /\ UNCHANGED <<adapter, backoff, head, told, failures, asked, cause>>

Less(n) == IF n = 0 THEN 0 ELSE n - 1

Dialing == {"dialing", "tls", "request", "head"}

\* The steps of a dial that are under a timeout.
Timed == Dialing \ {"request"}

Clock ==
    /\ phase \in Timed \cup {"sleeping"} => wait > 0
    /\ wait'  = Less(wait)
    /\ asked' = Less(asked)
    /\ since' = 1
    /\ UNCHANGED <<adapter, phase, backoff, head, told, failures, cause>>

\* A dial whose timeout is over, or whose response head is too long, fails.
GivesUp ==
    /\ phase \in Timed
    /\ wait = 0 \/ (phase = "head" /\ head > HeadLimit)
    /\ EiraFails \/ ConnectFails("none", NoHeader)

Next ==
    \/ TcpConnected \/ TlsConnected \/ RequestWritten \/ HeadRead
    \/ \E status \in {"429", "other", "none"}, header \in RetryAfter \cup {NoHeader} :
           ConnectFails(status, header)
    \/ Connect \/ SubscribeFails \/ Announce \/ SessionEnds
    \/ Opened \/ Acknowledged \/ EiraFails
    \/ Wake \/ Clock

Spec == Init /\ [][Next]_vars

\* Time passes, and what is over ends; of the servers nothing is assumed.
FairSpec == Spec /\ WF_vars(Clock) /\ WF_vars(GivesUp)

-----------------------------------------------------------------------------
Labels ==
    /\ adapter \in Adapters
    /\ phase \in Dialing \cup {"opening", "subscribing", "session", "sleeping"}
    /\ told \in {"nothing", "connected", "disconnected"}
    /\ cause \in {"none", "failed", "come back at once", "subscribe", "ended"}

Numbers ==
    /\ backoff \in 1 .. MaxBackoff
    /\ wait \in Nat /\ asked \in Nat /\ head \in Nat
    /\ failures \in 0 .. MaxFailures
    /\ since \in {0, 1}

\* The variables have their types, and the backoff its cap (nitro.rs:114).
TypeOK == Labels /\ Numbers

\* A server that refused an adapter is not dialed again before the time it asked
\* for, nor before LimitWait after a 429 (ws.rs:99-101).
RateLimitHonoured == phase = "dialing" => asked = 0

\* Where a connect failed without word from the server, the wait doubles with
\* every failure in a row and starts anew after a success, through refusals with
\* a Retry-After in between; Eira's never starts anew and is at least as long
\* (nitro.rs:109-114, eira.rs:108-109).
BackoffFollowsFailures ==
    LET expected == AtMost(2 ^ failures, MaxBackoff)
    IN  IF adapter = "eira" THEN backoff >= expected ELSE backoff = expected

\* Two dials begin within a second only after a subscription that could not be
\* sent, or when the server said Retry-After: 0.
DialsApart ==
    [][phase # "dialing" /\ phase' = "dialing" =>
           since = 1 \/ cause' \in {"subscribe", "come back at once"}]_vars

\* A dial of a WebSocket ends, and so does Eira's connect, although the timeout
\* starts anew with every read of the response head (ws.rs:255-266); unless the
\* peer never takes the request, whose write has no timeout (ws.rs:252).
DialEnds == phase \in Dialing ~> (phase \notin Dialing \/ [](phase = "request"))
=============================================================================
