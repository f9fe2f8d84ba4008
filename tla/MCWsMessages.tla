---------------------------- MODULE MCWsMessages ----------------------------
(* The frames that make a difference: every kind, payloads below, at and   *)
(* above the limit of 2, back references of every depth that three frames  *)
(* allow, in sessions with every kind of compression.                      *)
EXTENDS WsMessages

Plain(kind, fin, size) ==
    [kind |-> kind, fin |-> fin, rsv1 |-> FALSE, size |-> size,
     depth |-> 0, final |-> FALSE, big |-> FALSE]

Deflated(fin, depth, final, big) ==
    [kind |-> "text", fin |-> fin, rsv1 |-> TRUE, size |-> 1,
     depth |-> depth, final |-> final, big |-> big]

MCPlainFrame ==
    {Plain(kind, fin, size) : kind \in {"text", "cont"}, fin \in BOOLEAN, size \in 1 .. 2}
        \cup {Plain("text", TRUE, 3), Deflated(TRUE, 0, FALSE, FALSE)}
        \cup {Plain(kind, TRUE, 0) : kind \in {"ping", "pong", "close", "bad", "odd"}}

MCDeflatedFrame ==
    {Deflated(fin, depth, final, FALSE) : fin \in BOOLEAN, depth \in 0 .. 2, final \in BOOLEAN}
        \cup {Deflated(TRUE, 0, FALSE, TRUE), Plain("text", TRUE, 1), Plain("ping", TRUE, 0)}
        \cup {Plain("cont", fin, 1) : fin \in BOOLEAN}

MCFrame == MCPlainFrame \cup MCDeflatedFrame
=============================================================================
