----------------------------- MODULE WsMessages -----------------------------
(***************************************************************************)
(* From bytes to messages in a WebSocket session: parse_frame, data_frame, *)
(* finish and next_message of src/src/ws.rs, and the context of the        *)
(* inflater (src/src/inflate.rs).                                          *)
(*                                                                         *)
(* A frame is a header and a payload; a read brings any number of these    *)
(* units.  A message whose back references reach into the depth compressed *)
(* messages before it can be inflated iff the inflater has that many in    *)
(* its window, so a window is a number.  Instants are numbered by the      *)
(* reads, 0 being the end of the handshake.                                *)
(***************************************************************************)
EXTENDS Naturals, Sequences, FiniteSets

CONSTANTS Modes,        \* what may be negotiated: see FrameAssumption
          MaxMessage,   \* Config::max_message
          Frame,        \* the frames the server may send
          MaxFrames     \* bound: frames of a session

\* The compression of a session is "none", "nitro" (Nitro's own, with a dictionary),
\* "fresh" (permessage-deflate without context takeover) or "takeover" (with it).
\* A bad frame has a reserved bit set, an odd one an unknown opcode.  What is
\* compressed says so in the first frame of the message: depth, final (it ends
\* the DEFLATE stream) and big (it inflates to more than MaxMessage).
ASSUME FrameAssumption ==
    /\ Modes \subseteq {"none", "nitro", "fresh", "takeover"}
    /\ MaxMessage \in Nat /\ MaxFrames \in Nat
    /\ \A f \in Frame :
           /\ f.kind \in {"text", "cont", "ping", "pong", "close", "bad", "odd"}
           /\ f.fin \in BOOLEAN /\ f.rsv1 \in BOOLEAN /\ f.size \in Nat
           /\ f.depth \in Nat /\ f.final \in BOOLEAN /\ f.big \in BOOLEAN

VARIABLES mode,       \* what the handshake negotiated for the Inflater
          sent,       \* the frames of the server, in order
          got,        \* units read so far, two to a frame
          last_read,  \* Client::last_read
          parsed,     \* frames taken off the front of buf
          open,       \* Client::open
          window,     \* compressed messages the inflater can refer back to
          ended,      \* Inflater::ended
          delivered,  \* what next_message has returned
          pc,         \* "caller", "loop", "pong" (being written), or why the session ended
          read_at     \* history: the instant at which each unit was read

inflater == <<window, ended>>
vars == <<mode, sent, got, last_read, parsed, open, inflater, delivered, pc, read_at>>

NoMessage == [from |-> 0, compressed |-> FALSE, size |-> 0]

Init ==
    /\ mode      \in Modes
    /\ sent      = <<>>
    /\ got       = 0
    /\ last_read = 0
    /\ parsed    = 0
    /\ open      = NoMessage
    /\ window    = 0
    /\ ended     = FALSE
    /\ delivered = <<>>
    /\ pc        = "caller"
    /\ read_at   = <<>>

-----------------------------------------------------------------------------
(***************************************************************************)
(* The server.  It may send any frame, but what it compresses refers only  *)
(* to its own window: without context takeover a message has a window of   *)
(* its own, and a final block ends the window.                             *)
(***************************************************************************)
Compressed == {i \in DOMAIN sent : sent[i].kind = "text" /\ sent[i].rsv1}

Reach ==
    IF mode = "takeover"
    THEN Cardinality({i \in Compressed : \A j \in Compressed : j >= i => ~sent[j].final})
    ELSE 0

Send(f) ==
    /\ Len(sent) < MaxFrames
    /\ f.depth <= Reach
    /\ sent' = Append(sent, f)
    /\ UNCHANGED <<mode, got, last_read, parsed, open, inflater, delivered, pc, read_at>>

-----------------------------------------------------------------------------
(***************************************************************************)
(* The client.                                                             *)
(***************************************************************************)
Fail(why) ==
    /\ pc' = why
    /\ UNCHANGED <<inflater, delivered>>

\* next_message returns the message made of the data frames from .. to.
Return(from, to) ==
    /\ delivered' = Append(delivered, [from |-> from, to |-> to, arrival |-> last_read])
    /\ pc'        = "caller"

\* Mutant: no context takeover, whatever was negotiated.
Have_Fresh == 0

\* The window a message is inflated with: reset without takeover, and when the
\* message before ended the stream.
Have == IF mode \in {"nitro", "fresh"} \/ ended THEN 0 ELSE window

\* Mutant: the inflated size is not looked at.
Finish_AnySize(from, to, compressed) ==
    \/ /\ ~compressed
       /\ Return(from, to)
       /\ UNCHANGED inflater
    \/ /\ compressed /\ sent[from].depth <= Have
       /\ window' = Have + 1
       /\ ended'  = sent[from].final
       /\ Return(from, to)

Finish(from, to, compressed) ==
    \/ /\ ~compressed
       /\ Return(from, to)
       /\ UNCHANGED inflater
    \/ /\ compressed /\ sent[from].depth > Have
       /\ Fail("inflate")
    \/ /\ compressed /\ sent[from].depth <= Have /\ sent[from].big
       /\ Fail("size")
    \/ /\ compressed /\ sent[from].depth <= Have /\ ~sent[from].big
       /\ window' = Have + 1
       /\ ended'  = sent[from].final
       /\ Return(from, to)

\* data_frame, for a first frame ...
FirstFrame(f, i) ==
    \/ /\ open # NoMessage
       /\ Fail("protocol") /\ UNCHANGED open
    \/ /\ open = NoMessage /\ f.rsv1 /\ mode = "none"
       /\ Fail("protocol") /\ UNCHANGED open
    \/ /\ open = NoMessage /\ (f.rsv1 => mode # "none") /\ f.fin
       /\ Finish(i, i, f.rsv1) /\ UNCHANGED open
    \/ /\ open = NoMessage /\ (f.rsv1 => mode # "none") /\ ~f.fin
       /\ open' = [from |-> i, compressed |-> f.rsv1, size |-> f.size]
       /\ UNCHANGED <<inflater, delivered, pc>>

\* Mutant: a finished message stays open.
Continuation_KeepsOpen(f, i) ==
    \/ /\ open = NoMessage
       /\ Fail("protocol") /\ UNCHANGED open
    \/ /\ open # NoMessage /\ f.fin
       /\ open' = [open EXCEPT !.size = @ + f.size]
       /\ Finish(open.from, i, open.compressed)
    \/ /\ open # NoMessage /\ ~f.fin
       /\ open' = [open EXCEPT !.size = @ + f.size]
       /\ UNCHANGED <<inflater, delivered, pc>>

\* ... and for a continuation, which takes the open message whatever follows.
Continuation(f, i) ==
    LET size == open.size + f.size
    IN  \/ /\ open = NoMessage
           /\ Fail("protocol") /\ UNCHANGED open
        \/ /\ open # NoMessage /\ size > MaxMessage
           /\ open' = NoMessage
           /\ Fail("size")
        \/ /\ open # NoMessage /\ size <= MaxMessage /\ f.fin
           /\ open' = NoMessage
           /\ Finish(open.from, i, open.compressed)
        \/ /\ open # NoMessage /\ size <= MaxMessage /\ ~f.fin
           /\ open' = [open EXCEPT !.size = size]
           /\ UNCHANGED <<inflater, delivered, pc>>

\* Bytes that came with the response to the handshake: they are left in buf, and
\* last_read is the end of the handshake.
Leftover(n) ==
    /\ pc = "caller" /\ got = 0 /\ n <= 2 * Len(sent)
    /\ got'     = n
    /\ read_at' = [u \in 1 .. n |-> last_read]
    /\ UNCHANGED <<mode, sent, last_read, parsed, open, inflater, delivered, pc>>

Call ==
    /\ pc = "caller"
    /\ pc' = "loop"
    /\ UNCHANGED <<mode, sent, got, last_read, parsed, open, inflater, delivered, read_at>>

HeaderRead(i)   == i <= Len(sent) /\ got >= 2 * i - 1
PayloadRead(i)  == i <= Len(sent) /\ got >= 2 * i
Refused(f)      == f.kind = "bad" \/ f.size > MaxMessage

\* A header that cannot be accepted ends the session before its payload comes.
RefuseHeader ==
    LET i == parsed + 1
    IN  /\ pc = "loop" /\ HeaderRead(i) /\ Refused(sent[i])
        /\ Fail(IF sent[i].kind = "bad" THEN "protocol" ELSE "size")
        /\ UNCHANGED <<mode, sent, got, last_read, parsed, open, read_at>>

\* One frame off the front of the buffer.
TakeFrame ==
    LET i == parsed + 1
        f == sent[i]
    IN  /\ pc = "loop" /\ PayloadRead(i) /\ ~Refused(f)
        /\ parsed' = i
        /\ \/ f.kind = "text" /\ FirstFrame(f, i)
           \/ f.kind = "cont" /\ Continuation(f, i)
           \/ f.kind = "ping" /\ pc' = "pong" /\ UNCHANGED <<open, inflater, delivered>>
           \/ f.kind = "pong" /\ UNCHANGED <<pc, open, inflater, delivered>>
           \/ f.kind = "close" /\ Fail("closed") /\ UNCHANGED open
           \/ f.kind = "odd" /\ Fail("protocol") /\ UNCHANGED open
        /\ UNCHANGED <<mode, sent, got, last_read, read_at>>

\* The pong is written, or cannot be.
Pong ==
    /\ pc = "pong"
    /\ pc' \in {"loop", "broken"}
    /\ UNCHANGED <<mode, sent, got, last_read, parsed, open, inflater, delivered, read_at>>

\* Mutant: the buffer is filled up before its complete frames are taken.
Starved_Eager ==
    /\ pc = "loop"
    /\ HeaderRead(parsed + 1) => ~Refused(sent[parsed + 1])

\* The buffer holds no complete frame.
Starved ==
    LET i == parsed + 1
    IN  /\ pc = "loop" /\ ~PayloadRead(i)
        /\ HeaderRead(i) => ~Refused(sent[i])

\* read_buf brings n units.
Read(n) ==
    /\ Starved
    /\ got + n <= 2 * Len(sent)
    /\ got'       = got + n
    /\ last_read' = last_read + 1
    /\ read_at'   = [u \in 1 .. got + n |-> IF u <= got THEN read_at[u] ELSE last_read + 1]
    /\ UNCHANGED <<mode, sent, parsed, open, inflater, delivered, pc>>

\* The end of the stream, or an error.
Broken ==
    /\ Starved
    /\ pc' = "broken"
    /\ UNCHANGED <<mode, sent, got, last_read, parsed, open, inflater, delivered, read_at>>

Next ==
    \/ \E f \in Frame : Send(f)
    \/ Call \/ RefuseHeader \/ TakeFrame \/ Pong \/ Broken
    \/ \E n \in 1 .. 2 * MaxFrames : Leftover(n) \/ Read(n)

Spec == Init /\ [][Next]_vars

-----------------------------------------------------------------------------
(***************************************************************************)
(* What the frames of the server mean, said of the whole sequence.         *)
(***************************************************************************)
IsData(i) == sent[i].kind \in {"text", "cont"}

\* The data frame before frame i left its message unfinished.
Inside(i) ==
    \E j \in 1 .. i - 1 :
        /\ IsData(j) /\ ~sent[j].fin
        /\ \A k \in j + 1 .. i - 1 : ~IsData(k)

\* Frames from .. to hold one message and nothing else but control frames.
IsMessage(from, to) ==
    /\ sent[from].kind = "text" /\ ~Inside(from)
    /\ IsData(to) /\ sent[to].fin
    /\ \A i \in from .. to : IsData(i) /\ i # from => sent[i].kind = "cont"
    /\ \A i \in from .. to : IsData(i) /\ i # to => ~sent[i].fin

\* The payloads of the data frames from .. to add up to n, within the limit.
Total(from, to, n) ==
    \E total \in [from .. to -> 0 .. MaxMessage] :
        /\ total[from] = sent[from].size
        /\ \A i \in from + 1 .. to :
               total[i] = total[i - 1] + (IF IsData(i) THEN sent[i].size ELSE 0)
        /\ total[to] = n

\* The messages among the first n frames.
Messages(n) == {m \in (1 .. n) \X (1 .. n) : m[1] <= m[2] /\ IsMessage(m[1], m[2])}

\* While the session lasts, every message of the frames taken was returned, in
\* the order of the frames and once; and nothing else was, also when the frames
\* were cut anywhere by the reads or interrupted by pings (ws.rs:370-400).
MessagesWhole ==
    /\ \A i, j \in DOMAIN delivered : i < j => delivered[i].to < delivered[j].from
    /\ {<<delivered[i].from, delivered[i].to>> : i \in DOMAIN delivered} \subseteq Messages(parsed)
    /\ pc \in {"caller", "loop", "pong"} => Cardinality(Messages(parsed)) = Len(delivered)

\* A message carries the instant of the read that brought its last byte:
\* ws.rs:71, "When the last byte of the message reached this process".
StampedByLastByte ==
    \A i \in DOMAIN delivered : delivered[i].arrival = read_at[2 * delivered[i].to]

\* No message above the limit is returned, nor is more of one kept: ws.rs:63,
\* "Limit on both the wire size and the inflated size of one message".
LimitKept ==
    /\ open.size <= MaxMessage
    /\ \A i \in DOMAIN delivered :
           LET m == delivered[i]
           IN  /\ \E n \in 0 .. MaxMessage : Total(m.from, m.to, n)
               /\ ~(sent[m.from].rsv1 /\ sent[m.from].big)

\* The inflater keeps in step with a server that keeps to the extension, across
\* fragments, messages sent uncompressed and streams that end (inflate.rs:57-69).
InflaterInStep == pc # "inflate"

\* The state has the types of the Client's fields.
TypeOK ==
    /\ mode      \in Modes
    /\ sent      \in Seq(Frame)
    /\ got       \in 0 .. 2 * Len(sent)
    /\ last_read \in Nat
    /\ parsed    \in Nat /\ 2 * parsed <= got
    /\ open      \in {NoMessage} \cup
                       [from : 1 .. parsed, compressed : BOOLEAN, size : 0 .. MaxMessage]
    /\ window    \in Nat /\ ended \in BOOLEAN
    /\ delivered \in Seq([from : 1 .. parsed, to : 1 .. parsed, arrival : Nat])
    /\ pc        \in {"caller", "loop", "pong", "protocol", "inflate", "size", "closed", "broken"}
    /\ read_at   \in [1 .. got -> Nat]
=============================================================================
