-------------------------- MODULE WsMessagesProofs --------------------------
(***************************************************************************)
(* The messages of a WebSocket session, for every server, every limit and  *)
(* every number of frames: they are whole, in order, within the limit and  *)
(* stamped by their last byte, and the inflater stays in step.             *)
(***************************************************************************)
EXTENDS WsMessages, FiniteSetTheorems, FunctionTheorems, TLAPS

-----------------------------------------------------------------------------
(***************************************************************************)
(* The strengthening that makes the properties inductive.                  *)
(***************************************************************************)
Alive == pc \in {"caller", "loop", "pong"}

\* A complete frame in the buffer was completed by the last read.
BufferFresh == \A u \in 2 * (parsed + 1) .. got : read_at[u] = last_read

\* o is what has come by frame n of a message that is not complete.
Unfinished(o, n) ==
    /\ o # NoMessage
    /\ sent[o.from].kind = "text" /\ ~sent[o.from].fin /\ ~Inside(o.from)
    /\ \A i \in o.from + 1 .. n : IsData(i) => sent[i].kind = "cont" /\ ~sent[i].fin
    /\ o.compressed = sent[o.from].rsv1
    /\ Total(o.from, n, o.size)

\* The open message is the unfinished one of the frames taken.
OpenRight ==
    Alive => \/ open = NoMessage /\ ~Inside(parsed + 1)
             \/ Unfinished(open, parsed)

\* m is a message that the server sent, within the limit, stamped by its last byte.
Genuine(m) ==
    /\ m.from <= m.to /\ IsMessage(m.from, m.to)
    /\ \E n \in 0 .. MaxMessage : Total(m.from, m.to, n)
    /\ ~(sent[m.from].rsv1 /\ sent[m.from].big)
    /\ m.arrival = read_at[2 * m.to]

\* What was returned is genuine, in the order of the frames ...
DeliveredRight ==
    /\ \A i \in DOMAIN delivered :
          /\ Genuine(delivered[i])
          /\ open # NoMessage => delivered[i].to < open.from
    /\ \A i, j \in DOMAIN delivered : i < j => delivered[i].to < delivered[j].from

\* ... and all of them.
DeliveredAll ==
    Alive => \A m \in Messages(parsed) :
                 \E i \in DOMAIN delivered : m = <<delivered[i].from, delivered[i].to>>

\* The first frames of compressed messages that frame n + 1 may refer back to.
Squeezed(i) == sent[i].kind = "text" /\ sent[i].rsv1

Window(n) ==
    {i \in 1 .. n : Squeezed(i) /\ \A j \in i .. n : Squeezed(j) => ~sent[j].final}

\* The server refers no further back ...
ServerKept ==
    \A i \in DOMAIN sent :
        sent[i].depth <= IF mode = "takeover" THEN Cardinality(Window(i - 1)) ELSE 0

\* ... than the inflater can, at the first frame that is not inflated yet.
WindowRight ==
    Alive /\ mode = "takeover" =>
        Have = Cardinality(Window(IF open = NoMessage THEN parsed ELSE open.from - 1))

IInv ==
    /\ TypeOK
    /\ BufferFresh
    /\ OpenRight
    /\ DeliveredRight
    /\ DeliveredAll
    /\ ServerKept
    /\ WindowRight
    /\ InflaterInStep

-----------------------------------------------------------------------------
(***************************************************************************)
(* Frames, and what they mean.                                             *)
(***************************************************************************)

\* The parts of a frame.
LEMMA FrameParts ==
  ASSUME TypeOK, NEW i \in DOMAIN sent
  PROVE  /\ sent[i] \in Frame
         /\ sent[i].kind \in {"text", "cont", "ping", "pong", "close", "bad", "odd"}
         /\ sent[i].fin \in BOOLEAN /\ sent[i].rsv1 \in BOOLEAN
         /\ sent[i].size \in Nat /\ sent[i].depth \in Nat
         /\ sent[i].final \in BOOLEAN /\ sent[i].big \in BOOLEAN
  <1>1. sent[i] \in Frame BY DEF TypeOK
  <1> QED BY <1>1, FrameAssumption

\* The numbers of the frames.
LEMMA Numbers ==
  ASSUME TypeOK
  PROVE  /\ Len(sent) \in Nat /\ DOMAIN sent = 1 .. Len(sent)
         /\ parsed \in Nat /\ got \in Nat /\ parsed <= Len(sent)
         /\ last_read \in Nat /\ MaxMessage \in Nat
  <1>1. Len(sent) \in Nat /\ DOMAIN sent = 1 .. Len(sent) BY DEF TypeOK
  <1>2. got \in Nat /\ got <= 2 * Len(sent) /\ parsed \in Nat /\ 2 * parsed <= got
    BY <1>1 DEF TypeOK
  <1> QED BY <1>1, <1>2, FrameAssumption DEF TypeOK

\* The step does not touch the first n frames.
Prefix(n) == \A i \in 1 .. n : sent'[i] = sent[i]

\* What the frames up to n mean stays so.
LEMMA PrefixLemma ==
  ASSUME NEW n \in Nat, Prefix(n)
  PROVE  /\ \A i \in 1 .. n + 1 : Inside(i)' <=> Inside(i)
         /\ \A a, b \in 1 .. n : IsMessage(a, b)' <=> IsMessage(a, b)
         /\ \A a, b \in 1 .. n : \A c : Total(a, b, c)' <=> Total(a, b, c)
         /\ \A k \in 0 .. n : Messages(k)' = Messages(k)
         /\ \A k \in 0 .. n : Window(k)' = Window(k)
  <1>1. \A i \in 1 .. n : sent'[i] = sent[i] BY DEF Prefix
  <1>2. \A i \in 1 .. n : IsData(i)' <=> IsData(i) BY <1>1 DEF IsData
  <1>3. \A i \in 1 .. n + 1 : Inside(i)' <=> Inside(i) BY <1>1 DEF Inside, IsData
  <1>4. ASSUME NEW a \in 1 .. n, NEW b \in 1 .. n
        PROVE  IsMessage(a, b)' <=> IsMessage(a, b)
    <2>1. Inside(a)' <=> Inside(a) BY <1>3
    <2>2. a .. b \subseteq 1 .. n OBVIOUS
    <2>3. \A i \in a .. b : sent'[i] = sent[i] /\ (IsData(i)' <=> IsData(i))
      BY <1>1, <1>2, <2>2
    <2> QED BY <1>1, <1>2, <2>1, <2>3 DEF IsMessage
  <1>5. ASSUME NEW a \in 1 .. n, NEW b \in 1 .. n, NEW c
        PROVE  Total(a, b, c)' <=> Total(a, b, c)
    <2>1. a + 1 .. b \subseteq 1 .. n OBVIOUS
    <2>2. sent'[a] = sent[a] /\ \A i \in a + 1 .. b : sent'[i] = sent[i] /\ (IsData(i)' <=> IsData(i))
      BY <1>1, <1>2, <2>1
    <2> QED BY <2>2 DEF Total
  <1>6. ASSUME NEW k \in 0 .. n PROVE Messages(k)' = Messages(k)
    <2>1. \A a, b \in 1 .. k : IsMessage(a, b)' <=> IsMessage(a, b) BY <1>4
    <2> QED BY <2>1 DEF Messages
  <1>7. ASSUME NEW k \in 0 .. n PROVE Window(k)' = Window(k)
    <2>1. \A i \in 1 .. k : sent'[i] = sent[i] BY <1>1
    <2> QED BY <2>1 DEF Window, Squeezed
  <1> QED BY <1>3, <1>4, <1>5, <1>6, <1>7

\* The total of a single frame, ...
LEMMA TotalOne ==
  ASSUME NEW i \in Nat, sent[i].size \in 0 .. MaxMessage
  PROVE  Total(i, i, sent[i].size)
  <1> DEFINE total == [j \in i .. i |-> sent[i].size]
  <1>1. total \in [i .. i -> 0 .. MaxMessage] /\ total[i] = sent[i].size OBVIOUS
  <1>2. i + 1 .. i = {} OBVIOUS
  <1> HIDE DEF total
  <1> QED BY <1>1, <1>2 DEF Total

\* ... and of one more frame.
LEMMA TotalNext ==
  ASSUME NEW a \in Nat, NEW b \in Nat, a <= b, NEW n \in Nat, Total(a, b, n),
         NEW v, v = (IF IsData(b + 1) THEN sent[b + 1].size ELSE 0), v \in Nat,
         MaxMessage \in Nat, n + v <= MaxMessage
  PROVE  Total(a, b + 1, n + v)
  <1>1. PICK t \in [a .. b -> 0 .. MaxMessage] :
            /\ t[a] = sent[a].size
            /\ \A i \in a + 1 .. b : t[i] = t[i - 1] + (IF IsData(i) THEN sent[i].size ELSE 0)
            /\ t[b] = n
    BY DEF Total
  <1> DEFINE total == [j \in a .. b + 1 |-> IF j = b + 1 THEN n + v ELSE t[j]]
  <1>2. \A j \in a .. b + 1 : j = b + 1 \/ j \in a .. b OBVIOUS
  <1>3. total \in [a .. b + 1 -> 0 .. MaxMessage] BY <1>2
  <1>4. a \in a .. b /\ b \in a .. b /\ b + 1 \notin a .. b /\ b + 1 \in a .. b + 1
    OBVIOUS
  <1>5. /\ \A j \in a .. b : total[j] = t[j] /\ j \in a .. b + 1
        /\ total[b + 1] = n + v
    BY <1>4
  <1> HIDE DEF total
  <1>6. ASSUME NEW i \in a + 1 .. b + 1
        PROVE  total[i] = total[i - 1] + (IF IsData(i) THEN sent[i].size ELSE 0)
    <2>1. CASE i = b + 1 BY <1>1, <1>4, <1>5, <2>1
    <2>2. CASE i # b + 1
      <3>1. i \in a + 1 .. b /\ i \in a .. b /\ i - 1 \in a .. b BY <2>2
      <3> QED BY <1>1, <1>5, <3>1
    <2> QED BY <2>1, <2>2
  <1> QED BY <1>1, <1>3, <1>4, <1>5, <1>6 DEF Total

\* The window of the server, frame by frame, ...
LEMMA WindowNext ==
  ASSUME NEW n \in Nat
  PROVE  /\ IsFiniteSet(Window(n)) /\ Cardinality(Window(n)) \in Nat
         /\ ~Squeezed(n + 1) => Window(n + 1) = Window(n)
         /\ Squeezed(n + 1) /\ sent[n + 1].final => Cardinality(Window(n + 1)) = 0
         /\ Squeezed(n + 1) /\ ~sent[n + 1].final =>
                Cardinality(Window(n + 1)) = Cardinality(Window(n)) + 1
  <1>1. IsFiniteSet(Window(n)) /\ Cardinality(Window(n)) \in Nat
    <2>1. IsFiniteSet(1 .. n) BY FS_Interval
    <2>2. Window(n) \subseteq 1 .. n BY DEF Window
    <2> QED BY <2>1, <2>2, FS_Subset, FS_CardinalityType
  <1>2. ASSUME ~Squeezed(n + 1) PROVE Window(n + 1) = Window(n)
    BY <1>2 DEF Window
  <1>3. ASSUME Squeezed(n + 1), sent[n + 1].final PROVE Cardinality(Window(n + 1)) = 0
    <2>1. Window(n + 1) = {} BY <1>3 DEF Window
    <2> QED BY <2>1, FS_EmptySet
  <1>4. ASSUME Squeezed(n + 1), ~sent[n + 1].final
        PROVE  Cardinality(Window(n + 1)) = Cardinality(Window(n)) + 1
    <2>1. Window(n + 1) = Window(n) \cup {n + 1} BY <1>4 DEF Window
    <2>2. n + 1 \notin Window(n) BY DEF Window
    <2> QED BY <1>1, <2>1, <2>2, FS_AddElement
  <1> QED BY <1>1, <1>2, <1>3, <1>4

\* ... and over a stretch without compressed messages.
LEMMA WindowFlat ==
  ASSUME NEW a \in Nat, NEW b \in Nat, a <= b, \A i \in a + 1 .. b : ~Squeezed(i)
  PROVE  Window(b) = Window(a)
  <1>1. ASSUME NEW i \in Window(a) PROVE i \in Window(b)
    <2>1. \A j \in i .. b : j \in i .. a \/ j \in a + 1 .. b BY DEF Window
    <2> QED BY <2>1 DEF Window
  <1>2. ASSUME NEW i \in Window(b) PROVE i \in Window(a)
    <2>1. i \in 1 .. b /\ Squeezed(i) BY DEF Window
    <2>2. i \in 1 .. a BY <2>1
    <2> QED BY <2>2 DEF Window
  <1> QED BY <1>1, <1>2

\* What the server may refer back to is its window.
LEMMA ReachLemma ==
  ASSUME TypeOK
  PROVE  Reach = IF mode = "takeover" THEN Cardinality(Window(Len(sent))) ELSE 0
  <1>1. DOMAIN sent = 1 .. Len(sent) /\ Len(sent) \in Nat BY Numbers
  <1>2. {i \in Compressed : \A j \in Compressed : j >= i => ~sent[j].final} = Window(Len(sent))
    BY <1>1 DEF Compressed, Window, Squeezed
  <1> QED BY <1>2 DEF Reach

-----------------------------------------------------------------------------
(***************************************************************************)
(* The steps, by what they do to the messages.                             *)
(***************************************************************************)

\* A step that takes no frame off the buffer.
Quiet ==
    /\ UNCHANGED <<mode, parsed, open, inflater, delivered>>
    /\ pc' = pc \/ pc' \in {"caller", "loop", "pong", "protocol", "size", "broken"}
    /\ Alive' => Alive
    /\ Prefix(Len(sent))
    /\ got' \in Nat /\ got <= got'
    /\ \A u \in 1 .. got : read_at'[u] = read_at[u]

\* What Send does.
LEMMA SendLemma ==
  ASSUME TypeOK, NEW f \in Frame, Send(f)
  PROVE  /\ Quiet
         /\ sent' \in Seq(Frame) /\ Len(sent') = Len(sent) + 1 /\ sent'[Len(sent) + 1] = f
  <1>1. sent \in Seq(Frame) /\ sent' = Append(sent, f) BY DEF TypeOK, Send
  <1>2. /\ sent' \in Seq(Frame) /\ Len(sent') = Len(sent) + 1 /\ sent'[Len(sent) + 1] = f
        /\ \A i \in 1 .. Len(sent) : sent'[i] = sent[i]
    BY <1>1
  <1>3. got' = got /\ got \in Nat BY Numbers DEF Send
  <1> QED BY <1>2, <1>3 DEF Send, Quiet, Prefix, Alive, inflater

\* What is read.
LEMMA ReadLemma ==
  ASSUME TypeOK, NEW n \in Nat, Leftover(n) \/ Read(n)
  PROVE  /\ Quiet /\ sent' = sent
         /\ got' \in 0 .. 2 * Len(sent)
         /\ last_read' \in Nat
         /\ read_at' \in [1 .. got' -> Nat]
         /\ \A u \in 1 .. got' : u > got => read_at'[u] = last_read'
         /\ got' = got \/ got < 2 * (parsed + 1)
  <1>1. /\ Len(sent) \in Nat /\ DOMAIN sent = 1 .. Len(sent) /\ parsed \in Nat
        /\ got \in Nat /\ last_read \in Nat /\ 2 * parsed <= got /\ got <= 2 * Len(sent)
        /\ read_at \in [1 .. got -> Nat]
    BY Numbers DEF TypeOK
  <1>2. CASE Leftover(n)
    <2>1. /\ got = 0 /\ got' = n /\ n <= 2 * Len(sent) /\ last_read' = last_read
          /\ read_at' = [u \in 1 .. n |-> last_read] /\ sent' = sent
      BY <1>2 DEF Leftover
    <2>2. Quiet
      BY <1>1, <1>2, <2>1 DEF Leftover, Quiet, Prefix, Alive, inflater
    <2>3. read_at' \in [1 .. got' -> Nat] BY <1>1, <2>1
    <2> QED BY <1>1, <2>1, <2>2, <2>3
  <1>3. CASE Read(n)
    <2>1. /\ got' = got + n /\ got + n <= 2 * Len(sent) /\ last_read' = last_read + 1
          /\ read_at' = [u \in 1 .. got + n |-> IF u <= got THEN read_at[u] ELSE last_read + 1]
          /\ sent' = sent /\ ~PayloadRead(parsed + 1)
      BY <1>3 DEF Read, Starved
    <2>2. \A u \in 1 .. got : u \in 1 .. got + n /\ u <= got BY <1>1
    <2>3. \A u \in 1 .. got : read_at'[u] = read_at[u] BY <2>1, <2>2
    <2>4. Quiet
      BY <1>1, <1>3, <2>1, <2>3 DEF Read, Quiet, Prefix, Alive, inflater
    <2>5. read_at' \in [1 .. got' -> Nat] BY <1>1, <2>1
    <2>6. \A u \in 1 .. got' : u > got => read_at'[u] = last_read' BY <1>1, <2>1
    <2>7. got < 2 * (parsed + 1) BY <1>1, <2>1 DEF PayloadRead
    <2> QED BY <1>1, <2>1, <2>4, <2>5, <2>6, <2>7
  <1> QED BY <1>2, <1>3

\* The steps of the client that neither read nor take a frame.
Pauses == Call \/ RefuseHeader \/ Pong \/ Broken \/ UNCHANGED vars

\* They leave the frames alone.
LEMMA PausesLemma ==
  ASSUME TypeOK, Pauses
  PROVE  /\ Quiet /\ UNCHANGED <<sent, got, last_read, read_at>>
         /\ pc' = pc \/ pc' \in {"loop", "protocol", "size", "broken"}
  <1>1. got \in Nat BY Numbers
  <1>2. CASE Call BY <1>1, <1>2 DEF Call, Quiet, Prefix, Alive, inflater
  <1>3. CASE RefuseHeader
    BY <1>1, <1>3 DEF RefuseHeader, Fail, Quiet, Prefix, Alive, inflater
  <1>4. CASE Pong BY <1>1, <1>4 DEF Pong, Quiet, Prefix, Alive, inflater
  <1>5. CASE Broken BY <1>1, <1>5 DEF Broken, Starved, Quiet, Prefix, Alive, inflater
  <1>6. CASE UNCHANGED vars BY <1>1, <1>6 DEF vars, Quiet, Prefix, Alive, inflater
  <1> QED BY <1>2, <1>3, <1>4, <1>5, <1>6 DEF Pauses

\* The steps.
LEMMA StepKinds ==
  ASSUME [Next]_vars
  PROVE  \/ \E f \in Frame : Send(f)
         \/ \E n \in Nat : Leftover(n) \/ Read(n)
         \/ Pauses
         \/ TakeFrame
  <1>1. 1 .. 2 * MaxFrames \subseteq Nat BY FrameAssumption
  <1> QED BY <1>1 DEF Next, Pauses

-----------------------------------------------------------------------------
(***************************************************************************)
(* The frame that is taken.                                                *)
(***************************************************************************)
Taken == parsed + 1

\* It ends the session, ...
Ends ==
    /\ ~Alive' /\ pc' \in {"protocol", "size", "closed"}
    /\ UNCHANGED <<inflater, delivered>>
    /\ open' \in {open, NoMessage}

\* ... or is not part of a message, ...
Controls ==
    /\ sent[Taken].kind \in {"ping", "pong"}
    /\ pc' \in {"loop", "pong"}
    /\ UNCHANGED <<open, inflater, delivered>>

\* ... or begins one, ...
Begins ==
    /\ open = NoMessage /\ sent[Taken].kind = "text" /\ ~sent[Taken].fin
    /\ open' = [from |-> Taken, compressed |-> sent[Taken].rsv1, size |-> sent[Taken].size]
    /\ pc' = "loop" /\ UNCHANGED <<inflater, delivered>>

\* ... or continues it, ...
Continues ==
    /\ open # NoMessage /\ sent[Taken].kind = "cont" /\ ~sent[Taken].fin
    /\ open.size + sent[Taken].size <= MaxMessage
    /\ open' = [open EXCEPT !.size = open.size + sent[Taken].size]
    /\ pc' = "loop" /\ UNCHANGED <<inflater, delivered>>

\* ... or completes the one that began with frame `from`.
Began(from) ==
    \/ /\ open = NoMessage /\ from = Taken /\ sent[Taken].kind = "text"
    \/ /\ open # NoMessage /\ from = open.from /\ sent[Taken].kind = "cont"
       /\ open.size + sent[Taken].size <= MaxMessage

Completes(from) ==
    /\ Began(from) /\ sent[Taken].fin
    /\ open' = NoMessage /\ pc' = "caller"
    /\ delivered' = Append(delivered, [from |-> from, to |-> Taken, arrival |-> last_read])
    /\ \/ ~sent[from].rsv1 /\ UNCHANGED inflater
       \/ /\ sent[from].rsv1 /\ ~sent[from].big
          /\ window' = Have + 1 /\ ended' = sent[from].final

\* The inflater has all that the next message to be inflated refers back to.
LEMMA DepthLemma ==
  ASSUME TypeOK, ServerKept, WindowRight, Alive, parsed + 1 <= Len(sent),
         NEW from, from = IF open = NoMessage THEN parsed + 1 ELSE open.from
  PROVE  sent[from].depth <= Have
  <1>1. /\ Len(sent) \in Nat /\ DOMAIN sent = 1 .. Len(sent) /\ parsed \in Nat BY Numbers
  <1>2. from \in DOMAIN sent /\ from - 1 = IF open = NoMessage THEN parsed ELSE open.from - 1
    <2>1. CASE open = NoMessage BY <1>1, <2>1
    <2>2. CASE open # NoMessage
      <3>1. open.from \in 1 .. parsed BY <2>2 DEF TypeOK
      <3> QED BY <1>1, <2>2, <3>1
    <2> QED BY <2>1, <2>2
  <1>3. sent[from].depth <= IF mode = "takeover" THEN Cardinality(Window(from - 1)) ELSE 0
    BY <1>2 DEF ServerKept
  <1>4. CASE mode = "takeover"
    <2>1. Have = Cardinality(Window(from - 1)) BY <1>2, <1>4 DEF WindowRight
    <2> QED BY <1>3, <1>4, <2>1
  <1>5. CASE mode # "takeover"
    <2>1. sent[from].depth \in Nat BY <1>2, FrameParts
    <2>2. Have \in Nat BY DEF Have, TypeOK
    <2> QED BY <1>3, <1>5, <2>1, <2>2
  <1> QED BY <1>4, <1>5

\* finish, of a message whose back references can be followed.
LEMMA FinishLemma ==
  ASSUME TypeOK, NEW from \in DOMAIN sent, sent[from].depth <= Have,
         Finish(from, Taken, sent[from].rsv1)
  PROVE  \/ pc' = "size" /\ UNCHANGED <<inflater, delivered>>
         \/ /\ pc' = "caller"
            /\ delivered' = Append(delivered, [from |-> from, to |-> Taken, arrival |-> last_read])
            /\ \/ ~sent[from].rsv1 /\ UNCHANGED inflater
               \/ /\ sent[from].rsv1 /\ ~sent[from].big
                  /\ window' = Have + 1 /\ ended' = sent[from].final
  <1>1. sent[from].depth \in Nat BY FrameParts
  <1>2. Have \in Nat BY DEF Have, TypeOK
  <1>3. ~(sent[from].depth > Have) BY <1>1, <1>2
  <1> QED BY <1>3 DEF Finish, Return, Fail

\* What taking a frame may do.
LEMMA TakeLemma ==
  ASSUME TypeOK, OpenRight, ServerKept, WindowRight, TakeFrame
  PROVE  /\ Taken \in DOMAIN sent /\ 2 * Taken <= got /\ Alive
         /\ sent[Taken].size <= MaxMessage
         /\ parsed' = Taken /\ UNCHANGED <<mode, sent, got, last_read, read_at>>
         /\ Ends \/ Controls \/ Begins \/ Continues \/ \E from : Completes(from)
  <1> DEFINE i == parsed + 1
             f == sent[i]
  <1>1. /\ i <= Len(sent) /\ got >= 2 * i /\ ~Refused(f) /\ pc = "loop" /\ parsed' = i
        /\ UNCHANGED <<mode, sent, got, last_read, read_at>>
    BY DEF TakeFrame, PayloadRead
  <1>2. i \in DOMAIN sent /\ 2 * i <= got /\ Alive /\ Taken = i
    BY <1>1, Numbers DEF Alive, Taken
  <1>3. f.size \in Nat /\ f.size <= MaxMessage /\ MaxMessage \in Nat /\ f.kind # "bad"
    BY <1>1, <1>2, FrameParts, Numbers DEF Refused
  <1>4. Ends \/ Controls \/ Begins \/ Continues \/ \E from : Completes(from)
    <2>1. CASE f.kind = "text" /\ FirstFrame(f, i)
      <3>1. CASE Fail("protocol") /\ UNCHANGED open
        BY <3>1 DEF Fail, Ends, Alive
      <3>2. CASE open = NoMessage /\ f.fin /\ Finish(i, i, f.rsv1) /\ UNCHANGED open
        <4>1. sent[i].depth <= Have BY <1>1, <1>2, <3>2, DepthLemma
        <4>2. \/ pc' = "size" /\ UNCHANGED <<inflater, delivered>>
              \/ /\ pc' = "caller"
                 /\ delivered' = Append(delivered, [from |-> i, to |-> Taken, arrival |-> last_read])
                 /\ \/ ~sent[i].rsv1 /\ UNCHANGED inflater
                    \/ /\ sent[i].rsv1 /\ ~sent[i].big
                       /\ window' = Have + 1 /\ ended' = sent[i].final
          BY <1>2, <3>2, <4>1, FinishLemma
        <4>3. CASE pc' = "size" /\ UNCHANGED <<inflater, delivered>>
          BY <3>2, <4>3 DEF Ends, Alive
        <4>4. CASE pc' # "size"
          <5>1. Completes(i) BY <1>2, <2>1, <3>2, <4>2, <4>4 DEF Completes, Began
          <5> QED BY <5>1
        <4> QED BY <4>3, <4>4, <4>2
      <3>3. CASE /\ open = NoMessage /\ ~f.fin
                 /\ open' = [from |-> i, compressed |-> f.rsv1, size |-> f.size]
                 /\ UNCHANGED <<inflater, delivered, pc>>
        BY <1>1, <1>2, <2>1, <3>3 DEF Begins
      <3> QED BY <2>1, <3>1, <3>2, <3>3 DEF FirstFrame
    <2>2. CASE f.kind = "cont" /\ Continuation(f, i)
      <3>1. CASE open = NoMessage
        BY <2>2, <3>1 DEF Continuation, Fail, Ends, Alive
      <3>2. CASE open # NoMessage /\ open' = NoMessage /\ Fail("size")
        BY <3>2 DEF Fail, Ends, Alive
      <3>3. CASE /\ open # NoMessage /\ open.size + f.size <= MaxMessage /\ f.fin
                 /\ open' = NoMessage
                 /\ Finish(open.from, i, open.compressed)
        <4>1. open.from \in 1 .. parsed BY <3>3 DEF TypeOK
        <4>2. open.from \in DOMAIN sent BY <4>1, Numbers
        <4>3. open.compressed = sent[open.from].rsv1
          BY <1>2, <3>3 DEF OpenRight, Unfinished
        <4>4. sent[open.from].depth <= Have BY <1>1, <1>2, <3>3, DepthLemma
        <4>5. \/ pc' = "size" /\ UNCHANGED <<inflater, delivered>>
              \/ /\ pc' = "caller"
                 /\ delivered' = Append(delivered,
                                        [from |-> open.from, to |-> Taken, arrival |-> last_read])
                 /\ \/ ~sent[open.from].rsv1 /\ UNCHANGED inflater
                    \/ /\ sent[open.from].rsv1 /\ ~sent[open.from].big
                       /\ window' = Have + 1 /\ ended' = sent[open.from].final
          BY <1>2, <3>3, <4>2, <4>3, <4>4, FinishLemma
        <4>6. CASE pc' = "size" /\ UNCHANGED <<inflater, delivered>>
          BY <3>3, <4>6 DEF Ends, Alive
        <4>7. CASE pc' # "size"
          <5>1. Completes(open.from) BY <1>2, <2>2, <3>3, <4>5, <4>7 DEF Completes, Began
          <5> QED BY <5>1
        <4> QED BY <4>5, <4>6, <4>7
      <3>4. CASE /\ open # NoMessage /\ open.size + f.size <= MaxMessage /\ ~f.fin
                 /\ open' = [open EXCEPT !.size = open.size + f.size]
                 /\ UNCHANGED <<inflater, delivered, pc>>
        BY <1>1, <1>2, <2>2, <3>4 DEF Continues
      <3> QED BY <2>2, <3>1, <3>2, <3>3, <3>4 DEF Continuation
    <2>3. CASE f.kind = "ping" /\ pc' = "pong" /\ UNCHANGED <<open, inflater, delivered>>
      BY <1>2, <2>3 DEF Controls
    <2>4. CASE f.kind = "pong" /\ UNCHANGED <<pc, open, inflater, delivered>>
      BY <1>1, <1>2, <2>4 DEF Controls
    <2>5. CASE (Fail("closed") \/ Fail("protocol")) /\ UNCHANGED open
      BY <2>5 DEF Fail, Ends, Alive
    <2> QED BY <2>1, <2>2, <2>3, <2>4, <2>5 DEF TakeFrame
  <1> QED BY <1>1, <1>2, <1>3, <1>4

-----------------------------------------------------------------------------
(***************************************************************************)
(* Every step keeps every part of the invariant.                           *)
(***************************************************************************)
OpenType(n) ==
    {NoMessage} \cup [from : 1 .. n, compressed : BOOLEAN, size : 0 .. MaxMessage]

DeliveredType(n) == [from : 1 .. n, to : 1 .. n, arrival : Nat]

\* The types of the messages, after a frame is taken.
LEMMA TakenTypes ==
  ASSUME TypeOK, OpenRight, ServerKept, WindowRight, TakeFrame
  PROVE  /\ open' \in OpenType(Taken) /\ delivered' \in Seq(DeliveredType(Taken))
         /\ window' \in Nat /\ ended' \in BOOLEAN
         /\ pc' \in {"caller", "loop", "pong", "protocol", "size", "closed"}
  <1>1. /\ parsed \in Nat /\ Taken \in DOMAIN sent /\ MaxMessage \in Nat /\ last_read \in Nat
        /\ sent[Taken].size \in 0 .. MaxMessage /\ sent[Taken].rsv1 \in BOOLEAN
        /\ DOMAIN sent = 1 .. Len(sent)
    BY Numbers, TakeLemma, FrameParts
  <1>2. open \in OpenType(Taken) /\ NoMessage \in OpenType(Taken)
    BY <1>1 DEF TypeOK, OpenType, Taken
  <1>3. delivered \in Seq(DeliveredType(Taken))
    <2>1. delivered \in Seq(DeliveredType(parsed)) BY DEF TypeOK, DeliveredType
    <2>2. DeliveredType(parsed) \subseteq DeliveredType(Taken) BY <1>1 DEF DeliveredType, Taken
    <2> HIDE DEF DeliveredType
    <2> QED BY <2>1, <2>2
  <1>4. window \in Nat /\ ended \in BOOLEAN /\ Have \in Nat BY DEF TypeOK, Have
  <1>5. CASE Ends BY <1>2, <1>3, <1>4, <1>5 DEF Ends, inflater
  <1>6. CASE Controls BY <1>2, <1>3, <1>4, <1>6 DEF Controls, inflater
  <1>7. CASE Begins
    <2>1. open' \in OpenType(Taken)
      <3>1. Taken \in 1 .. Taken BY <1>1 DEF Taken
      <3> QED BY <1>1, <1>7, <3>1 DEF Begins, OpenType
    <2> QED BY <1>3, <1>4, <1>7, <2>1 DEF Begins, inflater
  <1>8. CASE Continues
    <2>1. open \in [from : 1 .. Taken, compressed : BOOLEAN, size : 0 .. MaxMessage]
      BY <1>2, <1>8 DEF Continues, OpenType
    <2>2. open.size + sent[Taken].size \in 0 .. MaxMessage BY <1>1, <1>8, <2>1 DEF Continues
    <2>3. open' \in OpenType(Taken) BY <1>8, <2>1, <2>2 DEF Continues, OpenType
    <2> QED BY <1>3, <1>4, <1>8, <2>3 DEF Continues, inflater
  <1>9. ASSUME NEW from, Completes(from)
        PROVE  /\ open' \in OpenType(Taken) /\ delivered' \in Seq(DeliveredType(Taken))
               /\ window' \in Nat /\ ended' \in BOOLEAN /\ pc' = "caller"
    <2>1. from \in 1 .. Taken
      <3>1. CASE open = NoMessage BY <1>1, <1>9, <3>1 DEF Completes, Began, Taken
      <3>2. CASE open # NoMessage BY <1>2, <1>9, <3>2 DEF Completes, Began, OpenType
      <3> QED BY <3>1, <3>2
    <2>2. [from |-> from, to |-> Taken, arrival |-> last_read] \in DeliveredType(Taken)
      <3>1. Taken \in 1 .. Taken BY <1>1 DEF Taken
      <3> QED BY <1>1, <2>1, <3>1 DEF DeliveredType
    <2>3. delivered' \in Seq(DeliveredType(Taken))
      <3> HIDE DEF DeliveredType
      <3> QED BY <1>3, <1>9, <2>2 DEF Completes
    <2>4. from \in DOMAIN sent BY <1>1, <2>1
    <2>5. sent[from].final \in BOOLEAN BY <2>4, FrameParts
    <2>6. window' \in Nat /\ ended' \in BOOLEAN BY <1>4, <1>9, <2>5 DEF Completes, inflater
    <2> QED BY <1>2, <1>9, <2>3, <2>6 DEF Completes
  <1> QED BY TakeLemma, <1>5, <1>6, <1>7, <1>8, <1>9

\* The types of the Client's fields.
LEMMA TypeStep ==
  ASSUME TypeOK, OpenRight, ServerKept, WindowRight, [Next]_vars
  PROVE  TypeOK'
  <1>1. /\ Len(sent) \in Nat /\ parsed \in Nat /\ got \in Nat /\ last_read \in Nat
        /\ 2 * parsed <= got /\ got <= 2 * Len(sent)
    BY Numbers DEF TypeOK
  <1>2. ASSUME NEW f \in Frame, Send(f) PROVE TypeOK'
    <2>1. sent' \in Seq(Frame) /\ Len(sent') = Len(sent) + 1 BY <1>2, SendLemma
    <2>2. UNCHANGED <<mode, got, last_read, parsed, open, inflater, delivered, pc, read_at>>
      BY <1>2 DEF Send
    <2>3. got \in 0 .. 2 * Len(sent') BY <1>1, <2>1
    <2> QED BY <2>1, <2>2, <2>3 DEF TypeOK, inflater
  <1>3. ASSUME NEW n \in Nat, Leftover(n) \/ Read(n) PROVE TypeOK'
    <2>1. /\ Quiet /\ sent' = sent /\ got' \in 0 .. 2 * Len(sent)
          /\ last_read' \in Nat /\ read_at' \in [1 .. got' -> Nat]
      BY <1>3, ReadLemma
    <2>2. UNCHANGED <<mode, parsed, open, inflater, delivered, pc>>
      BY <1>3 DEF Leftover, Read
    <2>3. 2 * parsed <= got' BY <1>1, <2>1 DEF Quiet
    <2> QED BY <2>1, <2>2, <2>3 DEF TypeOK, inflater
  <1>4. CASE Pauses
    <2>1. /\ UNCHANGED <<mode, parsed, open, inflater, delivered>>
          /\ UNCHANGED <<sent, got, last_read, read_at>>
      BY <1>4, PausesLemma DEF Quiet
    <2>2. pc' = pc \/ pc' \in {"loop", "protocol", "size", "broken"} BY <1>4, PausesLemma
    <2> QED BY <2>1, <2>2 DEF TypeOK, inflater
  <1>5. CASE TakeFrame
    <2>1. /\ parsed' = Taken /\ UNCHANGED <<mode, sent, got, last_read, read_at>>
          /\ 2 * Taken <= got
      BY <1>5, TakeLemma
    <2>2. Taken \in Nat BY <1>1 DEF Taken
    <2>3. open' \in OpenType(parsed') /\ delivered' \in Seq(DeliveredType(parsed'))
      BY <1>5, <2>1, TakenTypes
    <2>4. /\ window' \in Nat /\ ended' \in BOOLEAN
          /\ pc' \in {"caller", "loop", "pong", "protocol", "size", "closed"}
      BY <1>5, TakenTypes
    <2>5. mode' \in Modes /\ sent' \in Seq(Frame) /\ got' \in 0 .. 2 * Len(sent')
          /\ last_read' \in Nat /\ read_at' \in [1 .. got' -> Nat]
      BY <2>1 DEF TypeOK
    <2> QED BY <2>1, <2>2, <2>3, <2>4, <2>5 DEF TypeOK, OpenType, DeliveredType
  <1> QED BY <1>2, <1>3, <1>4, <1>5, StepKinds

\* What lies complete in the buffer came with the last read.
LEMMA FreshStep ==
  ASSUME TypeOK, OpenRight, ServerKept, WindowRight, BufferFresh, [Next]_vars
  PROVE  BufferFresh'
  <1>1. /\ parsed \in Nat /\ got \in Nat /\ 2 * parsed <= got
    BY Numbers DEF TypeOK
  <1>2. ASSUME NEW f \in Frame, Send(f) PROVE BufferFresh'
    BY <1>2 DEF Send, BufferFresh
  <1>3. ASSUME NEW n \in Nat, Leftover(n) \/ Read(n) PROVE BufferFresh'
    <2>1. /\ got' \in Nat /\ parsed' = parsed
          /\ \A u \in 1 .. got' : u > got => read_at'[u] = last_read'
          /\ got' = got \/ got < 2 * (parsed + 1)
      BY <1>3, ReadLemma DEF Quiet
    <2>2. CASE got < 2 * (parsed + 1)
      <3>1. \A u \in 2 * (parsed + 1) .. got' : u \in 1 .. got' /\ u > got
        BY <1>1, <2>1, <2>2
      <3> QED BY <2>1, <3>1 DEF BufferFresh
    <2>3. CASE got' = got /\ ~(got < 2 * (parsed + 1))
      <3>1. got = 0 \/ n = 0 BY <1>1, <1>3, <2>3 DEF Leftover, Read
      <3>2. ~Read(n)
        <4>1. SUFFICES ASSUME Read(n) PROVE FALSE OBVIOUS
        <4>2. ~PayloadRead(parsed + 1) BY <4>1 DEF Read, Starved
        <4>3. got + n <= 2 * Len(sent) BY <4>1 DEF Read
        <4> QED BY <1>1, <2>3, <4>2, <4>3, Numbers DEF PayloadRead
      <3>3. got = 0 BY <1>3, <3>2 DEF Leftover
      <3> QED BY <1>1, <2>3, <3>3
    <2> QED BY <2>1, <2>2, <2>3
  <1>4. CASE Pauses
    <2>1. UNCHANGED <<parsed, got, last_read, read_at>> BY <1>4, PausesLemma DEF Quiet
    <2> QED BY <2>1 DEF BufferFresh
  <1>5. CASE TakeFrame
    <2>1. parsed' = parsed + 1 /\ UNCHANGED <<got, last_read, read_at>>
      BY <1>5, TakeLemma DEF Taken
    <2>2. \A u \in 2 * (parsed + 1 + 1) .. got : u \in 2 * (parsed + 1) .. got BY <1>1
    <2> QED BY <2>1, <2>2 DEF BufferFresh
  <1> QED BY <1>2, <1>3, <1>4, <1>5, StepKinds

\* Whether a frame is inside a message.
LEMMA InsideNext ==
  ASSUME NEW i \in Nat, i >= 1
  PROVE  /\ IsData(i) => (Inside(i + 1) <=> ~sent[i].fin)
         /\ ~IsData(i) => (Inside(i + 1) <=> Inside(i))
  <1>1. ASSUME IsData(i) PROVE Inside(i + 1) <=> ~sent[i].fin
    <2>1. ASSUME Inside(i + 1) PROVE ~sent[i].fin
      <3>1. PICK j \in 1 .. i : /\ IsData(j) /\ ~sent[j].fin
                                /\ \A k \in j + 1 .. i : ~IsData(k)
        BY <2>1 DEF Inside
      <3>2. j = i BY <1>1, <3>1
      <3> QED BY <3>1, <3>2
    <2>2. ASSUME ~sent[i].fin PROVE Inside(i + 1)
      <3>1. i \in 1 .. i + 1 - 1 /\ i + 1 .. i + 1 - 1 = {} OBVIOUS
      <3> QED BY <1>1, <2>2, <3>1 DEF Inside
    <2> QED BY <2>1, <2>2
  <1>2. ASSUME ~IsData(i) PROVE Inside(i + 1) <=> Inside(i)
    <2>1. ASSUME Inside(i + 1) PROVE Inside(i)
      <3>1. PICK j \in 1 .. i : /\ IsData(j) /\ ~sent[j].fin
                                /\ \A k \in j + 1 .. i : ~IsData(k)
        BY <2>1 DEF Inside
      <3>2. j \in 1 .. i - 1 /\ \A k \in j + 1 .. i - 1 : k \in j + 1 .. i
        BY <1>2, <3>1
      <3> QED BY <3>1, <3>2 DEF Inside
    <2>2. ASSUME Inside(i) PROVE Inside(i + 1)
      <3>1. PICK j \in 1 .. i - 1 : /\ IsData(j) /\ ~sent[j].fin
                                    /\ \A k \in j + 1 .. i - 1 : ~IsData(k)
        BY <2>2 DEF Inside
      <3>2. j \in 1 .. i + 1 - 1 /\ \A k \in j + 1 .. i + 1 - 1 : k = i \/ k \in j + 1 .. i - 1
        BY <3>1
      <3> QED BY <1>2, <3>1, <3>2 DEF Inside
    <2> QED BY <2>1, <2>2
  <1> QED BY <1>1, <1>2

\* A message in progress stays what it is when its frames do.
LEMMA UnfinishedKept ==
  ASSUME NEW n \in Nat, Prefix(n), NEW o, o.from \in 1 .. n, Unfinished(o, n)
  PROVE  Unfinished(o, n)'
  <1>1. \A i \in 1 .. n : sent'[i] = sent[i] /\ (IsData(i)' <=> IsData(i))
    BY DEF Prefix, IsData
  <1>2. Inside(o.from)' <=> Inside(o.from)
    <2>1. o.from \in 1 .. n + 1 OBVIOUS
    <2> QED BY <2>1, PrefixLemma
  <1>3. Total(o.from, n, o.size)'
    <2>1. n \in 1 .. n OBVIOUS
    <2>2. Total(o.from, n, o.size)' <=> Total(o.from, n, o.size) BY <2>1, PrefixLemma
    <2> QED BY <2>2 DEF Unfinished
  <1>4. \A i \in o.from + 1 .. n : i \in 1 .. n OBVIOUS
  <1>5. o # NoMessage /\ o.compressed = sent[o.from].rsv1 BY DEF Unfinished
  <1>6. o # NoMessage' /\ o.compressed = sent'[o.from].rsv1 BY <1>1, <1>5 DEF NoMessage
  <1>7. sent'[o.from].kind = "text" /\ ~sent'[o.from].fin /\ ~Inside(o.from)'
    BY <1>1, <1>2 DEF Unfinished
  <1>8. \A i \in o.from + 1 .. n : IsData(i)' => sent'[i].kind = "cont" /\ ~sent'[i].fin
    BY <1>1, <1>4 DEF Unfinished
  <1> QED BY <1>3, <1>6, <1>7, <1>8 DEF Unfinished

\* The open message is the one in progress.
LEMMA StillOpen ==
  ASSUME NEW o, NEW n, open' = o, parsed' = n, Unfinished(o, n)'
  PROVE  OpenRight'
  BY DEF OpenRight, Unfinished, Inside, IsData, Total, NoMessage, Alive

\* A step that takes no frame leaves the open message what it was.
LEMMA OpenQuiet ==
  ASSUME TypeOK, OpenRight, Quiet
  PROVE  OpenRight'
  <1>1. /\ open' = open /\ parsed' = parsed /\ (Alive' => Alive) /\ Prefix(Len(sent))
    BY DEF Quiet
  <1>2. parsed \in Nat /\ parsed <= Len(sent) /\ Len(sent) \in Nat BY Numbers
  <1>3. Prefix(parsed) BY <1>1, <1>2 DEF Prefix
  <1>4. CASE ~Alive' BY <1>4 DEF OpenRight
  <1>5. CASE open = NoMessage /\ ~Inside(parsed + 1)
    <2>1. PICK n : n = parsed OBVIOUS
    <2>2. n + 1 \in 1 .. n + 1 /\ n \in Nat /\ Prefix(n) BY <1>2, <1>3, <2>1
    <2>3. Inside(n + 1)' <=> Inside(n + 1) BY <2>2, PrefixLemma
    <2>4. ~Inside(n + 1)' BY <1>5, <2>1, <2>3
    <2>5. open' = NoMessage' /\ n = parsed' BY <1>1, <1>5, <2>1 DEF NoMessage
    <2> QED BY <2>4, <2>5 DEF OpenRight, Inside, IsData
  <1>6. CASE Unfinished(open, parsed)
    <2>1. PICK o : o = open OBVIOUS
    <2>2. PICK n : n = parsed OBVIOUS
    <2>3. o.from \in 1 .. n BY <1>6, <2>1, <2>2 DEF TypeOK, Unfinished
    <2>4. Unfinished(o, n) BY <1>6, <2>1, <2>2
    <2>5. n \in Nat /\ Prefix(n) BY <1>2, <1>3, <2>2
    <2>6. Unfinished(o, n)' BY <2>3, <2>4, <2>5, UnfinishedKept
    <2> QED BY <1>1, <2>1, <2>2, <2>6, StillOpen
  <1> QED BY <1>1, <1>4, <1>5, <1>6 DEF OpenRight

\* No message is open, and the frame after the one taken is in none.
LEMMA NowClosed ==
  ASSUME NEW n \in Nat, sent' = sent, parsed' = n, open' = NoMessage, ~Inside(n + 1)
  PROVE  OpenRight'
  <1>1. NoMessage' = NoMessage BY DEF NoMessage
  <1>2. Inside(n + 1)' <=> Inside(n + 1) BY DEF Inside, IsData
  <1> QED BY <1>1, <1>2 DEF OpenRight, Inside, IsData

\* A message is in progress after the frame taken.
LEMMA NowOpen ==
  ASSUME NEW n \in Nat, sent' = sent, parsed' = n, NEW o, open' = o,
         o.from \in 1 .. n, Unfinished(o, n)
  PROVE  OpenRight'
  <1>1. Prefix(n) BY DEF Prefix
  <1>2. Unfinished(o, n)' BY <1>1, UnfinishedKept
  <1> QED BY <1>2, StillOpen

\* What OpenRight says of the frame to be taken.
LEMMA OpenCases ==
  ASSUME TypeOK, OpenRight, Alive
  PROVE  \/ open = NoMessage /\ ~Inside(Taken)
         \/ /\ open # NoMessage /\ Unfinished(open, parsed)
            /\ open \in [from : 1 .. parsed, compressed : BOOLEAN, size : 0 .. MaxMessage]
  BY DEF OpenRight, Unfinished, TypeOK, Taken

\* Taking a frame keeps the open message right.
LEMMA OpenTake ==
  ASSUME TypeOK, OpenRight, ServerKept, WindowRight, TakeFrame
  PROVE  OpenRight'
  <1>1. /\ parsed' = Taken /\ sent' = sent /\ Alive /\ Taken \in DOMAIN sent
        /\ sent[Taken].size <= MaxMessage
    BY TakeLemma
  <1>2. /\ Taken \in Nat /\ Taken >= 1 /\ Taken = parsed + 1 /\ parsed \in Nat
        /\ MaxMessage \in Nat /\ sent[Taken].size \in Nat
        /\ sent[Taken].fin \in BOOLEAN
    BY <1>1, Numbers, FrameParts DEF Taken
  <1>3. CASE Ends BY <1>3 DEF Ends, OpenRight
  <1>4. CASE Controls
    <2>1. ~IsData(Taken) /\ open' = open BY <1>4 DEF Controls, IsData
    <2>2. CASE open = NoMessage /\ ~Inside(Taken)
      <3>1. ~Inside(Taken + 1) BY <1>2, <2>1, <2>2, InsideNext
      <3>2. open' = NoMessage BY <2>1, <2>2
      <3> QED BY <1>1, <1>2, <3>1, <3>2, NowClosed
    <2>3. CASE /\ open # NoMessage /\ Unfinished(open, parsed)
               /\ open \in [from : 1 .. parsed, compressed : BOOLEAN, size : 0 .. MaxMessage]
      <3>1. PICK o : o = open OBVIOUS
      <3>2. o.from \in 1 .. parsed /\ o.size \in 0 .. MaxMessage BY <2>3, <3>1
      <3>3. Unfinished(o, parsed) BY <2>3, <3>1
      <3>4. Total(o.from, Taken, o.size)
        <4>1. Total(o.from, parsed + 1, o.size + 0)
          <5>1. 0 = IF IsData(parsed + 1) THEN sent[parsed + 1].size ELSE 0 BY <1>2, <2>1
          <5>2. Total(o.from, parsed, o.size) BY <3>3 DEF Unfinished
          <5> QED BY <1>2, <3>2, <5>1, <5>2, TotalNext
        <4>2. o.size + 0 = o.size BY <3>2
        <4> QED BY <1>2, <4>1, <4>2
      <3>5. \A i \in o.from + 1 .. Taken : IsData(i) => sent[i].kind = "cont" /\ ~sent[i].fin
        <4>1. \A i \in o.from + 1 .. Taken : i = Taken \/ i \in o.from + 1 .. parsed
          BY <1>2, <3>2
        <4> QED BY <2>1, <3>3, <4>1 DEF Unfinished
      <3>6. Unfinished(o, Taken) BY <3>3, <3>4, <3>5 DEF Unfinished
      <3>7. o.from \in 1 .. Taken BY <1>2, <3>2
      <3> QED BY <1>1, <1>2, <2>1, <3>1, <3>6, <3>7, NowOpen
    <2> QED BY <1>1, <2>2, <2>3, OpenCases
  <1>5. CASE Begins
    <2>1. open = NoMessage /\ ~Inside(Taken) BY <1>1, <1>5, OpenCases DEF Begins
    <2>2. PICK o : o = [from |-> Taken, compressed |-> sent[Taken].rsv1, size |-> sent[Taken].size]
      OBVIOUS
    <2>3. open' = o BY <1>5, <2>2 DEF Begins
    <2>4. o.from = Taken /\ o.compressed = sent[Taken].rsv1 /\ o.size = sent[Taken].size
      BY <2>2
    <2>5. o # NoMessage BY <1>2, <2>4 DEF NoMessage
    <2>6. Total(Taken, Taken, sent[Taken].size) BY <1>1, <1>2, TotalOne
    <2>7. Taken + 1 .. Taken = {} BY <1>2
    <2>8. sent[Taken].kind = "text" /\ ~sent[Taken].fin BY <1>5 DEF Begins
    <2>9. Unfinished(o, Taken) BY <2>1, <2>4, <2>5, <2>6, <2>7, <2>8 DEF Unfinished
    <2>10. o.from \in 1 .. Taken BY <1>2, <2>4
    <2> QED BY <1>1, <1>2, <2>3, <2>9, <2>10, NowOpen
  <1>6. CASE Continues
    <2>1. /\ Unfinished(open, parsed)
          /\ open \in [from : 1 .. parsed, compressed : BOOLEAN, size : 0 .. MaxMessage]
      BY <1>1, <1>6, OpenCases DEF Continues
    <2>2. PICK o : o = [open EXCEPT !.size = open.size + sent[Taken].size] OBVIOUS
    <2>3. /\ o.from = open.from /\ o.compressed = open.compressed
          /\ o.size = open.size + sent[Taken].size
      BY <2>1, <2>2
    <2>4. o.from \in 1 .. parsed /\ o.from \in 1 .. Taken /\ open.size \in 0 .. MaxMessage
      BY <1>2, <2>1, <2>3
    <2>5. IsData(Taken) /\ sent[Taken].kind = "cont" /\ ~sent[Taken].fin
      BY <1>6 DEF Continues, IsData
    <2>6. Total(o.from, Taken, o.size)
      <3>1. Total(o.from, parsed, open.size) BY <2>1, <2>3 DEF Unfinished
      <3>2. sent[Taken].size = IF IsData(parsed + 1) THEN sent[parsed + 1].size ELSE 0
        BY <1>2, <2>5
      <3>3. open.size + sent[Taken].size <= MaxMessage BY <1>6 DEF Continues
      <3>4. Total(o.from, parsed + 1, open.size + sent[Taken].size)
        BY <1>2, <2>4, <3>1, <3>2, <3>3, TotalNext
      <3> QED BY <1>2, <2>3, <3>4
    <2>7. \A i \in o.from + 1 .. Taken : IsData(i) => sent[i].kind = "cont" /\ ~sent[i].fin
      <3>1. \A i \in o.from + 1 .. Taken : i = Taken \/ i \in o.from + 1 .. parsed
        BY <1>2, <2>4
      <3> QED BY <2>1, <2>3, <2>5, <3>1 DEF Unfinished
    <2>8. o # NoMessage
      <3>1. o.from # 0 BY <2>4
      <3> QED BY <3>1 DEF NoMessage
    <2>9. Unfinished(o, Taken) BY <2>1, <2>3, <2>6, <2>7, <2>8 DEF Unfinished
    <2>10. open' = o BY <1>6, <2>2 DEF Continues
    <2> QED BY <1>1, <1>2, <2>4, <2>9, <2>10, NowOpen
  <1>7. ASSUME NEW from, Completes(from) PROVE OpenRight'
    <2>1. IsData(Taken) /\ sent[Taken].fin /\ open' = NoMessage
      BY <1>7 DEF Completes, Began, IsData
    <2>2. ~Inside(Taken + 1) BY <1>2, <2>1, InsideNext
    <2> QED BY <1>1, <1>2, <2>1, <2>2, NowClosed
  <1> QED BY TakeLemma, <1>3, <1>4, <1>5, <1>6, <1>7

\* A step that takes no frame is a quiet one.
LEMMA QuietSteps ==
  ASSUME TypeOK, [Next]_vars
  PROVE  Quiet \/ TakeFrame
  BY StepKinds, SendLemma, ReadLemma, PausesLemma

\* The open message.
LEMMA OpenStep ==
  ASSUME TypeOK, OpenRight, ServerKept, WindowRight, [Next]_vars
  PROVE  OpenRight'
  BY QuietSteps, OpenQuiet, OpenTake

\* A message that was returned stays genuine.
LEMMA GenuineKept ==
  ASSUME TypeOK, Prefix(parsed), \A u \in 1 .. got : read_at'[u] = read_at[u],
         NEW m, m.from \in 1 .. parsed, m.to \in 1 .. parsed, Genuine(m)
  PROVE  Genuine(m)'
  <1>1. parsed \in Nat /\ got \in Nat /\ 2 * parsed <= got BY Numbers DEF TypeOK
  <1>2. IsMessage(m.from, m.to)' BY <1>1, PrefixLemma DEF Genuine
  <1>3. (\E n \in 0 .. MaxMessage : Total(m.from, m.to, n))'
    <2>1. PICK n \in 0 .. MaxMessage : Total(m.from, m.to, n) BY DEF Genuine
    <2>2. Total(m.from, m.to, n)' BY <1>1, <2>1, PrefixLemma
    <2> QED BY <2>2
  <1>4. ~(sent'[m.from].rsv1 /\ sent'[m.from].big)
    BY DEF Genuine, Prefix
  <1>5. m.arrival = read_at'[2 * m.to]
    <2>1. 2 * m.to \in 1 .. got BY <1>1
    <2> QED BY <2>1 DEF Genuine
  <1>6. m.from <= m.to BY DEF Genuine
  <1> QED BY <1>2, <1>3, <1>4, <1>5, <1>6 DEF Genuine

\* What returned messages are.
LEMMA DeliveredParts ==
  ASSUME TypeOK, NEW i \in DOMAIN delivered
  PROVE  /\ delivered[i].from \in 1 .. parsed /\ delivered[i].to \in 1 .. parsed
         /\ delivered[i] \in DeliveredType(parsed)
  <1>1. delivered \in Seq(DeliveredType(parsed)) BY DEF TypeOK, DeliveredType
  <1>2. delivered[i] \in DeliveredType(parsed)
    <2> HIDE DEF DeliveredType
    <2> QED BY <1>1
  <1> QED BY <1>2 DEF DeliveredType

\* A genuine message in primed form: the messages returned before, in the new state.
LEMMA OldGenuine ==
  ASSUME TypeOK, DeliveredRight, Prefix(parsed),
         \A u \in 1 .. got : read_at'[u] = read_at[u],
         NEW d, d = delivered, NEW i \in DOMAIN d
  PROVE  Genuine(d[i])'
  <1>1. Genuine(delivered[i]) BY DEF DeliveredRight
  <1>2. PICK m : m = delivered[i] OBVIOUS
  <1>3. m.from \in 1 .. parsed /\ m.to \in 1 .. parsed BY <1>2, DeliveredParts
  <1>4. Genuine(m) BY <1>1, <1>2
  <1>5. Genuine(m)' BY <1>3, <1>4, GenuineKept
  <1>6. d[i] = m BY <1>2
  <1> QED BY <1>5, <1>6

\* The messages returned, after a step that returns none.
LEMMA DeliveredSame ==
  ASSUME TypeOK, DeliveredRight, Prefix(parsed), delivered' = delivered,
         \A u \in 1 .. got : read_at'[u] = read_at[u],
         \A i \in DOMAIN delivered : open' # NoMessage => delivered[i].to < open'.from
  PROVE  DeliveredRight'
  <1>1. PICK d : d = delivered OBVIOUS
  <1>2. ASSUME NEW i \in DOMAIN d PROVE Genuine(d[i])' BY <1>1, <1>2, OldGenuine
  <1>3. d = delivered' BY <1>1
  <1>4. \A i \in DOMAIN d : open' # NoMessage' => d[i].to < open'.from
    BY <1>1 DEF NoMessage
  <1>5. \A i, j \in DOMAIN d : i < j => d[i].to < d[j].from BY <1>1 DEF DeliveredRight
  <1>6. \A i \in DOMAIN delivered' : Genuine(delivered[i])'
    BY <1>2, <1>3 DEF Genuine, IsMessage, Inside, IsData, Total
  <1> QED BY <1>3, <1>4, <1>5, <1>6 DEF DeliveredRight

\* A message that the frame taken completes is one that the server sent.
LEMMA CompletedIsMessage ==
  ASSUME TypeOK, OpenRight, ServerKept, WindowRight, TakeFrame,
         NEW from, Completes(from)
  PROVE  /\ from \in 1 .. Taken /\ IsMessage(from, Taken)
         /\ open # NoMessage => from = open.from /\ from \in 1 .. parsed
         /\ open = NoMessage => from = Taken
         /\ \E n \in 0 .. MaxMessage : Total(from, Taken, n)
  <1>1. /\ Alive /\ Taken \in DOMAIN sent /\ sent[Taken].size <= MaxMessage
    BY TakeLemma
  <1>2. /\ Taken \in Nat /\ Taken >= 1 /\ Taken = parsed + 1 /\ parsed \in Nat
        /\ MaxMessage \in Nat /\ sent[Taken].size \in Nat
    BY <1>1, Numbers, FrameParts DEF Taken
  <1>3. sent[Taken].fin /\ IsData(Taken) BY DEF Completes, Began, IsData
  <1>4. CASE open = NoMessage
    <2>1. from = Taken /\ sent[Taken].kind = "text" /\ ~Inside(Taken)
      BY <1>1, <1>4, OpenCases DEF Completes, Began
    <2>2. Taken .. Taken = {Taken} BY <1>2
    <2>3. IsMessage(from, Taken) BY <1>3, <2>1, <2>2 DEF IsMessage
    <2>4. Total(from, Taken, sent[Taken].size) BY <1>1, <1>2, <2>1, TotalOne
    <2>5. sent[Taken].size \in 0 .. MaxMessage BY <1>1, <1>2
    <2> QED BY <1>2, <1>4, <2>1, <2>3, <2>4, <2>5
  <1>5. CASE open # NoMessage
    <2>1. /\ from = open.from /\ sent[Taken].kind = "cont" /\ Unfinished(open, parsed)
          /\ open.size + sent[Taken].size <= MaxMessage
      BY <1>1, <1>5, OpenCases DEF Completes, Began
    <2>2. open \in [from : 1 .. parsed, compressed : BOOLEAN, size : 0 .. MaxMessage]
      BY <1>1, <1>5, OpenCases
    <2>3. from \in 1 .. parsed /\ from \in 1 .. Taken /\ open.size \in 0 .. MaxMessage
      BY <1>2, <2>1, <2>2
    <2>4. \A i \in from .. Taken : i = from \/ i = Taken \/ i \in from + 1 .. parsed
      BY <1>2, <2>3
    <2>5. IsMessage(from, Taken)
      BY <1>3, <2>1, <2>4 DEF IsMessage, Unfinished
    <2>6. \E n \in 0 .. MaxMessage : Total(from, Taken, n)
      <3>1. Total(from, parsed, open.size) BY <2>1 DEF Unfinished
      <3>2. sent[Taken].size = IF IsData(parsed + 1) THEN sent[parsed + 1].size ELSE 0
        BY <1>2, <1>3
      <3>3. Total(from, parsed + 1, open.size + sent[Taken].size)
        BY <1>2, <2>1, <2>3, <3>1, <3>2, TotalNext
      <3>4. open.size + sent[Taken].size \in 0 .. MaxMessage BY <1>2, <2>1, <2>3
      <3> QED BY <1>2, <3>3, <3>4
    <2> QED BY <1>5, <2>1, <2>3, <2>5, <2>6
  <1> QED BY <1>4, <1>5

\* What is returned when a frame is taken.
LEMMA DeliveredTake ==
  ASSUME TypeOK, OpenRight, ServerKept, WindowRight, BufferFresh, DeliveredRight, TakeFrame
  PROVE  DeliveredRight'
  <1>1. /\ Alive /\ Taken \in DOMAIN sent /\ sent' = sent /\ read_at' = read_at
        /\ parsed' = Taken /\ 2 * Taken <= got
    BY TakeLemma
  <1>2. Taken = parsed + 1 /\ parsed \in Nat /\ got \in Nat BY Numbers DEF Taken
  <1>3. /\ Prefix(parsed) /\ Prefix(Taken)
        /\ \A u \in 1 .. got : read_at'[u] = read_at[u]
    BY <1>1 DEF Prefix
  <1>4. ASSUME delivered' = delivered, open' \in {open, NoMessage} PROVE DeliveredRight'
    <2>1. \A i \in DOMAIN delivered : open' # NoMessage => delivered[i].to < open'.from
      BY <1>4 DEF DeliveredRight
    <2> QED BY <1>3, <1>4, <2>1, DeliveredSame
  <1>5. CASE Ends BY <1>4, <1>5 DEF Ends
  <1>6. CASE Controls BY <1>4, <1>6 DEF Controls
  <1>7. CASE Begins
    <2>1. delivered' = delivered /\ open'.from = Taken BY <1>7 DEF Begins
    <2>2. \A i \in DOMAIN delivered : delivered[i].to < Taken
      BY <1>2, DeliveredParts
    <2> QED BY <1>3, <2>1, <2>2, DeliveredSame
  <1>8. CASE Continues
    <2>1. /\ open # NoMessage /\ delivered' = delivered
          /\ open' = [open EXCEPT !.size = open.size + sent[Taken].size]
      BY <1>8 DEF Continues
    <2>2. open \in [from : 1 .. parsed, compressed : BOOLEAN, size : 0 .. MaxMessage]
      BY <2>1 DEF TypeOK
    <2>3. open'.from = open.from BY <2>1, <2>2
    <2>4. \A i \in DOMAIN delivered : open' # NoMessage => delivered[i].to < open'.from
      BY <2>1, <2>3 DEF DeliveredRight
    <2> QED BY <1>3, <2>1, <2>4, DeliveredSame
  <1>9. ASSUME NEW from, Completes(from) PROVE DeliveredRight'
    <2>1. PICK m : m = [from |-> from, to |-> Taken, arrival |-> last_read] OBVIOUS
    <2>2. /\ delivered' = Append(delivered, m) /\ open' = NoMessage
          /\ m.from = from /\ m.to = Taken /\ m.arrival = last_read
      BY <1>9, <2>1 DEF Completes
    <2>3. /\ from \in 1 .. Taken /\ IsMessage(from, Taken)
          /\ open # NoMessage => from = open.from
          /\ open = NoMessage => from = Taken
          /\ \E n \in 0 .. MaxMessage : Total(from, Taken, n)
      BY <1>9, CompletedIsMessage
    <2>4. Genuine(m)
      <3>1. ~(sent[from].rsv1 /\ sent[from].big) BY <1>9 DEF Completes
      <3>2. last_read = read_at[2 * Taken]
        <4>1. 2 * Taken \in 2 * (parsed + 1) .. got BY <1>1, <1>2
        <4> QED BY <4>1 DEF BufferFresh
      <3> QED BY <1>2, <2>2, <2>3, <3>1, <3>2 DEF Genuine
    <2>5. Genuine(m)'
      BY <1>1, <2>4 DEF Genuine, IsMessage, Inside, IsData, Total
    <2>6. PICK d : d = delivered OBVIOUS
    <2>7. ASSUME NEW i \in DOMAIN d PROVE Genuine(d[i])' BY <1>3, <2>6, <2>7, OldGenuine
    <2>8. /\ d \in Seq([from : 1 .. parsed, to : 1 .. parsed, arrival : Nat])
          /\ delivered' = Append(d, m)
      BY <2>2, <2>6 DEF TypeOK
    <2>9. \A i \in DOMAIN d : d[i].to < from
      <3>1. CASE open = NoMessage
        <4>1. from = Taken BY <2>3, <3>1
        <4>2. \A i \in DOMAIN delivered : delivered[i].to < Taken BY <1>2, DeliveredParts
        <4> QED BY <2>6, <4>1, <4>2
      <3>2. CASE open # NoMessage BY <2>3, <2>6, <3>2 DEF DeliveredRight
      <3> QED BY <3>1, <3>2
    <2>10. PICK e : e = Append(d, m) OBVIOUS
    <2>11. /\ DOMAIN e = 1 .. Len(d) + 1 /\ DOMAIN d = 1 .. Len(d) /\ Len(d) \in Nat
           /\ \A i \in 1 .. Len(d) : e[i] = d[i]
           /\ e[Len(d) + 1] = m
      BY <2>8, <2>10
    <2>12. \A i \in DOMAIN e : i \in DOMAIN d \/ e[i] = m BY <2>11
    <2>13. ASSUME NEW i \in DOMAIN e PROVE Genuine(e[i])'
      <3>1. CASE i \in DOMAIN d
        <4>1. e[i] = d[i] BY <2>11, <3>1
        <4>2. Genuine(d[i])' BY <2>7, <3>1
        <4> QED BY <4>1, <4>2
      <3>2. CASE e[i] = m BY <2>5, <3>2
      <3> QED BY <2>12, <3>1, <3>2
    <2>14. ASSUME NEW i \in DOMAIN e, NEW j \in DOMAIN e, i < j PROVE e[i].to < e[j].from
      <3>1. i \in DOMAIN d /\ e[i] = d[i] BY <2>11, <2>14
      <3>2. CASE j \in DOMAIN d
        <4>1. e[j] = d[j] BY <2>11, <3>2
        <4>2. \A x, y \in DOMAIN d : x < y => d[x].to < d[y].from
          BY <2>6 DEF DeliveredRight
        <4> QED BY <2>14, <3>1, <3>2, <4>1, <4>2
      <3>3. CASE e[j] = m BY <2>2, <2>9, <3>1, <3>3
      <3> QED BY <2>12, <3>2, <3>3
    <2>15. e = delivered' BY <2>8, <2>10
    <2>16. open' = NoMessage' BY <2>2 DEF NoMessage
    <2>17. \A i \in DOMAIN delivered' : Genuine(delivered[i])'
      BY <2>13, <2>15 DEF Genuine, IsMessage, Inside, IsData, Total
    <2> QED BY <2>14, <2>15, <2>16, <2>17 DEF DeliveredRight
  <1> QED BY TakeLemma, <1>5, <1>6, <1>7, <1>8, <1>9

\* What is returned.
LEMMA DeliveredStep ==
  ASSUME TypeOK, OpenRight, ServerKept, WindowRight, BufferFresh, DeliveredRight, [Next]_vars
  PROVE  DeliveredRight'
  <1>1. CASE Quiet
    <2>1. delivered' = delivered /\ open' = open /\ Prefix(Len(sent)) BY <1>1 DEF Quiet
    <2>2. Prefix(parsed) BY <2>1, Numbers DEF Prefix
    <2>3. \A u \in 1 .. got : read_at'[u] = read_at[u] BY <1>1 DEF Quiet
    <2>4. \A i \in DOMAIN delivered : open' # NoMessage => delivered[i].to < open'.from
      BY <2>1 DEF DeliveredRight
    <2> QED BY <2>1, <2>2, <2>3, <2>4, DeliveredSame
  <1> QED BY <1>1, QuietSteps, DeliveredTake

\* A message that ends with the frame taken is the one that the frame completes.
LEMMA OneMessage ==
  ASSUME TypeOK, OpenRight, ServerKept, WindowRight, TakeFrame,
         NEW a \in 1 .. Taken, IsMessage(a, Taken), Alive'
  PROVE  Completes(a)
  <1>1. /\ Alive /\ Taken \in DOMAIN sent /\ parsed \in Nat /\ Taken = parsed + 1
    BY TakeLemma, Numbers DEF Taken
  <1>2. IsData(Taken) /\ sent[Taken].fin /\ sent[a].kind = "text" BY DEF IsMessage
  <1>3. a # Taken => sent[Taken].kind = "cont" BY <1>1, <1>2 DEF IsMessage
  <1>4. ~Ends /\ ~Controls /\ ~Begins /\ ~Continues
    BY <1>2 DEF Ends, Controls, Begins, Continues, IsData
  <1>5. PICK from : Completes(from) BY <1>4, TakeLemma
  <1>6. CASE open = NoMessage
    BY <1>3, <1>5, <1>6 DEF Completes, Began
  <1>7. CASE open # NoMessage
    <2>1. /\ from = open.from /\ sent[Taken].kind = "cont" /\ Unfinished(open, parsed)
          /\ from \in 1 .. parsed
      BY <1>1, <1>5, <1>7, OpenCases DEF Completes, Began
    <2>2. a \in 1 .. parsed
      <3>1. a # Taken BY <1>2, <2>1
      <3> QED BY <1>1, <3>1
    <2>3. ~(a < from)
      <3>1. SUFFICES ASSUME a < from PROVE FALSE OBVIOUS
      <3>2. from \in a .. Taken /\ from # a BY <1>1, <2>1, <2>2, <3>1
      <3>3. IsData(from) /\ sent[from].kind = "text" BY <2>1 DEF IsData, Unfinished
      <3> QED BY <3>2, <3>3 DEF IsMessage
    <2>4. ~(a > from)
      <3>1. SUFFICES ASSUME a > from PROVE FALSE OBVIOUS
      <3>2. a \in from + 1 .. parsed BY <2>1, <2>2, <3>1
      <3> QED BY <1>2, <2>1, <3>2 DEF IsData, Unfinished
    <2>5. a = from BY <2>1, <2>2, <2>3, <2>4
    <2> QED BY <1>5, <2>5
  <1> QED BY <1>6, <1>7

\* All messages are returned.
LEMMA AllStep ==
  ASSUME TypeOK, OpenRight, ServerKept, WindowRight, DeliveredAll, [Next]_vars
  PROVE  DeliveredAll'
  <1>1. parsed \in Nat /\ Len(sent) \in Nat /\ parsed <= Len(sent) BY Numbers
  <1>2. CASE Quiet
    <2>1. delivered' = delivered /\ parsed' = parsed /\ (Alive' => Alive) /\ Prefix(Len(sent))
      BY <1>2 DEF Quiet
    <2>2. PICK n : n = parsed OBVIOUS
    <2>3. Messages(n)' = Messages(n)
      <3>1. n \in 0 .. Len(sent) BY <1>1, <2>2
      <3> QED BY <1>1, <2>1, <3>1, PrefixLemma
    <2>4. Messages(parsed)' = Messages(parsed)
      BY <2>1, <2>2, <2>3 DEF Messages, IsMessage, IsData, Inside
    <2> QED BY <2>1, <2>4 DEF DeliveredAll
  <1>3. CASE TakeFrame
    <2>1. /\ Alive /\ parsed' = Taken /\ sent' = sent /\ Taken = parsed + 1
      BY <1>3, TakeLemma DEF Taken
    <2>2. SUFFICES ASSUME Alive', NEW m \in Messages(Taken)
                   PROVE  \E i \in DOMAIN delivered' : m = <<delivered'[i].from, delivered'[i].to>>
      <3>1. Messages(parsed)' = Messages(Taken)
        BY <2>1 DEF Messages, IsMessage, IsData, Inside
      <3> QED BY <3>1 DEF DeliveredAll
    <2>3. m = <<m[1], m[2]>> /\ m[1] \in 1 .. Taken /\ m[2] \in 1 .. Taken /\ m[1] <= m[2]
      BY DEF Messages
    <2>4. IsMessage(m[1], m[2]) BY DEF Messages
    <2>5. CASE m[2] = Taken
      <3>1. Completes(m[1]) BY <1>3, <2>2, <2>3, <2>4, <2>5, OneMessage
      <3>2. delivered' = Append(delivered, [from |-> m[1], to |-> Taken, arrival |-> last_read])
        BY <3>1 DEF Completes
      <3>3. delivered \in Seq(DeliveredType(parsed)) BY DEF TypeOK, DeliveredType
      <3>4. /\ Len(delivered) + 1 \in DOMAIN delivered'
            /\ delivered'[Len(delivered) + 1] = [from |-> m[1], to |-> Taken, arrival |-> last_read]
        BY <3>2, <3>3
      <3> QED BY <2>3, <2>5, <3>4
    <2>6. CASE m[2] # Taken
      <3>1. m[1] \in 1 .. parsed /\ m[2] \in 1 .. parsed BY <1>1, <2>1, <2>3, <2>6
      <3>2. m \in Messages(parsed) BY <2>3, <2>4, <3>1 DEF Messages
      <3>3. PICK i \in DOMAIN delivered : m = <<delivered[i].from, delivered[i].to>>
        BY <2>1, <3>2 DEF DeliveredAll
      <3>4. delivered \in Seq(DeliveredType(parsed)) BY DEF TypeOK, DeliveredType
      <3>5. i \in DOMAIN delivered' /\ delivered'[i] = delivered[i]
        <4>1. CASE delivered' = delivered BY <4>1
        <4>2. CASE \E from : Completes(from)
          <5>1. PICK from : Completes(from) BY <4>2
          <5>2. PICK e : delivered' = Append(delivered, e) BY <5>1 DEF Completes
          <5> QED BY <3>4, <5>2
        <4> QED BY <1>3, <4>1, <4>2, TakeLemma DEF Ends, Controls, Begins, Continues
      <3> QED BY <3>3, <3>5
    <2> QED BY <2>5, <2>6
  <1> QED BY <1>2, <1>3, QuietSteps

\* The server keeps to its window.
LEMMA ServerStep ==
  ASSUME TypeOK, ServerKept, [Next]_vars, OpenRight, WindowRight
  PROVE  ServerKept'
  <1>1. Len(sent) \in Nat /\ DOMAIN sent = 1 .. Len(sent) BY Numbers
  <1>2. ASSUME NEW f \in Frame, Send(f) PROVE ServerKept'
    <2>1. /\ Prefix(Len(sent)) /\ mode' = mode /\ sent' \in Seq(Frame)
          /\ Len(sent') = Len(sent) + 1 /\ sent'[Len(sent) + 1] = f
      BY <1>2, SendLemma DEF Quiet
    <2>2. f.depth <= Reach BY <1>2 DEF Send
    <2>3. SUFFICES ASSUME NEW i \in DOMAIN sent'
                   PROVE  sent'[i].depth <= IF mode = "takeover" THEN Cardinality(Window(i - 1)') ELSE 0
      BY <2>1 DEF ServerKept
    <2>4. i \in 1 .. Len(sent) + 1 BY <2>1
    <2>5. Window(i - 1)' = Window(i - 1)
      <3>1. i - 1 \in 0 .. Len(sent) BY <1>1, <2>4
      <3> QED BY <1>1, <2>1, <3>1, PrefixLemma
    <2>6. CASE i = Len(sent) + 1
      <3>1. Reach = IF mode = "takeover" THEN Cardinality(Window(Len(sent))) ELSE 0
        BY ReachLemma
      <3>2. i - 1 = Len(sent) BY <1>1, <2>6
      <3> QED BY <2>1, <2>2, <2>5, <2>6, <3>1, <3>2
    <2>7. CASE i # Len(sent) + 1
      <3>1. i \in DOMAIN sent BY <1>1, <2>4, <2>7
      <3>2. sent'[i] = sent[i] BY <1>1, <2>1, <3>1 DEF Prefix
      <3> QED BY <2>5, <3>1, <3>2 DEF ServerKept
    <2> QED BY <2>6, <2>7
  <1>3. ASSUME sent' = sent, mode' = mode PROVE ServerKept'
    BY <1>3 DEF ServerKept, Window, Squeezed
  <1>4. ASSUME NEW n \in Nat, Leftover(n) \/ Read(n) PROVE ServerKept'
    BY <1>3, <1>4, ReadLemma DEF Quiet
  <1>5. CASE Pauses BY <1>3, <1>5, PausesLemma DEF Quiet
  <1>6. CASE TakeFrame BY <1>3, <1>6, TakeLemma
  <1> QED BY <1>2, <1>4, <1>5, <1>6, StepKinds

\* The frame up to which the inflater has followed the server.
Followed == IF open = NoMessage THEN parsed ELSE open.from - 1

\* The inflater, when a frame is taken.
LEMMA WindowTake ==
  ASSUME TypeOK, OpenRight, ServerKept, WindowRight, TakeFrame
  PROVE  WindowRight'
  <1>1. /\ Alive /\ parsed' = Taken /\ sent' = sent /\ mode' = mode
        /\ Taken = parsed + 1 /\ parsed \in Nat
    BY TakeLemma, Numbers DEF Taken
  <1>2. SUFFICES ASSUME Alive', mode = "takeover"
                 PROVE  Have' = Cardinality(Window(Followed'))
    <2>1. ASSUME NEW n PROVE Window(n)' = Window(n) BY <1>1 DEF Window, Squeezed
    <2>2. PICK n : n = Followed' OBVIOUS
    <2>3. Window(n)' = Window(n) BY <2>1
    <2>4. WindowRight' <=> (Alive' /\ mode' = "takeover" => Have' = Cardinality(Window(n)'))
      BY <2>2 DEF WindowRight, Followed, Window, Squeezed, NoMessage
    <2> QED BY <1>1, <2>2, <2>3, <2>4
  <1>3. Have = Cardinality(Window(Followed))
    BY <1>1, <1>2 DEF WindowRight, Followed
  <1>4. NoMessage' = NoMessage BY DEF NoMessage
  <1>5. ~Ends BY <1>2 DEF Ends
  <1>6. ASSUME UNCHANGED inflater PROVE Have' = Have
    BY <1>1, <1>6 DEF Have, inflater
  <1>7. CASE Controls
    <2>1. open' = open /\ UNCHANGED inflater /\ ~Squeezed(Taken)
      BY <1>7 DEF Controls, Squeezed
    <2>2. Window(Taken) = Window(parsed) BY <1>1, <2>1, WindowNext
    <2> QED BY <1>1, <1>3, <1>4, <1>6, <2>1, <2>2 DEF Followed
  <1>8. CASE Begins
    <2>1. open' # NoMessage
      <3>1. open'.from = Taken /\ Taken # 0 BY <1>1, <1>8 DEF Begins
      <3> QED BY <3>1 DEF NoMessage
    <2>2. Followed' = Taken - 1 BY <1>4, <1>8, <2>1 DEF Followed, Begins
    <2>3. Followed = parsed /\ Taken - 1 = parsed BY <1>1, <1>8 DEF Followed, Begins
    <2> QED BY <1>3, <1>6, <1>8, <2>2, <2>3 DEF Begins
  <1>9. CASE Continues
    <2>1. open \in [from : 1 .. parsed, compressed : BOOLEAN, size : 0 .. MaxMessage]
      BY <1>9 DEF Continues, TypeOK
    <2>2. open'.from = open.from /\ open' # NoMessage
      <3>1. open'.from = open.from BY <1>9, <2>1 DEF Continues
      <3>2. open'.from # 0 BY <2>1, <3>1
      <3> QED BY <3>1, <3>2 DEF NoMessage
    <2>3. Followed' = Followed BY <1>4, <1>9, <2>2 DEF Followed, Continues
    <2> QED BY <1>3, <1>6, <1>9, <2>3 DEF Continues
  <1>10. ASSUME NEW from, Completes(from) PROVE Have' = Cardinality(Window(Followed'))
    <2>1. /\ from \in 1 .. Taken /\ IsMessage(from, Taken)
          /\ open # NoMessage => from = open.from
          /\ open = NoMessage => from = Taken
      BY <1>10, CompletedIsMessage
    <2>2. Followed' = Taken BY <1>1, <1>4, <1>10 DEF Followed, Completes
    <2>3. Followed = from - 1 BY <1>1, <2>1 DEF Followed
    <2>4. Window(Taken) = Window(from)
      <3>1. \A i \in from + 1 .. Taken : i \in from .. Taken /\ i # from BY <1>1, <2>1
      <3>2. \A i \in from + 1 .. Taken : ~Squeezed(i)
        BY <2>1, <3>1 DEF IsMessage, IsData, Squeezed
      <3> QED BY <1>1, <2>1, <3>2, WindowFlat
    <2>5. from - 1 \in Nat /\ from - 1 + 1 = from /\ sent[from].kind = "text"
      BY <1>1, <2>1 DEF IsMessage
    <2>6. CASE ~sent[from].rsv1
      <3>1. ~Squeezed(from) /\ UNCHANGED inflater BY <1>10, <2>6 DEF Squeezed, Completes
      <3>2. Window(from) = Window(from - 1) BY <2>5, <3>1, WindowNext
      <3> QED BY <1>3, <1>6, <2>2, <2>3, <2>4, <3>1, <3>2
    <2>7. CASE sent[from].rsv1
      <3>1. Squeezed(from) /\ window' = Have + 1 /\ ended' = sent[from].final
        BY <1>10, <2>5, <2>7 DEF Squeezed, Completes
      <3>2. Have' = IF sent[from].final THEN 0 ELSE Have + 1
        BY <1>1, <1>2, <3>1 DEF Have
      <3>3. CASE sent[from].final
        <4>1. Cardinality(Window(from)) = 0 BY <2>5, <3>1, <3>3, WindowNext
        <4> QED BY <2>2, <2>4, <3>2, <3>3, <4>1
      <3>4. CASE ~sent[from].final
        <4>1. Cardinality(Window(from)) = Cardinality(Window(from - 1)) + 1
          BY <2>5, <3>1, <3>4, WindowNext
        <4> QED BY <1>3, <2>2, <2>3, <2>4, <3>2, <3>4, <4>1
      <3> QED BY <3>3, <3>4
    <2> QED BY <2>6, <2>7
  <1> QED BY TakeLemma, <1>5, <1>7, <1>8, <1>9, <1>10

\* The inflater has the server's window.
LEMMA WindowStep ==
  ASSUME TypeOK, OpenRight, ServerKept, WindowRight, [Next]_vars
  PROVE  WindowRight'
  <1>1. CASE Quiet
    <2>1. /\ open' = open /\ parsed' = parsed /\ mode' = mode /\ UNCHANGED inflater
          /\ (Alive' => Alive) /\ Prefix(Len(sent))
      BY <1>1 DEF Quiet
    <2>2. Followed \in 0 .. Len(sent) /\ Len(sent) \in Nat
      <3>1. parsed \in Nat /\ Len(sent) \in Nat /\ parsed <= Len(sent) BY Numbers
      <3>2. open # NoMessage => open.from \in 1 .. parsed BY DEF TypeOK
      <3> QED BY <3>1, <3>2 DEF Followed
    <2>3. PICK n : n = Followed OBVIOUS
    <2>4. Window(n)' = Window(n) BY <2>1, <2>2, <2>3, PrefixLemma
    <2>5. Have' = Have BY <2>1 DEF Have, inflater
    <2>6. n = Followed' BY <2>1, <2>3 DEF Followed, NoMessage
    <2>7. WindowRight' <=> (Alive' /\ mode' = "takeover" => Have' = Cardinality(Window(n)'))
      BY <2>6 DEF WindowRight, Followed, Window, Squeezed, NoMessage
    <2>8. WindowRight <=> (Alive /\ mode = "takeover" => Have = Cardinality(Window(n)))
      BY <2>3 DEF WindowRight, Followed
    <2> QED BY <2>1, <2>4, <2>5, <2>7, <2>8
  <1> QED BY <1>1, QuietSteps, WindowTake

\* The inflater never lacks what a message refers back to.
LEMMA InflateStep ==
  ASSUME TypeOK, OpenRight, ServerKept, WindowRight, InflaterInStep, [Next]_vars
  PROVE  InflaterInStep'
  <1>1. CASE Quiet BY <1>1 DEF Quiet, InflaterInStep
  <1>2. CASE TakeFrame BY <1>2, TakenTypes DEF InflaterInStep
  <1> QED BY <1>1, <1>2, QuietSteps

\* Every step keeps the invariant.
LEMMA StepLemma ==
  ASSUME IInv, [Next]_vars
  PROVE  IInv'
  <1>1. /\ TypeOK /\ BufferFresh /\ OpenRight /\ DeliveredRight /\ DeliveredAll
        /\ ServerKept /\ WindowRight /\ InflaterInStep
    BY DEF IInv
  <1> QED BY <1>1, TypeStep, FreshStep, OpenStep, DeliveredStep, AllStep, ServerStep,
             WindowStep, InflateStep DEF IInv

\* It holds at the start.
LEMMA InitLemma ==
  ASSUME Init
  PROVE  IInv
  <1>1. /\ mode \in Modes /\ sent = <<>> /\ got = 0 /\ last_read = 0 /\ parsed = 0
        /\ open = NoMessage /\ window = 0 /\ ended = FALSE /\ delivered = <<>>
        /\ pc = "caller" /\ read_at = <<>>
    BY DEF Init
  <1>2. Len(sent) = 0 /\ sent \in Seq(Frame) BY <1>1
  <1>3. TypeOK
    <2>1. delivered \in Seq([from : 1 .. parsed, to : 1 .. parsed, arrival : Nat])
      <3> DEFINE S == [from : 1 .. parsed, to : 1 .. parsed, arrival : Nat]
      <3> HIDE DEF S
      <3>1. delivered \in Seq(S) BY <1>1
      <3> QED BY <3>1 DEF S
    <2>2. read_at \in [1 .. got -> Nat] BY <1>1
    <2>3. got \in 0 .. 2 * Len(sent) BY <1>1, <1>2
    <2>4. 2 * parsed <= got BY <1>1
    <2> QED BY <1>1, <1>2, <2>1, <2>2, <2>3, <2>4 DEF TypeOK
  <1>4. BufferFresh BY <1>1 DEF BufferFresh
  <1>5. ~Inside(parsed + 1)
    <2>1. ASSUME Inside(parsed + 1) PROVE FALSE
      <3>1. PICK j \in 1 .. (parsed + 1) - 1 : TRUE BY <2>1 DEF Inside
      <3> QED BY <1>1, <3>1
    <2> QED BY <2>1
  <1>6. OpenRight BY <1>1, <1>5 DEF OpenRight
  <1>7. DOMAIN delivered = {} /\ DOMAIN sent = {} BY <1>1
  <1>8. DeliveredRight BY <1>7 DEF DeliveredRight
  <1>9. DeliveredAll
    <2>1. Messages(parsed) = {} BY <1>1 DEF Messages
    <2> QED BY <2>1 DEF DeliveredAll
  <1>10. ServerKept BY <1>7 DEF ServerKept
  <1>11. WindowRight
    <2>1. Window(parsed) = {} BY <1>1 DEF Window
    <2>2. Cardinality(Window(parsed)) = 0 BY <2>1, FS_EmptySet
    <2>3. Have = 0 BY <1>1 DEF Have
    <2> QED BY <1>1, <2>2, <2>3 DEF WindowRight
  <1>12. InflaterInStep BY <1>1 DEF InflaterInStep
  <1> QED BY <1>3, <1>4, <1>6, <1>8, <1>9, <1>10, <1>11, <1>12 DEF IInv

-----------------------------------------------------------------------------
(***************************************************************************)
(* The theorems.                                                           *)
(***************************************************************************)

\* The strengthened invariant holds of every session: any server that keeps to
\* the extension, any limit, any cut of the bytes into reads (ws.rs:330-470).
THEOREM Invariance == Spec => []IInv
  <1>1. Init => IInv BY InitLemma
  <1>2. IInv /\ [Next]_vars => IInv' BY StepLemma
  <1> QED BY <1>1, <1>2, PTL DEF Spec

\* The fields of the Client keep their types: the open message is made of frames
\* that were taken and holds at most max_message bytes.
THEOREM TypeCorrect == Spec => []TypeOK
  <1>1. IInv => TypeOK BY DEF IInv
  <1> QED BY <1>1, Invariance, PTL

\* There are as many messages as were returned.
LEMMA CountLemma ==
  ASSUME TypeOK, DeliveredRight, DeliveredAll, Alive
  PROVE  Cardinality(Messages(parsed)) = Len(delivered)
  <1> DEFINE pair == [i \in 1 .. Len(delivered) |-> <<delivered[i].from, delivered[i].to>>]
  <1>1. /\ Len(delivered) \in Nat /\ DOMAIN delivered = 1 .. Len(delivered)
    <2>1. delivered \in Seq(DeliveredType(parsed)) BY DEF TypeOK, DeliveredType
    <2> QED BY <2>1
  <1>2. ASSUME NEW i \in 1 .. Len(delivered)
        PROVE  /\ pair[i] = <<delivered[i].from, delivered[i].to>> /\ pair[i] \in Messages(parsed)
               /\ delivered[i].from \in Nat /\ delivered[i].to \in Nat
               /\ delivered[i].from <= delivered[i].to
    <2>1. delivered[i].from \in 1 .. parsed /\ delivered[i].to \in 1 .. parsed
      BY <1>1, <1>2, DeliveredParts
    <2>2. /\ delivered[i].from <= delivered[i].to
          /\ IsMessage(delivered[i].from, delivered[i].to)
      BY <1>1, <1>2 DEF DeliveredRight, Genuine
    <2> QED BY <1>2, <2>1, <2>2 DEF Messages
  <1>3. pair \in [1 .. Len(delivered) -> Messages(parsed)] BY <1>2
  <1>4. ASSUME NEW i \in 1 .. Len(delivered), NEW j \in 1 .. Len(delivered), pair[i] = pair[j]
        PROVE  i = j
    <2>1. delivered[i].from = delivered[j].from /\ delivered[i].to = delivered[j].to
      BY <1>2, <1>4
    <2>2. i < j => delivered[i].to < delivered[j].from BY <1>1 DEF DeliveredRight
    <2>3. j < i => delivered[j].to < delivered[i].from BY <1>1 DEF DeliveredRight
    <2>4. /\ delivered[i].from \in Nat /\ delivered[i].to \in Nat
          /\ delivered[i].from <= delivered[i].to
      BY <1>2
    <2> HIDE DEF pair
    <2>5. ~(i < j) /\ ~(j < i) BY <2>1, <2>2, <2>3, <2>4
    <2> QED BY <2>5
  <1>5. ASSUME NEW m \in Messages(parsed) PROVE \E i \in 1 .. Len(delivered) : pair[i] = m
    <2>1. PICK i \in DOMAIN delivered : m = <<delivered[i].from, delivered[i].to>>
      BY <1>5 DEF DeliveredAll
    <2> QED BY <1>1, <1>2, <2>1
  <1> HIDE DEF pair
  <1>6. pair \in Bijection(1 .. Len(delivered), Messages(parsed))
    BY <1>3, <1>4, <1>5, Fun_IsBij
  <1>7. ExistsBijection(1 .. Len(delivered), Messages(parsed)) BY <1>6 DEF ExistsBijection
  <1> QED BY <1>1, <1>7, FS_CountingElements

\* Messages are returned whole, once and in order, and while the session lasts
\* all of them are, however the reads cut the frames and pings interrupt them
\* (data_frame and next_message, ws.rs:370-470).
THEOREM WholeMessages == Spec => []MessagesWhole
  <1>1. IInv => MessagesWhole
    <2> SUFFICES ASSUME IInv PROVE MessagesWhole OBVIOUS
    <2>1. TypeOK /\ DeliveredRight /\ DeliveredAll BY DEF IInv
    <2>2. \A i, j \in DOMAIN delivered : i < j => delivered[i].to < delivered[j].from
      BY <2>1 DEF DeliveredRight
    <2>3. ASSUME NEW i \in DOMAIN delivered
          PROVE  <<delivered[i].from, delivered[i].to>> \in Messages(parsed)
      <3>1. delivered[i].from \in 1 .. parsed /\ delivered[i].to \in 1 .. parsed
        BY <2>1, DeliveredParts
      <3>2. /\ delivered[i].from <= delivered[i].to
            /\ IsMessage(delivered[i].from, delivered[i].to)
        BY <2>1 DEF DeliveredRight, Genuine
      <3> QED BY <3>1, <3>2 DEF Messages
    <2>4. pc \in {"caller", "loop", "pong"} => Cardinality(Messages(parsed)) = Len(delivered)
      BY <2>1, CountLemma DEF Alive
    <2> QED BY <2>2, <2>3, <2>4 DEF MessagesWhole
  <1> QED BY <1>1, Invariance, PTL

\* A message carries the instant of the read that brought its last byte, the
\* arrival the collector compares sources by (ws.rs:71).
THEOREM Stamped == Spec => []StampedByLastByte
  <1>1. IInv => StampedByLastByte
    BY DEF IInv, DeliveredRight, Genuine, StampedByLastByte
  <1> QED BY <1>1, Invariance, PTL

\* Neither a returned message nor the open one is above max_message (ws.rs:63).
THEOREM WithinLimit == Spec => []LimitKept
  <1>1. IInv => LimitKept
    <2> SUFFICES ASSUME IInv PROVE LimitKept OBVIOUS
    <2>1. TypeOK /\ DeliveredRight BY DEF IInv
    <2>2. open.size <= MaxMessage
      <3>1. MaxMessage \in Nat BY FrameAssumption
      <3>2. CASE open = NoMessage BY <3>1, <3>2 DEF NoMessage
      <3>3. CASE open # NoMessage
        <4>1. open.size \in 0 .. MaxMessage BY <2>1, <3>3 DEF TypeOK
        <4> QED BY <3>1, <4>1
      <3> QED BY <3>2, <3>3
    <2> QED BY <2>1, <2>2 DEF DeliveredRight, Genuine, LimitKept
  <1> QED BY <1>1, Invariance, PTL

\* No message fails to inflate for want of what it refers back to, whatever was
\* negotiated, fragmented or sent uncompressed in between (inflate.rs:57-69).
THEOREM InStep == Spec => []InflaterInStep
  <1>1. IInv => InflaterInStep BY DEF IInv
  <1> QED BY <1>1, Invariance, PTL
=============================================================================
