----------------------------- MODULE FeedProofs -----------------------------
(***************************************************************************)
(* The pipeline for every set of sources, blocks and messages, every lag   *)
(* and every bound: the Collector inside it meets only the orders of       *)
(* events that WindowsRun and BlocksRun assume, and what the rolling       *)
(* summaries and the final report may miss.                                *)
(***************************************************************************)
EXTENDS FeedRun, SequenceTheorems, FiniteSetTheorems, TLAPS

-----------------------------------------------------------------------------
(***************************************************************************)
(* The strengthening that makes the properties inductive.                  *)
(***************************************************************************)

\* A batch is its task's own and carries one stamp.
BatchesUniform ==
    \A s \in Source : \A i, j \in DOMAIN outbox[s] :
        outbox[s][i].source = s /\ outbox[s][i].t = outbox[s][j].t

\* No event is processed later than MaxLag after its stamp, or before it.
WaitingRecent ==
    /\ \A e \in Waiting : e.t <= now /\ now <= e.t + MaxLag
    /\ newest_conn <= now /\ newest_block <= now

Conn(e) == e.kind # "block"

\* The connection events of a source are processed in the order of their stamps.
ConnInOrder ==
    /\ \A e \in Waiting : Conn(e) => stamp[e.source] <= e.t
    /\ \A i, j \in DOMAIN channel :
          i < j /\ Conn(channel[i]) /\ Conn(channel[j]) /\ channel[i].source = channel[j].source
              => channel[i].t <= channel[j].t
    /\ \A s \in Source : \A i \in DOMAIN channel, j \in DOMAIN outbox[s] :
          Conn(channel[i]) /\ Conn(outbox[s][j]) /\ channel[i].source = s
              => channel[i].t <= outbox[s][j].t

\* The events of a source and a kind in a queue.
Count(q, s, kind) == Cardinality({i \in DOMAIN q : q[i].source = s /\ q[i].kind = kind})

\* What the Collector has counted and what still waits comes from the steps of
\* the adapter.
NoneInvented ==
    \A s \in Source :
        /\ reconnects[s] + Count(channel, s, "connected") + Count(outbox[s], s, "connected")
               <= steps[s]
        /\ block_events[s] + Count(channel, s, "block") + Count(outbox[s], s, "block")
               <= steps[s] * MaxBatch

\* The rolling intervals follow each other and leave no instant out.
SummariesChain ==
    /\ last_summary <= now
    /\ \A i \in DOMAIN block_intervals : block_intervals[i].until <= last_summary
    /\ \A i, j \in DOMAIN block_intervals :
          i < j => block_intervals[i].until <= block_intervals[j].since
    /\ \A x \in 1 .. last_summary : \E i \in DOMAIN block_intervals :
          block_intervals[i].since < x /\ x <= block_intervals[i].until

CompletedIn(k, iv) ==
    /\ k \in DOMAIN blocks
    /\ blocks[k].completed_at # NoInstant
    /\ iv.since < blocks[k].completed_at
    /\ blocks[k].completed_at <= iv.until

\* A summary counts only what completed in its interval.
CountedInInterval ==
    \A i \in DOMAIN block_intervals : \A k \in block_intervals[i].counted :
        CompletedIn(k, block_intervals[i])

\* What a summary misses of its interval completed shortly before its end.
MissedIsLate ==
    \A i \in DOMAIN block_intervals, k \in DOMAIN blocks :
        /\ CompletedIn(k, block_intervals[i])
        /\ k \notin block_intervals[i].counted
        /\ Win!in_window(blocks[k].first)
        => block_intervals[i].until <= blocks[k].completed_at + MaxLag

\* A block that was sent has arrived or waits, with the stamp it was sent with.
SentArrives ==
    \A s \in Source, k \in Key : sent[s][k] # NoInstant =>
        \/ k \in DOMAIN blocks /\ blocks[k].arrivals[s] # NoInstant
        \/ \E e \in Waiting : e.kind = "block" /\ e.source = s /\ e.key = k /\ e.t = sent[s][k]

\* The report has every completed block of the window.
MatchedExact ==
    pc = "done" =>
        matched = {k \in DOMAIN blocks : /\ blocks[k].completed_at # NoInstant
                                         /\ Win!in_window(blocks[k].first)}

\* What the pipeline itself guarantees, ...
PipelineInv ==
    /\ TypeOK
    /\ BatchesUniform
    /\ WaitingRecent
    /\ ConnInOrder
    /\ NoneInvented
    /\ WRun!IInv
    /\ BRun!IInv

\* ... and what follows for the summaries.
SummaryInv ==
    /\ SummariesChain
    /\ CountedInInterval
    /\ MissedIsLate
    /\ RollingStaysCounted
    /\ SentArrives
    /\ MatchedExact

IInv == PipelineInv /\ SummaryInv

-----------------------------------------------------------------------------
\* What is proved of the Collector by itself.
WP == INSTANCE WindowsProofs WITH MaxSkew <- MaxLag, MaxReconnects <- MaxEvents,
                                  newest <- newest_conn
BP == INSTANCE BlocksProofs WITH MaxSkew <- MaxLag, newest <- newest_block,
                                 NoSource <- NoKey, MaxEvents <- MaxEvents * MaxBatch

-----------------------------------------------------------------------------
(***************************************************************************)
(* The constants meet the assumptions of the proofs about the Collector,   *)
(* and the instances of FeedRun speak of the same invariants and steps.    *)
(***************************************************************************)

\* Each instance has its own copy of the operators of FiniteSets.
LEMMA Sizes ==
  \A S : /\ BP!IsFiniteSet(S) <=> IsFiniteSet(S)
         /\ BP!Cardinality(S) = Cardinality(S)
         /\ BRun!Cardinality(S) = Cardinality(S)
  <1>1. \A S : BP!IsFiniteSet(S) <=> IsFiniteSet(S) BY DEF BP!IsFiniteSet, IsFiniteSet
  <1>2. \A S : BP!Cardinality(S) = Cardinality(S) BY DEF BP!Cardinality, Cardinality
  <1>3. \A S : BRun!Cardinality(S) = Cardinality(S) BY DEF BRun!Cardinality, Cardinality
  <1> QED BY <1>1, <1>2, <1>3

\* The assumptions of WindowsProofs.
LEMMA WindowsConstants ==
  /\ WP!SourceAssumption /\ WP!InstantAssumption /\ WP!WarmupAssumption
  /\ WP!SkewAssumption /\ WP!BoundAssumption
  BY SourceAssumption, InstantAssumption, WarmupAssumption, LagAssumption, BoundAssumption
  DEF WP!SourceAssumption, WP!InstantAssumption, WP!WarmupAssumption, WP!SkewAssumption,
      WP!BoundAssumption

\* The assumptions of BlocksProofs.
LEMMA BlocksConstants ==
  /\ BP!SourceAssumption /\ BP!InstantAssumption /\ BP!MinAssumption
  /\ BP!SkewAssumption /\ BP!BoundAssumption
  <1>1. MaxEvents * MaxBatch \in Nat BY BoundAssumption
  <1>2. BP!SourceAssumption BY SourceAssumption, Sizes DEF BP!SourceAssumption
  <1>3. BP!InstantAssumption BY InstantAssumption DEF BP!InstantAssumption
  <1>4. BP!MinAssumption BY MinAssumption, Sizes DEF BP!MinAssumption
  <1>5. BP!SkewAssumption BY LagAssumption DEF BP!SkewAssumption
  <1>6. BP!BoundAssumption BY <1>1 DEF BP!BoundAssumption
  <1> QED BY <1>2, <1>3, <1>4, <1>5, <1>6

\* The invariants of the windows.
LEMMA SameWindowsInv == WRun!IInv <=> WP!IInv
  BY DEF WRun!IInv, WRun!TypeOK, WRun!OpenIffAllConnected, WRun!StampsOrdered,
         WRun!IntervalsEnded, WRun!IntervalsOrdered, WRun!OpenSound, WRun!ClosedSound,
         WRun!InWindowComplete, WRun!IntervalOpen, WRun!Last, WRun!Session,
         WRun!WarmAround, WRun!in_window,
         WP!IInv, WP!TypeOK, WP!OpenIffAllConnected, WP!StampsOrdered,
         WP!IntervalsEnded, WP!IntervalsOrdered, WP!OpenSound, WP!ClosedSound,
         WP!InWindowComplete, WP!IntervalOpen, WP!Last, WP!Session,
         WP!WarmAround, WP!in_window

\* The behaviours of the windows.
LEMMA SameWindowsSpec ==
  /\ WRun!Init <=> WP!Init
  /\ [WRun!Next]_WRun!vars <=> [WP!Next]_WP!vars
  BY DEF WRun!Init, WRun!WindowsInit, WRun!Next, WRun!vars, WRun!windowVars, WRun!history,
         WRun!Connect, WRun!Disconnect, WRun!Processed, WRun!Later, WRun!OnConnected,
         WRun!OnDisconnected, WRun!IntervalOpen, WRun!Last,
         WP!Init, WP!WindowsInit, WP!Next, WP!vars, WP!windowVars, WP!history,
         WP!Connect, WP!Disconnect, WP!Processed, WP!Later, WP!OnConnected,
         WP!OnDisconnected, WP!IntervalOpen, WP!Last

\* The invariants of the block table.
LEMMA SameBlocksInv == BRun!IInv <=> BP!IInv
  BY Sizes
  DEF BRun!IInv, BRun!TypeOK, BRun!SeenCounts, BRun!FirstIsEarliest, BRun!CompleteByCount,
      BRun!NothingFromLater, BRun!CompletionTimely, BRun!OneLinePerBlock,
      BRun!LineNearlyRight, BRun!BlockRec, BRun!Line, BRun!Arrived,
      BP!IInv, BP!TypeOK, BP!SeenCounts, BP!FirstIsEarliest, BP!CompleteByCount,
      BP!NothingFromLater, BP!CompletionTimely, BP!OneLinePerBlock,
      BP!LineNearlyRight, BP!BlockRec, BP!Line, BP!Arrived

\* The behaviours of the block table.
LEMMA SameBlocksSpec ==
  /\ BRun!Init <=> BP!Init
  /\ [BRun!Next]_BRun!vars <=> [BP!Next]_BP!vars
  BY DEF BRun!Init, BRun!BlocksInit, BRun!Next, BRun!vars, BRun!blockVars, BRun!Deliver,
         BRun!OnBlock, BRun!Entry, BRun!Record, BRun!LastArrival, BRun!Arrived,
         BRun!BlockLine, BRun!Put,
         BP!Init, BP!BlocksInit, BP!Next, BP!vars, BP!blockVars, BP!Deliver,
         BP!OnBlock, BP!Entry, BP!Record, BP!LastArrival, BP!Arrived,
         BP!BlockLine, BP!Put

-----------------------------------------------------------------------------
(***************************************************************************)
(* Queues of events.                                                       *)
(***************************************************************************)
Is(e, s, kind) == e.source = s /\ e.kind = kind

Places(q, s, kind) == {i \in DOMAIN q : q[i].source = s /\ q[i].kind = kind}

\* The places of a queue are finitely many.
LEMMA PlacesFinite ==
  ASSUME NEW q \in Seq(AnyEvent), NEW s, NEW kind
  PROVE  /\ Count(q, s, kind) = Cardinality(Places(q, s, kind))
         /\ IsFiniteSet(Places(q, s, kind))
         /\ Count(q, s, kind) \in Nat
         /\ Count(q, s, kind) <= Len(q)
  <1>1. DOMAIN q = 1 .. Len(q) /\ Len(q) \in Nat OBVIOUS
  <1>2. IsFiniteSet(1 .. Len(q)) /\ Cardinality(1 .. Len(q)) = Len(q)
    BY <1>1, FS_Interval
  <1>3. Places(q, s, kind) \in SUBSET (1 .. Len(q)) BY <1>1 DEF Places
  <1>4. /\ IsFiniteSet(Places(q, s, kind))
        /\ Cardinality(Places(q, s, kind)) <= Len(q)
    BY <1>2, <1>3, FS_Subset
  <1>5. Cardinality(Places(q, s, kind)) \in Nat BY <1>4, FS_CardinalityType
  <1> QED BY <1>4, <1>5 DEF Count, Places

\* An empty queue has no events.
LEMMA CountEmpty ==
  ASSUME NEW s, NEW kind
  PROVE  Count(<<>>, s, kind) = 0
  <1>1. {i \in DOMAIN <<>> : <<>>[i].source = s /\ <<>>[i].kind = kind} = {} OBVIOUS
  <1> QED BY <1>1, FS_EmptySet DEF Count

\* An event that is appended counts once.
LEMMA CountAppend ==
  ASSUME NEW q \in Seq(AnyEvent), NEW e \in AnyEvent, NEW s, NEW kind
  PROVE  /\ Is(e, s, kind) => Count(Append(q, e), s, kind) = Count(q, s, kind) + 1
         /\ ~Is(e, s, kind) => Count(Append(q, e), s, kind) = Count(q, s, kind)
  <1> DEFINE p == Append(q, e)
             n == Len(q) + 1
  <1>1. /\ p \in Seq(AnyEvent) /\ Len(p) = n /\ p[n] = e
        /\ \A i \in 1 .. Len(q) : p[i] = q[i]
    BY AppendProperties
  <1>2. DOMAIN q = 1 .. Len(q) /\ Len(q) \in Nat OBVIOUS
  <1> HIDE DEF p
  <1>3. DOMAIN p = 1 .. n BY <1>1
  <1>4. n \notin Places(q, s, kind) BY <1>2 DEF Places
  <1>5. CASE Is(e, s, kind)
    <2>1. Places(p, s, kind) = Places(q, s, kind) \cup {n}
      BY <1>1, <1>2, <1>3, <1>5 DEF Places, Is
    <2>2. Cardinality(Places(p, s, kind)) = Cardinality(Places(q, s, kind)) + 1
      BY <1>4, <2>1, PlacesFinite, FS_AddElement
    <2> QED BY <1>1, <1>5, <2>2, PlacesFinite DEF p
  <1>6. CASE ~Is(e, s, kind)
    <2>1. Places(p, s, kind) = Places(q, s, kind)
      BY <1>1, <1>2, <1>3, <1>6 DEF Places, Is
    <2> QED BY <1>1, <1>6, <2>1, PlacesFinite DEF p
  <1> QED BY <1>5, <1>6

\* An event that is taken out counts no more.
LEMMA CountTail ==
  ASSUME NEW q \in Seq(AnyEvent), q # <<>>, NEW s, NEW kind
  PROVE  /\ Is(q[1], s, kind) => Count(q, s, kind) = Count(Tail(q), s, kind) + 1
         /\ ~Is(q[1], s, kind) => Count(q, s, kind) = Count(Tail(q), s, kind)
  <1> DEFINE p == Tail(q)
             P == Places(p, s, kind)
             Q == Places(q, s, kind) \ {1}
             f == [i \in P |-> i + 1]
  <1>1. /\ p \in Seq(AnyEvent) /\ Len(p) = Len(q) - 1
        /\ \A i \in 1 .. Len(p) : p[i] = q[i + 1]
    BY HeadTailProperties
  <1>2. Len(q) \in Nat /\ Len(q) # 0 /\ DOMAIN q = 1 .. Len(q) OBVIOUS
  <1> HIDE DEF p
  <1>3. DOMAIN p = 1 .. Len(q) - 1 BY <1>1
  <1>4. f \in Bijection(P, Q)
    <2>1. \A i \in P : i \in Nat /\ f[i] = i + 1 /\ f[i] \in Q
      BY <1>1, <1>2, <1>3 DEF Places
    <2>2. f \in [P -> Q] BY <2>1
    <2>3. \A a, b \in P : f[a] = f[b] => a = b BY <2>1
    <2>4. ASSUME NEW j \in Q PROVE \E i \in P : f[i] = j
      <3>1. j \in Nat /\ j - 1 \in P BY <1>1, <1>2, <1>3 DEF Places
      <3>2. f[j - 1] = j BY <3>1
      <3> QED BY <3>1, <3>2
    <2> HIDE DEF f, P, Q
    <2> QED BY <2>2, <2>3, <2>4 DEF Bijection, Injection, Surjection, IsInjective
  <1>5. /\ IsFiniteSet(P) /\ Count(p, s, kind) = Cardinality(P)
        /\ IsFiniteSet(Places(q, s, kind)) /\ Count(q, s, kind) = Cardinality(Places(q, s, kind))
        /\ Count(p, s, kind) \in Nat /\ Count(q, s, kind) \in Nat
    BY <1>1, PlacesFinite
  <1>6. Cardinality(Q) = Cardinality(P)
    <2> HIDE DEF f, P, Q
    <2> QED BY <1>4, <1>5, FS_Bijection DEF ExistsBijection
  <1>7. 1 \in Places(q, s, kind) <=> Is(q[1], s, kind)
    BY <1>2 DEF Places, Is
  <1>8. Cardinality(Q) = IF 1 \in Places(q, s, kind) THEN Count(q, s, kind) - 1
                         ELSE Count(q, s, kind)
    BY <1>5, FS_RemoveElement
  <1> HIDE DEF P, Q
  <1> QED BY <1>5, <1>6, <1>7, <1>8 DEF p

-----------------------------------------------------------------------------
(***************************************************************************)
(* What a step does to the queues.                                         *)
(***************************************************************************)

\* A batch of s stamped t, sent while the clock shows n.
GoodBatch(s, b, t, n) ==
    /\ b \in Seq(AnyEvent)
    /\ \A i \in DOMAIN b : b[i].source = s /\ b[i].t = t
    /\ \A i \in DOMAIN b : Conn(b[i]) => t = n
    /\ Count(b, s, "connected") <= 1
    /\ Count(b, s, "block") <= MaxBatch

\* A step that sends nothing ...
LEMMA NoBatch ==
  ASSUME NEW s, NEW n
  PROVE  GoodBatch(s, <<>>, n, n)
  <1>1. <<>> \in Seq(AnyEvent) /\ DOMAIN <<>> = {} OBVIOUS
  <1>2. Count(<<>>, s, "connected") = 0 /\ Count(<<>>, s, "block") = 0 BY CountEmpty
  <1> QED BY <1>1, <1>2, BoundAssumption DEF GoodBatch

\* ... one that sends an event of this moment ...
LEMMA OneEvent ==
  ASSUME NEW s, NEW n, NEW e \in AnyEvent, e.source = s, e.t = n
  PROVE  GoodBatch(s, <<e>>, n, n)
  <1> DEFINE b == <<e>>
  <1>1. b \in Seq(AnyEvent) /\ Len(b) = 1 /\ DOMAIN b = {1} /\ b[1] = e OBVIOUS
  <1> HIDE DEF b
  <1>2. ASSUME NEW kind PROVE Count(b, s, kind) \in Nat /\ Count(b, s, kind) <= 1
    BY <1>1, PlacesFinite
  <1>3. MaxBatch \in Nat /\ MaxBatch >= 1 BY BoundAssumption
  <1>4. Count(b, s, "connected") <= 1 /\ Count(b, s, "block") <= MaxBatch
    BY <1>2, <1>3
  <1>5. GoodBatch(s, b, n, n) BY <1>1, <1>4 DEF GoodBatch
  <1> QED BY <1>5 DEF b

\* ... and one that sends the blocks of a message.
LEMMA BlockBatch ==
  ASSUME NEW s \in Source, NEW m \in Message, NEW t \in Instant, NEW n
  PROVE  GoodBatch(s, [i \in DOMAIN m |-> Event(s, "block", m[i], t)], t, n)
  <1> DEFINE b == [i \in DOMAIN m |-> Event(s, "block", m[i], t)]
  <1>1. m \in Seq(Key) BY KeyAssumption
  <1>2. /\ Len(m) \in Nat /\ DOMAIN m = 1 .. Len(m)
        /\ \A i \in DOMAIN m : m[i] \in Key
    BY <1>1
  <1>3. \A i \in DOMAIN m : Event(s, "block", m[i], t) \in AnyEvent
    BY <1>2 DEF Event, AnyEvent, BlockEvent
  <1>4. b \in Seq(AnyEvent) /\ Len(b) = Len(m) /\ DOMAIN b = DOMAIN m
    BY <1>2, <1>3
  <1>5. \A i \in DOMAIN b : b[i].source = s /\ b[i].t = t /\ b[i].kind = "block"
    BY DEF Event
  <1> HIDE DEF b
  <1>6. Count(b, s, "connected") = 0
    <2>1. Places(b, s, "connected") = {} BY <1>5 DEF Places
    <2> QED BY <1>4, <2>1, PlacesFinite, FS_EmptySet
  <1>7. Count(b, s, "block") <= MaxBatch
    <2>1. Count(b, s, "block") <= Len(m) /\ Count(b, s, "block") \in Nat
      BY <1>4, PlacesFinite
    <2>2. Len(m) <= MaxBatch /\ MaxBatch \in Nat BY BoundAssumption
    <2> QED BY <1>2, <2>1, <2>2
  <1>8. GoodBatch(s, b, t, n) BY <1>4, <1>5, <1>6, <1>7 DEF GoodBatch, Conn
  <1> QED BY <1>8 DEF b

Emits(s, b, t) ==
    /\ t <= now /\ now <= t + MaxLag
    /\ GoodBatch(s, b, t, now)
    /\ outbox[s] = <<>>
    /\ outbox' = [outbox EXCEPT ![s] = b]

\* A step of an adapter sends a batch whose stamp is at most MaxLag old.
LEMMA AdapterLemma ==
  ASSUME TypeOK, NEW s \in Source, Adapter(s)
  PROVE  \E b : \E t \in Instant : Emits(s, b, t)
  <1>1. now \in Nat /\ now \in Instant /\ now <= now + MaxLag
    BY BoundAssumption, LagAssumption DEF TypeOK
  <1>2. outbox[s] = <<>>
    BY DEF Adapter, Handshake, Announce, Frame, Hangup, Subscribe, Ack, SourceStatus,
           Transaction, Fail, Idle
  <1>3. CASE outbox' = outbox
    <2>1. outbox' = [outbox EXCEPT ![s] = <<>>] BY <1>2, <1>3 DEF TypeOK
    <2>2. Emits(s, <<>>, now) BY <1>1, <1>2, <2>1, NoBatch DEF Emits
    <2> QED BY <1>1, <2>2
  <1>4. ASSUME NEW e \in AnyEvent, e.source = s, e.t = now, Emit(s, <<e>>)
        PROVE  \E b : \E t \in Instant : Emits(s, b, t)
    <2>1. GoodBatch(s, <<e>>, now, now) BY <1>4, OneEvent
    <2>2. Emits(s, <<e>>, now) BY <1>1, <1>2, <1>4, <2>1 DEF Emits, Emit
    <2> QED BY <1>1, <2>2
  <1>5. ASSUME NEW kind \in {"connected", "disconnected"}, Emit(s, <<Event(s, kind, NoKey, now)>>)
        PROVE  \E b : \E t \in Instant : Emits(s, b, t)
    <2> DEFINE e == Event(s, kind, NoKey, now)
    <2>1. e \in AnyEvent /\ e.source = s /\ e.t = now
      BY <1>1 DEF Event, AnyEvent, ConnEvent
    <2>2. Emit(s, <<e>>) BY <1>5
    <2> HIDE DEF e
    <2> QED BY <1>4, <2>1, <2>2
  <1>6. CASE \E m \in Message, read \in Instant : now <= read + MaxLag /\ Frame(s, m, read)
    <2>1. PICK m \in Message, read \in Instant : now <= read + MaxLag /\ Frame(s, m, read)
      BY <1>6
    <2>2. read <= now
      <3>1. s \in Nitro /\ read \in {now, last_read[s]} BY <2>1 DEF Frame
      <3>2. last_read[s] \in 0 .. now BY <3>1 DEF TypeOK
      <3> QED BY <1>1, <3>1, <3>2
    <2> DEFINE t == IF StampMode = "arrival" THEN read ELSE now
               b == [i \in DOMAIN m |-> Event(s, "block", m[i], t)]
    <2>3. t \in Instant /\ t <= now /\ now <= t + MaxLag BY <1>1, <2>1, <2>2
    <2>4. Emit(s, b) BY <2>1 DEF Frame
    <2> HIDE DEF t
    <2>5. GoodBatch(s, b, t, now) BY <2>3, BlockBatch
    <2> HIDE DEF b
    <2>6. Emits(s, b, t) BY <1>2, <2>3, <2>4, <2>5 DEF Emits, Emit
    <2> QED BY <2>3, <2>6
  <1>7. CASE \E k \in Key : Transaction(s, k)
    <2>1. PICK k \in Key : Transaction(s, k) BY <1>7
    <2> DEFINE e == Event(s, "block", k, now)
    <2>2. e \in AnyEvent /\ e.source = s /\ e.t = now
      BY <1>1 DEF Event, AnyEvent, BlockEvent
    <2>3. Emit(s, <<>>) \/ Emit(s, <<e>>) BY <2>1 DEF Transaction
    <2> HIDE DEF e
    <2>4. CASE Emit(s, <<>>)
      <3>1. Emits(s, <<>>, now) BY <1>1, <1>2, <2>4, NoBatch DEF Emits, Emit
      <3> QED BY <1>1, <3>1
    <2>5. CASE Emit(s, <<e>>) BY <1>4, <2>2, <2>5
    <2> QED BY <2>3, <2>4, <2>5
  <1>8. CASE Handshake(s) \/ Subscribe(s) BY <1>3, <1>8 DEF Handshake, Subscribe
  <1>9. CASE Announce(s) \/ Ack(s) BY <1>5, <1>9 DEF Announce, Ack
  <1>10. CASE Hangup(s) \/ Fail(s) BY <1>5, <1>10 DEF Hangup, Fail
  <1>11. CASE \E kind \in {"connected", "disconnected"} : SourceStatus(s, kind)
    BY <1>5, <1>11 DEF SourceStatus
  <1> QED BY <1>6, <1>7, <1>8, <1>9, <1>10, <1>11 DEF Adapter

\* A failure's batch is one Disconnected: it adds nothing to what is counted.
LEMMA FailCounts ==
  ASSUME TypeOK, NEW s \in Source, Fail(s), NEW b, NEW t, Emits(s, b, t)
  PROVE  Count(b, s, "connected") = 0 /\ Count(b, s, "block") = 0
  <1>1. b = <<Event(s, "disconnected", NoKey, now)>> BY DEF Fail, Emit, Emits, TypeOK
  <1>2. b \in Seq(AnyEvent) BY DEF Emits, GoodBatch
  <1>3. \A i \in DOMAIN b : b[i].kind = "disconnected" BY <1>1 DEF Event
  <1>4. Places(b, s, "connected") = {} /\ Places(b, s, "block") = {} BY <1>3 DEF Places
  <1> QED BY <1>2, <1>4, PlacesFinite, FS_EmptySet

\* What is left of a queue when its first event is taken out.
LEMMA TailLemma ==
  ASSUME NEW q \in Seq(AnyEvent), q # <<>>
  PROVE  /\ 1 \in DOMAIN q /\ Head(q) = q[1] /\ q[1] \in AnyEvent
         /\ Tail(q) \in Seq(AnyEvent)
         /\ \A j \in DOMAIN Tail(q) : j \in Nat /\ j + 1 \in DOMAIN q /\ Tail(q)[j] = q[j + 1]
         /\ \A j \in DOMAIN q : j # 1 => j - 1 \in DOMAIN Tail(q) /\ Tail(q)[j - 1] = q[j]
  <1> DEFINE p == Tail(q)
  <1>1. /\ p \in Seq(AnyEvent) /\ Len(p) = Len(q) - 1
        /\ \A i \in 1 .. Len(p) : p[i] = q[i + 1]
    BY HeadTailProperties
  <1>2. Len(q) \in Nat /\ Len(q) # 0 /\ DOMAIN q = 1 .. Len(q) OBVIOUS
  <1>3. 1 \in DOMAIN q /\ q[1] \in AnyEvent BY <1>2
  <1>4. Head(q) = q[1] OBVIOUS
  <1> HIDE DEF p
  <1>5. DOMAIN p = 1 .. Len(q) - 1 BY <1>1
  <1>6. \A j \in DOMAIN p : j \in Nat /\ j + 1 \in DOMAIN q /\ p[j] = q[j + 1]
    BY <1>1, <1>2, <1>5
  <1>7. \A j \in DOMAIN q : j # 1 => j - 1 \in DOMAIN p /\ p[j - 1] = q[j]
    BY <1>1, <1>2, <1>5
  <1> QED BY <1>1, <1>3, <1>4, <1>6, <1>7 DEF p

\* The first event of the batch of s goes to the end of the channel.
Moves(s) ==
    /\ 1 \in DOMAIN outbox[s] /\ outbox[s][1] \in AnyEvent
    /\ Len(channel) \in Nat /\ DOMAIN channel = 1 .. Len(channel)
    /\ DOMAIN channel' = 1 .. Len(channel) + 1
    /\ \A i \in DOMAIN channel : channel'[i] = channel[i]
    /\ channel'[Len(channel) + 1] = outbox[s][1]
    /\ \A r \in Source : r # s => outbox'[r] = outbox[r]
    /\ \A j \in DOMAIN outbox'[s] : j + 1 \in DOMAIN outbox[s] /\ outbox'[s][j] = outbox[s][j + 1]
    /\ \A j \in DOMAIN outbox[s] : j # 1 =>
          j - 1 \in DOMAIN outbox'[s] /\ outbox'[s][j - 1] = outbox[s][j]

\* out.send moves one event.
LEMMA EnqueueLemma ==
  ASSUME TypeOK, NEW s \in Source, Enqueue(s)
  PROVE  /\ Moves(s)
         /\ channel' \in Seq(AnyEvent) /\ outbox' \in [Source -> Seq(AnyEvent)]
         /\ channel' = Append(channel, outbox[s][1]) /\ outbox'[s] = Tail(outbox[s])
         /\ outbox[s] # <<>>
  <1>1. /\ outbox[s] \in Seq(AnyEvent) /\ outbox[s] # <<>> /\ channel \in Seq(AnyEvent)
        /\ channel' = Append(channel, Head(outbox[s]))
        /\ outbox' = [outbox EXCEPT ![s] = Tail(outbox[s])]
    BY DEF TypeOK, Enqueue, Send
  <1>2. /\ 1 \in DOMAIN outbox[s] /\ Head(outbox[s]) = outbox[s][1]
        /\ outbox[s][1] \in AnyEvent /\ Tail(outbox[s]) \in Seq(AnyEvent)
    BY <1>1, TailLemma
  <1>3. /\ channel' \in Seq(AnyEvent) /\ Len(channel') = Len(channel) + 1
        /\ \A i \in 1 .. Len(channel) : channel'[i] = channel[i]
        /\ channel'[Len(channel) + 1] = outbox[s][1]
    BY <1>1, <1>2, AppendProperties
  <1>4. Len(channel) \in Nat /\ DOMAIN channel = 1 .. Len(channel) BY <1>1
  <1>5. DOMAIN channel' = 1 .. Len(channel) + 1 BY <1>3
  <1>6. /\ outbox' \in [Source -> Seq(AnyEvent)] /\ outbox'[s] = Tail(outbox[s])
        /\ \A r \in Source : r # s => outbox'[r] = outbox[r]
    BY <1>1, <1>2 DEF TypeOK
  <1>7. /\ \A j \in DOMAIN outbox'[s] : j + 1 \in DOMAIN outbox[s]
                                        /\ outbox'[s][j] = outbox[s][j + 1]
        /\ \A j \in DOMAIN outbox[s] : j # 1 =>
              j - 1 \in DOMAIN outbox'[s] /\ outbox'[s][j - 1] = outbox[s][j]
    BY <1>1, <1>6, TailLemma
  <1>8. channel' = Append(channel, outbox[s][1]) BY <1>1, <1>2
  <1> QED BY <1>1, <1>2, <1>3, <1>4, <1>5, <1>6, <1>7, <1>8 DEF Moves

\* The first event of the channel is taken out.
Takes ==
    /\ 1 \in DOMAIN channel /\ channel[1] \in AnyEvent /\ Head(channel) = channel[1]
    /\ outbox' = outbox
    /\ \A j \in DOMAIN channel' : j \in Nat /\ j + 1 \in DOMAIN channel /\ channel'[j] = channel[j + 1]
    /\ \A j \in DOMAIN channel : j # 1 =>
          j - 1 \in DOMAIN channel' /\ channel'[j - 1] = channel[j]

\* rx.recv takes one event.
LEMMA ProcessLemma ==
  ASSUME TypeOK, Process
  PROVE  /\ Takes
         /\ channel' \in Seq(AnyEvent) /\ channel' = Tail(channel)
         /\ channel \in Seq(AnyEvent) /\ channel # <<>>
  <1>1. /\ channel \in Seq(AnyEvent) /\ channel # <<>> /\ channel' = Tail(channel)
        /\ outbox' = outbox
    BY DEF TypeOK, Process, Recv, adapterVars
  <1> QED BY <1>1, TailLemma DEF Takes

\* What waits, before a step and after it.
LEMMA WaitingLemma ==
  /\ \A e : e \in Waiting <=> \/ \E i \in DOMAIN channel : e = channel[i]
                              \/ \E s \in Source : \E i \in DOMAIN outbox[s] : e = outbox[s][i]
  /\ \A e : e \in Waiting' <=> \/ \E i \in DOMAIN channel' : e = channel'[i]
                               \/ \E s \in Source : \E i \in DOMAIN outbox'[s] : e = outbox'[s][i]
  BY DEF Waiting

\* A batch joins what waits, ...
LEMMA WaitingGrows ==
  ASSUME TypeOK, NEW s \in Source, NEW b, NEW t \in Instant, Emits(s, b, t), channel' = channel
  PROVE  \A e : e \in Waiting' <=> e \in Waiting \/ \E i \in DOMAIN b : e = b[i]
  <1>1. /\ outbox[s] = <<>> /\ outbox'[s] = b
        /\ \A r \in Source : r # s => outbox'[r] = outbox[r]
    BY DEF Emits, TypeOK
  <1>2. DOMAIN outbox[s] = {} BY <1>1
  <1> QED BY <1>1, <1>2, WaitingLemma

\* ... stays when it moves into the channel, ...
LEMMA WaitingStays ==
  ASSUME TypeOK, NEW s \in Source, Moves(s)
  PROVE  Waiting' = Waiting
  <1>1. ASSUME NEW e \in Waiting PROVE e \in Waiting'
    <2>1. CASE \E i \in DOMAIN channel : e = channel[i]
      BY <2>1, WaitingLemma DEF Moves
    <2>2. ASSUME NEW r \in Source, NEW i \in DOMAIN outbox[r], e = outbox[r][i]
          PROVE  e \in Waiting'
      <3>1. CASE r # s BY <2>2, <3>1, WaitingLemma DEF Moves
      <3>2. CASE r = s /\ i = 1 BY <2>2, <3>2, WaitingLemma DEF Moves
      <3>3. CASE r = s /\ i # 1 BY <2>2, <3>3, WaitingLemma DEF Moves
      <3> QED BY <3>1, <3>2, <3>3
    <2> QED BY <2>1, <2>2, WaitingLemma
  <1>2. ASSUME NEW e \in Waiting' PROVE e \in Waiting
    <2>1. ASSUME NEW i \in DOMAIN channel', e = channel'[i]
          PROVE  e \in Waiting
      <3>1. CASE i \in DOMAIN channel BY <2>1, <3>1, WaitingLemma DEF Moves
      <3>2. CASE i = Len(channel) + 1 BY <2>1, <3>2, WaitingLemma DEF Moves
      <3> QED BY <3>1, <3>2 DEF Moves
    <2>2. ASSUME NEW r \in Source, NEW i \in DOMAIN outbox'[r], e = outbox'[r][i]
          PROVE  e \in Waiting
      <3>1. CASE r # s BY <2>2, <3>1, WaitingLemma DEF Moves
      <3>2. CASE r = s BY <2>2, <3>2, WaitingLemma DEF Moves
      <3> QED BY <3>1, <3>2
    <2> QED BY <2>1, <2>2, WaitingLemma
  <1> QED BY <1>1, <1>2

\* ... and only the event that is taken out waits no more.
LEMMA WaitingShrinks ==
  ASSUME Takes
  PROVE  \A e : e \in Waiting <=> e \in Waiting' \/ e = channel[1]
  <1>1. ASSUME NEW e, e \in Waiting PROVE e \in Waiting' \/ e = channel[1]
    <2>1. CASE \E i \in DOMAIN channel : e = channel[i]
      BY <2>1, WaitingLemma DEF Takes
    <2>2. CASE \E r \in Source : \E i \in DOMAIN outbox[r] : e = outbox[r][i]
      BY <2>2, WaitingLemma DEF Takes
    <2> QED BY <1>1, <2>1, <2>2, WaitingLemma
  <1>2. ASSUME NEW e, e \in Waiting' PROVE e \in Waiting
    <2>1. CASE \E i \in DOMAIN channel' : e = channel'[i]
      BY <2>1, WaitingLemma DEF Takes
    <2>2. CASE \E r \in Source : \E i \in DOMAIN outbox'[r] : e = outbox'[r][i]
      BY <2>2, WaitingLemma DEF Takes
    <2> QED BY <1>2, <2>1, <2>2, WaitingLemma
  <1>3. channel[1] \in Waiting BY WaitingLemma DEF Takes
  <1> QED BY <1>1, <1>2, <1>3

-----------------------------------------------------------------------------
(***************************************************************************)
(* The steps, by what they leave alone, and the types.                     *)
(***************************************************************************)

\* The main loop does something that is not receiving.
LoopOnly ==
    Other(Tick) \/ Other(Stop) \/ Other(CtrlC) \/ Other(Wait) \/ Other(Interrupt) \/ UNCHANGED vars

Untouched == UNCHANGED <<now, adapterVars, channel, collectorVars, steps, sent, history>>

\* Such a step touches neither the events nor what was collected of them.
LEMMA LoopOnlyLemma == ASSUME LoopOnly PROVE Untouched
  BY DEF LoopOnly, Untouched, Other, Tick, Stop, CtrlC, Finish, Wait, Park, Interrupt, Sigint,
         vars, feedVars, adapterVars, collectorVars, history

\* The five kinds of steps.
LEMMA StepKinds ==
  ASSUME [Next]_vars
  PROVE  \/ Clock
         \/ \E s \in Source : Adapter(s)
         \/ \E s \in Source : Enqueue(s)
         \/ Process
         \/ LoopOnly
  BY DEF Next, LoopOnly

\* The types of what only the adapters write.
LEMMA AdapterTypes ==
  ASSUME TypeOK, NEW s \in Source, Adapter(s)
  PROVE  /\ link'        \in [Source -> {"down", "open", "up"}]
         /\ last_read'   \in [Nitro -> 0 .. now]
         /\ seen_blocks' \in [Eira -> SUBSET Key]
  <1>1. /\ link        \in [Source -> {"down", "open", "up"}]
        /\ last_read   \in [Nitro -> 0 .. now]
        /\ seen_blocks \in [Eira -> SUBSET Key]
        /\ now \in Nat /\ now \in 0 .. now
    BY BoundAssumption DEF TypeOK
  <1>2. CASE Handshake(s) BY <1>1, <1>2 DEF Handshake
  <1>3. CASE Announce(s) BY <1>1, <1>3 DEF Announce
  <1>4. CASE \E m \in Message, read \in Instant : now <= read + MaxLag /\ Frame(s, m, read)
    BY <1>1, <1>4 DEF Frame
  <1>5. CASE Hangup(s) BY <1>1, <1>5 DEF Hangup
  <1>6. CASE Subscribe(s) BY <1>1, <1>6 DEF Subscribe
  <1>7. CASE Ack(s) BY <1>1, <1>7 DEF Ack
  <1>8. CASE \E kind \in {"connected", "disconnected"} : SourceStatus(s, kind)
    BY <1>1, <1>8 DEF SourceStatus
  <1>9. CASE \E k \in Key : Transaction(s, k)
    <2>1. PICK k \in Key : Transaction(s, k) BY <1>9
    <2> DEFINE seen == IF Cardinality(seen_blocks[s]) > MaxSeen THEN {} ELSE seen_blocks[s]
    <2>2. s \in Eira /\ seen_blocks' = [seen_blocks EXCEPT ![s] = seen \cup {k}]
          /\ UNCHANGED <<link, last_read>>
      BY <2>1 DEF Transaction
    <2>3. seen \subseteq Key BY <1>1, <2>2
    <2> HIDE DEF seen
    <2> QED BY <1>1, <2>2, <2>3
  <1>10. CASE Fail(s) BY <1>1, <1>10 DEF Fail
  <1> QED BY <1>2, <1>3, <1>4, <1>5, <1>6, <1>7, <1>8, <1>9, <1>10 DEF Adapter

\* The history of what was sent.
LEMMA SentTypes ==
  ASSUME TypeOK, NEW s \in Source, Adapter(s), outbox' \in [Source -> Seq(AnyEvent)]
  PROVE  sent' \in [Source -> [Key -> Instant \cup {NoInstant}]]
  <1> DEFINE row == [k \in Key |->
                       IF sent[s][k] = NoInstant /\ \E i \in DOMAIN outbox'[s] : outbox'[s][i].key = k
                       THEN outbox'[s][1].t ELSE sent[s][k]]
  <1>1. sent' = [sent EXCEPT ![s] = row] BY DEF Adapter
  <1>2. ASSUME NEW i \in DOMAIN outbox'[s] PROVE outbox'[s][1].t \in Instant
    <2>1. outbox'[s] \in Seq(AnyEvent) OBVIOUS
    <2>2. 1 \in DOMAIN outbox'[s] /\ outbox'[s][1] \in AnyEvent BY <2>1
    <2> QED BY <2>2 DEF AnyEvent, ConnEvent, BlockEvent
  <1>3. sent \in [Source -> [Key -> Instant \cup {NoInstant}]] BY DEF TypeOK
  <1>4. row \in [Key -> Instant \cup {NoInstant}] BY <1>2, <1>3
  <1> HIDE DEF row
  <1> QED BY <1>1, <1>3, <1>4

\* What a summary counts are blocks.
LEMMA CountedTypes ==
  ASSUME BP!IInv, NEW a, NEW b
  PROVE  Counted(a, b) \subseteq Key /\ DOMAIN blocks \subseteq Key
  BY DEF Counted, BP!IInv, BP!TypeOK

\* The types of the main loop's variables.
LEMMA LoopTypes ==
  ASSUME TypeOK, BP!IInv, LoopOnly
  PROVE  /\ pc' \in {"top", "parked", "done"}
         /\ armed' \in BOOLEAN /\ fired' \in BOOLEAN /\ signalled' \in BOOLEAN
         /\ interrupted' \in BOOLEAN
         /\ next_tick' \in Nat /\ last_summary' \in Nat
         /\ block_intervals' \in Seq(Summary)
         /\ matched' \subseteq Key
  <1> USE DEF TypeOK
  <1>1. CASE Other(Tick)
    <2>1. now \in Nat /\ Interval \in Nat BY BoundAssumption, IntervalAssumption
    <2> DEFINE entry == [since |-> last_summary, until |-> now, counted |-> Counted(last_summary, now)]
    <2>2. entry \in Summary BY <2>1, CountedTypes DEF Summary
    <2>3. block_intervals' = Append(block_intervals, entry) BY <1>1 DEF Other, Tick
    <2> HIDE DEF entry
    <2>4. block_intervals' \in Seq(Summary) BY <2>2, <2>3, AppendProperties
    <2>5. next_tick' \in Nat /\ last_summary' \in Nat BY <1>1, <2>1 DEF Other, Tick
    <2> QED BY <1>1, <2>4, <2>5 DEF Other, Tick, Turn
  <1>2. CASE Other(Stop) \/ Other(CtrlC)
    <2>1. Finish /\ interrupted' \in BOOLEAN BY <1>2 DEF Other, Stop, CtrlC
    <2>2. matched' \subseteq Key BY <2>1, CountedTypes DEF Finish
    <2> QED BY <2>1, <2>2 DEF Finish
  <1>3. CASE Other(Wait) BY <1>3 DEF Other, Wait, Park
  <1>4. CASE Other(Interrupt)
    <2>1. fired' \in BOOLEAN BY <1>4 DEF Other, Interrupt, Sigint
    <2> QED BY <1>4, <2>1 DEF Other, Interrupt, Sigint
  <1>5. CASE UNCHANGED vars BY <1>5 DEF vars, feedVars, loopVars
  <1> QED BY <1>1, <1>2, <1>3, <1>4, <1>5 DEF LoopOnly

\* Every step keeps the types.
LEMMA TypeStep ==
  ASSUME TypeOK, BP!IInv, [Next]_vars
  PROVE  TypeOK'
  <1>1. CASE Clock
    <2>1. now' \in 0 .. MaxInstant BY <1>1, BoundAssumption DEF Clock, TypeOK
    <2>2. last_read' \in [Nitro -> 0 .. now']
      BY <1>1, BoundAssumption DEF Clock, TypeOK, adapterVars
    <2> QED BY <1>1, <2>1, <2>2 DEF Clock, TypeOK, adapterVars, loopVars
  <1>2. ASSUME NEW s \in Source, Adapter(s) PROVE TypeOK'
    <2>0. PICK b : \E t \in Instant : Emits(s, b, t) BY <1>2, AdapterLemma
    <2>1. PICK t \in Instant : Emits(s, b, t) BY <2>0
    <2>2. outbox' \in [Source -> Seq(AnyEvent)] BY <2>1 DEF Emits, GoodBatch, TypeOK
    <2>3. steps' \in [Source -> 0 .. MaxEvents]
      <3>1. steps \in [Source -> 0 .. MaxEvents] /\ MaxEvents \in Nat
        BY BoundAssumption DEF TypeOK
      <3>2. \/ steps[s] < MaxEvents /\ steps' = [steps EXCEPT ![s] = @ + 1]
            \/ steps' = steps
        BY <1>2 DEF Adapter
      <3> QED BY <3>1, <3>2
    <2>4. /\ link' \in [Source -> {"down", "open", "up"}]
          /\ last_read' \in [Nitro -> 0 .. now]
          /\ seen_blocks' \in [Eira -> SUBSET Key]
      BY <1>2, AdapterTypes
    <2>5. sent' \in [Source -> [Key -> Instant \cup {NoInstant}]] BY <1>2, <2>2, SentTypes
    <2>6. UNCHANGED <<now, channel, loopVars, signalled>> BY <1>2 DEF Adapter
    <2> QED BY <2>2, <2>3, <2>4, <2>5, <2>6 DEF TypeOK, loopVars
  <1>3. ASSUME NEW s \in Source, Enqueue(s) PROVE TypeOK'
    <2>1. channel' \in Seq(AnyEvent) /\ outbox' \in [Source -> Seq(AnyEvent)]
      BY <1>3, EnqueueLemma
    <2> QED BY <1>3, <2>1 DEF Enqueue, Send, TypeOK, loopVars
  <1>4. CASE Process
    <2>1. channel' \in Seq(AnyEvent) BY <1>4, ProcessLemma
    <2> QED BY <1>4, <2>1 DEF Process, Recv, Turn, TypeOK, adapterVars
  <1>5. CASE LoopOnly
    <2>1. Untouched BY <1>5, LoopOnlyLemma
    <2> QED BY <1>5, <2>1, LoopTypes DEF Untouched, TypeOK, adapterVars
  <1> QED BY <1>1, <1>2, <1>3, <1>4, <1>5, StepKinds

-----------------------------------------------------------------------------
(***************************************************************************)
(* The events that wait.                                                   *)
(***************************************************************************)

\* What waits are events, with the clock's instants.
LEMMA Times ==
  ASSUME TypeOK
  PROVE  /\ now \in Nat
         /\ \A e \in Waiting : e \in AnyEvent /\ e.source \in Source /\ e.t \in Nat
         /\ \A i \in DOMAIN channel : channel[i] \in Waiting
         /\ \A s \in Source : \A i \in DOMAIN outbox[s] : outbox[s][i] \in Waiting
  <1>1. now \in Nat BY BoundAssumption DEF TypeOK
  <1>2. channel \in Seq(AnyEvent) /\ \A s \in Source : outbox[s] \in Seq(AnyEvent)
    BY DEF TypeOK
  <1>3. \A i \in DOMAIN channel : channel[i] \in AnyEvent BY <1>2
  <1>4. \A s \in Source : \A i \in DOMAIN outbox[s] : outbox[s][i] \in AnyEvent BY <1>2
  <1>5. \A e \in Waiting : e \in AnyEvent BY <1>3, <1>4, WaitingLemma
  <1>6. \A e \in AnyEvent : e.source \in Source /\ e.t \in Nat
    BY InstantAssumption DEF AnyEvent, ConnEvent, BlockEvent
  <1> QED BY <1>1, <1>5, <1>6, WaitingLemma

\* A batch stays one task's, with one stamp.
LEMMA BatchesStep ==
  ASSUME TypeOK, BatchesUniform, [Next]_vars
  PROVE  BatchesUniform'
  <1> USE DEF BatchesUniform
  <1>1. CASE Clock BY <1>1 DEF Clock, adapterVars
  <1>2. ASSUME NEW s \in Source, Adapter(s) PROVE BatchesUniform'
    <2>0. PICK b : \E t \in Instant : Emits(s, b, t) BY <1>2, AdapterLemma
    <2>1. PICK t \in Instant : Emits(s, b, t) BY <2>0
    <2>2. outbox'[s] = b /\ \A r \in Source : r # s => outbox'[r] = outbox[r]
      BY <2>1 DEF Emits, TypeOK
    <2>3. \A i, j \in DOMAIN b : b[i].source = s /\ b[i].t = b[j].t
      BY <2>1 DEF Emits, GoodBatch
    <2> QED BY <2>2, <2>3
  <1>3. ASSUME NEW s \in Source, Enqueue(s) PROVE BatchesUniform'
    <2>1. Moves(s) BY <1>3, EnqueueLemma
    <2>2. ASSUME NEW r \in Source, NEW i \in DOMAIN outbox'[r]
          PROVE  \E l \in DOMAIN outbox[r] : outbox'[r][i] = outbox[r][l]
      BY <2>1, <2>2 DEF Moves
    <2> QED BY <2>2
  <1>4. CASE Process BY <1>4, ProcessLemma DEF Takes
  <1>5. CASE LoopOnly BY <1>5, LoopOnlyLemma DEF Untouched, adapterVars
  <1> QED BY <1>1, <1>2, <1>3, <1>4, <1>5, StepKinds

\* What the processing of an event adds to the history.
LEMMA HeardLemma ==
  ASSUME TypeOK, WP!TypeOK, BP!TypeOK, Process
  PROVE  LET e == channel[1]
         IN  /\ UNCHANGED <<now, steps, sent>>
             /\ newest_conn' \in {newest_conn, e.t} /\ newest_block' \in {newest_block, e.t}
             /\ newest_conn \in Nat /\ newest_block \in Nat
             /\ \A r \in Source : stamp'[r] =
                   IF Conn(e) /\ r = e.source THEN e.t ELSE stamp[r]
  <1>1. Head(channel) = channel[1] /\ channel[1] \in AnyEvent BY ProcessLemma DEF Takes
  <1>2. Heard(channel[1]) /\ UNCHANGED <<now, steps, sent>> BY <1>1 DEF Process, Recv
  <1>3. channel[1].source \in Source BY <1>1 DEF AnyEvent, ConnEvent, BlockEvent
  <1>4. stamp \in [Source -> Nat] /\ newest_conn \in Nat /\ newest_block \in Nat
    BY DEF WP!TypeOK, BP!TypeOK
  <1>5. CASE channel[1].kind = "block" BY <1>2, <1>4, <1>5 DEF Heard, Later, Conn
  <1>6. CASE channel[1].kind # "block" BY <1>2, <1>3, <1>4, <1>6 DEF Heard, Later, Conn
  <1> QED BY <1>5, <1>6

\* No event waits longer than MaxLag.
LEMMA RecentStep ==
  ASSUME PipelineInv, WP!IInv, BP!IInv, [Next]_vars
  PROVE  WaitingRecent'
  <1> USE DEF WaitingRecent
  <1>1. TypeOK /\ WaitingRecent /\ WP!TypeOK /\ BP!TypeOK BY DEF PipelineInv, WP!IInv, BP!IInv
  <1>2. newest_conn \in Nat /\ newest_block \in Nat /\ MaxLag \in Nat
    BY <1>1, LagAssumption DEF WP!TypeOK, BP!TypeOK
  <1>3. now \in Nat /\ \A e \in Waiting : e.t \in Nat BY <1>1, Times
  <1>4. CASE Clock
    <2>1. /\ now' = now + 1 /\ Waiting' = Waiting
          /\ newest_conn' = newest_conn /\ newest_block' = newest_block
          /\ \A e \in Waiting : now < e.t + MaxLag
      BY <1>4 DEF Clock, adapterVars, history, Waiting
    <2>2. ASSUME NEW e \in Waiting PROVE e.t <= now' /\ now' <= e.t + MaxLag
      BY <1>1, <1>2, <1>3, <2>1
    <2>3. newest_conn' <= now' /\ newest_block' <= now' BY <1>1, <1>2, <1>3, <2>1
    <2> QED BY <2>1, <2>2, <2>3
  <1>5. ASSUME NEW s \in Source, Adapter(s) PROVE WaitingRecent'
    <2>0. PICK b : \E t \in Instant : Emits(s, b, t) BY <1>1, <1>5, AdapterLemma
    <2>1. PICK t \in Instant : Emits(s, b, t) BY <2>0
    <2>2. now' = now /\ newest_conn' = newest_conn /\ newest_block' = newest_block
          /\ channel' = channel
      BY <1>5 DEF Adapter, history
    <2>3. \A e : e \in Waiting' <=> e \in Waiting \/ \E i \in DOMAIN b : e = b[i]
      BY <1>1, <2>1, <2>2, WaitingGrows
    <2>4. \A i \in DOMAIN b : b[i].t <= now /\ now <= b[i].t + MaxLag
      BY <2>1 DEF Emits, GoodBatch
    <2> QED BY <1>1, <2>2, <2>3, <2>4
  <1>6. ASSUME NEW s \in Source, Enqueue(s) PROVE WaitingRecent'
    <2>1. Waiting' = Waiting BY <1>1, <1>6, EnqueueLemma, WaitingStays
    <2>2. now' = now /\ newest_conn' = newest_conn /\ newest_block' = newest_block
      BY <1>6 DEF Enqueue, history
    <2> QED BY <1>1, <2>1, <2>2
  <1>7. CASE Process
    <2>1. \A e : e \in Waiting <=> e \in Waiting' \/ e = channel[1]
      BY <1>1, <1>7, ProcessLemma, WaitingShrinks
    <2>2. /\ now' = now
          /\ newest_conn' \in {newest_conn, channel[1].t}
          /\ newest_block' \in {newest_block, channel[1].t}
      BY <1>1, <1>7, HeardLemma
    <2>3. channel[1].t <= now BY <1>1, <2>1
    <2> QED BY <1>1, <2>1, <2>2, <2>3
  <1>8. CASE LoopOnly
    <2>1. Waiting' = Waiting /\ now' = now
          /\ newest_conn' = newest_conn /\ newest_block' = newest_block
      BY <1>8, LoopOnlyLemma DEF Untouched, adapterVars, history, Waiting
    <2> QED BY <1>1, <2>1
  <1> QED BY <1>4, <1>5, <1>6, <1>7, <1>8, StepKinds

\* The connection events of a source stay in the order of their stamps.
LEMMA OrderStep ==
  ASSUME PipelineInv, WP!IInv, BP!IInv, [Next]_vars
  PROVE  ConnInOrder'
  <1>1. /\ TypeOK /\ BatchesUniform /\ WaitingRecent /\ ConnInOrder
        /\ WP!TypeOK /\ BP!TypeOK /\ WP!StampsOrdered
    BY DEF PipelineInv, WP!IInv, BP!IInv
  <1>2. now \in Nat /\ \A e \in Waiting : e.t \in Nat /\ e.source \in Source BY <1>1, Times
  <1>3. \A s \in Source : stamp[s] \in Nat /\ stamp[s] <= now
    <2>1. \A s \in Source : stamp[s] \in Nat /\ stamp[s] <= newest_conn /\ newest_conn \in Nat
      BY <1>1 DEF WP!TypeOK, WP!StampsOrdered
    <2>2. newest_conn <= now BY <1>1 DEF WaitingRecent
    <2> QED BY <1>2, <2>1, <2>2
  <1>4. CASE UNCHANGED <<channel, outbox, stamp>>
    BY <1>1, <1>4 DEF ConnInOrder, Waiting
  <1>5. ASSUME NEW s \in Source, Adapter(s) PROVE ConnInOrder'
    <2>0. PICK b : \E t \in Instant : Emits(s, b, t) BY <1>1, <1>5, AdapterLemma
    <2>1. PICK t \in Instant : Emits(s, b, t) BY <2>0
    <2>2. stamp' = stamp /\ channel' = channel BY <1>5 DEF Adapter, history
    <2>3. \A e : e \in Waiting' <=> e \in Waiting \/ \E i \in DOMAIN b : e = b[i]
      BY <1>1, <2>1, <2>2, WaitingGrows
    <2>4. \A i \in DOMAIN b : b[i].source = s /\ (Conn(b[i]) => b[i].t = now)
      BY <2>1 DEF Emits, GoodBatch
    <2>5. outbox'[s] = b /\ \A r \in Source : r # s => outbox'[r] = outbox[r]
      BY <1>1, <2>1 DEF Emits, TypeOK
    <2>6. \A e \in Waiting' : Conn(e) => stamp[e.source] <= e.t
      BY <1>1, <1>3, <2>3, <2>4 DEF ConnInOrder
    <2>7. \A i \in DOMAIN channel : channel[i].t <= now
      BY <1>1, Times DEF WaitingRecent
    <2>8. ASSUME NEW r \in Source, NEW i \in DOMAIN channel, NEW j \in DOMAIN outbox'[r],
                 Conn(channel[i]), Conn(outbox'[r][j]), channel[i].source = r
          PROVE  channel[i].t <= outbox'[r][j].t
      <3>1. CASE r = s BY <2>4, <2>5, <2>7, <2>8, <3>1
      <3>2. CASE r # s BY <1>1, <2>5, <2>8, <3>2 DEF ConnInOrder
      <3> QED BY <3>1, <3>2
    <2> QED BY <1>1, <2>2, <2>6, <2>8 DEF ConnInOrder
  <1>6. ASSUME NEW s \in Source, Enqueue(s) PROVE ConnInOrder'
    <2>1. Moves(s) BY <1>1, <1>6, EnqueueLemma
    <2>2. Waiting' = Waiting /\ stamp' = stamp
      BY <1>1, <1>6, <2>1, WaitingStays DEF Enqueue, history
    <2>3. outbox[s][1].source = s /\ \A j \in DOMAIN outbox[s] : outbox[s][j].t = outbox[s][1].t
      BY <1>1, <2>1 DEF BatchesUniform, Moves
    <2>4. \A i \in DOMAIN channel' : i \in DOMAIN channel \/ i = Len(channel) + 1
      BY <2>1 DEF Moves
    <2>5. ASSUME NEW i \in DOMAIN channel', NEW j \in DOMAIN channel', i < j,
                 Conn(channel'[i]), Conn(channel'[j]), channel'[i].source = channel'[j].source
          PROVE  channel'[i].t <= channel'[j].t
      <3>1. i \in DOMAIN channel BY <2>1, <2>5 DEF Moves
      <3>2. CASE j \in DOMAIN channel BY <1>1, <2>1, <2>5, <3>1, <3>2 DEF ConnInOrder, Moves
      <3>3. CASE j = Len(channel) + 1
        <4>1. channel'[i] = channel[i] /\ channel'[j] = outbox[s][1] /\ 1 \in DOMAIN outbox[s]
          BY <2>1, <3>1, <3>3 DEF Moves
        <4> QED BY <1>1, <2>3, <2>5, <3>1, <4>1 DEF ConnInOrder
      <3> QED BY <2>4, <3>2, <3>3
    <2>6. ASSUME NEW r \in Source, NEW i \in DOMAIN channel', NEW j \in DOMAIN outbox'[r],
                 Conn(channel'[i]), Conn(outbox'[r][j]), channel'[i].source = r
          PROVE  channel'[i].t <= outbox'[r][j].t
      <3>1. \E l \in DOMAIN outbox[r] : outbox'[r][j] = outbox[r][l]
        BY <2>1, <2>6 DEF Moves
      <3>2. CASE i \in DOMAIN channel BY <1>1, <2>1, <2>6, <3>1, <3>2 DEF ConnInOrder, Moves
      <3>3. CASE i = Len(channel) + 1
        <4>1. channel'[i] = outbox[s][1] BY <2>1, <3>3 DEF Moves
        <4>2. r = s BY <2>3, <2>6, <4>1
        <4>3. outbox'[r][j].t = outbox[s][1].t BY <2>3, <3>1, <4>2
        <4>4. outbox[s][1].t \in Nat BY <1>1, <1>2, <2>1, Times DEF Moves
        <4> QED BY <4>1, <4>3, <4>4
      <3> QED BY <2>4, <3>2, <3>3
    <2> QED BY <1>1, <2>2, <2>5, <2>6 DEF ConnInOrder
  <1>7. CASE Process
    <2> DEFINE d == channel[1]
    <2>1. Takes BY <1>1, <1>7, ProcessLemma
    <2>2. \A e : e \in Waiting <=> e \in Waiting' \/ e = d BY <2>1, WaitingShrinks
    <2>3. \A r \in Source : stamp'[r] = IF Conn(d) /\ r = d.source THEN d.t ELSE stamp[r]
      BY <1>1, <1>7, HeardLemma
    <2>4. ASSUME NEW e \in Waiting', Conn(e) PROVE stamp'[e.source] <= e.t
      <3>1. e \in Waiting /\ e.source \in Source BY <1>2, <2>2
      <3>2. CASE Conn(d) /\ e.source = d.source
        <4>1. CASE \E i \in DOMAIN channel' : e = channel'[i]
          <5>1. PICK i \in DOMAIN channel' : e = channel'[i] BY <4>1
          <5>2. i \in Nat /\ i + 1 \in DOMAIN channel /\ e = channel[i + 1] /\ 1 \in DOMAIN channel
            BY <2>1, <5>1 DEF Takes
          <5>3. 1 < i + 1
            <6>1. i \in DOMAIN channel' /\ channel' \in Seq(AnyEvent)
              BY <1>1, <1>7, ProcessLemma
            <6> QED BY <6>1
          <5>4. d.t <= e.t BY <1>1, <2>4, <3>2, <5>2, <5>3 DEF ConnInOrder
          <5> QED BY <2>3, <3>1, <3>2, <5>4
        <4>2. CASE \E r \in Source : \E i \in DOMAIN outbox'[r] : e = outbox'[r][i]
          <5>1. PICK r \in Source : \E i \in DOMAIN outbox[r] : e = outbox[r][i]
            BY <2>1, <4>2 DEF Takes
          <5>2. PICK i \in DOMAIN outbox[r] : e = outbox[r][i] BY <5>1
          <5>3. e.source = r BY <1>1, <5>2 DEF BatchesUniform
          <5>4. d.t <= e.t BY <1>1, <2>1, <2>4, <3>2, <5>2, <5>3 DEF ConnInOrder, Takes
          <5> QED BY <2>3, <3>1, <3>2, <5>4
        <4> QED BY <2>4, <4>1, <4>2, WaitingLemma
      <3>3. CASE ~(Conn(d) /\ e.source = d.source)
        BY <1>1, <2>3, <2>4, <3>1, <3>3 DEF ConnInOrder
      <3> QED BY <3>2, <3>3
    <2>5. ASSUME NEW i \in DOMAIN channel', NEW j \in DOMAIN channel', i < j,
                 Conn(channel'[i]), Conn(channel'[j]), channel'[i].source = channel'[j].source
          PROVE  channel'[i].t <= channel'[j].t
      <3>1. /\ i \in Nat /\ i + 1 \in DOMAIN channel /\ channel'[i] = channel[i + 1]
            /\ j \in Nat /\ j + 1 \in DOMAIN channel /\ channel'[j] = channel[j + 1]
        BY <2>1 DEF Takes
      <3>2. i + 1 < j + 1 BY <2>5, <3>1
      <3> QED BY <1>1, <2>5, <3>1, <3>2 DEF ConnInOrder
    <2>6. ASSUME NEW r \in Source, NEW i \in DOMAIN channel', NEW j \in DOMAIN outbox'[r],
                 Conn(channel'[i]), Conn(outbox'[r][j]), channel'[i].source = r
          PROVE  channel'[i].t <= outbox'[r][j].t
      BY <1>1, <2>1, <2>6 DEF ConnInOrder, Takes
    <2>7. \A e \in Waiting' : Conn(e) => stamp'[e.source] <= e.t BY <2>4
    <2> HIDE DEF d
    <2> QED BY <2>5, <2>6, <2>7 DEF ConnInOrder
  <1>8. CASE Clock BY <1>4, <1>8 DEF Clock, adapterVars, history
  <1>9. CASE LoopOnly BY <1>4, <1>9, LoopOnlyLemma DEF Untouched, adapterVars, history
  <1> QED BY <1>5, <1>6, <1>7, <1>8, <1>9, StepKinds

\* What was counted and what waits of a kind of events of s.
Known(n, s, kind) == n + Count(channel, s, kind) + Count(outbox[s], s, kind)

\* The count of events is never negative.
LEMMA KnownType ==
  ASSUME TypeOK, NEW s \in Source, NEW kind, NEW n \in Nat
  PROVE  /\ Count(channel, s, kind) \in Nat /\ Count(outbox[s], s, kind) \in Nat
         /\ Known(n, s, kind) \in Nat /\ n <= Known(n, s, kind)
  <1>1. channel \in Seq(AnyEvent) /\ outbox[s] \in Seq(AnyEvent) BY DEF TypeOK
  <1>2. Count(channel, s, kind) \in Nat /\ Count(outbox[s], s, kind) \in Nat
    BY <1>1, PlacesFinite
  <1> QED BY <1>2 DEF Known

\* A batch adds its events, ...
LEMMA KnownGrows ==
  ASSUME TypeOK, NEW s \in Source, NEW b, NEW t \in Instant, Emits(s, b, t), channel' = channel,
         NEW r \in Source, NEW kind, NEW n \in Nat
  PROVE  Known(n, r, kind)' = Known(n, r, kind) + (IF r = s THEN Count(b, s, kind) ELSE 0)
  <1>1. /\ outbox[s] = <<>> /\ outbox'[s] = b /\ b \in Seq(AnyEvent)
        /\ \A q \in Source : q # s => outbox'[q] = outbox[q]
    BY DEF Emits, GoodBatch, TypeOK
  <1>2. Count(outbox[s], s, kind) = 0 /\ Count(b, s, kind) \in Nat
    BY <1>1, CountEmpty, PlacesFinite
  <1>3. Count(channel, r, kind) \in Nat /\ Count(outbox[r], r, kind) \in Nat BY KnownType
  <1>4. CASE r = s
    <2>1. Known(n, r, kind)' = n + Count(channel, s, kind) + Count(b, s, kind)
      BY <1>1, <1>4 DEF Known
    <2>2. Known(n, r, kind) = n + Count(channel, s, kind) + 0 BY <1>2, <1>4 DEF Known
    <2> QED BY <1>2, <1>3, <1>4, <2>1, <2>2
  <1>5. CASE r # s
    <2>1. Known(n, r, kind)' = Known(n, r, kind) BY <1>1, <1>5 DEF Known
    <2>2. Known(n, r, kind) \in Nat BY KnownType
    <2> QED BY <1>5, <2>1, <2>2
  <1> QED BY <1>4, <1>5

\* ... moving an event changes nothing, ...
LEMMA KnownStays ==
  ASSUME TypeOK, BatchesUniform, NEW s \in Source, Enqueue(s),
         NEW r \in Source, NEW kind, NEW n \in Nat
  PROVE  Known(n, r, kind)' = Known(n, r, kind)
  <1> DEFINE e == outbox[s][1]
  <1>1. /\ channel \in Seq(AnyEvent) /\ outbox[s] \in Seq(AnyEvent) /\ outbox[s] # <<>>
        /\ channel' = Append(channel, e) /\ outbox'[s] = Tail(outbox[s])
        /\ e \in AnyEvent /\ e.source = s
        /\ \A q \in Source : q # s => outbox'[q] = outbox[q]
    BY EnqueueLemma DEF TypeOK, Moves, BatchesUniform
  <1>2. /\ Is(e, r, kind) => Count(channel', r, kind) = Count(channel, r, kind) + 1
        /\ ~Is(e, r, kind) => Count(channel', r, kind) = Count(channel, r, kind)
    BY <1>1, CountAppend
  <1>3. /\ Is(e, s, kind) => Count(outbox[s], s, kind) = Count(outbox'[s], s, kind) + 1
        /\ ~Is(e, s, kind) => Count(outbox[s], s, kind) = Count(outbox'[s], s, kind)
    BY <1>1, CountTail
  <1>4. /\ Count(channel, r, kind) \in Nat /\ Count(outbox[r], r, kind) \in Nat
    BY KnownType
  <1>5. Tail(outbox[s]) \in Seq(AnyEvent) BY <1>1, TailLemma
  <1>6. Count(outbox'[s], s, kind) \in Nat BY <1>1, <1>5, PlacesFinite
  <1>7. Known(n, r, kind)' = n + Count(channel', r, kind) + Count(outbox'[r], r, kind)
    BY DEF Known, Count
  <1>8. CASE r = s
    <2> HIDE DEF e
    <2> QED BY <1>2, <1>3, <1>4, <1>6, <1>7, <1>8 DEF Known
  <1>9. CASE r # s
    <2>1. ~Is(e, r, kind) BY <1>1, <1>9 DEF Is
    <2> HIDE DEF e
    <2> QED BY <1>1, <1>2, <1>7, <1>9, <2>1 DEF Known
  <1> QED BY <1>8, <1>9

\* ... and one that is processed may be counted.
LEMMA KnownShrinks ==
  ASSUME TypeOK, Process, NEW r \in Source, NEW kind, NEW n \in Nat, NEW m \in Nat,
         m <= n + (IF Is(channel[1], r, kind) THEN 1 ELSE 0)
  PROVE  m + Count(channel, r, kind)' + Count(outbox[r], r, kind)' <= Known(n, r, kind)
  <1>1. /\ channel \in Seq(AnyEvent) /\ channel # <<>> /\ channel' = Tail(channel)
        /\ channel' \in Seq(AnyEvent) /\ outbox' = outbox
    BY ProcessLemma DEF Takes
  <1>2. /\ Is(channel[1], r, kind) => Count(channel, r, kind) = Count(channel', r, kind) + 1
        /\ ~Is(channel[1], r, kind) => Count(channel, r, kind) = Count(channel', r, kind)
    BY <1>1, CountTail
  <1>3. Count(channel', r, kind) \in Nat BY <1>1, PlacesFinite
  <1>4. Count(outbox[r], r, kind) \in Nat BY KnownType
  <1>5. Count(outbox[r], r, kind)' = Count(outbox[r], r, kind) BY <1>1 DEF Count
  <1>6. Count(channel, r, kind)' = Count(channel', r, kind) BY DEF Count
  <1> QED BY <1>2, <1>3, <1>4, <1>5, <1>6 DEF Known

\* What the Collector counts of an event.
LEMMA CountsLemma ==
  ASSUME TypeOK, WP!TypeOK, BP!TypeOK, Process, NEW r \in Source
  PROVE  /\ reconnects'[r] \in Nat /\ block_events'[r] \in Nat
         /\ reconnects[r] \in Nat /\ block_events[r] \in Nat
         /\ reconnects'[r] <= reconnects[r] + (IF Is(channel[1], r, "connected") THEN 1 ELSE 0)
         /\ block_events'[r] <= block_events[r] + (IF Is(channel[1], r, "block") THEN 1 ELSE 0)
  <1>1. Head(channel) = channel[1] /\ channel[1] \in AnyEvent BY ProcessLemma DEF Takes
  <1>2. Collect(channel[1]) BY <1>1 DEF Process, Recv
  <1>3. channel[1].source \in Source BY <1>1 DEF AnyEvent, ConnEvent, BlockEvent
  <1>4. reconnects \in [Source -> Nat] /\ block_events \in [Source -> Nat]
    BY DEF WP!TypeOK, BP!TypeOK
  <1>5. channel[1].kind \in {"connected", "disconnected", "block"}
    BY <1>1 DEF AnyEvent, ConnEvent, BlockEvent
  <1>6. CASE channel[1].kind = "connected"
    <2>1. Win!OnConnected(channel[1].source, channel[1].t) /\ block_events' = block_events
      BY <1>2, <1>6 DEF Collect
    <2>2. \/ reconnects' = reconnects
          \/ reconnects' = [reconnects EXCEPT ![channel[1].source] =
                                @ + (IF ever_connected[channel[1].source] THEN 1 ELSE 0)]
      BY <2>1 DEF Win!OnConnected, Win!windowVars
    <2>3. \/ reconnects'[r] = reconnects[r]
          \/ r = channel[1].source /\ reconnects'[r] = reconnects[r] + 1
      BY <1>3, <1>4, <2>2
    <2>4. r = channel[1].source => Is(channel[1], r, "connected") BY <1>6 DEF Is
    <2> QED BY <1>4, <2>1, <2>3, <2>4
  <1>7. CASE channel[1].kind = "disconnected"
    <2>1. reconnects' = reconnects /\ block_events' = block_events
      BY <1>2, <1>7 DEF Collect, Win!OnDisconnected, Win!windowVars
    <2> QED BY <1>4, <2>1
  <1>8. CASE channel[1].kind = "block"
    <2>1. /\ reconnects' = reconnects
          /\ block_events' = [block_events EXCEPT ![channel[1].source] = @ + 1]
      BY <1>2, <1>8 DEF Collect, Blk!OnBlock
    <2>2. r = channel[1].source => Is(channel[1], r, "block") BY <1>8 DEF Is
    <2> QED BY <1>3, <1>4, <2>1, <2>2
  <1> QED BY <1>5, <1>6, <1>7, <1>8

\* The Collector counts no more than the adapters have sent.
LEMMA InventedStep ==
  ASSUME PipelineInv, WP!IInv, BP!IInv, [Next]_vars
  PROVE  NoneInvented'
  <1>1. TypeOK /\ BatchesUniform /\ NoneInvented /\ WP!TypeOK /\ BP!TypeOK
    BY DEF PipelineInv, WP!IInv, BP!IInv
  <1>2. /\ \A r \in Source : reconnects[r] \in Nat /\ block_events[r] \in Nat /\ steps[r] \in Nat
        /\ MaxBatch \in Nat
    BY <1>1, BoundAssumption DEF WP!TypeOK, BP!TypeOK, TypeOK
  <1>3. \A r \in Source : /\ Known(reconnects[r], r, "connected") <= steps[r]
                          /\ Known(block_events[r], r, "block") <= steps[r] * MaxBatch
    BY <1>1 DEF NoneInvented, Known
  <1>4. CASE UNCHANGED <<channel, outbox, steps, reconnects, block_events>>
    BY <1>1, <1>4 DEF NoneInvented, Count
  <1>5. ASSUME NEW s \in Source, Adapter(s) PROVE NoneInvented'
    <2>0. PICK b : \E t \in Instant : Emits(s, b, t) BY <1>1, <1>5, AdapterLemma
    <2>1. PICK t \in Instant : Emits(s, b, t) BY <2>0
    <2>2. channel' = channel /\ reconnects' = reconnects /\ block_events' = block_events
      BY <1>5 DEF Adapter, collectorVars
    <2>6. \/ steps' = [steps EXCEPT ![s] = @ + 1]
          \/ /\ steps' = steps
             /\ Count(b, s, "connected") = 0 /\ Count(b, s, "block") = 0
      BY <1>1, <1>5, <2>1, FailCounts DEF Adapter
    <2>3. /\ b \in Seq(AnyEvent)
          /\ Count(b, s, "connected") <= 1 /\ Count(b, s, "block") <= MaxBatch
      BY <2>1 DEF Emits, GoodBatch
    <2>4. Count(b, s, "connected") \in Nat /\ Count(b, s, "block") \in Nat
      BY <2>3, PlacesFinite
    <2>5. ASSUME NEW r \in Source
          PROVE  /\ Known(reconnects[r], r, "connected")' <= steps'[r]
                 /\ Known(block_events[r], r, "block")' <= steps'[r] * MaxBatch
      <3> DEFINE c == Known(reconnects[r], r, "connected")
                 d == Known(block_events[r], r, "block")
                 x == Count(b, s, "connected")
                 y == Count(b, s, "block")
      <3>1. c \in Nat /\ d \in Nat BY <1>1, <1>2, KnownType
      <3>2. /\ Known(reconnects[r], r, "connected")' = c + (IF r = s THEN x ELSE 0)
            /\ Known(block_events[r], r, "block")' = d + (IF r = s THEN y ELSE 0)
        <4>1. /\ \A n \in Nat : Known(n, r, "connected")' =
                                  Known(n, r, "connected") + (IF r = s THEN x ELSE 0)
              /\ \A n \in Nat : Known(n, r, "block")' =
                                  Known(n, r, "block") + (IF r = s THEN y ELSE 0)
          BY <1>1, <2>1, <2>2, KnownGrows
        <4>2. /\ Known(reconnects[r], r, "connected")'
                   = reconnects[r] + Count(channel', r, "connected") + Count(outbox'[r], r, "connected")
              /\ Known(block_events[r], r, "block")'
                   = block_events[r] + Count(channel', r, "block") + Count(outbox'[r], r, "block")
          BY <2>2 DEF Known, Count
        <4> QED BY <1>2, <4>1, <4>2 DEF Known, Count
      <3>3. c <= steps[r] /\ d <= steps[r] * MaxBatch BY <1>3
      <3>4. \/ steps'[r] = IF r = s THEN steps[r] + 1 ELSE steps[r]
            \/ steps'[r] = steps[r] /\ x = 0 /\ y = 0
        BY <1>1, <2>6 DEF TypeOK
      <3>5. (steps[r] + 1) * MaxBatch = steps[r] * MaxBatch + MaxBatch
            /\ steps[r] * MaxBatch \in Nat
        BY <1>2
      <3> HIDE DEF c, d, x, y
      <3>6. CASE r = s
        <4>1. x \in Nat /\ y \in Nat /\ x <= 1 /\ y <= MaxBatch BY <2>3, <2>4 DEF x, y
        <4>2. c + x <= steps[r] + 1 BY <1>2, <3>1, <3>3, <4>1
        <4>3. d + y <= steps[r] * MaxBatch + MaxBatch BY <1>2, <3>1, <3>3, <3>5, <4>1
        <4>4. CASE steps'[r] = steps[r] + 1 BY <3>2, <3>5, <3>6, <4>2, <4>3, <4>4
        <4>5. CASE steps'[r] = steps[r] /\ x = 0 /\ y = 0
          BY <3>1, <3>2, <3>3, <3>6, <4>5
        <4> QED BY <3>4, <3>6, <4>4, <4>5
      <3>7. CASE r # s BY <3>1, <3>2, <3>3, <3>4, <3>7
      <3> QED BY <3>6, <3>7
    <2> QED BY <2>5 DEF NoneInvented, Known
  <1>6. ASSUME NEW s \in Source, Enqueue(s) PROVE NoneInvented'
    <2>1. steps' = steps /\ reconnects' = reconnects /\ block_events' = block_events
      BY <1>6 DEF Enqueue, collectorVars
    <2>2. ASSUME NEW r \in Source, NEW n \in Nat, NEW kind
          PROVE  n + Count(channel, r, kind)' + Count(outbox[r], r, kind)' = Known(n, r, kind)
      <3>1. Known(n, r, kind)' = Known(n, r, kind) BY <1>1, <1>6, KnownStays
      <3> QED BY <3>1 DEF Known
    <2> QED BY <1>2, <1>3, <2>1, <2>2 DEF NoneInvented
  <1>7. CASE Process
    <2>1. steps' = steps BY <1>7 DEF Process
    <2>2. ASSUME NEW r \in Source
          PROVE  /\ reconnects'[r] + Count(channel, r, "connected")' + Count(outbox[r], r, "connected")'
                       <= Known(reconnects[r], r, "connected")
                 /\ block_events'[r] + Count(channel, r, "block")' + Count(outbox[r], r, "block")'
                       <= Known(block_events[r], r, "block")
      BY <1>1, <1>7, CountsLemma, KnownShrinks
    <2>3. ASSUME NEW r \in Source
          PROVE  /\ reconnects'[r] + Count(channel, r, "connected")' + Count(outbox[r], r, "connected")'
                       <= steps[r]
                 /\ block_events'[r] + Count(channel, r, "block")' + Count(outbox[r], r, "block")'
                       <= steps[r] * MaxBatch
      <3>1. /\ reconnects'[r] \in Nat /\ block_events'[r] \in Nat BY <1>1, <1>7, CountsLemma
      <3>2. channel' \in Seq(AnyEvent) /\ outbox'[r] \in Seq(AnyEvent)
        BY <1>1, <1>7, ProcessLemma DEF Takes, TypeOK
      <3>3. /\ Count(channel', r, "connected") \in Nat /\ Count(outbox'[r], r, "connected") \in Nat
            /\ Count(channel', r, "block") \in Nat /\ Count(outbox'[r], r, "block") \in Nat
        BY <3>2, PlacesFinite
      <3>4. /\ Count(channel, r, "connected")' = Count(channel', r, "connected")
            /\ Count(outbox[r], r, "connected")' = Count(outbox'[r], r, "connected")
            /\ Count(channel, r, "block")' = Count(channel', r, "block")
            /\ Count(outbox[r], r, "block")' = Count(outbox'[r], r, "block")
        BY DEF Count
      <3>5. Known(reconnects[r], r, "connected") \in Nat /\ Known(block_events[r], r, "block") \in Nat
        BY <1>1, <1>2, KnownType
      <3>6. steps[r] * MaxBatch \in Nat BY <1>2
      <3> QED BY <1>2, <1>3, <2>2, <3>1, <3>3, <3>4, <3>5, <3>6
    <2> QED BY <2>1, <2>3 DEF NoneInvented
  <1>8. CASE Clock BY <1>4, <1>8 DEF Clock, adapterVars, collectorVars
  <1>9. CASE LoopOnly BY <1>4, <1>9, LoopOnlyLemma DEF Untouched, adapterVars, collectorVars
  <1> QED BY <1>5, <1>6, <1>7, <1>8, <1>9, StepKinds

-----------------------------------------------------------------------------
(***************************************************************************)
(* The Collector inside the pipeline.                                      *)
(***************************************************************************)

\* The adapters' steps bound the blocks.
LEMMA StepsBound ==
  ASSUME TypeOK, NEW s \in Source
  PROVE  steps[s] * MaxBatch \in Nat /\ steps[s] * MaxBatch <= MaxEvents * MaxBatch
  <1> DEFINE n == steps[s]
             d == MaxEvents - n
  <1>1. n \in Nat /\ d \in Nat /\ MaxEvents = n + d /\ MaxBatch \in Nat
    BY BoundAssumption DEF TypeOK
  <1> HIDE DEF n, d
  <1>2. (n + d) * MaxBatch = n * MaxBatch + d * MaxBatch BY <1>1
  <1>3. n * MaxBatch \in Nat /\ d * MaxBatch \in Nat BY <1>1
  <1>4. n * MaxBatch <= MaxEvents * MaxBatch BY <1>1, <1>2, <1>3
  <1> QED BY <1>3, <1>4 DEF n

\* The event that is processed meets the guards of WindowsRun and BlocksRun.
LEMMA GuardsLemma ==
  ASSUME PipelineInv, WP!IInv, BP!IInv, Process
  PROVE  LET e == channel[1]
         IN  /\ e \in AnyEvent /\ Collect(e) /\ Heard(e)
             /\ newest_conn <= e.t + MaxLag /\ newest_block <= e.t + MaxLag
             /\ Conn(e) => stamp[e.source] <= e.t
             /\ e.kind = "connected" => reconnects[e.source] < MaxEvents
             /\ e.kind = "block" => block_events[e.source] < MaxEvents * MaxBatch
  <1> DEFINE e == channel[1]
             s == e.source
  <1>1. /\ TypeOK /\ WaitingRecent /\ ConnInOrder /\ NoneInvented /\ WP!TypeOK /\ BP!TypeOK
    BY DEF PipelineInv, WP!IInv, BP!IInv
  <1>2. /\ Head(channel) = e /\ e \in AnyEvent /\ e \in Waiting
        /\ channel \in Seq(AnyEvent) /\ channel # <<>>
    BY <1>1, ProcessLemma, Times DEF Takes
  <1>3. Collect(e) /\ Heard(e) BY <1>2 DEF Process, Recv
  <1>4. s \in Source /\ e.t \in Nat /\ now \in Nat BY <1>1, <1>2, Times
  <1>5. newest_conn <= e.t + MaxLag /\ newest_block <= e.t + MaxLag
    <2>1. /\ newest_conn \in Nat /\ newest_block \in Nat /\ MaxLag \in Nat
      BY <1>1, LagAssumption DEF WP!TypeOK, BP!TypeOK
    <2>2. newest_conn <= now /\ newest_block <= now /\ now <= e.t + MaxLag
      BY <1>1, <1>2 DEF WaitingRecent
    <2> QED BY <1>4, <2>1, <2>2
  <1>6. Conn(e) => stamp[s] <= e.t BY <1>1, <1>2 DEF ConnInOrder
  <1>7. ASSUME NEW kind, e.kind = kind
        PROVE  Count(channel, s, kind) \in Nat /\ Count(channel, s, kind) >= 1
               /\ Count(outbox[s], s, kind) \in Nat
    <2>1. Is(channel[1], s, kind) BY <1>7 DEF Is
    <2>2. Count(channel, s, kind) = Count(Tail(channel), s, kind) + 1
      BY <1>2, <2>1, CountTail
    <2>3. Tail(channel) \in Seq(AnyEvent) BY <1>2, TailLemma
    <2>4. Count(Tail(channel), s, kind) \in Nat BY <2>3, PlacesFinite
    <2>5. Count(outbox[s], s, kind) \in Nat BY <1>1, <1>4, KnownType
    <2> QED BY <2>2, <2>4, <2>5
  <1>8. steps[s] \in Nat /\ steps[s] <= MaxEvents /\ MaxEvents \in Nat /\ MaxBatch \in Nat
    BY <1>1, <1>4, BoundAssumption DEF TypeOK
  <1>9. reconnects[s] \in Nat /\ block_events[s] \in Nat
    BY <1>1, <1>4 DEF WP!TypeOK, BP!TypeOK
  <1>10. e.kind = "connected" => reconnects[s] < MaxEvents
    <2>1. reconnects[s] + Count(channel, s, "connected") + Count(outbox[s], s, "connected")
              <= steps[s]
      BY <1>1, <1>4 DEF NoneInvented
    <2> HIDE DEF s, e
    <2> QED BY <1>7, <1>8, <1>9, <2>1
  <1>11. e.kind = "block" => block_events[s] < MaxEvents * MaxBatch
    <2>1. block_events[s] + Count(channel, s, "block") + Count(outbox[s], s, "block")
              <= steps[s] * MaxBatch
      BY <1>1, <1>4 DEF NoneInvented
    <2>2. /\ steps[s] * MaxBatch \in Nat /\ steps[s] * MaxBatch <= MaxEvents * MaxBatch
          /\ MaxEvents * MaxBatch \in Nat
      BY <1>1, <1>4, <1>8, StepsBound
    <2> HIDE DEF s, e
    <2> QED BY <1>7, <1>9, <2>1, <2>2
  <1> QED BY <1>2, <1>3, <1>5, <1>6, <1>10, <1>11

BlockStep(e) ==
    /\ e.source \in Source /\ e.key \in Key /\ e.t \in Instant /\ e.kind = "block"
    /\ BP!Deliver(e.source, e.key, e.t)
    /\ UNCHANGED WP!vars

ConnStep(e) ==
    /\ e.source \in Source /\ e.t \in Instant /\ Conn(e)
    /\ WP!Connect(e.source, e.t) \/ WP!Disconnect(e.source, e.t)
    /\ UNCHANGED BP!vars

\* Receiving an event is a step of the block table or of the windows.
LEMMA CollectLemma ==
  ASSUME PipelineInv, WP!IInv, BP!IInv, Process
  PROVE  BlockStep(channel[1]) \/ ConnStep(channel[1])
  <1> DEFINE e == channel[1]
  <1>1. /\ e \in AnyEvent /\ Collect(e) /\ Heard(e)
        /\ newest_conn <= e.t + MaxLag /\ newest_block <= e.t + MaxLag
        /\ Conn(e) => stamp[e.source] <= e.t
        /\ e.kind = "connected" => reconnects[e.source] < MaxEvents
        /\ e.kind = "block" => block_events[e.source] < MaxEvents * MaxBatch
    BY GuardsLemma
  <1> HIDE DEF e
  <1>2. e \in ConnEvent \/ e \in BlockEvent BY <1>1 DEF AnyEvent
  <1>3. CASE e \in BlockEvent
    <2>1. e.source \in Source /\ e.key \in Key /\ e.t \in Instant /\ e.kind = "block"
      BY <1>3 DEF BlockEvent
    <2>2. /\ Blk!OnBlock(e.source, e.key, e.t)
          /\ UNCHANGED <<connected, ever_connected, reconnects, all_up>>
          /\ newest_block' = Later(newest_block, e.t)
          /\ UNCHANGED <<stamp, newest_conn, since, past>>
      BY <1>1, <2>1 DEF Collect, Heard
    <2>3. BP!OnBlock(e.source, e.key, e.t)
      BY <2>2
      DEF Blk!OnBlock, Blk!Entry, Blk!Record, Blk!LastArrival, Blk!Arrived, Blk!BlockLine, Blk!Put,
          BP!OnBlock, BP!Entry, BP!Record, BP!LastArrival, BP!Arrived, BP!BlockLine, BP!Put
    <2>4. BP!Deliver(e.source, e.key, e.t)
      BY <1>1, <2>1, <2>2, <2>3 DEF BP!Deliver, Later
    <2>5. UNCHANGED WP!vars BY <2>2 DEF WP!vars, WP!windowVars, WP!history
    <2> QED BY <2>1, <2>4, <2>5 DEF BlockStep, e
  <1>4. CASE e \in ConnEvent
    <2>1. e.source \in Source /\ e.t \in Instant /\ e.kind \in {"connected", "disconnected"}
          /\ e.kind # "block" /\ Conn(e)
      BY <1>4 DEF ConnEvent, Conn
    <2>2. CASE e.kind = "connected"
      <3>1. /\ Win!OnConnected(e.source, e.t)
            /\ UNCHANGED <<blocks, block_events, lines>>
            /\ stamp'       = [stamp EXCEPT ![e.source] = e.t]
            /\ newest_conn' = Later(newest_conn, e.t)
            /\ since'       = [since EXCEPT ![e.source] = IF connected[e.source] THEN @ ELSE e.t]
            /\ UNCHANGED <<past, newest_block>>
        BY <1>1, <2>1, <2>2 DEF Collect, Heard
      <3>2. WP!OnConnected(e.source, e.t)
        BY <3>1 DEF Win!OnConnected, Win!IntervalOpen, Win!Last, Win!windowVars,
                    WP!OnConnected, WP!IntervalOpen, WP!Last, WP!windowVars
      <3>3. WP!Connect(e.source, e.t)
        BY <1>1, <2>1, <2>2, <3>1, <3>2 DEF WP!Connect, WP!Processed, WP!Later, Later
      <3>4. UNCHANGED BP!vars BY <3>1 DEF BP!vars, BP!blockVars
      <3> QED BY <2>1, <3>3, <3>4 DEF ConnStep, e
    <2>3. CASE e.kind = "disconnected"
      <3>1. /\ Win!OnDisconnected(e.source, e.t)
            /\ UNCHANGED <<blocks, block_events, lines>>
            /\ stamp'       = [stamp EXCEPT ![e.source] = e.t]
            /\ newest_conn' = Later(newest_conn, e.t)
            /\ since'       = [since EXCEPT ![e.source] = NoInstant]
            /\ past'        = IF connected[e.source]
                              THEN [past EXCEPT ![e.source] =
                                      @ \cup {[from |-> since[e.source], to |-> e.t]}]
                              ELSE past
            /\ newest_block' = newest_block
        BY <1>1, <2>1, <2>3 DEF Collect, Heard
      <3>2. WP!OnDisconnected(e.source, e.t)
        BY <3>1 DEF Win!OnDisconnected, Win!IntervalOpen, Win!Last, Win!windowVars,
                    WP!OnDisconnected, WP!IntervalOpen, WP!Last, WP!windowVars
      <3>3. WP!Disconnect(e.source, e.t)
        BY <1>1, <2>1, <3>1, <3>2 DEF WP!Disconnect, WP!Processed, WP!Later, Later
      <3>4. UNCHANGED BP!vars BY <3>1 DEF BP!vars, BP!blockVars
      <3> QED BY <2>1, <3>3, <3>4 DEF ConnStep, e
    <2> QED BY <2>1, <2>2, <2>3
  <1> QED BY <1>2, <1>3, <1>4

\* A step that is not receiving leaves the Collector alone.
LEMMA CollectorKept ==
  ASSUME [Next]_vars, ~Process
  PROVE  UNCHANGED <<collectorVars, history>>
  <1>1. CASE Clock BY <1>1 DEF Clock
  <1>2. ASSUME NEW s \in Source, Adapter(s) \/ Enqueue(s)
        PROVE  UNCHANGED <<collectorVars, history>>
    BY <1>2 DEF Adapter, Enqueue
  <1>3. CASE LoopOnly BY <1>3, LoopOnlyLemma DEF Untouched
  <1> QED BY <1>1, <1>2, <1>3, StepKinds

\* Every step of the pipeline is a step of WindowsRun and one of BlocksRun.
LEMMA CollectorStep ==
  ASSUME PipelineInv, WP!IInv, BP!IInv, [Next]_vars
  PROVE  [WP!Next]_WP!vars /\ [BP!Next]_BP!vars
  <1>1. CASE Process
    <2>1. CASE BlockStep(channel[1]) BY <2>1 DEF BlockStep, BP!Next
    <2>2. CASE ConnStep(channel[1]) BY <2>2 DEF ConnStep, WP!Next
    <2> QED BY <1>1, <2>1, <2>2, CollectLemma
  <1>2. CASE ~Process
    BY <1>2, CollectorKept DEF collectorVars, history, WP!vars, WP!windowVars, WP!history,
       BP!vars, BP!blockVars
  <1> QED BY <1>1, <1>2

-----------------------------------------------------------------------------
(***************************************************************************)
(* The invariant of the pipeline.                                          *)
(***************************************************************************)

\* It holds at first ...
LEMMA PipelineInit == Init => PipelineInv /\ WP!Init /\ BP!Init
  <1> SUFFICES ASSUME Init PROVE PipelineInv /\ WP!Init /\ BP!Init OBVIOUS
  <1> USE DEF Init, FeedInit
  <1>1. WP!Init /\ BP!Init
    BY DEF Win!WindowsInit, Blk!BlocksInit, WP!Init, WP!WindowsInit, BP!Init, BP!BlocksInit
  <1>2. WRun!IInv /\ BRun!IInv
    BY <1>1, WP!InitLemma, BP!InitLemma, WindowsConstants, BlocksConstants,
       SameWindowsInv, SameBlocksInv
  <1>3. TypeOK
    <2>1. /\ now \in 0 .. MaxInstant /\ last_read \in [Nitro -> 0 .. now]
          /\ next_tick \in Nat /\ last_summary \in Nat
          /\ steps \in [Source -> 0 .. MaxEvents]
      BY BoundAssumption, IntervalAssumption
    <2>2. /\ outbox \in [Source -> Seq(AnyEvent)] /\ channel \in Seq(AnyEvent)
          /\ block_intervals \in Seq(Summary)
      OBVIOUS
    <2>3. /\ link \in [Source -> {"down", "open", "up"}] /\ pc \in {"top", "parked", "done"}
          /\ seen_blocks \in [Eira -> SUBSET Key]
          /\ sent \in [Source -> [Key -> Instant \cup {NoInstant}]]
          /\ armed \in BOOLEAN /\ fired \in BOOLEAN /\ signalled \in BOOLEAN
          /\ interrupted \in BOOLEAN /\ matched \subseteq Key
      OBVIOUS
    <2> QED BY <2>1, <2>2, <2>3 DEF TypeOK
  <1>4. BatchesUniform BY DEF BatchesUniform
  <1>5. Waiting = {} BY DEF Waiting
  <1>6. WaitingRecent BY <1>5 DEF WaitingRecent
  <1>7. ConnInOrder BY <1>5 DEF ConnInOrder
  <1>8. NoneInvented
    <2>1. \A s \in Source : reconnects[s] = 0 /\ block_events[s] = 0 /\ steps[s] = 0
                            /\ outbox[s] = <<>> /\ channel = <<>>
      BY DEF Win!WindowsInit, Blk!BlocksInit
    <2>2. MaxBatch \in Nat BY BoundAssumption
    <2> QED BY <2>1, <2>2, CountEmpty DEF NoneInvented
  <1> QED BY <1>1, <1>2, <1>3, <1>4, <1>6, <1>7, <1>8 DEF PipelineInv

\* ... and every step keeps it.
LEMMA PipelineStep == PipelineInv /\ [Next]_vars => PipelineInv'
  <1> SUFFICES ASSUME PipelineInv, [Next]_vars PROVE PipelineInv' OBVIOUS
  <1>1. WP!IInv /\ BP!IInv BY SameWindowsInv, SameBlocksInv DEF PipelineInv
  <1>2. TypeOK /\ BatchesUniform BY DEF PipelineInv
  <1>3. TypeOK' BY <1>1, <1>2, TypeStep
  <1>4. BatchesUniform' BY <1>2, BatchesStep
  <1>5. WaitingRecent' BY <1>1, RecentStep
  <1>6. ConnInOrder' BY <1>1, OrderStep
  <1>7. NoneInvented' BY <1>1, InventedStep
  <1>8. WP!IInv'
    BY <1>1, CollectorStep, WP!StepInvariant, WindowsConstants
  <1>9. BP!IInv'
    BY <1>1, CollectorStep, BP!StepInvariant, BlocksConstants
  <1>10. (WRun!IInv <=> WP!IInv)' BY SameWindowsInv, PTL
  <1>11. (BRun!IInv <=> BP!IInv)' BY SameBlocksInv, PTL
  <1> QED BY <1>3, <1>4, <1>5, <1>6, <1>7, <1>8, <1>9, <1>10, <1>11 DEF PipelineInv

\* The events between the adapters and the Collector keep their order, their
\* origin and their lag, whatever the tasks and the loop do.
THEOREM Pipeline == Spec => []PipelineInv
  <1>1. Init => PipelineInv BY PipelineInit
  <1> QED BY <1>1, PipelineStep, PTL DEF Spec

\* Type correctness of the pipeline.
THEOREM TypeCorrect == Spec => []TypeOK
  <1>1. PipelineInv => TypeOK BY DEF PipelineInv
  <1> QED BY <1>1, Pipeline, PTL

\* The Collector meets connections only in the orders that WindowsRun assumes
\* (main.rs:190, stats.rs:180).
THEOREM WindowsInside == Spec => RefinesWindows
  <1>1. Init => WRun!Init BY PipelineInit, SameWindowsSpec
  <1>2. PipelineInv /\ [Next]_vars => [WRun!Next]_WRun!vars
    <2> SUFFICES ASSUME PipelineInv, [Next]_vars PROVE [WRun!Next]_WRun!vars OBVIOUS
    <2>1. WP!IInv /\ BP!IInv BY SameWindowsInv, SameBlocksInv DEF PipelineInv
    <2> QED BY <2>1, CollectorStep, SameWindowsSpec
  <1> QED BY <1>1, <1>2, Pipeline, PTL DEF Spec, RefinesWindows, WRun!Spec

\* The Collector meets blocks only in the orders that BlocksRun assumes.
THEOREM BlocksInside == Spec => RefinesBlocks
  <1>1. Init => BRun!Init BY PipelineInit, SameBlocksSpec
  <1>2. PipelineInv /\ [Next]_vars => [BRun!Next]_BRun!vars
    <2> SUFFICES ASSUME PipelineInv, [Next]_vars PROVE [BRun!Next]_BRun!vars OBVIOUS
    <2>1. WP!IInv /\ BP!IInv BY SameWindowsInv, SameBlocksInv DEF PipelineInv
    <2> QED BY <2>1, CollectorStep, SameBlocksSpec
  <1> QED BY <1>1, <1>2, Pipeline, PTL DEF Spec, RefinesBlocks, BRun!Spec

\* The pipeline implements the race: whatever the adapters, the channel and the
\* main loop do, every block is delivered, won and announced as in BlockRace.
THEOREM RaceInside == Spec => BP!RefinesRace
  <1>1. BP!Spec => BP!RefinesRace BY BlocksConstants, BP!TableImplementsRace
  <1> QED BY <1>1, BlocksInside, SameBlocksSpec, PTL DEF RefinesBlocks, BRun!Spec, BP!Spec

\* What is said of the measurement window by itself is true of it in the
\* pipeline: an interval is open iff all sources are connected, and an instant in
\* the window, and no other, was covered by a warm session of every source, up to
\* MaxLag; the verdict on an instant that is older than that is final, and two
\* intervals overlap by no more.
THEOREM WindowInside ==
  Spec => /\ [](/\ WP!OpenIffAllConnected
                /\ WP!InWindowSound
                /\ WP!InWindowComplete
                /\ WP!IntervalsOrdered)
          /\ WP!WindowSettles
  <1>1. WP!Spec => []WP!OpenIffAllConnected BY WindowsConstants, WP!OpenIntervalCorrect
  <1>2. WP!Spec => []WP!InWindowSound BY WindowsConstants, WP!WindowSound
  <1>3. WP!Spec => []WP!InWindowComplete BY WindowsConstants, WP!WindowComplete
  <1>4. WP!Spec => []WP!IntervalsOrdered BY WindowsConstants, WP!OverlapBounded
  <1>5. WP!Spec => WP!WindowSettles BY WindowsConstants, WP!VerdictFinal
  <1> QED BY <1>1, <1>2, <1>3, <1>4, <1>5, WindowsInside, SameWindowsSpec, PTL
          DEF RefinesWindows, WRun!Spec, WP!Spec

\* What is said of the block table by itself is true of it in the pipeline: the
\* winner, the completion, its stamp and the printed lines are right, and no
\* event changes what was found out.
THEOREM TableInside ==
  Spec => /\ [](/\ BP!FirstIsEarliest
                /\ BP!CompleteByCount
                /\ BP!CompletionTimely
                /\ BP!OneLinePerBlock
                /\ BP!LineNearlyRight)
          /\ BP!NothingRewritten
  <1>1. BP!Spec => []BP!FirstIsEarliest BY BlocksConstants, BP!WinnerCorrect
  <1>2. BP!Spec => []BP!CompleteByCount BY BlocksConstants, BP!CompletionCorrect
  <1>3. BP!Spec => []BP!CompletionTimely BY BlocksConstants, BP!CompletionStampCorrect
  <1>4. BP!Spec => []BP!OneLinePerBlock BY BlocksConstants, BP!LinesCorrect
  <1>5. BP!Spec => []BP!LineNearlyRight BY BlocksConstants, BP!PrintedWinnerNearlyRight
  <1>6. BP!Spec => BP!NothingRewritten BY BlocksConstants, BP!RecordsPermanent
  <1> QED BY <1>1, <1>2, <1>3, <1>4, <1>5, <1>6, BlocksInside, SameBlocksSpec, PTL
          DEF RefinesBlocks, BRun!Spec, BP!Spec

-----------------------------------------------------------------------------
(***************************************************************************)
(* What a step does to the summaries and to the blocks they count.         *)
(***************************************************************************)

\* The types of what the summaries are made of.
LEMMA SummaryTypes ==
  ASSUME PipelineInv
  PROVE  /\ TypeOK /\ WP!IInv /\ BP!IInv /\ WaitingRecent
         /\ now \in Nat /\ last_summary \in Nat /\ MaxLag \in Nat
         /\ block_intervals \in Seq(Summary)
         /\ \A i \in DOMAIN block_intervals :
               block_intervals[i].since \in Nat /\ block_intervals[i].until \in Nat
         /\ \A k \in DOMAIN blocks :
               /\ k \in Key /\ blocks[k].first \in Instant /\ blocks[k].first \in Nat
               /\ blocks[k].completed_at \in Instant \cup {NoInstant}
  <1>1. TypeOK /\ WP!IInv /\ BP!IInv /\ WaitingRecent
    BY SameWindowsInv, SameBlocksInv DEF PipelineInv
  <1>2. now \in Nat /\ MaxLag \in Nat BY <1>1, Times, LagAssumption
  <1>3. last_summary \in Nat /\ block_intervals \in Seq(Summary) BY <1>1 DEF TypeOK
  <1>4. ASSUME NEW i \in DOMAIN block_intervals
        PROVE  block_intervals[i].since \in Nat /\ block_intervals[i].until \in Nat
    <2>1. block_intervals[i] \in Summary BY <1>3
    <2> QED BY <2>1 DEF Summary
  <1>5. ASSUME NEW k \in DOMAIN blocks
        PROVE  /\ k \in Key /\ blocks[k].first \in Instant
               /\ blocks[k].completed_at \in Instant \cup {NoInstant}
    <2>1. k \in Key /\ blocks[k] \in BP!BlockRec BY <1>1 DEF BP!IInv, BP!TypeOK
    <2> QED BY <2>1 DEF BP!BlockRec
  <1> QED BY <1>1, <1>2, <1>3, <1>4, <1>5, InstantAssumption

FirstsOrdered ==
    \A k \in DOMAIN blocks : blocks[k].completed_at # NoInstant =>
        /\ blocks[k].first \in Nat /\ blocks[k].completed_at \in Nat
        /\ blocks[k].first <= blocks[k].completed_at
        /\ blocks[k].completed_at <= now

\* A block is complete no earlier than its first arrival.
LEMMA FirstLemma == PipelineInv => FirstsOrdered
  <1> SUFFICES ASSUME PipelineInv, NEW k \in DOMAIN blocks, blocks[k].completed_at # NoInstant
               PROVE  /\ blocks[k].first \in Nat /\ blocks[k].completed_at \in Nat
                      /\ blocks[k].first <= blocks[k].completed_at
                      /\ blocks[k].completed_at <= now
    BY DEF FirstsOrdered
  <1>1. BP!IInv /\ WaitingRecent /\ now \in Nat BY SummaryTypes
  <1>2. /\ blocks[k].first \in Nat /\ blocks[k].completed_at \in Nat
        /\ blocks[k].first <= blocks[k].completed_at
    BY <1>1, BP!FirstBeforeCompletion, BlocksConstants
  <1>3. blocks[k].completed_at <= newest_block /\ newest_block \in Nat
    BY <1>1 DEF BP!IInv, BP!NothingFromLater, BP!TypeOK
  <1>4. newest_block <= now BY <1>1 DEF WaitingRecent
  <1> QED BY <1>1, <1>2, <1>3, <1>4

SummariesKept == UNCHANGED <<now, last_summary, block_intervals, matched>>

\* A Block event ...
BlockArrives(e) ==
    /\ e.kind = "block" /\ e.source \in Source /\ e.key \in Key
    /\ e.t \in Nat /\ now <= e.t + MaxLag
    /\ BP!DeliveryLeaves(e.source, e.key, e.t)
    /\ all_up' = all_up

\* ... or a connection event, which settles no instant before its stamp.
ConnArrives(e) ==
    /\ Conn(e)
    /\ e.t \in Nat /\ now <= e.t + MaxLag
    /\ blocks' = blocks
    /\ \A x \in Instant : x < e.t => (Win!in_window(x)' <=> Win!in_window(x))

\* Receiving an event.
LEMMA ReceiveLemma ==
  ASSUME PipelineInv, Process
  PROVE  /\ SummariesKept /\ pc # "done" /\ pc' # "done"
         /\ BlockArrives(channel[1]) \/ ConnArrives(channel[1])
  <1> DEFINE e == channel[1]
  <1>1. TypeOK /\ WP!IInv /\ BP!IInv /\ WaitingRecent BY SummaryTypes
  <1>2. e \in Waiting BY <1>1, ProcessLemma, Times DEF Takes
  <1>3. e.t \in Nat /\ now <= e.t + MaxLag BY <1>1, <1>2, Times DEF WaitingRecent
  <1>4. SummariesKept /\ pc # "done" /\ pc' # "done"
    BY DEF Process, Recv, Turn, SummariesKept
  <1>5. BlockStep(e) \/ ConnStep(e) BY <1>1, CollectLemma
  <1> HIDE DEF e
  <1>6. CASE BlockStep(e)
    <2>1. BP!DeliveryLeaves(e.source, e.key, e.t)
      BY <1>1, <1>6, BP!DeliverLemma, BlocksConstants DEF BlockStep
    <2>2. all_up' = all_up BY <1>6 DEF BlockStep, WP!vars, WP!windowVars
    <2> QED BY <1>3, <1>4, <1>6, <2>1, <2>2 DEF BlockArrives, BlockStep, e
  <1>7. CASE ConnStep(e)
    <2>1. blocks' = blocks BY <1>7 DEF ConnStep, BP!vars, BP!blockVars
    <2>2. ASSUME NEW x \in Instant, x < e.t
          PROVE  Win!in_window(x)' <=> Win!in_window(x)
      <3>1. WP!in_window(x)' <=> WP!in_window(x)
        BY <1>1, <1>7, <2>2, WP!SettledLemma, WindowsConstants DEF ConnStep
      <3> QED BY <3>1 DEF WP!in_window, Win!in_window
    <2> QED BY <1>3, <1>4, <1>7, <2>1, <2>2 DEF ConnArrives, ConnStep, e
  <1> QED BY <1>5, <1>6, <1>7

CountsKept == UNCHANGED <<last_summary, block_intervals, blocks, all_up>>

\* The tick appends a summary.
Ticks ==
    LET n == Len(block_intervals) + 1
    IN  /\ UNCHANGED <<now, blocks, all_up, matched>>
        /\ pc' # "done"
        /\ last_summary' = now
        /\ n \in Nat \ {0} /\ DOMAIN block_intervals = 1 .. n - 1
        /\ DOMAIN block_intervals' = 1 .. n
        /\ \A i \in 1 .. n - 1 : block_intervals'[i] = block_intervals[i]
        /\ block_intervals'[n].since = last_summary
        /\ block_intervals'[n].until = now
        /\ block_intervals'[n].counted = Counted(last_summary, now)

\* What the rolling summary does.
LEMMA TickLemma == ASSUME TypeOK, Other(Tick) PROVE Ticks
  <1> DEFINE entry == [since |-> last_summary, until |-> now, counted |-> Counted(last_summary, now)]
  <1>1. /\ UNCHANGED <<now, blocks, all_up, matched>> /\ pc' = "top" /\ last_summary' = now
        /\ block_intervals' = Append(block_intervals, entry)
    BY DEF Other, Tick, Turn, collectorVars
  <1>2. /\ entry.since = last_summary /\ entry.until = now
        /\ entry.counted = Counted(last_summary, now)
    OBVIOUS
  <1>3. block_intervals \in Seq(Summary) BY DEF TypeOK
  <1>4. Len(block_intervals) \in Nat /\ DOMAIN block_intervals = 1 .. Len(block_intervals)
    BY <1>3
  <1> HIDE DEF entry
  <1>5. /\ DOMAIN block_intervals' = 1 .. Len(block_intervals) + 1
        /\ \A i \in 1 .. Len(block_intervals) : block_intervals'[i] = block_intervals[i]
        /\ block_intervals'[Len(block_intervals) + 1] = entry
    BY <1>1, <1>3, <1>4
  <1> QED BY <1>1, <1>2, <1>4, <1>5 DEF Ticks

\* The end of the run.
Ends ==
    /\ CountsKept /\ UNCHANGED now
    /\ matched' = {k \in DOMAIN blocks : /\ blocks[k].completed_at # NoInstant
                                         /\ blocks[k].completed_at <= now
                                         /\ Win!in_window(blocks[k].first)}

\* A step of anything else.
Rests ==
    /\ CountsKept /\ UNCHANGED matched
    /\ now' \in Nat /\ now <= now'
    /\ pc' = "done" => pc = "done"

\* The steps, by what they do to the summaries.
LEMMA SummaryKinds ==
  ASSUME PipelineInv, [Next]_vars
  PROVE  Process \/ Ticks \/ Ends \/ Rests
  <1>1. TypeOK /\ now \in Nat BY SummaryTypes
  <1>2. CASE Clock BY <1>1, <1>2 DEF Clock, Rests, CountsKept, collectorVars, loopVars
  <1>3. ASSUME NEW s \in Source, Adapter(s) \/ Enqueue(s) PROVE Rests
    BY <1>1, <1>3 DEF Adapter, Enqueue, Rests, CountsKept, collectorVars, loopVars
  <1>4. CASE Other(Tick) BY <1>1, <1>4, TickLemma
  <1>5. CASE Other(Stop) \/ Other(CtrlC)
    BY <1>5 DEF Other, Stop, CtrlC, Finish, Ends, CountsKept, collectorVars
  <1>6. CASE Other(Wait) \/ Other(Interrupt)
    BY <1>1, <1>6 DEF Other, Wait, Park, Interrupt, Sigint, Rests, CountsKept, collectorVars
  <1>7. CASE UNCHANGED vars
    BY <1>1, <1>7 DEF vars, feedVars, Rests, CountsKept, collectorVars, loopVars
  <1> QED BY <1>2, <1>3, <1>4, <1>5, <1>6, <1>7, StepKinds DEF LoopOnly

-----------------------------------------------------------------------------
(***************************************************************************)
(* The invariants of the summaries.                                        *)
(***************************************************************************)

\* The intervals follow each other.
LEMMA ChainStep ==
  ASSUME PipelineInv, SummaryInv, [Next]_vars
  PROVE  SummariesChain'
  <1> USE DEF SummariesChain
  <1>1. SummariesChain BY DEF SummaryInv
  <1>2. /\ now \in Nat /\ last_summary \in Nat
        /\ \A i \in DOMAIN block_intervals :
               block_intervals[i].since \in Nat /\ block_intervals[i].until \in Nat
    BY SummaryTypes
  <1>3. CASE UNCHANGED <<last_summary, block_intervals>> /\ now' \in Nat /\ now <= now'
    BY <1>1, <1>2, <1>3
  <1>4. CASE Process
    <2>1. UNCHANGED <<now, last_summary, block_intervals>>
      BY <1>4, ReceiveLemma DEF SummariesKept
    <2> QED BY <1>2, <1>3, <2>1
  <1>5. CASE Ticks
    <2> DEFINE n == Len(block_intervals) + 1
    <2>1. /\ now' = now /\ last_summary' = now
          /\ n \in Nat \ {0} /\ DOMAIN block_intervals = 1 .. n - 1
          /\ DOMAIN block_intervals' = 1 .. n
          /\ \A i \in 1 .. n - 1 : block_intervals'[i] = block_intervals[i]
          /\ block_intervals'[n].since = last_summary
          /\ block_intervals'[n].until = now
      BY <1>5 DEF Ticks
    <2> HIDE DEF n
    <2>2. \A i \in DOMAIN block_intervals' : i \in DOMAIN block_intervals \/ i = n
      BY <2>1
    <2>3. ASSUME NEW i \in DOMAIN block_intervals' PROVE block_intervals'[i].until <= last_summary'
      BY <1>1, <1>2, <2>1, <2>2
    <2>4. ASSUME NEW i \in DOMAIN block_intervals', NEW j \in DOMAIN block_intervals', i < j
          PROVE  block_intervals'[i].until <= block_intervals'[j].since
      <3>1. i \in DOMAIN block_intervals BY <2>1, <2>4
      <3> QED BY <1>1, <2>1, <2>2, <2>4, <3>1
    <2>5. ASSUME NEW x \in 1 .. last_summary'
          PROVE  \E i \in DOMAIN block_intervals' :
                     block_intervals'[i].since < x /\ x <= block_intervals'[i].until
      <3>1. CASE x <= last_summary
        <4>1. x \in 1 .. last_summary BY <1>2, <2>1, <3>1
        <4>2. PICK i \in DOMAIN block_intervals :
                  block_intervals[i].since < x /\ x <= block_intervals[i].until
          BY <1>1, <4>1
        <4> QED BY <2>1, <4>2
      <3>2. CASE last_summary < x
        <4>1. n \in DOMAIN block_intervals' BY <1>1, <1>2, <2>1
        <4> QED BY <1>2, <2>1, <3>2, <4>1
      <3> QED BY <1>2, <2>1, <3>1, <3>2
    <2>6. last_summary' <= now' BY <1>2, <2>1
    <2> QED BY <2>3, <2>4, <2>5, <2>6
  <1>6. CASE Ends
    <2>1. UNCHANGED <<now, last_summary, block_intervals>> BY <1>6 DEF Ends, CountsKept
    <2> QED BY <1>2, <1>3, <2>1
  <1>7. CASE Rests BY <1>2, <1>3, <1>7 DEF Rests, CountsKept
  <1> QED BY <1>4, <1>5, <1>6, <1>7, SummaryKinds

\* What a summary has counted stays completed in its interval.
LEMMA InIntervalStep ==
  ASSUME PipelineInv, SummaryInv, [Next]_vars
  PROVE  CountedInInterval'
  <1> USE DEF CountedInInterval, CompletedIn
  <1>1. CountedInInterval BY DEF SummaryInv
  <1>2. now \in Nat /\ last_summary \in Nat BY SummaryTypes
  <1>3. CASE CountsKept BY <1>1, <1>3 DEF CountsKept
  <1>4. CASE Process
    <2>1. UNCHANGED block_intervals BY <1>4, ReceiveLemma DEF SummariesKept
    <2>2. \A k \in DOMAIN blocks : /\ k \in DOMAIN blocks'
                                   /\ blocks[k].completed_at # NoInstant =>
                                          blocks'[k].completed_at = blocks[k].completed_at
      <3>1. CASE BlockArrives(channel[1])
        BY <3>1 DEF BlockArrives, BP!DeliveryLeaves
      <3>2. CASE ConnArrives(channel[1]) BY <3>2 DEF ConnArrives
      <3> QED BY <1>4, <3>1, <3>2, ReceiveLemma
    <2> QED BY <1>1, <2>1, <2>2
  <1>5. CASE Ticks
    <2> DEFINE n == Len(block_intervals) + 1
    <2>1. /\ blocks' = blocks
          /\ DOMAIN block_intervals = 1 .. n - 1 /\ n \in Nat
          /\ DOMAIN block_intervals' = 1 .. n
          /\ \A i \in 1 .. n - 1 : block_intervals'[i] = block_intervals[i]
          /\ block_intervals'[n].since = last_summary
          /\ block_intervals'[n].until = now
          /\ block_intervals'[n].counted = Counted(last_summary, now)
      BY <1>5 DEF Ticks
    <2> HIDE DEF n
    <2>2. \A i \in DOMAIN block_intervals' : i \in DOMAIN block_intervals \/ i = n
      BY <2>1
    <2>3. \A k \in Counted(last_summary, now) :
              /\ k \in DOMAIN blocks /\ blocks[k].completed_at # NoInstant
              /\ last_summary < blocks[k].completed_at /\ blocks[k].completed_at <= now
      <3> SUFFICES ASSUME NEW k \in Counted(last_summary, now)
                   PROVE  /\ k \in DOMAIN blocks /\ blocks[k].completed_at # NoInstant
                          /\ last_summary < blocks[k].completed_at
                          /\ blocks[k].completed_at <= now
        OBVIOUS
      <3>1. /\ k \in DOMAIN blocks /\ blocks[k].completed_at # NoInstant
            /\ blocks[k].completed_at > last_summary /\ blocks[k].completed_at <= now
        BY DEF Counted
      <3>2. blocks[k].completed_at \in Nat BY <3>1, FirstLemma DEF FirstsOrdered
      <3> QED BY <1>2, <3>1, <3>2
    <2> QED BY <1>1, <2>1, <2>2, <2>3
  <1>6. CASE Ends BY <1>3, <1>6 DEF Ends
  <1>7. CASE Rests BY <1>3, <1>7 DEF Rests
  <1> QED BY <1>4, <1>5, <1>6, <1>7, SummaryKinds

\* What enters an interval after its summary, or enters the window after it,
\* completed with the lag of an event at most before the end of the interval.
LEMMA MissedStep ==
  ASSUME PipelineInv, PipelineInv', SummaryInv, [Next]_vars
  PROVE  MissedIsLate'
  <1>1. MissedIsLate /\ SummariesChain BY DEF SummaryInv
  <1>2. now \in Nat /\ last_summary \in Nat /\ MaxLag \in Nat BY SummaryTypes
  <1>3. CASE CountsKept
    BY <1>1, <1>3 DEF CountsKept, MissedIsLate, CompletedIn, Win!in_window
  <1>4. CASE Process
    <2> DEFINE e == channel[1]
    <2>1. /\ UNCHANGED <<now, last_summary, block_intervals>>
          /\ BlockArrives(e) \/ ConnArrives(e)
      BY <1>4, ReceiveLemma DEF SummariesKept
    <2>2. e.t \in Nat /\ now <= e.t + MaxLag BY <2>1 DEF BlockArrives, ConnArrives
    <2> HIDE DEF e
    <2> SUFFICES ASSUME NEW i \in DOMAIN block_intervals', NEW k \in DOMAIN blocks',
                        CompletedIn(k, block_intervals[i])', k \notin block_intervals'[i].counted,
                        Win!in_window(blocks[k].first)'
                 PROVE  block_intervals'[i].until <= blocks'[k].completed_at + MaxLag
      BY DEF MissedIsLate
    <2>3. /\ blocks'[k].completed_at # NoInstant
          /\ block_intervals[i].since < blocks'[k].completed_at
          /\ blocks'[k].completed_at <= block_intervals[i].until
          /\ i \in DOMAIN block_intervals
      BY <2>1 DEF CompletedIn
    <2>4. /\ blocks'[k].first \in Nat /\ blocks'[k].completed_at \in Nat
          /\ blocks'[k].first <= blocks'[k].completed_at
      <3>1. (PipelineInv => FirstsOrdered)' BY FirstLemma, PTL
      <3> QED BY <2>3, <3>1 DEF FirstsOrdered
    <2>5. block_intervals[i].until \in Nat /\ block_intervals[i].until <= now
      BY <1>1, <1>2, <2>3, SummaryTypes DEF SummariesChain
    <2>6. CASE e.t <= blocks'[k].completed_at
      BY <1>2, <2>1, <2>2, <2>4, <2>5, <2>6
    <2>7. CASE blocks'[k].completed_at < e.t
      <3>1. k \in DOMAIN blocks /\ blocks'[k].first = blocks[k].first
            /\ blocks'[k].completed_at = blocks[k].completed_at
        <4>1. CASE BlockArrives(e)
          <5>1. BP!DeliveryLeaves(e.source, e.key, e.t) BY <4>1 DEF BlockArrives
          <5>2. blocks'[k].first < e.t BY <2>2, <2>4, <2>7
          <5>3. k \in DOMAIN blocks
            BY <2>2, <2>3, <2>4, <2>7, <5>1 DEF BP!DeliveryLeaves
          <5>4. blocks'[k].first = blocks[k].first
            BY <2>2, <2>4, <5>1, <5>2, <5>3 DEF BP!DeliveryLeaves
          <5>5. blocks'[k].completed_at = blocks[k].completed_at
            BY <2>2, <2>3, <2>4, <2>7, <5>1, <5>3 DEF BP!DeliveryLeaves
          <5> QED BY <5>3, <5>4, <5>5
        <4>2. CASE ConnArrives(e) BY <4>2 DEF ConnArrives
        <4> QED BY <2>1, <4>1, <4>2
      <3>2. Win!in_window(blocks[k].first)
        <4>1. CASE BlockArrives(e)
          BY <3>1, <4>1 DEF BlockArrives, Win!in_window
        <4>2. CASE ConnArrives(e)
          <5>1. blocks[k].first \in Instant /\ blocks[k].first < e.t
            BY <2>2, <2>4, <2>7, <3>1, SummaryTypes
          <5> DEFINE x == blocks[k].first
          <5>2. x \in Instant /\ x < e.t BY <5>1
          <5>3. blocks' = blocks BY <4>2 DEF ConnArrives
          <5> QED BY <4>2, <5>2, <5>3 DEF ConnArrives, Win!in_window
        <4> QED BY <2>1, <4>1, <4>2
      <3>3. CompletedIn(k, block_intervals[i]) BY <2>3, <3>1 DEF CompletedIn
      <3> QED BY <1>1, <2>1, <2>3, <3>1, <3>2, <3>3 DEF MissedIsLate
    <2> QED BY <2>2, <2>4, <2>6, <2>7
  <1>5. CASE Ticks
    <2> DEFINE n == Len(block_intervals) + 1
    <2>1. /\ blocks' = blocks /\ all_up' = all_up
          /\ DOMAIN block_intervals = 1 .. n - 1 /\ n \in Nat
          /\ DOMAIN block_intervals' = 1 .. n
          /\ \A i \in 1 .. n - 1 : block_intervals'[i] = block_intervals[i]
          /\ block_intervals'[n].since = last_summary
          /\ block_intervals'[n].until = now
          /\ block_intervals'[n].counted = Counted(last_summary, now)
      BY <1>5 DEF Ticks
    <2> HIDE DEF n
    <2>2. \A i \in DOMAIN block_intervals' : i \in DOMAIN block_intervals \/ i = n
      BY <2>1
    <2>3. ASSUME NEW k \in DOMAIN blocks, blocks[k].completed_at # NoInstant,
                 last_summary < blocks[k].completed_at, blocks[k].completed_at <= now,
                 Win!in_window(blocks[k].first)
          PROVE  k \in Counted(last_summary, now)
      <3>1. blocks[k].completed_at \in Nat BY <2>3, FirstLemma DEF FirstsOrdered
      <3>2. blocks[k].completed_at > last_summary BY <1>2, <2>3, <3>1
      <3> QED BY <2>3, <3>2 DEF Counted
    <2>4. ASSUME NEW i \in DOMAIN block_intervals', NEW k \in DOMAIN blocks,
                 CompletedIn(k, block_intervals'[i]), k \notin block_intervals'[i].counted,
                 Win!in_window(blocks[k].first)
          PROVE  block_intervals'[i].until <= blocks[k].completed_at + MaxLag
      <3>1. CASE i = n BY <2>1, <2>3, <2>4, <3>1 DEF CompletedIn
      <3>2. CASE i \in DOMAIN block_intervals BY <1>1, <2>1, <2>4, <3>2 DEF MissedIsLate
      <3> QED BY <2>2, <3>1, <3>2
    <2> QED BY <2>1, <2>4 DEF MissedIsLate, CompletedIn, Win!in_window
  <1>6. CASE Ends BY <1>3, <1>6 DEF Ends
  <1>7. CASE Rests BY <1>3, <1>7 DEF Rests
  <1> QED BY <1>4, <1>5, <1>6, <1>7, SummaryKinds

\* A first arrival that is lowered, or left out of the window, after a summary
\* counted it is not older than the lag of an event.
LEMMA StaysStep ==
  ASSUME PipelineInv, SummaryInv, [Next]_vars
  PROVE  RollingStaysCounted'
  <1>1. RollingStaysCounted /\ SummariesChain /\ CountedInInterval BY DEF SummaryInv
  <1>2. now \in Nat /\ last_summary \in Nat /\ MaxLag \in Nat BY SummaryTypes
  <1>3. CASE CountsKept
    BY <1>1, <1>3 DEF CountsKept, RollingStaysCounted, Win!in_window
  <1>4. CASE Process
    <2> DEFINE e == channel[1]
    <2>1. /\ UNCHANGED <<now, last_summary, block_intervals>>
          /\ BlockArrives(e) \/ ConnArrives(e)
      BY <1>4, ReceiveLemma DEF SummariesKept
    <2>2. e.t \in Nat /\ now <= e.t + MaxLag BY <2>1 DEF BlockArrives, ConnArrives
    <2> HIDE DEF e
    <2> SUFFICES ASSUME NEW i \in DOMAIN block_intervals, NEW k \in block_intervals[i].counted
                 PROVE  \/ Win!in_window(blocks[k].first)'
                        \/ block_intervals[i].until <= blocks'[k].first + MaxLag
      BY <2>1 DEF RollingStaysCounted
    <2>3. k \in DOMAIN blocks BY <1>1 DEF CountedInInterval, CompletedIn
    <2>4. blocks[k].first \in Nat /\ blocks[k].first \in Instant BY <2>3, SummaryTypes
    <2>5. block_intervals[i].until \in Nat /\ block_intervals[i].until <= now
      BY <1>1, <1>2, SummaryTypes DEF SummariesChain
    <2>6. \/ Win!in_window(blocks[k].first)
          \/ block_intervals[i].until <= blocks[k].first + MaxLag
      BY <1>1 DEF RollingStaysCounted
    <2>7. block_intervals[i].until <= e.t + MaxLag BY <1>2, <2>2, <2>5
    <2>8. CASE BlockArrives(e)
      <3>1. BP!DeliveryLeaves(e.source, e.key, e.t) /\ all_up' = all_up
        BY <2>8 DEF BlockArrives
      <3>2. blocks'[k].first = blocks[k].first \/ blocks'[k].first = e.t
        BY <2>3, <3>1 DEF BP!DeliveryLeaves
      <3>3. CASE blocks'[k].first = blocks[k].first
        BY <2>6, <3>1, <3>3 DEF Win!in_window
      <3>4. CASE blocks'[k].first = e.t BY <2>7, <3>4
      <3> QED BY <3>2, <3>3, <3>4
    <2>9. CASE ConnArrives(e)
      <3>1. /\ blocks' = blocks
            /\ \A x \in Instant : x < e.t => (Win!in_window(x)' <=> Win!in_window(x))
        BY <2>9 DEF ConnArrives
      <3>2. CASE e.t <= blocks[k].first BY <1>2, <2>2, <2>4, <2>5, <2>7, <3>1, <3>2
      <3>3. CASE blocks[k].first < e.t
        BY <2>4, <2>6, <3>1, <3>3 DEF Win!in_window
      <3> QED BY <2>2, <2>4, <3>2, <3>3
    <2> QED BY <2>1, <2>8, <2>9
  <1>5. CASE Ticks
    <2> DEFINE n == Len(block_intervals) + 1
    <2>1. /\ blocks' = blocks /\ all_up' = all_up
          /\ DOMAIN block_intervals = 1 .. n - 1 /\ n \in Nat
          /\ DOMAIN block_intervals' = 1 .. n
          /\ \A i \in 1 .. n - 1 : block_intervals'[i] = block_intervals[i]
          /\ block_intervals'[n].counted = Counted(last_summary, now)
      BY <1>5 DEF Ticks
    <2> HIDE DEF n
    <2>2. \A i \in DOMAIN block_intervals' : i \in DOMAIN block_intervals \/ i = n
      BY <2>1
    <2>3. \A k \in Counted(last_summary, now) : Win!in_window(blocks[k].first)
      BY DEF Counted
    <2>4. ASSUME NEW i \in DOMAIN block_intervals', NEW k \in block_intervals'[i].counted
          PROVE  \/ Win!in_window(blocks[k].first)
                 \/ block_intervals'[i].until <= blocks[k].first + MaxLag
      <3>1. CASE i = n BY <2>1, <2>3, <2>4, <3>1
      <3>2. CASE i \in DOMAIN block_intervals BY <1>1, <2>1, <2>4, <3>2 DEF RollingStaysCounted
      <3> QED BY <2>2, <3>1, <3>2
    <2> QED BY <2>1, <2>4 DEF RollingStaysCounted, Win!in_window
  <1>6. CASE Ends BY <1>3, <1>6 DEF Ends
  <1>7. CASE Rests BY <1>3, <1>7 DEF Rests
  <1> QED BY <1>4, <1>5, <1>6, <1>7, SummaryKinds

Arrives(s, k) == k \in DOMAIN blocks /\ blocks[k].arrivals[s] # NoInstant

Travels(s, k) ==
    \E e \in Waiting : e.kind = "block" /\ e.source = s /\ e.key = k /\ e.t = sent[s][k]

\* What the history of an adapter's batches records.
LEMMA SentLemma ==
  ASSUME TypeOK, NEW s \in Source, Adapter(s), NEW b, NEW t \in Instant, Emits(s, b, t),
         NEW r \in Source, NEW k \in Key, sent'[r][k] # NoInstant
  PROVE  \/ sent'[r][k] = sent[r][k]
         \/ \E e \in Waiting' : e.kind = "block" /\ e.source = r /\ e.key = k /\ e.t = sent'[r][k]
  <1> DEFINE row == [c \in Key |->
                       IF sent[s][c] = NoInstant /\ \E i \in DOMAIN outbox'[s] : outbox'[s][i].key = c
                       THEN outbox'[s][1].t ELSE sent[s][c]]
  <1>1. sent' = [sent EXCEPT ![s] = row] /\ channel' = channel BY DEF Adapter
  <1>2. sent \in [Source -> [Key -> Instant \cup {NoInstant}]] BY DEF TypeOK
  <1>3. row[k] = IF sent[s][k] = NoInstant /\ \E i \in DOMAIN outbox'[s] : outbox'[s][i].key = k
                 THEN outbox'[s][1].t ELSE sent[s][k]
    OBVIOUS
  <1> HIDE DEF row
  <1>4. sent'[r][k] = IF r = s THEN row[k] ELSE sent[r][k] BY <1>1, <1>2
  <1>5. CASE r # s BY <1>4, <1>5
  <1>6. CASE r = s /\ ~(sent[s][k] = NoInstant /\ \E i \in DOMAIN outbox'[s] : outbox'[s][i].key = k)
    BY <1>3, <1>4, <1>6
  <1>7. CASE r = s /\ sent[s][k] = NoInstant /\ \E i \in DOMAIN outbox'[s] : outbox'[s][i].key = k
    <2>1. outbox'[s] = b /\ b \in Seq(AnyEvent)
          /\ \A i \in DOMAIN b : b[i].source = s /\ b[i].t = t
      BY DEF Emits, GoodBatch, TypeOK
    <2>2. PICK i \in DOMAIN b : b[i].key = k BY <1>7, <2>1
    <2>3. 1 \in DOMAIN b BY <2>1, <2>2
    <2>4. sent'[r][k] = t BY <1>3, <1>4, <1>7, <2>1, <2>3
    <2>5. b[i] \in AnyEvent BY <2>1, <2>2
    <2>6. b[i].kind = "block"
      BY <2>2, <2>5, KeyAssumption DEF AnyEvent, ConnEvent, BlockEvent
    <2>7. b[i] \in Waiting' BY <1>1, <2>2, WaitingGrows
    <2> QED BY <1>7, <2>1, <2>2, <2>4, <2>6, <2>7
  <1> QED BY <1>5, <1>6, <1>7

\* What was sent arrives or travels.
LEMMA SentStep ==
  ASSUME PipelineInv, SummaryInv, [Next]_vars
  PROVE  SentArrives'
  <1>1. TypeOK /\ BatchesUniform /\ SentArrives BY DEF PipelineInv, SummaryInv
  <1>2. \A s \in Source, k \in Key : sent[s][k] # NoInstant => Arrives(s, k) \/ Travels(s, k)
    BY <1>1 DEF SentArrives, Arrives, Travels
  <1> SUFFICES ASSUME NEW r \in Source, NEW k \in Key, sent'[r][k] # NoInstant
               PROVE  Arrives(r, k)' \/ Travels(r, k)'
    BY DEF SentArrives, Arrives, Travels
  <1>3. CASE UNCHANGED <<channel, outbox, blocks, sent>>
    BY <1>2, <1>3 DEF Arrives, Travels, Waiting
  <1>4. ASSUME NEW s \in Source, Adapter(s) PROVE Arrives(r, k)' \/ Travels(r, k)'
    <2>0. PICK b : \E t \in Instant : Emits(s, b, t) BY <1>1, <1>4, AdapterLemma
    <2>1. PICK t \in Instant : Emits(s, b, t) BY <2>0
    <2>2. channel' = channel /\ blocks' = blocks BY <1>4 DEF Adapter, collectorVars
    <2>3. CASE sent'[r][k] = sent[r][k]
      <3>1. \A e \in Waiting : e \in Waiting' BY <1>1, <2>1, <2>2, WaitingGrows
      <3> QED BY <1>2, <2>2, <2>3, <3>1 DEF Arrives, Travels
    <2>4. CASE \E e \in Waiting' :
                  e.kind = "block" /\ e.source = r /\ e.key = k /\ e.t = sent'[r][k]
      BY <2>4 DEF Travels
    <2> QED BY <1>1, <1>4, <2>1, <2>3, <2>4, SentLemma
  <1>5. ASSUME NEW s \in Source, Enqueue(s) PROVE Arrives(r, k)' \/ Travels(r, k)'
    <2>1. Waiting' = Waiting BY <1>1, <1>5, EnqueueLemma, WaitingStays
    <2>2. blocks' = blocks /\ sent' = sent BY <1>5 DEF Enqueue, collectorVars
    <2> QED BY <1>2, <2>1, <2>2 DEF Arrives, Travels
  <1>6. CASE Process
    <2> DEFINE e == channel[1]
    <2>1. /\ BlockArrives(e) \/ ConnArrives(e)
          /\ sent' = sent
      BY <1>6, ReceiveLemma DEF Process
    <2>2. \A d : d \in Waiting <=> d \in Waiting' \/ d = e
      BY <1>1, <1>6, ProcessLemma, WaitingShrinks
    <2> HIDE DEF e
    <2>3. CASE Arrives(r, k)
      <3>1. CASE BlockArrives(e)
        BY <2>3, <3>1 DEF Arrives, BlockArrives, BP!DeliveryLeaves
      <3>2. CASE ConnArrives(e) BY <2>3, <3>2 DEF Arrives, ConnArrives
      <3> QED BY <2>1, <3>1, <3>2
    <2>4. CASE Travels(r, k)
      <3>1. PICK d \in Waiting : d.kind = "block" /\ d.source = r /\ d.key = k /\ d.t = sent[r][k]
        BY <2>4 DEF Travels
      <3>2. CASE d \in Waiting' BY <2>1, <3>1, <3>2 DEF Travels
      <3>3. CASE d = e
        <4>1. BlockArrives(e) BY <2>1, <3>1, <3>3 DEF ConnArrives, Conn
        <4> QED BY <3>1, <3>3, <4>1 DEF Arrives, BlockArrives, BP!DeliveryLeaves
      <3> QED BY <2>2, <3>1, <3>2, <3>3
    <2> QED BY <1>2, <2>1, <2>3, <2>4
  <1>7. CASE Clock BY <1>3, <1>7 DEF Clock, adapterVars, collectorVars
  <1>8. CASE LoopOnly BY <1>3, <1>8, LoopOnlyLemma DEF Untouched, adapterVars, collectorVars
  <1> QED BY <1>4, <1>5, <1>6, <1>7, <1>8, StepKinds

\* The report is made once, of all blocks.
LEMMA MatchedStep ==
  ASSUME PipelineInv, SummaryInv, [Next]_vars
  PROVE  MatchedExact'
  <1>1. MatchedExact BY DEF SummaryInv
  <1>2. CASE Process BY <1>2, ReceiveLemma DEF MatchedExact
  <1>3. CASE Ticks BY <1>3 DEF Ticks, MatchedExact
  <1>4. CASE Ends
    <2>1. matched' = {k \in DOMAIN blocks : /\ blocks[k].completed_at # NoInstant
                                            /\ Win!in_window(blocks[k].first)}
      BY <1>4, FirstLemma DEF Ends, FirstsOrdered
    <2> QED BY <1>4, <2>1 DEF Ends, CountsKept, MatchedExact, Win!in_window
  <1>5. CASE Rests
    BY <1>1, <1>5 DEF Rests, CountsKept, MatchedExact, Win!in_window
  <1> QED BY <1>2, <1>3, <1>4, <1>5, SummaryKinds

\* The invariants of the summaries hold at first ...
LEMMA SummaryInit == Init => SummaryInv
  <1> SUFFICES ASSUME Init PROVE SummaryInv OBVIOUS
  <1>1. now = 0 /\ last_summary = 0 /\ block_intervals = <<>> /\ pc = "top"
        /\ sent = [s \in Source |-> [k \in Key |-> NoInstant]]
    BY DEF Init, FeedInit
  <1>2. DOMAIN block_intervals = {} BY <1>1
  <1>3. SummariesChain BY <1>1, <1>2 DEF SummariesChain
  <1>4. CountedInInterval /\ MissedIsLate /\ RollingStaysCounted
    BY <1>2 DEF CountedInInterval, MissedIsLate, RollingStaysCounted
  <1>5. SentArrives BY <1>1 DEF SentArrives
  <1>6. MatchedExact BY <1>1 DEF MatchedExact
  <1> QED BY <1>3, <1>4, <1>5, <1>6 DEF SummaryInv

\* ... and every step keeps them.
LEMMA SummaryStep == PipelineInv /\ PipelineInv' /\ SummaryInv /\ [Next]_vars => SummaryInv'
  BY ChainStep, InIntervalStep, MissedStep, StaysStep, SentStep, MatchedStep DEF SummaryInv

\* The invariant of the whole pipeline.
THEOREM Invariance == Spec => []IInv
  <1>1. Init => IInv BY PipelineInit, SummaryInit DEF IInv
  <1>2. IInv /\ [Next]_vars => IInv' BY PipelineStep, SummaryStep DEF IInv
  <1> QED BY <1>1, <1>2, PTL DEF Spec

-----------------------------------------------------------------------------
(***************************************************************************)
(* What the summaries and the report may miss.                             *)
(***************************************************************************)

\* No block is counted in two rolling summaries (main.rs:194-202).
THEOREM CountedInOne == Spec => []CountedOnce
  <1>1. ASSUME IInv PROVE CountedOnce
    <2>1. PipelineInv /\ CountedInInterval /\ SummariesChain BY <1>1 DEF IInv, SummaryInv
    <2>2. ASSUME NEW i \in DOMAIN block_intervals, NEW j \in DOMAIN block_intervals, i < j,
                 NEW k, k \in block_intervals[i].counted, k \in block_intervals[j].counted
          PROVE  FALSE
      <3>1. CompletedIn(k, block_intervals[i]) /\ CompletedIn(k, block_intervals[j])
        BY <2>1, <2>2 DEF CountedInInterval
      <3>2. blocks[k].completed_at \in Nat
        BY <2>1, <3>1, FirstLemma DEF FirstsOrdered, CompletedIn
      <3>3. block_intervals[i].until <= block_intervals[j].since
        BY <2>1, <2>2 DEF SummariesChain
      <3>4. block_intervals[i].until \in Nat /\ block_intervals[j].since \in Nat
        BY <2>1, <2>2, SummaryTypes
      <3> QED BY <3>1, <3>2, <3>3, <3>4 DEF CompletedIn
    <2>3. DOMAIN block_intervals \subseteq Nat
      <3>1. block_intervals \in Seq(Summary) BY <2>1, SummaryTypes
      <3> QED BY <3>1
    <2>4. \A i, j \in DOMAIN block_intervals : i # j => i < j \/ j < i BY <2>3
    <2> QED BY <2>2, <2>4 DEF CountedOnce
  <1> QED BY <1>1, Invariance, PTL

\* A block of the run that no rolling summary counted completed at most MaxLag
\* before the end of its interval.
THEOREM RollingComplete == Spec => []RollingMissesOnlyLate
  <1>1. ASSUME IInv PROVE RollingMissesOnlyLate
    <2>1. PipelineInv /\ SummariesChain /\ MissedIsLate BY <1>1 DEF IInv, SummaryInv
    <2> SUFFICES ASSUME NEW k \in Counted(0, last_summary) \ Rolling
                 PROVE  \E i \in DOMAIN block_intervals :
                            /\ block_intervals[i].until <= blocks[k].completed_at + MaxLag
                            /\ blocks[k].completed_at <= block_intervals[i].until
      BY DEF RollingMissesOnlyLate
    <2>2. /\ k \in DOMAIN blocks /\ blocks[k].completed_at # NoInstant
          /\ blocks[k].completed_at <= last_summary /\ blocks[k].completed_at > 0
          /\ Win!in_window(blocks[k].first)
      BY DEF Counted
    <2>3. blocks[k].completed_at \in Nat /\ last_summary \in Nat
      BY <2>1, <2>2, FirstLemma, SummaryTypes DEF FirstsOrdered
    <2>4. blocks[k].completed_at \in 1 .. last_summary BY <2>2, <2>3
    <2>5. PICK i \in DOMAIN block_intervals :
              /\ block_intervals[i].since < blocks[k].completed_at
              /\ blocks[k].completed_at <= block_intervals[i].until
      BY <2>1, <2>4 DEF SummariesChain
    <2>6. CompletedIn(k, block_intervals[i]) BY <2>2, <2>5 DEF CompletedIn
    <2>7. k \notin block_intervals[i].counted BY <2>5 DEF Rolling
    <2> QED BY <2>1, <2>2, <2>5, <2>6, <2>7 DEF MissedIsLate
  <1> QED BY <1>1, Invariance, PTL

\* A block once counted leaves the run's table only when its first arrival is at
\* most MaxLag older than the summary.
THEOREM RollingKept == Spec => []RollingStaysCounted
  <1>1. IInv => RollingStaysCounted BY DEF IInv, SummaryInv
  <1> QED BY <1>1, Invariance, PTL

\* The report misses no block that enough sources had delivered more than MaxLag
\* before the end (main.rs:205-211).
THEOREM FinalComplete == Spec => []FinalMissesOnlyLate
  <1>1. ASSUME IInv PROVE FinalMissesOnlyLate
    <2>1. PipelineInv /\ SentArrives /\ MatchedExact BY <1>1 DEF IInv, SummaryInv
    <2>2. TypeOK /\ BP!IInv /\ WaitingRecent /\ now \in Nat BY <2>1, SummaryTypes
    <2> SUFFICES ASSUME pc = "done", NEW k \in Key,
                        Cardinality({s \in Source : sent[s][k] # NoInstant /\ sent[s][k] + MaxLag < now})
                            >= MinSources
                 PROVE  /\ k \in DOMAIN blocks /\ blocks[k].completed_at # NoInstant
                        /\ Win!in_window(blocks[k].first) => k \in matched
      BY DEF FinalMissesOnlyLate
    <2> DEFINE T == {s \in Source : sent[s][k] # NoInstant /\ sent[s][k] + MaxLag < now}
    <2>3. ASSUME NEW s \in T PROVE k \in DOMAIN blocks /\ blocks[k].arrivals[s] # NoInstant
      <3>1. s \in Source /\ sent[s][k] # NoInstant /\ sent[s][k] + MaxLag < now OBVIOUS
      <3>2. ~ \E e \in Waiting : e.t = sent[s][k]
        <4> SUFFICES ASSUME NEW e \in Waiting, e.t = sent[s][k] PROVE FALSE OBVIOUS
        <4>1. now <= e.t + MaxLag /\ e.t \in Nat BY <2>2, Times DEF WaitingRecent
        <4> QED BY <2>2, <3>1, <4>1, LagAssumption
      <3> QED BY <2>1, <3>1, <3>2 DEF SentArrives
    <2>4. Cardinality(T) >= MinSources OBVIOUS
    <2>5. IsFiniteSet(Source) /\ T \subseteq Source BY SourceAssumption
    <2> HIDE DEF T
    <2>6. MinSources \in Nat /\ MinSources > 0
      <3>1. Cardinality(Source) \in Nat BY <2>5, FS_CardinalityType
      <3> QED BY <3>1, MinAssumption
    <2>7. T # {}
      <3>1. IsFiniteSet({}) /\ Cardinality({}) = 0 BY FS_EmptySet
      <3>2. T = {} => Cardinality(T) = 0 BY <3>1
      <3> QED BY <2>4, <2>6, <3>2
    <2>8. k \in DOMAIN blocks BY <2>3, <2>7
    <2> DEFINE A == BP!Arrived(blocks[k].arrivals)
    <2>9. T \subseteq A /\ A \subseteq Source BY <2>3, <2>5 DEF BP!Arrived
    <2> HIDE DEF A
    <2>10. IsFiniteSet(A) /\ Cardinality(T) <= Cardinality(A)
      BY <2>5, <2>9, FS_Subset
    <2>11. Cardinality(A) >= MinSources
      <3>1. Cardinality(T) \in Nat /\ Cardinality(A) \in Nat
        BY <2>5, <2>9, <2>10, FS_Subset, FS_CardinalityType
      <3> QED BY <2>4, <2>6, <2>10, <3>1
    <2>12. blocks[k].completed_at # NoInstant
      BY <2>2, <2>8, <2>11, Sizes DEF BP!IInv, BP!CompleteByCount, A
    <2>13. Win!in_window(blocks[k].first) => k \in matched
      BY <2>1, <2>8, <2>12 DEF MatchedExact
    <2> QED BY <2>8, <2>12, <2>13
  <1> QED BY <1>1, Invariance, PTL

-----------------------------------------------------------------------------
\* What the report counts: blocks that enough sources delivered, that the credited
\* source delivered no later than any other, and that came first at an instant
\* around which every source had a session past its warm-up.
ReportSound ==
    pc = "done" => \A k \in matched :
        /\ k \in DOMAIN blocks
        /\ Cardinality(Blk!Arrived(blocks[k].arrivals)) >= MinSources
        /\ blocks[k].arrivals[blocks[k].first_src] = blocks[k].first
        /\ \A s \in Blk!Arrived(blocks[k].arrivals) : blocks[k].first <= blocks[k].arrivals[s]
        /\ \A s \in Source : WRun!WarmNear(s, blocks[k].first, MaxLag)

\* The report is right about every block in it, up to the lag of the events
\* (stats.rs:132, :277, main.rs:205-211).
THEOREM ReportCorrect == Spec => []ReportSound
  <1>1. Spec => []WP!InWindowSound
    <2>1. Init => WP!Init BY PipelineInit
    <2>2. PipelineInv /\ [Next]_vars => [WP!Next]_WP!vars
      <3> SUFFICES ASSUME PipelineInv, [Next]_vars PROVE [WP!Next]_WP!vars OBVIOUS
      <3> QED BY SummaryTypes, CollectorStep
    <2>3. Spec => WP!Spec BY <2>1, <2>2, Pipeline, PTL DEF Spec, WP!Spec
    <2>4. WP!Spec => []WP!InWindowSound BY WP!WindowSound, WindowsConstants
    <2> QED BY <2>3, <2>4, PTL
  <1>2. ASSUME IInv, WP!InWindowSound PROVE ReportSound
    <2>1. PipelineInv /\ MatchedExact BY <1>2 DEF IInv, SummaryInv
    <2>2. BP!IInv BY <2>1, SummaryTypes
    <2> SUFFICES ASSUME pc = "done", NEW k \in matched
                 PROVE  /\ k \in DOMAIN blocks
                        /\ Cardinality(Blk!Arrived(blocks[k].arrivals)) >= MinSources
                        /\ blocks[k].arrivals[blocks[k].first_src] = blocks[k].first
                        /\ \A s \in Blk!Arrived(blocks[k].arrivals) :
                               blocks[k].first <= blocks[k].arrivals[s]
                        /\ \A s \in Source : WRun!WarmNear(s, blocks[k].first, MaxLag)
      BY DEF ReportSound
    <2>3. k \in DOMAIN blocks /\ blocks[k].completed_at # NoInstant /\ Win!in_window(blocks[k].first)
      BY <2>1 DEF MatchedExact
    <2>4. BP!Arrived(blocks[k].arrivals) = Blk!Arrived(blocks[k].arrivals)
      BY DEF BP!Arrived, Blk!Arrived
    <2>5. Cardinality(Blk!Arrived(blocks[k].arrivals)) >= MinSources
      BY <2>2, <2>3, <2>4, Sizes DEF BP!IInv, BP!CompleteByCount
    <2>6. /\ blocks[k].arrivals[blocks[k].first_src] = blocks[k].first
          /\ \A s \in Blk!Arrived(blocks[k].arrivals) : blocks[k].first <= blocks[k].arrivals[s]
      BY <2>2, <2>3, <2>4 DEF BP!IInv, BP!FirstIsEarliest
    <2>7. blocks[k].first \in Instant BY <2>1, <2>3, SummaryTypes
    <2>8. WP!in_window(blocks[k].first) BY <2>3 DEF WP!in_window, Win!in_window
    <2>9. \A s \in Source : WP!WarmNear(s, blocks[k].first, MaxLag)
      BY <1>2, <2>7, <2>8 DEF WP!InWindowSound
    <2>10. \A s \in Source : WRun!WarmNear(s, blocks[k].first, MaxLag)
      BY <2>9 DEF WP!WarmNear, WRun!WarmNear
    <2> QED BY <2>3, <2>5, <2>6, <2>10
  <1> QED BY <1>1, <1>2, Invariance, PTL
=============================================================================
