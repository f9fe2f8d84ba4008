--------------------------- MODULE WindowsProofs ---------------------------
(***************************************************************************)
(* What holds of the measurement window for every number of sources, every *)
(* set of instants, every warm-up and every lateness MaxSkew of the events *)
(* that reach the Collector.                                               *)
(***************************************************************************)
EXTENDS WindowsRun, SequenceTheorems, FiniteSetTheorems, WellFoundedInduction, TLAPS

USE SourceAssumption, InstantAssumption, WarmupAssumption, SkewAssumption, BoundAssumption

Interval == [from : Instant, to : Instant \cup {NoInstant}]

-----------------------------------------------------------------------------
(***************************************************************************)
(* What the handlers do to the list of intervals.                          *)
(***************************************************************************)

\* The three things a step does to all_up.
Keeps == all_up' = all_up

Pushes(t) ==
    /\ DOMAIN all_up' = 1 .. Len(all_up) + 1
    /\ Len(all_up') = Len(all_up) + 1
    /\ \A i \in DOMAIN all_up : all_up'[i] = all_up[i]
    /\ all_up'[Len(all_up) + 1] = [from |-> t, to |-> NoInstant]

Closes(t) ==
    /\ Last \in DOMAIN all_up
    /\ DOMAIN all_up' = DOMAIN all_up
    /\ Len(all_up') = Len(all_up)
    /\ \A i \in DOMAIN all_up : i # Last => all_up'[i] = all_up[i]
    /\ all_up'[Last] = [from |-> all_up[Last].from, to |-> t]

\* Appending an open interval keeps the others.
LEMMA PushLemma ==
  ASSUME TypeOK, NEW t \in Instant,
         all_up' = Append(all_up, [from |-> t, to |-> NoInstant])
  PROVE  /\ all_up' \in Seq(Interval)
         /\ Pushes(t)
  <1>1. [from |-> t, to |-> NoInstant] \in Interval BY DEF Interval
  <1>2. all_up \in Seq(Interval) BY DEF TypeOK, Interval
  <1> QED BY <1>1, <1>2 DEF Pushes

\* Closing the last interval keeps the others and its beginning.
LEMMA CloseLemma ==
  ASSUME TypeOK, IntervalOpen, NEW t \in Instant,
         all_up' = [all_up EXCEPT ![Last].to = t]
  PROVE  /\ all_up' \in Seq(Interval)
         /\ Closes(t)
  <1>1. all_up \in Seq(Interval) BY DEF TypeOK, Interval
  <1>2. Last \in Nat /\ Last # 0 /\ DOMAIN all_up = 1 .. Last
    BY <1>1 DEF IntervalOpen, Last
  <1>3. Last \in DOMAIN all_up BY <1>2
  <1>4. all_up[Last] \in Interval BY <1>1, <1>3
  <1> DEFINE e == [from |-> all_up[Last].from, to |-> t]
  <1>5. e \in Interval BY <1>4 DEF Interval
  <1>6. [all_up[Last] EXCEPT !.to = t] = e BY <1>4 DEF Interval
  <1>7. all_up' = [all_up EXCEPT ![Last] = e] BY <1>6, Zenon
  <1>8. /\ all_up' \in Seq(Interval)
        /\ Len(all_up') = Len(all_up)
        /\ \A j \in 1 .. Len(all_up) : all_up'[j] = IF j = Last THEN e ELSE all_up[j]
    BY <1>1, <1>2, <1>5, <1>7, ExceptSeq DEF Last
  <1> QED BY <1>1, <1>2, <1>3, <1>8 DEF Closes, Last

-----------------------------------------------------------------------------
(***************************************************************************)
(* The cases of a step: what an event of s stamped t changes.              *)
(***************************************************************************)

\* A repeated event: only the stamps move.
Repeats(s, t) ==
    /\ Keeps
    /\ UNCHANGED <<connected, past>>
    /\ \A r \in Source : connected[r] => since'[r] = since[r]

\* s comes up at t.
ComesUp(s, t) ==
    /\ ~connected[s]
    /\ connected' = [connected EXCEPT ![s] = TRUE]
    /\ since' = [since EXCEPT ![s] = t]
    /\ past' = past
    /\ IF \A r \in Source : connected'[r] THEN Pushes(t) ELSE Keeps

\* s goes down at t.
GoesDown(s, t) ==
    /\ connected[s]
    /\ connected' = [connected EXCEPT ![s] = FALSE]
    /\ since' = [since EXCEPT ![s] = NoInstant]
    /\ past' = [past EXCEPT ![s] = @ \cup {[from |-> since[s], to |-> t]}]
    /\ IF IntervalOpen THEN Closes(t) ELSE Keeps

\* Every event is one of these, and moves the stamps as Processed says.
LEMMA EventLemma ==
  ASSUME TypeOK, OpenIffAllConnected, StampsOrdered,
         NEW s \in Source, NEW t \in Instant, Connect(s, t) \/ Disconnect(s, t)
  PROVE  /\ Processed(s, t)
         /\ all_up' \in Seq(Interval)
         /\ Repeats(s, t) \/ ComesUp(s, t) \/ GoesDown(s, t)
  <1>1. Connect(s, t) \/ Disconnect(s, t) OBVIOUS
  <1>2. all_up \in Seq(Interval) BY DEF TypeOK, Interval
  <1>3. Processed(s, t) BY <1>1 DEF Connect, Disconnect
  <1>4. CASE Connect(s, t) /\ connected[s]
    BY <1>2, <1>3, <1>4 DEF Connect, OnConnected, windowVars, Repeats, Keeps, TypeOK
  <1>5. CASE Connect(s, t) /\ ~connected[s]
    <2>1. ~IntervalOpen BY <1>5 DEF OpenIffAllConnected
    <2>2. connected' = [connected EXCEPT ![s] = TRUE]
      BY <1>5 DEF Connect, OnConnected
    <2>3. since' = [since EXCEPT ![s] = t] /\ past' = past
      BY <1>5 DEF Connect, TypeOK
    <2>4. CASE \A r \in Source : connected'[r]
      <3>1. all_up' = Append(all_up, [from |-> t, to |-> NoInstant])
        BY <1>5, <2>1, <2>4 DEF Connect, OnConnected
      <3>2. all_up' \in Seq(Interval) /\ Pushes(t) BY <3>1, PushLemma
      <3> QED BY <1>3, <1>5, <2>2, <2>3, <2>4, <3>2 DEF ComesUp
    <2>5. CASE ~\A r \in Source : connected'[r]
      <3>1. all_up' = all_up BY <1>5, <2>5 DEF Connect, OnConnected
      <3> QED BY <1>2, <1>3, <1>5, <2>2, <2>3, <2>5, <3>1 DEF ComesUp, Keeps
    <2> QED BY <2>4, <2>5
  <1>6. CASE Disconnect(s, t) /\ ~connected[s]
    BY <1>2, <1>3, <1>6 DEF Disconnect, OnDisconnected, windowVars, Repeats, Keeps, TypeOK
  <1>7. CASE Disconnect(s, t) /\ connected[s]
    <2>1. /\ connected' = [connected EXCEPT ![s] = FALSE]
          /\ since' = [since EXCEPT ![s] = NoInstant]
          /\ past' = [past EXCEPT ![s] = @ \cup {[from |-> since[s], to |-> t]}]
      BY <1>7 DEF Disconnect, OnDisconnected
    <2>2. CASE IntervalOpen
      <3>1. all_up' = [all_up EXCEPT ![Last].to = t]
        BY <1>7, <2>2 DEF Disconnect, OnDisconnected
      <3>2. all_up' \in Seq(Interval) /\ Closes(t) BY <2>2, <3>1, CloseLemma
      <3> QED BY <1>3, <1>7, <2>1, <2>2, <3>2 DEF GoesDown
    <2>3. CASE ~IntervalOpen
      <3>1. all_up' = all_up BY <1>7, <2>3 DEF Disconnect, OnDisconnected
      <3> QED BY <1>2, <1>3, <1>7, <2>1, <2>3, <3>1 DEF GoesDown, Keeps
    <2> QED BY <2>2, <2>3
  <1> QED BY <1>1, <1>4, <1>5, <1>6, <1>7

\* Every step is one of these.
LEMMA StepLemma ==
  ASSUME TypeOK, OpenIffAllConnected, StampsOrdered, Next
  PROVE  \E s \in Source, t \in Instant :
            /\ Processed(s, t)
            /\ all_up' \in Seq(Interval)
            /\ Repeats(s, t) \/ ComesUp(s, t) \/ GoesDown(s, t)
  BY EventLemma DEF Next

-----------------------------------------------------------------------------
(***************************************************************************)
(* The inductive invariant, one lemma per conjunct.                        *)
(***************************************************************************)

\* The shape of all_up and of its neighbours, from their types.
LEMMA ShapeLemma ==
  ASSUME TypeOK
  PROVE  /\ Len(all_up) \in Nat
         /\ Last = Len(all_up)
         /\ DOMAIN all_up = 1 .. Len(all_up)
         /\ \A i \in DOMAIN all_up : all_up[i].from \in Nat
         /\ \A i \in DOMAIN all_up : all_up[i].to # NoInstant => all_up[i].to \in Nat
  <1>1. all_up \in Seq(Interval) BY DEF TypeOK, Interval
  <1>2. \A i \in DOMAIN all_up : all_up[i] \in Interval BY <1>1
  <1>3. Len(all_up) \in Nat /\ DOMAIN all_up = 1 .. Len(all_up) BY <1>1
  <1>4. Last = Len(all_up) BY DEF Last
  <1>5. \A i \in DOMAIN all_up : all_up[i].from \in Nat BY <1>2 DEF Interval
  <1>6. \A i \in DOMAIN all_up : all_up[i].to # NoInstant => all_up[i].to \in Nat
    BY <1>2 DEF Interval
  <1> QED BY <1>3, <1>4, <1>5, <1>6

\* The last interval exists when one is open.
LEMMA OpenLemma ==
  ASSUME TypeOK
  PROVE  IntervalOpen <=> (Last \in DOMAIN all_up /\ all_up[Last].to = NoInstant)
  <1>1. all_up \in Seq(Interval) BY DEF TypeOK, Interval
  <1> QED BY <1>1 DEF IntervalOpen, Last

\* The types are preserved.
LEMMA TypeStep ==
  ASSUME TypeOK, OpenIffAllConnected, StampsOrdered, Next
  PROVE  TypeOK'
  <1>1. PICK s \in Source, t \in Instant :
            /\ Processed(s, t)
            /\ all_up' \in Seq(Interval)
            /\ Connect(s, t) \/ Disconnect(s, t)
    <2>1. PICK s \in Source, t \in Instant : Connect(s, t) \/ Disconnect(s, t)
      BY DEF Next
    <2>2. all_up' \in Seq(Interval) BY StepLemma
    <2> QED BY <2>1, <2>2 DEF Connect, Disconnect
  <1>2. /\ stamp' \in [Source -> Nat]
        /\ newest' \in Nat
    BY <1>1 DEF TypeOK, Processed, Later
  <1>3. all_up' \in Seq([from : Instant, to : Instant \cup {NoInstant}])
    BY <1>1 DEF Interval
  <1>4. CASE Connect(s, t)
    <2>1. /\ connected' \in [Source -> BOOLEAN]
          /\ ever_connected' \in [Source -> BOOLEAN]
          /\ reconnects' \in [Source -> Nat]
      <3>1. CASE connected[s]
        BY <1>4, <3>1 DEF TypeOK, Connect, OnConnected, windowVars
      <3>2. CASE ~connected[s]
        <4>1. connected' \in [Source -> BOOLEAN] /\ ever_connected' \in [Source -> BOOLEAN]
          BY <1>4, <3>2 DEF TypeOK, Connect, OnConnected
        <4> DEFINE k == IF ever_connected[s] THEN 1 ELSE 0
        <4>2. k \in Nat OBVIOUS
        <4>3. reconnects' = [reconnects EXCEPT ![s] = @ + k]
          BY <1>4, <3>2, Zenon DEF Connect, OnConnected
        <4> HIDE DEF k
        <4>4. reconnects' \in [Source -> Nat]
          BY <4>2, <4>3 DEF TypeOK
        <4> QED BY <4>1, <4>4
      <3> QED BY <3>1, <3>2
    <2>2. since' \in [Source -> Instant \cup {NoInstant}]
      BY <1>4 DEF TypeOK, Connect
    <2>3. past' \in [Source -> SUBSET Session] BY <1>4 DEF TypeOK, Connect
    <2> QED BY <1>2, <1>3, <2>1, <2>2, <2>3 DEF TypeOK
  <1>5. CASE Disconnect(s, t)
    <2>1. /\ connected' \in [Source -> BOOLEAN]
          /\ ever_connected' \in [Source -> BOOLEAN]
          /\ reconnects' \in [Source -> Nat]
      BY <1>5 DEF TypeOK, Disconnect, OnDisconnected, windowVars
    <2>2. since' \in [Source -> Instant \cup {NoInstant}]
      BY <1>5 DEF TypeOK, Disconnect
    <2>3. connected[s] => [from |-> since[s], to |-> t] \in Session
      BY DEF StampsOrdered, Session
    <2>4. past' \in [Source -> SUBSET Session]
      BY <1>5, <2>3 DEF TypeOK, Disconnect
    <2> QED BY <1>2, <1>3, <2>1, <2>2, <2>4 DEF TypeOK
  <1> QED BY <1>1, <1>4, <1>5

\* Only the last interval can be open, and it is while all are connected.
LEMMA OpenStep ==
  ASSUME TypeOK, TypeOK', OpenIffAllConnected, StampsOrdered, Next
  PROVE  OpenIffAllConnected'
  <1>1. PICK s \in Source, t \in Instant : Repeats(s, t) \/ ComesUp(s, t) \/ GoesDown(s, t)
    BY StepLemma
  <1>2. CASE Repeats(s, t)
    BY <1>2 DEF OpenIffAllConnected, Repeats, Keeps, IntervalOpen, Last
  <1>3. CASE ComesUp(s, t) /\ \A r \in Source : connected'[r]
    <2>1. ~IntervalOpen BY <1>3 DEF ComesUp, OpenIffAllConnected
    <2>2. \A i \in DOMAIN all_up : all_up[i].to # NoInstant
      BY <2>1, ShapeLemma, OpenLemma DEF OpenIffAllConnected
    <2>3. Pushes(t) BY <1>3 DEF ComesUp
    <2>4. \A i \in DOMAIN all_up' : i # Len(all_up') => all_up'[i].to # NoInstant
      BY <2>2, <2>3, ShapeLemma, OpenLemma DEF Pushes
    <2>5. /\ Len(all_up') \in DOMAIN all_up'
          /\ all_up'[Len(all_up')].to = NoInstant
      BY <2>3, ShapeLemma, OpenLemma DEF Pushes
    <2>6. IntervalOpen' BY <2>5 DEF IntervalOpen, Last
    <2> QED BY <1>3, <2>4, <2>6 DEF OpenIffAllConnected, Last
  <1>4. CASE ComesUp(s, t) /\ ~\A r \in Source : connected'[r]
    <2>1. ~IntervalOpen BY <1>4 DEF ComesUp, OpenIffAllConnected
    <2> QED BY <1>4, <2>1 DEF ComesUp, Keeps, OpenIffAllConnected, IntervalOpen, Last
  <1>5. CASE GoesDown(s, t) /\ IntervalOpen
    <2>1. Closes(t) BY <1>5 DEF GoesDown
    <2>2. \A i \in DOMAIN all_up' : all_up'[i].to # NoInstant
      BY <2>1, InstantAssumption, ShapeLemma, OpenLemma DEF Closes, OpenIffAllConnected, Last
    <2>3. ~IntervalOpen' BY <2>2, ShapeLemma, OpenLemma, <2>1 DEF Closes, IntervalOpen, Last
    <2>4. ~connected'[s] BY <1>5 DEF GoesDown, TypeOK
    <2> QED BY <2>2, <2>3, <2>4 DEF OpenIffAllConnected
  <1>6. CASE GoesDown(s, t) /\ ~IntervalOpen
    <2>1. ~connected'[s] BY <1>6 DEF GoesDown, TypeOK
    <2> QED BY <1>6, <2>1 DEF GoesDown, Keeps, OpenIffAllConnected, IntervalOpen, Last
  <1> QED BY <1>1, <1>2, <1>3, <1>4, <1>5, <1>6

\* Stamps and ends of sessions stay below the newest stamp.
LEMMA StampsStep ==
  ASSUME TypeOK, OpenIffAllConnected, StampsOrdered, Next
  PROVE  StampsOrdered'
  <1>1. PICK s \in Source, t \in Instant :
            Processed(s, t) /\ (Repeats(s, t) \/ ComesUp(s, t) \/ GoesDown(s, t))
    BY StepLemma
  <1>2. /\ newest \in Nat /\ newest' \in Nat /\ newest <= newest' /\ t <= newest'
        /\ \A r \in Source : /\ stamp[r] \in Nat /\ stamp'[r] \in Nat
                             /\ stamp[r] <= stamp'[r] /\ stamp'[r] <= newest'
        /\ stamp'[s] = t
    BY <1>1 DEF Processed, Later, TypeOK, StampsOrdered
  <1>3. ASSUME NEW r \in Source, connected'[r]
        PROVE  since'[r] \in Instant /\ since'[r] <= stamp'[r]
    <2>1. \/ r = s /\ since'[r] = t
          \/ connected[r] /\ since'[r] = since[r]
      BY <1>1, <1>3 DEF Repeats, ComesUp, GoesDown, TypeOK
    <2>2. CASE connected[r] /\ since'[r] = since[r]
      <3>1. since[r] \in Nat /\ since[r] \in Instant /\ since[r] <= stamp[r]
        BY <2>2 DEF StampsOrdered
      <3> QED BY <1>2, <2>2, <3>1
    <2> QED BY <1>2, <2>1, <2>2
  <1>4. ASSUME NEW r \in Source, NEW p \in past'[r]
        PROVE  p.to <= stamp'[r]
    <2>1. CASE p \in past[r]
      <3>1. p \in Session BY <2>1 DEF TypeOK
      <3>2. p.to \in Nat BY <3>1 DEF Session
      <3> QED BY <1>2, <2>1, <3>2 DEF StampsOrdered
    <2>2. CASE p \notin past[r]
      <3>1. r = s /\ p = [from |-> since[s], to |-> t]
        BY <1>1, <1>4, <2>2 DEF Repeats, ComesUp, GoesDown, TypeOK
      <3> QED BY <1>2, <3>1
    <2> QED BY <2>1, <2>2
  <1> QED BY <1>2, <1>3, <1>4 DEF StampsOrdered

\* The intervals end below the newest stamp, in order up to MaxSkew.
LEMMA IntervalsStep ==
  ASSUME TypeOK, OpenIffAllConnected, StampsOrdered, IntervalsEnded, IntervalsOrdered, Next
  PROVE  IntervalsEnded' /\ IntervalsOrdered'
  <1>1. PICK s \in Source, t \in Instant :
            Processed(s, t) /\ (Repeats(s, t) \/ ComesUp(s, t) \/ GoesDown(s, t))
    BY StepLemma
  <1>2. /\ newest \in Nat /\ newest' \in Nat /\ t \in Nat
        /\ newest <= newest' /\ t <= newest' /\ newest <= t + MaxSkew
    BY <1>1 DEF Processed, Later, TypeOK
  <1>3. CASE Keeps
    BY <1>2, <1>3, ShapeLemma, OpenLemma DEF Keeps, IntervalsEnded, IntervalsOrdered
  <1>4. CASE Pushes(t) /\ ~IntervalOpen
    <2> DEFINE n == Len(all_up)
    <2>1. /\ DOMAIN all_up' = 1 .. n + 1 /\ DOMAIN all_up = 1 .. n /\ n \in Nat
          /\ all_up'[n + 1] = [from |-> t, to |-> NoInstant]
          /\ \A i \in 1 .. n : all_up'[i] = all_up[i]
      BY <1>4, ShapeLemma, OpenLemma DEF Pushes
    <2>2. \A i \in 1 .. n : /\ all_up[i].to # NoInstant
                            /\ all_up[i].to \in Nat /\ all_up[i].to <= newest
      BY <1>4, <2>1, ShapeLemma, OpenLemma DEF IntervalsEnded, OpenIffAllConnected
    <2> HIDE DEF n
    <2>3. \A i \in 1 .. n + 1 : i # n + 1 => i \in 1 .. n BY <2>1
    <2>4. IntervalsEnded'
      BY <1>2, <2>1, <2>2, <2>3 DEF IntervalsEnded
    <2>5. ASSUME NEW i \in 1 .. n + 1, NEW j \in 1 .. n + 1, i < j
          PROVE  all_up'[i].to <= all_up'[j].from + MaxSkew
      <3>1. i \in 1 .. n BY <2>1, <2>5
      <3>2. CASE j = n + 1 BY <1>2, <2>1, <2>2, <3>1, <3>2
      <3>3. CASE j # n + 1
        <4>1. j \in 1 .. n BY <2>3, <3>3
        <4> QED BY <2>1, <2>5, <3>1, <4>1 DEF IntervalsOrdered
      <3> QED BY <3>2, <3>3
    <2> QED BY <2>1, <2>4, <2>5 DEF IntervalsOrdered
  <1>5. CASE Closes(t)
    <2>1. IntervalsEnded' BY <1>2, <1>5, ShapeLemma, OpenLemma DEF Closes, IntervalsEnded
    <2>2. ASSUME NEW i \in DOMAIN all_up, NEW j \in DOMAIN all_up, i < j
          PROVE  all_up'[i].to <= all_up'[j].from + MaxSkew
      <3>1. i # Last BY <2>2, ShapeLemma, OpenLemma
      <3>2. all_up'[i].to = all_up[i].to /\ all_up'[j].from = all_up[j].from
        BY <1>5, <3>1 DEF Closes
      <3> QED BY <2>2, <3>2 DEF IntervalsOrdered
    <2> QED BY <1>5, <2>1, <2>2 DEF IntervalsOrdered, Closes
  <1> QED BY <1>1, <1>3, <1>4, <1>5 DEF Repeats, ComesUp, GoesDown, OpenIffAllConnected

\* What is known of an open session and of the stamps around a step.
LEMMA SkewLemma ==
  ASSUME TypeOK, StampsOrdered, NEW s \in Source, NEW t \in Instant, Processed(s, t)
  PROVE  /\ t \in Nat /\ newest \in Nat /\ newest <= t + MaxSkew
         /\ \A r \in Source : connected[r] => /\ since[r] \in Nat
                                              /\ since[r] <= t + MaxSkew
  <1>1. t \in Nat /\ newest \in Nat /\ newest <= t + MaxSkew
    BY DEF Processed, TypeOK
  <1>2. ASSUME NEW r \in Source, connected[r]
        PROVE  since[r] \in Nat /\ since[r] <= t + MaxSkew
    <2>1. /\ since[r] \in Nat /\ stamp[r] \in Nat
          /\ since[r] <= stamp[r] /\ stamp[r] <= newest
      BY <1>2 DEF StampsOrdered, TypeOK
    <2> QED BY <1>1, <2>1
  <1> QED BY <1>1, <1>2

\* The open sessions began before the open interval, up to MaxSkew.
LEMMA OpenSoundStep ==
  ASSUME IInv, Next
  PROVE  OpenSound'
  <1> USE DEF IInv
  <1>1. PICK s \in Source, t \in Instant :
            Processed(s, t) /\ (Repeats(s, t) \/ ComesUp(s, t) \/ GoesDown(s, t))
    BY StepLemma
  <1>2. TypeOK' /\ OpenIffAllConnected' BY TypeStep, OpenStep
  <1> SUFFICES ASSUME IntervalOpen', NEW r \in Source
               PROVE  since'[r] <= all_up'[Last'].from + MaxSkew
    BY DEF OpenSound
  <1>3. \A q \in Source : connected'[q] BY <1>2 DEF OpenIffAllConnected
  <1>4. CASE Repeats(s, t)
    <2>1. connected[r] /\ since'[r] = since[r] BY <1>3, <1>4 DEF Repeats
    <2>2. IntervalOpen /\ all_up' = all_up /\ Last' = Last
      BY <1>4 DEF Repeats, Keeps, IntervalOpen, Last
    <2> QED BY <2>1, <2>2 DEF OpenSound
  <1>5. CASE ComesUp(s, t)
    <2>1. Pushes(t) BY <1>3, <1>5 DEF ComesUp
    <2>2. all_up'[Last'].from = t BY <2>1 DEF Pushes, Last
    <2>3. CASE r = s
      <3>1. since'[r] = t BY <1>5, <2>3 DEF ComesUp, TypeOK
      <3> QED BY <1>1, <2>2, <3>1, SkewLemma
    <2>4. CASE r # s
      <3>1. since'[r] = since[r] BY <1>5, <2>4 DEF ComesUp, TypeOK
      <3>2. connected[r] BY <1>3, <1>5, <2>4 DEF ComesUp, TypeOK
      <3> QED BY <1>1, <2>2, <3>1, <3>2, SkewLemma
    <2> QED BY <2>3, <2>4
  <1>6. CASE GoesDown(s, t)
    <2>1. ~connected'[s] BY <1>6 DEF GoesDown, TypeOK
    <2> QED BY <1>3, <2>1
  <1> QED BY <1>1, <1>4, <1>5, <1>6

\* A closed interval [a, b) lies in a session of s, up to MaxSkew.
HeldBy(s, a, b) ==
    \/ connected[s] /\ since[s] <= a + MaxSkew
    \/ \E p \in past[s] : p.from <= a + MaxSkew /\ b <= p.to + MaxSkew

HeldAfter(s, a, b) ==
    \/ connected'[s] /\ since'[s] <= a + MaxSkew
    \/ \E p \in past'[s] : p.from <= a + MaxSkew /\ b <= p.to + MaxSkew

\* A session that holds an interval holds it after the step too.
LEMMA HeldLemma ==
  ASSUME IInv, NEW s \in Source, NEW t \in Instant, Processed(s, t),
         Repeats(s, t) \/ ComesUp(s, t) \/ GoesDown(s, t),
         NEW r \in Source, NEW a \in Nat, NEW b \in Nat, b <= newest \/ b = t,
         HeldBy(r, a, b)
  PROVE  HeldAfter(r, a, b)
  <1> USE DEF IInv
  <1>1. b <= t + MaxSkew BY SkewLemma
  <1>2. CASE \E p \in past[r] : p.from <= a + MaxSkew /\ b <= p.to + MaxSkew
    <2>1. past[r] \subseteq past'[r] BY DEF Repeats, ComesUp, GoesDown, TypeOK
    <2> QED BY <1>2, <2>1 DEF HeldAfter
  <1>3. CASE connected[r] /\ since[r] <= a + MaxSkew
    <2>1. CASE Repeats(s, t) BY <1>3, <2>1 DEF HeldAfter, Repeats
    <2>2. CASE ComesUp(s, t) BY <1>3, <2>2 DEF HeldAfter, ComesUp, TypeOK
    <2>3. CASE GoesDown(s, t) /\ r # s BY <1>3, <2>3 DEF HeldAfter, GoesDown, TypeOK
    <2>4. CASE GoesDown(s, t) /\ r = s
      <3> DEFINE p == [from |-> since[s], to |-> t]
      <3>1. p \in past'[r] BY <2>4 DEF GoesDown, TypeOK
      <3>2. p.from <= a + MaxSkew /\ b <= p.to + MaxSkew BY <1>1, <1>3, <2>4
      <3> QED BY <3>1, <3>2 DEF HeldAfter
    <2> QED BY <2>1, <2>2, <2>3, <2>4
  <1> QED BY <1>2, <1>3 DEF HeldBy

\* Every closed interval lies in a session of every source.
LEMMA ClosedSoundStep ==
  ASSUME IInv, Next
  PROVE  ClosedSound'
  <1> USE DEF IInv
  <1>1. PICK s \in Source, t \in Instant :
            Processed(s, t) /\ (Repeats(s, t) \/ ComesUp(s, t) \/ GoesDown(s, t))
    BY StepLemma
  <1>2. ASSUME NEW i \in DOMAIN all_up', NEW r \in Source, all_up'[i].to # NoInstant
        PROVE  HeldAfter(r, all_up'[i].from, all_up'[i].to)
    <2>1. CASE i \in DOMAIN all_up /\ all_up'[i] = all_up[i]
      <3>1. HeldBy(r, all_up[i].from, all_up[i].to)
        BY <1>2, <2>1 DEF ClosedSound, HeldBy
      <3>2. all_up[i].from \in Nat /\ all_up[i].to \in Nat /\ all_up[i].to <= newest
        BY <1>2, <2>1, ShapeLemma DEF IntervalsEnded
      <3> QED BY <1>1, <2>1, <3>1, <3>2, HeldLemma
    <2>2. CASE GoesDown(s, t) /\ IntervalOpen /\ i = Last
      <3>1. all_up'[i] = [from |-> all_up[i].from, to |-> t] /\ i \in DOMAIN all_up
        BY <2>2 DEF GoesDown, Closes
      <3>2. connected[r] /\ since[r] <= all_up[i].from + MaxSkew
        BY <2>2 DEF OpenSound, OpenIffAllConnected
      <3>3. HeldBy(r, all_up[i].from, t) BY <3>2 DEF HeldBy
      <3>4. all_up[i].from \in Nat /\ t \in Nat BY <3>1, ShapeLemma
      <3> QED BY <1>1, <3>1, <3>3, <3>4, HeldLemma
    <2>3. \/ i \in DOMAIN all_up /\ all_up'[i] = all_up[i]
          \/ GoesDown(s, t) /\ IntervalOpen /\ i = Last
      <3>1. CASE Keeps BY <1>2, <3>1 DEF Keeps
      <3>2. CASE Pushes(t)
        <4>1. i # Len(all_up) + 1 BY <1>2, <3>2 DEF Pushes
        <4>2. i \in DOMAIN all_up BY <1>2, <3>2, <4>1, ShapeLemma DEF Pushes
        <4> QED BY <3>2, <4>2 DEF Pushes
      <3>3. CASE GoesDown(s, t) /\ IntervalOpen BY <1>2, <3>3 DEF GoesDown, Closes
      <3> QED BY <1>1, <3>1, <3>2, <3>3 DEF Repeats, ComesUp, GoesDown
    <2> QED BY <2>1, <2>2, <2>3
  <1> QED BY <1>2 DEF ClosedSound, HeldAfter

\* An instant that an interval contains after the warm-up, before the step or
\* after it.
InInterval(x, iv) == x >= iv.from + Warmup /\ (iv.to = NoInstant \/ x < iv.to)

\* The step takes no instant out of the window but those from t on.
LEMMA WindowKept ==
  ASSUME IInv, NEW s \in Source, NEW t \in Instant,
         Repeats(s, t) \/ ComesUp(s, t) \/ GoesDown(s, t),
         NEW x \in Instant, x < t, in_window(x)
  PROVE  in_window(x)'
  <1> USE DEF IInv
  <1>1. PICK i \in DOMAIN all_up : InInterval(x, all_up[i])
    BY DEF in_window, InInterval
  <1>2. i \in DOMAIN all_up' /\ InInterval(x, all_up'[i])
    <2>1. CASE Keeps BY <1>1, <2>1 DEF Keeps
    <2>2. CASE Pushes(t) BY <1>1, <2>2, ShapeLemma DEF Pushes
    <2>3. CASE Closes(t) /\ i # Last BY <1>1, <2>3 DEF Closes
    <2>4. CASE Closes(t) /\ i = Last
      <3>1. all_up'[i] = [from |-> all_up[i].from, to |-> t] /\ i \in DOMAIN all_up'
        BY <2>4 DEF Closes
      <3> QED BY <1>1, <3>1 DEF InInterval
    <2> QED BY <2>1, <2>2, <2>3, <2>4 DEF Repeats, ComesUp, GoesDown
  <1> QED BY <1>2 DEF in_window, InInterval

\* The step puts no instant before t into the window.
LEMMA WindowGained ==
  ASSUME IInv, NEW s \in Source, NEW t \in Instant,
         Repeats(s, t) \/ ComesUp(s, t) \/ GoesDown(s, t),
         NEW x \in Instant, x < t, in_window(x)'
  PROVE  in_window(x)
  <1> USE DEF IInv
  <1>1. PICK i \in DOMAIN all_up' : InInterval(x, all_up'[i])
    BY DEF in_window, InInterval
  <1>2. i \in DOMAIN all_up /\ InInterval(x, all_up[i])
    <2>1. CASE Keeps BY <1>1, <2>1 DEF Keeps
    <2>2. CASE Pushes(t)
      <3>1. i # Len(all_up) + 1
        BY <1>1, <2>2 DEF Pushes, InInterval
      <3>2. i \in DOMAIN all_up BY <1>1, <2>2, <3>1, ShapeLemma DEF Pushes
      <3> QED BY <1>1, <2>2, <3>2 DEF Pushes
    <2>3. CASE Closes(t) /\ i # Last BY <1>1, <2>3 DEF Closes
    <2>4. CASE GoesDown(s, t) /\ IntervalOpen /\ Closes(t) /\ i = Last
      <3>1. /\ i \in DOMAIN all_up
            /\ all_up'[i] = [from |-> all_up[i].from, to |-> t]
            /\ all_up[i].to = NoInstant
        BY <2>4, OpenLemma DEF Closes
      <3> QED BY <1>1, <3>1 DEF InInterval
    <2> QED BY <2>1, <2>2, <2>3, <2>4 DEF Repeats, ComesUp, GoesDown
  <1> QED BY <1>2 DEF in_window, InInterval

\* An event does not change the verdict on the instants before its stamp.
LEMMA SettledLemma ==
  ASSUME IInv, NEW s \in Source, NEW t \in Instant, Connect(s, t) \/ Disconnect(s, t),
         NEW x \in Instant, x < t
  PROVE  in_window(x)' <=> in_window(x)
  <1>1. Repeats(s, t) \/ ComesUp(s, t) \/ GoesDown(s, t) BY EventLemma DEF IInv
  <1> QED BY <1>1, WindowKept, WindowGained

\* An instant that every source covers with a margin is in the window.
LEMMA CompleteStep ==
  ASSUME IInv, Next
  PROVE  InWindowComplete'
  <1> USE DEF IInv
  <1>1. PICK s \in Source, t \in Instant :
            Processed(s, t) /\ (Repeats(s, t) \/ ComesUp(s, t) \/ GoesDown(s, t))
    BY StepLemma
  <1>2. TypeOK' /\ OpenIffAllConnected' BY TypeStep, OpenStep
  <1> DEFINE Covered(x) == \A r \in Source : WarmAround(r, x, MaxSkew)
  <1> SUFFICES ASSUME NEW x \in Instant,
                      \A r \in Source : WarmAround(r, x, MaxSkew)'
               PROVE  in_window(x)'
    BY DEF InWindowComplete
  <1>3. /\ x \in Nat /\ t \in Nat /\ newest \in Nat /\ newest <= t + MaxSkew
        /\ \A r \in Source : \A p \in past[r] : p.to \in Nat /\ p.to <= newest
    <2>1. ASSUME NEW r \in Source, NEW p \in past[r]
          PROVE  p.to \in Nat /\ p.to <= newest
      <3>1. p \in Session BY DEF TypeOK
      <3>2. p.to \in Nat /\ stamp[r] \in Nat /\ newest \in Nat
        BY <3>1 DEF Session, TypeOK
      <3> QED BY <3>2 DEF StampsOrdered
    <2> QED BY <1>1, <2>1, SkewLemma
  <1>4. CASE Repeats(s, t)
    <2>1. Covered(x)
      BY <1>4 DEF Repeats, WarmAround
    <2>2. in_window(x) BY <2>1 DEF InWindowComplete
    <2> QED BY <1>4, <2>2 DEF Repeats, Keeps, in_window
  <1>5. CASE ComesUp(s, t)
    <2>1. CASE t + Warmup + MaxSkew <= x
      <3>1. ASSUME NEW r \in Source PROVE connected'[r]
        <4>1. CASE r = s BY <1>5, <4>1 DEF ComesUp, TypeOK
        <4>2. CASE r # s
          <5>1. past'[r] = past[r] /\ (connected'[r] <=> connected[r])
            BY <1>5, <4>2 DEF ComesUp, TypeOK
          <5>2. ASSUME NEW p \in past[r] PROVE ~(x + MaxSkew < p.to)
            BY <1>3, <2>1
          <5>3. connected'[r] \/ \E p \in past[r] : x + MaxSkew < p.to
            BY <5>1 DEF WarmAround
          <5> QED BY <5>2, <5>3
        <4> QED BY <4>1, <4>2
      <3>2. Pushes(t) BY <1>5, <3>1 DEF ComesUp
      <3>3. /\ Len(all_up) + 1 \in DOMAIN all_up'
            /\ InInterval(x, all_up'[Len(all_up) + 1])
        BY <1>3, <2>1, <3>2, ShapeLemma DEF Pushes, InInterval
      <3> QED BY <3>3 DEF in_window, InInterval
    <2>2. CASE ~(t + Warmup + MaxSkew <= x)
      <3>1. ASSUME NEW r \in Source PROVE WarmAround(r, x, MaxSkew)
        <4>1. CASE r = s
          <5>1. connected'[s] /\ since'[s] = t /\ past'[s] = past[s]
            BY <1>5 DEF ComesUp, TypeOK
          <5> QED BY <2>2, <4>1, <5>1 DEF WarmAround
        <4>2. CASE r # s
          <5>1. /\ past'[r] = past[r] /\ since'[r] = since[r]
                /\ connected'[r] <=> connected[r]
            BY <1>5, <4>2 DEF ComesUp, TypeOK
          <5> QED BY <5>1 DEF WarmAround
        <4> QED BY <4>1, <4>2
      <3>2. in_window(x) BY <3>1 DEF InWindowComplete
      <3>3. CASE Keeps BY <3>2, <3>3 DEF Keeps, in_window
      <3>4. CASE Pushes(t)
        <4>1. PICK i \in DOMAIN all_up : InInterval(x, all_up[i])
          BY <3>2 DEF in_window, InInterval
        <4>2. i \in DOMAIN all_up' /\ InInterval(x, all_up'[i])
          BY <3>4, <4>1, ShapeLemma DEF Pushes
        <4> QED BY <4>2 DEF in_window, InInterval
      <3> QED BY <1>5, <3>3, <3>4 DEF ComesUp
    <2> QED BY <2>1, <2>2
  <1>6. CASE GoesDown(s, t)
    <2>1. x + MaxSkew < t
      <3>1. ~connected'[s] BY <1>6 DEF GoesDown, TypeOK
      <3>2. PICK p \in past'[s] : x + MaxSkew < p.to BY <3>1 DEF WarmAround
      <3>3. p.to = t \/ p \in past[s] BY <1>6 DEF GoesDown, TypeOK
      <3>4. CASE p.to = t BY <3>2, <3>4
      <3>5. CASE p \in past[s]
        <4>1. p \in Session BY <3>5 DEF TypeOK
        <4>2. p.to \in Nat /\ stamp[s] \in Nat BY <4>1 DEF Session, TypeOK
        <4>3. p.to <= stamp[s] /\ stamp[s] <= t
          BY <1>1, <3>5 DEF StampsOrdered, Processed
        <4> QED BY <1>3, <3>2, <4>2, <4>3
      <3> QED BY <3>3, <3>4, <3>5
    <2>2. ASSUME NEW r \in Source PROVE WarmAround(r, x, MaxSkew)
      <3>1. CASE r # s
        <4>1. /\ past'[r] = past[r] /\ since'[r] = since[r]
              /\ connected'[r] <=> connected[r]
          BY <1>6, <3>1 DEF GoesDown, TypeOK
        <4> QED BY <4>1 DEF WarmAround
      <3>2. CASE r = s
        <4>1. ~connected'[s] BY <1>6 DEF GoesDown, TypeOK
        <4>2. PICK p \in past'[s] : p.from + Warmup + MaxSkew <= x /\ x + MaxSkew < p.to
          BY <4>1 DEF WarmAround
        <4>3. p = [from |-> since[s], to |-> t] \/ p \in past[s]
          BY <1>6 DEF GoesDown, TypeOK
        <4> QED BY <1>6, <3>2, <4>2, <4>3 DEF WarmAround, GoesDown
      <3> QED BY <3>1, <3>2
    <2>3. in_window(x) BY <2>2 DEF InWindowComplete
    <2>4. x < t BY <1>3, <2>1
    <2> QED BY <1>6, <2>3, <2>4, WindowKept
  <1> QED BY <1>1, <1>4, <1>5, <1>6

-----------------------------------------------------------------------------
(***************************************************************************)
(* The theorems.                                                           *)
(***************************************************************************)

\* The strengthened invariant holds initially.
LEMMA InitLemma == Init => IInv
  <1> SUFFICES ASSUME Init PROVE IInv OBVIOUS
  <1>1. all_up = <<>> /\ DOMAIN all_up = {} /\ newest = 0
    BY DEF Init, WindowsInit
  <1>2. PICK s \in Source : TRUE OBVIOUS
  <1>3. /\ \A r \in Source : ~connected[r]
        /\ \A r \in Source : past[r] = {}
        /\ \A r \in Source : stamp[r] = 0
    BY DEF Init, WindowsInit
  <1>4. ~IntervalOpen BY <1>1 DEF IntervalOpen
  <1>5. TypeOK
    <2>1. all_up \in Seq([from : Instant, to : Instant \cup {NoInstant}]) BY <1>1
    <2> QED BY <2>1 DEF Init, WindowsInit, TypeOK
  <1>6. OpenIffAllConnected BY <1>1, <1>2, <1>3, <1>4 DEF OpenIffAllConnected
  <1>7. StampsOrdered BY <1>1, <1>3 DEF StampsOrdered
  <1>8. IntervalsEnded /\ IntervalsOrdered /\ ClosedSound
    BY <1>1 DEF IntervalsEnded, IntervalsOrdered, ClosedSound
  <1>9. OpenSound BY <1>4 DEF OpenSound
  <1>10. InWindowComplete BY <1>2, <1>3 DEF InWindowComplete, WarmAround
  <1> QED BY <1>5, <1>6, <1>7, <1>8, <1>9, <1>10 DEF IInv

\* The strengthened invariant is inductive.
LEMMA StepInvariant == IInv /\ [Next]_vars => IInv'
  <1> SUFFICES ASSUME IInv, [Next]_vars PROVE IInv' OBVIOUS
  <1>1. CASE Next
    <2>1. TypeOK' BY <1>1, TypeStep DEF IInv
    <2>2. OpenIffAllConnected' BY <1>1, <2>1, OpenStep DEF IInv
    <2>3. StampsOrdered' BY <1>1, StampsStep DEF IInv
    <2>4. IntervalsEnded' /\ IntervalsOrdered' BY <1>1, IntervalsStep DEF IInv
    <2>5. OpenSound' /\ ClosedSound' BY <1>1, OpenSoundStep, ClosedSoundStep
    <2>6. InWindowComplete' BY <1>1, CompleteStep
    <2> QED BY <2>1, <2>2, <2>3, <2>4, <2>5, <2>6 DEF IInv
  <1>2. CASE UNCHANGED vars
    BY <1>2 DEF IInv, vars, windowVars, history, TypeOK, OpenIffAllConnected, StampsOrdered,
                IntervalsEnded, IntervalsOrdered, OpenSound, ClosedSound, InWindowComplete,
                IntervalOpen, Last, in_window, WarmAround
  <1> QED BY <1>1, <1>2

\* IInv holds throughout.
THEOREM Invariance == Spec => []IInv
  BY InitLemma, StepInvariant, PTL DEF Spec

\* The fields of the Collector keep their types.
THEOREM TypeCorrect == Spec => []TypeOK
  <1>1. IInv => TypeOK BY DEF IInv
  <1> QED BY <1>1, Invariance, PTL

\* An interval is open exactly while every source is connected, and it is the
\* last one: last() and last_mut() always meet the interval they mean.
THEOREM OpenIntervalCorrect == Spec => []OpenIffAllConnected
  <1>1. IInv => OpenIffAllConnected BY DEF IInv
  <1> QED BY <1>1, Invariance, PTL

\* Intervals overlap by at most the lateness of the events.
THEOREM OverlapBounded == Spec => []IntervalsOrdered
  <1>1. IInv => IntervalsOrdered BY DEF IInv
  <1> QED BY <1>1, Invariance, PTL

\* The window rejects no instant that every source covers with a margin.
THEOREM WindowComplete == Spec => []InWindowComplete
  <1>1. IInv => InWindowComplete BY DEF IInv
  <1> QED BY <1>1, Invariance, PTL

\* An open interval began, up to the lateness, after every open session.
LEMMA OpenIntervalLemma ==
  ASSUME IInv, NEW i \in DOMAIN all_up, all_up[i].to = NoInstant, NEW s \in Source
  PROVE  connected[s] /\ since[s] \in Nat /\ since[s] <= all_up[i].from + MaxSkew
  <1>1. i = Last BY DEF IInv, OpenIffAllConnected
  <1>2. IntervalOpen BY <1>1, OpenLemma DEF IInv
  <1> QED BY <1>1, <1>2 DEF IInv, OpenIffAllConnected, OpenSound, StampsOrdered

\* The window accepts no instant at which a source was down or warming up, up
\* to the lateness of the events.
THEOREM WindowSound == Spec => []InWindowSound
  <1>1. ASSUME IInv PROVE InWindowSound
    <2> SUFFICES ASSUME NEW x \in Instant, in_window(x), NEW s \in Source
                 PROVE  WarmNear(s, x, MaxSkew)
      BY DEF InWindowSound
    <2>1. PICK i \in DOMAIN all_up :
             x >= all_up[i].from + Warmup /\ (all_up[i].to = NoInstant \/ x < all_up[i].to)
      BY DEF in_window
    <2>2. x \in Nat /\ all_up[i].from \in Nat BY <1>1, ShapeLemma DEF IInv
    <2>3. CASE all_up[i].to = NoInstant
      BY <1>1, <2>1, <2>2, <2>3, OpenIntervalLemma DEF WarmNear
    <2>4. CASE all_up[i].to # NoInstant
      <3>1. all_up[i].to \in Nat /\ x < all_up[i].to
        BY <1>1, <2>1, <2>4, ShapeLemma DEF IInv
      <3>2. CASE connected[s] /\ since[s] <= all_up[i].from + MaxSkew
        <4>1. since[s] \in Nat BY <1>1, <3>2 DEF IInv, StampsOrdered
        <4> QED BY <2>1, <2>2, <3>2, <4>1 DEF WarmNear
      <3>3. CASE \E p \in past[s] : /\ p.from <= all_up[i].from + MaxSkew
                                    /\ all_up[i].to <= p.to + MaxSkew
        <4>1. PICK p \in past[s] : /\ p.from <= all_up[i].from + MaxSkew
                                   /\ all_up[i].to <= p.to + MaxSkew
          BY <3>3
        <4>2. p \in Session BY <1>1 DEF IInv, TypeOK
        <4>3. p.from \in Nat /\ p.to \in Nat BY <4>2 DEF Session
        <4>4. p.from + Warmup <= x + MaxSkew BY <2>1, <2>2, <4>1, <4>3
        <4>5. x < p.to + MaxSkew BY <2>2, <3>1, <4>1, <4>3
        <4> QED BY <4>4, <4>5 DEF WarmNear
      <3> QED BY <1>1, <2>4, <3>2, <3>3 DEF IInv, ClosedSound
    <2> QED BY <2>3, <2>4
  <1> QED BY <1>1, Invariance, PTL

\* Processed in the order of their stamps, the events give the intervals during
\* which every source was connected, exactly.
THEOREM OrderedExact == MaxSkew = 0 => (Spec => []AllUpExact)
  <1> SUFFICES ASSUME MaxSkew = 0 PROVE Spec => []AllUpExact OBVIOUS
  <1>1. ASSUME IInv PROVE AllUpExact
    <2> SUFFICES ASSUME NEW i \in DOMAIN all_up, NEW x \in Instant,
                        all_up[i].from <= x,
                        all_up[i].to = NoInstant \/ x < all_up[i].to,
                        NEW s \in Source
                 PROVE  UpAt(s, x)
      BY DEF AllUpExact
    <2>1. x \in Nat /\ all_up[i].from \in Nat BY <1>1, ShapeLemma DEF IInv
    <2>2. CASE all_up[i].to = NoInstant
      BY <1>1, <2>1, <2>2, OpenIntervalLemma DEF UpAt
    <2>3. CASE all_up[i].to # NoInstant
      <3>1. all_up[i].to \in Nat /\ x < all_up[i].to
        BY <1>1, <2>3, ShapeLemma DEF IInv
      <3>2. CASE connected[s] /\ since[s] <= all_up[i].from + MaxSkew
        <4>1. since[s] \in Nat BY <1>1, <3>2 DEF IInv, StampsOrdered
        <4> QED BY <2>1, <3>2, <4>1 DEF UpAt
      <3>3. CASE \E p \in past[s] : /\ p.from <= all_up[i].from + MaxSkew
                                    /\ all_up[i].to <= p.to + MaxSkew
        <4>1. PICK p \in past[s] : /\ p.from <= all_up[i].from + MaxSkew
                                   /\ all_up[i].to <= p.to + MaxSkew
          BY <3>3
        <4>2. p \in Session BY <1>1 DEF IInv, TypeOK
        <4>3. p.from \in Nat /\ p.to \in Nat BY <4>2 DEF Session
        <4> QED BY <2>1, <3>1, <4>1, <4>3 DEF UpAt
      <3> QED BY <1>1, <2>3, <3>2, <3>3 DEF IInv, ClosedSound
    <2> QED BY <2>2, <2>3
  <1> QED BY <1>1, Invariance, PTL

\* The verdict on an instant older than the lateness of the events is final.
THEOREM VerdictFinal == Spec => WindowSettles
  <1>1. ASSUME IInv, [Next]_vars
        PROVE  [\A x \in Instant : x + MaxSkew < newest => (in_window(x)' <=> in_window(x))]_vars
    <2>1. CASE UNCHANGED vars BY <2>1
    <2>2. ASSUME Next, NEW x \in Instant, x + MaxSkew < newest
          PROVE  in_window(x)' <=> in_window(x)
      <3>1. PICK s \in Source, t \in Instant :
                Processed(s, t) /\ (Repeats(s, t) \/ ComesUp(s, t) \/ GoesDown(s, t))
        BY <1>1, <2>2, StepLemma DEF IInv
      <3>2. x < t
        <4>1. t \in Nat /\ newest \in Nat /\ newest <= t + MaxSkew /\ x \in Nat
          BY <1>1, <3>1, SkewLemma DEF IInv
        <4> QED BY <2>2, <4>1
      <3>3. in_window(x) => in_window(x)' BY <1>1, <3>1, <3>2, WindowKept
      <3>4. in_window(x)' => in_window(x) BY <1>1, <3>1, <3>2, WindowGained
      <3> QED BY <3>3, <3>4
    <2> QED BY <1>1, <2>1, <2>2
  <1> QED BY <1>1, Invariance, PTL DEF Spec, WindowSettles

-----------------------------------------------------------------------------
(***************************************************************************)
(* The length of the window.  The sum over the intervals is recursive;     *)
(* induction over a set of numbers shows what it computes.                 *)
(***************************************************************************)

\* A set of numbers has a least one.
LEMMA LeastNumber ==
  ASSUME NEW T \in SUBSET Nat, T # {}
  PROVE  \E x \in T : \A y \in T : x <= y
  <1> DEFINE below == OpToRel(<, Nat)
  <1>1. IsWellFoundedOn(below, Nat) BY NatLessThanWellFounded, Zenon
  <1>2. \A x, y \in Nat : <<y, x>> \in below <=> y < x BY DEF OpToRel
  <1> HIDE DEF below
  <1>3. PICK x \in T : \A y \in T : ~ (<<y, x>> \in below) BY <1>1, WFMin
  <1>4. \A y \in T : ~ (y < x) /\ y \in Nat /\ x \in Nat BY <1>2, <1>3
  <1>5. \A y \in T : x <= y BY <1>4
  <1> QED BY <1>5

\* Induction: a set with 0 and the successor of each of its members has all numbers.
LEMMA AllNumbers ==
  ASSUME NEW S \in SUBSET Nat, 0 \in S, \A n \in S : n + 1 \in S
  PROVE  S = Nat
  <1> SUFFICES ASSUME Nat \ S # {} PROVE FALSE OBVIOUS
  <1>1. PICK x \in Nat \ S : \A y \in Nat \ S : x <= y BY LeastNumber
  <1>2. x # 0 /\ x - 1 \in Nat BY <1>1
  <1>3. x - 1 \in S BY <1>1, <1>2
  <1> QED BY <1>1, <1>2, <1>3

\* f is the running sum of the lengths of the first k intervals.
RunningSum(f, k, now) ==
    f = [i \in 0 .. k |-> IF i = 0 THEN 0 ELSE f[i - 1] + seconds(i, now)]

\* The length of an interval is a number.
LEMMA SecondsType ==
  ASSUME TypeOK, NEW now \in Instant, NEW i \in DOMAIN all_up
  PROVE  seconds(i, now) \in Nat
  <1>1. all_up[i].from \in Nat /\ (all_up[i].to # NoInstant => all_up[i].to \in Nat) /\ now \in Nat
    BY ShapeLemma
  <1> QED BY <1>1 DEF seconds

\* There is a running sum, as long as there are intervals.
LEMMA SumExists ==
  ASSUME TypeOK, NEW now \in Instant
  PROVE  \E f : RunningSum(f, Last, now)
  <1> DEFINE S == {k \in Nat : k <= Last => \E f : RunningSum(f, k, now)}
  <1>1. Last \in Nat BY ShapeLemma
  <1>2. 0 \in S
    <2> DEFINE f == [i \in 0 .. 0 |-> 0]
    <2>1. RunningSum(f, 0, now) BY DEF RunningSum
    <2> QED BY <2>1
  <1>3. ASSUME NEW k \in S PROVE k + 1 \in S
    <2>1. k \in Nat /\ k + 1 \in Nat OBVIOUS
    <2>2. SUFFICES ASSUME k + 1 <= Last PROVE \E f : RunningSum(f, k + 1, now)
      BY <2>1
    <2>3. PICK f : RunningSum(f, k, now) BY <1>1, <2>1, <2>2
    <2> DEFINE g == [i \in 0 .. k + 1 |-> IF i = k + 1 THEN f[k] + seconds(k + 1, now) ELSE f[i]]
    <2>4. \A i \in 0 .. k : f[i] = IF i = 0 THEN 0 ELSE f[i - 1] + seconds(i, now)
      BY <2>1, <2>3 DEF RunningSum
    <2>5. ASSUME NEW i \in 0 .. k + 1
          PROVE  g[i] = IF i = 0 THEN 0 ELSE g[i - 1] + seconds(i, now)
      <3>1. CASE i = k + 1
        <4>1. i # 0 /\ i - 1 = k /\ k \in 0 .. k + 1 /\ k # k + 1 BY <2>1, <3>1
        <4>2. g[i] = f[k] + seconds(k + 1, now) /\ g[k] = f[k] BY <2>1, <3>1, <4>1
        <4> QED BY <3>1, <4>1, <4>2
      <3>2. CASE i # k + 1
        <4>1. i \in 0 .. k /\ g[i] = f[i] BY <2>1, <3>2
        <4>2. i # 0 => i - 1 \in 0 .. k /\ i - 1 \in 0 .. k + 1 /\ i - 1 # k + 1 BY <2>1, <4>1
        <4>3. i # 0 => g[i - 1] = f[i - 1] BY <4>2
        <4> QED BY <2>4, <4>1, <4>3
      <3> QED BY <3>1, <3>2
    <2>6. g = [i \in 0 .. k + 1 |-> IF i = 0 THEN 0 ELSE g[i - 1] + seconds(i, now)]
      <3>1. DOMAIN g = 0 .. k + 1 /\ g = [i \in 0 .. k + 1 |-> g[i]] OBVIOUS
      <3> HIDE DEF g
      <3> QED BY <2>5, <3>1
    <2> HIDE DEF g
    <2> QED BY <2>6 DEF RunningSum
  <1>4. S \in SUBSET Nat OBVIOUS
  <1> HIDE DEF S
  <1>5. S = Nat BY <1>2, <1>3, <1>4, AllNumbers
  <1> QED BY <1>1, <1>5 DEF S

\* window_seconds is the end of a running sum.
LEMMA SumLemma ==
  ASSUME TypeOK, NEW now \in Instant
  PROVE  \E f : /\ RunningSum(f, Last, now)
                /\ window_seconds(now) = f[Last]
  <1> DEFINE f == CHOOSE g : RunningSum(g, Last, now)
  <1>1. RunningSum(f, Last, now) BY SumExists
  <1>2. window_seconds(now) = f[Last] BY DEF window_seconds, RunningSum
  <1> HIDE DEF f
  <1> QED BY <1>1, <1>2

\* The instants are consecutive: no second is left out of the clock.
InstantsConsecutive == \A x \in Instant : 0 .. x \subseteq Instant

\* The instants that interval i gives the window up to now, ...
Given(i, now) ==
    {x \in Instant : /\ x < now /\ x >= all_up[i].from + Warmup
                     /\ all_up[i].to = NoInstant \/ x < all_up[i].to}

\* ... and those that the first k intervals give it.
GivenBy(k, now) == {x \in Instant : \E i \in 1 .. k : x \in Given(i, now)}

\* An interval gives as many instants as it is counted for.
LEMMA GivenLemma ==
  ASSUME IInv, InstantsConsecutive, NEW now \in Instant, newest <= now,
         NEW i \in DOMAIN all_up
  PROVE  /\ IsFiniteSet(Given(i, now))
         /\ Cardinality(Given(i, now)) = seconds(i, now)
  <1> DEFINE begin == all_up[i].from + Warmup
             end   == IF all_up[i].to = NoInstant THEN now ELSE all_up[i].to
  <1>1. /\ now \in Nat /\ all_up[i].from \in Nat /\ newest \in Nat
        /\ all_up[i].to # NoInstant => all_up[i].to \in Nat /\ all_up[i].to <= newest
    BY ShapeLemma DEF IInv, TypeOK, IntervalsEnded
  <1>2. begin \in Nat /\ end \in Nat /\ end <= now BY <1>1
  <1>3. \A x \in Instant : x \in Given(i, now) <=> x >= begin /\ x < end
    BY <1>1 DEF Given
  <1>4. seconds(i, now) = IF end > begin THEN end - begin ELSE 0 BY DEF seconds
  <1> HIDE DEF begin, end
  <1>5. Given(i, now) = begin .. end - 1
    <2>1. ASSUME NEW x \in begin .. end - 1 PROVE x \in Given(i, now)
      <3>1. x \in 0 .. now BY <1>1, <1>2
      <3>2. x \in Instant BY <3>1 DEF InstantsConsecutive
      <3>3. x >= begin /\ x < end BY <1>2
      <3> QED BY <1>3, <3>2, <3>3
    <2>2. ASSUME NEW x \in Given(i, now) PROVE x \in begin .. end - 1
      <3>1. x \in Instant /\ x \in Nat BY DEF Given
      <3>2. x >= begin /\ x < end BY <1>3, <3>1
      <3> QED BY <1>2, <3>1, <3>2
    <2> QED BY <2>1, <2>2
  <1>6. /\ IsFiniteSet(begin .. end - 1)
        /\ Cardinality(begin .. end - 1) =
               IF begin > end - 1 THEN 0 ELSE (end - 1) - begin + 1
    <2>1. begin \in Int /\ end - 1 \in Int BY <1>2
    <2> QED BY <2>1, FS_Interval
  <1>7. (IF begin > end - 1 THEN 0 ELSE (end - 1) - begin + 1)
            = IF end > begin THEN end - begin ELSE 0
    BY <1>2
  <1> QED BY <1>4, <1>5, <1>6, <1>7

\* The next interval shares at most MaxSkew instants with those before it.
LEMMA SharedLemma ==
  ASSUME IInv, NEW now \in Instant, NEW k \in Nat, k + 1 \in DOMAIN all_up
  PROVE  LET shared == GivenBy(k, now) \cap Given(k + 1, now)
         IN  IsFiniteSet(shared) /\ Cardinality(shared) <= MaxSkew
  <1> DEFINE shared == GivenBy(k, now) \cap Given(k + 1, now)
             from   == all_up[k + 1].from
  <1>1. /\ from \in Nat /\ DOMAIN all_up = 1 .. Last /\ Last \in Nat /\ k + 1 <= Last
        /\ \A i \in DOMAIN all_up : all_up[i].to # NoInstant => all_up[i].to \in Nat
    BY ShapeLemma DEF IInv
  <1>2. ASSUME NEW x \in shared PROVE x \in from .. from + MaxSkew - 1
    <2>1. x \in Nat /\ x >= from + Warmup BY DEF Given
    <2>2. PICK i \in 1 .. k : x \in Given(i, now) BY DEF GivenBy
    <2>3. i \in DOMAIN all_up /\ i # Last /\ i < k + 1 BY <1>1
    <2>4. all_up[i].to # NoInstant BY <2>3 DEF IInv, OpenIffAllConnected
    <2>5. all_up[i].to \in Nat /\ x < all_up[i].to BY <1>1, <2>2, <2>3, <2>4 DEF Given
    <2>6. all_up[i].to <= from + MaxSkew BY <2>3 DEF IInv, IntervalsOrdered
    <2> QED BY <1>1, <2>1, <2>5, <2>6
  <1> HIDE DEF shared, from
  <1>3. /\ IsFiniteSet(from .. from + MaxSkew - 1)
        /\ Cardinality(from .. from + MaxSkew - 1) = MaxSkew
    <2>1. from \in Int /\ from + MaxSkew - 1 \in Int BY <1>1
    <2>2. MaxSkew \in Nat BY DEF BoundAssumption
    <2>3. \A b \in Int : /\ IsFiniteSet(from .. b)
                         /\ Cardinality(from .. b) = IF from > b THEN 0 ELSE b - from + 1
      BY <2>1, FS_Interval
    <2>4. PICK b \in Int : b = from + MaxSkew - 1 BY <2>1
    <2>5. (IF from > b THEN 0 ELSE b - from + 1) = MaxSkew BY <2>1, <2>2, <2>4
    <2>6. IsFiniteSet(from .. b) /\ Cardinality(from .. b) = MaxSkew BY <2>3, <2>5
    <2> QED BY <2>4, <2>6
  <1>4. shared \in SUBSET (from .. from + MaxSkew - 1) BY <1>2
  <1>5. IsFiniteSet(shared) /\ Cardinality(shared) <= MaxSkew BY <1>3, <1>4, FS_Subset
  <1> QED BY <1>5 DEF shared

\* What the first k intervals give is their sum but for what they share.
NearSum(f, k, now) ==
    /\ IsFiniteSet(GivenBy(k, now))
    /\ Cardinality(GivenBy(k, now)) <= f[k]
    /\ f[k] <= Cardinality(GivenBy(k, now)) + MaxSkew * k

\* One interval more.
LEMMA NearStep ==
  ASSUME IInv, InstantsConsecutive, NEW now \in Instant, newest <= now,
         NEW f, RunningSum(f, Last, now), NEW k \in Nat, k + 1 <= Last,
         f[k] \in Nat, NearSum(f, k, now)
  PROVE  NearSum(f, k + 1, now) /\ f[k + 1] \in Nat
  <1>1. /\ Last \in Nat /\ DOMAIN all_up = 1 .. Last /\ k + 1 \in DOMAIN all_up /\ TypeOK
    BY ShapeLemma DEF IInv
  <1>2. f[k + 1] = f[k] + seconds(k + 1, now)
    <2>1. k + 1 \in 0 .. Last /\ k + 1 # 0 /\ k + 1 - 1 = k BY <1>1
    <2>2. \A i \in 0 .. Last : f[i] = IF i = 0 THEN 0 ELSE f[i - 1] + seconds(i, now)
      BY DEF RunningSum
    <2>3. f[k + 1] = f[k + 1 - 1] + seconds(k + 1, now) BY <2>1, <2>2
    <2> QED BY <2>1, <2>3
  <1> DEFINE A == GivenBy(k, now)
             B == Given(k + 1, now)
  <1>3. GivenBy(k + 1, now) = A \cup B
    <2>1. \A x \in Instant : x \in GivenBy(k + 1, now) <=> x \in A \/ x \in B
      <3>1. \A i \in 1 .. k + 1 : i = k + 1 \/ i \in 1 .. k OBVIOUS
      <3>2. k + 1 \in 1 .. k + 1 /\ \A i \in 1 .. k : i \in 1 .. k + 1 OBVIOUS
      <3> QED BY <3>1, <3>2 DEF GivenBy
    <2>2. GivenBy(k + 1, now) \subseteq Instant /\ A \subseteq Instant /\ B \subseteq Instant
      BY DEF GivenBy, Given
    <2> QED BY <2>1, <2>2
  <1>4. IsFiniteSet(B) /\ Cardinality(B) = seconds(k + 1, now) BY <1>1, GivenLemma
  <1>5. IsFiniteSet(A \cap B) /\ Cardinality(A \cap B) <= MaxSkew BY <1>1, SharedLemma
  <1>6. /\ IsFiniteSet(A) /\ Cardinality(A) <= f[k] /\ f[k] <= Cardinality(A) + MaxSkew * k
    BY DEF NearSum
  <1> HIDE DEF A, B
  <1>7. /\ IsFiniteSet(A \cup B)
        /\ Cardinality(A \cup B) = Cardinality(A) + Cardinality(B) - Cardinality(A \cap B)
    BY <1>4, <1>6, FS_Union
  <1>8. /\ Cardinality(A) \in Nat /\ Cardinality(B) \in Nat /\ Cardinality(A \cap B) \in Nat
        /\ Cardinality(A \cup B) \in Nat
    BY <1>4, <1>5, <1>6, <1>7, FS_CardinalityType
  <1>9. PICK p \in Nat : p = MaxSkew * k /\ MaxSkew * (k + 1) = p + MaxSkew OBVIOUS
  <1>10. f[k + 1] \in Nat BY <1>2, <1>4, <1>8
  <1>11. /\ Cardinality(A \cup B) <= f[k + 1]
         /\ f[k + 1] <= Cardinality(A \cup B) + (p + MaxSkew)
    BY <1>2, <1>4, <1>5, <1>6, <1>7, <1>8, <1>9
  <1> QED BY <1>3, <1>7, <1>9, <1>10, <1>11 DEF NearSum

\* The length that the report divides by is the number of instants in the window,
\* up to the lateness of the events for each interval, however often the sources
\* flap (stats.rs:282).
THEOREM WindowLength == InstantsConsecutive => (Spec => []WindowSecondsNear)
  <1> SUFFICES ASSUME InstantsConsecutive PROVE Spec => []WindowSecondsNear OBVIOUS
  <1>1. IInv => WindowSecondsNear
    <2> SUFFICES ASSUME IInv, NEW now \in Instant, newest <= now
                 PROVE  LET n == Cardinality({x \in Instant : x < now /\ in_window(x)})
                        IN  /\ n <= window_seconds(now)
                            /\ window_seconds(now) <= n + MaxSkew * Len(all_up)
      BY DEF WindowSecondsNear
    <2>1. TypeOK /\ Last \in Nat /\ Last = Len(all_up) /\ DOMAIN all_up = 1 .. Last
      BY ShapeLemma DEF IInv
    <2>2. PICK f : RunningSum(f, Last, now) /\ window_seconds(now) = f[Last]
      BY <2>1, SumLemma
    <2>3. {x \in Instant : x < now /\ in_window(x)} = GivenBy(Last, now)
      BY <2>1 DEF GivenBy, Given, in_window
    <2> DEFINE S == {k \in Nat : k <= Last => f[k] \in Nat /\ NearSum(f, k, now)}
    <2>4. 0 \in S
      <3>1. f[0] = 0
        <4>1. 0 \in 0 .. Last BY <2>1
        <4> QED BY <2>2, <4>1 DEF RunningSum
      <3>2. GivenBy(0, now) = {} BY DEF GivenBy
      <3>3. IsFiniteSet(GivenBy(0, now)) /\ Cardinality(GivenBy(0, now)) = 0
        BY <3>2, FS_EmptySet
      <3>4. MaxSkew * 0 = 0 OBVIOUS
      <3>5. NearSum(f, 0, now) BY <3>1, <3>3, <3>4 DEF NearSum
      <3> QED BY <3>1, <3>5
    <2>5. ASSUME NEW k \in S PROVE k + 1 \in S
      <3>1. k \in Nat /\ k + 1 \in Nat OBVIOUS
      <3>2. SUFFICES ASSUME k + 1 <= Last PROVE f[k + 1] \in Nat /\ NearSum(f, k + 1, now)
        BY <3>1
      <3>3. k <= Last BY <2>1, <3>1, <3>2
      <3>4. f[k] \in Nat /\ NearSum(f, k, now) BY <2>5, <3>3
      <3> QED BY <2>2, <3>1, <3>2, <3>4, NearStep
    <2>6. S \in SUBSET Nat OBVIOUS
    <2> HIDE DEF S
    <2>7. S = Nat BY <2>4, <2>5, <2>6, AllNumbers
    <2>8. NearSum(f, Last, now) BY <2>1, <2>7 DEF S
    <2> QED BY <2>1, <2>2, <2>3, <2>8 DEF NearSum
  <1> QED BY <1>1, Invariance, PTL
=============================================================================
