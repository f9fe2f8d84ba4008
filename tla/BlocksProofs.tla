---------------------------- MODULE BlocksProofs ----------------------------
(***************************************************************************)
(* What holds of the block table for every finite set of sources, every    *)
(* set of blocks, every threshold MinSources and every lateness MaxSkew of *)
(* the events that reach the Collector.                                    *)
(***************************************************************************)
EXTENDS BlocksRun, SequenceTheorems, FiniteSetTheorems, TLAPS

USE InstantAssumption, SkewAssumption, BoundAssumption

-----------------------------------------------------------------------------
(***************************************************************************)
(* One record: what holds of it, and what Record makes of it.              *)
(***************************************************************************)

Arrivals == [Source -> Instant \cup {NoInstant}]

\* The winner of a record delivered no later than any other source.
Leads(rec) ==
    /\ rec.arrivals[rec.first_src] = rec.first
    /\ \A s \in Arrived(rec.arrivals) : rec.first <= rec.arrivals[s]

\* The count of a record is right and one delivery is the last.
Counts(rec) ==
    /\ rec.seen = Cardinality(Arrived(rec.arrivals))
    /\ \E r \in Arrived(rec.arrivals) :
           \A s \in Arrived(rec.arrivals) : rec.arrivals[s] <= rec.arrivals[r]

\* The sources that delivered slack or more before the completion.
By(rec, slack) ==
    {s \in Arrived(rec.arrivals) : rec.arrivals[s] + slack <= rec.completed_at}

Timely(rec) ==
    rec.completed_at # NoInstant =>
        /\ Cardinality(By(rec, 0)) >= MinSources
        /\ Cardinality(By(rec, MaxSkew + 1)) < MinSources

Complete(rec) == rec.completed_at # NoInstant <=> Cardinality(Arrived(rec.arrivals)) >= MinSources

RecentTo(rec, n) ==
    /\ \A s \in Arrived(rec.arrivals) : rec.arrivals[s] <= n
    /\ rec.completed_at # NoInstant => rec.completed_at <= n

GoodRecord(rec, n) ==
    /\ rec \in BlockRec
    /\ Leads(rec)
    /\ Counts(rec)
    /\ Timely(rec)
    /\ Complete(rec)
    /\ RecentTo(rec, n)

\* The sources that delivered a block are finitely many.
LEMMA ArrivedFinite ==
  ASSUME NEW a
  PROVE  /\ IsFiniteSet(Arrived(a)) /\ Cardinality(Arrived(a)) \in Nat
         /\ \A T \in SUBSET Arrived(a) : /\ IsFiniteSet(T) /\ Cardinality(T) \in Nat
                                         /\ Cardinality(T) <= Cardinality(Arrived(a))
  <1>1. Arrived(a) \in SUBSET Source BY DEF Arrived
  <1>2. IsFiniteSet(Arrived(a)) BY <1>1, SourceAssumption, FS_Subset
  <1>3. ASSUME NEW T \in SUBSET Arrived(a)
        PROVE  IsFiniteSet(T) /\ Cardinality(T) \in Nat /\ Cardinality(T) <= Cardinality(Arrived(a))
    <2>1. IsFiniteSet(T) /\ Cardinality(T) <= Cardinality(Arrived(a))
      BY <1>2, FS_Subset
    <2> QED BY <2>1, FS_CardinalityType
  <1> QED BY <1>2, <1>3, FS_CardinalityType

\* One more source has delivered.
LEMMA ArrivedGrows ==
  ASSUME NEW a \in Arrivals, NEW b \in Arrivals, NEW s \in Source,
         a[s] = NoInstant, b[s] \in Instant,
         \A r \in Source : r # s => b[r] = a[r]
  PROVE  /\ s \notin Arrived(a)
         /\ Arrived(b) = Arrived(a) \cup {s}
         /\ Cardinality(Arrived(b)) = Cardinality(Arrived(a)) + 1
  <1>1. s \notin Arrived(a) BY DEF Arrived
  <1>2. Arrived(b) = Arrived(a) \cup {s} BY DEF Arrived
  <1> QED BY <1>1, <1>2, ArrivedFinite, FS_AddElement

\* LastArrival is the latest of the arrivals when there is one.
LEMMA LastArrivalLemma ==
  ASSUME NEW a \in Arrivals, NEW r \in Arrived(a),
         \A q \in Arrived(a) : a[q] <= a[r]
  PROVE  /\ LastArrival(a) \in Instant
         /\ \E q \in Arrived(a) : a[q] = LastArrival(a)
         /\ \A q \in Arrived(a) : a[q] <= LastArrival(a)
  <1>1. \E t \in {a[q] : q \in Arrived(a)} : \A q \in Arrived(a) : a[q] <= t
    OBVIOUS
  <1>2. /\ LastArrival(a) \in {a[q] : q \in Arrived(a)}
        /\ \A q \in Arrived(a) : a[q] <= LastArrival(a)
    BY <1>1 DEF LastArrival
  <1>3. \A q \in Arrived(a) : a[q] \in Instant BY DEF Arrived, Arrivals
  <1> QED BY <1>2, <1>3

\* What Entry makes for a key it meets first, when s delivers it at t.
Fresh(rec, s, t) ==
    /\ rec \in BlockRec
    /\ Arrived(rec.arrivals) = {}
    /\ rec.first = t /\ rec.first_src = s
    /\ rec.seen = 0 /\ rec.completed_at = NoInstant

\* The fields of the record after a delivery.
LEMMA RecordFields ==
  ASSUME NEW rec, NEW s, NEW t, NEW new, new = Record(rec, s, t)
  PROVE  /\ new.arrivals = [rec.arrivals EXCEPT ![s] = t]
         /\ new.seen = rec.seen + 1
         /\ t < rec.first => new.first = t /\ new.first_src = s
         /\ ~(t < rec.first) => new.first = rec.first /\ new.first_src = rec.first_src
         /\ new.seen = MinSources => new.completed_at = LastArrival(new.arrivals)
         /\ new.seen # MinSources => new.completed_at = rec.completed_at
         /\ new = [arrivals |-> new.arrivals, first |-> new.first, first_src |-> new.first_src,
                   seen |-> new.seen, completed_at |-> new.completed_at]
  BY DEF Record

\* A first delivery keeps a record good.
LEMMA RecordLemma ==
  ASSUME NEW s \in Source, NEW t \in Instant, NEW n \in Nat, NEW m \in Nat,
         n <= t + MaxSkew, n <= m, t <= m,
         NEW rec, rec.arrivals[s] = NoInstant,
         GoodRecord(rec, n) \/ Fresh(rec, s, t),
         NEW new, new = Record(rec, s, t)
  PROVE  GoodRecord(new, m)
  <1> DEFINE A == Arrived(rec.arrivals)
             B == Arrived(new.arrivals)
  <1>0. /\ new.arrivals = [rec.arrivals EXCEPT ![s] = t]
        /\ new.seen = rec.seen + 1
        /\ t < rec.first => new.first = t /\ new.first_src = s
        /\ ~(t < rec.first) => new.first = rec.first /\ new.first_src = rec.first_src
        /\ new.seen = MinSources => new.completed_at = LastArrival(new.arrivals)
        /\ new.seen # MinSources => new.completed_at = rec.completed_at
        /\ new = [arrivals |-> new.arrivals, first |-> new.first, first_src |-> new.first_src,
                  seen |-> new.seen, completed_at |-> new.completed_at]
    BY RecordFields
  <1>1. /\ rec.arrivals \in Arrivals /\ rec.first \in Instant /\ rec.first_src \in Source
        /\ rec.seen \in Nat /\ rec.completed_at \in Instant \cup {NoInstant}
    BY DEF GoodRecord, Fresh, BlockRec, Arrivals
  <1>2. new.arrivals = [rec.arrivals EXCEPT ![s] = t] BY <1>0
  <1>3. /\ new.arrivals \in Arrivals /\ new.arrivals[s] = t
        /\ \A r \in Source : r # s => new.arrivals[r] = rec.arrivals[r]
        /\ s \notin A /\ B = A \cup {s}
        /\ \A r \in A : new.arrivals[r] = rec.arrivals[r]
        /\ Cardinality(B) = Cardinality(A) + 1
    <2>1. /\ new.arrivals \in Arrivals /\ new.arrivals[s] = t
          /\ \A r \in Source : r # s => new.arrivals[r] = rec.arrivals[r]
      BY <1>1, <1>2 DEF Arrivals
    <2>2. /\ s \notin A /\ B = A \cup {s}
          /\ Cardinality(B) = Cardinality(A) + 1
      BY <1>1, <2>1, ArrivedGrows
    <2>3. \A r \in A : new.arrivals[r] = rec.arrivals[r]
      BY <2>1, <2>2 DEF Arrived
    <2> QED BY <2>1, <2>2, <2>3
  <1>4. /\ rec.seen = Cardinality(A) /\ new.seen = Cardinality(B)
        /\ Cardinality(A) \in Nat /\ Cardinality(B) \in Nat
    <2>1. rec.seen = Cardinality(A) BY FS_EmptySet DEF GoodRecord, Counts, Fresh
    <2> QED BY <1>3, <2>1, <1>0, ArrivedFinite
  <1>5. /\ A \subseteq Source /\ B \subseteq Source
        /\ \A r \in A : rec.arrivals[r] \in Nat
        /\ \A r \in B : new.arrivals[r] \in Nat
        /\ t \in Nat /\ rec.first \in Nat
    <2>1. t \in Nat /\ rec.first \in Nat BY <1>1
    <2>2. \A r \in A : rec.arrivals[r] \in Instant BY <1>1 DEF Arrived, Arrivals
    <2>3. \A r \in B : new.arrivals[r] \in Instant BY <1>3 DEF Arrived, Arrivals
    <2>4. A \subseteq Source /\ B \subseteq Source BY DEF Arrived
    <2> QED BY <2>1, <2>2, <2>3, <2>4
  <1>6. PICK r \in B : \A q \in B : new.arrivals[q] <= new.arrivals[r]
    <2>1. CASE Fresh(rec, s, t)
      <3>1. B = {s} BY <1>3, <2>1 DEF Fresh
      <3>2. new.arrivals[s] <= new.arrivals[s] BY <1>3, <1>5
      <3> QED BY <3>1, <3>2
    <2>2. CASE GoodRecord(rec, n)
      <3>1. PICK q \in A : \A x \in A : rec.arrivals[x] <= rec.arrivals[q]
        BY <2>2 DEF GoodRecord, Counts
      <3>2. CASE rec.arrivals[q] <= t
        <4>1. \A x \in A : new.arrivals[x] <= t
          BY <1>3, <1>5, <3>1, <3>2
        <4>2. \A x \in B : new.arrivals[x] <= new.arrivals[s] BY <1>3, <4>1
        <4> QED BY <1>3, <4>2
      <3>3. CASE ~(rec.arrivals[q] <= t)
        <4>1. t <= rec.arrivals[q] BY <1>5, <3>1, <3>3
        <4>2. \A x \in B : new.arrivals[x] <= new.arrivals[q] BY <1>3, <3>1, <4>1
        <4> QED BY <1>3, <4>2
      <3> QED BY <3>2, <3>3
    <2> QED BY <2>1, <2>2
  <1>7. /\ LastArrival(new.arrivals) \in Instant
        /\ \E q \in B : new.arrivals[q] = LastArrival(new.arrivals)
        /\ \A q \in B : new.arrivals[q] <= LastArrival(new.arrivals)
    BY <1>3, <1>6, LastArrivalLemma
  <1>8. new \in BlockRec
    <2>1. /\ new.first \in Instant /\ new.first_src \in Source
      BY <1>1, <1>0
    <2>2. new.completed_at \in Instant \cup {NoInstant}
      BY <1>1, <1>7, <1>0
    <2>3. new.seen \in Nat BY <1>4
    <2>4. new = [arrivals |-> new.arrivals, first |-> new.first, first_src |-> new.first_src,
                 seen |-> new.seen, completed_at |-> new.completed_at]
      BY <1>0
    <2> QED BY <1>3, <2>1, <2>2, <2>3, <2>4 DEF BlockRec, Arrivals
  <1>9. Leads(new)
    <2>1. CASE Fresh(rec, s, t)
      <3>1. new.first = t /\ new.first_src = s /\ B = {s}
        BY <1>3, <2>1, <1>0 DEF Fresh
      <3> QED BY <1>3, <1>5, <3>1 DEF Leads
    <2>2. CASE GoodRecord(rec, n) /\ t < rec.first
      <3>1. new.first = t /\ new.first_src = s BY <2>2, <1>0
      <3>2. \A q \in A : t <= new.arrivals[q]
        BY <1>1, <1>3, <1>5, <2>2 DEF GoodRecord, Leads
      <3> QED BY <1>3, <1>5, <3>1, <3>2 DEF Leads
    <2>3. CASE GoodRecord(rec, n) /\ ~(t < rec.first)
      <3>1. new.first = rec.first /\ new.first_src = rec.first_src
        BY <2>3, <1>0
      <3>2. rec.arrivals[rec.first_src] = rec.first BY <2>3 DEF GoodRecord, Leads
      <3>3. rec.first_src # s BY <1>1, <3>2
      <3>4. new.arrivals[new.first_src] = new.first BY <1>1, <1>3, <3>1, <3>2, <3>3
      <3>5. rec.first <= t BY <1>5, <2>3
      <3>6. \A q \in A : rec.first <= new.arrivals[q]
        BY <1>3, <2>3 DEF GoodRecord, Leads
      <3> QED BY <1>3, <3>1, <3>4, <3>5, <3>6 DEF Leads
    <2> QED BY <2>1, <2>2, <2>3
  <1>10. Counts(new) BY <1>4, <1>6 DEF Counts
  <1>11. MinSources \in Nat /\ MinSources > 0
    <2>1. Cardinality(Source) \in Nat BY SourceAssumption, FS_CardinalityType
    <2> QED BY <2>1, MinAssumption
  <1>12. Complete(new)
    <2>1. CASE new.seen = MinSources
      <3>1. new.completed_at \in Instant BY <1>7, <2>1, <1>0
      <3>2. Cardinality(B) >= MinSources BY <1>4, <1>11, <2>1
      <3> QED BY <3>1, <3>2 DEF Complete
    <2>2. CASE new.seen # MinSources
      <3>1. new.completed_at = rec.completed_at BY <2>2, <1>0
      <3>2. rec.completed_at # NoInstant <=> Cardinality(A) >= MinSources
        BY <1>4, <1>11 DEF GoodRecord, Complete, Fresh
      <3> QED BY <1>3, <1>4, <1>11, <2>2, <3>1, <3>2 DEF Complete
    <2> QED BY <2>1, <2>2
  <1>13. RecentTo(new, m)
    <2>1. \A q \in B : new.arrivals[q] <= m
      <3>1. \A q \in A : rec.arrivals[q] <= n BY DEF GoodRecord, RecentTo, Fresh
      <3> QED BY <1>3, <1>5, <3>1
    <2>2. CASE new.seen = MinSources
      BY <1>7, <2>1, <2>2, <1>0 DEF RecentTo
    <2>3. CASE new.seen # MinSources
      <3>1. new.completed_at = rec.completed_at BY <2>3, <1>0
      <3>2. new.completed_at # NoInstant => new.completed_at <= n
        BY <3>1 DEF GoodRecord, RecentTo, Fresh
      <3>3. new.completed_at # NoInstant => new.completed_at \in Nat
        BY <1>1, <3>1
      <3> QED BY <2>1, <3>2, <3>3 DEF RecentTo
    <2> QED BY <2>2, <2>3
  <1>14. Timely(new)
    <2> SUFFICES ASSUME new.completed_at # NoInstant
                 PROVE  /\ Cardinality(By(new, 0)) >= MinSources
                        /\ Cardinality(By(new, MaxSkew + 1)) < MinSources
      BY DEF Timely
    <2>1. CASE new.seen = MinSources
      <3>1. new.completed_at = LastArrival(new.arrivals) BY <2>1, <1>0
      <3>2. By(new, 0) = B BY <1>5, <1>7, <3>1 DEF By
      <3>3. PICK q \in B : new.arrivals[q] = new.completed_at BY <1>7, <3>1
      <3>4. q \notin By(new, MaxSkew + 1) BY <1>5, <3>3 DEF By
      <3>5. By(new, MaxSkew + 1) \in SUBSET (B \ {q}) BY <3>4 DEF By
      <3>6. IsFiniteSet(B \ {q}) /\ Cardinality(B \ {q}) = Cardinality(B) - 1
        BY ArrivedFinite, FS_RemoveElement
      <3>7. /\ Cardinality(By(new, MaxSkew + 1)) <= Cardinality(B) - 1
            /\ Cardinality(By(new, MaxSkew + 1)) \in Nat
        BY <3>5, <3>6, FS_Subset, FS_CardinalityType
      <3>8. Cardinality(B) = MinSources BY <1>4, <2>1
      <3> QED BY <1>11, <3>2, <3>7, <3>8
    <2>2. CASE new.seen # MinSources
      <3>1. new.completed_at = rec.completed_at BY <2>2, <1>0
      <3>2. GoodRecord(rec, n) BY <3>1 DEF Fresh
      <3>3. rec.completed_at \in Nat /\ rec.completed_at <= n
        BY <1>1, <3>1, <3>2 DEF GoodRecord, RecentTo
      <3>4. /\ Cardinality(By(rec, 0)) >= MinSources
            /\ Cardinality(By(rec, MaxSkew + 1)) < MinSources
        BY <3>1, <3>2 DEF GoodRecord, Timely
      <3>5. By(rec, 0) \in SUBSET By(new, 0) BY <1>3, <3>1 DEF By
      <3>6. By(new, MaxSkew + 1) = By(rec, MaxSkew + 1)
        <4>1. s \notin By(new, MaxSkew + 1) BY <1>3, <3>1, <3>3 DEF By
        <4> QED BY <1>3, <3>1, <4>1 DEF By
      <3>7. /\ IsFiniteSet(By(new, 0)) /\ Cardinality(By(new, 0)) \in Nat
            /\ Cardinality(By(rec, 0)) <= Cardinality(By(new, 0))
            /\ Cardinality(By(rec, 0)) \in Nat
        <4>1. By(new, 0) \in SUBSET B BY DEF By
        <4>2. By(rec, 0) \in SUBSET A BY DEF By
        <4> QED BY <3>5, <4>1, <4>2, ArrivedFinite, FS_Subset
      <3> QED BY <1>11, <3>4, <3>6, <3>7
    <2> QED BY <2>1, <2>2
  <1> QED BY <1>8, <1>9, <1>10, <1>12, <1>13, <1>14 DEF GoodRecord

-----------------------------------------------------------------------------
(***************************************************************************)
(* The cases of a step: a delivery is ignored, or enters a record.         *)
(***************************************************************************)

\* The delivery of k by s at t enters the record, which becomes new.
Enters(s, k, t, new) ==
    /\ Entry(k, s, t).arrivals[s] = NoInstant
    /\ new = Record(Entry(k, s, t), s, t)
    /\ DOMAIN blocks' = DOMAIN blocks \cup {k}
    /\ blocks' = [j \in DOMAIN blocks' |-> blocks'[j]]
    /\ blocks'[k] = new
    /\ \A j \in DOMAIN blocks : j # k => blocks'[j] = blocks[j]
    /\ lines' = IF new.seen = MinSources THEN Append(lines, BlockLine(k, new)) ELSE lines

Moves(t) ==
    /\ t \in Nat /\ newest \in Nat /\ newest' \in Nat
    /\ newest <= t + MaxSkew /\ newest <= newest' /\ t <= newest'

\* Every step of BlocksRun handles one event, fresh or known.
LEMMA StepLemma ==
  ASSUME TypeOK, Next
  PROVE  \E s \in Source, k \in Key, t \in Instant :
            /\ Moves(t)
            /\ block_events' \in [Source -> Nat]
            /\ \/ UNCHANGED <<blocks, lines>>
               \/ \E new : Enters(s, k, t, new)
  <1>1. PICK s \in Source, k \in Key, t \in Instant : Deliver(s, k, t) BY DEF Next
  <1>2. Moves(t) BY <1>1 DEF Deliver, Moves, TypeOK
  <1>3. block_events' \in [Source -> Nat] BY <1>1 DEF Deliver, OnBlock, TypeOK
  <1> DEFINE new == Record(Entry(k, s, t), s, t)
  <1>4. CASE Entry(k, s, t).arrivals[s] # NoInstant
    <2>1. UNCHANGED <<blocks, lines>> BY <1>1, <1>4 DEF Deliver, OnBlock
    <2> QED BY <1>2, <1>3, <2>1
  <1>5. CASE Entry(k, s, t).arrivals[s] = NoInstant
    <2>1. /\ blocks' = Put(k, new)
          /\ lines' = IF new.seen = MinSources THEN Append(lines, BlockLine(k, new)) ELSE lines
      BY <1>1, <1>5 DEF Deliver, OnBlock
    <2> HIDE DEF new
    <2>2. /\ DOMAIN blocks' = DOMAIN blocks \cup {k}
          /\ blocks' = [j \in DOMAIN blocks' |-> blocks'[j]]
          /\ blocks'[k] = new
          /\ \A j \in DOMAIN blocks : j # k => blocks'[j] = blocks[j]
      BY <2>1 DEF Put
    <2>3. Enters(s, k, t, new) BY <1>5, <2>1, <2>2 DEF Enters, new
    <2> QED BY <1>2, <1>3, <2>3
  <1> QED BY <1>4, <1>5

\* The invariant, read record by record.
LEMMA GoodRecords ==
  IInv <=> /\ TypeOK
           /\ \A k \in DOMAIN blocks : GoodRecord(blocks[k], newest)
           /\ \A i \in DOMAIN lines : lines[i].first <= newest
           /\ OneLinePerBlock
           /\ LineNearlyRight
  <1>1. TypeOK => \A k \in DOMAIN blocks : blocks[k] \in BlockRec BY DEF TypeOK
  <1>2. CompletionTimely <=> \A k \in DOMAIN blocks : Timely(blocks[k])
    BY DEF CompletionTimely, Timely, By
  <1>3. /\ FirstIsEarliest <=> \A k \in DOMAIN blocks : Leads(blocks[k])
        /\ SeenCounts <=> \A k \in DOMAIN blocks : Counts(blocks[k])
        /\ CompleteByCount <=> \A k \in DOMAIN blocks : Complete(blocks[k])
    BY DEF FirstIsEarliest, Leads, SeenCounts, Counts, CompleteByCount, Complete
  <1>4. NothingFromLater <=> /\ \A k \in DOMAIN blocks : RecentTo(blocks[k], newest)
                             /\ \A i \in DOMAIN lines : lines[i].first <= newest
    BY DEF NothingFromLater, RecentTo
  <1> QED BY <1>1, <1>2, <1>3, <1>4 DEF IInv, GoodRecord

\* The same after a step.
LEMMA GoodRecordsAfter ==
  IInv' <=> /\ TypeOK'
            /\ \A k \in DOMAIN blocks' : GoodRecord(blocks'[k], newest')
            /\ \A i \in DOMAIN lines' : lines'[i].first <= newest'
            /\ OneLinePerBlock'
            /\ LineNearlyRight'
  <1>1. TypeOK' => \A k \in DOMAIN blocks' : blocks'[k] \in BlockRec BY DEF TypeOK
  <1>2. CompletionTimely' <=> \A k \in DOMAIN blocks' : Timely(blocks'[k])
    BY DEF CompletionTimely, Timely, By
  <1>3. /\ FirstIsEarliest' <=> \A k \in DOMAIN blocks' : Leads(blocks'[k])
        /\ SeenCounts' <=> \A k \in DOMAIN blocks' : Counts(blocks'[k])
        /\ CompleteByCount' <=> \A k \in DOMAIN blocks' : Complete(blocks'[k])
    BY DEF FirstIsEarliest, Leads, SeenCounts, Counts, CompleteByCount, Complete
  <1>4. NothingFromLater' <=> /\ \A k \in DOMAIN blocks' : RecentTo(blocks'[k], newest')
                              /\ \A i \in DOMAIN lines' : lines'[i].first <= newest'
    BY DEF NothingFromLater, RecentTo
  <1> QED BY <1>1, <1>2, <1>3, <1>4 DEF IInv, GoodRecord

\* The record the step starts from.
LEMMA EntryLemma ==
  ASSUME IInv, NEW s \in Source, NEW k \in Key, NEW t \in Instant
  PROVE  /\ k \in DOMAIN blocks => /\ Entry(k, s, t) = blocks[k]
                                   /\ GoodRecord(Entry(k, s, t), newest)
         /\ k \notin DOMAIN blocks => Fresh(Entry(k, s, t), s, t)
  <1>1. CASE k \in DOMAIN blocks BY <1>1, GoodRecords DEF Entry
  <1>2. CASE k \notin DOMAIN blocks
    <2>1. Entry(k, s, t) = [arrivals |-> [r \in Source |-> NoInstant], first |-> t,
                            first_src |-> s, seen |-> 0, completed_at |-> NoInstant]
      BY <1>2 DEF Entry
    <2>2. Arrived([r \in Source |-> NoInstant]) = {} BY DEF Arrived
    <2> QED BY <1>2, <2>1, <2>2 DEF Fresh, BlockRec
  <1> QED BY <1>1, <1>2

\* The record a step leaves behind.
LEMMA EntersLemma ==
  ASSUME IInv, NEW s \in Source, NEW k \in Key, NEW t \in Instant, Moves(t),
         NEW new, Enters(s, k, t, new)
  PROVE  /\ GoodRecord(new, newest')
         /\ new.arrivals[s] = t
         /\ \A r \in Source : r # s => new.arrivals[r] = Entry(k, s, t).arrivals[r]
         /\ new.seen = Entry(k, s, t).seen + 1
         /\ Entry(k, s, t).seen \in Nat
  <1> DEFINE old == Entry(k, s, t)
  <1>1. GoodRecord(old, newest) \/ Fresh(old, s, t) BY EntryLemma
  <1>2. old.arrivals[s] = NoInstant /\ new = Record(old, s, t) BY DEF Enters
  <1>3. old \in BlockRec BY <1>1 DEF GoodRecord, Fresh
  <1> HIDE DEF old
  <1>4. GoodRecord(new, newest') BY <1>1, <1>2, RecordLemma DEF Moves
  <1>5. new.arrivals = [old.arrivals EXCEPT ![s] = t] /\ new.seen = old.seen + 1
    BY <1>2 DEF Record
  <1>6. old.arrivals \in Arrivals /\ old.seen \in Nat BY <1>3 DEF BlockRec, Arrivals
  <1>7. /\ new.arrivals[s] = t
        /\ \A r \in Source : r # s => new.arrivals[r] = old.arrivals[r]
    BY <1>5, <1>6 DEF Arrivals
  <1> QED BY <1>4, <1>5, <1>6, <1>7 DEF old

\* The completed blocks are those announced, one more in the step in which a
\* block reaches MinSources deliveries.
LEMMA DoneLemma ==
  ASSUME IInv, NEW s \in Source, NEW k \in Key, NEW t \in Instant, Moves(t),
         NEW new, Enters(s, k, t, new)
  PROVE  /\ new.seen = MinSources => k \notin Announced /\ Announced' = Announced \cup {k}
         /\ new.seen # MinSources => Announced' = Announced
  <1> DEFINE old == Entry(k, s, t)
  <1>1. /\ GoodRecord(new, newest') /\ new.seen = old.seen + 1 /\ old.seen \in Nat
    BY EntersLemma
  <1>2. new.completed_at # NoInstant <=> new.seen >= MinSources
    BY <1>1 DEF GoodRecord, Complete, Counts
  <1>3. MinSources \in Nat /\ MinSources >= 1
    <2>1. Cardinality(Source) \in Nat BY SourceAssumption, FS_CardinalityType
    <2> QED BY <2>1, MinAssumption
  <1>4. k \in Announced <=> old.seen >= MinSources
    <2>1. CASE k \in DOMAIN blocks
      <3>1. old = blocks[k] /\ GoodRecord(old, newest) BY <2>1, EntryLemma
      <3> HIDE DEF old
      <3>2. old.completed_at # NoInstant <=> old.seen >= MinSources
        BY <3>1 DEF GoodRecord, Complete, Counts
      <3> QED BY <2>1, <3>1, <3>2 DEF Announced
    <2>2. CASE k \notin DOMAIN blocks
      <3>1. old.seen = 0 BY <2>2, EntryLemma DEF Fresh
      <3> QED BY <1>3, <2>2, <3>1 DEF Announced
    <2> QED BY <2>1, <2>2
  <1> HIDE DEF old
  <1>5. \A j \in DOMAIN blocks : j # k => (j \in Announced' <=> j \in Announced)
    BY DEF Enters, Announced
  <1>6. k \in Announced' <=> new.seen >= MinSources
    BY <1>2 DEF Enters, Announced
  <1>7. /\ Announced \subseteq DOMAIN blocks /\ Announced' \subseteq DOMAIN blocks'
        /\ DOMAIN blocks' = DOMAIN blocks \cup {k}
    BY DEF Announced, Enters
  <1>8. CASE new.seen = MinSources
    <2>1. k \notin Announced /\ k \in Announced' BY <1>1, <1>3, <1>4, <1>6, <1>8
    <2>2. Announced' = Announced \cup {k} BY <1>5, <1>7, <2>1
    <2> QED BY <1>8, <2>1, <2>2
  <1>9. CASE new.seen # MinSources
    <2>1. k \in Announced <=> k \in Announced' BY <1>1, <1>3, <1>4, <1>6, <1>9
    <2>2. Announced' = Announced BY <1>5, <1>7, <2>1
    <2> QED BY <1>9, <2>2
  <1> QED BY <1>8, <1>9

-----------------------------------------------------------------------------
(***************************************************************************)
(* The inductive invariant.                                                *)
(***************************************************************************)

\* What a step does to the list of lines.
LEMMA LinesLemma ==
  ASSUME IInv, NEW s \in Source, NEW k \in Key, NEW t \in Instant, Moves(t),
         NEW new, Enters(s, k, t, new)
  PROVE  /\ lines' \in Seq(Line)
         /\ new.seen # MinSources => lines' = lines
         /\ new.seen = MinSources =>
               /\ Len(lines) \in Nat
               /\ DOMAIN lines = 1 .. Len(lines)
               /\ DOMAIN lines' = 1 .. Len(lines) + 1
               /\ \A i \in DOMAIN lines : lines'[i] = lines[i]
               /\ lines'[Len(lines) + 1].key = k
               /\ lines'[Len(lines) + 1].first = new.first
               /\ lines'[Len(lines) + 1].winner = new.first_src
  <1>1. lines \in Seq(Line) BY DEF IInv, TypeOK
  <1>2. new \in BlockRec BY EntersLemma DEF GoodRecord
  <1>3. BlockLine(k, new) \in Line BY <1>2 DEF BlockLine, BlockRec, Line
  <1>4. CASE new.seen = MinSources
    <2> DEFINE l == BlockLine(k, new)
    <2>1. l.key = k /\ l.first = new.first /\ l.winner = new.first_src BY DEF BlockLine
    <2>2. l \in Line BY <1>3
    <2>3. lines' = Append(lines, l) BY <1>4 DEF Enters
    <2> HIDE DEF l
    <2>4. /\ lines' \in Seq(Line)
          /\ Len(lines) \in Nat
          /\ DOMAIN lines = 1 .. Len(lines)
          /\ DOMAIN lines' = 1 .. Len(lines) + 1
          /\ \A i \in DOMAIN lines : lines'[i] = lines[i]
          /\ lines'[Len(lines) + 1] = l
      BY <1>1, <2>2, <2>3
    <2> QED BY <1>4, <2>1, <2>4
  <1>5. CASE new.seen # MinSources BY <1>1, <1>5 DEF Enters
  <1> QED BY <1>4, <1>5

\* The records stay good and the types are kept.
LEMMA RecordsStep ==
  ASSUME IInv, NEW s \in Source, NEW k \in Key, NEW t \in Instant, Moves(t),
         block_events' \in [Source -> Nat], NEW new, Enters(s, k, t, new)
  PROVE  /\ TypeOK'
         /\ \A j \in DOMAIN blocks' : GoodRecord(blocks'[j], newest')
         /\ \A i \in DOMAIN lines' : lines'[i].first <= newest'
  <1>1. ASSUME NEW j \in DOMAIN blocks' PROVE GoodRecord(blocks'[j], newest')
    <2>1. CASE j = k BY <2>1, EntersLemma DEF Enters
    <2>2. CASE j # k
      <3>1. j \in DOMAIN blocks /\ blocks'[j] = blocks[j] BY <2>2 DEF Enters
      <3> DEFINE rec == blocks[j]
      <3>2. GoodRecord(rec, newest) BY <3>1, GoodRecords
      <3> HIDE DEF rec
      <3>3. rec.arrivals \in Arrivals /\ rec.completed_at \in Instant \cup {NoInstant}
        BY <3>2 DEF GoodRecord, BlockRec, Arrivals
      <3>4. \A r \in Arrived(rec.arrivals) : rec.arrivals[r] \in Nat
        BY <3>3 DEF Arrived, Arrivals
      <3>5. rec.completed_at # NoInstant => rec.completed_at \in Nat BY <3>3
      <3>6. RecentTo(rec, newest')
        BY <3>2, <3>4, <3>5 DEF GoodRecord, RecentTo, Moves
      <3>7. GoodRecord(rec, newest') BY <3>2, <3>6 DEF GoodRecord
      <3> QED BY <3>1, <3>7 DEF rec
    <2> QED BY <2>1, <2>2
  <1>2. /\ DOMAIN blocks' \subseteq Key
        /\ blocks' \in [DOMAIN blocks' -> BlockRec]
    BY <1>1 DEF Enters, GoodRecord, IInv, TypeOK
  <1>3. lines' \in Seq(Line) BY LinesLemma
  <1>4. TypeOK' BY <1>2, <1>3 DEF TypeOK, Moves
  <1>5. ASSUME NEW i \in DOMAIN lines' PROVE lines'[i].first <= newest'
    <2>1. ASSUME i \in DOMAIN lines, lines'[i] = lines[i] PROVE lines'[i].first <= newest'
      <3>1. lines[i] \in Line BY <2>1 DEF IInv, TypeOK
      <3>2. lines[i].first \in Nat BY <3>1 DEF Line
      <3>3. lines[i].first <= newest BY <2>1, GoodRecords
      <3> QED BY <2>1, <3>2, <3>3 DEF Moves
    <2>2. CASE new.seen # MinSources BY <1>5, <2>1, <2>2, LinesLemma
    <2>3. CASE new.seen = MinSources
      <3>1. i \in DOMAIN lines \/ i = Len(lines) + 1 BY <1>5, <2>3, LinesLemma
      <3>2. CASE i \in DOMAIN lines BY <2>1, <2>3, <3>2, LinesLemma
      <3>3. CASE i = Len(lines) + 1
        <4>1. lines'[i].first = new.first BY <2>3, <3>3, LinesLemma
        <4>2. GoodRecord(new, newest') BY EntersLemma
        <4>3. new.arrivals[new.first_src] = new.first /\ new.first \in Nat /\ new.first_src \in Source
          BY <4>2 DEF GoodRecord, Leads, BlockRec
        <4>4. new.first_src \in Arrived(new.arrivals) BY <4>3 DEF Arrived
        <4> QED BY <4>1, <4>2, <4>3, <4>4 DEF GoodRecord, RecentTo
      <3> QED BY <3>1, <3>2, <3>3
    <2> QED BY <2>2, <2>3
  <1> QED BY <1>1, <1>4, <1>5

\* One line for every completed block.
LEMMA OneLineStep ==
  ASSUME IInv, NEW s \in Source, NEW k \in Key, NEW t \in Instant, Moves(t),
         NEW new, Enters(s, k, t, new)
  PROVE  OneLinePerBlock'
  <1>1. /\ \A i, j \in DOMAIN lines : lines[i].key = lines[j].key => i = j
        /\ {lines[i].key : i \in DOMAIN lines} = Announced
    BY DEF IInv, OneLinePerBlock, Announced
  <1> SUFFICES /\ \A i, j \in DOMAIN lines' : lines'[i].key = lines'[j].key => i = j
               /\ {lines'[i].key : i \in DOMAIN lines'} = Announced'
    BY DEF OneLinePerBlock, Announced
  <1>2. CASE new.seen # MinSources
    BY <1>1, <1>2, LinesLemma, DoneLemma
  <1>3. CASE new.seen = MinSources
    <2> DEFINE n == Len(lines)
    <2>1. /\ n \in Nat /\ DOMAIN lines = 1 .. n /\ DOMAIN lines' = 1 .. n + 1
          /\ \A i \in 1 .. n : lines'[i] = lines[i]
          /\ lines'[n + 1].key = k
      BY <1>3, LinesLemma
    <2>2. k \notin Announced /\ Announced' = Announced \cup {k}
      BY <1>3, DoneLemma
    <2> HIDE DEF n
    <2>3. \A i \in 1 .. n + 1 : i \in 1 .. n \/ i = n + 1 BY <2>1
    <2>4. \A i \in 1 .. n : lines'[i].key \in Announced BY <1>1, <2>1
    <2>5. \A i, j \in 1 .. n + 1 : lines'[i].key = lines'[j].key => i = j
      BY <1>1, <2>1, <2>2, <2>3, <2>4
    <2>6. {lines'[i].key : i \in 1 .. n + 1} = Announced \cup {k}
      <3>1. {lines'[i].key : i \in 1 .. n + 1} \subseteq Announced \cup {k}
        BY <2>1, <2>3, <2>4
      <3>2. n + 1 \in 1 .. n + 1 /\ 1 .. n \subseteq 1 .. n + 1 BY <2>1
      <3>3. k \in {lines'[i].key : i \in 1 .. n + 1} BY <2>1, <3>2
      <3>4. ASSUME NEW a \in Announced PROVE a \in {lines'[i].key : i \in 1 .. n + 1}
        <4>1. PICK i \in 1 .. n : a = lines[i].key BY <1>1, <2>1
        <4> QED BY <2>1, <3>2, <4>1
      <3> QED BY <3>1, <3>3, <3>4
    <2> QED BY <2>1, <2>2, <2>5, <2>6
  <1> QED BY <1>2, <1>3

\* A new arrival beats a printed winner by at most MaxSkew.
LEMMA NearlyRightStep ==
  ASSUME IInv, NEW s \in Source, NEW k \in Key, NEW t \in Instant, Moves(t),
         NEW new, Enters(s, k, t, new)
  PROVE  LineNearlyRight'
  <1> SUFFICES ASSUME NEW i \in DOMAIN lines',
                      NEW r \in Arrived(blocks'[lines'[i].key].arrivals)
               PROVE  lines'[i].first <= blocks'[lines'[i].key].arrivals[r] + MaxSkew
    BY DEF LineNearlyRight
  <1>0. /\ GoodRecord(new, newest') /\ blocks'[k] = new
        /\ new.arrivals[s] = t
        /\ \A q \in Source : q # s => new.arrivals[q] = Entry(k, s, t).arrivals[q]
    BY EntersLemma DEF Enters
  <1>1. CASE i \in DOMAIN lines /\ lines'[i] = lines[i]
    <2>1. lines[i].key \in Announced
      BY <1>1 DEF IInv, OneLinePerBlock, Announced
    <2>2. lines[i].key \in DOMAIN blocks BY <2>1 DEF Announced
    <2>3. lines[i].first \in Nat /\ lines[i].first <= newest
      <3>1. lines[i] \in Line BY <1>1 DEF IInv, TypeOK
      <3> QED BY <1>1, <3>1, GoodRecords DEF Line
    <2>4. CASE lines[i].key # k
      <3>1. blocks'[lines[i].key] = blocks[lines[i].key] BY <2>2, <2>4 DEF Enters
      <3> QED BY <1>1, <3>1 DEF IInv, LineNearlyRight
    <2>5. CASE lines[i].key = k /\ r = s
      <3>1. blocks'[lines'[i].key].arrivals[r] = t BY <1>0, <1>1, <2>5
      <3> QED BY <1>1, <2>3, <3>1 DEF Moves
    <2>6. CASE lines[i].key = k /\ r # s
      <3>1. r \in Source BY DEF Arrived
      <3>2. Entry(k, s, t) = blocks[k] BY <2>2, <2>6, EntryLemma
      <3>3. blocks'[k].arrivals[r] = blocks[k].arrivals[r]
        BY <1>0, <2>6, <3>1, <3>2
      <3>4. r \in Arrived(blocks[k].arrivals) BY <1>1, <2>6, <3>3 DEF Arrived
      <3> QED BY <1>1, <2>6, <3>3, <3>4 DEF IInv, LineNearlyRight
    <2> QED BY <2>4, <2>5, <2>6
  <1>2. CASE new.seen = MinSources /\ i = Len(lines) + 1
    <2>1. lines'[i].key = k /\ lines'[i].first = new.first BY <1>2, LinesLemma
    <2>2. r \in Arrived(new.arrivals) BY <1>0, <2>1
    <2>3. new.first <= new.arrivals[r] BY <1>0, <2>2 DEF GoodRecord, Leads
    <2>4. new.first \in Nat /\ new.arrivals \in Arrivals
      BY <1>0 DEF GoodRecord, BlockRec, Arrivals
    <2>5. new.arrivals[r] \in Nat BY <2>2, <2>4 DEF Arrived, Arrivals
    <2>6. new.first <= new.arrivals[r] + MaxSkew BY <2>3, <2>4, <2>5
    <2> QED BY <1>0, <2>1, <2>6
  <1>3. \/ i \in DOMAIN lines /\ lines'[i] = lines[i]
        \/ new.seen = MinSources /\ i = Len(lines) + 1
    <2>1. CASE new.seen = MinSources
      <3>1. i \in DOMAIN lines \/ i = Len(lines) + 1 BY <2>1, LinesLemma
      <3> QED BY <2>1, <3>1, LinesLemma
    <2>2. CASE new.seen # MinSources BY <2>2, LinesLemma
    <2> QED BY <2>1, <2>2
  <1> QED BY <1>1, <1>2, <1>3

\* The empty table satisfies the invariant.
LEMMA InitLemma == Init => IInv
  <1> SUFFICES ASSUME Init PROVE IInv OBVIOUS
  <1>1. DOMAIN blocks = {} /\ lines = <<>> /\ DOMAIN lines = {} /\ newest = 0
    BY DEF Init, BlocksInit
  <1>2. TypeOK
    <2>1. blocks \in [DOMAIN blocks -> BlockRec] BY DEF Init, BlocksInit
    <2>2. lines \in Seq(Line) BY <1>1
    <2> QED BY <1>1, <2>1, <2>2 DEF Init, BlocksInit, TypeOK
  <1>3. OneLinePerBlock /\ LineNearlyRight BY <1>1 DEF OneLinePerBlock, LineNearlyRight
  <1> QED BY <1>1, <1>2, <1>3, GoodRecords

\* What depends on the records and the lines alone.
LEMMA UnchangedLemma ==
  ASSUME UNCHANGED <<blocks, lines>>
  PROVE  /\ SeenCounts' <=> SeenCounts
         /\ FirstIsEarliest' <=> FirstIsEarliest
         /\ CompleteByCount' <=> CompleteByCount
         /\ CompletionTimely' <=> CompletionTimely
         /\ OneLinePerBlock' <=> OneLinePerBlock
         /\ LineNearlyRight' <=> LineNearlyRight
  <1>1. blocks' = blocks /\ lines' = lines OBVIOUS
  <1>2. SeenCounts' <=> SeenCounts BY <1>1, Zenon DEF SeenCounts
  <1>3. FirstIsEarliest' <=> FirstIsEarliest BY <1>1, Zenon DEF FirstIsEarliest
  <1>4. CompleteByCount' <=> CompleteByCount BY <1>1, Zenon DEF CompleteByCount
  <1>5. CompletionTimely' <=> CompletionTimely BY <1>1, Zenon DEF CompletionTimely
  <1>6. OneLinePerBlock' <=> OneLinePerBlock BY <1>1, ZenonT(30) DEF OneLinePerBlock
  <1>7. LineNearlyRight' <=> LineNearlyRight BY <1>1, Zenon DEF LineNearlyRight
  <1> QED BY <1>2, <1>3, <1>4, <1>5, <1>6, <1>7

\* A step that changes no record and prints no line.
LEMMA IgnoredStep ==
  ASSUME IInv, NEW t, Moves(t), block_events' \in [Source -> Nat],
         UNCHANGED <<blocks, lines>>
  PROVE  IInv'
  <1>1. TypeOK' BY DEF IInv, TypeOK, Moves
  <1>2. ASSUME NEW j \in DOMAIN blocks PROVE RecentTo(blocks[j], newest')
    <2> DEFINE rec == blocks[j]
    <2>1. GoodRecord(rec, newest) BY GoodRecords
    <2> HIDE DEF rec
    <2>2. rec.arrivals \in Arrivals /\ rec.completed_at \in Instant \cup {NoInstant}
      BY <2>1 DEF GoodRecord, BlockRec, Arrivals
    <2>3. \A r \in Arrived(rec.arrivals) : rec.arrivals[r] \in Nat
      BY <2>2 DEF Arrived, Arrivals
    <2>4. rec.completed_at # NoInstant => rec.completed_at \in Nat BY <2>2
    <2>5. RecentTo(rec, newest') BY <2>1, <2>3, <2>4 DEF GoodRecord, RecentTo, Moves
    <2> QED BY <2>5 DEF rec
  <1>3. ASSUME NEW i \in DOMAIN lines PROVE lines[i].first <= newest'
    <2>1. lines[i] \in Line BY DEF IInv, TypeOK
    <2>2. lines[i].first \in Nat BY <2>1 DEF Line
    <2>3. lines[i].first <= newest BY GoodRecords
    <2> QED BY <2>2, <2>3 DEF Moves
  <1>4. NothingFromLater' BY <1>2, <1>3 DEF NothingFromLater, RecentTo
  <1>5. /\ SeenCounts' /\ FirstIsEarliest' /\ CompleteByCount' /\ CompletionTimely'
        /\ OneLinePerBlock' /\ LineNearlyRight'
    BY UnchangedLemma DEF IInv
  <1> QED BY <1>1, <1>4, <1>5 DEF IInv

\* Every step keeps it.
LEMMA StepInvariant == IInv /\ [Next]_vars => IInv'
  <1> SUFFICES ASSUME IInv, [Next]_vars PROVE IInv' OBVIOUS
  <1>1. CASE Next
    <2>1. TypeOK BY DEF IInv
    <2>2. PICK s \in Source, k \in Key, t \in Instant :
            /\ Moves(t)
            /\ block_events' \in [Source -> Nat]
            /\ UNCHANGED <<blocks, lines>> \/ \E new : Enters(s, k, t, new)
      BY <1>1, <2>1, StepLemma
    <2>3. CASE UNCHANGED <<blocks, lines>> BY <2>2, <2>3, IgnoredStep
    <2>4. CASE \E new : Enters(s, k, t, new)
      <3>1. PICK new : Enters(s, k, t, new) BY <2>4
      <3>2. /\ TypeOK'
            /\ \A j \in DOMAIN blocks' : GoodRecord(blocks'[j], newest')
            /\ \A i \in DOMAIN lines' : lines'[i].first <= newest'
        BY <2>2, <3>1, RecordsStep
      <3>3. OneLinePerBlock' /\ LineNearlyRight'
        BY <2>2, <3>1, OneLineStep, NearlyRightStep
      <3>4. IInv' <=> /\ TypeOK'
                      /\ \A j \in DOMAIN blocks' : GoodRecord(blocks'[j], newest')
                      /\ \A i \in DOMAIN lines' : lines'[i].first <= newest'
                      /\ OneLinePerBlock'
                      /\ LineNearlyRight'
        BY GoodRecordsAfter
      <3> QED BY <3>2, <3>3, <3>4
    <2> QED BY <2>2, <2>3, <2>4
  <1>2. CASE UNCHANGED vars
    <2>1. UNCHANGED <<blocks, lines, block_events, newest>> BY <1>2 DEF vars, blockVars
    <2>2. TypeOK' /\ NothingFromLater' BY <2>1 DEF IInv, TypeOK, NothingFromLater
    <2> QED BY <2>1, <2>2, UnchangedLemma DEF IInv
  <1> QED BY <1>1, <1>2

\* A complete record was complete no earlier than its first arrival.
LEMMA FirstBeforeCompletion ==
  ASSUME IInv, NEW k \in DOMAIN blocks, blocks[k].completed_at # NoInstant
  PROVE  /\ blocks[k].first \in Nat /\ blocks[k].completed_at \in Nat
         /\ blocks[k].first <= blocks[k].completed_at
  <1> DEFINE rec == blocks[k]
  <1>1. GoodRecord(rec, newest) /\ rec.completed_at # NoInstant BY GoodRecords
  <1> HIDE DEF rec
  <1>2. rec \in BlockRec BY <1>1 DEF GoodRecord
  <1>3. /\ rec.first \in Nat /\ rec.completed_at \in Nat
        /\ \A r \in Arrived(rec.arrivals) : rec.arrivals[r] \in Nat
    BY <1>1, <1>2 DEF BlockRec, Arrived
  <1>4. Timely(rec) /\ Leads(rec) BY <1>1 DEF GoodRecord
  <1>5. By(rec, 0) # {}
    <2>1. Cardinality(By(rec, 0)) >= MinSources BY <1>1, <1>4 DEF Timely
    <2>2. MinSources \in Nat /\ MinSources > 0
      BY MinAssumption, SourceAssumption, FS_CardinalityType
    <2>3. Cardinality({}) = 0 BY FS_EmptySet
    <2> QED BY <2>1, <2>2, <2>3
  <1>6. PICK r \in Arrived(rec.arrivals) : rec.arrivals[r] + 0 <= rec.completed_at
    BY <1>5 DEF By
  <1>7. rec.first <= rec.arrivals[r] BY <1>4 DEF Leads
  <1>8. rec.first <= rec.completed_at BY <1>3, <1>6, <1>7
  <1> QED BY <1>3, <1>8 DEF rec

\* What the delivery of k by s, stamped t, leaves of the table.
DeliveryLeaves(s, k, t) ==
    /\ DOMAIN blocks' = DOMAIN blocks \cup {k}
    /\ blocks'[k].arrivals[s] # NoInstant
    /\ \A j \in DOMAIN blocks :
          /\ j # k => blocks'[j] = blocks[j]
          /\ \A r \in Source : blocks[j].arrivals[r] # NoInstant =>
                                   blocks'[j].arrivals[r] # NoInstant
          /\ blocks'[j].first = blocks[j].first \/ (j = k /\ blocks'[j].first = t)
          /\ blocks[j].completed_at # NoInstant =>
                 blocks'[j].completed_at = blocks[j].completed_at
    /\ \/ k \in DOMAIN blocks /\ blocks[k].completed_at # NoInstant
       \/ blocks'[k].completed_at = NoInstant
       \/ t <= blocks'[k].completed_at

\* A delivery adds an arrival, can only lower the first one to its own stamp,
\* keeps a completion stamp and sets none that is older than its own.
LEMMA DeliverLemma ==
  ASSUME IInv, NEW s \in Source, NEW k \in Key, NEW t \in Instant, Deliver(s, k, t)
  PROVE  DeliveryLeaves(s, k, t)
  <1> DEFINE old == Entry(k, s, t)
             new == Record(old, s, t)
  <1>1. k \in DOMAIN blocks => old = blocks[k] /\ GoodRecord(old, newest)
    BY EntryLemma
  <1>2. k \notin DOMAIN blocks => Fresh(old, s, t) BY EntryLemma
  <1>3. CASE old.arrivals[s] # NoInstant
    <2>1. UNCHANGED <<blocks, lines>> BY <1>3 DEF Deliver, OnBlock
    <2>2. k \in DOMAIN blocks BY <1>2, <1>3 DEF Fresh, Arrived
    <2> QED BY <1>1, <1>3, <2>1, <2>2 DEF DeliveryLeaves
  <1>4. CASE old.arrivals[s] = NoInstant
    <2> HIDE DEF old
    <2>1. blocks' = Put(k, new) BY <1>4 DEF Deliver, OnBlock, old
    <2>2. old \in BlockRec BY <1>1, <1>2 DEF GoodRecord, Fresh
    <2>3. old.arrivals \in Arrivals /\ old.seen \in Nat
      BY <2>2 DEF BlockRec, Arrivals
    <2>4. /\ new.arrivals = [old.arrivals EXCEPT ![s] = t]
          /\ new.first = old.first \/ new.first = t
          /\ new.completed_at = IF old.seen + 1 = MinSources THEN LastArrival(new.arrivals)
                                ELSE old.completed_at
      BY DEF Record
    <2>5. new.arrivals \in Arrivals /\ new.arrivals[s] = t /\ t # NoInstant
          /\ \A r \in Source : old.arrivals[r] # NoInstant => new.arrivals[r] # NoInstant
      BY <1>4, <2>3, <2>4 DEF Arrivals
    <2>6. old.completed_at # NoInstant => new.completed_at = old.completed_at
      <3>1. SUFFICES ASSUME old.completed_at # NoInstant PROVE old.seen + 1 # MinSources
        BY <2>4
      <3>2. MinSources \in Nat BY MinAssumption, SourceAssumption, FS_CardinalityType
      <3>3. CASE k \in DOMAIN blocks
        <4>1. old.seen >= MinSources BY <1>1, <3>1, <3>3 DEF GoodRecord, Complete, Counts
        <4> QED BY <2>3, <3>2, <4>1
      <3>4. CASE k \notin DOMAIN blocks BY <1>2, <3>1, <3>4 DEF Fresh
      <3> QED BY <3>3, <3>4
    <2>7. \/ old.completed_at # NoInstant
          \/ new.completed_at = NoInstant
          \/ t <= new.completed_at
      <3>1. GoodRecord(new, newest')
        <4>1. GoodRecord(old, newest) \/ Fresh(old, s, t) BY <1>1, <1>2
        <4>2. newest \in Nat /\ newest' \in Nat /\ t \in Nat
              /\ newest <= t + MaxSkew /\ newest <= newest' /\ t <= newest'
          BY DEF Deliver, IInv, TypeOK
        <4> HIDE DEF new
        <4>3. new = Record(old, s, t) BY DEF new
        <4> QED BY <1>4, <4>1, <4>2, <4>3, RecordLemma
      <3>2. s \in Arrived(new.arrivals) BY <2>5 DEF Arrived
      <3>3. PICK r \in Arrived(new.arrivals) :
               \A q \in Arrived(new.arrivals) : new.arrivals[q] <= new.arrivals[r]
        BY <3>1 DEF GoodRecord, Counts
      <3>4. t <= LastArrival(new.arrivals) BY <2>5, <3>2, <3>3, LastArrivalLemma
      <3> QED BY <2>4, <3>4
    <2> HIDE DEF new
    <2>8. /\ DOMAIN blocks' = DOMAIN blocks \cup {k}
          /\ blocks'[k] = new
          /\ \A j \in DOMAIN blocks : j # k => blocks'[j] = blocks[j]
      BY <2>1 DEF Put
    <2>9. \/ k \in DOMAIN blocks /\ blocks[k].completed_at # NoInstant
          \/ blocks'[k].completed_at = NoInstant
          \/ t <= blocks'[k].completed_at
      <3>1. k \notin DOMAIN blocks => old.completed_at = NoInstant BY <1>2 DEF Fresh
      <3> QED BY <1>1, <2>7, <2>8, <3>1
    <2>10. ASSUME NEW j \in DOMAIN blocks
           PROVE  /\ j # k => blocks'[j] = blocks[j]
                  /\ \A r \in Source : blocks[j].arrivals[r] # NoInstant =>
                                           blocks'[j].arrivals[r] # NoInstant
                  /\ blocks'[j].first = blocks[j].first \/ (j = k /\ blocks'[j].first = t)
                  /\ blocks[j].completed_at # NoInstant =>
                         blocks'[j].completed_at = blocks[j].completed_at
      <3>1. CASE j # k BY <2>8, <3>1
      <3>2. CASE j = k BY <1>1, <2>4, <2>5, <2>6, <2>8, <3>2
      <3> QED BY <3>1, <3>2
    <2> QED BY <2>5, <2>8, <2>9, <2>10 DEF DeliveryLeaves
  <1> QED BY <1>3, <1>4

-----------------------------------------------------------------------------
(***************************************************************************)
(* The theorems.                                                           *)
(***************************************************************************)

\* IInv holds throughout.
THEOREM Invariance == Spec => []IInv
  BY InitLemma, StepInvariant, PTL DEF Spec

\* The fields of the Collector keep their types.
THEOREM TypeCorrect == Spec => []TypeOK
  <1>1. IInv => TypeOK BY DEF IInv
  <1> QED BY <1>1, Invariance, PTL

\* The winner counted in the tables delivered the block no later than anyone,
\* in whatever order the deliveries were processed.
THEOREM WinnerCorrect == Spec => []FirstIsEarliest
  <1>1. IInv => FirstIsEarliest BY DEF IInv
  <1> QED BY <1>1, Invariance, PTL

\* A block is complete exactly when MinSources sources have delivered it.
THEOREM CompletionCorrect == Spec => []CompleteByCount
  <1>1. IInv => CompleteByCount BY DEF IInv
  <1> QED BY <1>1, Invariance, PTL

\* The completion stamp is right up to the lateness of the events.
THEOREM CompletionStampCorrect == Spec => []CompletionTimely
  <1>1. IInv => CompletionTimely BY DEF IInv
  <1> QED BY <1>1, Invariance, PTL

\* Every completed block is printed once.
THEOREM LinesCorrect == Spec => []OneLinePerBlock
  <1>1. IInv => OneLinePerBlock BY DEF IInv
  <1> QED BY <1>1, Invariance, PTL

\* A printed winner is beaten by at most the lateness of the events.
THEOREM PrintedWinnerNearlyRight == Spec => []LineNearlyRight
  <1>1. IInv => LineNearlyRight BY DEF IInv
  <1> QED BY <1>1, Invariance, PTL

\* When a block needs every source, the printed winner is the counted one.
THEOREM PrintedWinnerFinal ==
  MinSources = Cardinality(Source) => (Spec => []PrintedWinnerWins)
  <1> SUFFICES ASSUME MinSources = Cardinality(Source) PROVE Spec => []PrintedWinnerWins
    OBVIOUS
  <1>1. Init => PrintedWinnerWins BY DEF Init, BlocksInit, PrintedWinnerWins
  <1>2. IInv /\ PrintedWinnerWins /\ [Next]_vars => PrintedWinnerWins'
    <2> SUFFICES ASSUME IInv, PrintedWinnerWins, [Next]_vars PROVE PrintedWinnerWins'
      OBVIOUS
    <2>1. CASE UNCHANGED <<blocks, lines>> BY <2>1 DEF PrintedWinnerWins
    <2>2. CASE Next /\ ~UNCHANGED <<blocks, lines>>
      <3>1. PICK s \in Source, k \in Key, t \in Instant : Moves(t) /\ \E new : Enters(s, k, t, new)
        BY <2>2, StepLemma DEF IInv
      <3>2. PICK new : Enters(s, k, t, new) BY <3>1
      <3>3. k \notin Announced
        <4>1. CASE k \in DOMAIN blocks
          <5> DEFINE A == Arrived(blocks[k].arrivals)
          <5>1. s \notin A BY <3>2, <4>1 DEF Enters, Entry, Arrived
          <5>2. A \in SUBSET (Source \ {s}) BY <5>1 DEF Arrived
          <5>3. /\ IsFiniteSet(Source \ {s}) /\ Cardinality(Source) \in Nat
                /\ Cardinality(Source \ {s}) = Cardinality(Source) - 1
            BY SourceAssumption, FS_RemoveElement, FS_CardinalityType
          <5>4. Cardinality(A) <= Cardinality(Source) - 1 /\ Cardinality(A) \in Nat
            BY <5>2, <5>3, FS_Subset, FS_CardinalityType
          <5>5. ~(Cardinality(A) >= MinSources) BY <5>3, <5>4
          <5> QED BY <4>1, <5>5 DEF IInv, CompleteByCount, Announced
        <4>2. CASE k \notin DOMAIN blocks BY <4>2 DEF Announced
        <4> QED BY <4>1, <4>2
      <3>4. \A i \in DOMAIN lines : lines[i].key \in Announced
        BY DEF IInv, OneLinePerBlock, Announced
      <3>5. ASSUME NEW i \in DOMAIN lines, lines'[i] = lines[i]
            PROVE  lines'[i].winner = blocks'[lines'[i].key].first_src
        <4>1. lines[i].key # k /\ lines[i].key \in DOMAIN blocks
          BY <3>3, <3>4 DEF Announced
        <4> QED BY <3>2, <3>5, <4>1 DEF Enters, PrintedWinnerWins
      <3>6. CASE new.seen # MinSources
        BY <3>1, <3>2, <3>5, <3>6, LinesLemma DEF PrintedWinnerWins
      <3>7. CASE new.seen = MinSources
        <4>1. /\ DOMAIN lines' = 1 .. Len(lines) + 1 /\ DOMAIN lines = 1 .. Len(lines)
              /\ Len(lines) \in Nat
              /\ \A i \in DOMAIN lines : lines'[i] = lines[i]
              /\ lines'[Len(lines) + 1].key = k
              /\ lines'[Len(lines) + 1].winner = new.first_src
          BY <3>1, <3>2, <3>7, LinesLemma
        <4>2. \A i \in DOMAIN lines' : i \in DOMAIN lines \/ i = Len(lines) + 1 BY <4>1
        <4>3. blocks'[k] = new BY <3>2 DEF Enters
        <4> QED BY <3>5, <4>1, <4>2, <4>3 DEF PrintedWinnerWins
      <3> QED BY <3>6, <3>7
    <2> QED BY <2>1, <2>2 DEF vars, blockVars
  <1> QED BY <1>1, <1>2, Invariance, PTL DEF Spec

\* No recorded arrival and no completion stamp is ever rewritten.
THEOREM RecordsPermanent == Spec => NothingRewritten
  <1>1. ASSUME IInv, [Next]_vars
        PROVE  [\A k \in DOMAIN blocks :
                  /\ k \in DOMAIN blocks'
                  /\ \A s \in Arrived(blocks[k].arrivals) :
                         blocks'[k].arrivals[s] = blocks[k].arrivals[s]
                  /\ blocks[k].completed_at # NoInstant =>
                         blocks'[k].completed_at = blocks[k].completed_at]_vars
    <2>1. CASE UNCHANGED vars BY <2>1
    <2>2. CASE Next
      <3>1. PICK s \in Source, k \in Key, t \in Instant :
              Moves(t) /\ (UNCHANGED <<blocks, lines>> \/ \E new : Enters(s, k, t, new))
        BY <1>1, <2>2, StepLemma DEF IInv
      <3>2. CASE UNCHANGED <<blocks, lines>> BY <3>2
      <3>3. CASE \E new : Enters(s, k, t, new)
        <4>1. PICK new : Enters(s, k, t, new) BY <3>3
        <4> SUFFICES ASSUME NEW j \in DOMAIN blocks
                     PROVE  /\ j \in DOMAIN blocks'
                            /\ \A r \in Arrived(blocks[j].arrivals) :
                                   blocks'[j].arrivals[r] = blocks[j].arrivals[r]
                            /\ blocks[j].completed_at # NoInstant =>
                                   blocks'[j].completed_at = blocks[j].completed_at
          OBVIOUS
        <4>2. j \in DOMAIN blocks' BY <4>1 DEF Enters
        <4>3. CASE j # k BY <4>1, <4>2, <4>3 DEF Enters
        <4>4. CASE j = k
          <5>1. Entry(k, s, t) = blocks[k] /\ GoodRecord(blocks[k], newest)
            BY <1>1, <4>4, EntryLemma DEF IInv
          <5>2. /\ new.seen = blocks[k].seen + 1 /\ blocks[k].seen \in Nat
                /\ \A r \in Source : r # s => new.arrivals[r] = blocks[k].arrivals[r]
            BY <1>1, <3>1, <4>1, <5>1, EntersLemma
          <5>3. \A r \in Arrived(blocks[k].arrivals) : r \in Source /\ r # s
            BY <4>1, <5>1 DEF Enters, Arrived
          <5>4. blocks'[k] = new BY <4>1 DEF Enters
          <5>5. ASSUME blocks[k].completed_at # NoInstant
                PROVE  new.completed_at = blocks[k].completed_at
            <6> DEFINE old == blocks[k]
            <6>1. Complete(old) /\ Counts(old) BY <5>1 DEF GoodRecord
            <6>2. old.seen >= MinSources BY <5>5, <6>1 DEF Complete, Counts
            <6>3. MinSources \in Nat BY MinAssumption, SourceAssumption, FS_CardinalityType
            <6>4. new.seen # MinSources BY <5>2, <6>2, <6>3
            <6>5. new = Record(old, s, t) BY <4>1, <5>1 DEF Enters
            <6> HIDE DEF old
            <6>6. new.completed_at = old.completed_at BY <6>4, <6>5 DEF Record
            <6> QED BY <6>6 DEF old
          <5> QED BY <4>2, <4>4, <5>2, <5>3, <5>4, <5>5
        <4> QED BY <4>3, <4>4
      <3> QED BY <3>1, <3>2, <3>3
    <2> QED BY <1>1, <2>1, <2>2
  <1> QED BY <1>1, Invariance, PTL DEF Spec, NothingRewritten

-----------------------------------------------------------------------------
(***************************************************************************)
(* The table implements BlockRace.                                         *)
(***************************************************************************)

\* A delivery that enters a record is a first delivery of the race: the row of
\* the block gains the stamp, the new winner is one of the earliest.
LEMMA RaceStep ==
  ASSUME IInv, NEW s \in Source, NEW k \in Key, NEW t \in Instant, Moves(t),
         NEW new, Enters(s, k, t, new)
  PROVE  Race!Deliver(s, k, t)
  <1> DEFINE old == Entry(k, s, t)
  <1>1. /\ GoodRecord(new, newest')
        /\ new.arrivals = [old.arrivals EXCEPT ![s] = t]
    <2>1. new = Record(old, s, t) BY DEF Enters
    <2>2. GoodRecord(new, newest') BY EntersLemma
    <2> HIDE DEF old
    <2>3. new.arrivals = [old.arrivals EXCEPT ![s] = t] BY <2>1, RecordFields
    <2> QED BY <2>2, <2>3
  <1>2. old.arrivals = Board[k]
    <2>1. CASE k \in DOMAIN blocks BY <2>1, EntryLemma DEF Board
    <2>2. CASE k \notin DOMAIN blocks BY <2>2 DEF Entry, Board
    <2> QED BY <2>1, <2>2
  <1>3. Board[k][s] = NoInstant BY <1>2 DEF Enters
  <1>4. /\ k \in DOMAIN blocks' /\ blocks'[k] = new
        /\ \A j \in Key : j # k => (j \in DOMAIN blocks' <=> j \in DOMAIN blocks)
        /\ \A j \in DOMAIN blocks : j # k => blocks'[j] = blocks[j]
    BY DEF Enters
  <1>5. Board' = [Board EXCEPT ![k][s] = t]
    <2>1. Board'[k] = [Board[k] EXCEPT ![s] = t] BY <1>1, <1>2, <1>4 DEF Board
    <2>2. \A j \in Key : j # k => Board'[j] = Board[j] BY <1>4 DEF Board
    <2>3. /\ Board  = [j \in Key |-> Board[j]]
          /\ Board' = [j \in Key |-> Board'[j]]
      BY DEF Board
    <2> QED BY <2>1, <2>2, <2>3
  <1>6. Winner' = [Winner EXCEPT ![k] = new.first_src]
    <2>1. Winner'[k] = new.first_src BY <1>4 DEF Winner
    <2>2. \A j \in Key : j # k => Winner'[j] = Winner[j] BY <1>4 DEF Winner
    <2>3. /\ Winner  = [j \in Key |-> Winner[j]]
          /\ Winner' = [j \in Key |-> Winner'[j]]
      BY DEF Winner
    <2> QED BY <2>1, <2>2, <2>3
  <1>7. Board'[k] = new.arrivals BY <1>4 DEF Board
  <1>8. Race!Delivered(new.arrivals) = Arrived(new.arrivals)
    BY DEF Race!Delivered, Arrived
  <1>9. new.first_src \in Race!Earliest(new.arrivals)
    <2>1. /\ new.first_src \in Source /\ new.first \in Instant
          /\ new.arrivals[new.first_src] = new.first
          /\ \A r \in Arrived(new.arrivals) : new.first <= new.arrivals[r]
      BY <1>1 DEF GoodRecord, BlockRec, Leads
    <2>2. new.first_src \in Arrived(new.arrivals) BY <2>1 DEF Arrived
    <2> QED BY <1>8, <2>1, <2>2 DEF Race!Earliest
  <1>10. new.seen = Cardinality(Race!Delivered(new.arrivals))
    BY <1>1, <1>8 DEF GoodRecord, Counts
  <1>11. Announced' = IF new.seen = MinSources THEN Announced \cup {k} ELSE Announced
    BY DoneLemma
  <1>12. \E w \in Race!Earliest(Board'[k]) : Winner' = [Winner EXCEPT ![k] = w]
    BY <1>6, <1>7, <1>9
  <1>13. Announced' = IF Cardinality(Race!Delivered(Board'[k])) = MinSources
                      THEN Announced \cup {k} ELSE Announced
    BY <1>7, <1>10, <1>11
  <1> QED BY ONLY <1>3, <1>5, <1>12, <1>13 DEF Race!Deliver, Race!Cardinality, Cardinality

\* Every behaviour of the table is one of the race: each event is a first
\* delivery, or leaves board, winners and announcements alone.
THEOREM TableImplementsRace == Spec => RefinesRace
  <1>1. Init => Race!Init
    BY DEF Init, BlocksInit, Race!Init, Board, Winner, Announced
  <1>2. IInv /\ [Next]_vars => [Race!Next]_(Race!raceVars)
    <2> SUFFICES ASSUME IInv, [Next]_vars PROVE [Race!Next]_(Race!raceVars)
      OBVIOUS
    <2>1. ASSUME UNCHANGED blocks PROVE UNCHANGED Race!raceVars
      BY <2>1 DEF Race!raceVars, Board, Winner, Announced
    <2>2. CASE UNCHANGED vars BY <2>1, <2>2 DEF vars, blockVars
    <2>3. CASE Next
      <3>1. PICK s \in Source, k \in Key, t \in Instant :
              Moves(t) /\ (UNCHANGED <<blocks, lines>> \/ \E new : Enters(s, k, t, new))
        BY <2>3, StepLemma DEF IInv
      <3>2. CASE UNCHANGED <<blocks, lines>> BY <2>1, <3>2
      <3>3. CASE \E new : Enters(s, k, t, new)
        <4>1. Race!Deliver(s, k, t) BY <3>1, <3>3, RaceStep
        <4> QED BY <4>1 DEF Race!Next
      <3> QED BY <3>1, <3>2, <3>3
    <2> QED BY <2>2, <2>3
  <1> QED BY <1>1, <1>2, Invariance, PTL DEF Spec, RefinesRace, Race!Spec
=============================================================================
