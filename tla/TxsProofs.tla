----------------------------- MODULE TxsProofs -----------------------------
(***************************************************************************)
(* What holds of the transaction table for every set of sources, blocks    *)
(* and transactions, every mix of kinds and every order of the deliveries. *)
(***************************************************************************)
EXTENDS TxsRun, FiniteSetTheorems, TLAPS

USE SourceAssumption, InstantAssumption, NoneAssumption, ContentAssumption

-----------------------------------------------------------------------------
(***************************************************************************)
(* Events and records.                                                     *)
(***************************************************************************)

\* What a source can say of a transaction.
LEMMA EventFields ==
  ASSUME NEW s \in Source, NEW b \in Block, NEW h \in Content[b], NEW t \in Instant,
         NEW ev \in Events(s, b, h, t)
  PROVE  /\ ev \in TxEvent
         /\ ev.hash = h /\ ev.t = t
         /\ from_nitro(s) => /\ ev.block_key = NitroKey[b]
                             /\ ev.tx_count = Cardinality(Content[b])
                             /\ ev.block_key # NoKey /\ ev.tx_count # NoCount
         /\ ~from_nitro(s) => ev.tx_count = NoCount
         /\ setup.kind[s] = "eira" => ev.block_key \in EiraKeys(b) /\ ev.block_key # NoKey
         /\ setup.kind[s] # "eira" /\ ~from_nitro(s) => ev.block_key = NoKey
  <1>1. h \in Hash /\ NitroKey[b] \in Key /\ EiraKeys(b) \subseteq Key BY DEF EiraKeys
  <1>2. Cardinality(Content[b]) \in Nat BY FS_CardinalityType
  <1>3. CASE setup.kind[s] = "nitro"
    <2>1. ev = [hash |-> h, block_key |-> NitroKey[b], tx_count |-> Cardinality(Content[b]),
                synthetic_swap |-> FALSE, t |-> t]
      BY <1>3 DEF Events
    <2>2. ev \in TxEvent BY <2>1, <1>1, <1>2 DEF TxEvent
    <2>3. ev.block_key # NoKey /\ ev.tx_count # NoCount BY <2>1, <1>1, <1>2
    <2> QED BY <1>3, <2>1, <2>2, <2>3 DEF from_nitro
  <1>4. CASE setup.kind[s] = "eira" BY <1>1, <1>4 DEF Events, TxEvent, from_nitro
  <1>5. CASE setup.kind[s] # "nitro" /\ setup.kind[s] # "eira"
    <2>1. ev = [hash |-> h, block_key |-> NoKey, tx_count |-> NoCount,
                synthetic_swap |-> FALSE, t |-> t]
      BY <1>5 DEF Events
    <2>2. ev \in TxEvent BY <2>1, <1>1 DEF TxEvent
    <2> QED BY <1>5, <2>1, <2>2 DEF from_nitro
  <1> QED BY <1>3, <1>4, <1>5

\* The record after an event.
Updated(rec, nitro, s, ev) == Arrive(Attribute(rec, nitro, ev), s, ev.t)

\* Its fields.
Becomes(rec, nitro, s, ev, new) ==
    LET takes == TakesKey(rec, nitro, ev.block_key)
    IN  /\ new.block_key = IF takes THEN ev.block_key ELSE rec.block_key
        /\ new.block_from_nitro <=> IF takes THEN nitro ELSE rec.block_from_nitro
        /\ new.tx_count = IF nitro /\ ev.tx_count # NoCount THEN ev.tx_count ELSE rec.tx_count
        /\ new.synthetic_swap <=> (rec.synthetic_swap \/ ev.synthetic_swap)
        /\ rec.arrivals[s] # NoInstant =>
              new.arrivals = rec.arrivals /\ new.first = rec.first /\ new.seen = rec.seen
        /\ rec.arrivals[s] = NoInstant =>
              /\ new.arrivals = [rec.arrivals EXCEPT ![s] = ev.t]
              /\ new.first = IF ev.t < rec.first THEN ev.t ELSE rec.first
              /\ new.seen = rec.seen + 1

\* The record that OnTx puts back, field by field.
LEMMA UpdatedFields ==
  ASSUME NEW rec \in TxRec, NEW nitro \in BOOLEAN, NEW s \in Source, NEW ev \in TxEvent
  PROVE  /\ Updated(rec, nitro, s, ev) \in TxRec
         /\ Becomes(rec, nitro, s, ev, Updated(rec, nitro, s, ev))
  <1> DEFINE mid == Attribute(rec, nitro, ev)
  <1>2. mid \in TxRec /\ mid.arrivals = rec.arrivals /\ mid.first = rec.first /\ mid.seen = rec.seen
    BY DEF Attribute, TxRec, TxEvent
  <1>3. /\ mid.block_key = IF TakesKey(rec, nitro, ev.block_key) THEN ev.block_key ELSE rec.block_key
        /\ mid.block_from_nitro = IF TakesKey(rec, nitro, ev.block_key) THEN nitro ELSE rec.block_from_nitro
        /\ mid.tx_count = IF nitro /\ ev.tx_count # NoCount THEN ev.tx_count ELSE rec.tx_count
        /\ mid.synthetic_swap = (rec.synthetic_swap \/ ev.synthetic_swap)
    BY DEF Attribute
  <1> HIDE DEF mid
  <1>4. ev.t \in Instant BY DEF TxEvent
  <1>5. CASE rec.arrivals[s] # NoInstant
    <2>1. Updated(rec, nitro, s, ev) = mid BY <1>2, <1>5 DEF Updated, Arrive, mid
    <2> QED BY <2>1, <1>2, <1>3, <1>5 DEF Becomes
  <1>6. CASE rec.arrivals[s] = NoInstant
    <2>1. Updated(rec, nitro, s, ev) =
             [mid EXCEPT !.arrivals = [mid.arrivals EXCEPT ![s] = ev.t],
                         !.seen     = mid.seen + 1,
                         !.first    = IF ev.t < mid.first THEN ev.t ELSE mid.first]
      BY <1>2, <1>6 DEF Updated, Arrive, mid, TxRec
    <2>2. /\ [mid.arrivals EXCEPT ![s] = ev.t] \in [Source -> Instant \cup {NoInstant}]
          /\ mid.seen + 1 \in Nat
          /\ (IF ev.t < mid.first THEN ev.t ELSE mid.first) \in Instant
      BY <1>2, <1>4 DEF TxRec
    <2>3. Updated(rec, nitro, s, ev) \in TxRec BY <2>1, <2>2, <1>2 DEF TxRec
    <2> QED BY <2>1, <2>2, <2>3, <1>2, <1>3, <1>6 DEF TxRec, Becomes
  <1> QED BY <1>5, <1>6

\* The record an event meets: the one of the table, or an empty one.
LEMMA EntryFields ==
  ASSUME TypeOK, NEW h \in Hash, NEW t \in Instant
  PROVE  /\ Entry(h, t) \in TxRec
         /\ h \in DOMAIN txs => Entry(h, t) = txs[h]
         /\ h \notin DOMAIN txs =>
               /\ Entry(h, t).arrivals = [r \in Source |-> NoInstant]
               /\ Entry(h, t).first = t /\ Entry(h, t).seen = 0
               /\ Entry(h, t).block_key = NoKey /\ ~Entry(h, t).block_from_nitro
               /\ Entry(h, t).tx_count = NoCount /\ ~Entry(h, t).synthetic_swap
  BY DEF Entry, TxRec, TypeOK

\* Event ev of s, stamped t, updates the record of h.
Updates(s, h, t, ev) ==
    /\ heard' = heard \cup {[src |-> s, ev |-> ev]}
    /\ setup' = setup
    /\ tx_events' = [tx_events EXCEPT ![s] = tx_events[s] + 1]
    /\ DOMAIN txs' = DOMAIN txs \cup {h}
    /\ txs'[h] = Updated(Entry(h, t), from_nitro(s), s, ev)
    /\ txs' = [g \in DOMAIN txs \cup {h} |-> IF g = h THEN txs'[h] ELSE txs[g]]

\* What one step does: one source sends one event, and one record is updated.
LEMMA StepFields ==
  ASSUME NEW s \in Source, NEW b \in Block, NEW h \in Content[b], NEW t \in Instant,
         Deliver(s, b, h, t)
  PROVE  \E ev \in Events(s, b, h, t) : Updates(s, h, t, ev)
  <1>1. PICK ev \in Events(s, b, h, t) : /\ OnTx(s, ev)
                                        /\ heard' = heard \cup {[src |-> s, ev |-> ev]}
    BY DEF Deliver
  <1>2. ev.hash = h /\ ev.t = t BY EventFields
  <1>3. txs' = [g \in DOMAIN txs \cup {h} |-> IF g = h THEN Updated(Entry(h, t), from_nitro(s), s, ev) ELSE txs[g]]
    BY <1>1, <1>2 DEF OnTx, Put, Updated
  <1>4. DOMAIN txs' = DOMAIN txs \cup {h} /\ txs'[h] = Updated(Entry(h, t), from_nitro(s), s, ev)
    BY <1>3
  <1> QED BY <1>1, <1>3, <1>4 DEF OnTx, Updates

-----------------------------------------------------------------------------
(***************************************************************************)
(* Types.                                                                  *)
(***************************************************************************)
LEMMA InitType == Init => TypeOK
  BY DEF Init, TxsInit, TypeOK

\* Every step keeps the types.
LEMMA NextType == TypeOK /\ [Next]_vars => TypeOK'
  <1> SUFFICES ASSUME TypeOK, [Next]_vars PROVE TypeOK'
    OBVIOUS
  <1>1. CASE UNCHANGED vars BY <1>1 DEF vars, txVars, TypeOK
  <1>2. ASSUME NEW s \in Source, NEW b \in Block, NEW t \in Instant, NEW h \in Content[b],
               Deliver(s, b, h, t)
        PROVE  TypeOK'
    <2>1. PICK ev \in Events(s, b, h, t) : Updates(s, h, t, ev)
      BY <1>2, StepFields
    <2>2. ev \in TxEvent /\ h \in Hash BY EventFields
    <2>3. Entry(h, t) \in TxRec BY <2>2, EntryFields
    <2>6. from_nitro(s) \in BOOLEAN BY DEF from_nitro
    <2>7. txs'[h] = Updated(Entry(h, t), from_nitro(s), s, ev) BY <2>1 DEF Updates
    <2>5. txs'[h] \in TxRec BY <2>2, <2>3, <2>6, <2>7, UpdatedFields
    <2>4. txs' \in [DOMAIN txs' -> TxRec] /\ DOMAIN txs' \subseteq Hash
      BY <2>1, <2>2, <2>5 DEF TypeOK, Updates
    <2> QED BY <2>1, <2>2, <2>4 DEF TypeOK, Updates
  <1> QED BY <1>1, <1>2 DEF Next

\* The transaction table keeps its types.
THEOREM TypeCorrect == Spec => []TypeOK
  BY InitType, NextType, PTL DEF Spec
-----------------------------------------------------------------------------
(***************************************************************************)
(* One record against what was heard of its transaction: E are the events, *)
(* N those of Nitro sources.                                               *)
(***************************************************************************)
Agrees(rec, E, N) ==
    /\ rec.block_from_nitro <=> N # {}
    /\ rec.block_from_nitro => /\ \E e \in N : rec.block_key = e.ev.block_key
                               /\ \E e \in N : rec.tx_count = e.ev.tx_count
    /\ ~rec.block_from_nitro =>
          /\ rec.tx_count = NoCount
          /\ rec.block_key = NoKey => \A e \in E : e.ev.block_key = NoKey
          /\ rec.block_key # NoKey => \E e \in E : e.ev.block_key = rec.block_key
    /\ rec.synthetic_swap <=> \E e \in E : e.ev.synthetic_swap

\* An event keeps a record in agreement.
LEMMA AgreesStep ==
  ASSUME NEW rec \in TxRec, NEW nitro \in BOOLEAN, NEW s \in Source, NEW ev \in TxEvent,
         NEW E, NEW N, N \subseteq E, Agrees(rec, E, N),
         \A e \in N : e.ev.block_key # NoKey,
         nitro => ev.block_key # NoKey /\ ev.tx_count # NoCount
  PROVE  Agrees(Updated(rec, nitro, s, ev),
                E \cup {[src |-> s, ev |-> ev]},
                IF nitro THEN N \cup {[src |-> s, ev |-> ev]} ELSE N)
  <1> DEFINE new == Updated(rec, nitro, s, ev)
             one == [src |-> s, ev |-> ev]
             E2  == E \cup {one}
             N2  == IF nitro THEN N \cup {one} ELSE N
             takes == TakesKey(rec, nitro, ev.block_key)
  <1>0. new \in TxRec /\ Becomes(rec, nitro, s, ev, new) BY UpdatedFields
  <1> HIDE DEF new
  <1>1. /\ new.block_key = IF takes THEN ev.block_key ELSE rec.block_key
        /\ new.block_from_nitro <=> IF takes THEN nitro ELSE rec.block_from_nitro
        /\ new.tx_count = IF nitro /\ ev.tx_count # NoCount THEN ev.tx_count ELSE rec.tx_count
        /\ new.synthetic_swap <=> (rec.synthetic_swap \/ ev.synthetic_swap)
    BY <1>0 DEF Becomes
  <1>2. one.ev = ev OBVIOUS
  <1> HIDE DEF one
  <1>3. /\ rec.block_from_nitro \in BOOLEAN /\ new.block_from_nitro \in BOOLEAN
        /\ rec.synthetic_swap \in BOOLEAN /\ new.synthetic_swap \in BOOLEAN
        /\ ev.synthetic_swap \in BOOLEAN
    BY <1>0 DEF TxRec, TxEvent
  <1>4. new.synthetic_swap <=> \E e \in E2 : e.ev.synthetic_swap
    BY <1>1, <1>2, <1>3 DEF Agrees
  <1>5. CASE nitro
    <2>1. one \in N2 /\ new.tx_count = one.ev.tx_count BY <1>1, <1>2, <1>5
    <2>2. CASE rec.block_from_nitro
      <3>1. rec.block_key # NoKey BY <2>2 DEF Agrees
      <3>2. ~takes BY <2>2, <3>1 DEF TakesKey
      <3>3. new.block_from_nitro /\ new.block_key = rec.block_key BY <1>1, <2>2, <3>2
      <3>4. \E e \in N2 : new.block_key = e.ev.block_key BY <3>3, <2>2 DEF Agrees
      <3> HIDE DEF E2, N2
      <3> QED BY <3>3, <3>4, <2>1, <1>4 DEF Agrees, E2, N2, new, one
    <2>3. CASE ~rec.block_from_nitro
      <3>1. takes BY <1>5, <2>3 DEF TakesKey
      <3>2. new.block_from_nitro /\ new.block_key = one.ev.block_key BY <1>1, <1>2, <1>5, <3>1
      <3> HIDE DEF E2, N2
      <3> QED BY <3>2, <2>1, <1>4 DEF Agrees, E2, N2, new, one
    <2> QED BY <2>2, <2>3
  <1>6. CASE ~nitro
    <2>1. N2 = N /\ new.tx_count = rec.tx_count BY <1>1, <1>6
    <2>2. CASE takes
      <3>1. rec.block_key = NoKey /\ ev.block_key # NoKey BY <1>6, <2>2 DEF TakesKey
      <3>2. ~rec.block_from_nitro BY <3>1, <1>3 DEF Agrees
      <3>3. ~new.block_from_nitro /\ new.block_key = one.ev.block_key BY <1>1, <1>2, <1>6, <2>2
      <3>4. one \in E2 OBVIOUS
      <3>5. N2 = {} /\ new.tx_count = NoCount BY <2>1, <3>2 DEF Agrees
      <3>6. new.block_key # NoKey BY <3>1, <3>3, <1>2
      <3> HIDE DEF E2, N2
      <3> QED BY <3>3, <3>4, <3>5, <3>6, <1>4 DEF Agrees, E2, N2, new, one
    <2>3. CASE ~takes
      <3>1. new.block_key = rec.block_key /\ (new.block_from_nitro <=> rec.block_from_nitro)
        BY <1>1, <2>3
      <3>2. rec.block_key = NoKey => ev.block_key = NoKey BY <2>3 DEF TakesKey
      <3>3. rec.block_key = NoKey /\ ~rec.block_from_nitro => \A e \in E2 : e.ev.block_key = NoKey
        BY <3>2, <1>2 DEF Agrees
      <3>4. rec.block_key # NoKey /\ ~rec.block_from_nitro =>
               \E e \in E2 : e.ev.block_key = rec.block_key
        BY DEF Agrees
      <3> HIDE DEF E2
      <3> QED BY <3>1, <3>3, <3>4, <2>1, <1>4 DEF Agrees, E2, N2, new, one
    <2> QED BY <2>2, <2>3
  <1> QED BY <1>5, <1>6

\* The arrivals of a record against the events heard of its transaction.
Timed(rec, E) ==
    /\ \A r \in Source : rec.arrivals[r] = NoInstant => \A e \in E : e.src # r
    /\ \A r \in Source : rec.arrivals[r] # NoInstant =>
          /\ \E e \in E : e.src = r /\ e.ev.t = rec.arrivals[r]
          /\ \A e \in E : e.src = r => rec.arrivals[r] <= e.ev.t
    /\ \E e \in E : e.ev.t = rec.first
    /\ \A e \in E : rec.first <= e.ev.t
    /\ rec.seen = Cardinality({e.src : e \in E})

\* What Entry makes for a transaction that t is the first stamp of.
Blank(rec, t) ==
    /\ rec.arrivals = [r \in Source |-> NoInstant]
    /\ rec.first = t
    /\ rec.seen = 0

\* An event whose stamp is not older than those its source sent before keeps
\* the arrivals right.
LEMMA TimedStep ==
  ASSUME NEW rec \in TxRec, NEW nitro \in BOOLEAN, NEW s \in Source, NEW ev \in TxEvent,
         NEW E \in SUBSET [src : Source, ev : TxEvent],
         Timed(rec, E) \/ (E = {} /\ Blank(rec, ev.t)),
         \A e \in E : e.src = s => e.ev.t <= ev.t
  PROVE  Timed(Updated(rec, nitro, s, ev), E \cup {[src |-> s, ev |-> ev]})
  <1> DEFINE new == Updated(rec, nitro, s, ev)
             one == [src |-> s, ev |-> ev]
             E2  == E \cup {one}
             Srcs(F) == {e.src : e \in F}
  <1>0. new \in TxRec /\ Becomes(rec, nitro, s, ev, new) BY UpdatedFields
  <1>1. one.ev = ev /\ one.src = s OBVIOUS
  <1> HIDE DEF new, one
  <1> DEFINE Heard == /\ \A r \in Source : rec.arrivals[r] = NoInstant => \A e \in E : e.src # r
                      /\ \A r \in Source : rec.arrivals[r] # NoInstant =>
                            /\ \E e \in E : e.src = r /\ e.ev.t = rec.arrivals[r]
                            /\ \A e \in E : e.src = r => rec.arrivals[r] <= e.ev.t
                      /\ \A e \in E : rec.first <= e.ev.t
                      /\ rec.first = ev.t \/ \E e \in E : e.ev.t = rec.first
                      /\ E # {} => \E e \in E : e.ev.t = rec.first
                      /\ rec.seen = Cardinality(Srcs(E))
  <1>2. Heard
    <2>1. CASE Timed(rec, E) BY <2>1, Zenon DEF Timed
    <2>2. CASE E = {} /\ Blank(rec, ev.t)
      <3>1. Srcs(E) = {} BY <2>2
      <3>2. rec.seen = Cardinality(Srcs(E)) BY <2>2, <3>1, FS_EmptySet DEF Blank
      <3>3. \A r \in Source : rec.arrivals[r] = NoInstant BY <2>2 DEF Blank
      <3> HIDE DEF Srcs
      <3> QED BY <2>2, <3>2, <3>3 DEF Blank
    <2> QED BY <2>1, <2>2
  <1>3. /\ rec.first \in Nat /\ ev.t \in Nat /\ ev.t \in Instant
        /\ \A e \in E : e.src \in Source /\ e.ev.t \in Nat
        /\ rec.arrivals \in [Source -> Instant \cup {NoInstant}]
        /\ \A r \in Source : rec.arrivals[r] # NoInstant => rec.arrivals[r] \in Nat
    BY DEF TxRec, TxEvent
  <1>4. Srcs(E) \subseteq Source /\ IsFiniteSet(Srcs(E)) BY <1>3, FS_Subset
  <1>5. Srcs(E2) = Srcs(E) \cup {s} BY <1>1
  <1>6. CASE rec.arrivals[s] # NoInstant
    <2>1. new.arrivals = rec.arrivals /\ new.first = rec.first /\ new.seen = rec.seen
      BY <1>0, <1>6 DEF Becomes
    <2>2. PICK d \in E : d.src = s /\ d.ev.t = rec.arrivals[s] BY <1>2, <1>6
    <2>3. d.ev.t <= ev.t BY <2>2
    <2>4. rec.first <= ev.t BY <1>2, <1>3, <2>2, <2>3
    <2>5. Srcs(E2) = Srcs(E) BY <1>5, <2>2
    <2>6. \A r \in Source : rec.arrivals[r] = NoInstant => \A e \in E2 : e.src # r
      BY <1>1, <1>2, <1>6
    <2>7. \A r \in Source : rec.arrivals[r] # NoInstant =>
             /\ \E e \in E2 : e.src = r /\ e.ev.t = rec.arrivals[r]
             /\ \A e \in E2 : e.src = r => rec.arrivals[r] <= e.ev.t
      BY <1>1, <1>2, <2>2, <2>3
    <2>8. (\E e \in E2 : e.ev.t = rec.first) /\ \A e \in E2 : rec.first <= e.ev.t
      BY <1>1, <1>2, <2>2, <2>4
    <2> HIDE DEF E2
    <2>9. new.seen = Cardinality({e.src : e \in E2}) BY <1>2, <2>1, <2>5
    <2>10. Timed(new, E2) BY <2>1, <2>6, <2>7, <2>8, <2>9 DEF Timed
    <2> QED BY <2>10 DEF E2, new, one
  <1>7. CASE rec.arrivals[s] = NoInstant
    <2>1. /\ new.arrivals = [rec.arrivals EXCEPT ![s] = ev.t]
          /\ new.first = IF ev.t < rec.first THEN ev.t ELSE rec.first
          /\ new.seen = rec.seen + 1
      BY <1>0, <1>7 DEF Becomes
    <2>2. s \notin Srcs(E) BY <1>2, <1>7
    <2>3. Cardinality(Srcs(E2)) = Cardinality(Srcs(E)) + 1 BY <1>4, <1>5, <2>2, FS_AddElement
    <2>4. new.seen = Cardinality(Srcs(E2)) BY <1>2, <2>1, <2>3
    <2>5. /\ new.arrivals[s] = ev.t /\ ev.t # NoInstant
          /\ \A r \in Source : r # s => new.arrivals[r] = rec.arrivals[r]
      BY <1>3, <2>1
    <2>6. \A r \in Source : new.arrivals[r] = NoInstant => \A e \in E2 : e.src # r
      BY <1>1, <1>2, <2>5
    <2>7. \A r \in Source : new.arrivals[r] # NoInstant =>
             /\ \E e \in E2 : e.src = r /\ e.ev.t = new.arrivals[r]
             /\ \A e \in E2 : e.src = r => new.arrivals[r] <= e.ev.t
      <3>1. ASSUME NEW r \in Source, r = s
            PROVE  /\ \E e \in E2 : e.src = r /\ e.ev.t = new.arrivals[r]
                   /\ \A e \in E2 : e.src = r => new.arrivals[r] <= e.ev.t
        BY <1>1, <1>2, <1>3, <1>7, <2>5, <3>1
      <3>2. ASSUME NEW r \in Source, r # s, new.arrivals[r] # NoInstant
            PROVE  /\ \E e \in E2 : e.src = r /\ e.ev.t = new.arrivals[r]
                   /\ \A e \in E2 : e.src = r => new.arrivals[r] <= e.ev.t
        BY <1>1, <1>2, <2>5, <3>2
      <3> QED BY <3>1, <3>2
    <2>8. (\E e \in E2 : e.ev.t = new.first) /\ \A e \in E2 : new.first <= e.ev.t
      BY <1>1, <1>2, <1>3, <2>1
    <2> HIDE DEF E2
    <2> QED BY <2>4, <2>6, <2>7, <2>8 DEF Timed, E2, new, one
  <1> QED BY <1>6, <1>7

-----------------------------------------------------------------------------
(***************************************************************************)
(* The inductive invariant: every record agrees with what was heard of its *)
(* transaction, and Nitro sources were heard to name the block and its     *)
(* size.                                                                   *)
(***************************************************************************)
NitroNames ==
    \A e \in heard : from_nitro(e.src) =>
        \E b \in Block : /\ e.ev.hash \in Content[b]
                         /\ e.ev.block_key = NitroKey[b]
                         /\ e.ev.tx_count = Cardinality(Content[b])

EiraNames ==
    \A e \in heard :
        /\ setup.kind[e.src] = "eira" =>
              \E b \in Block : e.ev.hash \in Content[b] /\ e.ev.block_key \in EiraKeys(b)
        /\ setup.kind[e.src] # "eira" /\ ~from_nitro(e.src) => e.ev.block_key = NoKey

RecordsAgree ==
    /\ \A h \in DOMAIN txs : Agrees(txs[h], Of(h), NitroOf(h)) /\ Timed(txs[h], Of(h))
    /\ \A e \in heard : e.ev.hash \in DOMAIN txs

IInv == TypeOK /\ NitroNames /\ EiraNames /\ RecordsAgree

\* The empty table satisfies the invariant.
LEMMA InitInv == Init => IInv
  BY InitType DEF Init, TxsInit, IInv, NitroNames, EiraNames, RecordsAgree

\* One delivery keeps the invariant.
LEMMA DeliverInv ==
  ASSUME IInv, TypeOK', NEW s \in Source, NEW b \in Block, NEW t \in Instant, NEW h \in Content[b],
         Deliver(s, b, h, t)
  PROVE  IInv'
  <1>1. PICK ev \in Events(s, b, h, t) : Updates(s, h, t, ev)
    BY StepFields
  <1> DEFINE one == [src |-> s, ev |-> ev]
             nit == from_nitro(s)
             old == Entry(h, t)
  <1>2. /\ ev \in TxEvent /\ ev.hash = h /\ ev.t = t /\ h \in Hash
        /\ nit => /\ ev.block_key = NitroKey[b] /\ ev.tx_count = Cardinality(Content[b])
                  /\ ev.block_key # NoKey /\ ev.tx_count # NoCount
    <2>1. /\ ev \in TxEvent /\ ev.hash = h /\ ev.t = t
          /\ from_nitro(s) => /\ ev.block_key = NitroKey[b]
                              /\ ev.tx_count = Cardinality(Content[b])
                              /\ ev.block_key # NoKey /\ ev.tx_count # NoCount
      BY EventFields
    <2>2. h \in Hash OBVIOUS
    <2> QED BY <2>1, <2>2
  <1>3. /\ heard' = heard \cup {one} /\ setup' = setup
        /\ DOMAIN txs' = DOMAIN txs \cup {h}
        /\ txs'[h] = Updated(old, nit, s, ev)
        /\ \A g \in DOMAIN txs : g # h => txs'[g] = txs[g]
    BY <1>1 DEF Updates
  <1>4. \A q : from_nitro(q)' <=> from_nitro(q) BY <1>3 DEF from_nitro
  <1>5. one.src = s /\ one.ev = ev OBVIOUS
  <1>6. TypeOK BY DEF IInv
  <1>7. NitroNames'
    <2> SUFFICES ASSUME NEW e \in heard', from_nitro(e.src)
                 PROVE  \E c \in Block : /\ e.ev.hash \in Content[c]
                                         /\ e.ev.block_key = NitroKey[c]
                                         /\ e.ev.tx_count = Cardinality(Content[c])
      BY <1>4 DEF NitroNames
    <2>1. CASE e \in heard BY <2>1 DEF IInv, NitroNames
    <2>2. CASE e = one BY <2>2, <1>2, <1>5
    <2> QED BY <2>1, <2>2, <1>3
  <1>15. EiraNames'
    <2>1. /\ setup.kind[s] = "eira" => ev.block_key \in EiraKeys(b)
          /\ setup.kind[s] # "eira" /\ ~from_nitro(s) => ev.block_key = NoKey
      BY EventFields
    <2>2. ASSUME NEW e \in heard'
          PROVE  /\ setup.kind[e.src] = "eira" =>
                       \E c \in Block : e.ev.hash \in Content[c] /\ e.ev.block_key \in EiraKeys(c)
                 /\ setup.kind[e.src] # "eira" /\ ~from_nitro(e.src) => e.ev.block_key = NoKey
      <3>1. CASE e \in heard BY <3>1 DEF IInv, EiraNames
      <3>2. CASE e = one BY <3>2, <2>1, <1>2, <1>5
      <3> QED BY <3>1, <3>2, <1>3
    <2> QED BY <2>2, <1>3, <1>4 DEF EiraNames
  <1> HIDE DEF one, nit, old
  <1>8. /\ Of(h)' = Of(h) \cup {one}
        /\ NitroOf(h)' = IF nit THEN NitroOf(h) \cup {one} ELSE NitroOf(h)
        /\ \A g : g # h => Of(g)' = Of(g) /\ NitroOf(g)' = NitroOf(g)
    <2>1. Of(h)' = Of(h) \cup {one} BY <1>2, <1>3, <1>5 DEF Of
    <2>2. \A g : g # h => Of(g)' = Of(g) BY <1>2, <1>3, <1>5 DEF Of
    <2>3. \A g : g # h => NitroOf(g)' = NitroOf(g) BY <2>2, <1>4 DEF NitroOf
    <2>4. from_nitro(one.src) <=> nit BY <1>5 DEF nit
    <2>5. NitroOf(h)' = {e \in Of(h) \cup {one} : from_nitro(e.src)} BY <2>1, <1>4 DEF NitroOf
    <2>6. CASE nit
      <3>1. {e \in Of(h) \cup {one} : from_nitro(e.src)} = NitroOf(h) \cup {one}
        BY <2>4, <2>6 DEF NitroOf
      <3> QED BY <3>1, <2>1, <2>2, <2>3, <2>5, <2>6
    <2>7. CASE ~nit
      <3>1. {e \in Of(h) \cup {one} : from_nitro(e.src)} = NitroOf(h)
        BY <2>4, <2>7 DEF NitroOf
      <3> QED BY <3>1, <2>1, <2>2, <2>3, <2>5, <2>7
    <2> QED BY <2>6, <2>7
  <1>9. /\ old \in TxRec
        /\ h \in DOMAIN txs => Agrees(old, Of(h), NitroOf(h)) /\ Timed(old, Of(h))
        /\ h \notin DOMAIN txs => Of(h) = {} /\ NitroOf(h) = {} /\ Agrees(old, {}, {}) /\ Blank(old, ev.t)
    <2>1. old \in TxRec BY <1>2, <1>6, EntryFields DEF old
    <2>2. CASE h \in DOMAIN txs
      <3>1. old = txs[h] BY <2>2, <1>2, <1>6, EntryFields DEF old
      <3> QED BY <2>1, <2>2, <3>1 DEF IInv, RecordsAgree
    <2>3. CASE h \notin DOMAIN txs
      <3>1. Of(h) = {} BY <2>3 DEF IInv, RecordsAgree, Of
      <3>2. NitroOf(h) = {} BY <3>1 DEF NitroOf
      <3>3. /\ old.arrivals = [r \in Source |-> NoInstant] /\ old.first = t /\ old.seen = 0
            /\ old.block_key = NoKey /\ ~old.block_from_nitro
            /\ old.tx_count = NoCount /\ ~old.synthetic_swap
        BY <2>3 DEF Entry, old
      <3> QED BY <2>1, <2>3, <3>1, <3>2, <3>3, <1>2 DEF Agrees, Blank
    <2> QED BY <2>2, <2>3
  <1>10. nit \in BOOLEAN BY DEF nit, from_nitro
  <1>11. /\ NitroOf(h) \subseteq Of(h)
         /\ Of(h) \in SUBSET [src : Source, ev : TxEvent]
         /\ \A e \in NitroOf(h) : e.ev.block_key # NoKey
         /\ \A e \in Of(h) : e.src = s => e.ev.t <= ev.t
    <2>1. \A e \in NitroOf(h) : \E c \in Block : e.ev.block_key = NitroKey[c]
      BY DEF IInv, NitroNames, NitroOf, Of
    <2>2. \A c \in Block : NitroKey[c] # NoKey OBVIOUS
    <2>3. \A e \in Of(h) : e.src = s => e.ev.t <= ev.t BY <1>2 DEF Deliver, Of
    <2> QED BY <2>1, <2>2, <2>3, <1>6 DEF NitroOf, Of, TypeOK
  <1>12. Agrees(txs'[h], Of(h)', NitroOf(h)')
    <2>1. Agrees(old, Of(h), NitroOf(h)) BY <1>9
    <2>2. Agrees(Updated(old, nit, s, ev), Of(h) \cup {one},
                 IF nit THEN NitroOf(h) \cup {one} ELSE NitroOf(h))
      BY <2>1, <1>2, <1>9, <1>10, <1>11, AgreesStep DEF one
    <2> QED BY <2>2, <1>3, <1>8
  <1>13. Timed(txs'[h], Of(h)')
    <2>1. Timed(old, Of(h)) \/ (Of(h) = {} /\ Blank(old, ev.t)) BY <1>9
    <2>2. Timed(Updated(old, nit, s, ev), Of(h) \cup {one})
      BY <2>1, <1>2, <1>9, <1>10, <1>11, TimedStep DEF one
    <2> QED BY <2>2, <1>3, <1>8
  <1>14. RecordsAgree'
    <2>1. ASSUME NEW g \in DOMAIN txs', g # h
          PROVE  Agrees(txs'[g], Of(g)', NitroOf(g)') /\ Timed(txs'[g], Of(g)')
      <3>1. g \in DOMAIN txs /\ txs'[g] = txs[g] BY <2>1, <1>3
      <3>2. Of(g)' = Of(g) /\ NitroOf(g)' = NitroOf(g) BY <2>1, <1>8
      <3> QED BY <3>1, <3>2 DEF IInv, RecordsAgree
    <2>2. \A e \in heard' : e.ev.hash \in DOMAIN txs'
      BY <1>2, <1>3, <1>5 DEF IInv, RecordsAgree
    <2> QED BY <2>1, <2>2, <1>12, <1>13 DEF RecordsAgree
  <1> QED BY <1>7, <1>14, <1>15 DEF IInv

\* Every step keeps it.
LEMMA NextInv == IInv /\ [Next]_vars => IInv'
  <1> SUFFICES ASSUME IInv, [Next]_vars PROVE IInv'
    OBVIOUS
  <1>1. TypeOK' BY NextType DEF IInv
  <1>2. CASE UNCHANGED vars
    BY <1>1, <1>2 DEF vars, txVars, IInv, NitroNames, EiraNames, RecordsAgree, Of, NitroOf, from_nitro
  <1>3. CASE Next BY <1>1, <1>3, DeliverInv DEF Next
  <1> QED BY <1>2, <1>3

\* The invariant holds in every state.
THEOREM Inductive == Spec => []IInv
  BY InitInv, NextInv, PTL DEF Spec

-----------------------------------------------------------------------------
(***************************************************************************)
(* What follows from it.                                                   *)
(***************************************************************************)
LEMMA AttributionFromInv == IInv => AttributionOrderless
  <1> SUFFICES ASSUME IInv, NEW h \in DOMAIN txs
               PROVE  /\ Agrees(txs[h], Of(h), NitroOf(h))
                      /\ \A b \in Block : BlocksOf(h) = {b} /\ txs[h].block_from_nitro =>
                            txs[h].block_key = NitroKey[b] /\ txs[h].tx_count = Cardinality(Content[b])
    BY DEF AttributionOrderless, Agrees
  <1>1. Agrees(txs[h], Of(h), NitroOf(h)) BY DEF IInv, RecordsAgree
  <1>2. ASSUME NEW b \in Block, BlocksOf(h) = {b}, NEW e \in NitroOf(h)
        PROVE  e.ev.block_key = NitroKey[b] /\ e.ev.tx_count = Cardinality(Content[b])
    <2>1. PICK c \in Block : /\ h \in Content[c] /\ e.ev.block_key = NitroKey[c]
                             /\ e.ev.tx_count = Cardinality(Content[c])
      BY DEF IInv, NitroNames, NitroOf, Of
    <2>2. c = b BY <1>2, <2>1 DEF BlocksOf
    <2> QED BY <2>1, <2>2
  <1> QED BY <1>1, <1>2 DEF Agrees

\* The block, the size and the swap flag of a transaction do not depend on the
\* order in which its deliveries are processed.
THEOREM AttributionCorrect == Spec => []AttributionOrderless
  BY Inductive, AttributionFromInv, PTL

\* A record that agrees with what was heard gives the summaries what was heard.
LEMMA FirstsFromInv == IInv => FirstsRight
  <1> SUFFICES ASSUME IInv PROVE FirstsRight
    OBVIOUS
  <1>1. ASSUME NEW h \in DOMAIN txs
        PROVE  LET Earliest(e) == \A f \in Of(h) : e.ev.t <= f.ev.t
                   By(s)       == {e \in Of(h) : e.src = s}
               IN  /\ h \in Matched <=>
                         /\ Cardinality({e.src : e \in Of(h)}) >= MinSources
                         /\ \E e \in Of(h) : Earliest(e) /\ in_window(e.ev.t)
                   /\ h \in Total => \A s \in Source : h \in SeenBy(s) <=> By(s) # {}
                   /\ h \in Matched => \A s \in Source :
                         /\ h \in Firsts(s) <=> \E e \in By(s) : Earliest(e)
                         /\ h \in FirstBy1ms(s) <=>
                               /\ Of(h) # By(s)
                               /\ \E e \in By(s) : \A f \in Of(h) \ By(s) : e.ev.t + Lead <= f.ev.t
                   /\ \A other \in Source \ {setup.reference} :
                         h \in RefFirst(other) <=>
                             /\ h \in Rows(other)
                             /\ \E e \in By(setup.reference) : \A f \in By(other) : e.ev.t < f.ev.t
    <2> DEFINE rec         == txs[h]
               Earliest(e) == \A f \in Of(h) : e.ev.t <= f.ev.t
               By(s)       == {e \in Of(h) : e.src = s}
    <2>1. Timed(rec, Of(h)) /\ rec \in TxRec /\ Of(h) \subseteq [src : Source, ev : TxEvent]
      BY <1>1 DEF IInv, RecordsAgree, TypeOK, Of
    <2>2. /\ rec.first \in Nat /\ rec.seen \in Nat
          /\ \A s \in Source : rec.arrivals[s] # NoInstant => rec.arrivals[s] \in Nat
          /\ \A e \in Of(h) : e.src \in Source /\ e.ev.t \in Nat
      BY <2>1 DEF TxRec, TxEvent
    <2>3. \A e \in Of(h) : Earliest(e) <=> e.ev.t = rec.first BY <2>1, <2>2 DEF Timed
    <2>4. h \in Total <=> in_window(rec.first) BY <1>1 DEF Total
    <2>5. h \in Matched <=> in_window(rec.first) /\ rec.seen >= MinSources
      BY <2>4 DEF Matched
    <2>6. h \in Matched <=> /\ Cardinality({e.src : e \in Of(h)}) >= MinSources
                            /\ \E e \in Of(h) : Earliest(e) /\ in_window(e.ev.t)
      BY <2>1, <2>3, <2>5 DEF Timed
    <2>7. \A s \in Source : rec.arrivals[s] # NoInstant <=> By(s) # {}
      BY <2>1 DEF Timed
    <2>8. h \in Total => \A s \in Source : h \in SeenBy(s) <=> By(s) # {}
      BY <2>7 DEF SeenBy
    <2>9. ASSUME NEW s \in Source
          PROVE  rec.arrivals[s] = rec.first <=> \E e \in By(s) : Earliest(e)
      BY <2>1, <2>2, <2>3 DEF Timed
    <2>10. ASSUME NEW s \in Source, rec.arrivals[s] # NoInstant
           PROVE  /\ \E e \in By(s) : e.ev.t = rec.arrivals[s]
                  /\ \A e \in By(s) : rec.arrivals[s] <= e.ev.t
      BY <2>1, <2>10 DEF Timed
    <2>11. ASSUME NEW s \in Source, h \in Matched
           PROVE  /\ h \in Firsts(s) <=> \E e \in By(s) : Earliest(e)
                  /\ h \in FirstBy1ms(s) <=>
                        /\ Of(h) # By(s)
                        /\ \E e \in By(s) : \A f \in Of(h) \ By(s) : e.ev.t + Lead <= f.ev.t
      <3>1. h \in Firsts(s) <=> rec.arrivals[s] = rec.first BY <2>11 DEF Firsts
      <3>2. h \in FirstBy1ms(s) <=> /\ rec.arrivals[s] # NoInstant
                                    /\ Others(h, s) # {}
                                    /\ \A o \in Others(h, s) : rec.arrivals[s] + Lead <= o
        BY <2>11 DEF FirstBy1ms
      <3>3. \A o : o \in Others(h, s) <=> \E r \in Source : r # s /\ rec.arrivals[r] = o /\ o # NoInstant
        BY DEF Others
      <3>4. Others(h, s) # {} <=> Of(h) # By(s)
        <4>1. Others(h, s) # {} <=> \E r \in Source : r # s /\ By(r) # {}
          <5>1. Others(h, s) # {} <=> \E r \in Source : r # s /\ rec.arrivals[r] # NoInstant
            BY <3>3
          <5> QED BY <5>1, <2>7
        <4>2. Of(h) # By(s) <=> \E e \in Of(h) : e.src # s OBVIOUS
        <4> QED BY <4>1, <4>2, <2>2
      <3>5. ASSUME rec.arrivals[s] # NoInstant
            PROVE  (\A o \in Others(h, s) : rec.arrivals[s] + Lead <= o)
                      <=> \E e \in By(s) : \A f \in Of(h) \ By(s) : e.ev.t + Lead <= f.ev.t
        <4>1. ASSUME \A o \in Others(h, s) : rec.arrivals[s] + Lead <= o,
                     NEW f \in Of(h) \ By(s)
              PROVE  rec.arrivals[s] + Lead <= f.ev.t
          <5>1. f.src \in Source /\ f.src # s /\ f \in By(f.src) BY <4>1, <2>2
          <5>2. rec.arrivals[f.src] # NoInstant /\ rec.arrivals[f.src] <= f.ev.t
            BY <5>1, <2>7, <2>10
          <5>3. rec.arrivals[s] + Lead <= rec.arrivals[f.src] BY <4>1, <5>1, <5>2, <3>3
          <5> QED BY <5>1, <5>2, <5>3, <3>5, <2>2, LeadAssumption
        <4>2. ASSUME NEW e \in By(s), \A f \in Of(h) \ By(s) : e.ev.t + Lead <= f.ev.t,
                     NEW o \in Others(h, s)
              PROVE  rec.arrivals[s] + Lead <= o
          <5>1. PICK r \in Source : r # s /\ rec.arrivals[r] = o /\ o # NoInstant BY <3>3
          <5>2. PICK f \in By(r) : f.ev.t = o BY <5>1, <2>10
          <5>3. f \in Of(h) \ By(s) BY <5>1, <5>2
          <5>4. rec.arrivals[s] <= e.ev.t BY <3>5, <2>10
          <5>5. e.ev.t + Lead <= o BY <4>2, <5>2, <5>3
          <5> QED BY <5>4, <5>5, <5>1, <3>5, <2>2, LeadAssumption
        <4>3. PICK d \in By(s) : d.ev.t = rec.arrivals[s] BY <3>5, <2>10
        <4> QED BY <4>1, <4>2, <4>3
      <3>6. (\E e \in By(s) : TRUE) <=> rec.arrivals[s] # NoInstant BY <2>7
      <3> QED BY <3>1, <3>2, <3>4, <3>5, <3>6, <2>9
    <2>12. ASSUME NEW other \in Source \ {setup.reference}
           PROVE  h \in RefFirst(other) <=>
                      /\ h \in Rows(other)
                      /\ \E e \in By(setup.reference) : \A f \in By(other) : e.ev.t < f.ev.t
      <3> DEFINE ref == setup.reference
      <3>1. ref \in Source BY SetupAssumption DEF IInv, TypeOK
      <3> HIDE DEF ref
      <3>2. h \in RefFirst(other) <=> h \in Rows(other) /\ rec.arrivals[other] - rec.arrivals[ref] > 0
        BY DEF RefFirst, ref
      <3>3. h \in Rows(other) => rec.arrivals[other] # NoInstant /\ rec.arrivals[ref] # NoInstant
        BY DEF Rows, ref
      <3>4. ASSUME rec.arrivals[other] # NoInstant, rec.arrivals[ref] # NoInstant
            PROVE  rec.arrivals[other] - rec.arrivals[ref] > 0
                       <=> \E e \in By(ref) : \A f \in By(other) : e.ev.t < f.ev.t
        <4>1. PICK d \in By(ref) : d.ev.t = rec.arrivals[ref] BY <3>1, <3>4, <2>10
        <4>2. PICK c \in By(other) : c.ev.t = rec.arrivals[other] BY <3>4, <2>10
        <4>3. \A e \in By(ref) : rec.arrivals[ref] <= e.ev.t BY <3>1, <3>4, <2>10
        <4>4. \A f \in By(other) : rec.arrivals[other] <= f.ev.t BY <3>4, <2>10
        <4>5. \A e \in By(ref), f \in By(other) : e.ev.t \in Nat /\ f.ev.t \in Nat BY <2>2
        <4>6. rec.arrivals[other] \in Nat /\ rec.arrivals[ref] \in Nat BY <3>1, <3>4, <2>2
        <4> QED BY <4>1, <4>2, <4>3, <4>4, <4>5, <4>6
      <3> QED BY <3>2, <3>3, <3>4 DEF ref
    <2> QED BY <2>6, <2>8, <2>11, <2>12
  <1> QED BY <1>1 DEF FirstsRight

\* The columns of the transaction tables say what the deliveries say.
THEOREM FirstsCorrect == Spec => []FirstsRight
  BY Inductive, FirstsFromInv, PTL

\* What the reference delivered of a block is finite, and what it named in one
\* way is part of it.
LEMMA RefFinite ==
  ASSUME NEW b \in Block
  PROVE  /\ IsFiniteSet(RefHas(b))
         /\ \A k, S : Alike(b, k) \subseteq S /\ S \subseteq Named(b, k) =>
               /\ Cardinality(S) \in Nat
               /\ Cardinality(Alike(b, k)) <= Cardinality(S)
               /\ Cardinality(S) <= Cardinality(Named(b, k))
  <1>1. RefHas(b) \subseteq Content[b] /\ IsFiniteSet(Content[b]) BY DEF RefHas
  <1>2. IsFiniteSet(RefHas(b)) BY <1>1, FS_Subset
  <1>3. ASSUME NEW k, NEW S, Alike(b, k) \subseteq S, S \subseteq Named(b, k)
        PROVE  /\ Cardinality(S) \in Nat
               /\ Cardinality(Alike(b, k)) <= Cardinality(S)
               /\ Cardinality(S) <= Cardinality(Named(b, k))
    <2>1. Named(b, k) \subseteq RefHas(b) BY DEF Named
    <2>2. IsFiniteSet(Named(b, k)) BY <2>1, <1>2, FS_Subset
    <2>3. IsFiniteSet(S) BY <2>2, <1>3, FS_Subset
    <2>4. Cardinality(S) <= Cardinality(Named(b, k)) BY <2>2, <1>3, FS_Subset
    <2>5. Cardinality(Alike(b, k)) <= Cardinality(S) BY <2>3, <1>3, FS_Subset
    <2>6. Cardinality(S) \in Nat BY <2>3, FS_CardinalityType
    <2> QED BY <2>4, <2>5, <2>6
  <1> QED BY <1>2, <1>3

\* A record has an arrival of the reference iff the reference delivered it.
LEMMA RefArrived ==
  ASSUME IInv
  PROVE  /\ setup.reference \in Source
         /\ \A g \in DOMAIN txs : txs[g].arrivals[setup.reference] # NoInstant <=> RefOf(g) # {}
         /\ \A g : RefOf(g) # {} => g \in DOMAIN txs
  <1> DEFINE ref == setup.reference
  <1>1. ref \in Source BY SetupAssumption DEF IInv, TypeOK
  <1>2. ASSUME NEW g \in DOMAIN txs PROVE txs[g].arrivals[ref] # NoInstant <=> RefOf(g) # {}
    <2>1. Timed(txs[g], Of(g)) BY DEF IInv, RecordsAgree
    <2>2. txs[g].arrivals[ref] = NoInstant => \A e \in Of(g) : e.src # ref
      BY <2>1, <1>1 DEF Timed
    <2>3. txs[g].arrivals[ref] # NoInstant => \E e \in Of(g) : e.src = ref
      BY <2>1, <1>1 DEF Timed
    <2> QED BY <2>2, <2>3 DEF RefOf
  <1>3. \A g : RefOf(g) # {} => g \in DOMAIN txs BY DEF RefOf, Of, IInv, RecordsAgree
  <1> QED BY <1>1, <1>2, <1>3

\* With Nitro sources: the size and the key of a row whose block shares no
\* transaction with another.
LEMMA NitroSize ==
  ASSUME IInv, nitro_present, NEW b \in Block, Apart(b), NEW h \in DOMAIN txs \cap Content[b]
  PROVE  /\ Size(h) = IF NitroOf(h) = {} THEN NoCount ELSE Cardinality(Content[b])
         /\ Size(h) # NoCount => txs[h].block_key = NitroKey[b]
  <1>1. \A c \in Block : h \in Content[c] => c = b BY DEF Apart
  <1>2. BlocksOf(h) = {b} BY <1>1 DEF BlocksOf
  <1>3. Size(h) = IF txs[h].block_from_nitro THEN txs[h].tx_count ELSE NoCount
    BY DEF Size
  <1>4. txs[h].block_from_nitro =>
           txs[h].block_key = NitroKey[b] /\ txs[h].tx_count = Cardinality(Content[b])
    BY <1>2, AttributionFromInv DEF AttributionOrderless
  <1>5. txs[h].block_from_nitro <=> NitroOf(h) # {} BY DEF IInv, RecordsAgree, Agrees
  <1> QED BY <1>3, <1>4, <1>5

\* Without Nitro sources every key of a record is one Eira gave it, and a record
\* has none only if Eira did not deliver it.
LEMMA EiraAlone ==
  ASSUME IInv, ~nitro_present, NEW g \in DOMAIN txs
  PROVE  /\ txs[g].block_key # NoKey =>
              /\ setup.kind[setup.reference] = "eira"
              /\ \E e \in RefOf(g) : e.ev.block_key = txs[g].block_key
              /\ \E c \in Block : g \in Content[c] /\ txs[g].block_key \in EiraKeys(c)
         /\ setup.kind[setup.reference] = "eira" /\ RefOf(g) # {} => txs[g].block_key # NoKey
  <1> DEFINE ref == setup.reference
  <1>1. \A s \in Source : setup.kind[s] = "eira" => s = ref
    BY SetupAssumption DEF IInv, TypeOK
  <1>2. \A e \in heard : e.src \in Source BY DEF IInv, TypeOK
  <1>3. \A s \in Source : ~from_nitro(s) BY DEF nitro_present
  <1>4. NitroOf(g) = {} BY <1>2, <1>3 DEF NitroOf, Of
  <1>5. \A e \in heard :
           /\ setup.kind[e.src] = "eira" =>
                 \E c \in Block : e.ev.hash \in Content[c] /\ e.ev.block_key \in EiraKeys(c)
           /\ setup.kind[e.src] # "eira" => e.ev.block_key = NoKey
    BY <1>2, <1>3 DEF IInv, EiraNames
  <1>6. \A c \in Block : NoKey \notin EiraKeys(c) BY DEF EiraKeys
  <1>7. /\ txs[g].block_key = NoKey => \A e \in Of(g) : e.ev.block_key = NoKey
        /\ txs[g].block_key # NoKey => \E e \in Of(g) : e.ev.block_key = txs[g].block_key
    BY <1>4 DEF IInv, RecordsAgree, Agrees
  <1>8. ASSUME txs[g].block_key # NoKey
        PROVE  /\ setup.kind[ref] = "eira"
               /\ \E e \in RefOf(g) : e.ev.block_key = txs[g].block_key
               /\ \E c \in Block : g \in Content[c] /\ txs[g].block_key \in EiraKeys(c)
    <2>1. PICK e \in Of(g) : e.ev.block_key = txs[g].block_key BY <1>7, <1>8
    <2>2. e \in heard /\ e.ev.hash = g BY DEF Of
    <2>3. setup.kind[e.src] = "eira" BY <2>1, <2>2, <1>5, <1>8
    <2>4. e.src = ref BY <2>2, <2>3, <1>1, <1>2
    <2>5. e \in RefOf(g) BY <2>4 DEF RefOf
    <2>6. \E c \in Block : g \in Content[c] /\ txs[g].block_key \in EiraKeys(c)
      BY <2>1, <2>2, <2>3, <1>5
    <2> QED BY <2>1, <2>3, <2>4, <2>5, <2>6
  <1>9. ASSUME setup.kind[ref] = "eira", RefOf(g) # {}
        PROVE  txs[g].block_key # NoKey
    <2>1. PICK e \in Of(g) : e.src = ref BY <1>9 DEF RefOf
    <2>2. e \in heard BY DEF Of
    <2>3. e.ev.block_key # NoKey BY <2>1, <2>2, <1>5, <1>6, <1>9
    <2> QED BY <2>3, <1>7
  <1> QED BY <1>8, <1>9

\* Without Nitro sources: the size and the key of a row of a block apart from
\* the others, whose reference is Eira.
LEMMA EiraSize ==
  ASSUME IInv, ~nitro_present, setup.kind[setup.reference] = "eira",
         NEW b \in Block, Apart(b), NEW h \in DOMAIN txs \cap Content[b], RefOf(h) # {}
  PROVE  LET k == txs[h].block_key
         IN  /\ k \in EiraKeys(b) /\ h \in Named(b, k)
             /\ Size(h) = ref_counts(k) /\ Size(h) \in Nat
             /\ Cardinality(Alike(b, k)) <= Size(h) /\ Size(h) <= Cardinality(Named(b, k))
  <1> DEFINE k == txs[h].block_key
             S == {g \in DOMAIN txs : /\ txs[g].arrivals[setup.reference] # NoInstant
                                      /\ txs[g].block_key = k}
  <1>1. \A c \in Block : h \in Content[c] => c = b BY DEF Apart
  <1>2. k # NoKey BY EiraAlone
  <1>3. k \in EiraKeys(b) /\ \E e \in RefOf(h) : e.ev.block_key = k
    <2>1. \E c \in Block : h \in Content[c] /\ k \in EiraKeys(c) BY <1>2, EiraAlone
    <2>2. \E e \in RefOf(h) : e.ev.block_key = k BY <1>2, EiraAlone
    <2> QED BY <2>1, <2>2, <1>1
  <1>4. h \in Named(b, k) BY <1>3 DEF Named, RefHas
  <1>5. S \subseteq Named(b, k)
    <2> SUFFICES ASSUME NEW g \in S PROVE g \in Named(b, k)
      OBVIOUS
    <2>1. g \in DOMAIN txs /\ txs[g].block_key = k OBVIOUS
    <2>2. \E c \in Block : g \in Content[c] /\ k \in EiraKeys(c) BY <2>1, <1>2, EiraAlone
    <2>3. g \in Content[b] BY <2>2, <1>3 DEF Apart
    <2>4. \E e \in RefOf(g) : e.ev.block_key = k
      <3>1. \E e \in RefOf(g) : e.ev.block_key = txs[g].block_key BY <2>1, <1>2, EiraAlone
      <3> QED BY <3>1, <2>1
    <2> QED BY <2>3, <2>4 DEF Named, RefHas
  <1>6. Alike(b, k) \subseteq S
    <2> SUFFICES ASSUME NEW g \in Alike(b, k) PROVE g \in S
      OBVIOUS
    <2>1. RefOf(g) # {} /\ \A e \in RefOf(g) : e.ev.block_key = k BY DEF Alike, RefHas
    <2>2. g \in DOMAIN txs BY <2>1, RefArrived
    <2>3. txs[g].arrivals[setup.reference] # NoInstant BY <2>1, <2>2, RefArrived
    <2>4. txs[g].block_key # NoKey BY <2>1, <2>2, EiraAlone
    <2>5. \E e \in RefOf(g) : e.ev.block_key = txs[g].block_key BY <2>2, <2>4, EiraAlone
    <2> QED BY <2>1, <2>2, <2>3, <2>5
  <1>7. ref_counts(k) = Cardinality(S) BY DEF ref_counts
  <1>8. Size(h) = ref_counts(k) BY <1>2 DEF Size
  <1> HIDE DEF S
  <1>9. /\ Cardinality(S) \in Nat
        /\ Cardinality(Alike(b, k)) <= Cardinality(S)
        /\ Cardinality(S) <= Cardinality(Named(b, k))
    BY <1>5, <1>6, RefFinite
  <1> HIDE DEF k
  <1>10. /\ k \in EiraKeys(b) /\ h \in Named(b, k)
         /\ Size(h) = ref_counts(k) /\ Size(h) \in Nat
         /\ Cardinality(Alike(b, k)) <= Size(h) /\ Size(h) <= Cardinality(Named(b, k))
    BY <1>3, <1>4, <1>7, <1>8, <1>9
  <1> QED BY <1>10 DEF k

\* The rows of a block have its size and its key, or the part of it that has
\* their key.
LEMMA BucketsFromInv == IInv => BlocksInBuckets
  <1> SUFFICES ASSUME IInv, NEW other \in Source \ {setup.reference}, NEW b \in Block, Apart(b)
               PROVE  LET rows == Rows(other) \cap Content[b]
                          one  == nitro_present \/ \E k \in Key : Alike(b, k) = RefHas(b)
                      IN  /\ nitro_present => \A h \in rows :
                                Size(h) = IF NitroOf(h) = {} THEN NoCount ELSE Cardinality(Content[b])
                          /\ ~nitro_present /\ setup.kind[setup.reference] = "eira" => \A h \in rows :
                                \E k \in EiraKeys(b) :
                                    /\ txs[h].block_key = k /\ h \in Named(b, k)
                                    /\ Cardinality(Alike(b, k)) <= Size(h)
                                    /\ Size(h) <= Cardinality(Named(b, k))
                          /\ ~nitro_present /\ setup.kind[setup.reference] # "eira" => \A h \in rows :
                                Size(h) = NoCount
                          /\ \A i, j \in DOMAIN Buckets :
                                \A g \in rows \cap bucket_rows(i, other), h \in rows \cap bucket_rows(j, other) :
                                    /\ txs[g].block_key = txs[h].block_key => i = j
                                    /\ one => txs[g].block_key = txs[h].block_key
    BY DEF BlocksInBuckets
  <1> DEFINE rows == Rows(other) \cap Content[b]
             one  == nitro_present \/ \E k \in Key : Alike(b, k) = RefHas(b)
             eira == setup.kind[setup.reference] = "eira"
  <1>1. \A h \in rows : h \in DOMAIN txs \cap Content[b] /\ RefOf(h) # {} /\ h \in RefHas(b)
    BY RefArrived DEF Rows, RefHas
  <1>2. ASSUME nitro_present, NEW h \in rows
        PROVE  /\ Size(h) = IF NitroOf(h) = {} THEN NoCount ELSE Cardinality(Content[b])
               /\ Size(h) # NoCount => txs[h].block_key = NitroKey[b]
    BY <1>1, <1>2, NitroSize
  <1>3. ASSUME ~nitro_present, eira, NEW h \in rows
        PROVE  LET k == txs[h].block_key
               IN  /\ k \in EiraKeys(b) /\ h \in Named(b, k)
                   /\ Size(h) = ref_counts(k) /\ Size(h) \in Nat
                   /\ Cardinality(Alike(b, k)) <= Size(h) /\ Size(h) <= Cardinality(Named(b, k))
    BY <1>1, <1>3, EiraSize
  <1>4. ASSUME ~nitro_present, ~eira, NEW h \in rows
        PROVE  Size(h) = NoCount
    <2>1. txs[h].block_key = NoKey BY <1>1, <1>4, EiraAlone
    <2> QED BY <2>1, <1>4 DEF Size
  <1>5. ASSUME NEW i \in DOMAIN Buckets, NEW j \in DOMAIN Buckets,
               NEW g \in rows \cap bucket_rows(i, other), NEW h \in rows \cap bucket_rows(j, other)
        PROVE  /\ txs[g].block_key = txs[h].block_key => i = j
               /\ one => txs[g].block_key = txs[h].block_key
    <2>1. /\ Size(g) # NoCount /\ Buckets[i][1] <= Size(g) /\ Size(g) <= Buckets[i][2]
          /\ Size(h) # NoCount /\ Buckets[j][1] <= Size(h) /\ Size(h) <= Buckets[j][2]
      BY DEF bucket_rows
    <2>2. Size(g) = Size(h) /\ Size(h) \in Nat => i = j BY <2>1, BucketAssumption
    <2>3. CASE nitro_present
      <3>1. Size(g) = Cardinality(Content[b]) /\ Size(h) = Cardinality(Content[b])
        BY <2>1, <2>3, <1>2
      <3>2. txs[g].block_key = NitroKey[b] /\ txs[h].block_key = NitroKey[b]
        BY <2>1, <2>3, <1>2
      <3>3. Cardinality(Content[b]) \in Nat BY FS_CardinalityType
      <3> QED BY <3>1, <3>2, <3>3, <2>2
    <2>4. CASE ~nitro_present /\ eira
      <3>1. /\ Size(g) = ref_counts(txs[g].block_key) /\ g \in Named(b, txs[g].block_key)
            /\ Size(h) = ref_counts(txs[h].block_key) /\ h \in Named(b, txs[h].block_key)
            /\ Size(h) \in Nat
        BY <2>4, <1>3
      <3>2. txs[g].block_key = txs[h].block_key => i = j BY <3>1, <2>2
      <3>3. ASSUME one PROVE txs[g].block_key = txs[h].block_key
        <4>1. PICK k \in Key : Alike(b, k) = RefHas(b) BY <3>3, <2>4
        <4>2. g \in Alike(b, k) /\ h \in Alike(b, k) BY <4>1, <1>1
        <4> QED BY <4>2, <3>1 DEF Alike, Named
      <3> QED BY <3>2, <3>3
    <2>5. CASE ~nitro_present /\ ~eira BY <2>1, <2>5, <1>4
    <2> QED BY <2>3, <2>4, <2>5
  <1>6. ~nitro_present /\ eira => \A h \in rows :
           \E k \in EiraKeys(b) :
               /\ txs[h].block_key = k /\ h \in Named(b, k)
               /\ Cardinality(Alike(b, k)) <= Size(h)
               /\ Size(h) <= Cardinality(Named(b, k))
    BY <1>3
  <1> QED BY <1>2, <1>4, <1>5, <1>6

\* The buckets count whole blocks under one key, or once under each key that
\* Eira gave them.
THEOREM BucketsCorrect == Spec => []BlocksInBuckets
  BY Inductive, BucketsFromInv, PTL

\* What is settled of one record stays.
Settled(old, new) ==
    /\ \A s \in Source : old.arrivals[s] # NoInstant => new.arrivals[s] = old.arrivals[s]
    /\ new.first <= old.first
    /\ old.block_from_nitro => new.block_from_nitro /\ new.block_key = old.block_key
    /\ old.block_key # NoKey => new.block_key # NoKey
    /\ old.synthetic_swap => new.synthetic_swap

\* One event replaces nothing that a record knows.
LEMMA UpdateSettles ==
  ASSUME NEW rec \in TxRec, NEW nitro \in BOOLEAN, NEW s \in Source, NEW ev \in TxEvent,
         rec.block_from_nitro => rec.block_key # NoKey
  PROVE  Settled(rec, Updated(rec, nitro, s, ev))
  <1> DEFINE new == Updated(rec, nitro, s, ev)
  <1>1. new \in TxRec /\ Becomes(rec, nitro, s, ev, new) BY UpdatedFields
  <1> HIDE DEF new
  <1>2. \A r \in Source : rec.arrivals[r] # NoInstant => new.arrivals[r] = rec.arrivals[r]
    BY <1>1 DEF Becomes, TxRec
  <1>3. new.first <= rec.first
    <2>1. rec.first \in Nat /\ ev.t \in Nat BY DEF TxRec, TxEvent
    <2> QED BY <1>1, <2>1 DEF Becomes
  <1>4. rec.block_from_nitro => new.block_from_nitro /\ new.block_key = rec.block_key
    BY <1>1 DEF Becomes, TakesKey
  <1>5. rec.block_key # NoKey => new.block_key # NoKey BY <1>1 DEF Becomes, TakesKey
  <1>6. rec.synthetic_swap => new.synthetic_swap BY <1>1 DEF Becomes
  <1>7. Settled(rec, new) BY <1>2, <1>3, <1>4, <1>5, <1>6 DEF Settled
  <1> QED BY <1>7 DEF new

\* Arrivals are final, the first one never grows, the block a Nitro source
\* named stays.
THEOREM RecordsSettle == Spec => TxSettles
  <1>1. IInv /\ [Next]_vars =>
           [\A h \in DOMAIN txs : h \in DOMAIN txs' /\ Settled(txs[h], txs'[h])]_vars
    <2> SUFFICES ASSUME IInv, Next, NEW h \in DOMAIN txs
                 PROVE  h \in DOMAIN txs' /\ Settled(txs[h], txs'[h])
      OBVIOUS
    <2>1. PICK s \in Source, b \in Block, t \in Instant : \E g \in Content[b] : Deliver(s, b, g, t)
      BY DEF Next
    <2>2. PICK g \in Content[b] : Deliver(s, b, g, t) BY <2>1
    <2>3. PICK ev \in Events(s, b, g, t) : Updates(s, g, t, ev) BY <2>2, StepFields
    <2>4. ev \in TxEvent BY EventFields
    <2>5. g \in Hash OBVIOUS
    <2>6. /\ txs[h] \in TxRec /\ txs[h].first \in Nat
          /\ txs[h].block_from_nitro => txs[h].block_key # NoKey
      <3>1. txs[h] \in TxRec BY DEF IInv, TypeOK
      <3>2. Agrees(txs[h], Of(h), NitroOf(h)) BY DEF IInv, RecordsAgree
      <3>3. \A e \in NitroOf(h) : e.ev.block_key # NoKey
        <4>1. \A e \in NitroOf(h) : \E c \in Block : e.ev.block_key = NitroKey[c]
          BY DEF IInv, NitroNames, NitroOf, Of
        <4> QED BY <4>1
      <3> QED BY <3>1, <3>2, <3>3 DEF Agrees, TxRec
    <2>7. CASE g = h
      <3>1. Entry(g, t) = txs[h] BY <2>7 DEF Entry
      <3>2. txs'[h] = Updated(txs[h], from_nitro(s), s, ev) /\ h \in DOMAIN txs'
        BY <2>3, <2>7, <3>1 DEF Updates
      <3>3. from_nitro(s) \in BOOLEAN BY DEF from_nitro
      <3> QED BY <2>4, <2>6, <3>2, <3>3, UpdateSettles
    <2>8. CASE g # h
      <3>1. txs'[h] = txs[h] /\ h \in DOMAIN txs' BY <2>3, <2>8 DEF Updates
      <3> QED BY <3>1, <2>6 DEF Settled
    <2> QED BY <2>7, <2>8
  <1>2. [\A h \in DOMAIN txs : h \in DOMAIN txs' /\ Settled(txs[h], txs'[h])]_vars
           => [\A h \in DOMAIN txs :
                 /\ h \in DOMAIN txs'
                 /\ \A s \in Source : txs[h].arrivals[s] # NoInstant =>
                        txs'[h].arrivals[s] = txs[h].arrivals[s]
                 /\ txs'[h].first <= txs[h].first
                 /\ txs[h].block_from_nitro =>
                        txs'[h].block_from_nitro /\ txs'[h].block_key = txs[h].block_key
                 /\ txs[h].block_key # NoKey => txs'[h].block_key # NoKey
                 /\ txs[h].synthetic_swap => txs'[h].synthetic_swap]_vars
    BY DEF Settled
  <1> QED BY <1>1, <1>2, Inductive, PTL DEF Spec, TxSettles
=============================================================================
