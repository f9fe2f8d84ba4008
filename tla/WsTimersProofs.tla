--------------------------- MODULE WsTimersProofs ---------------------------
(***************************************************************************)
(* The timers of a WebSocket session: what holds for every choice of the   *)
(* periods, and what holds when pings are more frequent than the read      *)
(* timeout, as they are in every adapter.                                  *)
(***************************************************************************)
EXTENDS WsTimers, TLAPS

\* The adapters' periods, 20 s and 60 s, leave 40 s for a ping that is late.
PingsAreFrequent == PingEvery + MaxLate < ReadTimeout

-----------------------------------------------------------------------------
\* Counters start within their types, with no stall.
LEMMA InitInvariant == Init => IInv
  BY TimerAssumption DEF Init, IInv, TypeOK, StallProgress, StallNoticed, Writing

\* No step takes a counter out of its type or a stall further than its bound.
LEMMA StepInvariant == ASSUME IInv, [Next]_vars PROVE IInv'
  <1> USE TimerAssumption
      DEF IInv, TypeOK, StallProgress, StallNoticed, Writing, timers, ghosts
  <1>1. CASE Call BY <1>1 DEF Call
  <1>2. CASE TakeFrame
    <2>1. CASE pc' \in {"parse", "caller"} /\ UNCHANGED to_write
      BY <1>2, <2>1 DEF TakeFrame
    <2>2. CASE Write("pong") \/ Write("closing") BY <1>2, <2>2 DEF TakeFrame, Write
    <2> QED BY <1>2, <2>1, <2>2 DEF TakeFrame
  <1>3. CASE Select BY <1>3 DEF Select
  <1>4. CASE Read BY <1>4 DEF Read
  <1>5. CASE Broken BY <1>5 DEF Broken, End
  <1>6. CASE NoData BY <1>6 DEF NoData, End
  <1>7. CASE PingDue BY <1>7 DEF PingDue, Write
  <1>8. CASE Written BY <1>8 DEF Written
  <1>9. CASE WriteFails BY <1>9 DEF WriteFails, End
  <1>10. CASE Farewell BY <1>10 DEF Farewell, End
  <1>11. CASE Clock
    <2>1. CASE pc = "select" BY <1>11, <2>1 DEF Clock, Due, Less, Capped
    <2>2. CASE pc \in Writing BY <1>11, <2>2 DEF Clock, Due, Less, Capped
    <2>3. CASE pc \in {"caller", "parse"} BY <1>11, <2>3 DEF Clock, Due, Less, Capped
    <2> QED BY <1>11, <2>1, <2>2, <2>3 DEF Clock
  <1>12. CASE Stall BY <1>12 DEF Stall
  <1>13. CASE UNCHANGED vars BY <1>13 DEF vars
  <1> QED BY <1>1, <1>2, <1>3, <1>4, <1>5, <1>6, <1>7, <1>8, <1>9, <1>10, <1>11, <1>12, <1>13
          DEF Next

\* The timer invariant holds in every reachable state, whatever the periods.
THEOREM Invariance == Spec => []IInv
  BY InitInvariant, StepInvariant, PTL DEF Spec

\* The counters keep their types.
THEOREM TypeCorrect == Spec => []TypeOK
  <1>1. IInv => TypeOK BY DEF IInv
  <1> QED BY <1>1, Invariance, PTL

\* A peer that accepts nothing is noticed within a ping period and the write's
\* timeout, whatever the periods.
THEOREM StallBounded == Spec => []StallNoticed
  <1>1. IInv => StallNoticed BY DEF IInv
  <1> QED BY <1>1, Invariance, PTL

-----------------------------------------------------------------------------
(***************************************************************************)
(* Pings more frequent than the timeout.                                   *)
(***************************************************************************)

\* No step brings the timeout before the ping.
LEMMA FrequentStep ==
  ASSUME PingsAreFrequent, IInv', FrequentInv, [Next]_vars
  PROVE  FrequentInv'
  <1> USE TimerAssumption
      DEF PingsAreFrequent, FrequentInv, TypeOK, PingFirst, NoDataNever, Writing, timers
  <1>0. TypeOK' BY DEF IInv
  <1>1. CASE Call BY <1>0, <1>1 DEF Call
  <1>2. CASE TakeFrame BY <1>0, <1>2 DEF TakeFrame, Write
  <1>3. CASE Select BY <1>0, <1>3 DEF Select
  <1>4. CASE Read BY <1>0, <1>4 DEF Read
  <1>5. CASE Broken BY <1>0, <1>5 DEF Broken, End
  \* The timeout is not due: the ping would have been, at most MaxLate ago.
  <1>6. CASE NoData
    <2>1. to_timeout = 0 /\ pc = "select" BY <1>6 DEF NoData
    <2>2. PingEvery + overdue >= ReadTimeout BY <2>1
    <2> QED BY <2>2
  <1>7. CASE PingDue BY <1>0, <1>7 DEF PingDue, Write
  <1>8. CASE Written BY <1>0, <1>8 DEF Written
  <1>9. CASE WriteFails BY <1>0, <1>9 DEF WriteFails, End
  <1>10. CASE Farewell BY <1>0, <1>10 DEF Farewell, End
  <1>11. CASE Clock
    <2>1. CASE pc = "select" BY <1>0, <1>11, <2>1 DEF Clock, Due, Less
    <2>2. CASE pc # "select" BY <1>0, <1>11, <2>2 DEF Clock
    <2> QED BY <2>1, <2>2
  <1>12. CASE Stall BY <1>0, <1>12 DEF Stall
  <1>13. CASE UNCHANGED vars BY <1>0, <1>13 DEF vars
  <1> QED BY <1>1, <1>2, <1>3, <1>4, <1>5, <1>6, <1>7, <1>8, <1>9, <1>10, <1>11, <1>12, <1>13
          DEF Next

\* The read timeout of ws.rs:353 never ends a session.
THEOREM ReadTimeoutIsDead == PingsAreFrequent => (Spec => []NoDataNever)
  <1> SUFFICES ASSUME PingsAreFrequent PROVE Spec => []NoDataNever
    OBVIOUS
  <1>1. Init => FrequentInv
    BY TimerAssumption DEF PingsAreFrequent, Init, FrequentInv, TypeOK, PingFirst, NoDataNever
  <1>2. IInv' /\ FrequentInv /\ [Next]_vars => FrequentInv' BY FrequentStep
  <1>3. FrequentInv => NoDataNever BY DEF FrequentInv
  <1> QED BY <1>1, <1>2, <1>3, Invariance, PTL DEF Spec
=============================================================================
