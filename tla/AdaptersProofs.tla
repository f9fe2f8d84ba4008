--------------------------- MODULE AdaptersProofs ---------------------------
(***************************************************************************)
(* Proofs about the adapters.  Of Redial, for any values of its waits: a   *)
(* server that asked for a pause gets it, two dials are apart, and the     *)
(* wait doubles up to its cap.  Of Cursor, for sequence numbers of any     *)
(* width: the cursor is one more than the largest block seen, and with a   *)
(* server that honours it no block is replayed and none is missing.        *)
(***************************************************************************)
EXTENDS Redial, Cursor, FiniteSetTheorems, FunctionTheorems, TLAPS

-----------------------------------------------------------------------------
\* A wait that retry_delay returns: at least a second, but when the server asked
\* for none.
LEMMA DelayFields ==
    ASSUME Numbers,
           NEW status \in {"429", "other", "none"},
           NEW header \in RetryAfter \cup {NoHeader},
           status = "none" => header = NoHeader
    PROVE  /\ retry_delay(status, header) \in Nat
           /\ status = "429" => retry_delay(status, header) >= LimitWait
           /\ status = "429" /\ header # NoHeader => retry_delay(status, header) >= header
           /\ status = "other" /\ header # NoHeader => retry_delay(status, header) = header
           /\ retry_delay(status, header) = 0 => header = 0 /\ status = "other"
<1>1. header = NoHeader \/ header \in Nat
  BY HeaderAssumption
<1>2. backoff \in Nat \ {0} /\ LimitWait \in Nat \ {0} /\ NoHeader \notin Nat
  BY WaitAssumption, HeaderAssumption DEF Numbers
<1>3. CASE status = "429"
  BY <1>1, <1>2, <1>3 DEF retry_delay, AtLeast
<1>4. CASE status = "other"
  BY <1>1, <1>2, <1>4 DEF retry_delay
<1>5. CASE status = "none"
  BY <1>1, <1>2, <1>5 DEF retry_delay
<1> QED
  BY <1>3, <1>4, <1>5

\* Every state has the types of its fields, and the backoff is never above its
\* cap (the loops of nitro.rs, wsjson.rs, wsraw.rs and eira.rs).
THEOREM TypeCorrect == Spec => []TypeOK
<1>1. Init => TypeOK
  <2>1. Init => Labels
    BY DEF Init, Labels, Dialing
  <2>2. Init => Numbers
    BY WaitAssumption, TimeoutAssumption, BoundAssumption DEF Init, Numbers
  <2> QED
    BY <2>1, <2>2 DEF TypeOK
<1>2. TypeOK /\ [Next]_vars => TypeOK'
  <2> SUFFICES ASSUME TypeOK, Labels, Numbers, [Next]_vars
               PROVE  Labels' /\ Numbers'
    BY DEF TypeOK
  <2>1. Labels'
    <3>1. ASSUME NEW status \in {"429", "other", "none"}, NEW header \in RetryAfter \cup {NoHeader},
                 ConnectFails(status, header)
          PROVE  Labels'
      BY <3>1 DEF ConnectFails, Sleep, Labels, Dialing
    <3>2. CASE Connect
      BY <3>2 DEF Labels, Dialing, Connect
    <3>3. CASE SubscribeFails
      BY <3>3 DEF Labels, Dialing, SubscribeFails, Dial
    <3>4. CASE Announce
      BY <3>4 DEF Labels, Dialing, Announce
    <3>5. CASE SessionEnds
      BY <3>5 DEF Labels, Dialing, SessionEnds, Sleep
    <3>6. CASE Acknowledged
      BY <3>6 DEF Labels, Dialing, Acknowledged
    <3>7. CASE EiraFails
      BY <3>7 DEF Labels, Dialing, EiraFails, Sleep, Double, AtMost
    <3>8. CASE Wake
      BY <3>8 DEF Labels, Dialing, Wake, Dial
    <3>9. CASE Clock
      BY <3>9 DEF Labels, Dialing, Clock, Less
    <3>10. CASE UNCHANGED vars
      BY <3>10 DEF Labels, Dialing, vars
    <3>11. CASE TcpConnected
      BY <3>11 DEF Labels, Dialing, TcpConnected
    <3>12. CASE TlsConnected
      BY <3>12 DEF Labels, Dialing, TlsConnected
    <3>13. CASE HeadRead
      BY <3>13 DEF Labels, Dialing, HeadRead
    <3>14. CASE Opened
      BY <3>14 DEF Labels, Dialing, Opened
    <3>15. CASE RequestWritten
      BY <3>15 DEF Labels, Dialing, RequestWritten
    <3> QED
      BY <3>1, <3>2, <3>3, <3>4, <3>5, <3>6, <3>7, <3>8, <3>9, <3>10,
         <3>11, <3>12, <3>13, <3>14, <3>15 DEF Next
  <2>2. Numbers'
    <3>1. ASSUME NEW status \in {"429", "other", "none"}, NEW header \in RetryAfter \cup {NoHeader},
                 ConnectFails(status, header)
          PROVE  Numbers'
      <4>1. wait' \in Nat
        BY <3>1, DelayFields DEF ConnectFails, Sleep
      <4>2. asked' \in Nat
        <5>1. header = NoHeader \/ header \in Nat
          BY HeaderAssumption
        <5> QED
          BY <3>1, <5>1, WaitAssumption DEF ConnectFails, Asked, AtLeast
      <4>3. failures' \in 0 .. MaxFailures
        <5>1. failures' = AtMost(failures + 1, MaxFailures)
          BY <3>1 DEF ConnectFails
        <5> QED
          BY <5>1, BoundAssumption DEF AtMost, Numbers
      <4>4. backoff' \in 1 .. MaxBackoff
        <5>1. backoff' = Double(backoff)
          BY <3>1 DEF ConnectFails
        <5> QED
          BY <5>1, WaitAssumption DEF Double, AtMost, Numbers
      <4> QED
        BY <3>1, <4>1, <4>2, <4>3, <4>4 DEF ConnectFails, Numbers
    <3>2. CASE Connect
      BY <3>2, WaitAssumption, BoundAssumption DEF Numbers, Connect
    <3>3. CASE SubscribeFails
      BY <3>3, WaitAssumption, TimeoutAssumption, BoundAssumption DEF Numbers, SubscribeFails, Dial
    <3>4. CASE Announce
      BY <3>4, WaitAssumption, BoundAssumption DEF Numbers, Announce
    <3>5. CASE SessionEnds
      BY <3>5, WaitAssumption, BoundAssumption DEF Numbers, SessionEnds, Sleep
    <3>6. CASE Acknowledged
      BY <3>6, WaitAssumption, BoundAssumption DEF Numbers, Acknowledged
    <3>7. CASE EiraFails
      BY <3>7, WaitAssumption, BoundAssumption DEF Numbers, EiraFails, Sleep, Double, AtMost
    <3>8. CASE Wake
      BY <3>8, WaitAssumption, TimeoutAssumption, BoundAssumption DEF Numbers, Wake, Dial
    <3>9. CASE Clock
      BY <3>9, WaitAssumption, BoundAssumption DEF Numbers, Clock, Less
    <3>10. CASE UNCHANGED vars
      BY <3>10, WaitAssumption, BoundAssumption DEF Numbers, vars
    <3>11. CASE TcpConnected
      BY TimeoutAssumption, <3>11 DEF Numbers, TcpConnected
    <3>12. CASE TlsConnected
      BY TimeoutAssumption, <3>12 DEF Numbers, TlsConnected
    <3>13. CASE HeadRead
      BY TimeoutAssumption, <3>13 DEF Numbers, HeadRead
    <3>14. CASE Opened
      BY TimeoutAssumption, <3>14 DEF Numbers, Opened
    <3>15. CASE RequestWritten
      BY TimeoutAssumption, <3>15 DEF Numbers, RequestWritten
    <3> QED
      BY <3>1, <3>2, <3>3, <3>4, <3>5, <3>6, <3>7, <3>8, <3>9, <3>10,
         <3>11, <3>12, <3>13, <3>14, <3>15 DEF Next
  <2> QED
    BY <2>1, <2>2
<1> QED
  BY <1>1, <1>2, PTL DEF Spec

-----------------------------------------------------------------------------
(***************************************************************************)
(* What a sleeping adapter still has to wait covers what the server asked  *)
(* for; an adapter that is awake owes nothing.                             *)
(***************************************************************************)
Owed ==
    /\ phase = "sleeping"  => asked <= wait
    /\ phase # "sleeping" => asked = 0

\* A sleep that is over took a second, or was one the server asked to skip.
Rested == phase = "sleeping" /\ wait = 0 => since = 1 \/ cause = "come back at once"

\* Both are kept by every step.
THEOREM Inductive == Spec => [](TypeOK /\ Owed /\ Rested)
<1>1. Init => Owed /\ Rested
  BY DEF Init, Owed, Rested
<1>2. TypeOK /\ Owed /\ Rested /\ [Next]_vars => Owed' /\ Rested'
  <2> SUFFICES ASSUME Numbers, Owed, Rested, [Next]_vars
               PROVE  Owed' /\ Rested'
    BY DEF TypeOK
  <2>0. backoff \in Nat \ {0} /\ wait \in Nat /\ asked \in Nat
    BY WaitAssumption DEF Numbers
  <2>1. Owed'
    <3>1. ASSUME NEW status \in {"429", "other", "none"}, NEW header \in RetryAfter \cup {NoHeader},
                 ConnectFails(status, header)
          PROVE  Owed'
      <4>1. phase' = "sleeping" /\ wait' = retry_delay(status, header)
        BY <3>1 DEF ConnectFails, Sleep
      <4>2. CASE status = "429" /\ header = NoHeader
        <5>1. asked' = AtLeast(0, LimitWait)
          BY <3>1, <4>2 DEF ConnectFails, Asked
        <5>2. asked' = LimitWait
          BY <5>1, WaitAssumption DEF AtLeast
        <5> QED
          BY <3>1, <4>1, <4>2, <5>2, WaitAssumption, DelayFields DEF Owed
      <4>3. CASE status = "429" /\ header # NoHeader
        <5>1. asked' = AtLeast(header, LimitWait) /\ header \in Nat
          BY <3>1, <4>3, HeaderAssumption DEF ConnectFails, Asked
        <5>2. asked' = LimitWait \/ asked' = header
          BY <5>1 DEF AtLeast
        <5>3. wait' >= LimitWait /\ wait' >= header
          BY <3>1, <4>1, <4>3, DelayFields
        <5> QED
          BY <4>1, <5>1, <5>2, <5>3, WaitAssumption DEF Owed
      <4>4. CASE status = "other" /\ header # NoHeader
        <5>1. asked' = header /\ header \in Nat
          BY <3>1, <4>4, HeaderAssumption DEF ConnectFails, Asked
        <5>2. wait' = header
          BY <3>1, <4>1, <4>4, DelayFields
        <5> QED
          BY <4>1, <5>1, <5>2 DEF Owed
      <4>5. CASE status # "429" /\ header = NoHeader
        <5>1. asked' = 0
          BY <3>1, <4>5 DEF ConnectFails, Asked
        <5>2. wait' \in Nat
          BY <3>1, <4>1, DelayFields DEF ConnectFails
        <5> QED
          BY <4>1, <5>1, <5>2 DEF Owed
      <4>6. status = "none" => header = NoHeader
        BY <3>1 DEF ConnectFails
      <4> QED
        BY <4>2, <4>3, <4>4, <4>5, <4>6
    <3>2. CASE Connect
      BY <2>0, <3>2 DEF Owed, Connect
    <3>3. CASE SubscribeFails
      BY <2>0, <3>3 DEF Owed, SubscribeFails, Dial
    <3>4. CASE Announce
      BY <2>0, <3>4 DEF Owed, Announce
    <3>5. CASE SessionEnds
      BY <2>0, <3>5 DEF Owed, SessionEnds, Sleep
    <3>6. CASE Acknowledged
      BY <2>0, <3>6 DEF Owed, Acknowledged
    <3>7. CASE EiraFails
      BY <2>0, <3>7 DEF Owed, EiraFails, Sleep
    <3>8. CASE Wake
      BY <2>0, <3>8 DEF Owed, Wake, Dial
    <3>9. CASE Clock
      BY <2>0, <3>9 DEF Owed, Clock, Less
    <3>10. CASE UNCHANGED vars
      BY <2>0, <3>10 DEF Owed, vars
    <3>11. CASE TcpConnected
      BY <2>0, <3>11 DEF Owed, TcpConnected
    <3>12. CASE TlsConnected
      BY <2>0, <3>12 DEF Owed, TlsConnected
    <3>13. CASE HeadRead
      BY <2>0, <3>13 DEF Owed, HeadRead
    <3>14. CASE Opened
      BY <2>0, <3>14 DEF Owed, Opened
    <3>15. CASE RequestWritten
      BY <2>0, <3>15 DEF Owed, RequestWritten
    <3> QED
      BY <3>1, <3>2, <3>3, <3>4, <3>5, <3>6, <3>7, <3>8, <3>9, <3>10,
         <3>11, <3>12, <3>13, <3>14, <3>15 DEF Next
  <2>2. Rested'
    <3>1. ASSUME NEW status \in {"429", "other", "none"}, NEW header \in RetryAfter \cup {NoHeader},
                 ConnectFails(status, header)
          PROVE  Rested'
      <4>1. wait' = 0 => header = 0 /\ status = "other"
        BY <3>1, DelayFields DEF ConnectFails, Sleep
      <4> QED
        BY <3>1, <4>1 DEF ConnectFails, Rested
    <3>2. CASE Connect
      BY <2>0, <3>2 DEF Rested, Connect
    <3>3. CASE SubscribeFails
      BY <2>0, <3>3 DEF Rested, SubscribeFails, Dial
    <3>4. CASE Announce
      BY <2>0, <3>4 DEF Rested, Announce
    <3>5. CASE SessionEnds
      BY <2>0, <3>5 DEF Rested, SessionEnds, Sleep
    <3>6. CASE Acknowledged
      BY <2>0, <3>6 DEF Rested, Acknowledged
    <3>7. CASE EiraFails
      BY <2>0, <3>7 DEF Rested, EiraFails, Sleep
    <3>8. CASE Wake
      BY <2>0, <3>8 DEF Rested, Wake, Dial
    <3>9. CASE Clock
      BY <2>0, <3>9 DEF Rested, Clock, Less
    <3>10. CASE UNCHANGED vars
      BY <2>0, <3>10 DEF Rested, vars
    <3>11. CASE TcpConnected
      BY <2>0, <3>11 DEF Rested, TcpConnected
    <3>12. CASE TlsConnected
      BY <2>0, <3>12 DEF Rested, TlsConnected
    <3>13. CASE HeadRead
      BY <2>0, <3>13 DEF Rested, HeadRead
    <3>14. CASE Opened
      BY <2>0, <3>14 DEF Rested, Opened
    <3>15. CASE RequestWritten
      BY <2>0, <3>15 DEF Rested, RequestWritten
    <3> QED
      BY <3>1, <3>2, <3>3, <3>4, <3>5, <3>6, <3>7, <3>8, <3>9, <3>10,
         <3>11, <3>12, <3>13, <3>14, <3>15 DEF Next
  <2> QED
    BY <2>1, <2>2
<1> QED
  BY <1>1, <1>2, TypeCorrect, PTL DEF Spec

\* No adapter dials before the time the server asked for has passed
\* (retry_delay, ws.rs).
THEOREM RateLimitCorrect == Spec => []RateLimitHonoured
<1>1. Owed => RateLimitHonoured
  BY DEF Owed, RateLimitHonoured
<1> QED
  BY <1>1, Inductive, PTL

\* Two dials are a second apart, but after a subscription that could not be sent
\* and when the server said Retry-After: 0.
THEOREM DialsCorrect == Spec => DialsApart
<1>1. ASSUME Rested, [Next]_vars
      PROVE  [phase # "dialing" /\ phase' = "dialing" =>
                 since = 1 \/ cause' \in {"subscribe", "come back at once"}]_vars
  <2>1. CASE SubscribeFails
    BY <2>1 DEF SubscribeFails
  <2>2. CASE Wake
    BY <1>1, <2>2 DEF Wake, Rested
  <2>3. CASE UNCHANGED vars
    BY <2>3
  <2>4. ASSUME ~SubscribeFails, ~Wake, Next
        PROVE  phase # "dialing" => phase' # "dialing"
    BY <2>4 DEF Next, TcpConnected, TlsConnected, RequestWritten, HeadRead, ConnectFails,
                Connect, Announce, SessionEnds, Opened, Acknowledged, EiraFails, Clock, Sleep
  <2> QED
    BY <1>1, <2>1, <2>2, <2>3, <2>4
<1> QED
  BY <1>1, Inductive, PTL DEF Spec, DialsApart

-----------------------------------------------------------------------------
(***************************************************************************)
(* The backoff.  What a power of two is comes from the number of subsets.  *)
(***************************************************************************)

\* The powers of two.
LEMMA Powers ==
    /\ 2 ^ 0 = 1
    /\ \A n \in Nat : 2 ^ n \in Nat \ {0} /\ 2 ^ (n + 1) = 2 * 2 ^ n
<1>1. ASSUME NEW n \in Nat
      PROVE  /\ IsFiniteSet(SUBSET (1 .. n)) /\ Cardinality(SUBSET (1 .. n)) = 2 ^ n
  <2>1. IsFiniteSet(1 .. n) /\ Cardinality(1 .. n) = n
    BY FS_Interval
  <2> QED
    BY <2>1, FS_SUBSET
<1>2. 2 ^ 0 = 1
  <2>1. SUBSET (1 .. 0) = {{}}
    OBVIOUS
  <2>2. Cardinality({{}}) = 1
    BY FS_Singleton
  <2>3. Cardinality(SUBSET (1 .. 0)) = 2 ^ 0
    BY <1>1
  <2> QED
    BY <2>1, <2>2, <2>3
<1>3. ASSUME NEW n \in Nat
      PROVE  2 ^ n \in Nat \ {0} /\ 2 ^ (n + 1) = 2 * 2 ^ n
  <2> DEFINE A == SUBSET (1 .. n)
             B == {T \cup {n + 1} : T \in A}
             with == [T \in A |-> T \cup {n + 1}]
  <2>1. IsFiniteSet(A) /\ Cardinality(A) = 2 ^ n
    BY <1>1
  <2>2. 2 ^ n \in Nat /\ 2 ^ n # 0
    <3>1. 2 ^ n \in Nat
      BY <2>1, FS_CardinalityType
    <3>2. {} \in A
      OBVIOUS
    <3>3. Cardinality(A) # 0
      BY <2>1, <3>2, FS_EmptySet
    <3> QED
      BY <2>1, <3>1, <3>3
  <2>3. IsFiniteSet(B) /\ Cardinality(B) = Cardinality(A)
    <3>1. with \in [A -> B]
      OBVIOUS
    <3>2. \A S, T \in A : with[S] = with[T] => S = T
      <4>1. \A T \in A : n + 1 \notin T /\ with[T] = T \cup {n + 1}
        OBVIOUS
      <4> HIDE DEF with
      <4> QED
        BY <4>1
    <3>3. \A U \in B : \E T \in A : with[T] = U
      OBVIOUS
    <3> HIDE DEF with, A, B
    <3>4. with \in Bijection(A, B)
      BY <3>1, <3>2, <3>3, Fun_IsBij
    <3>5. ExistsBijection(A, B)
      BY <3>4 DEF ExistsBijection
    <3> QED
      BY <2>1, <3>5, FS_Bijection
  <2>4. SUBSET (1 .. n + 1) = A \cup B
    <3>1. ASSUME NEW T \in SUBSET (1 .. n + 1)
          PROVE  T \in A \cup B
      <4>1. CASE n + 1 \in T
        <5>1. T \ {n + 1} \in A
          OBVIOUS
        <5>2. T = (T \ {n + 1}) \cup {n + 1}
          BY <4>1
        <5> HIDE DEF A
        <5> QED
          BY <5>1, <5>2
      <4>2. CASE n + 1 \notin T
        <5>1. \A x \in T : x \in 1 .. n
          BY <4>2
        <5> QED
          BY <5>1
      <4> QED
        BY <4>1, <4>2
    <3>2. ASSUME NEW T \in A
          PROVE  T \in SUBSET (1 .. n + 1) /\ T \cup {n + 1} \in SUBSET (1 .. n + 1)
      OBVIOUS
    <3>3. ASSUME NEW U \in B
          PROVE  U \in SUBSET (1 .. n + 1)
      <4>1. PICK T \in A : U = T \cup {n + 1}
        OBVIOUS
      <4> QED
        BY <3>2, <4>1
    <3> DEFINE C == SUBSET (1 .. n + 1)
    <3> HIDE DEF A, B, C
    <3>4. \A T \in C : T \in A \cup B
      BY <3>1 DEF C
    <3>5. \A T \in A \cup B : T \in C
      BY <3>2, <3>3 DEF C
    <3>6. C = A \cup B
      BY <3>4, <3>5
    <3> QED
      BY <3>6 DEF C
  <2>5. A \cap B = {}
    <3>1. \A T \in A : n + 1 \notin T
      OBVIOUS
    <3>2. \A U \in B : n + 1 \in U
      OBVIOUS
    <3> HIDE DEF A, B
    <3>3. ASSUME NEW U \in A, U \in B
          PROVE  FALSE
      BY <3>1, <3>2, <3>3
    <3> QED
      BY <3>3
  <2> HIDE DEF A, B
  <2>6. Cardinality(A \cup B) = 2 ^ n + 2 ^ n
    <3>1. Cardinality(A \cap B) = 0
      BY <2>5, FS_EmptySet
    <3>2. Cardinality(A \cup B) = Cardinality(A) + Cardinality(B) - Cardinality(A \cap B)
      BY <2>1, <2>3, FS_Union
    <3> QED
      BY <2>1, <2>2, <2>3, <3>1, <3>2
  <2>7. Cardinality(SUBSET (1 .. n + 1)) = 2 ^ (n + 1)
    BY <1>1
  <2>8. 2 ^ (n + 1) = 2 ^ n + 2 ^ n
    BY <2>4, <2>6, <2>7, Zenon
  <2>9. PICK p \in Nat \ {0} : p = 2 ^ n
    BY <2>2
  <2>10. p + p = 2 * p
    BY <2>9
  <2>11. 2 ^ (n + 1) = p + p
    BY <2>8, <2>9, Zenon
  <2> QED
    BY <2>2, <2>9, <2>10, <2>11, Zenon
<1> QED
  BY <1>2, <1>3

\* Only Eira opens a stream.
OpeningIsEira == phase = "opening" => adapter = "eira"

\* The bound on the count of failures is where the backoff has reached its cap.
BoundIsAboveCap == MaxBackoff <= 2 ^ MaxFailures

\* Doubling goes from one power of two, as far as the cap, to the next.
LEMMA NextBackoff ==
    ASSUME TypeOK, BoundIsAboveCap, BackoffFollowsFailures, backoff' = Double(backoff)
    PROVE  LET next == AtMost(2 ^ AtMost(failures + 1, MaxFailures), MaxBackoff)
           IN  IF adapter = "eira" THEN backoff' >= next ELSE backoff' = next
<1>1. /\ failures \in Nat /\ failures <= MaxFailures /\ MaxFailures \in Nat
      /\ MaxBackoff \in Nat \ {0} /\ backoff \in 1 .. MaxBackoff
  BY WaitAssumption, BoundAssumption DEF TypeOK, Numbers
<1>2. PICK p \in Nat \ {0} : p = 2 ^ failures /\ 2 ^ (failures + 1) = 2 * p
  BY <1>1, Powers
<1>3. PICK q \in Nat : q = 2 ^ AtMost(failures + 1, MaxFailures) /\ AtMost(q, MaxBackoff) = AtMost(2 * p, MaxBackoff)
  <2>1. CASE failures < MaxFailures
    <3>1. AtMost(failures + 1, MaxFailures) = failures + 1
      BY <1>1, <2>1 DEF AtMost
    <3> QED
      BY <1>2, <3>1
  <2>2. CASE failures = MaxFailures
    <3>1. AtMost(failures + 1, MaxFailures) = failures
      BY <1>1, <2>2 DEF AtMost
    <3>2. MaxBackoff <= p
      BY <1>2, <2>2 DEF BoundIsAboveCap
    <3>3. AtMost(p, MaxBackoff) = AtMost(2 * p, MaxBackoff)
      BY <1>1, <1>2, <3>2 DEF AtMost
    <3> QED
      BY <1>2, <3>1, <3>3
  <2> QED
    BY <1>1, <2>1, <2>2
<1>4. IF adapter = "eira" THEN backoff >= AtMost(p, MaxBackoff) ELSE backoff = AtMost(p, MaxBackoff)
  BY <1>2 DEF BackoffFollowsFailures
<1>5. CASE adapter = "eira"
  <2>1. backoff' >= AtMost(2 * p, MaxBackoff)
    BY <1>1, <1>2, <1>4, <1>5 DEF Double, AtMost
  <2> QED
    BY <1>3, <1>5, <2>1
<1>6. CASE adapter # "eira"
  <2>1. backoff' = AtMost(2 * p, MaxBackoff)
    BY <1>1, <1>2, <1>4, <1>6 DEF Double, AtMost
  <2> QED
    BY <1>3, <1>6, <2>1
<1> QED
  BY <1>5, <1>6

\* The wait doubles with every failure in a row and starts anew after a success,
\* for every cap (nitro.rs:109-114, eira.rs:108-109), when failures are counted
\* at least until it is reached.
THEOREM BackoffCorrect == BoundIsAboveCap => (Spec => []BackoffFollowsFailures)
<1> SUFFICES ASSUME BoundIsAboveCap
             PROVE  Spec => []BackoffFollowsFailures
  OBVIOUS
<1>1. Init => BackoffFollowsFailures
  <2>1. AtMost(2 ^ 0, MaxBackoff) = 1
    BY Powers, WaitAssumption DEF AtMost
  <2> QED
    BY <2>1 DEF Init, BackoffFollowsFailures
<1>2. TypeOK /\ OpeningIsEira /\ BackoffFollowsFailures /\ [Next]_vars => BackoffFollowsFailures'
  <2> SUFFICES ASSUME TypeOK, OpeningIsEira, BackoffFollowsFailures, [Next]_vars
               PROVE  BackoffFollowsFailures'
    OBVIOUS
  <2>1. ASSUME adapter' = adapter, failures' = failures, backoff' = backoff
        PROVE  BackoffFollowsFailures'
    BY <2>1 DEF BackoffFollowsFailures
  <2>2. ASSUME adapter' = adapter, failures' = AtMost(failures + 1, MaxFailures),
               backoff' = Double(backoff)
        PROVE  BackoffFollowsFailures'
    BY <2>2, NextBackoff DEF BackoffFollowsFailures
  <2>3. ASSUME adapter' = adapter, failures' = 0,
               backoff' = 1 \/ (adapter = "eira" /\ backoff' = backoff)
        PROVE  BackoffFollowsFailures'
    <3>1. AtMost(2 ^ 0, MaxBackoff) = 1
      BY Powers, WaitAssumption DEF AtMost
    <3>2. backoff \in Nat /\ backoff >= 1
      BY WaitAssumption DEF TypeOK, Numbers
    <3> QED
      BY <2>3, <3>1, <3>2 DEF BackoffFollowsFailures
  <2>4. ASSUME adapter' = adapter, adapter = "eira", failures' = failures,
               backoff' = Double(backoff)
        PROVE  BackoffFollowsFailures'
    <3>1. backoff \in Nat /\ backoff <= MaxBackoff /\ MaxBackoff \in Nat
      BY WaitAssumption DEF TypeOK, Numbers
    <3>2. backoff' >= backoff
      BY <2>4, <3>1 DEF Double, AtMost
    <3>3. PICK e : e = AtMost(2 ^ failures, MaxBackoff)
      OBVIOUS
    <3>4. e \in Nat
      <4>1. 2 ^ failures \in Nat
        BY Powers, BoundAssumption DEF TypeOK, Numbers
      <4> QED
        BY <3>1, <3>3, <4>1 DEF AtMost
    <3>5. backoff >= e
      BY <2>4, <3>3 DEF BackoffFollowsFailures
    <3>6. backoff' \in Nat
      BY <2>4, <3>1 DEF Double, AtMost
    <3>7. backoff' >= e
      BY <3>1, <3>2, <3>4, <3>5, <3>6
    <3> QED
      BY <2>4, <3>3, <3>7 DEF BackoffFollowsFailures
  <2>5. CASE \E status \in {"429", "other", "none"}, header \in RetryAfter \cup {NoHeader} :
                 ConnectFails(status, header)
    BY <2>2, <2>5 DEF ConnectFails
  <2>6. CASE Connect
    <3>1. adapter' = adapter /\ failures' = 0 /\ backoff' = 1
      BY <2>6 DEF Connect
    <3> QED
      BY <2>3, <3>1
  <2>7. CASE Acknowledged
    <3>1. adapter = "eira"
      BY <2>7 DEF Acknowledged, OpeningIsEira
    <3> QED
      BY <2>3, <2>7, <3>1 DEF Acknowledged
  <2>8. CASE EiraFails
    BY <2>2, <2>4, <2>8 DEF EiraFails
  <2>9. CASE TcpConnected \/ TlsConnected \/ RequestWritten \/ HeadRead \/ SubscribeFails
             \/ Announce \/ SessionEnds \/ Opened \/ Wake \/ Clock \/ UNCHANGED vars
    BY <2>1, <2>9 DEF TcpConnected, TlsConnected, RequestWritten, HeadRead, SubscribeFails,
                      Announce, SessionEnds, Opened, Wake, Clock, vars
  <2> QED
    BY <2>5, <2>6, <2>7, <2>8, <2>9 DEF Next
<1>3. Init => OpeningIsEira
  BY DEF Init, OpeningIsEira
<1>4. OpeningIsEira /\ [Next]_vars => OpeningIsEira'
  BY DEF OpeningIsEira, Next, TcpConnected, TlsConnected, RequestWritten, HeadRead, ConnectFails,
         Connect, SubscribeFails, Announce, SessionEnds, Opened, Acknowledged, EiraFails, Wake, Clock,
         Sleep, Dial, vars
<1> QED
  BY <1>1, <1>2, <1>3, <1>4, TypeCorrect, PTL DEF Spec

-----------------------------------------------------------------------------
(***************************************************************************)
(* The cursor of a Nitro adapter.                                          *)
(***************************************************************************)
\* A bound that is attained is the maximum.
LEMMA MaxIs ==
    ASSUME NEW S, S \subseteq Int, NEW m \in S, \A x \in S : x <= m
    PROVE  Max(S) = m
<1>1. Max(S) \in S /\ \A y \in S : Max(S) >= y
  BY DEF Max
<1>2. Max(S) \in Int /\ m \in Int
  BY <1>1
<1>3. Max(S) <= m /\ Max(S) >= m
  BY <1>1
<1> QED
  BY <1>2, <1>3

\* And so is the minimum.
LEMMA MinIs ==
    ASSUME NEW S, S \subseteq Int, NEW m \in S, \A x \in S : m <= x
    PROVE  Min(S) = m
<1>1. Min(S) \in S /\ \A y \in S : Min(S) <= y
  BY DEF Min
<1>2. Min(S) \in Int /\ m \in Int
  BY <1>1
<1>3. Min(S) >= m /\ Min(S) <= m
  BY <1>1
<1> QED
  BY <1>2, <1>3

\* The cursor after a frame of blocks from p to q: the one after q, unless it was
\* there already or q is the last block of all.
After(q) == IF q = Top THEN Top ELSE q + 1

Advanced(p, q, seq) ==
    /\ p = Top                      => seq = next_seq
    /\ p # Top /\ next_seq = NoSeq  => seq = After(q)
    /\ p # Top /\ next_seq # NoSeq => seq = IF next_seq < After(q) THEN After(q) ELSE next_seq

\* Advance computes it.
LEMMA AdvanceIs ==
    ASSUME CursorTypeOK, NEW p \in 0 .. Top, NEW q \in 0 .. Top, q = p \/ q = p + 1
    PROVE  Advanced(p, q, Advance(p .. q))
<1> DEFINE n == After(q)
<1>a. n = IF q = Top THEN Top ELSE q + 1
  BY DEF After
<1> HIDE DEF n
<1> DEFINE S == (p .. q) \ {Top}
<1>0. Top \in Nat /\ (next_seq # NoSeq => next_seq \in 0 .. Top)
  BY CursorAssumption DEF CursorTypeOK
<1>1. CASE p = Top
  <2>1. S = {}
    BY <1>0, <1>1
  <2> QED
    BY <1>1, <2>1 DEF Advance, Advanced
<1>2. CASE p # Top
  <2>1. n - 1 \in S /\ S \subseteq Int /\ \A x \in S : x <= n - 1
    BY <1>0, <1>2, <1>a
  <2>2. Max(S) = n - 1
    BY <2>1, MaxIs
  <2>3. S # {} /\ Max(S) + 1 = n
    <3>1. n \in Nat
      BY <1>0, <1>a
    <3> QED
      BY <2>1, <2>2, <3>1
  <2>4. next_seq # NoSeq => Max({next_seq, n}) = IF next_seq < n THEN n ELSE next_seq
    <3> SUFFICES ASSUME next_seq # NoSeq
                 PROVE  Max({next_seq, n}) = IF next_seq < n THEN n ELSE next_seq
      OBVIOUS
    <3> DEFINE m == IF next_seq < n THEN n ELSE next_seq
    <3>1. m \in {next_seq, n} /\ {next_seq, n} \subseteq Int /\ \A x \in {next_seq, n} : x <= m
      <4>1. next_seq \in Int /\ n \in Int
        BY <1>0, <1>a
      <4> QED
        BY <4>1
    <3> QED
      BY <3>1, MaxIs
  <2> QED
    BY <1>2, <2>3, <2>4 DEF Advance, Advanced, n
<1> QED
  BY <1>1, <1>2

\* What a frame of good blocks does: the blocks from pos to q arrive.
Arrived(q) ==
    /\ pos \in 0 .. Top /\ q \in 0 .. Top /\ q >= pos /\ q < published
    /\ pos' = q + 1
    /\ received' = received \cup pos .. q
    /\ replayed' = replayed \cup ((pos .. q) \cap received)
    /\ Advanced(pos, q, next_seq')
    /\ UNCHANGED <<honest, published, oldest, link, unparsed, skipped>>

\* Frame is that, for a frame that brings at least one block.
LEMMA FrameIs ==
    ASSUME CursorTypeOK, NEW k \in 1 .. 2, Frame(k)
    PROVE  Arrived(pos + k - 1)
<1> DEFINE q == pos + k - 1
<1>1. /\ pos \in Nat /\ published \in 0 .. Top + 1 /\ Top \in Nat /\ k \in 1 .. 2
      /\ pos + k <= published
  BY CursorAssumption DEF CursorTypeOK, Frame
<1>2. /\ pos \in 0 .. Top /\ q \in 0 .. Top /\ (q = pos \/ q = pos + 1)
      /\ q >= pos /\ q < published /\ pos + k = q + 1
  BY <1>1
<1>3. /\ pos' = pos + k /\ received' = received \cup pos .. q /\ next_seq' = Advance(pos .. q)
      /\ replayed' = replayed \cup ((pos .. q) \cap received)
      /\ UNCHANGED <<honest, published, oldest, link, unparsed, skipped>>
  BY DEF Frame, serverVars
<1>4. Advanced(pos, q, Advance(pos .. q))
  BY <1>2, AdvanceIs
<1> QED
  BY <1>2, <1>3, <1>4 DEF Arrived

-----------------------------------------------------------------------------
(***************************************************************************)
(* The cursor, said without a maximum; where a connection to a server that *)
(* honours it stands; and what became of the blocks behind.                *)
(***************************************************************************)
Accounted == received \cup unparsed \cup skipped

AtCursor ==
    /\ next_seq = NoSeq => received \subseteq {Top}
    /\ next_seq # NoSeq => /\ next_seq - 1 \in received /\ next_seq # 0
                           /\ \A b \in received : b < next_seq \/ b = Top

Ahead == honest /\ link = "up" => \A b \in received : b < pos \/ b = Top

Behind ==
    honest /\ next_seq # NoSeq =>
        /\ \A a \in received : \A b \in a .. next_seq - 1 : b \in Accounted
        /\ link = "up" => \A b \in next_seq .. pos - 1 : b \in Accounted

HasLeast == received # {} => \E a \in received : \A b \in received : a <= b

IInv == CursorTypeOK /\ AtCursor /\ Ahead /\ NoReplay /\ Behind /\ HasLeast

\* They hold at the start.
LEMMA InitInv == CursorInit => IInv
  BY CursorAssumption, FirstAssumption
     DEF CursorInit, IInv, CursorTypeOK, AtCursor, Ahead, NoReplay, Behind, HasLeast

\* A frame of good blocks keeps them.
LEMMA FrameInv ==
    ASSUME IInv, NEW k \in 1 .. 2, Frame(k)
    PROVE  IInv'
<1> DEFINE q == pos + k - 1
<1>0. Arrived(q)
  BY FrameIs DEF IInv
<1> HIDE DEF q
<1>a. link = "up"
  BY DEF Frame
<1>b. After(q) = IF q = Top THEN Top ELSE q + 1
  BY DEF After
<1>c. /\ pos \in 0 .. Top /\ q \in 0 .. Top /\ q >= pos /\ q < published /\ pos' = q + 1
      /\ received' = received \cup pos .. q
      /\ replayed' = replayed \cup ((pos .. q) \cap received)
      /\ UNCHANGED <<honest, published, oldest, link, unparsed, skipped>>
  BY <1>0 DEF Arrived
<1>d. /\ Top \in Nat /\ NoSeq \notin Nat /\ (next_seq # NoSeq => next_seq \in 0 .. Top)
      /\ received \subseteq 0 .. Top /\ replayed \subseteq 0 .. Top
  BY CursorAssumption DEF IInv, CursorTypeOK
\* The three cases of the cursor.
<1>e. /\ pos = Top                     => next_seq' = next_seq
      /\ pos # Top /\ next_seq = NoSeq  => next_seq' = After(q)
      /\ pos # Top /\ next_seq # NoSeq =>
            next_seq' = IF next_seq < After(q) THEN After(q) ELSE next_seq
  BY <1>0 DEF Arrived, Advanced
<1>1. next_seq' \in 0 .. Top \cup {NoSeq}
  BY <1>b, <1>c, <1>d, <1>e
<1>2. CursorTypeOK'
  <2>1. received' \cup replayed' \cup unparsed' \cup skipped' \subseteq 0 .. Top
    BY <1>c, <1>d DEF IInv, CursorTypeOK
  <2>2. published' \in 0 .. Top + 1 /\ oldest' \in 0 .. published' /\ pos' \in 0 .. Top + 1
    BY <1>c, <1>d DEF IInv, CursorTypeOK
  <2> QED
    BY <1>1, <1>c, <2>1, <2>2 DEF IInv, CursorTypeOK
<1>3. AtCursor'
  <2>0. AtCursor
    BY DEF IInv
  <2>1. CASE pos = Top
    BY <1>c, <1>d, <1>e, <2>0, <2>1 DEF AtCursor
  <2>2. CASE pos # Top /\ next_seq = NoSeq
    <3>1. next_seq' - 1 \in pos .. q /\ next_seq' # 0 /\ next_seq' # NoSeq
      BY <1>b, <1>c, <1>d, <1>e, <2>2
    <3>2. \A b \in received' : b < next_seq' \/ b = Top
      BY <1>b, <1>c, <1>d, <1>e, <2>0, <2>2 DEF AtCursor
    <3> QED
      BY <1>c, <3>1, <3>2 DEF AtCursor
  <2>3. CASE pos # Top /\ next_seq # NoSeq
    <3>1. next_seq' - 1 \in received' /\ next_seq' # 0 /\ next_seq' # NoSeq
      BY <1>b, <1>c, <1>d, <1>e, <2>0, <2>3 DEF AtCursor
    <3>2. \A b \in received' : b < next_seq' \/ b = Top
      BY <1>b, <1>c, <1>d, <1>e, <2>0, <2>3 DEF AtCursor
    <3> QED
      BY <3>1, <3>2 DEF AtCursor
  <2> QED
    BY <2>1, <2>2, <2>3
<1>4. Ahead'
  BY <1>c, <1>d DEF IInv, Ahead
<1>5. NoReplay'
  BY <1>a, <1>c, <1>d DEF IInv, Ahead, NoReplay
<1>6. Behind'
  <2> SUFFICES ASSUME honest, next_seq' # NoSeq
               PROVE  /\ \A a \in received' : \A b \in a .. next_seq' - 1 : b \in Accounted'
                      /\ \A b \in next_seq' .. pos' - 1 : b \in Accounted'
    BY <1>c DEF Behind
  <2>1. CASE next_seq # NoSeq
    <3>1. next_seq <= pos
      BY <1>a, <1>c, <1>d, <2>1 DEF IInv, AtCursor, Ahead
    <3>2. /\ \A a \in received : \A b \in a .. next_seq - 1 : b \in Accounted
          /\ \A b \in next_seq .. pos - 1 : b \in Accounted
      BY <1>a, <2>1 DEF IInv, Behind
    <3>3. next_seq' <= q + 1 /\ next_seq' \in next_seq .. Top /\ next_seq' \in {next_seq, After(q)}
      BY <1>b, <1>c, <1>d, <1>e, <2>1, <3>1
    <3>4. \A b \in Accounted : b \in Accounted'
      BY <1>c DEF Accounted
    <3>5. \A b \in pos .. q : b \in Accounted'
      BY <1>c DEF Accounted
    <3>6. \A b \in next_seq .. q : b \in Accounted'
      BY <1>c, <1>d, <2>1, <3>2, <3>4, <3>5
    <3>7. ASSUME NEW a \in received', NEW b \in a .. next_seq' - 1
          PROVE  b \in Accounted'
      <4>1. a \in 0 .. Top /\ b \in Int
        BY <1>c, <1>d, <3>7
      <4>2. CASE b >= next_seq
        <5>1. next_seq \in Int /\ q \in Int /\ next_seq' \in Int /\ b <= next_seq' - 1
          <6>1. next_seq \in Int /\ q \in Int
            BY <1>c, <1>d, <2>1
          <6>2. next_seq' \in Int
            BY <3>3
          <6>3. b <= next_seq' - 1
            BY <3>7
          <6> QED
            BY <6>1, <6>2, <6>3
        <5>2. b \in next_seq .. q
          <6>1. next_seq' <= q + 1
            BY <3>3
          <6>2. b <= q
            <7> DEFINE s == next_seq'
            <7>1. s \in Int /\ q \in Int /\ b \in Int /\ s <= q + 1 /\ b <= s - 1
              BY <4>1, <5>1, <6>1
            <7> HIDE DEF s
            <7> QED
              BY <7>1
          <6> QED
            BY <4>1, <4>2, <5>1, <6>2
        <5> QED
          BY <3>6, <5>2
      <4>3. CASE b < next_seq
        <5>1. a \in received
          BY <1>c, <1>d, <2>1, <3>1, <3>7, <4>1, <4>3
        <5> QED
          BY <1>d, <2>1, <3>2, <3>4, <3>7, <4>1, <4>3, <5>1
      <4> QED
        BY <1>d, <2>1, <4>1, <4>2, <4>3
    <3>8. ASSUME NEW b \in next_seq' .. pos' - 1
          PROVE  b \in Accounted'
      BY <1>c, <1>d, <2>1, <3>3, <3>6, <3>8
    <3> QED
      BY <3>7, <3>8
  <2>2. CASE next_seq = NoSeq
    <3>1. pos # Top /\ next_seq' = After(q)
      BY <1>e, <2>2
    <3>2. received' \subseteq {Top} \cup pos .. q
      BY <1>c, <2>2 DEF IInv, AtCursor
    <3>3. \A b \in pos .. q : b \in Accounted'
      BY <1>c DEF Accounted
    <3>4. ASSUME NEW a \in received', NEW b \in a .. next_seq' - 1
          PROVE  b \in pos .. q
      BY <1>b, <1>c, <1>d, <3>1, <3>2, <3>4
    <3>5. ASSUME NEW b \in next_seq' .. pos' - 1
          PROVE  b \in pos .. q
      BY <1>b, <1>c, <1>d, <3>1, <3>5
    <3> QED
      BY <3>3, <3>4, <3>5
  <2> QED
    BY <2>1, <2>2
<1>7. HasLeast'
  <2>1. CASE received = {}
    BY <1>c, <1>d, <2>1 DEF HasLeast
  <2>2. CASE received # {}
    <3>1. PICK a \in received : \A b \in received : a <= b
      BY <2>2 DEF IInv, HasLeast
    <3>2. CASE a <= pos
      BY <1>c, <1>d, <3>1, <3>2 DEF HasLeast
    <3>3. CASE pos < a
      BY <1>c, <1>d, <3>1, <3>3 DEF HasLeast
    <3> QED
      BY <1>c, <1>d, <3>1, <3>2, <3>3
  <2> QED
    BY <2>1, <2>2
<1> QED
  BY <1>2, <1>3, <1>4, <1>5, <1>6, <1>7 DEF IInv

\* A frame that does not parse: its blocks are passed over.
LEMMA BadFrameInv ==
    ASSUME IInv, NEW k \in 1 .. 2, BadFrame(k)
    PROVE  IInv'
<1>1. /\ link = "up" /\ pos' = pos + k /\ unparsed' = unparsed \cup pos .. pos + k - 1
      /\ pos + k <= published /\ k \in Nat
      /\ UNCHANGED <<honest, published, oldest, link, next_seq, received, replayed, skipped>>
  BY DEF BadFrame, serverVars
<1>2. /\ Top \in Nat /\ NoSeq \notin Nat /\ pos \in 0 .. Top + 1 /\ received \subseteq 0 .. Top
      /\ published \in 0 .. Top + 1 /\ (next_seq # NoSeq => next_seq \in 0 .. Top)
  BY CursorAssumption DEF IInv, CursorTypeOK
<1>3. CursorTypeOK'
  <2>1. pos' \in 0 .. Top + 1
    BY <1>1, <1>2
  <2>2. unparsed' \subseteq 0 .. Top
    BY <1>1, <1>2 DEF IInv, CursorTypeOK
  <2> QED
    BY <1>1, <2>1, <2>2 DEF IInv, CursorTypeOK
<1>4. AtCursor' /\ NoReplay' /\ HasLeast'
  BY <1>1 DEF IInv, AtCursor, NoReplay, HasLeast
<1>5. Ahead'
  BY <1>1, <1>2 DEF IInv, Ahead
<1>6. Behind'
  BY <1>1, <1>2 DEF IInv, Behind, Accounted
<1> QED
  BY <1>3, <1>4, <1>5, <1>6 DEF IInv

\* A new connection.
LEMMA ConnectInv ==
    ASSUME IInv, Reconnect
    PROVE  IInv'
<1>1. /\ link' = "up"
      /\ honest /\ next_seq # NoSeq  => pos' = Max({next_seq, oldest})
      /\ ~honest \/ next_seq = NoSeq => pos' \in oldest .. published
      /\ skipped' = IF next_seq = NoSeq THEN skipped ELSE skipped \cup next_seq .. pos' - 1
      /\ UNCHANGED <<honest, published, oldest, next_seq, received, replayed, unparsed>>
  BY DEF Reconnect, Requested, serverVars
<1>2. /\ Top \in Nat /\ NoSeq \notin Nat /\ received \subseteq 0 .. Top
      /\ published \in 0 .. Top + 1 /\ oldest \in 0 .. published
      /\ (next_seq # NoSeq => next_seq \in 0 .. Top)
  BY CursorAssumption DEF IInv, CursorTypeOK
<1>3. honest /\ next_seq # NoSeq => pos' \in 0 .. Top + 1 /\ pos' >= next_seq
  <2> SUFFICES ASSUME honest, next_seq # NoSeq
               PROVE  pos' \in 0 .. Top + 1 /\ pos' >= next_seq
    OBVIOUS
  <2> DEFINE m == IF next_seq < oldest THEN oldest ELSE next_seq
  <2>1. m \in {next_seq, oldest} /\ {next_seq, oldest} \subseteq Int
        /\ \A x \in {next_seq, oldest} : x <= m
    BY <1>2
  <2>2. pos' = m
    BY <1>1, <2>1, MaxIs
  <2> QED
    <3>0. next_seq \in 0 .. Top /\ oldest \in 0 .. Top + 1 /\ Top \in Nat
      BY <1>2
    <3>1. m \in 0 .. Top + 1 /\ m >= next_seq
      BY <3>0
    <3> QED
      BY <2>2, <3>1
<1>4. pos' \in 0 .. Top + 1
  BY <1>1, <1>2, <1>3
<1>5. CursorTypeOK'
  <2>1. skipped' \subseteq 0 .. Top
    BY <1>1, <1>2, <1>4 DEF IInv, CursorTypeOK
  <2> QED
    BY <1>1, <1>4, <2>1 DEF IInv, CursorTypeOK
<1>6. AtCursor' /\ NoReplay' /\ HasLeast'
  BY <1>1 DEF IInv, AtCursor, NoReplay, HasLeast
<1>7. Ahead'
  <2> SUFFICES ASSUME honest, NEW b \in received, b # Top
               PROVE  b < pos'
    BY <1>1 DEF Ahead
  <2>1. next_seq # NoSeq /\ b < next_seq
    BY DEF IInv, AtCursor
  <2> QED
    BY <1>2, <1>3, <1>4, <2>1
<1>8. Behind'
  BY <1>1, <1>2, <1>4 DEF IInv, Behind, Accounted
<1> QED
  BY <1>5, <1>6, <1>7, <1>8 DEF IInv

\* The server's steps and the end of a connection.
LEMMA OtherInv ==
    ASSUME IInv, Publish \/ Evict \/ Hangup \/ UNCHANGED cursorVars
    PROVE  IInv'
<1>1. /\ link' = "up" => link = "up"
      /\ UNCHANGED <<honest, pos, next_seq, received, replayed, unparsed, skipped>>
  BY DEF Publish, Evict, Hangup, cursorVars, serverVars, historyVars
<1>2. CursorTypeOK'
  <2>1. published' \in 0 .. Top + 1 /\ oldest' \in 0 .. published' /\ link' \in {"down", "up"}
    BY CursorAssumption
       DEF IInv, CursorTypeOK, Publish, Evict, Hangup, cursorVars, serverVars, historyVars
  <2> QED
    BY <1>1, <2>1 DEF IInv, CursorTypeOK
<1>3. AtCursor' /\ NoReplay' /\ HasLeast'
  BY <1>1 DEF IInv, AtCursor, NoReplay, HasLeast
<1>4. Ahead' /\ Behind'
  BY <1>1 DEF IInv, Ahead, Behind, Accounted
<1> QED
  BY <1>2, <1>3, <1>4 DEF IInv

\* Every state has the types of its fields, the cursor is where it should be, and
\* with a server that honours it the blocks behind it are accounted for.
THEOREM CursorInductive == CursorSpec => []IInv
<1>1. IInv /\ [CursorNext]_cursorVars => IInv'
  BY FrameInv, BadFrameInv, ConnectInv, OtherInv DEF CursorNext
<1> QED
  BY <1>1, InitInv, PTL DEF CursorSpec

-----------------------------------------------------------------------------
\* The cursor is a u64 and never runs past the largest number (nitro.rs).
THEOREM CursorTypeCorrect == CursorSpec => []CursorTypeOK
<1>1. IInv => CursorTypeOK
  BY DEF IInv
<1> QED
  BY <1>1, CursorInductive, PTL

\* A connection asks for one more than the largest block seen (nitro.rs).
THEOREM CursorCorrect == CursorSpec => []CursorIsLastSeenPlusOne
<1>1. ASSUME IInv
      PROVE  CursorIsLastSeenPlusOne
  <2>1. Top \in Nat /\ received \subseteq 0 .. Top /\ (next_seq # NoSeq => next_seq \in 0 .. Top)
    BY <1>1, CursorAssumption DEF IInv, CursorTypeOK
  <2>2. CASE next_seq = NoSeq
    BY <1>1, <2>2 DEF IInv, AtCursor, CursorIsLastSeenPlusOne
  <2>3. CASE next_seq # NoSeq
    <3> DEFINE S == received \ {Top}
               m == next_seq - 1
    <3>1. m \in S /\ S \subseteq Int /\ \A x \in S : x <= m
      BY <1>1, <2>1, <2>3 DEF IInv, AtCursor
    <3>2. Max(S) = m
      BY <3>1, MaxIs
    <3> QED
      BY <2>1, <2>3, <3>1, <3>2 DEF CursorIsLastSeenPlusOne
  <2> QED
    BY <2>2, <2>3
<1> QED
  BY <1>1, CursorInductive, PTL

\* No block is seen twice from a server that honours the cursor, except the very
\* last one (the dial loop of nitro.rs).
THEOREM ReplayCorrect == CursorSpec => []NoReplay
<1>1. IInv => NoReplay
  BY DEF IInv
<1> QED
  BY <1>1, CursorInductive, PTL

\* No block is missing between the first seen and the cursor, but those that did
\* not parse and those that the server no longer had (the dial loop of nitro.rs).
THEOREM GapsCorrect == CursorSpec => []NothingMissing
<1>1. ASSUME IInv
      PROVE  NothingMissing
  <2> SUFFICES ASSUME honest, received # {}, next_seq # NoSeq
               PROVE  Min(received) .. next_seq - 1 \subseteq received \cup unparsed \cup skipped
    BY DEF NothingMissing
  <2>1. PICK a \in received : \A b \in received : a <= b
    BY <1>1 DEF IInv, HasLeast
  <2>2. received \subseteq Int
    BY <1>1, CursorAssumption DEF IInv, CursorTypeOK
  <2>3. Min(received) = a
    BY <2>1, <2>2, MinIs
  <2> QED
    BY <1>1, <2>1, <2>3 DEF IInv, Behind, Accounted
<1> QED
  BY <1>1, CursorInductive, PTL
=============================================================================
