--------------------------- MODULE DecodersProofs ---------------------------
(***************************************************************************)
(* Proofs about Decoders, for every message, frame, sample and date: the   *)
(* walk finds the transactions that an L2 message carries, a binary frame  *)
(* is split into what it is made of, percentiles and medians are those of  *)
(* the samples, and a day number has the date of the calendar.             *)
(***************************************************************************)
EXTENDS Decoders, SequenceTheorems, FiniteSetTheorems, WellFoundedInduction, TLAPS

-----------------------------------------------------------------------------
(***************************************************************************)
(* Induction and recursion over numbers.                                   *)
(***************************************************************************)

\* A set of numbers has a least element.
LEMMA LeastNumber ==
  ASSUME NEW T \in SUBSET Nat, T # {}
  PROVE  \E x \in T : \A y \in T : x <= y
  <1> DEFINE below == OpToRel(<, Nat)
  <1>1. IsWellFoundedOn(below, Nat) BY NatLessThanWellFounded, Zenon
  <1>2. \A x, y \in Nat : <<y, x>> \in below <=> y < x BY DEF OpToRel
  <1> HIDE DEF below
  <1>3. PICK x \in T : \A y \in T : ~ (<<y, x>> \in below) BY <1>1, WFMin
  <1>4. \A y \in T : ~ (y < x) /\ y \in Nat /\ x \in Nat BY <1>2, <1>3
  <1>5. \A y \in T : x <= y BY <1>4
  <1> QED BY <1>5

\* A set of numbers with 0 and the successor of each of its members is Nat.
LEMMA AllNumbers ==
  ASSUME NEW S \in SUBSET Nat, 0 \in S, \A n \in S : n + 1 \in S
  PROVE  S = Nat
  <1> SUFFICES ASSUME Nat \ S # {} PROVE FALSE OBVIOUS
  <1>1. PICK x \in Nat \ S : \A y \in Nat \ S : x <= y BY LeastNumber
  <1>2. x # 0 /\ x - 1 \in Nat BY <1>1
  <1>3. x - 1 \in S BY <1>1, <1>2
  <1> QED BY <1>1, <1>2, <1>3

\* How each value of a function follows from the one before.
UpwardStep(n, X, start, step) == n \in Nat /\ start \in X /\ step \in [1 .. n -> [X -> X]]

UpwardFunction(f, n, X, start, step) ==
    /\ f \in [0 .. n -> X]
    /\ \A i \in 0 .. n : f[i] = IF i = 0 THEN start ELSE step[i][f[i - 1]]

\* Such a function exists.
LEMMA Upward ==
  ASSUME NEW n, NEW X, NEW start, NEW step, UpwardStep(n, X, start, step)
  PROVE  \E f : UpwardFunction(f, n, X, start, step)
  <1>0. n \in Nat /\ start \in X /\ step \in [1 .. n -> [X -> X]] BY DEF UpwardStep
  <1> DEFINE Good(f, k) == \A i \in 0 .. k : f[i] = IF i = 0 THEN start ELSE step[i][f[i - 1]]
             S == {k \in Nat : k <= n => \E f \in [0 .. n -> X] : Good(f, k)}
  <1>1. 0 \in S
    <2>1. [i \in 0 .. n |-> start] \in [0 .. n -> X] BY <1>0
    <2>2. Good([i \in 0 .. n |-> start], 0) BY <1>0
    <2> QED BY <1>0, <2>1, <2>2
  <1>2. ASSUME NEW k \in S PROVE k + 1 \in S
    <2>1. k \in Nat /\ k + 1 \in Nat OBVIOUS
    <2>2. SUFFICES ASSUME k + 1 <= n PROVE \E f \in [0 .. n -> X] : Good(f, k + 1)
      BY <2>1
    <2>3. k \in 0 .. n /\ k + 1 \in 0 .. n /\ k + 1 \in 1 .. n /\ k <= n BY <1>0, <2>1, <2>2
    <2>4. PICK f \in [0 .. n -> X] : Good(f, k) BY <1>0, <2>1, <2>3
    <2>5. f[k] \in X /\ step[k + 1][f[k]] \in X BY <1>0, <2>3
    <2>6. PICK x \in X : x = step[k + 1][f[k]] BY <2>5
    <2>7. [f EXCEPT ![k + 1] = x] \in [0 .. n -> X] BY <2>3
    <2>8. PICK g \in [0 .. n -> X] : g = [f EXCEPT ![k + 1] = x] BY <2>7
    <2>9. g[k + 1] = x /\ \A i \in 0 .. k : g[i] = f[i] BY <1>0, <2>1, <2>2, <2>3, <2>8
    <2>10. ASSUME NEW i \in 0 .. k + 1
           PROVE  g[i] = IF i = 0 THEN start ELSE step[i][g[i - 1]]
      <3>1. CASE i = k + 1
        <4>1. i # 0 /\ i - 1 = k /\ k \in 0 .. k BY <1>0, <2>1, <3>1
        <4>2. g[i - 1] = f[k] BY <2>9, <4>1
        <4> QED BY <2>6, <2>9, <3>1, <4>1, <4>2
      <3>2. CASE i # k + 1
        <4>1. i \in 0 .. k /\ g[i] = f[i] BY <1>0, <2>1, <2>9, <3>2
        <4>2. i # 0 => i - 1 \in 0 .. k /\ g[i - 1] = f[i - 1] BY <2>1, <2>9, <4>1
        <4> QED BY <2>4, <4>1, <4>2
      <3> QED BY <3>1, <3>2
    <2> QED BY <2>10
  <1>3. S \in SUBSET Nat OBVIOUS
  <1> HIDE DEF S
  <1>4. S = Nat BY <1>1, <1>2, <1>3, AllNumbers
  <1>5. n \in S /\ n <= n BY <1>0, <1>4
  <1>6. PICK f \in [0 .. n -> X] : Good(f, n) BY <1>5 DEF S
  <1> QED BY <1>6 DEF UpwardFunction

\* How each value of a function follows from those after it.
DownwardStep(n, X, step) ==
    /\ n \in Nat /\ X # {} /\ step \in [0 .. n -> [[0 .. n -> X] -> X]]
    /\ \A i \in 0 .. n : \A g, h \in [0 .. n -> X] :
           (\A j \in i + 1 .. n : g[j] = h[j]) => step[i][g] = step[i][h]

DownwardFunction(f, n, X, step) == f \in [0 .. n -> X] /\ \A i \in 0 .. n : f[i] = step[i][f]

\* Such a function exists.
LEMMA Downward ==
  ASSUME NEW n, NEW X, NEW step, DownwardStep(n, X, step)
  PROVE  \E f : DownwardFunction(f, n, X, step)
  <1>0. /\ n \in Nat /\ X # {} /\ step \in [0 .. n -> [[0 .. n -> X] -> X]]
        /\ \A i \in 0 .. n : \A g, h \in [0 .. n -> X] :
               (\A j \in i + 1 .. n : g[j] = h[j]) => step[i][g] = step[i][h]
    BY DEF DownwardStep
  <1> DEFINE Good(f, k) == \A i \in 0 .. n : i > n - k => f[i] = step[i][f]
             S == {k \in Nat : k <= n + 1 => \E f \in [0 .. n -> X] : Good(f, k)}
  <1>1. 0 \in S
    <2>1. PICK x \in X : TRUE BY <1>0
    <2>2. [i \in 0 .. n |-> x] \in [0 .. n -> X] BY <1>0
    <2>3. Good([i \in 0 .. n |-> x], 0) BY <1>0
    <2> QED BY <2>2, <2>3
  <1>2. ASSUME NEW k \in S PROVE k + 1 \in S
    <2>1. k \in Nat /\ k + 1 \in Nat OBVIOUS
    <2>2. SUFFICES ASSUME k + 1 <= n + 1 PROVE \E f \in [0 .. n -> X] : Good(f, k + 1)
      BY <1>0, <2>1
    <2>3. k <= n + 1 BY <1>0, <2>1, <2>2
    <2>4. PICK f \in [0 .. n -> X] : Good(f, k) BY <1>0, <2>1, <2>3
    <2>5. PICK m \in 0 .. n : m = n - k BY <1>0, <2>1, <2>2
    <2>6. PICK x \in X : x = step[m][f] BY <1>0
    <2>7. PICK g \in [0 .. n -> X] : g = [f EXCEPT ![m] = x] BY <1>0
    <2>8. g[m] = x /\ \A i \in 0 .. n : i # m => g[i] = f[i] BY <2>7
    <2>9. ASSUME NEW i \in 0 .. n, i > n - (k + 1) PROVE g[i] = step[i][g]
      <3>1. i >= m BY <1>0, <2>1, <2>5, <2>9
      <3>2. \A j \in i + 1 .. n : j \in 0 .. n /\ j # m BY <1>0, <3>1
      <3>3. \A j \in i + 1 .. n : g[j] = f[j] BY <2>8, <3>2
      <3>4. step[i][g] = step[i][f] BY <1>0, <3>3
      <3>5. CASE i = m BY <2>6, <2>8, <3>4, <3>5
      <3>6. CASE i # m
        <4>1. i > n - k BY <1>0, <2>1, <2>5, <3>1, <3>6
        <4> QED BY <2>4, <2>8, <3>4, <3>6, <4>1
      <3> QED BY <3>5, <3>6
    <2> QED BY <2>9
  <1>3. S \in SUBSET Nat OBVIOUS
  <1> HIDE DEF S
  <1>4. S = Nat BY <1>1, <1>2, <1>3, AllNumbers
  <1>5. n + 1 \in S /\ n + 1 <= n + 1 BY <1>0, <1>4
  <1>6. PICK f \in [0 .. n -> X] : Good(f, n + 1) BY <1>5 DEF S
  <1>7. \A i \in 0 .. n : i > n - (n + 1) BY <1>0
  <1> QED BY <1>6, <1>7 DEF DownwardFunction

\* What holds of the first value and carries over holds of every value.
LEMMA Rising ==
  ASSUME NEW n \in Nat, NEW X, NEW f, f[0] \in X, \A i \in 1 .. n : f[i - 1] \in X => f[i] \in X
  PROVE  \A i \in 0 .. n : f[i] \in X
  <1> DEFINE S == {k \in Nat : k <= n => f[k] \in X}
  <1>1. 0 \in S OBVIOUS
  <1>2. ASSUME NEW k \in S PROVE k + 1 \in S
    <2>1. k \in Nat /\ k + 1 \in Nat /\ (k <= n => f[k] \in X) OBVIOUS
    <2>2. ASSUME k + 1 <= n PROVE f[k + 1] \in X
      <3>1. k + 1 \in 1 .. n /\ k + 1 - 1 = k /\ k <= n BY <2>1, <2>2
      <3> QED BY <2>1, <3>1
    <2> QED BY <2>1, <2>2
  <1>3. S \in SUBSET Nat OBVIOUS
  <1> HIDE DEF S
  <1>4. S = Nat BY <1>1, <1>2, <1>3, AllNumbers
  <1> QED BY <1>4 DEF S

\* What holds of each value when it holds of those after it holds of every value.
LEMMA Falling ==
  ASSUME NEW n \in Nat, NEW X, NEW f,
         \A i \in 0 .. n : (\A j \in i + 1 .. n : f[j] \in X) => f[i] \in X
  PROVE  \A i \in 0 .. n : f[i] \in X
  <1> DEFINE S == {k \in Nat : \A i \in 0 .. n : i >= n - k => f[i] \in X}
  <1>1. 0 \in S
    <2> SUFFICES ASSUME NEW i \in 0 .. n, i >= n - 0 PROVE f[i] \in X OBVIOUS
    <2>1. \A j \in i + 1 .. n : FALSE OBVIOUS
    <2> QED BY <2>1
  <1>2. ASSUME NEW k \in S PROVE k + 1 \in S
    <2>1. k \in Nat /\ k + 1 \in Nat /\ \A i \in 0 .. n : i >= n - k => f[i] \in X OBVIOUS
    <2>2. ASSUME NEW i \in 0 .. n, i >= n - (k + 1) PROVE f[i] \in X
      <3>1. \A j \in i + 1 .. n : j \in 0 .. n /\ j >= n - k BY <2>1, <2>2
      <3> QED BY <2>1, <3>1
    <2> QED BY <2>1, <2>2
  <1>3. S \in SUBSET Nat OBVIOUS
  <1> HIDE DEF S
  <1>4. S = Nat BY <1>1, <1>2, <1>3, AllNumbers
  <1>5. n \in S BY <1>4
  <1>6. \A i \in 0 .. n : i >= n - n OBVIOUS
  <1> QED BY <1>5, <1>6 DEF S

-----------------------------------------------------------------------------
(***************************************************************************)
(* Percentiles and medians.                                                *)
(***************************************************************************)

\* The samples are numbers, in order.
SamplesInv ==
    /\ sorted \in Seq(Int)
    /\ \A i, j \in DOMAIN sorted : i <= j => sorted[i] <= sorted[j]

\* The size of a set of positions between the first few and the first few.
LEMMA CountLemma ==
  ASSUME NEW n \in Nat, NEW k \in 0 .. n, NEW T \in SUBSET (1 .. n)
  PROVE  /\ Cardinality(T) \in Nat
         /\ T \subseteq 1 .. k => Cardinality(T) <= k
         /\ 1 .. k \subseteq T => Cardinality(T) >= k
  <1>1. \A b \in Nat : IsFiniteSet(1 .. b) /\ Cardinality(1 .. b) = b
    <2> SUFFICES ASSUME NEW b \in Nat PROVE IsFiniteSet(1 .. b) /\ Cardinality(1 .. b) = b
      OBVIOUS
    <2>1. IsFiniteSet(1 .. b) /\ Cardinality(1 .. b) = IF 1 > b THEN 0 ELSE b - 1 + 1
      BY FS_Interval
    <2>2. (IF 1 > b THEN 0 ELSE b - 1 + 1) = b OBVIOUS
    <2> QED BY <2>1, <2>2
  <1>2. IsFiniteSet(T) BY <1>1, FS_Subset
  <1>3. Cardinality(T) \in Nat BY <1>2, FS_CardinalityType
  <1>4. k \in Nat /\ IsFiniteSet(1 .. k) /\ Cardinality(1 .. k) = k BY <1>1
  <1>5. ASSUME T \subseteq 1 .. k PROVE Cardinality(T) <= k
    BY <1>4, <1>5, FS_Subset
  <1>6. ASSUME 1 .. k \subseteq T PROVE Cardinality(T) >= k
    <2>1. Cardinality(1 .. k) <= Cardinality(T) BY <1>2, <1>6, FS_Subset
    <2> QED BY <1>3, <1>4, <2>1
  <1> QED BY <1>3, <1>5, <1>6

Permille == 0 .. 1000

RankRight(permille, n) ==
    /\ rank(permille, n) \in 1 .. n
    /\ 1000 * rank(permille, n) >= permille * n
    /\ rank(permille, n) = 1 \/ 1000 * (rank(permille, n) - 1) < permille * n

\* The rank of a percentile is that of a sample, enough of them and not too many.
LEMMA RankLemma ==
  ASSUME NEW n \in Nat \ {0}, NEW permille \in Permille
  PROVE  RankRight(permille, n)
  <1>1. permille * n \in Nat /\ permille * n <= 1000 * n
    <2>1. permille \in Nat /\ 1000 - permille \in Nat /\ n \in Nat BY SMT DEF Permille
    <2>2. (1000 - permille) * n \in Nat /\ permille * n \in Nat BY <2>1
    <2>3. (1000 - permille) * n = 1000 * n - permille * n BY <2>1
    <2> QED BY <2>1, <2>2, <2>3
  <1>2. PICK p \in Nat : p = permille * n /\ p <= 1000 * n BY <1>1
  <1>3. PICK up \in Nat : up = (p + 999) \div 1000 OBVIOUS
  <1>4. 1000 * up <= p + 999 /\ p + 999 < 1000 * up + 1000 BY <1>3
  <1>5. up <= n BY <1>2, <1>4
  <1>6. rank(permille, n) = IF up < 1 THEN 1 ELSE up BY <1>2, <1>3, <1>5 DEF rank
  <1> QED BY <1>2, <1>4, <1>5, <1>6 DEF RankRight

\* Percentiles.
LEMMA PercentileLemma ==
  ASSUME SamplesInv, sorted # <<>>, NEW permille \in Permilles
  PROVE  LET x == nearest_rank(sorted, permille)
         IN  /\ \E i \in DOMAIN sorted : sorted[i] = x
             /\ 1000 * UpTo(x) >= permille * Len(sorted)
             /\ \A i \in DOMAIN sorted :
                    sorted[i] < x => 1000 * UpTo(sorted[i]) < permille * Len(sorted)
  <1>0. Len(sorted) \in Nat \ {0} BY EmptySeq DEF SamplesInv
  <1>1. PICK n \in Nat \ {0} : n = Len(sorted) BY <1>0
  <1>2. DOMAIN sorted = 1 .. n /\ \A i \in 1 .. n : sorted[i] \in Int
    BY <1>1, LenProperties DEF SamplesInv
  <1>3. permille \in 0 .. 1000 BY SampleAssumption
  <1>4. /\ rank(permille, n) \in 1 .. n /\ 1000 * rank(permille, n) >= permille * n
        /\ rank(permille, n) = 1 \/ 1000 * (rank(permille, n) - 1) < permille * n
    <2>1. permille \in Permille BY <1>3 DEF Permille
    <2>2. RankRight(permille, n) BY <2>1, RankLemma, Zenon
    <2> QED BY <2>2 DEF RankRight
  <1>5. PICK r \in 1 .. n : r = rank(permille, n) BY <1>4
  <1>6. nearest_rank(sorted, permille) = sorted[r] BY <1>1, <1>5 DEF nearest_rank
  <1>7. PICK p \in Nat : p = permille * n BY <1>3
  <1>8. 1000 * r >= p /\ (r = 1 \/ 1000 * (r - 1) < p) BY <1>4, <1>5, <1>7
  <1>9. \A i \in 1 .. n : UpTo(sorted[i]) = Cardinality({j \in 1 .. n : sorted[j] <= sorted[i]})
    BY <1>2 DEF UpTo
  <1>10. 1000 * UpTo(sorted[r]) >= p
    <2> DEFINE T == {j \in 1 .. n : sorted[j] <= sorted[r]}
    <2>1. 1 .. r \subseteq T /\ T \in SUBSET (1 .. n) BY <1>2 DEF SamplesInv
    <2>2. UpTo(sorted[r]) = Cardinality(T) BY <1>9
    <2> HIDE DEF T
    <2>3. Cardinality(T) \in Nat /\ Cardinality(T) >= r BY <2>1, CountLemma
    <2> QED BY <1>8, <2>2, <2>3
  <1>11. ASSUME NEW i \in 1 .. n, sorted[i] < sorted[r] PROVE 1000 * UpTo(sorted[i]) < p
    <2> DEFINE T == {j \in 1 .. n : sorted[j] <= sorted[i]}
    <2>1. \A j \in 1 .. n : j \in T => j < r
      <3> SUFFICES ASSUME NEW j \in 1 .. n, j \in T, ~ (j < r) PROVE FALSE
        OBVIOUS
      <3>1. sorted[r] <= sorted[j] BY <1>2 DEF SamplesInv
      <3> QED BY <1>2, <1>11, <3>1
    <2>2. i \in T BY <1>2
    <2>3. UpTo(sorted[i]) = Cardinality(T) BY <1>9
    <2>4. T \in SUBSET (1 .. n) OBVIOUS
    <2> HIDE DEF T
    <2>5. r # 1 BY <2>1, <2>2
    <2>6. T \subseteq 1 .. r - 1 /\ r - 1 \in 0 .. n BY <2>1, <2>4
    <2>7. Cardinality(T) \in Nat /\ Cardinality(T) <= r - 1 BY <2>4, <2>6, CountLemma
    <2> QED BY <1>8, <2>3, <2>5, <2>7
  <1> QED BY <1>1, <1>2, <1>5, <1>6, <1>7, <1>10, <1>11

\* Medians.
LEMMA MedianLemma ==
  ASSUME SamplesInv, sorted # <<>>
  PROVE  LET n       == Len(sorted)
             middle  == median2(sorted)
             negated == [i \in 1 .. n |-> -sorted[n + 1 - i]]
         IN  /\ 2 * Cardinality({i \in DOMAIN sorted : 2 * sorted[i] < middle}) <= n
             /\ 2 * Cardinality({i \in DOMAIN sorted : 2 * sorted[i] > middle}) <= n
             /\ median2(negated) = -middle
  <1>0. Len(sorted) \in Nat \ {0} BY EmptySeq DEF SamplesInv
  <1>1. PICK n \in Nat \ {0} : n = Len(sorted) BY <1>0
  <1>2. DOMAIN sorted = 1 .. n /\ \A i \in 1 .. n : sorted[i] \in Int
    BY <1>1, LenProperties DEF SamplesInv
  <1>3. PICK h \in Nat : h = n \div 2 OBVIOUS
  <1>4. /\ n = 2 * h \/ n = 2 * h + 1
        /\ n % 2 = 1 <=> n = 2 * h + 1
    BY <1>3
  <1>5. /\ n = 2 * h => h \in 1 .. n /\ h + 1 \in 1 .. n
        /\ n = 2 * h + 1 => h + 1 \in 1 .. n
    BY <1>4
  <1> DEFINE middle  == median2(sorted)
             negated == [i \in 1 .. n |-> -sorted[n + 1 - i]]
             low     == {i \in 1 .. n : 2 * sorted[i] < middle}
             high    == {i \in 1 .. n : 2 * sorted[i] > middle}
  <1>6. middle = IF n = 2 * h + 1 THEN 2 * sorted[h + 1] ELSE sorted[h] + sorted[h + 1]
    BY <1>1, <1>3, <1>4 DEF median2
  <1>7. Len(negated) = n OBVIOUS
  <1>8. /\ n = 2 * h + 1 => negated[h + 1] = -sorted[h + 1]
        /\ n = 2 * h => negated[h] = -sorted[h + 1] /\ negated[h + 1] = -sorted[h]
    <2>1. \A i \in 1 .. n : negated[i] = -sorted[n + 1 - i] OBVIOUS
    <2> HIDE DEF negated
    <2>2. n = 2 * h + 1 => n + 1 - (h + 1) = h + 1 BY <1>5
    <2>3. n = 2 * h => n + 1 - h = h + 1 /\ n + 1 - (h + 1) = h BY <1>5
    <2> QED BY <1>5, <2>1, <2>2, <2>3
  <1> HIDE DEF middle, negated
  <1>9. median2(negated) = IF n = 2 * h + 1 THEN 2 * negated[h + 1] ELSE negated[h] + negated[h + 1]
    BY <1>3, <1>4, <1>7 DEF median2
  <1>10. middle \in Int /\ median2(negated) = -middle
    BY <1>2, <1>4, <1>5, <1>6, <1>8, <1>9
  <1>11. \A i, j \in 1 .. n : i <= j => sorted[i] <= sorted[j] BY <1>2 DEF SamplesInv
  <1>12. 2 * Cardinality(low) <= n
    <2>1. ASSUME NEW i \in 1 .. n, 2 * sorted[i] < middle, i > h PROVE FALSE
      <3>1. h + 1 \in 1 .. n /\ h + 1 <= i BY <1>4, <1>5, <2>1
      <3>2. sorted[h + 1] <= sorted[i] BY <1>11, <3>1
      <3>3. n = 2 * h => sorted[h] <= sorted[i] BY <1>5, <1>11, <3>1
      <3> QED BY <1>2, <1>4, <1>5, <1>6, <2>1, <3>1, <3>2, <3>3
    <2>2. low \subseteq 1 .. h /\ low \in SUBSET (1 .. n) BY <2>1
    <2> HIDE DEF low
    <2>3. h \in 0 .. n BY <1>4
    <2>4. Cardinality(low) \in Nat /\ Cardinality(low) <= h BY <2>2, <2>3, CountLemma
    <2> QED BY <1>4, <2>4
  <1>13. 2 * Cardinality(high) <= n
    <2>1. PICK k \in 0 .. n : k = n - h BY <1>4
    <2>2. ASSUME NEW i \in 1 .. k PROVE ~ (2 * sorted[i] > middle)
      <3>1. i \in 1 .. n /\ (n = 2 * h + 1 => i <= h + 1) /\ (n = 2 * h => i <= h)
        BY <1>4, <2>1
      <3>2. n = 2 * h + 1 => sorted[i] <= sorted[h + 1] BY <1>5, <1>11, <3>1
      <3>3. n = 2 * h => sorted[i] <= sorted[h] /\ sorted[i] <= sorted[h + 1]
        BY <1>5, <1>11, <3>1
      <3> QED BY <1>2, <1>4, <1>5, <1>6, <3>1, <3>2, <3>3
    <2>3. high \subseteq k + 1 .. n BY <2>1, <2>2
    <2> HIDE DEF high
    <2>4. PICK a \in Int : a = k + 1 BY <2>1
    <2>5. IsFiniteSet(a .. n) /\ Cardinality(a .. n) = IF a > n THEN 0 ELSE n - a + 1
      BY FS_Interval
    <2>6. (IF a > n THEN 0 ELSE n - a + 1) = h BY <1>4, <2>1, <2>4
    <2>9. IsFiniteSet(a .. n) /\ Cardinality(a .. n) = h BY <2>5, <2>6, Zenon
    <2>10. high \in SUBSET (a .. n) BY <2>3, <2>4
    <2>7. IsFiniteSet(high) /\ Cardinality(high) <= h BY <2>9, <2>10, FS_Subset
    <2>8. Cardinality(high) \in Nat BY <2>7, FS_CardinalityType
    <2> QED BY <1>4, <2>7, <2>8
  <1> QED BY <1>1, <1>2, <1>10, <1>12, <1>13 DEF middle, negated

\* All of it.
LEMMA RanksLemma == SamplesInv => RanksRight
  <1> SUFFICES ASSUME SamplesInv, sorted # <<>> PROVE RanksRight BY DEF RanksRight
  <1> QED BY PercentileLemma, MedianLemma DEF RanksRight

-----------------------------------------------------------------------------
(***************************************************************************)
(* Dates.  A year from March on is number 100 c + 4 q + r of its era, and  *)
(* its months are numbered from 0.                                         *)
(***************************************************************************)

\* Whether February belongs to a leap year.
LeapMarch(c, q, r) == r = 3 /\ (q # 24 \/ c = 3)

\* The days before a month, and in it.
Before(mp) == (153 * mp + 2) \div 5

MonthDays(c, q, r, mp) ==
    IF mp = 11 THEN IF LeapMarch(c, q, r) THEN 29 ELSE 28
    ELSE Before(mp + 1) - Before(mp)

\* The date and the day have these coordinates.
At(era, c, q, r, mp, y, m, d, n) ==
    /\ era \in Nat /\ c \in 0 .. 3 /\ q \in 0 .. 24 /\ r \in 0 .. 3 /\ mp \in 0 .. 11
    /\ d \in Nat /\ n \in Nat
    /\ m = IF mp < 10 THEN mp + 3 ELSE mp - 9
    /\ y = 400 * era + 100 * c + 4 * q + r + (IF mp < 10 THEN 0 ELSE 1)
    /\ 1 <= d /\ d <= MonthDays(c, q, r, mp)
    /\ n + 719468 = 146097 * era + 36524 * c + 1461 * q + 365 * r + Before(mp) + d - 1

Dated(y, m, d, n) == \E era, c, q, r, mp : At(era, c, q, r, mp, y, m, d, n)

DateInv ==
    /\ day \in Nat /\ date \in [y : Nat, m : 1 .. 12, d : 1 .. 31]
    /\ Dated(date.y, date.m, date.d, day)

\* The months of a year.
LEMMA Months ==
  /\ Before(0) = 0 /\ Before(1) = 31 /\ Before(2) = 61 /\ Before(3) = 92 /\ Before(4) = 122
  /\ Before(5) = 153 /\ Before(6) = 184 /\ Before(7) = 214 /\ Before(8) = 245
  /\ Before(9) = 275 /\ Before(10) = 306 /\ Before(11) = 337
  BY DEF Before

\* The leap years of the calendar.
LEMMA LeapYears ==
  ASSUME NEW era \in Nat, NEW c \in 0 .. 3, NEW q \in 0 .. 24, NEW r \in 0 .. 3
  PROVE  Leap(400 * era + 100 * c + 4 * q + r + 1) <=> LeapMarch(c, q, r)
  <1> DEFINE y == 400 * era + 100 * c + 4 * q + r + 1
  <1>1. y % 4 = 0 <=> r = 3 OBVIOUS
  <1>2. r = 3 => (y % 100 = 0 <=> q = 24) OBVIOUS
  <1>3. r = 3 /\ q = 24 => (y % 400 = 0 <=> c = 3) OBVIOUS
  <1> QED BY <1>1, <1>2, <1>3 DEF Leap, LeapMarch

\* The lengths of the months.
LEMMA MonthLengths ==
  ASSUME NEW era, NEW c, NEW q, NEW r, NEW mp, NEW y, NEW m, NEW d, NEW n,
         At(era, c, q, r, mp, y, m, d, n)
  PROVE  DaysIn(y, m) = MonthDays(c, q, r, mp)
  <1>1. era \in Nat /\ c \in 0 .. 3 /\ q \in 0 .. 24 /\ r \in 0 .. 3 /\ mp \in 0 .. 11 BY DEF At
  <1>2. CASE mp = 11
    <2>1. m = 2 /\ y = 400 * era + 100 * c + 4 * q + r + 1 BY <1>2 DEF At
    <2>2. Leap(y) <=> LeapMarch(c, q, r) BY <1>1, <2>1, LeapYears
    <2> QED BY <1>2, <2>1, <2>2 DEF DaysIn, MonthDays
  <1>3. CASE mp # 11
    <2>1. m = IF mp < 10 THEN mp + 3 ELSE mp - 9 BY DEF At
    <2>2. MonthDays(c, q, r, mp) = Before(mp + 1) - Before(mp)
      BY <1>3 DEF MonthDays
    <2> QED BY <1>1, <1>3, <2>1, <2>2, Months DEF DaysIn
  <1> QED BY <1>2, <1>3

\* A day of a year, and of its era.
InEra(c, q, r, doy, doe) ==
    /\ c \in 0 .. 3 /\ q \in 0 .. 24 /\ r \in 0 .. 3 /\ doy \in 0 .. 365 /\ doe \in Nat
    /\ doy = 365 => LeapMarch(c, q, r)
    /\ doe = 36524 * c + 1461 * q + 365 * r + doy

\* Howard Hinnant's division finds the year of a day of the era ...
LEMMA YearLemma ==
  ASSUME NEW c, NEW q, NEW r, NEW doy, NEW doe, InEra(c, q, r, doy, doe)
  PROVE  doe <= 146096 /\ year_of_era(doe) = 100 * c + 4 * q + r
  <1>0. c \in 0 .. 3 /\ q \in 0 .. 24 /\ r \in 0 .. 3 /\ doy \in 0 .. 365 /\ doe \in Nat
    BY DEF InEra
  <1>1. /\ doy = 365 => LeapMarch(c, q, r)
        /\ doe = 36524 * c + 1461 * q + 365 * r + doy
    BY DEF InEra
  <1>2. doe <= 146096 BY <1>0, <1>1 DEF LeapMarch
  <1>3. doe \div 36524 - doe \div 146096 = c
    <2>1. CASE c = 3 /\ doe = 146096 BY <1>0, <2>1
    <2>2. CASE ~ (c = 3 /\ doe = 146096)
      <3>1. 36524 * c <= doe /\ doe < 36524 * c + 36524 /\ doe < 146096
        BY <1>0, <1>1, <1>2, <2>2 DEF LeapMarch
      <3> QED BY <1>0, <1>2, <3>1
    <2> QED BY <2>1, <2>2
  <1>4. PICK k \in Nat : k = doe \div 1460 BY <1>0
  <1>5. 1460 * k <= doe /\ doe < 1460 * k + 1460 BY <1>0, <1>4
  <1>6. PICK w \in Nat : w = doe - k + c /\ year_of_era(doe) = w \div 365
    BY <1>0, <1>3, <1>4, <1>5 DEF year_of_era
  <1>7. PICK g \in Nat : g = 100 * c + 4 * q + r BY <1>0
  <1>8. 365 * g <= w /\ w < 365 * g + 365 BY <1>0, <1>1, <1>5, <1>6, <1>7 DEF LeapMarch
  <1>9. w \div 365 = g BY <1>8
  <1>10. year_of_era(doe) = w \div 365 BY <1>6
  <1>11. year_of_era(doe) = g BY <1>9, <1>10
  <1> QED BY <1>2, <1>7, <1>11

\* A quotient between its bounds.
LEMMA MonthSum ==
  ASSUME NEW mp \in 0 .. 11, NEW b \in Nat, NEW doy \in Nat,
         153 * mp + 2 < 5 * b + 5, b <= doy, 5 * doy <= 153 * mp + 150
  PROVE  (5 * doy + 2) \div 153 = mp
  <1>1. PICK x \in Nat : x = 5 * doy + 2 OBVIOUS
  <1>2. 153 * mp <= x /\ x < 153 * mp + 153 BY <1>1
  <1>3. x \div 153 = mp BY <1>2
  <1> QED BY <1>1, <1>3

\* ... and the month of a day of the year.
LEMMA MonthLemma ==
  ASSUME NEW mp \in 0 .. 11, NEW d \in Nat \ {0},
         IF mp = 11 THEN d <= 29 ELSE d <= Before(mp + 1) - Before(mp),
         NEW doy \in Nat, doy = Before(mp) + d - 1
  PROVE  (5 * doy + 2) \div 153 = mp
  <1>1. PICK b \in Nat : b = Before(mp) BY DEF Before
  <1>2. 5 * b <= 153 * mp + 2 /\ 153 * mp + 2 < 5 * b + 5 BY <1>1 DEF Before
  <1>3. doy <= (153 * mp + 150) \div 5
    <2>1. CASE mp = 11 BY <1>1, <2>1, Months
    <2>2. CASE mp # 11
      <3>1. PICK e \in Nat : e = Before(mp + 1) BY DEF Before
      <3>2. 5 * e <= 153 * mp + 155 BY <3>1 DEF Before
      <3>3. doy <= e - 1 BY <1>1, <2>2, <3>1
      <3> QED BY <3>2, <3>3
    <2> QED BY <2>1, <2>2
  <1>4. 5 * doy <= 153 * mp + 150 BY <1>3
  <1>5. b <= doy BY <1>1
  <1> QED BY <1>2, <1>4, <1>5, MonthSum

\* The algorithm of utc_string inverts the count of the days.
LEMMA CivilLemma ==
  ASSUME NEW era, NEW c, NEW q, NEW r, NEW mp, NEW y, NEW m, NEW d, NEW n,
         At(era, c, q, r, mp, y, m, d, n)
  PROVE  civil(n) = [y |-> y, m |-> m, d |-> d]
  <1>1. /\ era \in Nat /\ c \in 0 .. 3 /\ q \in 0 .. 24 /\ r \in 0 .. 3 /\ mp \in 0 .. 11
        /\ d \in Nat \ {0} /\ n \in Nat /\ m \in 1 .. 12
    BY DEF At
  <1>3. /\ m = IF mp < 10 THEN mp + 3 ELSE mp - 9
        /\ y = 400 * era + 100 * c + 4 * q + r + (IF mp < 10 THEN 0 ELSE 1)
        /\ 1 <= d /\ d <= MonthDays(c, q, r, mp)
        /\ n + 719468 = 146097 * era + 36524 * c + 1461 * q + 365 * r + Before(mp) + d - 1
    BY DEF At
  <1>4. Before(mp) \in Nat BY <1>1 DEF Before
  <1>5. PICK doy \in Nat : doy = Before(mp) + d - 1 BY <1>1, <1>3, <1>4
  <1>6. IF mp = 11 THEN d <= 29 ELSE d <= Before(mp + 1) - Before(mp)
    BY <1>1, <1>3 DEF MonthDays
  <1>7. (5 * doy + 2) \div 153 = mp
    <2>1. d \in Nat \ {0} BY <1>1
    <2> QED BY <1>1, <1>5, <1>6, <2>1, MonthLemma
  <1>8. doy \in 0 .. 365 /\ (doy = 365 => LeapMarch(c, q, r))
    <2>1. CASE mp = 11 BY <1>1, <1>3, <1>5, <2>1, Months DEF MonthDays
    <2>2. CASE mp # 11
      <3>1. Before(mp + 1) <= 337 BY <1>1, <2>2, Months
      <3> QED BY <1>1, <1>4, <1>5, <1>6, <2>2, <3>1 DEF Before
    <2> QED BY <1>1, <2>1, <2>2
  <1>9. PICK doe \in Nat : doe = 36524 * c + 1461 * q + 365 * r + doy BY <1>1, <1>8
  <1>19. doe <= 146096 /\ year_of_era(doe) = 100 * c + 4 * q + r
    <2>1. InEra(c, q, r, doy, doe) BY <1>1, <1>8, <1>9 DEF InEra
    <2> QED BY <1>1, <1>8, <2>1, YearLemma
  <1>10. n + 719468 = 146097 * era + doe BY <1>1, <1>3, <1>4, <1>5, <1>9
  <1>11. (n + 719468) \div 146097 = era
    <2>1. PICK z \in Nat : z = n + 719468 BY <1>1
    <2>2. 146097 * era <= z /\ z < 146097 * era + 146097 BY <1>1, <1>10, <1>19, <2>1
    <2>3. z \div 146097 = era BY <1>1, <2>2
    <2> QED BY <1>1, <2>1, <2>3
  <1>20. n + 719468 - era * 146097 = doe
    <2>1. PICK z \in Nat : z = n + 719468 BY <1>1
    <2>2. z = 146097 * era + doe BY <1>1, <1>10, <2>1
    <2>3. z - era * 146097 = doe BY <1>1, <2>2
    <2> QED BY <1>1, <2>1, <2>3
  <1>12. PICK yoe \in Nat : yoe = 100 * c + 4 * q + r BY <1>1
  <1>13. yoe \div 4 = 25 * c + q /\ yoe \div 100 = c BY <1>1, <1>12
  <1>14. doe - (365 * yoe + yoe \div 4 - yoe \div 100) = doy
    <2>1. PICK u \in Nat, w \in Nat : u = yoe \div 4 /\ w = yoe \div 100 OBVIOUS
    <2>2. doe - (365 * yoe + u - w) = doy BY <1>1, <1>9, <1>12, <1>13, <2>1
    <2> QED BY <1>1, <2>1, <2>2
  <1>15. m <= 2 <=> mp >= 10 BY <1>1, <1>3
  <1>16. yoe + era * 400 + (IF m <= 2 THEN 1 ELSE 0) = y BY <1>1, <1>3, <1>12, <1>15
  <1>17. doy - (153 * mp + 2) \div 5 + 1 = d BY <1>1, <1>4, <1>5 DEF Before
  <1>18. year_of_era(doe) = yoe BY <1>1, <1>19, <1>12
  <1> DEFINE z0 == n + 719468
             e0 == z0 \div 146097
             o0 == z0 - e0 * 146097
             w0 == year_of_era(o0)
             u0 == o0 - (365 * w0 + w0 \div 4 - w0 \div 100)
             p0 == (5 * u0 + 2) \div 153
             m0 == IF p0 < 10 THEN p0 + 3 ELSE p0 - 9
  <1>21. civil(n) = [y |-> w0 + e0 * 400 + (IF m0 <= 2 THEN 1 ELSE 0),
                     m |-> m0,
                     d |-> u0 - (153 * p0 + 2) \div 5 + 1]
    BY DEF civil
  <1>22. e0 = era BY <1>11
  <1> HIDE DEF e0
  <1>23. o0 = doe BY <1>1, <1>20, <1>22
  <1> HIDE DEF o0
  <1>24. w0 = yoe BY <1>1, <1>18, <1>23
  <1> HIDE DEF w0
  <1>25. u0 = doy BY <1>1, <1>14, <1>23, <1>24
  <1> HIDE DEF u0
  <1>26. p0 = mp BY <1>1, <1>7, <1>25
  <1> HIDE DEF p0
  <1>27. m0 = m BY <1>1, <1>3, <1>26
  <1> HIDE DEF m0
  <1> QED BY <1>1, <1>16, <1>17, <1>21, <1>22, <1>24, <1>25, <1>26, <1>27

\* A month starts on this day.
Starts(era, c, q, r, mp, y, m, n) ==
    /\ era \in Nat /\ c \in 0 .. 3 /\ q \in 0 .. 24 /\ r \in 0 .. 3 /\ mp \in 0 .. 11
    /\ n \in Nat
    /\ m = IF mp < 10 THEN mp + 3 ELSE mp - 9
    /\ y = 400 * era + 100 * c + 4 * q + r + (IF mp < 10 THEN 0 ELSE 1)
    /\ n + 719468 = 146097 * era + 36524 * c + 1461 * q + 365 * r + Before(mp)

\* The first day of a month has coordinates where the months before it end.
LEMMA FirstOfMonth ==
  ASSUME NEW era, NEW c, NEW q, NEW r, NEW mp, NEW y, NEW m, NEW n,
         Starts(era, c, q, r, mp, y, m, n)
  PROVE  Dated(y, m, 1, n)
  <1>1. era \in Nat /\ c \in 0 .. 3 /\ q \in 0 .. 24 /\ r \in 0 .. 3 /\ mp \in 0 .. 11
    BY DEF Starts
  <1>2. 1 <= MonthDays(c, q, r, mp) BY <1>1, Months DEF MonthDays
  <1>3. PICK b \in Nat : b = Before(mp) BY <1>1 DEF Before
  <1>4. n + 719468 = 146097 * era + 36524 * c + 1461 * q + 365 * r + b + 1 - 1
    BY <1>1, <1>3 DEF Starts
  <1>5. At(era, c, q, r, mp, y, m, 1, n) BY <1>1, <1>2, <1>3, <1>4 DEF At, Starts
  <1> QED BY <1>5 DEF Dated

\* The day after has coordinates too.
LEMMA NextDay ==
  ASSUME NEW y \in Nat, NEW m \in 1 .. 12, NEW d \in 1 .. 31, NEW n \in Nat, Dated(y, m, d, n)
  PROVE  /\ d # DaysIn(y, m) => Dated(y, m, d + 1, n + 1) /\ d + 1 \in 1 .. 31
         /\ d = DaysIn(y, m) /\ m < 12 => Dated(y, m + 1, 1, n + 1)
         /\ d = DaysIn(y, m) /\ m = 12 => Dated(y + 1, 1, 1, n + 1)
  <1>1. PICK era, c, q, r, mp : At(era, c, q, r, mp, y, m, d, n) BY DEF Dated
  <1>10. era \in Nat /\ c \in 0 .. 3 /\ q \in 0 .. 24 /\ r \in 0 .. 3 /\ mp \in 0 .. 11
    BY <1>1 DEF At
  <1>2. DaysIn(y, m) = MonthDays(c, q, r, mp) BY <1>1, MonthLengths
  <1>3. DaysIn(y, m) \in 28 .. 31 BY DEF DaysIn
  <1>4. /\ m = IF mp < 10 THEN mp + 3 ELSE mp - 9
        /\ y = 400 * era + 100 * c + 4 * q + r + (IF mp < 10 THEN 0 ELSE 1)
        /\ 1 <= d /\ d <= MonthDays(c, q, r, mp)
        /\ n + 719468 = 146097 * era + 36524 * c + 1461 * q + 365 * r + Before(mp) + d - 1
    BY <1>1 DEF At
  <1>5. PICK b \in Nat : b = Before(mp) BY <1>10 DEF Before
  <1>6. PICK x \in Nat : x = 146097 * era + 36524 * c + 1461 * q + 365 * r BY <1>10
  <1>7. n + 719468 = x + b + d - 1 BY <1>4, <1>5, <1>6, <1>10
  <1>8. ASSUME d # DaysIn(y, m) PROVE Dated(y, m, d + 1, n + 1) /\ d + 1 \in 1 .. 31
    <2>1. 1 <= d + 1 /\ d + 1 <= MonthDays(c, q, r, mp) /\ d + 1 \in 1 .. 31
      BY <1>2, <1>3, <1>4, <1>8
    <2>2. n + 1 + 719468 = x + b + (d + 1) - 1 BY <1>7
    <2>3. At(era, c, q, r, mp, y, m, d + 1, n + 1) BY <1>4, <1>5, <1>6, <1>10, <2>1, <2>2 DEF At
    <2> QED BY <2>1, <2>3 DEF Dated
  <1>11. ASSUME d = DaysIn(y, m), mp # 11
         PROVE  /\ m < 12 => Dated(y, m + 1, 1, n + 1)
                /\ m = 12 => Dated(y + 1, 1, 1, n + 1)
    <2>1. mp + 1 \in 0 .. 11 /\ d = Before(mp + 1) - b
      BY <1>2, <1>5, <1>10, <1>11 DEF MonthDays
    <2>2. PICK b2 \in Nat : b2 = Before(mp + 1) BY <2>1 DEF Before
    <2>3. n + 1 + 719468 = 146097 * era + 36524 * c + 1461 * q + 365 * r + b2
      BY <1>6, <1>7, <1>10, <2>1, <2>2
    <2>4. m < 12 => /\ m + 1 = IF mp + 1 < 10 THEN mp + 1 + 3 ELSE mp + 1 - 9
                    /\ y = 400 * era + 100 * c + 4 * q + r + (IF mp + 1 < 10 THEN 0 ELSE 1)
      BY <1>4, <1>10, <1>11
    <2>5. m = 12 => /\ 1 = IF mp + 1 < 10 THEN mp + 1 + 3 ELSE mp + 1 - 9
                    /\ y + 1 = 400 * era + 100 * c + 4 * q + r + (IF mp + 1 < 10 THEN 0 ELSE 1)
      BY <1>4, <1>10, <1>11
    <2>6. ASSUME m < 12 PROVE Dated(y, m + 1, 1, n + 1)
      <3>1. Starts(era, c, q, r, mp + 1, y, m + 1, n + 1)
        BY <1>10, <2>1, <2>2, <2>3, <2>4, <2>6 DEF Starts
      <3> QED BY <3>1, FirstOfMonth
    <2>7. ASSUME m = 12 PROVE Dated(y + 1, 1, 1, n + 1)
      <3>1. Starts(era, c, q, r, mp + 1, y + 1, 1, n + 1)
        BY <1>10, <2>1, <2>2, <2>3, <2>5, <2>7 DEF Starts
      <3> QED BY <3>1, FirstOfMonth
    <2> QED BY <2>6, <2>7
  <1>12. ASSUME d = DaysIn(y, m), mp = 11
         PROVE  /\ m < 12 => Dated(y, m + 1, 1, n + 1)
                /\ m = 12 => Dated(y + 1, 1, 1, n + 1)
    <2>1. m = 2 /\ y = 400 * era + 100 * c + 4 * q + r + 1 BY <1>4, <1>12
    <2>2. b = 337 BY <1>5, <1>12, Months
    <2>3. d = IF LeapMarch(c, q, r) THEN 29 ELSE 28 BY <1>2, <1>12 DEF MonthDays
    <2>4. Before(0) = 0 BY Months
    <2>5. Dated(y, 3, 1, n + 1)
      <3>1. CASE r # 3
        <4>1. d = 28 /\ r + 1 \in 0 .. 3 BY <1>10, <2>3, <3>1 DEF LeapMarch
        <4>2. n + 1 + 719468 = x + 365 BY <1>7, <2>2, <4>1
        <4>3. Starts(era, c, q, r + 1, 0, y, 3, n + 1)
          BY <1>6, <1>10, <2>1, <2>4, <4>1, <4>2 DEF Starts
        <4> QED BY <4>3, FirstOfMonth
      <3>2. CASE r = 3 /\ q # 24
        <4>1. d = 29 /\ q + 1 \in 0 .. 24 BY <1>10, <2>3, <3>2 DEF LeapMarch
        <4>2. n + 1 + 719468 = x + 366 BY <1>7, <2>2, <4>1
        <4>3. Starts(era, c, q + 1, 0, 0, y, 3, n + 1)
          BY <1>6, <1>10, <2>1, <2>4, <3>2, <4>1, <4>2 DEF Starts
        <4> QED BY <4>3, FirstOfMonth
      <3>3. CASE r = 3 /\ q = 24 /\ c # 3
        <4>1. d = 28 /\ c + 1 \in 0 .. 3 BY <1>10, <2>3, <3>3 DEF LeapMarch
        <4>2. n + 1 + 719468 = x + 365 BY <1>7, <2>2, <4>1
        <4>3. Starts(era, c + 1, 0, 0, 0, y, 3, n + 1)
          BY <1>6, <1>10, <2>1, <2>4, <3>3, <4>1, <4>2 DEF Starts
        <4> QED BY <4>3, FirstOfMonth
      <3>4. CASE r = 3 /\ q = 24 /\ c = 3
        <4>1. d = 29 /\ era + 1 \in Nat BY <1>10, <2>3, <3>4 DEF LeapMarch
        <4>2. n + 1 + 719468 = x + 366 BY <1>7, <2>2, <4>1
        <4>3. Starts(era + 1, 0, 0, 0, 0, y, 3, n + 1)
          BY <1>6, <1>10, <2>1, <2>4, <3>4, <4>1, <4>2 DEF Starts
        <4> QED BY <4>3, FirstOfMonth
      <3> QED BY <3>1, <3>2, <3>3, <3>4
    <2> QED BY <2>1, <2>5
  <1> QED BY <1>8, <1>11, <1>12

-----------------------------------------------------------------------------
(***************************************************************************)
(* Samples and dates that the behaviors reach.                             *)
(***************************************************************************)

\* The first day of Unix time is the first of January 1970.
LEMMA FirstDay == Dated(1970, 1, 1, 0)
  <1>1. 1970 = 400 * 4 + 100 * 3 + 4 * 17 + 1 + 1 /\ 1 = 10 - 9 OBVIOUS
  <1>2. Before(10) = 306 BY Months
  <1>3. Starts(4, 3, 17, 1, 10, 1970, 1, 0) BY <1>1, <1>2 DEF Starts
  <1> QED BY <1>3, FirstOfMonth

\* Every state has samples in order, and a date that the calendar gives its day.
LEMMA CountedInv == Spec => [](SamplesInv /\ DateInv)
  <1>1. Init => SamplesInv /\ DateInv
    <2> SUFFICES ASSUME Init PROVE SamplesInv /\ DateInv OBVIOUS
    <2>1. SamplesInv BY DEF Init, SamplesInv
    <2>2. date = [y |-> 1970, m |-> 1, d |-> 1] /\ day = 0 BY DEF Init
    <2> QED BY <2>1, <2>2, FirstDay DEF DateInv
  <1>2. SamplesInv /\ DateInv /\ [Next]_vars => (SamplesInv /\ DateInv)'
    <2> SUFFICES ASSUME SamplesInv, DateInv, [Next]_vars PROVE SamplesInv' /\ DateInv'
      OBVIOUS
    <2>1. ASSUME UNCHANGED <<sorted, day, date>> PROVE SamplesInv' /\ DateInv'
      BY <2>1 DEF SamplesInv, DateInv
    <2>2. CASE Enclose \/ Nest BY <2>1, <2>2 DEF Enclose, Nest
    <2>3. ASSUME NEW leaf \in Leaves, Join(leaf) PROVE SamplesInv' /\ DateInv'
      BY <2>1, <2>3 DEF Join
    <2>4. ASSUME NEW piece \in Pieces, Add(piece) PROVE SamplesInv' /\ DateInv'
      BY <2>1, <2>4 DEF Add
    <2>5. ASSUME NEW x \in Samples, Measure(x) PROVE SamplesInv' /\ DateInv'
      <3>1. DateInv' BY <2>5 DEF Measure, DateInv
      <3>2. x \in Int /\ sorted' = Append(sorted, x) /\ (sorted # <<>> => sorted[Len(sorted)] <= x)
        BY <2>5, SampleAssumption DEF Measure
      <3>3. Len(sorted) \in Nat BY DEF SamplesInv
      <3>4. PICK n \in Nat : n = Len(sorted) BY <3>3
      <3>5. /\ sorted' \in Seq(Int) /\ Len(sorted') = n + 1 /\ sorted'[n + 1] = x
            /\ \A i \in 1 .. n : sorted'[i] = sorted[i] /\ sorted[i] \in Int
        BY <3>2, <3>4, AppendProperties DEF SamplesInv
      <3>6. DOMAIN sorted = 1 .. n /\ DOMAIN sorted' = 1 .. n + 1 BY <3>4, <3>5 DEF SamplesInv
      <3>7. \A i \in 1 .. n : sorted[i] <= x
        <4> SUFFICES ASSUME NEW i \in 1 .. n PROVE sorted[i] <= x OBVIOUS
        <4>1. n \in 1 .. n /\ sorted # <<>> BY <3>4, EmptySeq
        <4>2. sorted[i] <= sorted[n] /\ sorted[n] <= x BY <3>2, <3>4, <3>6, <4>1 DEF SamplesInv
        <4> QED BY <3>2, <3>5, <4>1, <4>2
      <3>8. \A i, j \in 1 .. n + 1 : i <= j => sorted'[i] <= sorted'[j]
        <4> SUFFICES ASSUME NEW i \in 1 .. n + 1, NEW j \in 1 .. n + 1, i <= j
                     PROVE  sorted'[i] <= sorted'[j]
          OBVIOUS
        <4>1. CASE j = n + 1 /\ i = n + 1 BY <3>2, <3>5, <4>1
        <4>2. CASE j = n + 1 /\ i # n + 1
          <5>1. i \in 1 .. n BY <4>2
          <5> QED BY <3>5, <3>7, <4>2, <5>1
        <4>3. CASE j # n + 1
          <5>1. i \in 1 .. n /\ j \in 1 .. n BY <4>3
          <5>2. sorted[i] <= sorted[j] BY <3>6, <5>1 DEF SamplesInv
          <5> QED BY <3>5, <5>1, <5>2
        <4> QED BY <4>1, <4>2, <4>3
      <3> QED BY <3>1, <3>5, <3>6, <3>8 DEF SamplesInv
    <2>6. CASE Tomorrow
      <3>1. SamplesInv' BY <2>6 DEF Tomorrow, SamplesInv
      <3>2. PICK y \in Nat, m \in 1 .. 12, d \in 1 .. 31 :
                y = date.y /\ m = date.m /\ d = date.d /\ date = [y |-> y, m |-> m, d |-> d]
        BY DEF DateInv
      <3>3. PICK n \in Nat : n = day BY DEF DateInv
      <3>4. Dated(y, m, d, n) BY <3>2, <3>3 DEF DateInv
      <3>5. /\ d # DaysIn(y, m) => Dated(y, m, d + 1, n + 1) /\ d + 1 \in 1 .. 31
            /\ d = DaysIn(y, m) /\ m < 12 => Dated(y, m + 1, 1, n + 1)
            /\ d = DaysIn(y, m) /\ m = 12 => Dated(y + 1, 1, 1, n + 1)
        BY <3>4, NextDay
      <3>6. day' = n + 1 /\ n + 1 \in Nat BY <2>6, <3>3 DEF Tomorrow
      <3>7. CASE d # DaysIn(y, m)
        <4>1. date' = [y |-> y, m |-> m, d |-> d + 1] BY <2>6, <3>2, <3>7 DEF Tomorrow
        <4> QED BY <3>1, <3>5, <3>6, <3>7, <4>1 DEF DateInv
      <3>8. CASE d = DaysIn(y, m) /\ m < 12
        <4>3. date' = [date EXCEPT !.m = @ + 1, !.d = 1] BY <2>6, <3>2, <3>8 DEF Tomorrow
        <4>1. date' = [y |-> y, m |-> m + 1, d |-> 1] BY <3>2, <4>3
        <4>2. m + 1 \in 1 .. 12 /\ 1 \in 1 .. 31 BY <3>8
        <4> QED BY <3>1, <3>5, <3>6, <3>8, <4>1, <4>2 DEF DateInv
      <3>9. CASE d = DaysIn(y, m) /\ m = 12
        <4>1. date' = [y |-> y + 1, m |-> 1, d |-> 1] BY <2>6, <3>2, <3>9 DEF Tomorrow
        <4>2. y + 1 \in Nat /\ 1 \in 1 .. 12 /\ 1 \in 1 .. 31 OBVIOUS
        <4> QED BY <3>1, <3>5, <3>6, <3>9, <4>1, <4>2 DEF DateInv
      <3>10. m < 12 \/ m = 12 OBVIOUS
      <3> QED BY <3>7, <3>8, <3>9, <3>10
    <2>7. CASE UNCHANGED vars BY <2>1, <2>7 DEF vars
    <2> QED BY <2>2, <2>3, <2>4, <2>5, <2>6, <2>7 DEF Next
  <1> QED BY <1>1, <1>2, PTL DEF Spec

\* For every samples and percentiles, a percentile is the least sample that enough
\* of the samples do not exceed, and the median halves them (nearest_rank and
\* median, stats.rs).
THEOREM PercentilesCorrect == Spec => []RanksRight
  <1>1. SamplesInv => RanksRight BY RanksLemma
  <1> QED BY <1>1, CountedInv, PTL

\* Every day from 1970 on, with no last year, has the date of the calendar
\* (utc_string, report.rs).
THEOREM DatesCorrect == Spec => []DateRight
  <1>1. DateInv => DateRight
    <2> SUFFICES ASSUME DateInv PROVE civil(day) = date BY DEF DateRight
    <2>1. PICK y \in Nat, m \in 1 .. 12, d \in 1 .. 31 :
              y = date.y /\ m = date.m /\ d = date.d /\ date = [y |-> y, m |-> m, d |-> d]
      BY DEF DateInv
    <2>2. PICK n \in Nat : n = day BY DEF DateInv
    <2>3. Dated(y, m, d, n) BY <2>1, <2>2 DEF DateInv
    <2>4. PICK era, c, q, r, mp : At(era, c, q, r, mp, y, m, d, n) BY <2>3 DEF Dated
    <2>5. civil(n) = [y |-> y, m |-> m, d |-> d] BY <2>4, CivilLemma
    <2> QED BY <2>1, <2>2, <2>5
  <1> QED BY <1>1, CountedInv, PTL

-----------------------------------------------------------------------------
(***************************************************************************)
(* Numbers and bytes.                                                      *)
(***************************************************************************)

\* A byte more of a number.
LEMMA DigitTyped ==
  ASSUME NEW x \in Nat, NEW b \in Nat
  PROVE  x * Base + b \in Nat
  <1>1. x * Base \in Nat BY BaseAssumption
  <1>2. PICK p \in Nat : p = x * Base BY <1>1
  <1>3. p + b \in Nat OBVIOUS
  <1> QED BY <1>2, <1>3, Zenon

\* Bytes spell a number.
LEMMA BigEndianTyped ==
  ASSUME NEW bytes \in Seq(Nat)
  PROVE  BigEndian(bytes) \in Nat
  <1>1. PICK k \in Nat : k = Len(bytes) OBVIOUS
  <1>2. \A i \in 1 .. k : bytes[i] \in Nat BY <1>1
  <1> DEFINE step == [i \in 1 .. k |-> [x \in Nat |-> x * Base + bytes[i]]]
  <1>3. step \in [1 .. k -> [Nat -> Nat]] BY <1>2, DigitTyped
  <1>4. PICK f \in [0 .. k -> Nat] :
            \A i \in 0 .. k : f[i] = IF i = 0 THEN 0 ELSE step[i][f[i - 1]]
    <2> DEFINE X == Nat
               start == 0
    <2>1. UpwardStep(k, X, start, step) BY <1>3 DEF UpwardStep
    <2> HIDE DEF step, X, start
    <2>2. PICK f : UpwardFunction(f, k, X, start, step) BY <2>1, Upward
    <2> QED BY <2>2 DEF X, start, UpwardFunction
  <1>5. \A i \in 0 .. k : f[i] = IF i = 0 THEN 0 ELSE f[i - 1] * Base + bytes[i]
    <2> SUFFICES ASSUME NEW i \in 0 .. k, i # 0 PROVE f[i] = f[i - 1] * Base + bytes[i]
      BY <1>4
    <2>1. i \in 1 .. k /\ i - 1 \in 0 .. k OBVIOUS
    <2>2. f[i - 1] \in Nat BY <2>1
    <2> QED BY <1>4, <2>1, <2>2
  <1> HIDE DEF step
  <1> DEFINE n == CHOOSE n : n = [i \in 0 .. Len(bytes) |->
                                     IF i = 0 THEN 0 ELSE n[i - 1] * Base + bytes[i]]
  <1>6. f = [i \in 0 .. Len(bytes) |-> IF i = 0 THEN 0 ELSE f[i - 1] * Base + bytes[i]]
    BY <1>1, <1>5
  <1>7. n = [i \in 0 .. Len(bytes) |-> IF i = 0 THEN 0 ELSE n[i - 1] * Base + bytes[i]]
    BY <1>6
  <1>8. BigEndian(bytes) = n[Len(bytes)] BY Zenon DEF BigEndian
  <1> HIDE DEF n
  <1>9. n[0] \in Nat BY <1>1, <1>7
  <1>10. ASSUME NEW i \in 1 .. k, n[i - 1] \in Nat PROVE n[i] \in Nat
    <2>1. n[i] = n[i - 1] * Base + bytes[i] BY <1>1, <1>7
    <2> QED BY <1>2, <1>10, <2>1, DigitTyped
  <1>11. n[k] \in Nat
    <2> DEFINE X == Nat
    <2>1. n[0] \in X /\ \A i \in 1 .. k : n[i - 1] \in X => n[i] \in X BY <1>9, <1>10
    <2> HIDE DEF X
    <2>2. \A i \in 0 .. k : n[i] \in X BY <2>1, Rising
    <2> QED BY <2>2 DEF X
  <1> QED BY <1>1, <1>8, <1>11

\* A number is spelt in bytes.
LEMMA SpellTyped ==
  ASSUME NEW n \in Nat, NEW size \in Nat
  PROVE  /\ Spell(n, size) \in Seq(Byte) /\ Len(Spell(n, size)) = size
         /\ Spell(n, size) \in Seq(Nat)
  <1>1. \A x \in Nat : x \div Base \in Nat /\ x % Base \in Byte
    <2> SUFFICES ASSUME NEW x \in Nat PROVE x \div Base \in Nat /\ x % Base \in Byte
      OBVIOUS
    <2>1. Base \in Nat /\ Base > 0 BY BaseAssumption
    <2>2. x % Base \in 0 .. Base - 1 BY <2>1
    <2>3. x \div Base \in Nat BY <2>1
    <2> QED BY <2>2, <2>3 DEF Byte
  <1> DEFINE step == [i \in 1 .. size |-> [x \in Nat |-> x \div Base]]
  <1>2. PICK f : /\ f \in [0 .. size -> Nat]
                 /\ \A i \in 0 .. size : f[i] = IF i = 0 THEN n ELSE f[i - 1] \div Base
    <2> DEFINE X == Nat
    <2>1. UpwardStep(size, X, n, step) BY <1>1 DEF UpwardStep
    <2>2. \A i \in 1 .. size : \A x \in Nat : step[i][x] = x \div Base OBVIOUS
    <2> HIDE DEF step, X
    <2>3. PICK f : UpwardFunction(f, size, X, n, step) BY <2>1, Upward
    <2>4. f \in [0 .. size -> Nat] BY <2>3 DEF X, UpwardFunction
    <2>5. ASSUME NEW i \in 0 .. size, i # 0 PROVE f[i] = f[i - 1] \div Base
      <3>1. i \in 1 .. size /\ i - 1 \in 0 .. size BY <2>5
      <3>2. f[i] = step[i][f[i - 1]] BY <2>3, <2>5 DEF UpwardFunction
      <3>3. PICK x \in Nat : x = f[i - 1] BY <2>4, <3>1
      <3>4. step[i][x] = x \div Base BY <2>2, <3>1
      <3> QED BY <3>2, <3>3, <3>4, Zenon
    <2>6. f[0] = n BY <2>3 DEF UpwardFunction
    <2> QED BY <2>4, <2>5, <2>6
  <1> HIDE DEF step
  <1> DEFINE rest == CHOOSE rest : rest = [i \in 0 .. size |->
                                              IF i = 0 THEN n ELSE rest[i - 1] \div Base]
  <1>3. f = [i \in 0 .. size |-> IF i = 0 THEN n ELSE f[i - 1] \div Base] BY <1>2
  <1>4. rest = [i \in 0 .. size |-> IF i = 0 THEN n ELSE rest[i - 1] \div Base] BY <1>3
  <1>5. Spell(n, size) = [i \in 1 .. size |-> rest[size - i] % Base] BY Zenon DEF Spell
  <1> HIDE DEF rest
  <1>6. \A i \in 0 .. size : rest[i] \in Nat
    <2> DEFINE X == Nat
    <2>1. rest[0] \in X BY <1>4
    <2>2. ASSUME NEW i \in 1 .. size, rest[i - 1] \in X PROVE rest[i] \in X
      <3>1. rest[i] = rest[i - 1] \div Base BY <1>4
      <3> QED BY <1>1, <2>2, <3>1
    <2> HIDE DEF X
    <2>3. \A i \in 0 .. size : rest[i] \in X BY <2>1, <2>2, Rising
    <2> QED BY <2>3 DEF X
  <1>7. \A i \in 1 .. size : rest[size - i] % Base \in Byte
    <2> SUFFICES ASSUME NEW i \in 1 .. size PROVE rest[size - i] % Base \in Byte OBVIOUS
    <2>1. size - i \in 0 .. size OBVIOUS
    <2> QED BY <1>1, <1>6, <2>1
  <1>8. PICK b \in [1 .. size -> Byte] : b = Spell(n, size) BY <1>5, <1>7
  <1>9. b \in Seq(Byte) /\ Len(b) = size BY <1>8
  <1>10. Byte \subseteq Nat BY BaseAssumption DEF Byte
  <1> QED BY <1>8, <1>9, <1>10, SeqMonotonic

-----------------------------------------------------------------------------
(***************************************************************************)
(* The walk over the entries of a batch.                                   *)
(***************************************************************************)

TxLists == Seq(Seq(Nat))

Walks == [Seq(Nat) -> TxLists]

\* A part of a sequence of numbers.
LEMMA PartTyped ==
  ASSUME NEW l \in Seq(Nat), NEW a \in Nat, NEW b \in Nat, b <= Len(l)
  PROVE  SubSeq(l, a + 1, b) \in Seq(Nat)
  <1>1. \A i \in a + 1 .. b : l[i] \in Nat OBVIOUS
  <1>2. PICK m \in Int : m = a + 1 OBVIOUS
  <1>3. \A i \in m .. b : l[i] \in Nat BY <1>1, <1>2
  <1>4. b \in Int OBVIOUS
  <1>5. SubSeq(l, m, b) \in Seq(Nat) BY <1>3, <1>4, SubSeqProperties
  <1> QED BY <1>2, <1>5

\* The entry after a position: its size, its end, and whether it is read.
SizeAt(l, pos) == BigEndian(SubSeq(l, pos + 1, pos + LenSize))

EndAt(l, pos) == pos + LenSize + SizeAt(l, pos)

ReadAt(l, pos) == pos + LenSize <= Len(l) /\ whole(l, pos + LenSize, SizeAt(l, pos))

\* An entry that is read ends behind its position and within the message.
LEMMA ReadLemma ==
  ASSUME NEW l \in Seq(Nat), NEW pos \in Nat, ReadAt(l, pos)
  PROVE  /\ SizeAt(l, pos) \in Nat /\ EndAt(l, pos) \in pos + 1 .. Len(l)
         /\ EndAt(l, pos) \in Nat /\ EndAt(l, pos) <= Len(l)
         /\ SubSeq(l, pos + LenSize + 1, EndAt(l, pos)) \in Seq(Nat)
  <1>1. LenSize \in Nat \ {0} BY EntryAssumption
  <1>2. PICK at \in Nat : at = pos + LenSize BY <1>1
  <1>3. at <= Len(l) BY <1>2 DEF ReadAt
  <1>4. SubSeq(l, pos + 1, at) \in Seq(Nat) BY <1>3, PartTyped
  <1>5. SizeAt(l, pos) \in Nat BY <1>2, <1>4, BigEndianTyped DEF SizeAt
  <1>6. PICK n \in Nat : n = SizeAt(l, pos) BY <1>5
  <1>7. EndAt(l, pos) = at + n BY <1>2, <1>6 DEF EndAt
  <1>8. at + n <= Len(l) BY <1>2, <1>6 DEF ReadAt, whole
  <1>9. SubSeq(l, at + 1, at + n) \in Seq(Nat) BY <1>8, PartTyped
  <1>10. at >= pos + 1 BY <1>1, <1>2
  <1> QED BY <1>2, <1>5, <1>7, <1>8, <1>9, <1>10

\* What the walk finds from a position on.
From(l, deeper, g, pos) ==
    IF ReadAt(l, pos)
    THEN deeper[SubSeq(l, pos + LenSize + 1, EndAt(l, pos))] \o g[EndAt(l, pos)]
    ELSE <<>>

EntriesFound(l, deeper, g) ==
    /\ g \in [0 .. Len(l) -> TxLists]
    /\ \A pos \in 0 .. Len(l) : g[pos] = From(l, deeper, g, pos)
    /\ entries(l, deeper) = g[1]

\* What is found from a position on is a list of transactions, if it is one from
\* every later position.
LEMMA FromTyped ==
  ASSUME NEW l \in Seq(Nat), NEW deeper \in Walks, NEW pos \in 0 .. Len(l), NEW g,
         \A j \in pos + 1 .. Len(l) : g[j] \in TxLists
  PROVE  From(l, deeper, g, pos) \in TxLists
  <1>1. CASE ReadAt(l, pos)
    <2>1. pos \in Nat OBVIOUS
    <2>2. /\ EndAt(l, pos) \in pos + 1 .. Len(l)
          /\ SubSeq(l, pos + LenSize + 1, EndAt(l, pos)) \in Seq(Nat)
      BY <1>1, <2>1, ReadLemma
    <2>3. g[EndAt(l, pos)] \in TxLists BY <2>2
    <2>4. deeper[SubSeq(l, pos + LenSize + 1, EndAt(l, pos))] \in TxLists BY <2>2 DEF Walks
    <2>5. \A s, t \in TxLists : s \o t \in TxLists BY ConcatProperties DEF TxLists
    <2> QED BY <1>1, <2>3, <2>4, <2>5 DEF From
  <1>2. CASE ~ ReadAt(l, pos) BY <1>2 DEF From, TxLists
  <1> QED BY <1>1, <1>2

\* There is a function that says for every position what is found from there on:
\* it is defined downward, since an entry ends behind its position.
LEMMA EntriesLemma ==
  ASSUME NEW l \in Seq(Nat), NEW deeper \in Walks, l # <<>>
  PROVE  \E g : EntriesFound(l, deeper, g)
  <1>1. PICK n \in Nat : n = Len(l) /\ n # 0 BY EmptySeq
  <1> DEFINE step == [i \in 0 .. n |-> [g \in [0 .. n -> TxLists] |-> From(l, deeper, g, i)]]
  <1>2. PICK f : f \in [0 .. n -> TxLists] /\ \A i \in 0 .. n : f[i] = From(l, deeper, f, i)
    <2>1. ASSUME NEW i \in 0 .. n, NEW g \in [0 .. n -> TxLists] PROVE From(l, deeper, g, i) \in TxLists
      <3>1. \A j \in i + 1 .. Len(l) : g[j] \in TxLists BY <1>1
      <3>2. i \in 0 .. Len(l) BY <1>1
      <3> QED BY <3>1, <3>2, FromTyped
    <2>2. step \in [0 .. n -> [[0 .. n -> TxLists] -> TxLists]] BY <2>1
    <2>3. ASSUME NEW i \in 0 .. n, NEW g \in [0 .. n -> TxLists], NEW h \in [0 .. n -> TxLists],
                 \A j \in i + 1 .. n : g[j] = h[j]
          PROVE  step[i][g] = step[i][h]
      <3>1. ReadAt(l, i) => EndAt(l, i) \in i + 1 .. n
        <4>1. i \in Nat OBVIOUS
        <4> QED BY <1>1, <4>1, ReadLemma
      <3>2. From(l, deeper, g, i) = From(l, deeper, h, i)
        <4>1. ReadAt(l, i) => g[EndAt(l, i)] = h[EndAt(l, i)] BY <2>3, <3>1
        <4> QED BY <4>1 DEF From
      <3> QED BY <3>2
    <2>4. TxLists # {} BY EmptySeq DEF TxLists
    <2>5. DownwardStep(n, TxLists, step) BY <2>2, <2>3, <2>4 DEF DownwardStep
    <2>6. \A i \in 0 .. n : \A g \in [0 .. n -> TxLists] : step[i][g] = From(l, deeper, g, i) OBVIOUS
    <2> HIDE DEF step
    <2>7. PICK f : DownwardFunction(f, n, TxLists, step) BY <2>5, Downward
    <2>8. f \in [0 .. n -> TxLists] /\ \A i \in 0 .. n : f[i] = step[i][f]
      BY <2>7 DEF DownwardFunction
    <2> QED BY <2>6, <2>8
  <1> HIDE DEF step
  <1> DEFINE from == CHOOSE from : from = [pos \in 0 .. Len(l) |-> From(l, deeper, from, pos)]
  <1>3. f = [pos \in 0 .. Len(l) |-> From(l, deeper, f, pos)] BY <1>1, <1>2
  <1>4. from = [pos \in 0 .. Len(l) |-> From(l, deeper, from, pos)] BY <1>3
  <1>5. entries(l, deeper) = from[1]
    BY Zenon DEF entries, From, ReadAt, EndAt, SizeAt
  <1> HIDE DEF from
  <1>6. \A i \in 0 .. n : from[i] = From(l, deeper, from, i) BY <1>1, <1>4
  <1>7. \A i \in 0 .. n : from[i] \in TxLists
    <2>1. ASSUME NEW i \in 0 .. n, \A j \in i + 1 .. n : from[j] \in TxLists
          PROVE  from[i] \in TxLists
      <3>1. i \in 0 .. Len(l) /\ \A j \in i + 1 .. Len(l) : from[j] \in TxLists BY <1>1, <2>1
      <3>2. From(l, deeper, from, i) \in TxLists BY <3>1, FromTyped
      <3> QED BY <1>6, <3>2
    <2> QED BY <2>1, Falling
  <1>8. from \in [0 .. n -> TxLists] BY <1>1, <1>4, <1>7
  <1> QED BY <1>1, <1>5, <1>6, <1>8 DEF EntriesFound

\* The entries of a batch give a list of transactions.
LEMMA EntriesTyped ==
  ASSUME NEW l \in Seq(Nat), NEW deeper \in Walks, l # <<>>
  PROVE  entries(l, deeper) \in TxLists
  <1>1. PICK g : EntriesFound(l, deeper, g) BY EntriesLemma
  <1>2. 1 \in 0 .. Len(l) BY EmptySeq
  <1> QED BY <1>1, <1>2 DEF EntriesFound

\* What the walk finds in a message at some depth.
Walked(l, g, depth) == in_message(l, depth, g[depth + 1])

\* A message at any depth gives a list of transactions.
LEMMA WalkedTyped ==
  ASSUME NEW l \in Seq(Nat), NEW depth \in 0 .. MaxDepth + 1, NEW g,
         depth <= MaxDepth => g[depth + 1] \in Walks
  PROVE  Walked(l, g, depth) \in TxLists
  <1>1. <<>> \in TxLists BY EmptySeq DEF TxLists
  <1>2. CASE l = <<>> BY <1>1, <1>2 DEF Walked, in_message
  <1>3. CASE l # <<>> /\ l[1] = KIND_SIGNED_TX
    <2>1. Tail(l) \in Seq(Nat) BY <1>3, HeadTailProperties
    <2>2. <<Tail(l)>> \in TxLists BY <2>1 DEF TxLists
    <2>3. Walked(l, g, depth) = IF Len(l) > 1 THEN <<Tail(l)>> ELSE <<>>
      BY <1>3 DEF Walked, in_message, KIND_SIGNED_TX, KIND_BATCH
    <2> QED BY <1>1, <2>2, <2>3
  <1>4. CASE l # <<>> /\ l[1] = KIND_BATCH
    <2>1. Walked(l, g, depth) = IF depth > MaxDepth THEN <<>> ELSE entries(l, g[depth + 1])
      BY <1>4 DEF Walked, in_message, KIND_SIGNED_TX, KIND_BATCH
    <2>2. depth <= MaxDepth => entries(l, g[depth + 1]) \in TxLists BY <1>4, EntriesTyped
    <2>3. depth \in Nat /\ MaxDepth \in Nat BY EntryAssumption
    <2> QED BY <1>1, <2>1, <2>2, <2>3
  <1>5. CASE l # <<>> /\ l[1] # KIND_SIGNED_TX /\ l[1] # KIND_BATCH BY <1>1, <1>5 DEF Walked, in_message
  <1> QED BY <1>2, <1>3, <1>4, <1>5

\* The walk is what it is defined to be.
LEMMA WalkLemma ==
  /\ \A depth \in 0 .. MaxDepth + 1 : walk[depth] \in Walks
  /\ \A depth \in 0 .. MaxDepth + 1 : \A l \in Seq(Nat) :
         walk[depth][l] = Walked(l, walk, depth)
  <1>1. PICK n \in Nat : n = MaxDepth + 1 BY EntryAssumption
  <1> DEFINE OfDepth(g, d) == [l \in Seq(Nat) |-> Walked(l, g, d)]
             step == [d \in 0 .. n |-> [g \in [0 .. n -> Walks] |-> OfDepth(g, d)]]
  <1>0. \A d \in 0 .. n : d <= MaxDepth => d + 1 \in d + 1 .. n /\ d + 1 \in 0 .. n
    BY <1>1, EntryAssumption
  <1>2. PICK f : f \in [0 .. n -> Walks] /\ \A d \in 0 .. n : f[d] = OfDepth(f, d)
    <2>1. ASSUME NEW d \in 0 .. n, NEW g \in [0 .. n -> Walks] PROVE OfDepth(g, d) \in Walks
      <3>1. d <= MaxDepth => g[d + 1] \in Walks BY <1>0
      <3>2. \A l \in Seq(Nat) : Walked(l, g, d) \in TxLists BY <1>1, <3>1, WalkedTyped
      <3> QED BY <3>2 DEF Walks
    <2>2. step \in [0 .. n -> [[0 .. n -> Walks] -> Walks]] BY <2>1
    <2>3. ASSUME NEW d \in 0 .. n, NEW g \in [0 .. n -> Walks], NEW h \in [0 .. n -> Walks],
                 \A j \in d + 1 .. n : g[j] = h[j]
          PROVE  step[d][g] = step[d][h]
      <3>1. d \in Int /\ MaxDepth \in Int BY EntryAssumption
      <3>2. d > MaxDepth \/ g[d + 1] = h[d + 1]
        <4>1. d <= MaxDepth => g[d + 1] = h[d + 1] BY <1>0, <2>3
        <4> QED BY <3>1, <4>1
      <3>3. \A l \in Seq(Nat) : Walked(l, g, d) = Walked(l, h, d) BY <3>2 DEF Walked, in_message
      <3>4. OfDepth(g, d) = OfDepth(h, d) BY <3>3
      <3> QED BY <3>4
    <2>4. Walks # {}
      <3>1. <<>> \in TxLists BY EmptySeq DEF TxLists
      <3>2. [l \in Seq(Nat) |-> <<>>] \in Walks BY <3>1 DEF Walks
      <3> QED BY <3>2
    <2>5. DownwardStep(n, Walks, step) BY <2>2, <2>3, <2>4 DEF DownwardStep
    <2>6. \A d \in 0 .. n : \A g \in [0 .. n -> Walks] : step[d][g] = OfDepth(g, d) OBVIOUS
    <2> HIDE DEF step, OfDepth
    <2>7. PICK f : DownwardFunction(f, n, Walks, step) BY <2>5, Downward
    <2>8. f \in [0 .. n -> Walks] /\ \A i \in 0 .. n : f[i] = step[i][f]
      BY <2>7 DEF DownwardFunction
    <2> QED BY <2>6, <2>8
  <1> HIDE DEF step
  <1>3. f = [d \in 0 .. MaxDepth + 1 |-> OfDepth(f, d)] BY <1>1, <1>2
  <1>4. walk = CHOOSE w : w = [d \in 0 .. MaxDepth + 1 |-> OfDepth(w, d)]
    BY Zenon DEF walk, Walked
  <1>5. walk = [d \in 0 .. MaxDepth + 1 |-> OfDepth(walk, d)]
    <2> HIDE DEF OfDepth
    <2> QED BY <1>3, <1>4
  <1>6. \A d \in 0 .. n : walk[d] = OfDepth(walk, d) BY <1>1, <1>5
  <1>7. \A d \in 0 .. n : walk[d] \in Walks
    <2>1. ASSUME NEW d \in 0 .. n, \A j \in d + 1 .. n : walk[j] \in Walks
          PROVE  walk[d] \in Walks
      <3>1. d <= MaxDepth => walk[d + 1] \in Walks BY <1>0, <2>1
      <3>2. \A l \in Seq(Nat) : Walked(l, walk, d) \in TxLists BY <1>1, <3>1, WalkedTyped
      <3>3. OfDepth(walk, d) \in Walks BY <3>2 DEF Walks
      <3> QED BY <1>6, <3>3
    <2> QED BY <2>1, Falling
  <1> QED BY <1>1, <1>6, <1>7

\* Where the parts of a sequence are.
LEMMA PartLemma ==
  ASSUME NEW s \in Seq(Nat), NEW a \in Nat, NEW b \in Nat, b <= Len(s)
  PROVE  /\ SubSeq(s, a + 1, b) \in Seq(Nat)
         /\ Len(SubSeq(s, a + 1, b)) = IF a < b THEN b - a ELSE 0
         /\ \A i \in 1 .. b - a : SubSeq(s, a + 1, b)[i] = s[a + i]
  <1>1. PICK m \in Int : m = a + 1 OBVIOUS
  <1>2. \A i \in m .. b : s[i] \in Nat BY <1>1
  <1>3. b \in Int OBVIOUS
  <1>4. /\ SubSeq(s, m, b) \in Seq(Nat)
        /\ Len(SubSeq(s, m, b)) = IF m <= b THEN b - m + 1 ELSE 0
        /\ \A i \in 1 .. b - m + 1 : SubSeq(s, m, b)[i] = s[m + i - 1]
    BY <1>2, <1>3, SubSeqProperties
  <1>5. ASSUME NEW i \in 1 .. b - a PROVE SubSeq(s, m, b)[i] = s[a + i]
    <2>1. i \in 1 .. b - m + 1 /\ m + i - 1 = a + i BY <1>1
    <2> QED BY <1>4, <2>1
  <1>6. Len(SubSeq(s, m, b)) = IF a < b THEN b - a ELSE 0 BY <1>1, <1>4
  <1> QED BY <1>1, <1>4, <1>5, <1>6

\* u is what is in s behind the first a elements, up to the one at b.
IsPart(u, s, a, b) ==
    /\ u \in Seq(Nat)
    /\ Len(u) = IF a < b THEN b - a ELSE 0
    /\ \A i \in 1 .. b - a : u[i] = s[a + i]

\* The same, in one word.
LEMMA PartNamed ==
  ASSUME NEW s \in Seq(Nat), NEW a \in Nat, NEW b \in Nat, b <= Len(s)
  PROVE  IsPart(SubSeq(s, a + 1, b), s, a, b)
  BY PartLemma DEF IsPart

\* A part of a part of a sequence is a part of the sequence.
LEMMA PartOfPart ==
  ASSUME NEW s \in Seq(Nat), NEW x \in Nat, NEW y \in Nat, x <= y, y <= Len(s),
         NEW a \in Nat, NEW b \in Nat, b <= y - x
  PROVE  SubSeq(SubSeq(s, x + 1, y), a + 1, b) = SubSeq(s, x + a + 1, x + b)
  <1>1. PICK t : t = SubSeq(s, x + 1, y) /\ IsPart(t, s, x, y) BY PartNamed
  <1>2. t \in Seq(Nat) /\ Len(t) = y - x /\ \A i \in 1 .. y - x : t[i] = s[x + i]
    BY <1>1 DEF IsPart
  <1>12. b <= Len(t) BY <1>2
  <1>3. PICK u : u = SubSeq(t, a + 1, b) /\ IsPart(u, t, a, b) BY <1>2, <1>12, PartNamed
  <1>4. /\ u \in Seq(Nat) /\ Len(u) = IF a < b THEN b - a ELSE 0
        /\ \A i \in 1 .. b - a : u[i] = t[a + i]
    BY <1>3 DEF IsPart
  <1>5. PICK x2 \in Nat, y2 \in Nat : x2 = x + a /\ y2 = x + b OBVIOUS
  <1>11. y2 <= Len(s)
    <2>1. PICK n \in Nat : n = Len(s) OBVIOUS
    <2> QED BY <1>5, <2>1
  <1>6. PICK v : v = SubSeq(s, x2 + 1, y2) /\ IsPart(v, s, x2, y2) BY <1>11, PartNamed
  <1>7. /\ v \in Seq(Nat) /\ Len(v) = IF x2 < y2 THEN y2 - x2 ELSE 0
        /\ \A i \in 1 .. y2 - x2 : v[i] = s[x2 + i]
    BY <1>6 DEF IsPart
  <1>8. Len(u) = Len(v) BY <1>4, <1>5, <1>7
  <1>9. \A i \in 1 .. Len(u) : u[i] = v[i]
    <2> SUFFICES ASSUME NEW i \in 1 .. Len(u) PROVE u[i] = v[i] OBVIOUS
    <2>1. i \in 1 .. b - a /\ i \in 1 .. y2 - x2 /\ a + i \in 1 .. y - x BY <1>4, <1>5
    <2>2. u[i] = t[a + i] /\ t[a + i] = s[x + (a + i)] /\ v[i] = s[x2 + i]
      BY <1>2, <1>4, <1>7, <2>1
    <2>3. x + (a + i) = x2 + i BY <1>5
    <2> QED BY <2>2, <2>3
  <1>10. u = v BY <1>4, <1>7, <1>8, <1>9, SeqEqual
  <1> QED BY <1>1, <1>3, <1>5, <1>6, <1>10

\* A part of the first of two sequences, and the second.
LEMMA PartOfConcat ==
  ASSUME NEW s \in Seq(Nat), NEW t \in Seq(Nat), NEW a \in Nat, NEW b \in Nat
  PROVE  /\ b <= Len(s) => SubSeq(s \o t, a + 1, b) = SubSeq(s, a + 1, b)
         /\ b <= Len(t) => SubSeq(s \o t, Len(s) + a + 1, Len(s) + b) = SubSeq(t, a + 1, b)
  <1>1. PICK n \in Nat, k \in Nat : n = Len(s) /\ k = Len(t) OBVIOUS
  <1>2. PICK w \in Seq(Nat) : w = s \o t BY ConcatProperties
  <1>3. Len(w) = n + k /\ \A i \in 1 .. n + k : w[i] = IF i <= n THEN s[i] ELSE t[i - n]
    BY <1>1, <1>2, ConcatProperties
  <1>4. ASSUME b <= n PROVE SubSeq(w, a + 1, b) = SubSeq(s, a + 1, b)
    <2>0. b <= Len(w) BY <1>3, <1>4
    <2>1. PICK u : u = SubSeq(w, a + 1, b) /\ IsPart(u, w, a, b) BY <2>0, PartNamed
    <2>9. b <= Len(s) BY <1>1, <1>4
    <2>2. PICK v : v = SubSeq(s, a + 1, b) /\ IsPart(v, s, a, b) BY <2>9, PartNamed
    <2>3. /\ u \in Seq(Nat) /\ Len(u) = IF a < b THEN b - a ELSE 0
          /\ \A i \in 1 .. b - a : u[i] = w[a + i]
      BY <2>1 DEF IsPart
    <2>4. /\ v \in Seq(Nat) /\ Len(v) = IF a < b THEN b - a ELSE 0
          /\ \A i \in 1 .. b - a : v[i] = s[a + i]
      BY <2>2 DEF IsPart
    <2>5. ASSUME NEW i \in 1 .. Len(u) PROVE u[i] = v[i]
      <3>1. i \in 1 .. b - a /\ a + i \in 1 .. n + k /\ a + i <= n BY <1>4, <2>3
      <3> QED BY <1>3, <2>3, <2>4, <3>1
    <2> QED BY <2>1, <2>2, <2>3, <2>4, <2>5, SeqEqual
  <1>5. ASSUME b <= k PROVE SubSeq(w, n + a + 1, n + b) = SubSeq(t, a + 1, b)
    <2>0. PICK a2 \in Nat, b2 \in Nat : a2 = n + a /\ b2 = n + b OBVIOUS
    <2>8. b2 <= Len(w) BY <1>3, <1>5, <2>0
    <2>1. PICK u : u = SubSeq(w, a2 + 1, b2) /\ IsPart(u, w, a2, b2) BY <2>8, PartNamed
    <2>9. b <= Len(t) BY <1>1, <1>5
    <2>2. PICK v : v = SubSeq(t, a + 1, b) /\ IsPart(v, t, a, b) BY <2>9, PartNamed
    <2>3. /\ u \in Seq(Nat) /\ Len(u) = IF a2 < b2 THEN b2 - a2 ELSE 0
          /\ \A i \in 1 .. b2 - a2 : u[i] = w[a2 + i]
      BY <2>1 DEF IsPart
    <2>4. /\ v \in Seq(Nat) /\ Len(v) = IF a < b THEN b - a ELSE 0
          /\ \A i \in 1 .. b - a : v[i] = t[a + i]
      BY <2>2 DEF IsPart
    <2>6. Len(u) = Len(v) BY <2>0, <2>3, <2>4
    <2>5. ASSUME NEW i \in 1 .. Len(u) PROVE u[i] = v[i]
      <3>1. /\ i \in 1 .. b - a /\ i \in 1 .. b2 - a2 /\ a2 + i \in 1 .. n + k
            /\ ~ (a2 + i <= n) /\ a2 + i - n = a + i
        BY <1>5, <2>0, <2>3
      <3>2. u[i] = w[a2 + i] /\ v[i] = t[a + i] BY <2>3, <2>4, <3>1
      <3>3. PICK z \in 1 .. n + k : z = a2 + i BY <3>1
      <3>5. w[z] = IF z <= n THEN s[z] ELSE t[z - n] BY <1>3, Zenon
      <3>6. ~ (z <= n) /\ z - n = a + i BY <3>1, <3>3
      <3>4. w[z] = t[z - n] /\ z - n = a + i BY <3>5, <3>6, Zenon
      <3> QED BY <3>2, <3>3, <3>4
    <2>7. u = v BY <2>3, <2>4, <2>5, <2>6, SeqEqual
    <2> QED BY <2>0, <2>1, <2>2, <2>7
  <1> QED BY <1>1, <1>2, <1>4, <1>5

-----------------------------------------------------------------------------
(***************************************************************************)
(* What is known of the L2 message.                                        *)
(***************************************************************************)

Entry == [last : Nat, size : Nat, txs : [0 .. MaxDepth + 1 -> TxLists]]

\* Where an entry ends; the first begins after the kind.
LastAt(subs, i) == IF i = 0 THEN 1 ELSE subs[i].last

\* An entry is where it is said to be, and the walk finds in it what it carries.
EntryRight(bytes, subs, i) ==
    LET pos == LastAt(subs, i - 1)
    IN  /\ subs[i] \in Entry /\ pos \in Nat /\ pos >= 1
        /\ subs[i].last = pos + LenSize + subs[i].size
        /\ subs[i].last <= Len(bytes)
        /\ SizeAt(bytes, pos) = subs[i].size
        /\ \A d \in 0 .. MaxDepth + 1 :
               walk[d][SubSeq(bytes, pos + LenSize + 1, subs[i].last)] = subs[i].txs[d]

BatchRight(bytes, subs) ==
    /\ bytes \in Seq(Nat) /\ bytes # <<>> /\ bytes[1] = KIND_BATCH
    /\ subs \in Seq(Entry)
    /\ LastAt(subs, Len(subs)) = Len(bytes)
    /\ \A i \in 1 .. Len(subs) : EntryRight(bytes, subs, i)

MessageRight(m) ==
    /\ m.bytes \in Seq(Nat)
    /\ \/ /\ m.kind \notin {KIND_SIGNED_TX, KIND_BATCH}
          /\ m.bytes = <<>> \/ (m.bytes # <<>> /\ m.bytes[1] = m.kind)
       \/ m.kind = KIND_SIGNED_TX /\ m.bytes # <<>> /\ m.bytes[1] = KIND_SIGNED_TX
       \/ m.kind = KIND_BATCH /\ BatchRight(m.bytes, m.subs)

\* The entries that are kept.
LEMMA KeptLemma ==
  ASSUME NEW n \in Nat, n = Len(message.subs), NEW c
  PROVE  /\ Kept(c) \in 0 .. n
         /\ \A i \in 1 .. Kept(c) : Readable(i, c)
         /\ Kept(c) < n => ~ Readable(Kept(c) + 1, c)
  <1> DEFINE T == {k \in 0 .. n : k < n => ~ Readable(k + 1, c)}
  <1>1. n \in T /\ T \in SUBSET Nat OBVIOUS
  <1>2. PICK k \in T : \A j \in T : k <= j BY <1>1, LeastNumber
  <1>3. k \in 0 .. n /\ (k < n => ~ Readable(k + 1, c)) OBVIOUS
  <1>4. ASSUME NEW i \in 1 .. k PROVE Readable(i, c)
    <2>1. PICK j \in 0 .. n : j = i - 1 BY <1>3
    <2>2. j < k /\ j < n /\ j + 1 = i BY <1>3, <2>1
    <2>3. j \notin T BY <1>2, <1>3, <2>2
    <2> QED BY <2>2, <2>3
  <1> HIDE DEF T
  <1>5. \E x \in 0 .. Len(message.subs) :
            /\ \A i \in 1 .. x : Readable(i, c)
            /\ x < Len(message.subs) => ~ Readable(x + 1, c)
    BY <1>3, <1>4
  <1> QED BY <1>5 DEF Kept

\* The transactions of the first entries, one entry after the other.
GatheredBy(g, k, depth) ==
    /\ g \in [0 .. k -> TxLists] /\ g[0] = <<>>
    /\ \A i \in 1 .. k : g[i] = g[i - 1] \o message.subs[i].txs[depth]
    /\ Gathered(k, depth) = g[k]

\* There is a function that gathers the transactions of the first entries.
LEMMA GatheredLemma ==
  ASSUME NEW k \in Nat, NEW depth, \A i \in 1 .. k : message.subs[i].txs[depth] \in TxLists
  PROVE  \E g : GatheredBy(g, k, depth)
  <1>1. \A s, t \in TxLists : s \o t \in TxLists BY ConcatProperties DEF TxLists
  <1>2. <<>> \in TxLists BY EmptySeq DEF TxLists
  <1> DEFINE step == [i \in 1 .. k |-> [s \in TxLists |-> s \o message.subs[i].txs[depth]]]
  <1>3. UpwardStep(k, TxLists, <<>>, step) BY <1>1, <1>2 DEF UpwardStep
  <1>4. PICK f : UpwardFunction(f, k, TxLists, <<>>, step)
    <2> HIDE DEF step
    <2> QED BY <1>3, Upward
  <1>5. ASSUME NEW i \in 1 .. k PROVE f[i] = f[i - 1] \o message.subs[i].txs[depth]
    <2>1. i \in 0 .. k /\ i # 0 /\ i - 1 \in 0 .. k OBVIOUS
    <2>2. f[i] = step[i][f[i - 1]] /\ f[i - 1] \in TxLists BY <1>4, <2>1 DEF UpwardFunction
    <2> QED BY <2>2
  <1> HIDE DEF step
  <1>6. f \in [0 .. k -> TxLists] /\ f[0] = <<>> BY <1>4 DEF UpwardFunction
  <1> DEFINE txs == CHOOSE txs : txs = [i \in 0 .. k |->
                        IF i = 0 THEN <<>> ELSE txs[i - 1] \o message.subs[i].txs[depth]]
  <1>7. f = [i \in 0 .. k |-> IF i = 0 THEN <<>> ELSE f[i - 1] \o message.subs[i].txs[depth]]
    BY <1>5, <1>6
  <1>8. txs = [i \in 0 .. k |-> IF i = 0 THEN <<>> ELSE txs[i - 1] \o message.subs[i].txs[depth]]
    BY <1>7
  <1>9. Gathered(k, depth) = txs[k] BY Zenon DEF Gathered
  <1> HIDE DEF txs
  <1>10. txs[0] = <<>> /\ \A i \in 1 .. k : txs[i] = txs[i - 1] \o message.subs[i].txs[depth]
    <2> DEFINE e(i) == IF i = 0 THEN <<>> ELSE txs[i - 1] \o message.subs[i].txs[depth]
    <2>1. ASSUME NEW i \in 0 .. k PROVE txs[i] = e(i) BY <1>8, Zenon
    <2>2. 0 \in 0 .. k /\ \A i \in 1 .. k : i \in 0 .. k /\ i # 0 OBVIOUS
    <2>3. txs[0] = <<>> BY <2>1, <2>2, Zenon
    <2>4. ASSUME NEW i \in 1 .. k PROVE txs[i] = txs[i - 1] \o message.subs[i].txs[depth]
      <3>1. i \in 0 .. k /\ i # 0 BY <2>2
      <3> QED BY <2>1, <3>1, Zenon
    <2> QED BY <2>3, <2>4
  <1>11. \A i \in 0 .. k : txs[i] \in TxLists
    <2>1. txs[0] \in TxLists BY <1>2, <1>10
    <2>2. ASSUME NEW i \in 1 .. k, txs[i - 1] \in TxLists PROVE txs[i] \in TxLists
      BY <1>1, <1>10, <2>2
    <2> QED BY <2>1, <2>2, Rising
  <1>12. txs \in [0 .. k -> TxLists] BY <1>8, <1>11
  <1> QED BY <1>9, <1>10, <1>12 DEF GatheredBy

\* Lists of transactions are put together in any order.
LEMMA TxListsAssociative ==
  ASSUME NEW x \in TxLists, NEW y \in TxLists, NEW z \in TxLists
  PROVE  (x \o y) \o z = x \o (y \o z)
  <1> DEFINE S == Seq(Nat)
  <1>1. x \in Seq(S) /\ y \in Seq(S) /\ z \in Seq(S) BY DEF TxLists
  <1> HIDE DEF S
  <1> QED BY <1>1, ConcatAssociative

\* Of a batch cut after some bytes the walk finds the entries that are kept.
LEMMA BatchLemma ==
  ASSUME BatchRight(message.bytes, message.subs), NEW c \in 1 .. Len(message.bytes),
         NEW d \in 0 .. MaxDepth + 1
  PROVE  entries(SubSeq(message.bytes, 1, c), walk[d]) = Gathered(Kept(c), d)
  <1> DEFINE last(i) == LastAt(message.subs, i)
  <1>1. PICK b \in Seq(Nat) : b = message.bytes BY DEF BatchRight
  <1>2. PICK n \in Nat : n = Len(message.subs) BY DEF BatchRight
  <1>3. PICK size \in Nat : size = Len(b) BY <1>1
  <1>4. PICK k \in 0 .. n : k = Kept(c) BY <1>2, KeptLemma
  <1>5. /\ \A i \in 1 .. k : Readable(i, c)
        /\ k < n => ~ Readable(k + 1, c)
    BY <1>2, <1>4, KeptLemma
  <1>6. c \in 1 .. size /\ c \in Nat BY <1>1, <1>3
  <1>7. \A i \in 1 .. n : EntryRight(b, message.subs, i) BY <1>1, <1>2 DEF BatchRight
  <1>8. last(n) = size BY <1>1, <1>2, <1>3 DEF BatchRight
  <1>9. PICK l \in Seq(Nat) : l = SubSeq(b, 1, c)
    <2>1. 0 \in Nat /\ 0 + 1 = 1 /\ c <= Len(b) BY <1>3, <1>6
    <2> QED BY <1>6, <2>1, PartLemma
  <1>10. Len(l) = c /\ \A x, y \in Nat : y <= c => SubSeq(l, x + 1, y) = SubSeq(b, x + 1, y)
    <2>1. 0 \in Nat /\ 0 + 1 = 1 /\ c <= Len(b) /\ 0 < c /\ c - 0 = c BY <1>3, <1>6
    <2>2. Len(SubSeq(b, 0 + 1, c)) = IF 0 < c THEN c - 0 ELSE 0 BY <1>6, <2>1, PartLemma
    <2>3. ASSUME NEW x \in Nat, NEW y \in Nat, y <= c
          PROVE  SubSeq(l, x + 1, y) = SubSeq(b, x + 1, y)
      <3>1. y <= c - 0 /\ 0 <= c /\ 0 + x + 1 = x + 1 /\ 0 + y = y BY <1>6, <2>3
      <3>2. SubSeq(SubSeq(b, 0 + 1, c), x + 1, y) = SubSeq(b, 0 + x + 1, 0 + y)
        BY <1>6, <2>1, <3>1, PartOfPart
      <3> QED BY <1>9, <2>1, <3>1, <3>2
    <2> QED BY <1>9, <2>1, <2>2, <2>3
  <1>11. walk[d] \in Walks BY WalkLemma
  <1>12. l # <<>> BY <1>6, <1>10
  <1>13. PICK g : EntriesFound(l, walk[d], g) BY <1>11, <1>12, EntriesLemma
  <1>14. /\ g \in [0 .. c -> TxLists]
         /\ \A pos \in 0 .. c : g[pos] = From(l, walk[d], g, pos)
         /\ entries(l, walk[d]) = g[1]
    BY <1>10, <1>13 DEF EntriesFound
  <1>15. \A i \in 1 .. n : message.subs[i].txs[d] \in TxLists BY <1>7 DEF EntryRight, Entry
  <1>16. PICK t : GatheredBy(t, k, d)
    <2>1. k \in Nat /\ \A i \in 1 .. k : message.subs[i].txs[d] \in TxLists BY <1>15
    <2> QED BY <2>1, GatheredLemma
  <1>17. /\ t \in [0 .. k -> TxLists] /\ t[0] = <<>>
         /\ \A i \in 1 .. k : t[i] = t[i - 1] \o message.subs[i].txs[d]
         /\ Gathered(k, d) = t[k]
    BY <1>16 DEF GatheredBy
  <1>18. LenSize \in Nat \ {0} BY EntryAssumption
  <1>19. \A i \in 0 .. k : last(i) \in 1 .. c
    <2> SUFFICES ASSUME NEW i \in 0 .. k PROVE last(i) \in 1 .. c OBVIOUS
    <2>1. CASE i = 0 BY <1>6, <2>1 DEF LastAt
    <2>2. CASE i # 0
      <3>1. i \in 1 .. n /\ i \in 1 .. k BY <2>2
      <3>2. Readable(i, c) /\ EntryRight(b, message.subs, i) BY <1>5, <1>7, <3>1
      <3>3. PICK p \in Nat, z \in Nat, e \in Nat :
                /\ p = last(i - 1) /\ z = message.subs[i].size /\ e = message.subs[i].last
                /\ p >= 1 /\ e = p + LenSize + z
        BY <3>2 DEF EntryRight, Entry
      <3>4. e <= c BY <3>2, <3>3 DEF Readable
      <3>5. last(i) = e BY <2>2, <3>3 DEF LastAt
      <3>6. e >= 1
        <4>1. p >= 1 /\ e = p + LenSize + z BY <3>3, Zenon
        <4> QED BY <1>18, <4>1
      <3>7. e \in 1 .. c BY <3>4, <3>6
      <3> QED BY <3>5, <3>7, Zenon
    <2> QED BY <2>1, <2>2
  <1>20. ASSUME NEW i \in 1 .. k
         PROVE  g[last(i - 1)] = message.subs[i].txs[d] \o g[last(i)]
    <2>1. i \in 1 .. n /\ i - 1 \in 0 .. k /\ i \in 0 .. k BY <1>20
    <2>2. Readable(i, c) /\ EntryRight(b, message.subs, i) BY <1>5, <1>7, <2>1
    <2>3. PICK p \in Nat, z \in Nat, e \in Nat :
              /\ p = last(i - 1) /\ z = message.subs[i].size /\ e = message.subs[i].last
              /\ p >= 1 /\ e = p + LenSize + z
      BY <2>2 DEF EntryRight, Entry
    <2>4. e <= c /\ z <= MaxEntry BY <2>2, <2>3 DEF Readable
    <2>5. last(i) = e BY <1>20, <2>3 DEF LastAt
    <2>6. PICK at \in Nat : at = p + LenSize BY <1>18
    <2>7. at <= c /\ at + z = e
      <3>1. e = p + LenSize + z /\ e <= c BY <2>3, <2>4, Zenon
      <3>2. at + z = e BY <1>18, <2>6, <3>1
      <3> QED BY <1>6, <3>1, <3>2
    <2>8. SizeAt(l, p) = z
      <3>1. SubSeq(l, p + 1, at) = SubSeq(b, p + 1, at) BY <1>10, <2>7
      <3>2. SizeAt(b, p) = z BY <2>2, <2>3 DEF EntryRight
      <3> QED BY <2>6, <3>1, <3>2 DEF SizeAt
    <2>9. ReadAt(l, p) /\ EndAt(l, p) = e
      BY <1>10, <2>3, <2>4, <2>6, <2>7, <2>8 DEF ReadAt, EndAt, whole
    <2>10. walk[d][SubSeq(l, at + 1, e)] = message.subs[i].txs[d]
      <3>1. SubSeq(l, at + 1, e) = SubSeq(b, at + 1, e) BY <1>10, <2>4
      <3>2. walk[d][SubSeq(b, at + 1, e)] = message.subs[i].txs[d]
        BY <2>2, <2>3, <2>6 DEF EntryRight
      <3> QED BY <3>1, <3>2
    <2>11. p \in 0 .. c BY <1>6, <1>18, <2>6, <2>7
    <2>12. g[p] = From(l, walk[d], g, p) BY <1>14, <2>11
    <2>13. g[p] = message.subs[i].txs[d] \o g[e]
      BY <2>6, <2>9, <2>10, <2>12 DEF From
    <2> QED BY <2>3, <2>5, <2>13
  <1>21. g[last(k)] = <<>>
    <2>1. PICK p \in Nat : p = last(k) /\ p \in 1 .. c BY <1>19
    <2>2. ~ ReadAt(l, p)
      <3>1. CASE k = n
        <4>1. p = c BY <1>6, <1>8, <2>1, <3>1
        <4>2. ~ (p + LenSize <= c) BY <1>18, <4>1
        <4> QED BY <1>10, <4>2 DEF ReadAt
      <3>2. CASE k # n
        <4>1. k + 1 \in 1 .. n /\ k + 1 - 1 = k /\ k < n BY <3>2
        <4>2. ~ Readable(k + 1, c) /\ EntryRight(b, message.subs, k + 1) BY <1>5, <1>7, <4>1
        <4>3. PICK z \in Nat, e \in Nat :
                  /\ z = message.subs[k + 1].size /\ e = message.subs[k + 1].last
                  /\ e = p + LenSize + z
          BY <2>1, <4>1, <4>2 DEF EntryRight, Entry
        <4>4. ~ (e <= c /\ z <= MaxEntry) BY <4>2, <4>3 DEF Readable
        <4>5. PICK at \in Nat : at = p + LenSize BY <1>18
        <4>6. CASE at > c BY <1>10, <4>5, <4>6 DEF ReadAt
        <4>7. CASE at <= c
          <5>1. SubSeq(l, p + 1, at) = SubSeq(b, p + 1, at) BY <1>10, <4>7
          <5>2. SizeAt(b, p) = z BY <2>1, <4>1, <4>2, <4>3 DEF EntryRight
          <5>3. SizeAt(l, p) = z BY <4>5, <5>1, <5>2 DEF SizeAt
          <5> QED BY <1>10, <4>3, <4>4, <4>5, <5>3 DEF ReadAt, whole
        <4> QED BY <1>6, <4>6, <4>7
      <3> QED BY <3>1, <3>2
    <2>3. g[p] = From(l, walk[d], g, p) BY <1>14, <2>1
    <2> QED BY <2>1, <2>2, <2>3 DEF From
  <1>22. \A i \in 0 .. k : t[i] \o g[last(i)] = g[1]
    <2> DEFINE h == [i \in 0 .. k |-> t[i] \o g[last(i)]]
    <2>1. h[0] = g[1]
      <3>1. g[1] \in TxLists BY <1>6, <1>14
      <3>2. t[0] \o g[1] = g[1] BY <1>17, <3>1, ConcatEmptySeq DEF TxLists
      <3>3. last(0) = 1 BY DEF LastAt
      <3>5. 0 \in 0 .. k OBVIOUS
      <3>6. \A i \in 0 .. k : h[i] = t[i] \o g[last(i)] OBVIOUS
      <3> HIDE DEF h, last
      <3>4. h[0] = t[0] \o g[last(0)] BY <3>5, <3>6
      <3> QED BY <3>2, <3>3, <3>4, Zenon
    <2> DEFINE X == {g[1]}
    <2>2. ASSUME NEW i \in 1 .. k, h[i - 1] \in X PROVE h[i] \in X
      <3>1. i \in 0 .. k /\ i - 1 \in 0 .. k OBVIOUS
      <3>2. t[i - 1] \in TxLists /\ message.subs[i].txs[d] \in TxLists /\ g[last(i)] \in TxLists
        BY <1>14, <1>15, <1>17, <1>19, <3>1
      <3>3. PICK x \in TxLists, y \in TxLists, z \in TxLists :
                x = t[i - 1] /\ y = message.subs[i].txs[d] /\ z = g[last(i)]
        BY <3>2
      <3>4. (x \o y) \o z = x \o (y \o z)
        BY TxListsAssociative, Zenon
      <3>5. t[i] = x \o y /\ g[last(i - 1)] = y \o z BY <1>17, <1>20, <3>3
      <3>6. h[i] = (x \o y) \o z /\ h[i - 1] = x \o (y \o z) BY <3>1, <3>3, <3>5
      <3> QED BY <2>2, <3>4, <3>6
    <2>3. \A i \in 0 .. k : h[i] = t[i] \o g[last(i)] OBVIOUS
    <2> HIDE DEF h
    <2>4. h[0] \in X BY <2>1
    <2>5. k \in Nat BY <1>2
    <2> HIDE DEF X
    <2>6. \A i \in 0 .. k : h[i] \in X BY <2>2, <2>4, <2>5, Rising
    <2> QED BY <2>3, <2>6 DEF X
  <1>23. t[k] \o g[last(k)] = g[1] /\ t[k] \in TxLists BY <1>17, <1>22
  <1>24. t[k] = g[1] BY <1>21, <1>23, ConcatEmptySeq DEF TxLists
  <1> QED BY <1>1, <1>4, <1>9, <1>14, <1>17, <1>24

\* The walk finds what a message carries, however much of it there is.
LEMMA CarriedLemma ==
  ASSUME MessageRight(message), NEW c \in 0 .. Len(message.bytes), NEW d \in 0 .. MaxDepth + 1
  PROVE  walk[d][SubSeq(message.bytes, 1, c)] = Carried(c, d)
  <1>1. PICK b \in Seq(Nat) : b = message.bytes BY DEF MessageRight
  <1>2. PICK size \in Nat : size = Len(b) /\ c \in 0 .. size BY <1>1
  <1>3. PICK l \in Seq(Nat) : l = SubSeq(b, 1, c)
    <2>1. 0 \in Nat /\ 0 + 1 = 1 /\ c <= Len(b) /\ c \in Nat BY <1>2
    <2>2. SubSeq(b, 0 + 1, c) \in Seq(Nat) BY <2>1, PartLemma
    <2> QED BY <2>1, <2>2
  <1>4. Len(l) = c /\ (c > 0 => l # <<>> /\ l[1] = b[1]) /\ (c = 0 => l = <<>>)
    <2>1. 0 \in Nat /\ 0 + 1 = 1 /\ c <= Len(b) /\ c - 0 = c /\ c \in Nat BY <1>2
    <2>2. /\ Len(SubSeq(b, 0 + 1, c)) = IF 0 < c THEN c - 0 ELSE 0
          /\ \A i \in 1 .. c - 0 : SubSeq(b, 0 + 1, c)[i] = b[0 + i]
      BY <2>1, PartLemma
    <2>3. Len(l) = c BY <1>3, <2>1, <2>2
    <2>4. ASSUME c > 0 PROVE l[1] = b[1]
      <3>1. 1 \in 1 .. c - 0 /\ 0 + 1 = 1 BY <2>1, <2>4
      <3> QED BY <1>3, <2>2, <3>1
    <2> QED BY <2>1, <2>3, <2>4, EmptySeq
  <1>5. walk[d][l] = in_message(l, d, walk[d + 1]) BY WalkLemma DEF Walked
  <1>6. d \in Nat /\ MaxDepth \in Nat BY EntryAssumption
  <1>7. CASE message.kind \notin {KIND_SIGNED_TX, KIND_BATCH}
    <2>1. l = <<>> \/ (l # <<>> /\ l[1] # KIND_SIGNED_TX /\ l[1] # KIND_BATCH)
      <3>1. b = <<>> \/ (b # <<>> /\ b[1] = message.kind) BY <1>1, <1>7 DEF MessageRight
      <3>2. b = <<>> => c = 0 BY <1>2
      <3>3. c = 0 \/ c > 0 BY <1>2
      <3> QED BY <1>4, <1>7, <3>1, <3>2, <3>3
    <2>2. in_message(l, d, walk[d + 1]) = <<>> BY <2>1 DEF in_message
    <2>3. Carried(c, d) = <<>> BY <1>7 DEF Carried
    <2> QED BY <1>1, <1>3, <1>5, <2>2, <2>3
  <1>8. CASE message.kind = KIND_SIGNED_TX
    <2>1. b # <<>> /\ b[1] = KIND_SIGNED_TX
      BY <1>1, <1>8 DEF MessageRight, KIND_SIGNED_TX, KIND_BATCH
    <2>2. CASE c > 1
      <3>1. l # <<>> /\ l[1] = KIND_SIGNED_TX /\ Len(l) > 1 BY <1>2, <1>4, <2>1, <2>2
      <3>2. in_message(l, d, walk[d + 1]) = <<Tail(l)>>
        BY <3>1 DEF in_message, KIND_SIGNED_TX, KIND_BATCH
      <3>3. Tail(l) = SubSeq(b, 2, c)
        <4>1. Tail(l) = SubSeq(l, 2, Len(l)) BY <3>1, TailIsSubSeq, Zenon
        <4>2. 0 \in Nat /\ 1 \in Nat /\ c \in Nat /\ 0 <= c /\ c <= Len(b) /\ c <= c - 0 BY <1>2
        <4>3. SubSeq(SubSeq(b, 0 + 1, c), 1 + 1, c) = SubSeq(b, 0 + 1 + 1, 0 + c)
          BY <4>2, PartOfPart
        <4>4. 0 + 1 = 1 /\ 1 + 1 = 2 /\ 0 + 1 + 1 = 2 /\ 0 + c = c BY <4>2
        <4> QED BY <1>3, <1>4, <4>1, <4>3, <4>4
      <3>4. Carried(c, d) = <<SubSeq(b, 2, c)>> BY <1>1, <1>8, <2>2 DEF Carried
      <3> QED BY <1>1, <1>3, <1>5, <3>2, <3>3, <3>4
    <2>3. CASE ~ (c > 1)
      <3>1. ~ (Len(l) > 1) BY <1>4, <2>3
      <3>2. c = 0 \/ c > 0 BY <1>2
      <3>3. l = <<>> \/ (l # <<>> /\ l[1] = KIND_SIGNED_TX) BY <1>4, <2>1, <3>2
      <3>4. in_message(l, d, walk[d + 1]) = <<>> BY <3>1, <3>3 DEF in_message, KIND_SIGNED_TX, KIND_BATCH
      <3>5. Carried(c, d) = <<>> BY <1>8, <2>3 DEF Carried, KIND_SIGNED_TX, KIND_BATCH
      <3> QED BY <1>1, <1>3, <1>5, <3>4, <3>5
    <2> QED BY <2>2, <2>3
  <1>9. CASE message.kind = KIND_BATCH
    <2>0. KIND_BATCH # KIND_SIGNED_TX BY DEF KIND_SIGNED_TX, KIND_BATCH
    <2>1. BatchRight(message.bytes, message.subs) BY <1>9, <2>0 DEF MessageRight
    <2>2. Carried(c, d) = IF d <= MaxDepth THEN Gathered(Kept(c), d + 1) ELSE <<>>
      BY <1>9 DEF Carried, KIND_SIGNED_TX, KIND_BATCH
    <2>3. b[1] = KIND_BATCH BY <1>1, <2>1 DEF BatchRight
    <2>4. CASE d > MaxDepth
      <3>1. l = <<>> \/ (l # <<>> /\ l[1] = KIND_BATCH)
        <4>1. c = 0 \/ c > 0 BY <1>2
        <4> QED BY <1>4, <2>3, <4>1
      <3>2. in_message(l, d, walk[d + 1]) = <<>>
        BY <2>4, <3>1 DEF in_message, KIND_SIGNED_TX, KIND_BATCH
      <3>3. ~ (d <= MaxDepth) BY <1>6, <2>4
      <3> QED BY <1>1, <1>3, <1>5, <2>2, <3>2, <3>3
    <2>5. CASE d <= MaxDepth /\ c > 0
      <3>1. l # <<>> /\ l[1] = KIND_BATCH BY <1>4, <2>3, <2>5
      <3>2. ~ (d > MaxDepth) BY <1>6, <2>5
      <3>3. in_message(l, d, walk[d + 1]) = entries(l, walk[d + 1])
        BY <3>1, <3>2 DEF in_message, KIND_SIGNED_TX, KIND_BATCH
      <3>4. c \in 1 .. Len(message.bytes) /\ d + 1 \in 0 .. MaxDepth + 1 BY <1>1, <1>2, <1>6, <2>5
      <3>5. entries(SubSeq(message.bytes, 1, c), walk[d + 1]) = Gathered(Kept(c), d + 1)
        BY <2>1, <3>4, BatchLemma
      <3> QED BY <1>1, <1>3, <1>5, <2>2, <2>5, <3>3, <3>5
    <2>6. CASE d <= MaxDepth /\ c = 0
      <3>1. in_message(l, d, walk[d + 1]) = <<>> BY <1>4, <2>6 DEF in_message
      <3>2. PICK n \in Nat : n = Len(message.subs) BY <2>1 DEF BatchRight
      <3>3. Kept(c) \in 0 .. n /\ \A i \in 1 .. Kept(c) : Readable(i, c) BY <3>2, KeptLemma
      <3>4. PICK k \in 0 .. n : k = Kept(c) BY <3>3
      <3>5. k = 0
        <4> SUFFICES ASSUME k # 0 PROVE FALSE OBVIOUS
        <4>1. 1 \in 1 .. k /\ 1 \in 1 .. n /\ 1 - 1 = 0 BY <3>4
        <4>2. Readable(1, c) /\ EntryRight(message.bytes, message.subs, 1)
          BY <2>1, <3>2, <3>3, <3>4, <4>1 DEF BatchRight
        <4>3. PICK z \in Nat, e \in Nat : /\ z = message.subs[1].size /\ e = message.subs[1].last
                                          /\ e = 1 + LenSize + z
          BY <4>1, <4>2 DEF EntryRight, Entry, LastAt
        <4>4. e <= 0 BY <2>6, <4>2, <4>3 DEF Readable
        <4>5. LenSize \in Nat BY EntryAssumption
        <4> QED BY <4>3, <4>4, <4>5
      <3>6. \E g : GatheredBy(g, k, d + 1)
        <4>1. \A i \in 1 .. 0 : FALSE OBVIOUS
        <4>2. k \in Nat /\ \A i \in 1 .. k : message.subs[i].txs[d + 1] \in TxLists
          BY <3>5, <4>1
        <4> QED BY <4>2, GatheredLemma
      <3>7. Gathered(k, d + 1) = <<>> BY <3>5, <3>6 DEF GatheredBy
      <3> QED BY <1>1, <1>3, <1>5, <2>2, <2>6, <3>1, <3>4, <3>7
    <2>7. (d > MaxDepth \/ d <= MaxDepth) /\ (c > 0 \/ c = 0) BY <1>2, <1>6
    <2> QED BY <2>4, <2>5, <2>6, <2>7
  <1> QED BY <1>7, <1>8, <1>9

\* A batch with one more entry is still what it is said to be.
LEMMA EntryAdded ==
  ASSUME NEW bytes, NEW subs, BatchRight(bytes, subs),
         NEW entry \in Seq(Nat), Len(entry) <= MaxBytes,
         NEW txs \in [0 .. MaxDepth + 1 -> TxLists],
         \A d \in 0 .. MaxDepth + 1 : walk[d][entry] = txs[d]
  PROVE  MessageRight(WithEntry(bytes, subs, entry, txs))
  <1>1. PICK size \in Nat, n \in Nat, e \in Nat : size = Len(bytes) /\ n = Len(subs) /\ e = Len(entry)
    BY DEF BatchRight
  <1>2. bytes \in Seq(Nat) /\ subs \in Seq(Entry) /\ LastAt(subs, n) = size
    BY <1>1 DEF BatchRight
  <1>3. LenSize \in Nat \ {0} BY EntryAssumption
  <1>4. PICK sp \in Seq(Nat) : sp = Spell(e, LenSize) /\ Len(sp) = LenSize BY <1>3, SpellTyped
  <1>5. BigEndian(sp) = e
    <2>1. e \in 0 .. MaxBytes BY <1>1, LengthAssumption
    <2> QED BY <1>4, <2>1, LengthAssumption
  <1>6. PICK c \in Seq(Nat) : c = bytes \o sp BY <1>2, ConcatProperties
  <1>7. PICK h \in Nat : h = size + LenSize BY <1>3
  <1>8. Len(c) = h
    <2>1. Len(bytes \o sp) = Len(bytes) + Len(sp) BY <1>2, ConcatProperties
    <2> QED BY <1>1, <1>4, <1>6, <1>7, <2>1
  <1>9. PICK b \in Seq(Nat) : b = c \o entry BY ConcatProperties
  <1>10. Len(b) = h + e BY <1>1, <1>8, <1>9, ConcatProperties
  <1>11. ASSUME NEW x \in Nat, NEW y \in Nat, y <= size
         PROVE  SubSeq(b, x + 1, y) = SubSeq(bytes, x + 1, y)
    <2>1. y <= Len(c) BY <1>3, <1>7, <1>8, <1>11
    <2>2. SubSeq(b, x + 1, y) = SubSeq(c, x + 1, y) BY <1>9, <2>1, PartOfConcat
    <2>3. SubSeq(c, x + 1, y) = SubSeq(bytes, x + 1, y) BY <1>1, <1>2, <1>6, <1>11, PartOfConcat
    <2> QED BY <2>2, <2>3
  <1>12. SubSeq(b, size + 1, h) = sp
    <2>1. h <= Len(c) BY <1>8
    <2>2. SubSeq(b, size + 1, h) = SubSeq(c, size + 1, h) BY <1>9, <2>1, PartOfConcat
    <2>3. 0 \in Nat /\ LenSize \in Nat /\ LenSize <= Len(sp) BY <1>3, <1>4
    <2>4. SubSeq(bytes \o sp, Len(bytes) + 0 + 1, Len(bytes) + LenSize) = SubSeq(sp, 0 + 1, LenSize)
      BY <1>2, <2>3, PartOfConcat
    <2>5. Len(bytes) + 0 + 1 = size + 1 /\ Len(bytes) + LenSize = h /\ 0 + 1 = 1 BY <1>1, <1>7
    <2>6. SubSeq(sp, 1, LenSize) = sp BY <1>4, SubSeqFull
    <2> QED BY <1>6, <2>2, <2>4, <2>5, <2>6
  <1>13. SubSeq(b, h + 1, h + e) = entry
    <2>1. 0 \in Nat /\ e <= Len(entry) BY <1>1
    <2>2. SubSeq(c \o entry, Len(c) + 0 + 1, Len(c) + e) = SubSeq(entry, 0 + 1, e)
      BY <2>1, PartOfConcat
    <2>3. Len(c) + 0 + 1 = h + 1 /\ Len(c) + e = h + e /\ 0 + 1 = 1 BY <1>8
    <2>4. SubSeq(entry, 1, e) = entry BY <1>1, SubSeqFull
    <2> QED BY <1>9, <2>2, <2>3, <2>4
  <1>14. PICK r \in Entry : r = [last |-> h + e, size |-> e, txs |-> txs]
    <2>1. h + e \in Nat OBVIOUS
    <2> QED BY <2>1 DEF Entry
  <1>15. PICK more \in Seq(Entry) : more = Append(subs, r) BY <1>2, AppendProperties
  <1>16. /\ Len(more) = n + 1 /\ more[n + 1] = r
         /\ \A i \in 1 .. n : more[i] = subs[i]
    BY <1>1, <1>2, <1>15, AppendProperties
  <1>17. /\ \A i \in 0 .. n : LastAt(more, i) = LastAt(subs, i)
         /\ LastAt(more, n + 1) = h + e
    <2>1. \A i \in 0 .. n : i = 0 \/ i \in 1 .. n OBVIOUS
    <2>2. n + 1 # 0 OBVIOUS
    <2>3. \A i \in 0 .. n : LastAt(more, i) = LastAt(subs, i) BY <1>16, <2>1 DEF LastAt
    <2>4. LastAt(more, n + 1) = r.last BY <1>16, <2>2 DEF LastAt
    <2> QED BY <1>14, <2>3, <2>4
  <1>18. ASSUME NEW i \in 1 .. n PROVE EntryRight(b, more, i)
    <2>1. EntryRight(bytes, subs, i) BY <1>1 DEF BatchRight
    <2>2. PICK p \in Nat, z \in Nat, l \in Nat :
              /\ p = LastAt(subs, i - 1) /\ z = subs[i].size /\ l = subs[i].last
              /\ p >= 1 /\ l = p + LenSize + z /\ l <= size
      BY <1>1, <2>1 DEF EntryRight, Entry
    <2>3. more[i] = subs[i] /\ LastAt(more, i - 1) = p
      <3>1. i - 1 \in 0 .. n OBVIOUS
      <3> QED BY <1>16, <1>17, <2>2, <3>1
    <2>4. PICK at \in Nat : at = p + LenSize BY <1>3
    <2>5. at <= size
      <3>1. l = at + z /\ l <= size BY <1>3, <2>2, <2>4
      <3> QED BY <3>1
    <2>6. SizeAt(b, p) = z
      <3>1. SubSeq(b, p + 1, at) = SubSeq(bytes, p + 1, at) BY <1>11, <2>5
      <3>2. SizeAt(bytes, p) = z BY <2>1, <2>2 DEF EntryRight
      <3> QED BY <2>4, <3>1, <3>2 DEF SizeAt
    <2>7. SubSeq(b, at + 1, l) = SubSeq(bytes, at + 1, l) BY <1>11, <2>2
    <2>8. \A d \in 0 .. MaxDepth + 1 : walk[d][SubSeq(b, at + 1, l)] = subs[i].txs[d]
      BY <2>1, <2>2, <2>4, <2>7 DEF EntryRight
    <2>9. l <= Len(b)
      <3>2. l <= size BY <2>2, Zenon
      <3>1. l <= h + e BY <1>3, <1>7, <3>2
      <3> QED BY <1>10, <3>1, Zenon
    <2>10. subs[i] \in Entry BY <2>1 DEF EntryRight
    <2> QED BY <2>2, <2>3, <2>4, <2>6, <2>8, <2>9, <2>10 DEF EntryRight
  <1>19. EntryRight(b, more, n + 1)
    <2>1. LastAt(more, n + 1 - 1) = size
      <3>1. n + 1 - 1 = n /\ n \in 0 .. n OBVIOUS
      <3> QED BY <1>2, <1>17, <3>1
    <2>2. size >= 1
      <3>1. bytes # <<>> BY DEF BatchRight
      <3> QED BY <1>1, <1>2, <3>1, EmptySeq
    <2>3. more[n + 1].last = h + e /\ more[n + 1].size = e /\ more[n + 1].txs = txs
      BY <1>14, <1>16
    <2>4. SizeAt(b, size) = e BY <1>5, <1>7, <1>12 DEF SizeAt
    <2>5. \A d \in 0 .. MaxDepth + 1 : walk[d][SubSeq(b, size + LenSize + 1, h + e)] = txs[d]
      BY <1>7, <1>13
    <2>6. h + e <= Len(b) /\ h + e = size + LenSize + e BY <1>7, <1>10
    <2> QED BY <1>16, <2>1, <2>2, <2>3, <2>4, <2>5, <2>6 DEF EntryRight
  <1>20. b # <<>> /\ b[1] = KIND_BATCH
    <2>1. bytes # <<>> /\ bytes[1] = KIND_BATCH BY DEF BatchRight
    <2>2. 1 \in 1 .. size BY <1>1, <1>2, <2>1, EmptySeq
    <2>3. 1 \in 1 .. h /\ 1 <= size BY <1>3, <1>7, <2>2
    <2>4. c[1] = bytes[1] BY <1>1, <1>2, <1>4, <1>6, <1>7, <2>3, ConcatProperties
    <2>5. 1 \in 1 .. h + e /\ 1 <= h BY <2>3
    <2>6. b[1] = c[1] BY <1>1, <1>8, <1>9, <2>5, ConcatProperties
    <2>7. Len(b) # 0 BY <1>10, <2>5
    <2> QED BY <2>1, <2>4, <2>6, <2>7, EmptySeq
  <1>21. BatchRight(b, more)
    <2>1. \A i \in 1 .. n + 1 : i \in 1 .. n \/ i = n + 1 OBVIOUS
    <2>2. \A i \in 1 .. Len(more) : EntryRight(b, more, i) BY <1>16, <1>18, <1>19, <2>1
    <2> QED BY <1>10, <1>16, <1>17, <1>20, <2>2 DEF BatchRight
  <1>22. WithEntry(bytes, subs, entry, txs) = [kind |-> KIND_BATCH, bytes |-> b, subs |-> more]
    BY <1>1, <1>4, <1>6, <1>7, <1>9, <1>14, <1>15 DEF WithEntry
  <1> QED BY <1>21, <1>22 DEF MessageRight

\* Each of the messages to begin with is what it is said to be.
LEMMA LeafRight ==
  ASSUME NEW leaf \in Leaves
  PROVE  /\ MessageRight(leaf) /\ leaf.kind # KIND_BATCH
         /\ leaf.kind = KIND_SIGNED_TX \/ leaf.kind \notin {KIND_SIGNED_TX, KIND_BATCH}
  <1>1. CASE \E body \in Bodies : leaf = Leaf(KIND_SIGNED_TX, <<KIND_SIGNED_TX>> \o body)
    <2>1. PICK body \in Bodies : leaf = Leaf(KIND_SIGNED_TX, <<KIND_SIGNED_TX>> \o body)
      BY <1>1
    <2>2. body \in Seq(Nat)
      <3>1. Byte \subseteq Nat BY BaseAssumption DEF Byte
      <3>2. body \in Seq(Byte) BY BytesAssumption
      <3> QED BY <3>1, <3>2, SeqMonotonic
    <2>3. PICK first \in Seq(Nat) :
              first = <<KIND_SIGNED_TX>> /\ Len(first) = 1 /\ first[1] = KIND_SIGNED_TX
      <3>1. PICK k \in Nat : k = KIND_SIGNED_TX BY DEF KIND_SIGNED_TX
      <3>2. <<k>> \in Seq(Nat) /\ Len(<<k>>) = 1 /\ <<k>>[1] = k OBVIOUS
      <3> QED BY <3>1, <3>2
    <2>4. PICK b \in Seq(Nat) : b = first \o body BY <2>2, <2>3, ConcatProperties
    <2>5. Len(b) = 1 + Len(body) BY <2>2, <2>3, <2>4, ConcatProperties
    <2>6. 1 \in 1 .. 1 + Len(body) /\ 1 <= 1 BY <2>2
    <2>7. b[1] = KIND_SIGNED_TX BY <2>2, <2>3, <2>4, <2>6, ConcatProperties
    <2>8. b # <<>>
      <3>1. Len(b) # 0 BY <2>2, <2>5
      <3> QED BY <3>1, EmptySeq
    <2>9. leaf.kind = KIND_SIGNED_TX /\ leaf.bytes = b BY <2>1, <2>3, <2>4 DEF Leaf
    <2> QED BY <2>7, <2>8, <2>9 DEF MessageRight, KIND_SIGNED_TX, KIND_BATCH
  <1>2. CASE leaf = Leaf(6, <<6>>)
    <2>1. leaf.kind = 6 /\ leaf.bytes = <<6>> BY <1>2 DEF Leaf
    <2>2. <<6>> \in Seq(Nat) /\ <<6>> # <<>> /\ <<6>>[1] = 6 OBVIOUS
    <2> QED BY <2>1, <2>2 DEF MessageRight, KIND_SIGNED_TX, KIND_BATCH
  <1>3. CASE leaf = Leaf(0, <<>>)
    <2>1. leaf.kind = 0 /\ leaf.bytes = <<>> BY <1>3 DEF Leaf
    <2> QED BY <2>1, EmptySeq DEF MessageRight, KIND_SIGNED_TX, KIND_BATCH
  <1> QED BY <1>1, <1>2, <1>3 DEF Leaves

\* What the walk finds in a transaction, or in a message of another kind.
LEMMA LeafWalk ==
  ASSUME NEW leaf \in Leaves
  PROVE  LET txs == IF leaf.kind = KIND_SIGNED_TX /\ Len(leaf.bytes) > 1
                    THEN <<Tail(leaf.bytes)>> ELSE <<>>
         IN  /\ txs \in TxLists
             /\ \A d \in 0 .. MaxDepth + 1 : walk[d][leaf.bytes] = txs
  <1>1. PICK b \in Seq(Nat) : b = leaf.bytes BY LeafRight DEF MessageRight
  <1>2. <<>> \in TxLists BY EmptySeq DEF TxLists
  <1>3. \A d \in 0 .. MaxDepth + 1 : walk[d][b] = in_message(b, d, walk[d + 1])
    BY WalkLemma DEF Walked
  <1>4. CASE leaf.kind = KIND_SIGNED_TX
    <2>1. b # <<>> /\ b[1] = KIND_SIGNED_TX
      BY <1>1, <1>4, LeafRight DEF MessageRight, KIND_SIGNED_TX, KIND_BATCH
    <2>2. <<Tail(b)>> \in TxLists
      <3>1. Tail(b) \in Seq(Nat) BY <2>1, HeadTailProperties
      <3> QED BY <3>1 DEF TxLists
    <2>3. \A d \in 0 .. MaxDepth + 1 :
              in_message(b, d, walk[d + 1]) = IF Len(b) > 1 THEN <<Tail(b)>> ELSE <<>>
      BY <2>1 DEF in_message, KIND_SIGNED_TX, KIND_BATCH
    <2> QED BY <1>1, <1>2, <1>3, <1>4, <2>2, <2>3
  <1>5. CASE leaf.kind \notin {KIND_SIGNED_TX, KIND_BATCH}
    <2>1. b = <<>> \/ (b # <<>> /\ b[1] = leaf.kind) BY <1>1, <1>5, LeafRight DEF MessageRight
    <2>2. \A d \in 0 .. MaxDepth + 1 : in_message(b, d, walk[d + 1]) = <<>>
      BY <1>5, <2>1 DEF in_message
    <2> QED BY <1>1, <1>2, <1>3, <1>5, <2>2
  <1> QED BY <1>4, <1>5, LeafRight

\* Every L2 message is what it is said to be.
LEMMA MessageInv == Spec => []MessageRight(message)
  <1>1. Init => MessageRight(message)
    <2> SUFFICES ASSUME Init PROVE MessageRight(message) OBVIOUS
    <2>1. message \in Leaves BY DEF Init, Leaves
    <2> QED BY <2>1, LeafRight
  <1>2. MessageRight(message) /\ [Next]_vars => MessageRight(message)'
    <2> SUFFICES ASSUME MessageRight(message), [Next]_vars PROVE MessageRight(message')
      BY DEF MessageRight, BatchRight, EntryRight, SizeAt, LastAt
    <2>1. PICK b \in Seq(Nat), size \in Nat : b = message.bytes /\ size = Len(b)
      BY DEF MessageRight
    <2>2. LenSize \in Nat BY EntryAssumption
    <2>3. CASE Enclose \/ Nest
      <3> DEFINE txs == [d \in 0 .. MaxDepth + 1 |-> Carried(Len(message.bytes), d)]
      <3>1. \A d \in 0 .. MaxDepth + 1 : walk[d][b] = Carried(Len(message.bytes), d)
        <4>1. size \in 0 .. Len(message.bytes) BY <2>1
        <4>2. SubSeq(message.bytes, 1, size) = b BY <2>1, SubSeqFull
        <4> QED BY <2>1, <4>1, <4>2, CarriedLemma
      <3>2. \A d \in 0 .. MaxDepth + 1 : walk[d][b] \in TxLists BY WalkLemma DEF Walks
      <3>3. /\ txs \in [0 .. MaxDepth + 1 -> TxLists]
            /\ \A d \in 0 .. MaxDepth + 1 : walk[d][message.bytes] = txs[d]
        BY <2>1, <3>1, <3>2
      <3>4. /\ message.bytes \in Seq(Nat)
            /\ Enclose => message' = WithEntry(<<KIND_BATCH>>, <<>>, message.bytes, txs)
            /\ Nest => message' = WithEntry(message.bytes, message.subs, message.bytes, txs)
        BY <2>1 DEF Enclose, Nest
      <3> HIDE DEF txs
      <3>5. CASE Enclose
        <4>1. Len(message.bytes) <= MaxBytes
          <5>1. size + 1 + LenSize <= MaxBytes BY <2>1, <3>5 DEF Enclose
          <5>2. size <= MaxBytes BY <2>2, <5>1, LengthAssumption
          <5> QED BY <2>1, <5>2
        <4>2. BatchRight(<<KIND_BATCH>>, <<>>)
          <5>1. /\ <<KIND_BATCH>> \in Seq(Nat) /\ <<KIND_BATCH>> # <<>>
                /\ <<KIND_BATCH>>[1] = KIND_BATCH
            BY DEF KIND_BATCH
          <5>2. <<>> \in Seq(Entry) /\ Len(<<>>) = 0 BY EmptySeq
          <5>3. Len(<<KIND_BATCH>>) = 1 OBVIOUS
          <5>4. LastAt(<<>>, 0) = 1 BY DEF LastAt
          <5>5. \A i \in 1 .. 0 : EntryRight(<<KIND_BATCH>>, <<>>, i) OBVIOUS
          <5> QED BY <5>1, <5>2, <5>3, <5>4, <5>5 DEF BatchRight
        <4>3. MessageRight(WithEntry(<<KIND_BATCH>>, <<>>, message.bytes, txs))
          BY <3>3, <3>4, <4>1, <4>2, EntryAdded
        <4> QED BY <3>4, <3>5, <4>3
      <3>6. CASE Nest
        <4>1. Len(message.bytes) <= MaxBytes
          <5>1. size + LenSize + size <= MaxBytes BY <2>1, <3>6 DEF Nest
          <5>2. size <= MaxBytes BY <2>2, <5>1, LengthAssumption
          <5> QED BY <2>1, <5>2
        <4>2. BatchRight(message.bytes, message.subs)
          <5>1. message.kind = KIND_BATCH BY <3>6 DEF Nest
          <5> QED BY <5>1 DEF MessageRight, KIND_SIGNED_TX, KIND_BATCH
        <4>3. MessageRight(WithEntry(message.bytes, message.subs, message.bytes, txs))
          BY <3>3, <3>4, <4>1, <4>2, EntryAdded
        <4> QED BY <3>4, <3>6, <4>3
      <3> QED BY <2>3, <3>5, <3>6
    <2>4. ASSUME NEW leaf \in Leaves, Join(leaf) PROVE MessageRight(message')
      <3>1. PICK one : one = IF leaf.kind = KIND_SIGNED_TX /\ Len(leaf.bytes) > 1
                             THEN <<Tail(leaf.bytes)>> ELSE <<>>
        OBVIOUS
      <3>2. one \in TxLists /\ \A d \in 0 .. MaxDepth + 1 : walk[d][leaf.bytes] = one
        BY <3>1, LeafWalk
      <3> DEFINE txs == [d \in 0 .. MaxDepth + 1 |-> one]
      <3>3. message' = WithEntry(message.bytes, message.subs, leaf.bytes, txs)
        BY <2>4, <3>1 DEF Join
      <3>4. /\ txs \in [0 .. MaxDepth + 1 -> TxLists]
            /\ \A d \in 0 .. MaxDepth + 1 : walk[d][leaf.bytes] = txs[d]
        BY <3>2
      <3> HIDE DEF txs
      <3>5. BatchRight(message.bytes, message.subs)
        <4>1. message.kind = KIND_BATCH BY <2>4 DEF Join
        <4> QED BY <4>1 DEF MessageRight, KIND_SIGNED_TX, KIND_BATCH
      <3>6. leaf.bytes \in Seq(Nat) BY LeafRight DEF MessageRight
      <3>7. Len(leaf.bytes) <= MaxBytes
        <4>1. PICK n \in Nat : n = Len(leaf.bytes) BY <3>6
        <4>2. size + LenSize + n <= MaxBytes BY <2>1, <2>4, <4>1 DEF Join
        <4>3. n <= MaxBytes BY <2>2, <4>2, LengthAssumption
        <4> QED BY <4>1, <4>3
      <3>8. MessageRight(WithEntry(message.bytes, message.subs, leaf.bytes, txs))
        BY <3>4, <3>5, <3>6, <3>7, EntryAdded
      <3> QED BY <3>3, <3>8
    <2>5. ASSUME NEW piece \in Pieces, Add(piece) PROVE MessageRight(message') BY <2>5 DEF Add
    <2>6. ASSUME NEW x \in Samples, Measure(x) PROVE MessageRight(message') BY <2>6 DEF Measure
    <2>7. CASE Tomorrow BY <2>7 DEF Tomorrow
    <2>8. CASE UNCHANGED vars BY <2>8 DEF vars
    <2> QED BY <2>3, <2>4, <2>5, <2>6, <2>7, <2>8 DEF Next
  <1> QED BY <1>1, <1>2, PTL DEF Spec

\* Of every L2 message, whole or cut short, the walk finds the signed transactions,
\* once and in order, with their bytes and no others, down to the depth limit
\* (signed_txs and walk, l2.rs).
THEOREM SignedTxsCorrect == Spec => []SignedTxsExact
  <1>1. MessageRight(message) => SignedTxsExact
    <2> SUFFICES ASSUME MessageRight(message), NEW c \in 0 .. Len(message.bytes)
                 PROVE  signed_txs(SubSeq(message.bytes, 1, c)) = Carried(c, 0)
      BY DEF SignedTxsExact
    <2>1. 0 \in 0 .. MaxDepth + 1 BY EntryAssumption
    <2>2. walk[0][SubSeq(message.bytes, 1, c)] = Carried(c, 0) BY <2>1, CarriedLemma
    <2> QED BY <2>2 DEF signed_txs
  <1> QED BY <1>1, MessageInv, PTL

-----------------------------------------------------------------------------
(***************************************************************************)
(* Transactions in a binary frame.                                         *)
(***************************************************************************)

\* A number that fits is not cut off.
LEMMA UsizeLemma ==
  ASSUME NEW x \in Nat, x < Usize
  PROVE  usize(x) = x
  <1>1. PICK u \in Nat : u = Usize BY ClassAssumption
  <1>2. x % u = x BY <1>1
  <1> QED BY <1>1, <1>2 DEF usize

\* A part of a sequence of bytes.
LEMMA BytesPart ==
  ASSUME NEW s \in Seq(Byte), NEW a \in Nat, NEW b \in Nat, b <= Len(s)
  PROVE  /\ SubSeq(s, a + 1, b) \in Seq(Byte) /\ SubSeq(s, a + 1, b) \in Seq(Nat)
         /\ Len(SubSeq(s, a + 1, b)) = IF a < b THEN b - a ELSE 0
         /\ \A i \in 1 .. b - a : SubSeq(s, a + 1, b)[i] = s[a + i]
  <1>0. Byte \subseteq Nat BY BaseAssumption DEF Byte
  <1>1. s \in Seq(Nat) BY <1>0, SeqMonotonic
  <1>2. PICK m \in Int : m = a + 1 OBVIOUS
  <1>3. \A i \in m .. b : s[i] \in Byte BY <1>2
  <1>4. b \in Int OBVIOUS
  <1>5. SubSeq(s, m, b) \in Seq(Byte) BY <1>3, <1>4, SubSeqProperties
  <1> QED BY <1>1, <1>2, <1>5, PartLemma

\* Bytes that are at most Word spell a usize.
LEMMA UsizeBytes ==
  ASSUME NEW s \in Seq(Byte), Len(s) \in 1 .. Word
  PROVE  be(s) = BigEndian(s) /\ BigEndian(s) \in Nat
  <1>0. Byte \subseteq Nat BY BaseAssumption DEF Byte
  <1>1. s \in Seq(Nat) BY <1>0, SeqMonotonic
  <1>2. BigEndian(s) \in Nat BY <1>1, BigEndianTyped
  <1>3. PICK size \in 1 .. Word : size = Len(s) OBVIOUS
  <1>4. s \in [1 .. size -> 0 .. Base - 1] BY <1>3, LenProperties DEF Byte
  <1>5. size \in 0 .. Word BY <1>3, ClassAssumption
  <1>6. BigEndian(s) < Usize BY <1>4, <1>5, UsizeAssumption
  <1>7. usize(BigEndian(s)) = BigEndian(s) BY <1>2, <1>6, UsizeLemma
  <1>8. s # <<>> /\ ~ (Len(s) > Word)
    <2>1. Word \in Nat /\ size # 0 /\ size <= Word BY <1>3, ClassAssumption
    <2> QED BY <1>3, <2>1, EmptySeq
  <1> QED BY <1>2, <1>7, <1>8 DEF be

\* A sum that wraps is a number too.
LEMMA UsizeTyped ==
  ASSUME NEW x \in Nat
  PROVE  usize(x) \in Nat
  <1>1. PICK u \in Nat : u = Usize /\ u > 0
    <2>1. Usize \in Nat /\ Base < Usize /\ Base = LISTLONG + Word /\ LISTLONG \in Nat /\ Word \in Nat
      BY ClassAssumption
    <2> QED BY <2>1
  <1>2. x % u \in Nat BY <1>1
  <1> QED BY <1>1, <1>2 DEF usize

\* The first n of some bytes.
LEMMA StartLemma ==
  ASSUME NEW b \in Seq(Byte), NEW n \in Nat, n <= Len(b)
  PROVE  \E c \in Seq(Nat) :
            /\ c = SubSeq(b, 1, n) /\ Len(c) = n /\ (n = 0 <=> c = <<>>)
            /\ \A i \in 1 .. n : c[i] = b[i]
  <1>1. 0 \in Nat /\ 0 + 1 = 1 /\ n - 0 = n OBVIOUS
  <1>2. /\ SubSeq(b, 0 + 1, n) \in Seq(Nat)
        /\ Len(SubSeq(b, 0 + 1, n)) = IF 0 < n THEN n - 0 ELSE 0
        /\ \A i \in 1 .. n - 0 : SubSeq(b, 0 + 1, n)[i] = b[0 + i]
    BY <1>1, BytesPart
  <1>3. PICK c \in Seq(Nat) : c = SubSeq(b, 1, n) BY <1>1, <1>2
  <1>4. Len(c) = n BY <1>1, <1>2, <1>3
  <1>5. \A i \in 1 .. n : c[i] = b[i]
    <2> SUFFICES ASSUME NEW i \in 1 .. n PROVE c[i] = b[i] OBVIOUS
    <2>1. i \in 1 .. n - 0 /\ 0 + i = i OBVIOUS
    <2> QED BY <1>1, <1>2, <1>3, <2>1
  <1>6. n = 0 <=> c = <<>> BY <1>4, EmptySeq
  <1> QED BY <1>3, <1>4, <1>5, <1>6

\* Which bytes are a list whose length takes ll bytes.
LEMMA LongList ==
  ASSUME NEW b \in Seq(Byte), NEW ll \in 1 .. Word, b # <<>>, b[1] = LISTLONG + ll - 1,
         NEW n \in Nat, n <= Len(b)
  PROVE  IsList(SubSeq(b, 1, n)) <=> n > ll /\ n = 1 + ll + BigEndian(SubSeq(b, 2, 1 + ll))
  <1>0. Byte \subseteq Nat BY BaseAssumption DEF Byte
  <1>1. /\ LIST \in Nat /\ LISTLONG \in Nat /\ Word \in Nat /\ LIST < LISTLONG
        /\ ll \in Nat /\ ll >= 1
    BY ClassAssumption
  <1>2. PICK x \in Nat : x = b[1] /\ x = LISTLONG + ll - 1 BY <1>1
  <1>3. PICK c \in Seq(Nat) : /\ c = SubSeq(b, 1, n) /\ Len(c) = n /\ (n = 0 <=> c = <<>>)
                              /\ n >= 1 => c[1] = x
    <2>1. PICK c \in Seq(Nat) : /\ c = SubSeq(b, 1, n) /\ Len(c) = n /\ (n = 0 <=> c = <<>>)
                                /\ \A i \in 1 .. n : c[i] = b[i]
      BY StartLemma
    <2>2. n >= 1 => 1 \in 1 .. n OBVIOUS
    <2> QED BY <1>2, <2>1, <2>2
  <1>4. ASSUME n > ll PROVE SubSeq(c, 2, 1 + ll) = SubSeq(b, 2, 1 + ll)
    <2>1. b \in Seq(Nat) BY <1>0, SeqMonotonic
    <2>2. PICK e \in Nat : e = 1 + ll BY <1>1
    <2>3. /\ 0 \in Nat /\ 1 \in Nat /\ 0 <= n /\ n <= Len(b) /\ e <= n - 0
          /\ 0 + 1 = 1 /\ 1 + 1 = 2 /\ 0 + 1 + 1 = 2 /\ 0 + e = e
      BY <1>1, <1>4, <2>2
    <2>4. SubSeq(SubSeq(b, 0 + 1, n), 1 + 1, e) = SubSeq(b, 0 + 1 + 1, 0 + e)
      BY <2>1, <2>3, PartOfPart
    <2> QED BY <1>3, <2>2, <2>3, <2>4
  <1>5. ASSUME n > ll, n = 1 + ll + BigEndian(SubSeq(b, 2, 1 + ll)) PROVE IsList(c)
    <2>1. Len(c) > ll /\ Len(c) = 1 + ll + BigEndian(SubSeq(c, 2, 1 + ll)) BY <1>3, <1>4, <1>5
    <2>2. n >= 1 BY <1>1, <1>5
    <2>3. c[1] = LISTLONG + ll - 1 BY <1>2, <1>3, <2>2
    <2> QED BY <2>1, <2>3 DEF IsList
  <1>6. ASSUME IsList(c)
        PROVE  n > ll /\ n = 1 + ll + BigEndian(SubSeq(b, 2, 1 + ll))
    <2>1. CASE \E q \in 0 .. LISTLONG - LIST - 1 : c # <<>> /\ c[1] = LIST + q
      <3>1. PICK q \in 0 .. LISTLONG - LIST - 1 : c # <<>> /\ c[1] = LIST + q BY <2>1
      <3>2. n >= 1 BY <1>3, <3>1
      <3>3. x = LIST + q /\ q \in Nat /\ q <= LISTLONG - LIST - 1 BY <1>1, <1>3, <3>1, <3>2
      <3> QED BY <1>1, <1>2, <3>3
    <2>2. CASE \E l2 \in 1 .. Word : /\ Len(c) > l2 /\ c[1] = LISTLONG + l2 - 1
                                     /\ Len(c) = 1 + l2 + BigEndian(SubSeq(c, 2, 1 + l2))
      <3>1. PICK l2 \in 1 .. Word : /\ Len(c) > l2 /\ c[1] = LISTLONG + l2 - 1
                                    /\ Len(c) = 1 + l2 + BigEndian(SubSeq(c, 2, 1 + l2))
        BY <2>2
      <3>2. l2 \in Nat /\ l2 >= 1 BY <1>1, <3>1
      <3>3. n >= 1 BY <1>3, <3>1, <3>2
      <3>4. x = LISTLONG + l2 - 1 BY <1>3, <3>1, <3>3
      <3>5. l2 = ll BY <1>1, <1>2, <3>2, <3>4
      <3> QED BY <1>3, <1>4, <3>1, <3>5
    <2> QED BY <1>6, <2>1, <2>2 DEF IsList
  <1> QED BY <1>3, <1>5, <1>6

\* The length that a list states in ll bytes is a number.
LEMMA StatedTyped ==
  ASSUME NEW b \in Seq(Byte), NEW ll \in 1 .. Word, Len(b) > ll
  PROVE  \E s \in Seq(Byte) : /\ s = SubSeq(b, 2, 1 + ll) /\ Len(s) = ll
                              /\ be(s) = BigEndian(s) /\ BigEndian(s) \in Nat
  <1>1. ll \in Nat /\ ll >= 1 /\ ll <= Word /\ Word \in Nat BY ClassAssumption
  <1>2. PICK e \in Nat : e = 1 + ll /\ e <= Len(b) /\ e - 1 = ll /\ 1 < e BY <1>1
  <1>3. 1 \in Nat /\ 1 + 1 = 2 OBVIOUS
  <1>4. SubSeq(b, 1 + 1, e) \in Seq(Byte) /\ Len(SubSeq(b, 1 + 1, e)) = ll
    BY <1>2, <1>3, BytesPart
  <1>5. PICK s \in Seq(Byte) : s = SubSeq(b, 2, 1 + ll) /\ Len(s) = ll BY <1>2, <1>3, <1>4
  <1>6. be(s) = BigEndian(s) /\ BigEndian(s) \in Nat BY <1>5, UsizeBytes
  <1> QED BY <1>5, <1>6

\* No bytes that fit in the memory are a list whose length leaves usize.
LEMMA TooLongLemma ==
  ASSUME NEW b \in Seq(Byte), NEW extra \in Nat, TooLong(b, extra), extra + Len(b) < Usize,
         NEW n \in Nat, n <= Len(b)
  PROVE  ~ IsList(SubSeq(b, 1, n))
  <1>1. PICK ll \in 1 .. Word :
           /\ Len(b) > ll /\ b[1] = LISTLONG + ll - 1
           /\ extra + 1 + ll + BigEndian(SubSeq(b, 2, 1 + ll)) >= Usize
    BY DEF TooLong
  <1>2. ll \in Nat /\ ll >= 1 /\ Usize \in Nat BY ClassAssumption
  <1>3. b # <<>> BY <1>1, <1>2, EmptySeq
  <1>4. PICK v \in Nat : v = BigEndian(SubSeq(b, 2, 1 + ll)) BY <1>1, StatedTyped
  <1>5. IsList(SubSeq(b, 1, n)) => n = 1 + ll + v BY <1>1, <1>3, <1>4, LongList
  <1>6. extra + 1 + ll + v >= Usize BY <1>1, <1>4
  <1> QED BY <1>2, <1>5, <1>6

\* The length of the list that some bytes begin with is that of the list, unless
\* it leaves usize.
LEMMA ItemLemma ==
  ASSUME NEW b \in Seq(Byte), b # <<>>, b[1] >= LIST, NEW extra \in {0, 1}
  PROVE  /\ rlp_item_len(b) = None \/ rlp_item_len(b) \in Nat
         /\ ~ TooLong(b, extra) =>
               /\ rlp_item_len(b) = None \/ rlp_item_len(b) + extra < Usize
               /\ \A n \in Nat : n <= Len(b) =>
                      (rlp_item_len(b) = n <=> IsList(SubSeq(b, 1, n)))
  <1>0. Byte \subseteq Nat BY BaseAssumption DEF Byte
  <1>1. PICK k \in Nat : k = Len(b) /\ k >= 1 BY EmptySeq
  <1>2. PICK x \in Nat : x = b[1] /\ x <= Base - 1
    <2>1. 1 \in 1 .. k BY <1>1
    <2>2. b[1] \in Byte BY <1>1, <2>1
    <2> QED BY <1>0, <2>2 DEF Byte
  <1>3. /\ LIST \in Nat /\ LISTLONG \in Nat /\ Word \in Nat /\ STR \in Nat /\ STRLONG \in Nat
        /\ STR < LIST /\ STRLONG < LIST /\ LIST < LISTLONG /\ 0 < LIST
        /\ Base = LISTLONG + Word /\ Base < Usize /\ Usize \in Nat
    BY ClassAssumption
  <1>4. x >= LIST BY <1>2
  <1>5. ASSUME NEW n \in Nat, n <= k
        PROVE  \E c \in Seq(Nat) :
                  /\ c = SubSeq(b, 1, n) /\ Len(c) = n /\ (n = 0 <=> c = <<>>)
                  /\ n >= 1 => c[1] = x
    <2>1. 0 \in Nat /\ 0 + 1 = 1 /\ n <= Len(b) /\ n - 0 = n BY <1>1, <1>5
    <2>2. /\ SubSeq(b, 0 + 1, n) \in Seq(Nat)
          /\ Len(SubSeq(b, 0 + 1, n)) = IF 0 < n THEN n - 0 ELSE 0
          /\ \A i \in 1 .. n - 0 : SubSeq(b, 0 + 1, n)[i] = b[0 + i]
      BY <2>1, BytesPart
    <2>3. PICK c \in Seq(Nat) : c = SubSeq(b, 1, n) BY <2>1, <2>2
    <2>4. Len(c) = n BY <2>1, <2>2, <2>3
    <2>5. n >= 1 => c[1] = x
      <3> SUFFICES ASSUME n >= 1 PROVE c[1] = b[0 + 1] BY <1>2
      <3>1. 1 \in 1 .. n - 0 OBVIOUS
      <3> QED BY <2>1, <2>2, <2>3, <3>1
    <2>6. n = 0 <=> c = <<>> BY <2>4, EmptySeq
    <2> QED BY <2>3, <2>4, <2>5, <2>6
  <1>6. CASE x < LISTLONG
    <2>1. rlp_item_len(b) = 1 + (x - LIST)
      BY <1>2, <1>3, <1>4, <1>6 DEF rlp_item_len
    <2>2. PICK m \in Nat : m = x - LIST /\ m \in 0 .. LISTLONG - LIST - 1 BY <1>3, <1>4, <1>6
    <2>3. 1 + m \in Nat /\ 1 + m + 1 < Usize BY <1>3, <1>6, <2>2
    <2>4. ASSUME NEW n \in Nat, n <= k PROVE 1 + m = n <=> IsList(SubSeq(b, 1, n))
      <3>1. PICK c \in Seq(Nat) : /\ c = SubSeq(b, 1, n) /\ Len(c) = n /\ (n = 0 <=> c = <<>>)
                                  /\ n >= 1 => c[1] = x
        BY <1>5, <2>4
      <3>2. ASSUME 1 + m = n PROVE IsList(c)
        <4>1. c # <<>> /\ c[1] = LIST + m /\ Len(c) = 1 + m BY <1>3, <2>2, <3>1, <3>2
        <4> QED BY <2>2, <4>1 DEF IsList
      <3>3. ASSUME IsList(c) PROVE 1 + m = n
        <4>1. CASE \E q \in 0 .. LISTLONG - LIST - 1 : c # <<>> /\ c[1] = LIST + q /\ Len(c) = 1 + q
          <5>1. PICK q \in 0 .. LISTLONG - LIST - 1 : c # <<>> /\ c[1] = LIST + q /\ Len(c) = 1 + q
            BY <4>1
          <5>2. q \in Nat /\ n = 1 + q /\ x = LIST + q BY <1>3, <3>1, <5>1
          <5> QED BY <1>3, <2>2, <5>2
        <4>2. CASE \E ll \in 1 .. Word : Len(c) > ll /\ c[1] = LISTLONG + ll - 1
          <5>1. PICK ll \in 1 .. Word : Len(c) > ll /\ c[1] = LISTLONG + ll - 1 BY <4>2
          <5>2. ll \in Nat /\ ll >= 1 /\ n >= 1 BY <1>3, <3>1, <5>1
          <5>3. x = LISTLONG + ll - 1 BY <3>1, <5>1, <5>2
          <5> QED BY <1>3, <1>6, <5>2, <5>3
        <4> QED BY <3>3, <4>1, <4>2 DEF IsList
      <3> QED BY <3>1, <3>2, <3>3
    <2>5. PICK q \in Nat : q = 1 + m /\ q + extra < Usize
      <3>1. extra = 0 \/ extra = 1 OBVIOUS
      <3> QED BY <1>3, <2>3, <3>1
    <2>6. rlp_item_len(b) = q BY <2>1, <2>2, <2>5
    <2>7. \A n \in Nat : n <= Len(b) => (q = n <=> IsList(SubSeq(b, 1, n)))
      BY <1>1, <2>4, <2>5
    <2> QED BY <2>5, <2>6, <2>7
  <1>7. CASE x >= LISTLONG
    <2>1. PICK ll \in 1 .. Word : ll = x - (LISTLONG - 1) BY <1>2, <1>3, <1>7
    <2>2. ll \in Nat /\ ll >= 1 /\ ll <= Word /\ x = LISTLONG + ll - 1 BY <1>3, <2>1
    <2>3. rlp_item_len(b) = long_len(b, ll) BY <1>2, <1>3, <1>4, <1>7, <2>1 DEF rlp_item_len
    <2>4. ASSUME NEW n \in Nat, n <= k
          PROVE  IsList(SubSeq(b, 1, n)) <=>
                    n > ll /\ n = 1 + ll + BigEndian(SubSeq(b, 2, 1 + ll))
      <3>1. b[1] = LISTLONG + ll - 1 /\ n <= Len(b) BY <1>1, <1>2, <2>2, <2>4
      <3> QED BY <3>1, LongList
    <2>5. CASE k < 1 + ll
      <3>1. long_len(b, ll) = None BY <1>1, <2>5 DEF long_len
      <3>2. ASSUME NEW n \in Nat, n <= k PROVE ~ (n > ll) /\ n # None
        BY <2>2, <2>5, <3>2, SplitAssumption
      <3>3. ASSUME NEW n \in Nat, n <= k PROVE None # n /\ ~ IsList(SubSeq(b, 1, n))
        BY <2>4, <3>2, <3>3
      <3> QED BY <1>1, <2>3, <3>1, <3>3
    <2>6. CASE ~ (k < 1 + ll)
      <3>1. Len(b) > ll BY <1>1, <2>2, <2>6
      <3>2. PICK s \in Seq(Byte) : /\ s = SubSeq(b, 2, 1 + ll) /\ Len(s) = ll
                                   /\ be(s) = BigEndian(s) /\ BigEndian(s) \in Nat
        BY <2>1, <3>1, StatedTyped
      <3>3. PICK v \in Nat : v = BigEndian(s) /\ v = be(s) BY <3>2
      <3>4. PICK m \in Nat : m = 1 + ll + v BY <2>2
      <3>5. long_len(b, ll) = usize(m)
        <4>1. ~ (Len(b) < 1 + ll) /\ ~ (ll > Word) BY <1>1, <1>3, <2>2, <2>6
        <4>2. long_len(b, ll) = usize(1 + ll + v) BY <3>2, <3>3, <4>1 DEF long_len
        <4> QED BY <3>4, <4>2
      <3>6. rlp_item_len(b) \in Nat BY <2>3, <3>5, UsizeTyped
      <3>7. ASSUME ~ TooLong(b, extra) PROVE extra + m < Usize
        <4>1. b[1] = LISTLONG + ll - 1 BY <1>2, <2>2
        <4>2. ~ (extra + 1 + ll + BigEndian(SubSeq(b, 2, 1 + ll)) >= Usize)
          BY <2>1, <3>1, <3>7, <4>1 DEF TooLong
        <4>3. ~ (extra + 1 + ll + v >= Usize) BY <3>2, <3>3, <4>2
        <4> QED BY <1>3, <2>2, <3>4, <4>3
      <3>8. ASSUME ~ TooLong(b, extra) PROVE rlp_item_len(b) = m /\ m + extra < Usize
        <4>1. extra + m < Usize BY <3>7, <3>8
        <4>2. m < Usize BY <1>3, <4>1
        <4> QED BY <1>3, <2>3, <3>5, <4>1, <4>2, UsizeLemma
      <3>9. ASSUME NEW n \in Nat, n <= k PROVE m = n <=> IsList(SubSeq(b, 1, n))
        <4>1. IsList(SubSeq(b, 1, n)) <=> n > ll /\ n = 1 + ll + v BY <2>4, <3>2, <3>3, <3>9
        <4>2. m > ll BY <2>2, <3>4
        <4> QED BY <3>4, <4>1, <4>2
      <3> QED BY <1>1, <3>6, <3>8, <3>9
    <2> QED BY <2>5, <2>6
  <1>8. x < LISTLONG \/ x >= LISTLONG BY <1>3
  <1> QED BY <1>6, <1>7, <1>8

\* The length of the transaction that some bytes begin with is that of the
\* transaction, unless it leaves usize, which that of no transaction does.
LEMMA TxLemma ==
  ASSUME NEW b \in Seq(Byte)
  PROVE  /\ tx_len(b) = None \/ tx_len(b) \in Nat
         /\ ~ Wraps(b) => \A n \in Nat : n <= Len(b) =>
                (tx_len(b) = n /\ n >= MinTx <=> IsTx(SubSeq(b, 1, n)))
         /\ Len(b) < Usize => \A n \in Nat : n <= Len(b) =>
                (IsTx(SubSeq(b, 1, n)) => ~ Wraps(b))
  <1>0. Byte \subseteq Nat BY BaseAssumption DEF Byte
  <1>1. PICK k \in Nat : k = Len(b) OBVIOUS
  <1>2. MinTx \in Nat /\ MinTx >= 1 /\ None \notin Nat BY SplitAssumption
  <1>3. /\ LIST \in Nat /\ LISTLONG \in Nat /\ STR \in Nat /\ Word \in Nat /\ Usize \in Nat
        /\ STR < LIST /\ LIST < LISTLONG
    BY ClassAssumption
  <1>4. ASSUME NEW n \in Nat, n <= k
        PROVE  \E c \in Seq(Nat) :
                  /\ c = SubSeq(b, 1, n) /\ Len(c) = n /\ (n = 0 <=> c = <<>>)
                  /\ \A i \in 1 .. n : c[i] = b[i]
    BY <1>1, <1>4, StartLemma
  \* What begins a list is the first byte of one.
  <1>5. ASSUME NEW c \in Seq(Nat), IsList(c) PROVE c # <<>> /\ c[1] >= LIST
    <2>1. CASE \E q \in 0 .. LISTLONG - LIST - 1 : c # <<>> /\ c[1] = LIST + q
      <3>1. PICK q \in 0 .. LISTLONG - LIST - 1 : c # <<>> /\ c[1] = LIST + q BY <2>1
      <3>2. q \in Nat BY <1>3, <3>1
      <3> QED BY <1>3, <3>1, <3>2
    <2>2. CASE \E ll \in 1 .. Word : Len(c) > ll /\ c[1] = LISTLONG + ll - 1
      <3>1. PICK ll \in 1 .. Word : Len(c) > ll /\ c[1] = LISTLONG + ll - 1 BY <2>2
      <3>2. ll \in Nat /\ ll >= 1 BY <1>3, <3>1
      <3>3. Len(c) # 0 BY <3>1, <3>2
      <3> QED BY <1>3, <3>1, <3>2, <3>3, EmptySeq
    <2> QED BY <1>5, <2>1, <2>2 DEF IsList
  <1>6. CASE b = <<>>
    <2>1. tx_len(b) = None BY <1>6 DEF tx_len
    <2>2. k = 0 BY <1>1, <1>6, EmptySeq
    <2>3. ASSUME NEW n \in Nat, n <= k PROVE n # None /\ ~ IsTx(SubSeq(b, 1, n))
      <3>1. n = 0 BY <2>2, <2>3
      <3>2. PICK c \in Seq(Nat) : c = SubSeq(b, 1, n) /\ Len(c) = n BY <1>4, <2>3
      <3>3. ~ (Len(c) >= MinTx) BY <1>2, <3>1, <3>2
      <3> QED BY <1>2, <3>2, <3>3 DEF IsTx
    <2> QED BY <1>1, <2>1, <2>3
  <1>7. CASE b # <<>>
    <2>1. PICK x \in Nat : x = b[1]
      <3>1. 1 \in 1 .. k BY <1>1, <1>7, EmptySeq
      <3>2. b[1] \in Byte BY <1>1, <3>1
      <3> QED BY <1>0, <3>2
    <2>2. k >= 1 BY <1>1, <1>7, EmptySeq
    <2>3. ASSUME NEW n \in Nat, n <= k, n >= MinTx
          PROVE  \E c \in Seq(Nat) : /\ c = SubSeq(b, 1, n) /\ Len(c) = n /\ c # <<>> /\ c[1] = x
                                     /\ \A i \in 1 .. n : c[i] = b[i]
      <3>1. PICK c \in Seq(Nat) : /\ c = SubSeq(b, 1, n) /\ Len(c) = n /\ (n = 0 <=> c = <<>>)
                                  /\ \A i \in 1 .. n : c[i] = b[i]
        BY <1>4, <2>3
      <3>2. n # 0 /\ 1 \in 1 .. n BY <1>2, <2>3
      <3> QED BY <2>1, <3>1, <3>2
    <2>4. ASSUME NEW n \in Nat, n <= k, ~ (n >= MinTx) PROVE ~ IsTx(SubSeq(b, 1, n))
      <3>1. PICK c \in Seq(Nat) : c = SubSeq(b, 1, n) /\ Len(c) = n BY <1>4, <2>4
      <3> QED BY <2>4, <3>1 DEF IsTx
    <2>5. CASE x >= LIST
      <3>1. tx_len(b) = rlp_item_len(b) BY <1>3, <1>7, <2>1, <2>5 DEF tx_len
      <3>2. /\ rlp_item_len(b) = None \/ rlp_item_len(b) \in Nat
            /\ ~ TooLong(b, 0) => \A n \in Nat : n <= Len(b) =>
                   (rlp_item_len(b) = n <=> IsList(SubSeq(b, 1, n)))
        BY <1>7, <2>1, <2>5, ItemLemma
      <3>4. Wraps(b) <=> TooLong(b, 0)
        <4>1. ~ (b[1] < STR) BY <1>3, <2>1, <2>5
        <4> QED BY <4>1 DEF Wraps
      <3>3. ASSUME NEW n \in Nat, n <= k, n >= MinTx
            PROVE  IsTx(SubSeq(b, 1, n)) <=> IsList(SubSeq(b, 1, n))
        <4>1. PICK c \in Seq(Nat) : c = SubSeq(b, 1, n) /\ Len(c) = n /\ c # <<>> /\ c[1] = x
          BY <2>3, <3>3
        <4>2. ~ (c[1] < STR) BY <1>3, <2>5, <4>1
        <4> QED BY <3>3, <4>1, <4>2 DEF IsTx
      <3>5. ASSUME Len(b) < Usize, NEW n \in Nat, n <= k, IsTx(SubSeq(b, 1, n))
            PROVE  ~ Wraps(b)
        <4>1. n >= MinTx BY <2>4, <3>5
        <4>2. IsList(SubSeq(b, 1, n)) BY <3>3, <3>5, <4>1
        <4>3. 0 \in Nat /\ 0 + Len(b) < Usize /\ n <= Len(b) BY <1>1, <3>5
        <4> QED BY <3>4, <4>2, <4>3, TooLongLemma
      <3> QED BY <1>1, <2>4, <3>1, <3>2, <3>3, <3>4, <3>5
    <2>6. CASE x >= STR /\ x < LIST
      <3>1. tx_len(b) = None BY <1>3, <1>7, <2>1, <2>6 DEF tx_len
      <3>2. ASSUME NEW n \in Nat, n <= k PROVE None # n /\ ~ IsTx(SubSeq(b, 1, n))
        <4>1. CASE n >= MinTx
          <5>1. PICK c \in Seq(Nat) : c = SubSeq(b, 1, n) /\ c # <<>> /\ c[1] = x BY <2>3, <3>2, <4>1
          <5>2. ~ (c[1] < STR) /\ ~ (c[1] >= LIST) BY <1>3, <2>6, <5>1
          <5>3. ~ IsList(c) BY <1>5, <5>2
          <5> QED BY <1>2, <5>1, <5>2, <5>3 DEF IsTx
        <4> QED BY <1>2, <2>4, <3>2, <4>1
      <3> QED BY <1>1, <3>1, <3>2
    <2>7. CASE x < STR
      <3>1. PICK body \in Seq(Byte) :
                body = Tail(b) /\ body = SubSeq(b, 1 + 1, k) /\ Len(body) = k - 1
        <4>1. Tail(b) \in Seq(Byte) /\ Len(Tail(b)) = k - 1 BY <1>1, <1>7, HeadTailProperties
        <4>2. Tail(b) = SubSeq(b, 2, k) BY <1>1, <1>7, TailIsSubSeq
        <4>3. 1 + 1 = 2 OBVIOUS
        <4> QED BY <4>1, <4>2, <4>3
      <3>2. Wraps(b) <=> TooLong(body, 1)
        <4>1. ~ TooLong(b, 0)
          <5>1. \A ll \in 1 .. Word : x # LISTLONG + ll - 1 BY <1>3, <2>7
          <5> QED BY <2>1, <5>1 DEF TooLong
        <4> QED BY <1>7, <2>1, <2>7, <3>1, <4>1 DEF Wraps
      <3>3. tx_len(b) = IF body = <<>> \/ Head(body) < LIST \/ rlp_item_len(body) = None
                        THEN None ELSE usize(1 + rlp_item_len(body))
        <4>1. b[1] < STR /\ ~ (b[1] >= LIST) BY <1>3, <2>1, <2>7
        <4> QED BY <1>7, <3>1, <4>1, Zenon DEF tx_len
      \* The rest of a transaction in an envelope.
      <3>4. ASSUME NEW n \in Nat, n <= k, n >= MinTx
            PROVE  /\ n - 1 \in Nat /\ n - 1 <= Len(body)
                   /\ IsTx(SubSeq(b, 1, n)) <=> IsList(SubSeq(body, 1, n - 1))
        <4>1. PICK c \in Seq(Nat) : /\ c = SubSeq(b, 1, n) /\ Len(c) = n /\ c # <<>> /\ c[1] = x
          BY <2>3, <3>4
        <4>2. PICK m \in Nat : m = n - 1 /\ m <= Len(body) BY <1>2, <3>1, <3>4
        <4>3. Tail(c) = SubSeq(body, 1, m)
          <5>1. b \in Seq(Nat) BY <1>0, SeqMonotonic
          <5>2. Tail(c) = SubSeq(c, 2, n) BY <4>1, TailIsSubSeq
          <5>3. /\ 0 \in Nat /\ 1 \in Nat /\ 0 <= n /\ n <= Len(b) /\ n <= n - 0
                /\ 0 + 1 = 1 /\ 1 + 1 = 2 /\ 0 + 1 + 1 = 2 /\ 0 + n = n
            BY <1>1, <3>4
          <5>4. SubSeq(SubSeq(b, 0 + 1, n), 1 + 1, n) = SubSeq(b, 0 + 1 + 1, 0 + n)
            BY <5>1, <5>3, PartOfPart
          <5>5. /\ 1 <= k /\ k <= Len(b) /\ m <= k - 1 /\ 1 + 0 + 1 = 2 /\ 1 + m = n
            BY <1>1, <2>2, <3>4, <4>2
          <5>6. SubSeq(SubSeq(b, 1 + 1, k), 0 + 1, m) = SubSeq(b, 1 + 0 + 1, 1 + m)
            BY <5>1, <5>3, <5>5, PartOfPart
          <5>7. SubSeq(c, 2, n) = SubSeq(b, 2, n) BY <4>1, <5>3, <5>4
          <5>8. SubSeq(body, 1, m) = SubSeq(b, 2, n) BY <3>1, <5>3, <5>5, <5>6
          <5> QED BY <5>2, <5>7, <5>8
        <4>4. ~ IsList(c)
          <5>1. ~ (c[1] >= LIST) BY <1>3, <2>7, <4>1
          <5> QED BY <1>5, <5>1
        <4>5. IsTx(c) <=> IsList(Tail(c)) BY <2>7, <3>4, <4>1, <4>4 DEF IsTx
        <4> QED BY <4>1, <4>2, <4>3, <4>5
      \* No list begins with another byte.
      <3>5. ASSUME NEW m \in Nat, m <= Len(body), IsList(SubSeq(body, 1, m))
            PROVE  body # <<>> /\ body[1] >= LIST
        <4>1. 0 \in Nat /\ 0 + 1 = 1 /\ m - 0 = m OBVIOUS
        <4>2. /\ SubSeq(body, 0 + 1, m) \in Seq(Nat)
              /\ Len(SubSeq(body, 0 + 1, m)) = IF 0 < m THEN m - 0 ELSE 0
              /\ \A i \in 1 .. m - 0 : SubSeq(body, 0 + 1, m)[i] = body[0 + i]
          BY <3>5, <4>1, BytesPart
        <4>3. PICK c \in Seq(Nat) : c = SubSeq(body, 1, m) BY <4>1, <4>2
        <4>4. c # <<>> /\ c[1] >= LIST BY <1>5, <3>5, <4>3
        <4>5. m # 0 BY <4>1, <4>2, <4>3, <4>4, EmptySeq
        <4>6. 1 \in 1 .. m - 0 BY <4>5
        <4>7. c[1] = body[1] BY <4>1, <4>2, <4>3, <4>6
        <4>8. Len(body) # 0 BY <3>5, <4>5
        <4> QED BY <4>4, <4>7, <4>8, EmptySeq
      <3>6. CASE body = <<>> \/ Head(body) < LIST
        <4>1. tx_len(b) = None BY <3>3, <3>6
        <4>2. ~ (body # <<>> /\ body[1] >= LIST)
          <5> SUFFICES ASSUME body # <<>>, body[1] >= LIST PROVE FALSE OBVIOUS
          <5>1. Head(body) = body[1] BY HeadTailProperties
          <5>2. body[1] \in Nat
            <6>1. 1 \in 1 .. Len(body) BY EmptySeq
            <6>2. body[1] \in Byte BY <6>1
            <6> QED BY <1>0, <6>2
          <5> QED BY <1>3, <3>6, <5>1, <5>2
        <4>3. ASSUME NEW n \in Nat, n <= k PROVE n # None /\ ~ IsTx(SubSeq(b, 1, n))
          <5>1. n >= MinTx => ~ IsTx(SubSeq(b, 1, n)) BY <3>4, <3>5, <4>2, <4>3
          <5> QED BY <1>2, <2>4, <4>3, <5>1
        <4> QED BY <1>1, <4>1, <4>3
      <3>7. CASE ~ (body = <<>> \/ Head(body) < LIST)
        <4>1. body # <<>> /\ body[1] >= LIST
          <5>1. Head(body) = body[1] BY <3>7, HeadTailProperties
          <5>2. body[1] \in Nat
            <6>1. 1 \in 1 .. Len(body) BY <3>7, EmptySeq
            <6>2. body[1] \in Byte BY <6>1
            <6> QED BY <1>0, <6>2
          <5> QED BY <1>3, <3>7, <5>1, <5>2
        <4>2. /\ rlp_item_len(body) = None \/ rlp_item_len(body) \in Nat
              /\ ~ TooLong(body, 1) =>
                    /\ rlp_item_len(body) = None \/ rlp_item_len(body) + 1 < Usize
                    /\ \A n \in Nat : n <= Len(body) =>
                           (rlp_item_len(body) = n <=> IsList(SubSeq(body, 1, n)))
          BY <4>1, ItemLemma
        <4>5. ASSUME Len(b) < Usize, NEW n \in Nat, n <= k, IsTx(SubSeq(b, 1, n))
              PROVE  ~ Wraps(b)
          <5>1. n >= MinTx BY <2>4, <4>5
          <5>2. PICK m \in Nat : m = n - 1 /\ m <= Len(body) BY <3>4, <4>5, <5>1
          <5>3. IsList(SubSeq(body, 1, m)) BY <3>4, <4>5, <5>1, <5>2
          <5>4. 1 \in Nat /\ 1 + Len(body) < Usize BY <1>1, <3>1, <4>5
          <5> QED BY <3>2, <5>2, <5>3, <5>4, TooLongLemma
        <4>3. CASE rlp_item_len(body) = None
          <5>1. tx_len(b) = None BY <3>3, <4>3
          <5>2. ASSUME ~ Wraps(b), NEW n \in Nat, n <= k PROVE n # None /\ ~ IsTx(SubSeq(b, 1, n))
            <6>1. ASSUME n >= MinTx PROVE ~ IsTx(SubSeq(b, 1, n))
              <7>1. n - 1 \in Nat /\ n - 1 <= Len(body) BY <3>4, <5>2, <6>1
              <7>2. n - 1 # None BY <1>2, <7>1
              <7>3. ~ IsList(SubSeq(body, 1, n - 1)) BY <3>2, <4>2, <4>3, <5>2, <7>1, <7>2
              <7> QED BY <3>4, <5>2, <6>1, <7>3
            <6> QED BY <1>2, <2>4, <5>2, <6>1
          <5> QED BY <1>1, <4>5, <5>1, <5>2
        <4>4. CASE rlp_item_len(body) \in Nat
          <5>1. PICK r \in Nat : r = rlp_item_len(body) BY <4>4
          <5>2. r # None BY <1>2
          <5>3. tx_len(b) = usize(1 + r)
            BY <3>3, <3>7, <5>1, <5>2
          <5>4. PICK t \in Nat : t = 1 + r BY <5>1
          <5>7. tx_len(b) \in Nat BY <5>3, <5>4, UsizeTyped
          <5>5. ASSUME ~ Wraps(b) PROVE tx_len(b) = t
            <6>1. r + 1 < Usize BY <3>2, <4>2, <5>1, <5>2, <5>5
            <6>2. t < Usize BY <1>3, <5>4, <6>1
            <6> QED BY <5>3, <5>4, <6>2, UsizeLemma
          <5>6. ASSUME ~ Wraps(b), NEW n \in Nat, n <= k, n >= MinTx
                PROVE  t = n <=> IsTx(SubSeq(b, 1, n))
            <6>1. PICK m \in Nat : m = n - 1 /\ m <= Len(body) BY <3>4, <5>6
            <6>2. r = m <=> IsList(SubSeq(body, 1, m)) BY <3>2, <4>2, <5>1, <5>6, <6>1
            <6>3. IsTx(SubSeq(b, 1, n)) <=> IsList(SubSeq(body, 1, m)) BY <3>4, <5>6, <6>1
            <6>4. t = n <=> r = m BY <5>4, <6>1
            <6> QED BY <6>2, <6>3, <6>4
          <5> QED BY <1>1, <2>4, <4>5, <5>5, <5>6, <5>7
        <4> QED BY <4>2, <4>3, <4>4
      <3> QED BY <3>6, <3>7
    <2>8. x < STR \/ (x >= STR /\ x < LIST) \/ x >= LIST BY <1>3
    <2> QED BY <2>5, <2>6, <2>7, <2>8
  <1> QED BY <1>6, <1>7

\* The transaction after a position and a prefix: its length, its end, and whether
\* it is taken.
TxAt(f, p, pos) == tx_len(SubSeq(f, pos + p + 1, Len(f)))

TxEnd(f, p, pos) == pos + p + TxAt(f, p, pos)

Taken(f, p, pos) ==
    ~ \/ pos + p > Len(f)
      \/ TxAt(f, p, pos) = None
      \/ p > 0 /\ be(SubSeq(f, pos + 1, pos + p)) # TxAt(f, p, pos)
      \/ TxAt(f, p, pos) > Len(SubSeq(f, pos + p + 1, Len(f)))
      \/ TxAt(f, p, pos) < MinTx

\* An item of n bytes, as long as is read, with its length in front, in p bytes.
PieceAt(f, p, pos, n) ==
    /\ n \in Nat /\ n >= 1 /\ pos + p + n <= Len(f)
    /\ n >= MinTx /\ n = TxAt(f, p, pos)
    /\ p > 0 => BigEndian(SubSeq(f, pos + 1, pos + p)) = n

\* A frame, a size of prefix.
FrameRight(f, p) == f \in Seq(Byte) /\ p \in 0 .. Word

\* What is read after a position and a prefix.
LEMMA RestLemma ==
  ASSUME NEW f \in Seq(Byte), NEW m \in Nat, m <= Len(f)
  PROVE  \E rest \in Seq(Byte) :
            /\ rest = SubSeq(f, m + 1, Len(f)) /\ Len(rest) = Len(f) - m
            /\ \A x \in Nat : x <= Len(f) - m => SubSeq(rest, 1, x) = SubSeq(f, m + 1, m + x)
  <1>0. Byte \subseteq Nat BY BaseAssumption DEF Byte
  <1>1. f \in Seq(Nat) BY <1>0, SeqMonotonic
  <1>2. PICK k \in Nat : k = Len(f) /\ k <= Len(f) OBVIOUS
  <1>3. PICK rest \in Seq(Byte) : rest = SubSeq(f, m + 1, k) BY <1>2, BytesPart
  <1>4. Len(rest) = k - m
    <2>1. m < k \/ m = k BY <1>2
    <2> QED BY <1>2, <1>3, <2>1, BytesPart
  <1>5. \A x \in Nat : x <= k - m => SubSeq(rest, 1, x) = SubSeq(f, m + 1, m + x)
    <2> SUFFICES ASSUME NEW x \in Nat, x <= k - m
                 PROVE  SubSeq(rest, 1, x) = SubSeq(f, m + 1, m + x)
      OBVIOUS
    <2>1. 0 \in Nat /\ m <= k /\ k <= Len(f) /\ x <= k - m BY <1>2
    <2>2. SubSeq(SubSeq(f, m + 1, k), 0 + 1, x) = SubSeq(f, m + 0 + 1, m + x)
      BY <1>1, <2>1, PartOfPart
    <2>3. 0 + 1 = 1 /\ m + 0 + 1 = m + 1 OBVIOUS
    <2> QED BY <1>3, <2>2, <2>3
  <1> QED BY <1>2, <1>3, <1>4, <1>5

\* What is taken is what is there.
LEMMA PieceLemma ==
  ASSUME NEW f, NEW p, FrameRight(f, p), NEW pos \in Nat, pos <= Len(f), NEW n
  PROVE  /\ PieceAt(f, p, pos, n) <=> Taken(f, p, pos) /\ n = TxAt(f, p, pos)
         /\ PieceAt(f, p, pos, n) =>
                SubSeq(SubSeq(f, pos + p + 1, Len(f)), 1, n) = SubSeq(f, pos + p + 1, pos + p + n)
  <1>1. f \in Seq(Byte) /\ p \in 0 .. Word BY DEF FrameRight
  <1>2. p \in Nat BY <1>1, ClassAssumption
  <1>3. PICK m \in Nat : m = pos + p BY <1>2
  <1>4. PICK k \in Nat : k = Len(f) /\ k <= Len(f) BY <1>1
  <1>5. MinTx \in Nat /\ MinTx >= 1 /\ None \notin Nat BY SplitAssumption
  <1>6. CASE m > k
    <2>1. ~ Taken(f, p, pos) BY <1>3, <1>4, <1>6 DEF Taken
    <2>2. ~ PieceAt(f, p, pos, n) BY <1>3, <1>4, <1>6 DEF PieceAt
    <2> QED BY <2>1, <2>2
  <1>7. CASE m <= k
    <2>1. PICK rest \in Seq(Byte) :
             /\ rest = SubSeq(f, m + 1, k) /\ Len(rest) = k - m
             /\ \A x \in Nat : x <= k - m => SubSeq(rest, 1, x) = SubSeq(f, m + 1, m + x)
      BY <1>1, <1>4, <1>7, RestLemma
    <2>2. Len(rest) = k - m BY <2>1
    <2>4. PICK t : t = TxAt(f, p, pos) OBVIOUS
    <2>5. t = tx_len(rest) BY <1>3, <1>4, <2>1, <2>4 DEF TxAt
    <2>6. t = None \/ t \in Nat BY <2>5, TxLemma
    <2>9. p > 0 => be(SubSeq(f, pos + 1, m)) = BigEndian(SubSeq(f, pos + 1, m))
      <3> SUFFICES ASSUME p > 0 PROVE be(SubSeq(f, pos + 1, m)) = BigEndian(SubSeq(f, pos + 1, m))
        OBVIOUS
      <3>1. m <= Len(f) /\ pos < m /\ m - pos = p BY <1>2, <1>3, <1>4, <1>7
      <3>2. PICK s \in Seq(Byte) : s = SubSeq(f, pos + 1, m) /\ Len(s) = p BY <1>1, <3>1, BytesPart
      <3>3. Len(s) \in 1 .. Word BY <1>1, <1>2, <3>2, ClassAssumption
      <3> QED BY <3>2, <3>3, UsizeBytes
    <2>10. ASSUME PieceAt(f, p, pos, n)
           PROVE  /\ Taken(f, p, pos) /\ n = TxAt(f, p, pos)
                  /\ SubSeq(SubSeq(f, pos + p + 1, Len(f)), 1, n)
                        = SubSeq(f, pos + p + 1, pos + p + n)
      <3>1. n \in Nat /\ m + n <= k /\ n = t /\ n >= MinTx
        BY <1>3, <1>4, <2>4, <2>10 DEF PieceAt
      <3>2. n <= k - m BY <3>1
      <3>3. SubSeq(rest, 1, n) = SubSeq(f, m + 1, m + n) BY <2>1, <3>1, <3>2
      <3>5. p > 0 => be(SubSeq(f, pos + 1, pos + p)) = t BY <1>3, <2>9, <2>10, <3>1 DEF PieceAt
      <3>6. t # None /\ ~ (t > k - m) /\ ~ (t < MinTx) /\ ~ (m > k)
        BY <1>5, <1>7, <3>1, <3>2
      <3>7. Taken(f, p, pos) BY <1>3, <1>4, <2>1, <2>2, <2>4, <3>5, <3>6 DEF Taken
      <3> QED BY <1>3, <1>4, <2>1, <2>4, <3>1, <3>3, <3>7
    <2>11. ASSUME Taken(f, p, pos), n = TxAt(f, p, pos) PROVE PieceAt(f, p, pos, n)
      <3>1. t # None /\ ~ (t > k - m) /\ ~ (t < MinTx)
        BY <1>3, <1>4, <2>1, <2>2, <2>4, <2>11 DEF Taken
      <3>2. t \in Nat /\ t <= k - m /\ t >= MinTx BY <1>5, <2>6, <3>1
      <3>4. p > 0 => BigEndian(SubSeq(f, pos + 1, m)) = t
        BY <1>3, <2>4, <2>9, <2>11 DEF Taken
      <3>5. t >= 1 /\ m + t <= k BY <1>5, <3>2
      <3> QED BY <1>3, <1>4, <2>4, <2>11, <3>2, <3>4, <3>5 DEF PieceAt
    <2> QED BY <2>10, <2>11
  <1>8. m > k \/ m <= k OBVIOUS
  <1> QED BY <1>6, <1>7, <1>8

\* What is taken is a transaction, unless the sum wraps, and a transaction is
\* taken.
LEMMA PieceRight ==
  ASSUME NEW f, NEW p, FrameRight(f, p), NEW pos \in Nat, NEW n \in Nat, pos + p + n <= Len(f),
         n >= 1
  PROVE  LET part == SubSeq(f, pos + p + 1, pos + p + n)
         IN  /\ PieceAt(f, p, pos, n) => IsTx(part) \/ pos + p + 1 \in Wrapping(f)
             /\ (/\ Len(f) < Usize /\ IsTx(part) /\ n >= MinTx
                 /\ p > 0 => BigEndian(SubSeq(f, pos + 1, pos + p)) = n) => PieceAt(f, p, pos, n)
  <1>1. f \in Seq(Byte) /\ p \in Nat BY ClassAssumption DEF FrameRight
  <1>2. PICK m \in Nat : m = pos + p BY <1>1
  <1>3. PICK k \in Nat : k = Len(f) BY <1>1
  <1>4. m + n <= k /\ m <= k /\ n <= k - m BY <1>2, <1>3
  <1>5. PICK rest \in Seq(Byte) :
           /\ rest = SubSeq(f, m + 1, k) /\ Len(rest) = k - m
           /\ \A x \in Nat : x <= k - m => SubSeq(rest, 1, x) = SubSeq(f, m + 1, m + x)
    <2>1. m \in Nat /\ m <= Len(f) BY <1>3, <1>4
    <2>2. PICK rest \in Seq(Byte) :
             /\ rest = SubSeq(f, m + 1, Len(f)) /\ Len(rest) = Len(f) - m
             /\ \A x \in Nat : x <= Len(f) - m => SubSeq(rest, 1, x) = SubSeq(f, m + 1, m + x)
      BY <1>1, <2>1, RestLemma, Zenon
    <2> QED BY <1>3, <2>2, Zenon
  <1>6. PICK part : part = SubSeq(f, m + 1, m + n) /\ part = SubSeq(rest, 1, n) BY <1>4, <1>5
  <1>7. TxAt(f, p, pos) = tx_len(rest) BY <1>2, <1>3, <1>5 DEF TxAt
  <1>8. n <= Len(rest) BY <1>4, <1>5
  <1>9. /\ ~ Wraps(rest) => (tx_len(rest) = n /\ n >= MinTx <=> IsTx(part))
        /\ Len(rest) < Usize /\ IsTx(part) => ~ Wraps(rest)
    <2>1. ~ Wraps(rest) => (tx_len(rest) = n /\ n >= MinTx <=> IsTx(SubSeq(rest, 1, n)))
      BY <1>8, TxLemma
    <2>2. Len(rest) < Usize /\ IsTx(SubSeq(rest, 1, n)) => ~ Wraps(rest)
      BY <1>8, TxLemma
    <2> QED BY <1>6, <2>1, <2>2
  <1>10. Wraps(rest) => m + 1 \in Wrapping(f)
    <2>1. m + 1 \in 1 .. k BY <1>4
    <2>2. m + 1 \in DOMAIN f BY <1>1, <1>3, <2>1
    <2> QED BY <1>3, <1>5, <2>2 DEF Wrapping
  <1>11. PieceAt(f, p, pos, n) => IsTx(part) \/ m + 1 \in Wrapping(f)
    BY <1>7, <1>9, <1>10 DEF PieceAt
  <1>12. ASSUME Len(f) < Usize, IsTx(part), n >= MinTx,
                p > 0 => BigEndian(SubSeq(f, pos + 1, pos + p)) = n
         PROVE  PieceAt(f, p, pos, n)
    <2>1. Len(rest) < Usize BY <1>3, <1>4, <1>5, <1>12, ClassAssumption
    <2>2. n = TxAt(f, p, pos) BY <1>7, <1>9, <1>12, <2>1
    <2> QED BY <1>12, <2>2 DEF PieceAt
  <1> QED BY <1>2, <1>6, <1>11, <1>12

\* What a run gives from a position on.
RunFrom(f, p, g, pos) ==
    LET rest == SubSeq(f, pos + p + 1, Len(f))
        n    == tx_len(rest)
    IN  IF pos = Len(f) THEN <<>>
        ELSE IF \/ pos + p > Len(f)
                \/ n = None
                \/ p > 0 /\ be(SubSeq(f, pos + 1, pos + p)) # n
                \/ n > Len(rest)
                \/ n < MinTx
                \/ g[pos + p + n] = None
             THEN None
             ELSE <<SubSeq(rest, 1, n)>> \o g[pos + p + n]

\* In terms of what is taken.
LEMMA RunFromLemma ==
  ASSUME NEW f, NEW p, FrameRight(f, p), NEW g, NEW pos \in Nat, pos <= Len(f)
  PROVE  /\ pos = Len(f) => RunFrom(f, p, g, pos) = <<>>
         /\ pos # Len(f) /\ ~ Taken(f, p, pos) => RunFrom(f, p, g, pos) = None
         /\ Taken(f, p, pos) =>
                /\ PieceAt(f, p, pos, TxAt(f, p, pos))
                /\ TxEnd(f, p, pos) \in pos + 1 .. Len(f)
                /\ pos # Len(f) =>
                      /\ g[TxEnd(f, p, pos)] = None => RunFrom(f, p, g, pos) = None
                      /\ g[TxEnd(f, p, pos)] # None =>
                            RunFrom(f, p, g, pos) = <<SubSeq(f, pos + p + 1, TxEnd(f, p, pos))>>
                                                        \o g[TxEnd(f, p, pos)]
  <1>1. pos = Len(f) => RunFrom(f, p, g, pos) = <<>> BY DEF RunFrom
  <1>2. pos # Len(f) /\ ~ Taken(f, p, pos) => RunFrom(f, p, g, pos) = None
    BY DEF RunFrom, Taken, TxAt
  <1>3. ASSUME Taken(f, p, pos)
        PROVE  /\ PieceAt(f, p, pos, TxAt(f, p, pos))
               /\ TxEnd(f, p, pos) \in pos + 1 .. Len(f)
               /\ pos # Len(f) =>
                     /\ g[TxEnd(f, p, pos)] = None => RunFrom(f, p, g, pos) = None
                     /\ g[TxEnd(f, p, pos)] # None =>
                           RunFrom(f, p, g, pos) = <<SubSeq(f, pos + p + 1, TxEnd(f, p, pos))>>
                                                       \o g[TxEnd(f, p, pos)]
    <2>1. PICK n : n = TxAt(f, p, pos) OBVIOUS
    <2>2. PieceAt(f, p, pos, n) BY <1>3, <2>1, PieceLemma
    <2>3. SubSeq(SubSeq(f, pos + p + 1, Len(f)), 1, n) = SubSeq(f, pos + p + 1, pos + p + n)
      BY <2>2, PieceLemma
    <2>4. p \in Nat /\ Len(f) \in Nat BY ClassAssumption DEF FrameRight
    <2>5. n \in Nat /\ n >= 1 /\ pos + p + n <= Len(f) BY <2>2 DEF PieceAt
    <2>6. pos + p + n \in pos + 1 .. Len(f) BY <2>4, <2>5
    <2>7. TxEnd(f, p, pos) = pos + p + n BY <2>1 DEF TxEnd
    <2>8. ASSUME pos # Len(f)
          PROVE  RunFrom(f, p, g, pos) = IF g[pos + p + n] = None THEN None
                                         ELSE <<SubSeq(SubSeq(f, pos + p + 1, Len(f)), 1, n)>>
                                                 \o g[pos + p + n]
      <3>1. n = tx_len(SubSeq(f, pos + p + 1, Len(f))) BY <2>1 DEF TxAt
      <3> QED BY <1>3, <2>1, <2>8, <3>1, Zenon DEF Taken, RunFrom
    <2> QED BY <2>1, <2>2, <2>3, <2>6, <2>7, <2>8
  <1> QED BY <1>1, <1>2, <1>3

Runs == TxLists \cup {None}

RunFound(f, p, g) ==
    /\ g \in [0 .. Len(f) -> Runs]
    /\ \A pos \in 0 .. Len(f) : g[pos] = RunFrom(f, p, g, pos)
    /\ run_of(f, p) = g[0]

\* What a run gives is a list of transactions, or nothing.
LEMMA RunFromTyped ==
  ASSUME NEW f, NEW p, FrameRight(f, p), NEW pos \in 0 .. Len(f), NEW g,
         \A j \in pos + 1 .. Len(f) : g[j] \in Runs
  PROVE  RunFrom(f, p, g, pos) \in Runs
  <1>1. pos \in Nat /\ pos <= Len(f) /\ f \in Seq(Byte) BY DEF FrameRight
  <1>2. <<>> \in Runs /\ None \in Runs BY EmptySeq DEF Runs, TxLists
  <1>3. CASE pos = Len(f) BY <1>1, <1>2, <1>3, RunFromLemma
  <1>4. CASE pos # Len(f) /\ ~ Taken(f, p, pos) BY <1>1, <1>2, <1>4, RunFromLemma
  <1>5. CASE pos # Len(f) /\ Taken(f, p, pos)
    <2>1. PICK e \in pos + 1 .. Len(f) : e = TxEnd(f, p, pos) BY <1>1, <1>5, RunFromLemma
    <2>2. CASE g[e] = None BY <1>1, <1>2, <1>5, <2>1, <2>2, RunFromLemma
    <2>3. CASE g[e] # None
      <3>1. RunFrom(f, p, g, pos) = <<SubSeq(f, pos + p + 1, e)>> \o g[e]
        BY <1>1, <1>5, <2>1, <2>3, RunFromLemma
      <3>2. g[e] \in TxLists
        <4>1. g[e] \in Runs BY <2>1
        <4> QED BY <2>3, <4>1 DEF Runs
      <3>3. SubSeq(f, pos + p + 1, e) \in Seq(Nat)
        <4>1. p \in Nat BY ClassAssumption DEF FrameRight
        <4>2. PICK m \in Nat : m = pos + p BY <1>1, <4>1
        <4>3. e \in Nat /\ e <= Len(f) BY <1>1
        <4> QED BY <1>1, <4>2, <4>3, BytesPart
      <3>4. PICK tx \in Seq(Nat) : tx = SubSeq(f, pos + p + 1, e) BY <3>3
      <3>5. <<tx>> \in TxLists BY DEF TxLists
      <3>6. \A s, t \in TxLists : s \o t \in TxLists BY ConcatProperties DEF TxLists
      <3>7. <<tx>> \o g[e] \in TxLists BY <3>2, <3>5, <3>6
      <3> QED BY <3>1, <3>4, <3>7 DEF Runs
    <2> QED BY <2>2, <2>3
  <1> QED BY <1>3, <1>4, <1>5

\* The run of a frame is what it is defined to be.
LEMMA RunLemma ==
  ASSUME NEW f, NEW p, FrameRight(f, p)
  PROVE  \E g : RunFound(f, p, g)
  <1>0. f \in Seq(Byte) BY DEF FrameRight
  <1>1. PICK n \in Nat : n = Len(f) BY <1>0
  <1> DEFINE step == [i \in 0 .. n |-> [g \in [0 .. n -> Runs] |-> RunFrom(f, p, g, i)]]
  <1>2. PICK h : h \in [0 .. n -> Runs] /\ \A i \in 0 .. n : h[i] = RunFrom(f, p, h, i)
    <2>1. ASSUME NEW i \in 0 .. n, NEW g \in [0 .. n -> Runs] PROVE RunFrom(f, p, g, i) \in Runs
      <3>1. \A j \in i + 1 .. Len(f) : g[j] \in Runs BY <1>1
      <3>2. i \in 0 .. Len(f) BY <1>1
      <3> QED BY <3>1, <3>2, RunFromTyped
    <2>2. step \in [0 .. n -> [[0 .. n -> Runs] -> Runs]] BY <2>1
    <2>3. ASSUME NEW i \in 0 .. n, NEW g \in [0 .. n -> Runs], NEW h \in [0 .. n -> Runs],
                 \A j \in i + 1 .. n : g[j] = h[j]
          PROVE  step[i][g] = step[i][h]
      <3>1. i \in Nat /\ i <= Len(f) BY <1>1
      <3>2. RunFrom(f, p, g, i) = RunFrom(f, p, h, i)
        <4>1. CASE i = Len(f) BY <3>1, <4>1, RunFromLemma
        <4>2. CASE i # Len(f) /\ ~ Taken(f, p, i) BY <3>1, <4>2, RunFromLemma
        <4>3. CASE i # Len(f) /\ Taken(f, p, i)
          <5>1. PICK e \in i + 1 .. n : e = TxEnd(f, p, i) BY <1>1, <3>1, <4>3, RunFromLemma
          <5>2. g[e] = h[e] BY <2>3
          <5>3. CASE g[e] = None BY <3>1, <4>3, <5>1, <5>2, <5>3, RunFromLemma
          <5>4. CASE g[e] # None
            <6>1. RunFrom(f, p, g, i) = <<SubSeq(f, i + p + 1, e)>> \o g[e]
              BY <3>1, <4>3, <5>1, <5>4, RunFromLemma
            <6>2. RunFrom(f, p, h, i) = <<SubSeq(f, i + p + 1, e)>> \o h[e]
              BY <3>1, <4>3, <5>1, <5>2, <5>4, RunFromLemma
            <6> QED BY <5>2, <6>1, <6>2
          <5> QED BY <5>3, <5>4
        <4> QED BY <4>1, <4>2, <4>3
      <3> QED BY <3>2
    <2>4. Runs # {} BY DEF Runs
    <2>5. DownwardStep(n, Runs, step) BY <2>2, <2>3, <2>4 DEF DownwardStep
    <2>6. \A i \in 0 .. n : \A g \in [0 .. n -> Runs] : step[i][g] = RunFrom(f, p, g, i) OBVIOUS
    <2> HIDE DEF step
    <2>7. PICK h : DownwardFunction(h, n, Runs, step) BY <2>5, Downward
    <2>8. h \in [0 .. n -> Runs] /\ \A i \in 0 .. n : h[i] = step[i][h]
      BY <2>7 DEF DownwardFunction
    <2> QED BY <2>6, <2>8
  <1> HIDE DEF step
  <1> DEFINE from == CHOOSE from : from = [pos \in 0 .. Len(f) |-> RunFrom(f, p, from, pos)]
  <1>3. h = [pos \in 0 .. Len(f) |-> RunFrom(f, p, h, pos)] BY <1>1, <1>2
  <1>4. from = [pos \in 0 .. Len(f) |-> RunFrom(f, p, from, pos)] BY <1>3
  <1>5. run_of(f, p) = from[0] BY Zenon DEF run_of, RunFrom
  <1> HIDE DEF from
  <1>6. \A i \in 0 .. n : from[i] = RunFrom(f, p, from, i) BY <1>1, <1>4
  <1>7. \A i \in 0 .. n : from[i] \in Runs
    <2>1. ASSUME NEW i \in 0 .. n, \A j \in i + 1 .. n : from[j] \in Runs PROVE from[i] \in Runs
      <3>1. i \in 0 .. Len(f) /\ \A j \in i + 1 .. Len(f) : from[j] \in Runs BY <1>1, <2>1
      <3>2. RunFrom(f, p, from, i) \in Runs BY <3>1, RunFromTyped
      <3> QED BY <1>6, <3>2
    <2> QED BY <2>1, Falling
  <1>8. from \in [0 .. n -> Runs] BY <1>1, <1>4, <1>7
  <1> QED BY <1>1, <1>5, <1>6, <1>8 DEF RunFound

\* Transactions that lie one behind the other from a position to the end, and where
\* each of them ends.
LaidOut(e, f, p, items, pos) ==
    /\ items \in TxLists /\ e \in [0 .. Len(items) -> 0 .. Len(f)]
    /\ e[0] = pos /\ e[Len(items)] = Len(f)
    /\ \A i \in 1 .. Len(items) :
          /\ e[i] = e[i - 1] + p + Len(items[i])
          /\ PieceAt(f, p, e[i - 1], Len(items[i]))
          /\ SubSeq(f, e[i - 1] + p + 1, e[i]) = items[i]

\* A transaction in front of others.
LEMMA InFront ==
  ASSUME NEW tx \in Seq(Nat), NEW rest \in TxLists
  PROVE  /\ <<tx>> \o rest \in TxLists /\ Len(<<tx>> \o rest) = 1 + Len(rest)
         /\ (<<tx>> \o rest)[1] = tx
         /\ \A j \in 2 .. 1 + Len(rest) : (<<tx>> \o rest)[j] = rest[j - 1]
  <1>1. PICK k \in Nat : k = Len(rest) BY DEF TxLists
  <1>2. PICK one \in Seq(Seq(Nat)) : one = <<tx>> /\ Len(one) = 1 /\ one[1] = tx
    <2>1. <<tx>> \in Seq(Seq(Nat)) OBVIOUS
    <2>2. Len(<<tx>>) = 1 /\ <<tx>>[1] = tx OBVIOUS
    <2> QED BY <2>1, <2>2
  <1>3. PICK all \in Seq(Seq(Nat)) : all = one \o rest BY <1>2, ConcatProperties DEF TxLists
  <1>4. Len(all) = 1 + k /\ \A i \in 1 .. 1 + k : all[i] = IF i <= 1 THEN one[i] ELSE rest[i - 1]
    BY <1>1, <1>2, <1>3, ConcatProperties DEF TxLists
  <1>5. 1 \in 1 .. 1 + k /\ \A j \in 2 .. 1 + k : j \in 1 .. 1 + k /\ ~ (j <= 1) OBVIOUS
  <1> QED BY <1>1, <1>2, <1>3, <1>4, <1>5 DEF TxLists

\* What a run gives from a position on lies there.
LEMMA RunSound ==
  ASSUME NEW f, NEW p, FrameRight(f, p), NEW g, RunFound(f, p, g)
  PROVE  \A pos \in 0 .. Len(f) : g[pos] # None => \E e : LaidOut(e, f, p, g[pos], pos)
  <1>0. f \in Seq(Byte) /\ p \in Nat BY ClassAssumption DEF FrameRight
  <1>1. PICK n \in Nat : n = Len(f) BY <1>0
  <1>2. g \in [0 .. n -> Runs] /\ \A i \in 0 .. n : g[i] = RunFrom(f, p, g, i)
    BY <1>1 DEF RunFound
  <1> DEFINE same == [i \in 0 .. n |-> i]
             X == {i \in 0 .. n : g[i] # None => \E e : LaidOut(e, f, p, g[i], i)}
  <1>3. ASSUME NEW i \in 0 .. n, \A j \in i + 1 .. n : same[j] \in X PROVE same[i] \in X
    <2>1. SUFFICES ASSUME g[i] # None PROVE \E e : LaidOut(e, f, p, g[i], i) OBVIOUS
    <2>2. i \in Nat /\ i <= Len(f) BY <1>1
    <2>3. CASE i = n
      <3>1. g[i] = <<>> BY <1>1, <1>2, <2>2, <2>3, RunFromLemma
      <3>2. PICK e \in [0 .. 0 -> 0 .. n] : e = [j \in 0 .. 0 |-> n]
        <4>1. n \in 0 .. n OBVIOUS
        <4>2. [j \in 0 .. 0 |-> n] \in [0 .. 0 -> 0 .. n] BY <4>1
        <4> QED BY <4>2
      <3>3. e[0] = n BY <3>2
      <3>4. <<>> \in TxLists /\ Len(<<>>) = 0 BY EmptySeq DEF TxLists
      <3>5. \A j \in 1 .. 0 : FALSE OBVIOUS
      <3>6. LaidOut(e, f, p, <<>>, i) BY <1>1, <2>3, <3>2, <3>3, <3>4, <3>5 DEF LaidOut
      <3> QED BY <3>1, <3>6
    <2>4. CASE i # n /\ ~ Taken(f, p, i) BY <1>1, <1>2, <2>1, <2>2, <2>4, RunFromLemma
    <2>5. CASE i # n /\ Taken(f, p, i)
      <3>1. PICK at \in i + 1 .. n : at = TxEnd(f, p, i) BY <1>1, <2>2, <2>5, RunFromLemma
      <3>2. at \in Nat /\ at \in 0 .. n /\ at <= n BY <3>1
      <3>3. g[at] # None BY <1>1, <1>2, <2>1, <2>2, <2>5, <3>1, RunFromLemma
      <3>4. g[i] = <<SubSeq(f, i + p + 1, at)>> \o g[at]
        BY <1>1, <1>2, <2>2, <2>5, <3>1, <3>3, RunFromLemma
      <3>5. PICK c : LaidOut(c, f, p, g[at], at)
        <4>1. same[at] \in X BY <1>3, <3>1
        <4>2. at \in X BY <3>2, <4>1
        <4> QED BY <3>3, <4>2
      <3>6. PICK size : size = TxAt(f, p, i) /\ PieceAt(f, p, i, size) BY <2>2, <2>5, RunFromLemma
      <3>7. size \in Nat /\ size >= 1 /\ at = i + p + size BY <3>1, <3>6 DEF PieceAt, TxEnd
      <3>8. PICK m \in Nat : m = i + p BY <1>0
      <3>9. PICK tx \in Seq(Nat) : tx = SubSeq(f, i + p + 1, at) /\ Len(tx) = size
        <4>1. m < at /\ at - m = size /\ at <= Len(f) BY <1>1, <3>2, <3>7, <3>8
        <4>2. SubSeq(f, m + 1, at) \in Seq(Nat) /\ Len(SubSeq(f, m + 1, at)) = size
          BY <1>0, <3>2, <4>1, BytesPart
        <4> QED BY <3>8, <4>2
      <3>10. PICK rest \in TxLists, k \in Nat : rest = g[at] /\ k = Len(rest)
        BY <3>5 DEF LaidOut, TxLists
      <3>11. PICK items \in TxLists : items = <<tx>> \o rest BY InFront
      <3>12. Len(items) = 1 + k /\ items[1] = tx /\ \A j \in 2 .. 1 + k : items[j] = rest[j - 1]
        BY <3>10, <3>11, InFront
      <3>13. /\ c \in [0 .. k -> 0 .. n] /\ c[0] = at /\ c[k] = n
             /\ \A j \in 1 .. k : /\ c[j] = c[j - 1] + p + Len(rest[j])
                                  /\ PieceAt(f, p, c[j - 1], Len(rest[j]))
                                  /\ SubSeq(f, c[j - 1] + p + 1, c[j]) = rest[j]
        BY <1>1, <3>5, <3>10 DEF LaidOut
      <3>14. \A j \in 1 .. 1 + k : j - 1 \in 0 .. k OBVIOUS
      <3>15. PICK e \in [0 .. 1 + k -> 0 .. n] : e = [j \in 0 .. 1 + k |-> IF j = 0 THEN i ELSE c[j - 1]]
        <4>1. \A j \in 0 .. 1 + k : (IF j = 0 THEN i ELSE c[j - 1]) \in 0 .. n
          <5> SUFFICES ASSUME NEW j \in 0 .. 1 + k, j # 0 PROVE c[j - 1] \in 0 .. n OBVIOUS
          <5>1. j \in 1 .. 1 + k BY SMT
          <5>2. j - 1 \in 0 .. k BY <3>14, <5>1
          <5> QED BY <3>13, <5>2
        <4>2. [j \in 0 .. 1 + k |-> IF j = 0 THEN i ELSE c[j - 1]] \in [0 .. 1 + k -> 0 .. n]
          BY <4>1
        <4> QED BY <4>2
      <3>16. e[0] = i /\ \A j \in 1 .. 1 + k : e[j] = c[j - 1] BY <3>15
      <3>17. ASSUME NEW j \in 1 .. 1 + k
             PROVE  /\ e[j] = e[j - 1] + p + Len(items[j])
                    /\ PieceAt(f, p, e[j - 1], Len(items[j]))
                    /\ SubSeq(f, e[j - 1] + p + 1, e[j]) = items[j]
        <4>1. CASE j = 1
          <5>1. e[1] = at /\ e[1 - 1] = i
            <6>1. 1 \in 1 .. 1 + k /\ 1 - 1 = 0 OBVIOUS
            <6> QED BY <3>13, <3>16, <6>1
          <5>2. PieceAt(f, p, i, size) /\ Len(items[1]) = size BY <3>6, <3>9, <3>12
          <5> QED BY <3>7, <3>9, <3>12, <4>1, <5>1, <5>2
        <4>2. CASE j # 1
          <5>1. PICK b \in 1 .. k : b = j - 1 BY <4>2
          <5>2. e[j] = c[b] /\ e[b] = c[b - 1] /\ items[j] = rest[b]
            <6>1. j \in 2 .. 1 + k /\ b \in 1 .. 1 + k BY <4>2, <5>1
            <6> QED BY <3>12, <3>16, <5>1, <6>1
          <5> QED BY <3>13, <5>1, <5>2
        <4> QED BY <4>1, <4>2
      <3>18. e[1 + k] = n
        <4>1. 1 + k \in 1 .. 1 + k /\ 1 + k - 1 = k OBVIOUS
        <4> QED BY <3>13, <3>16, <4>1
      <3>19. LaidOut(e, f, p, items, i) BY <1>1, <3>12, <3>16, <3>17, <3>18 DEF LaidOut
      <3> QED BY <3>4, <3>9, <3>10, <3>11, <3>19
    <2> QED BY <2>3, <2>4, <2>5
  <1> HIDE DEF X
  <1>4. \A i \in 0 .. n : same[i] \in X BY <1>3, Falling
  <1>5. \A i \in 0 .. n : i \in X BY <1>4
  <1> QED BY <1>1, <1>5 DEF X

\* What lies in a frame is its run.
LEMMA RunComplete ==
  ASSUME NEW f, NEW p, FrameRight(f, p), NEW g, RunFound(f, p, g),
         NEW items, NEW e, LaidOut(e, f, p, items, 0)
  PROVE  g[0] = items
  <1>0. f \in Seq(Byte) /\ p \in Nat BY ClassAssumption DEF FrameRight
  <1>1. PICK n \in Nat : n = Len(f) BY <1>0
  <1>2. g \in [0 .. n -> Runs] /\ \A i \in 0 .. n : g[i] = RunFrom(f, p, g, i)
    BY <1>1 DEF RunFound
  <1>3. items \in TxLists BY DEF LaidOut
  <1>4. PICK k \in Nat : k = Len(items) BY <1>3 DEF TxLists
  <1>5. /\ e \in [0 .. k -> 0 .. n] /\ e[0] = 0 /\ e[k] = n
        /\ \A i \in 1 .. k : /\ e[i] = e[i - 1] + p + Len(items[i])
                             /\ PieceAt(f, p, e[i - 1], Len(items[i]))
                             /\ SubSeq(f, e[i - 1] + p + 1, e[i]) = items[i]
    BY <1>1, <1>4 DEF LaidOut
  <1>6. \A i \in 1 .. k : items[i] \in Seq(Nat) BY <1>3, <1>4 DEF TxLists
  <1> DEFINE same == [i \in 0 .. k |-> i]
             Ok(i) == /\ g[e[i]] \in TxLists /\ Len(g[e[i]]) = k - i
                      /\ \A j \in 1 .. k - i : g[e[i]][j] = items[i + j]
             X == {i \in 0 .. k : Ok(i)}
  <1>7. ASSUME NEW i \in 0 .. k, \A j \in i + 1 .. k : same[j] \in X PROVE same[i] \in X
    <2>1. SUFFICES Ok(i) OBVIOUS
    <2>2. PICK a \in Nat : a = e[i] /\ a <= n /\ a <= Len(f) /\ a \in 0 .. n BY <1>1, <1>5
    <2>3. CASE i = k
      <3>1. a = n BY <1>5, <2>2, <2>3
      <3>2. g[a] = <<>>
        <4>1. a = Len(f) /\ a <= Len(f) BY <1>1, <2>2, <3>1
        <4>2. RunFrom(f, p, g, a) = <<>> BY <4>1, RunFromLemma, Zenon
        <4> QED BY <1>2, <2>2, <4>2
      <3>3. <<>> \in TxLists /\ Len(<<>>) = 0 BY EmptySeq DEF TxLists
      <3>4. k - i = 0 BY <2>3
      <3>5. \A j \in 1 .. 0 : FALSE OBVIOUS
      <3> QED BY <2>2, <3>2, <3>3, <3>4, <3>5
    <2>4. CASE i # k
      <3>1. PICK b \in 1 .. k : b = i + 1 /\ b - 1 = i BY <2>4
      <3>2. b \in i + 1 .. k /\ b \in 0 .. k BY <3>1
      <3>3. Ok(b)
        <4>1. same[b] \in X BY <1>7, <3>2
        <4>2. same[b] = b BY <3>2
        <4> QED BY <4>1, <4>2
      <3>4. PICK size \in Nat : size = Len(items[b]) BY <1>6
      <3>5. /\ e[b] = a + p + size /\ PieceAt(f, p, a, size)
            /\ SubSeq(f, a + p + 1, e[b]) = items[b]
        BY <1>5, <2>2, <3>1, <3>4
      <3>6. Taken(f, p, a) /\ size = TxAt(f, p, a) BY <2>2, <3>5, PieceLemma
      <3>7. TxEnd(f, p, a) = e[b] BY <3>5, <3>6 DEF TxEnd
      <3>8. a # n
        <4>1. size >= 1 /\ a + p + size <= n BY <1>1, <3>5 DEF PieceAt
        <4> QED BY <1>0, <2>2, <3>4, <4>1
      <3>9. g[e[b]] \in TxLists /\ g[e[b]] # None BY <3>3, SplitAssumption DEF TxLists
      <3>10. g[a] = <<items[b]>> \o g[e[b]]
        <4>1. a # Len(f) /\ g[TxEnd(f, p, a)] # None BY <1>1, <3>7, <3>8, <3>9
        <4>2. RunFrom(f, p, g, a) = <<SubSeq(f, a + p + 1, TxEnd(f, p, a))>> \o g[TxEnd(f, p, a)]
          BY <2>2, <3>6, <4>1, RunFromLemma
        <4>3. RunFrom(f, p, g, a) = <<SubSeq(f, a + p + 1, e[b])>> \o g[e[b]]
          BY <3>7, <4>2, Zenon
        <4> QED BY <1>2, <2>2, <3>5, <4>3
      <3>11. PICK rest \in TxLists : rest = g[e[b]] BY <3>9
      <3>12. Len(rest) = k - b /\ \A j \in 1 .. k - b : rest[j] = items[b + j] BY <3>3, <3>11
      <3>13. PICK tx \in Seq(Nat) : tx = items[b] BY <1>6
      <3>14. PICK all \in TxLists : all = <<tx>> \o rest BY InFront
      <3>15. /\ Len(all) = 1 + (k - b) /\ all[1] = tx
             /\ \A j \in 2 .. 1 + (k - b) : all[j] = rest[j - 1]
        <4>1. /\ Len(<<tx>> \o rest) = 1 + Len(rest) /\ (<<tx>> \o rest)[1] = tx
              /\ \A j \in 2 .. 1 + Len(rest) : (<<tx>> \o rest)[j] = rest[j - 1]
          BY InFront, Zenon
        <4> QED BY <3>12, <3>14, <4>1, Zenon
      <3>16. 1 + (k - b) = k - i BY <3>1
      <3>17. ASSUME NEW j \in 1 .. k - i PROVE all[j] = items[i + j]
        <4>1. CASE j = 1 BY <3>1, <3>13, <3>15, <4>1
        <4>2. CASE j # 1
          <5>1. PICK q \in 1 .. k - b : q = j - 1 BY <3>1, <4>2
          <5>2. j \in 2 .. 1 + (k - b) /\ b + q = i + j BY <3>1, <4>2, <5>1
          <5> QED BY <3>12, <3>15, <5>1, <5>2
        <4> QED BY <4>1, <4>2
      <3>18. g[a] = all BY <3>10, <3>11, <3>13, <3>14
      <3> QED BY <2>2, <3>15, <3>16, <3>17, <3>18
    <2> QED BY <2>3, <2>4
  <1> HIDE DEF X
  <1>8. \A i \in 0 .. k : same[i] \in X BY <1>7, Falling
  <1>9. 0 \in 0 .. k OBVIOUS
  <1>10. 0 \in X BY <1>8, <1>9
  <1>11. Ok(0) BY <1>10 DEF X
  <1>12. PICK all \in TxLists : all = g[0] BY <1>5, <1>11
  <1>13. Len(all) = Len(items) /\ \A j \in 1 .. Len(all) : all[j] = items[j]
    <2>1. k - 0 = k /\ \A j \in 1 .. k : 0 + j = j OBVIOUS
    <2> QED BY <1>4, <1>5, <1>11, <1>12, <2>1
  <1>14. all = items BY <1>3, <1>13, SeqEqual DEF TxLists
  <1> QED BY <1>12, <1>14

\* Where each of some items ends, one behind the other.
Ends(h, items, p) ==
    /\ h[0] = 0
    /\ \A i \in 1 .. Len(items) : h[i] = h[i - 1] + p + Len(items[i]) /\ h[i] \in Nat

\* The items that end there are a run of the frame.
EndsRight(h, f, items, p, odd) ==
    /\ items # <<>> /\ h[Len(items)] = Len(f)
    /\ \A i \in 1 .. Len(items) :
          /\ SubSeq(f, h[i - 1] + p + 1, h[i]) = items[i]
          /\ p > 0 => BigEndian(SubSeq(f, h[i - 1] + 1, h[i - 1] + p)) = Len(items[i])
          /\ IsTx(items[i]) \/ h[i - 1] + p + 1 \in odd

\* The items of a run are told by where they end.
LEMMA IsRunEnds ==
  ASSUME NEW f, NEW items \in TxLists, NEW p \in Nat, NEW odd
  PROVE  \E h : Ends(h, items, p) /\ (IsRun(f, items, p, odd) <=> EndsRight(h, f, items, p, odd))
  <1>1. PICK k \in Nat : k = Len(items) BY DEF TxLists
  <1>2. \A i \in 1 .. k : items[i] \in Seq(Nat) BY <1>1 DEF TxLists
  <1>3. \A i \in 1 .. k : \A x \in Nat : x + p + Len(items[i]) \in Nat
    <2> SUFFICES ASSUME NEW i \in 1 .. k, NEW x \in Nat PROVE x + p + Len(items[i]) \in Nat
      OBVIOUS
    <2>1. PICK size \in Nat : size = Len(items[i]) BY <1>2
    <2>2. x + p + size \in Nat OBVIOUS
    <2> QED BY <2>1, <2>2
  <1> DEFINE step == [i \in 1 .. k |-> [x \in Nat |-> x + p + Len(items[i])]]
  <1>4. PICK d : /\ d \in [0 .. k -> Nat]
                 /\ \A i \in 0 .. k : d[i] = IF i = 0 THEN 0 ELSE d[i - 1] + p + Len(items[i])
    <2> DEFINE X == Nat
               start == 0
    <2>1. UpwardStep(k, X, start, step) BY <1>3 DEF UpwardStep
    <2>2. \A i \in 1 .. k : \A x \in Nat : step[i][x] = x + p + Len(items[i]) OBVIOUS
    <2> HIDE DEF step, X, start
    <2>3. PICK d : UpwardFunction(d, k, X, start, step) BY <2>1, Upward
    <2>4. d \in [0 .. k -> Nat] /\ d[0] = 0 BY <2>3 DEF X, start, UpwardFunction
    <2>5. ASSUME NEW i \in 0 .. k, i # 0 PROVE d[i] = d[i - 1] + p + Len(items[i])
      <3>1. i \in 1 .. k /\ i - 1 \in 0 .. k BY <2>5
      <3>2. d[i] = step[i][d[i - 1]] BY <2>3, <2>5 DEF UpwardFunction
      <3>3. PICK x \in Nat : x = d[i - 1] BY <2>4, <3>1
      <3>4. step[i][x] = x + p + Len(items[i]) BY <2>2, <3>1
      <3> QED BY <3>2, <3>3, <3>4, Zenon
    <2> QED BY <2>4, <2>5
  <1> HIDE DEF step
  <1> DEFINE end == CHOOSE end : end = [i \in 0 .. Len(items) |->
                                           IF i = 0 THEN 0 ELSE end[i - 1] + p + Len(items[i])]
  <1>5. d = [i \in 0 .. Len(items) |-> IF i = 0 THEN 0 ELSE d[i - 1] + p + Len(items[i])]
    BY <1>1, <1>4
  <1>6. end = [i \in 0 .. Len(items) |-> IF i = 0 THEN 0 ELSE end[i - 1] + p + Len(items[i])]
    BY <1>5
  <1>7. IsRun(f, items, p, odd) <=>
           /\ items # <<>> /\ end[Len(items)] = Len(f)
           /\ \A i \in DOMAIN items :
                 /\ SubSeq(f, end[i - 1] + p + 1, end[i]) = items[i]
                 /\ p > 0 => BigEndian(SubSeq(f, end[i - 1] + 1, end[i - 1] + p)) = Len(items[i])
                 /\ IsTx(items[i]) \/ end[i - 1] + p + 1 \in odd
    BY Zenon DEF IsRun
  <1> HIDE DEF end
  <1>8. end[0] = 0 /\ \A i \in 1 .. k : end[i] = end[i - 1] + p + Len(items[i])
    <2>1. end[0] = 0 BY <1>1, <1>6
    <2>2. \A i \in 1 .. k : i \in 0 .. k /\ i # 0 OBVIOUS
    <2> QED BY <1>1, <1>6, <2>1, <2>2
  <1>9. \A i \in 0 .. k : end[i] \in Nat
    <2> DEFINE X == Nat
    <2>1. end[0] \in X BY <1>8
    <2>2. ASSUME NEW i \in 1 .. k, end[i - 1] \in X PROVE end[i] \in X BY <1>3, <1>8, <2>2
    <2> HIDE DEF X
    <2>3. \A i \in 0 .. k : end[i] \in X BY <2>1, <2>2, Rising
    <2> QED BY <2>3 DEF X
  <1>10. DOMAIN items = 1 .. Len(items) BY DEF TxLists
  <1>11. Ends(end, items, p)
    <2>1. \A i \in 1 .. k : i \in 0 .. k OBVIOUS
    <2> QED BY <1>1, <1>8, <1>9, <2>1 DEF Ends
  <1>12. IsRun(f, items, p, odd) <=> EndsRight(end, f, items, p, odd)
    BY <1>7, <1>10, Zenon DEF EndsRight
  <1> QED BY <1>11, <1>12

\* A run is what lies in the frame from its first byte to its last, but where a
\* sum wraps.
LEMMA IsRunLemma ==
  ASSUME NEW f, NEW p, FrameRight(f, p), NEW items \in TxLists, NEW odd
  PROVE  /\ odd = Wrapping(f) /\ items # <<>> /\ (\E e : LaidOut(e, f, p, items, 0)) =>
                IsRun(f, items, p, odd)
         /\ odd = {} /\ Len(f) < Usize /\ IsRun(f, items, p, odd) =>
                items # <<>> /\ \E e : LaidOut(e, f, p, items, 0)
  <1>0. f \in Seq(Byte) /\ p \in Nat BY ClassAssumption DEF FrameRight
  <1>1. PICK n \in Nat : n = Len(f) BY <1>0
  <1>2. PICK k \in Nat : k = Len(items) BY DEF TxLists
  <1>3. \A i \in 1 .. k : items[i] \in Seq(Nat) /\ Len(items[i]) \in Nat BY <1>2 DEF TxLists
  <1>4. PICK h : /\ Ends(h, items, p)
                 /\ IsRun(f, items, p, odd) <=>
                       /\ items # <<>> /\ h[k] = n
                       /\ \A i \in 1 .. k :
                             /\ SubSeq(f, h[i - 1] + p + 1, h[i]) = items[i]
                             /\ p > 0 => BigEndian(SubSeq(f, h[i - 1] + 1, h[i - 1] + p)) = Len(items[i])
                             /\ IsTx(items[i]) \/ h[i - 1] + p + 1 \in odd
    <2>1. p \in Nat BY <1>0
    <2>2. PICK h : Ends(h, items, p) /\ (IsRun(f, items, p, odd) <=> EndsRight(h, f, items, p, odd))
      BY <2>1, IsRunEnds, Zenon
    <2>3. EndsRight(h, f, items, p, odd) <=>
             /\ items # <<>> /\ h[k] = n
             /\ \A i \in 1 .. k :
                   /\ SubSeq(f, h[i - 1] + p + 1, h[i]) = items[i]
                   /\ p > 0 => BigEndian(SubSeq(f, h[i - 1] + 1, h[i - 1] + p)) = Len(items[i])
                   /\ IsTx(items[i]) \/ h[i - 1] + p + 1 \in odd
      BY <1>1, <1>2, Zenon DEF EndsRight
    <2> QED BY <2>2, <2>3, Zenon
  <1>5. /\ h[0] = 0 /\ \A i \in 1 .. k : h[i] = h[i - 1] + p + Len(items[i])
        /\ \A i \in 0 .. k : h[i] \in Nat
    <2>1. \A i \in 0 .. k : i = 0 \/ i \in 1 .. k OBVIOUS
    <2> QED BY <1>2, <1>4, <2>1 DEF Ends
  <1>6. ASSUME odd = Wrapping(f), items # <<>>, NEW e, LaidOut(e, f, p, items, 0)
        PROVE  IsRun(f, items, p, odd)
    <2>1. /\ e \in [0 .. k -> 0 .. n] /\ e[0] = 0 /\ e[k] = n
          /\ \A i \in 1 .. k : /\ e[i] = e[i - 1] + p + Len(items[i])
                               /\ PieceAt(f, p, e[i - 1], Len(items[i]))
                               /\ SubSeq(f, e[i - 1] + p + 1, e[i]) = items[i]
      BY <1>1, <1>2, <1>6 DEF LaidOut
    <2>2. \A i \in 0 .. k : h[i] = e[i]
      <3> DEFINE same == [i \in 0 .. k |-> i]
                 X == {i \in 0 .. k : h[i] = e[i]}
      <3>1. same[0] \in X BY <1>5, <2>1
      <3>2. ASSUME NEW i \in 1 .. k, same[i - 1] \in X PROVE same[i] \in X
        <4>1. i - 1 \in 0 .. k /\ i \in 0 .. k OBVIOUS
        <4>2. h[i - 1] = e[i - 1] BY <3>2, <4>1
        <4>3. h[i] = e[i] BY <1>5, <2>1, <4>2
        <4> QED BY <4>1, <4>3
      <3> HIDE DEF X
      <3>3. \A i \in 0 .. k : same[i] \in X BY <3>1, <3>2, Rising
      <3>4. \A i \in 0 .. k : i \in X BY <3>3
      <3> QED BY <3>4 DEF X
    <2>3. ASSUME NEW i \in 1 .. k
          PROVE  /\ SubSeq(f, h[i - 1] + p + 1, h[i]) = items[i]
                 /\ p > 0 => BigEndian(SubSeq(f, h[i - 1] + 1, h[i - 1] + p)) = Len(items[i])
                 /\ IsTx(items[i]) \/ h[i - 1] + p + 1 \in odd
      <3>1. i - 1 \in 0 .. k /\ i \in 0 .. k OBVIOUS
      <3>2. PICK a \in Nat : a = e[i - 1] /\ a = h[i - 1] BY <1>5, <2>2, <3>1
      <3>3. PICK b : b = e[i] /\ b = h[i] BY <2>2, <3>1
      <3>4. PICK size : size = Len(items[i]) OBVIOUS
      <3>5. PieceAt(f, p, a, size) /\ SubSeq(f, a + p + 1, b) = items[i] /\ b = a + p + size
        BY <2>1, <3>2, <3>3, <3>4
      <3>6. /\ size \in Nat /\ size >= 1 /\ a + p + size <= Len(f)
            /\ p > 0 => BigEndian(SubSeq(f, a + 1, a + p)) = size
        BY <3>5 DEF PieceAt
      <3>7. SubSeq(f, a + p + 1, a + p + size) = items[i] BY <3>5
      <3>8. IsTx(items[i]) \/ a + p + 1 \in odd BY <1>6, <3>5, <3>6, <3>7, PieceRight
      <3> QED BY <3>2, <3>3, <3>4, <3>5, <3>6, <3>8
    <2>4. k \in 0 .. k OBVIOUS
    <2>5. h[k] = n BY <2>1, <2>2, <2>4
    <2> QED BY <1>4, <1>6, <2>3, <2>5
  <1>7. ASSUME odd = {}, Len(f) < Usize, IsRun(f, items, p, odd)
        PROVE  items # <<>> /\ \E e : LaidOut(e, f, p, items, 0)
    <2>1. /\ items # <<>> /\ h[k] = n
          /\ \A i \in 1 .. k :
                /\ SubSeq(f, h[i - 1] + p + 1, h[i]) = items[i]
                /\ p > 0 => BigEndian(SubSeq(f, h[i - 1] + 1, h[i - 1] + p)) = Len(items[i])
                /\ IsTx(items[i])
      BY <1>4, <1>7, Zenon
    <2>2. \A i \in 0 .. k : h[i] \in 0 .. n
      <3> DEFINE same == [i \in 0 .. k |-> i]
                 X == {i \in 0 .. k : h[i] \in 0 .. n}
      <3>1. ASSUME NEW i \in 0 .. k, \A j \in i + 1 .. k : same[j] \in X PROVE same[i] \in X
        <4>1. CASE i = k BY <2>1, <4>1
        <4>2. CASE i # k
          <5>1. PICK b \in 1 .. k : b = i + 1 /\ b - 1 = i BY <4>2
          <5>2. b \in i + 1 .. k /\ b \in 0 .. k BY <5>1
          <5>3. same[b] \in X /\ same[b] = b BY <3>1, <5>2
          <5>4. h[b] \in 0 .. n BY <5>3
          <5>5. h[b] = h[i] + p + Len(items[b]) /\ h[i] \in Nat BY <1>5, <5>1
          <5>6. PICK size \in Nat : size = Len(items[b]) BY <1>3
          <5>7. h[i] \in 0 .. n BY <1>0, <5>4, <5>5, <5>6
          <5> QED BY <5>7
        <4> QED BY <4>1, <4>2
      <3> HIDE DEF X
      <3>2. \A i \in 0 .. k : same[i] \in X BY <3>1, Falling
      <3>3. \A i \in 0 .. k : i \in X BY <3>2
      <3> QED BY <3>3 DEF X
    <2>3. PICK e \in [0 .. k -> 0 .. n] : e = [i \in 0 .. k |-> h[i]] BY <2>2
    <2>4. \A i \in 0 .. k : e[i] = h[i] BY <2>3
    <2>5. ASSUME NEW i \in 1 .. k
          PROVE  /\ e[i] = e[i - 1] + p + Len(items[i])
                 /\ PieceAt(f, p, e[i - 1], Len(items[i]))
                 /\ SubSeq(f, e[i - 1] + p + 1, e[i]) = items[i]
      <3>1. i - 1 \in 0 .. k /\ i \in 0 .. k OBVIOUS
      <3>2. PICK a \in Nat : a = e[i - 1] /\ a = h[i - 1] BY <1>5, <2>4, <3>1
      <3>3. PICK size \in Nat : size = Len(items[i]) BY <1>3
      <3>4. PICK b \in Nat : b = e[i] /\ b = h[i] /\ b = a + p + size /\ b <= n
        <4>1. h[i] \in Nat /\ h[i] <= n /\ e[i] = h[i] BY <2>2, <2>4, <3>1
        <4>2. h[i] = a + p + size BY <1>5, <3>2, <3>3
        <4> QED BY <4>1, <4>2
      <3>5. /\ SubSeq(f, a + p + 1, b) = items[i] /\ IsTx(items[i])
            /\ p > 0 => BigEndian(SubSeq(f, a + 1, a + p)) = size
        BY <2>1, <3>2, <3>3, <3>4
      <3>6. size >= 1 /\ size >= MinTx
        <4>1. size >= MinTx BY <3>3, <3>5 DEF IsTx
        <4>2. MinTx \in Nat /\ MinTx >= 1 BY SplitAssumption
        <4> QED BY <4>1, <4>2
      <3>7. PieceAt(f, p, a, size)
        <4>1. a + p + size <= Len(f) BY <1>1, <3>4
        <4>2. IsTx(SubSeq(f, a + p + 1, a + p + size)) BY <3>4, <3>5
        <4> QED BY <1>7, <3>5, <3>6, <4>1, <4>2, PieceRight
      <3> QED BY <3>2, <3>3, <3>4, <3>5, <3>7
    <2>6. e[0] = 0 /\ e[k] = n
      <3>1. 0 \in 0 .. k /\ k \in 0 .. k OBVIOUS
      <3> QED BY <1>5, <2>1, <2>4, <3>1
    <2>7. LaidOut(e, f, p, items, 0) BY <1>1, <1>2, <2>5, <2>6 DEF LaidOut
    <2> QED BY <2>1, <2>7
  <1> QED BY <1>6, <1>7

\* A run is found when the frame is one, and only then, but where a sum wraps.
LEMMA RunRight ==
  ASSUME NEW f, NEW p, FrameRight(f, p)
  PROVE  /\ run_of(f, p) \in Runs
         /\ run_of(f, p) \notin {None, <<>>} => IsRun(f, run_of(f, p), p, Wrapping(f))
         /\ \A items \in TxLists : Len(f) < Usize /\ IsRun(f, items, p, {}) =>
                items = run_of(f, p) /\ run_of(f, p) \notin {None, <<>>}
  <1>1. PICK g : RunFound(f, p, g) BY RunLemma
  <1>2. 0 \in 0 .. Len(f)
    <2>1. f \in Seq(Byte) BY DEF FrameRight
    <2>2. Len(f) \in Nat BY <2>1
    <2> QED BY <2>2
  <1>3. run_of(f, p) = g[0] /\ g[0] \in Runs BY <1>1, <1>2 DEF RunFound
  <1>4. ASSUME g[0] \notin {None, <<>>} PROVE IsRun(f, g[0], p, Wrapping(f))
    <2>1. PICK e : LaidOut(e, f, p, g[0], 0) BY <1>1, <1>2, <1>4, RunSound
    <2>2. g[0] \in TxLists BY <2>1 DEF LaidOut
    <2> QED BY <1>4, <2>1, <2>2, IsRunLemma
  <1>5. ASSUME NEW items \in TxLists, Len(f) < Usize, IsRun(f, items, p, {})
        PROVE  items = g[0] /\ g[0] \notin {None, <<>>}
    <2>1. PICK e : LaidOut(e, f, p, items, 0) BY <1>5, IsRunLemma
    <2>2. items # <<>> BY <1>5, IsRunLemma
    <2>3. g[0] = items BY <1>1, <2>1, RunComplete
    <2>4. items # None BY SplitAssumption DEF TxLists
    <2> QED BY <2>2, <2>3, <2>4
  <1> QED BY <1>3, <1>4, <1>5

\* The frame is made of bytes, and so are its pieces.
FrameInv == frame \in Seq(Byte) /\ pieces \in TxLists /\ prefix \in Nat

\* Each size of prefix is a number of bytes that is read.
LEMMA PrefixTyped ==
  /\ Len(PrefixSizes) \in Nat /\ DOMAIN PrefixSizes = 1 .. Len(PrefixSizes)
  /\ \A i \in DOMAIN PrefixSizes : PrefixSizes[i] \in 0 .. Word
  <1> DEFINE S == 0 .. Word
  <1>1. PrefixSizes \in Seq(S) BY SplitAssumption
  <1> HIDE DEF S
  <1>2. Len(PrefixSizes) \in Nat /\ DOMAIN PrefixSizes = 1 .. Len(PrefixSizes) BY <1>1, LenProperties
  <1>3. \A i \in 1 .. Len(PrefixSizes) : PrefixSizes[i] \in S BY <1>1, ElementOfSeq
  <1> QED BY <1>2, <1>3 DEF S

\* Splitting takes the first size of prefix for which the frame is a run.
LEMMA SplitLemma == FrameInv => SplitExact
  <1> SUFFICES ASSUME FrameInv
               PROVE  /\ split_txs(frame) # <<>> =>
                            \E i \in DOMAIN PrefixSizes :
                               IsRun(frame, split_txs(frame), PrefixSizes[i], Wrapping(frame))
                      /\ Len(frame) < Usize => \A i \in DOMAIN PrefixSizes :
                            IsRun(frame, pieces, PrefixSizes[i], {}) =>
                               \/ split_txs(frame) = pieces
                               \/ \E j \in 1 .. i - 1 :
                                     IsRun(frame, split_txs(frame), PrefixSizes[j], Wrapping(frame))
    BY DEF SplitExact
  <1>1. PICK n \in Nat : n = Len(PrefixSizes) BY PrefixTyped
  <1>2. DOMAIN PrefixSizes = 1 .. n /\ \A i \in 1 .. n : PrefixSizes[i] \in 0 .. Word
    BY <1>1, PrefixTyped
  <1>3. \A i \in 1 .. n : FrameRight(frame, PrefixSizes[i]) BY <1>2 DEF FrameRight, FrameInv
  <1> DEFINE run(i) == run_of(frame, PrefixSizes[i])
             fits == {i \in 1 .. n : run(i) \notin {None, <<>>}}
  <1>4. \A i \in fits : IsRun(frame, run(i), PrefixSizes[i], Wrapping(frame)) BY <1>3, RunRight
  <1>5. \A i \in 1 .. n : Len(frame) < Usize /\ IsRun(frame, pieces, PrefixSizes[i], {}) =>
           i \in fits /\ run(i) = pieces
    BY <1>3, RunRight DEF FrameInv
  <1>6. split_txs(frame) = IF fits = {} THEN <<>>
                           ELSE run(CHOOSE i \in fits : \A j \in fits : i <= j)
    BY <1>2 DEF split_txs
  <1>7. fits \in SUBSET Nat /\ fits \subseteq 1 .. n OBVIOUS
  <1> HIDE DEF fits, run
  <1>8. CASE fits = {} BY <1>2, <1>5, <1>6, <1>8
  <1>9. CASE fits # {}
    <2>1. \E i \in fits : \A j \in fits : i <= j BY <1>7, <1>9, LeastNumber
    <2>2. PICK first \in fits : /\ first = CHOOSE i \in fits : \A j \in fits : i <= j
                                /\ \A j \in fits : first <= j
      BY <2>1
    <2>3. split_txs(frame) = run(first) BY <1>6, <1>9, <2>2
    <2>4. first \in 1 .. n /\ IsRun(frame, split_txs(frame), PrefixSizes[first], Wrapping(frame))
      BY <1>4, <1>7, <2>3
    <2>5. ASSUME NEW i \in 1 .. n, Len(frame) < Usize, IsRun(frame, pieces, PrefixSizes[i], {})
          PROVE  \/ split_txs(frame) = pieces
                 \/ \E j \in 1 .. i - 1 :
                       IsRun(frame, split_txs(frame), PrefixSizes[j], Wrapping(frame))
      <3>1. i \in fits /\ run(i) = pieces BY <1>5, <2>5
      <3>2. first <= i BY <2>2, <3>1
      <3>3. CASE first = i BY <2>3, <3>1, <3>3
      <3>4. CASE first # i
        <4>1. first \in 1 .. i - 1 BY <2>4, <3>2, <3>4
        <4> QED BY <2>4, <4>1
      <3> QED BY <3>3, <3>4
    <2> QED BY <1>2, <2>4, <2>5
  <1> QED BY <1>8, <1>9

\* Every frame is split into items that it is made of to the last byte, and they
\* are transactions but where a list is read whose length leaves usize; a frame
\* made of transactions is split into them, for the first size of prefix that
\* fits (split_txs, wsraw.rs).
THEOREM SplitCorrect == Spec => []SplitExact
  <1>0. Byte \subseteq Nat BY BaseAssumption DEF Byte
  <1>1. Init => FrameInv
    <2> SUFFICES ASSUME Init PROVE FrameInv OBVIOUS
    <2>1. frame = <<>> /\ pieces = <<>> BY DEF Init
    <2>2. prefix \in Nat
      <3>1. prefix \in {PrefixSizes[i] : i \in DOMAIN PrefixSizes} \/ prefix = 0 BY DEF Init
      <3>2. \A i \in DOMAIN PrefixSizes : PrefixSizes[i] \in 0 .. Word BY PrefixTyped
      <3>3. 0 .. Word \subseteq Nat OBVIOUS
      <3> QED BY <3>1, <3>2, <3>3
    <2> QED BY <2>1, <2>2, EmptySeq DEF FrameInv, TxLists
  <1>2. FrameInv /\ [Next]_vars => FrameInv'
    <2> SUFFICES ASSUME FrameInv, [Next]_vars PROVE FrameInv' OBVIOUS
    <2>1. ASSUME UNCHANGED <<prefix, pieces, frame>> PROVE FrameInv' BY <2>1 DEF FrameInv
    <2>2. CASE Enclose \/ Nest BY <2>1, <2>2 DEF Enclose, Nest
    <2>3. ASSUME NEW leaf \in Leaves, Join(leaf) PROVE FrameInv' BY <2>1, <2>3 DEF Join
    <2>4. ASSUME NEW piece \in Pieces, Add(piece) PROVE FrameInv'
      <3>1. piece \in Seq(Byte) BY BytesAssumption
      <3>2. piece \in Seq(Nat) BY <1>0, <3>1, SeqMonotonic
      <3>3. pieces' \in TxLists
        <4>1. pieces' = Append(pieces, piece) BY <2>4 DEF Add
        <4> QED BY <3>2, <4>1, AppendProperties DEF FrameInv, TxLists
      <3>4. Len(piece) \in Nat /\ prefix \in Nat BY <3>1 DEF FrameInv
      <3>5. Spell(Len(piece), prefix) \in Seq(Byte) BY <3>4, SpellTyped
      <3>6. frame' = frame \o Spell(Len(piece), prefix) \o piece /\ prefix' = prefix
        BY <2>4 DEF Add
      <3>7. \A s, t \in Seq(Byte) : s \o t \in Seq(Byte) BY ConcatProperties
      <3>8. frame' \in Seq(Byte) BY <3>1, <3>5, <3>6, <3>7 DEF FrameInv
      <3> QED BY <3>3, <3>4, <3>6, <3>8 DEF FrameInv
    <2>5. ASSUME NEW x \in Samples, Measure(x) PROVE FrameInv' BY <2>1, <2>5 DEF Measure
    <2>6. CASE Tomorrow BY <2>1, <2>6 DEF Tomorrow
    <2>7. CASE UNCHANGED vars BY <2>1, <2>7 DEF vars
    <2> QED BY <2>2, <2>3, <2>4, <2>5, <2>6, <2>7 DEF Next
  <1> QED BY <1>1, <1>2, SplitLemma, PTL DEF Spec
=============================================================================
