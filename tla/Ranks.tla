------------------------------- MODULE Ranks -------------------------------
(***************************************************************************)
(* The percentile and the median of the tables (src/src/stats.rs), over a  *)
(* sorted sequence of whole numbers.                                       *)
(***************************************************************************)
EXTENDS Integers, Sequences

\* The number of the sample, from 1: permille of n, rounded up, within 1..n.
rank(permille, n) ==
    LET up == (permille * n + 999) \div 1000
    IN  IF up < 1 THEN 1 ELSE IF up > n THEN n ELSE up

\* Mutant of nearest_rank: rounded down.
nearest_rank_Down(sorted, permille) ==
    IF sorted = <<>> THEN 0
    ELSE LET down == (permille * Len(sorted)) \div 1000
         IN  sorted[IF down < 1 THEN 1 ELSE down]

nearest_rank(sorted, permille) ==
    IF sorted = <<>> THEN 0 ELSE sorted[rank(permille, Len(sorted))]

\* Twice the median, so that the mean of two samples is a whole number.
median2(sorted) ==
    LET n == Len(sorted)
    IN  IF n = 0 THEN 0
        ELSE IF n % 2 = 1 THEN 2 * sorted[n \div 2 + 1]
        ELSE sorted[n \div 2] + sorted[n \div 2 + 1]
=============================================================================
