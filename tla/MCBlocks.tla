------------------------------ MODULE MCBlocks ------------------------------
(* A few sources and blocks over a short stretch of time.                  *)
EXTENDS BlocksRun, TLC

CONSTANT MaxInstant   \* bound: the last instant

InstantDef == 0 .. MaxInstant
Symmetry   == Permutations(Source) \cup Permutations(Key)
=============================================================================
