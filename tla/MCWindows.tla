----------------------------- MODULE MCWindows -----------------------------
(* Two or three interchangeable sources over a short stretch of time.  The *)
(* instants start at 0, which is also the stamp of a source that has sent  *)
(* nothing; sources are model values and no definition orders them.        *)
EXTENDS WindowsRun, TLC

CONSTANT MaxInstant   \* bound: the last instant

InstantDef == 0 .. MaxInstant
Symmetry   == Permutations(Source)
=============================================================================
