------------------------------- MODULE MCTxs -------------------------------
(* Three sources of every mix of kinds, a block of two transactions, which *)
(* Eira can name by two keys, and a transaction that was moved from one    *)
(* block to another of the same number.                                    *)
EXTENDS TxsRun, TLC

CONSTANTS s1, s2, s3, h1, h2, h3, b1, b2, b3, q1, q2, q3, n1, n2

Kinds(a, b, c) == s1 :> a @@ s2 :> b @@ s3 :> c
SetupsDef == {[kind |-> Kinds("nitro", "nitro", "eira"),   reference |-> s3],
              [kind |-> Kinds("nitro", "eira", "wsjson"),  reference |-> s2],
              [kind |-> Kinds("eira", "wsjson", "wsraw"),  reference |-> s1],
              [kind |-> Kinds("nitro", "wsjson", "wsraw"), reference |-> s1]}

ContentDef  == b1 :> {h1, h2} @@ b2 :> {h3} @@ b3 :> {h3}
NitroKeyDef == b1 :> q1 @@ b2 :> q2 @@ b3 :> q3
NumKeyDef   == b1 :> n1 @@ b2 :> n2 @@ b3 :> n2
BucketsDef  == <<<<1, 1>>, <<2, 100>>>>
InstantDef  == 0 .. 1
WindowDef   == {0}

\* The two transactions of b1 are alike, and so are the blocks that held h3,
\* which the state knows by their keys.
Symmetry == Permutations({h1, h2}) \cup Permutations({q2, q3})
=============================================================================
