-------------------------------- MODULE L2 ---------------------------------
(***************************************************************************)
(* The walk over a Nitro L2 message (src/src/l2.rs): the signed            *)
(* transactions a message carries.  A message is a sequence of bytes, the  *)
(* first of which is its kind; a batch holds entries, each a length of     *)
(* LenSize bytes and a message.  Hashing is left out.                      *)
(***************************************************************************)
EXTENDS Naturals, Sequences

CONSTANTS Base,       \* the number of values of a byte
          LenSize,    \* bytes of an entry's length (8)
          MaxEntry,   \* the largest entry that is read (16 MiB)
          MaxDepth    \* the deepest batch that is read (4)

ASSUME BaseAssumption == Base \in Nat /\ Base >= 2

ASSUME EntryAssumption == LenSize \in Nat \ {0} /\ MaxEntry \in Nat /\ MaxDepth \in Nat

KIND_BATCH     == 3
KIND_SIGNED_TX == 4

\* The number that bytes spell, the most significant first.
BigEndian(bytes) ==
    LET n[i \in 0 .. Len(bytes)] == IF i = 0 THEN 0 ELSE n[i - 1] * Base + bytes[i]
    IN  n[Len(bytes)]

\* Mutant of whole: an entry that ends with its batch is taken for cut short.
whole_Before(l2, at, n) == n <= MaxEntry /\ at + n < Len(l2)

\* The entry of n bytes after the first `at` is not too large and is all there.
whole(l2, at, n) == n <= MaxEntry /\ at + n <= Len(l2)

\* The transactions in the entries of a batch, each read by `deeper`.  The first
\* entry that is too large or cut short ends the walk of this batch.
entries(l2, deeper) ==
    LET from[pos \in 0 .. Len(l2)] ==
            LET at == pos + LenSize
                n  == BigEndian(SubSeq(l2, pos + 1, at))
            IN  IF at <= Len(l2) /\ whole(l2, at, n)
                THEN deeper[SubSeq(l2, at + 1, at + n)] \o from[at + n]
                ELSE <<>>
    IN  from[1]

\* The transactions in one message at some depth, with the entries of a batch
\* read by `deeper`.
in_message(l2, depth, deeper) ==
    CASE l2 = <<>>                               -> <<>>
      [] l2 # <<>> /\ l2[1] = KIND_SIGNED_TX     -> IF Len(l2) > 1 THEN <<Tail(l2)>> ELSE <<>>
      [] l2 # <<>> /\ l2[1] = KIND_BATCH         -> IF depth > MaxDepth THEN <<>>
                                                    ELSE entries(l2, deeper)
      [] OTHER                                   -> <<>>

walk == LET at[depth \in 0 .. MaxDepth + 1] ==
                [l2 \in Seq(Nat) |-> in_message(l2, depth, at[depth + 1])]
        IN  at

signed_txs(l2) == walk[0][l2]
=============================================================================
