------------------------------- MODULE RawTxs -------------------------------
(***************************************************************************)
(* The splitting of a binary frame into signed transactions                *)
(* (src/src/wsraw.rs).  The boundaries between the classes of first bytes  *)
(* are constants, and so is the width of usize: lengths wrap, as they do   *)
(* in a release build.                                                     *)
(***************************************************************************)
EXTENDS L2

CONSTANTS Usize,      \* the number of values of a usize
          STR,        \* 0x80, the first byte of the empty short string
          STRLONG,    \* 0xb8, of a string whose length takes one byte
          LIST,       \* 0xc0, of the empty short list
          LISTLONG,   \* 0xf8, of a list whose length takes one byte
          Word,       \* the longest length that is read, in bytes (8)
          PrefixSizes,   \* sizes of a length in front of a transaction, in the order tried
          MinTx,      \* the shortest transaction that is believed (8)
          None        \* None for an Option

ASSUME ClassAssumption ==
    /\ {STR, STRLONG, LIST, LISTLONG, Word, Usize} \subseteq Nat
    /\ 0 < STR /\ STR < STRLONG /\ STRLONG < LIST /\ LIST < LISTLONG
    /\ Base = LISTLONG + Word /\ Base < Usize

ASSUME SplitAssumption ==
    /\ PrefixSizes \in Seq(0 .. Word)
    /\ MinTx \in Nat \ {0}
    /\ None \notin Nat /\ None \notin Seq(Seq(Nat))

\* A usize holds what Word bytes can spell.
ASSUME UsizeAssumption ==
    \A size \in 0 .. Word : \A bytes \in [1 .. size -> 0 .. Base - 1] : BigEndian(bytes) < Usize

usize(n) == n % Usize

be(bytes) == IF bytes = <<>> \/ Len(bytes) > Word THEN None ELSE usize(BigEndian(bytes))

\* Mutant of long_len: the bytes of the length itself are forgotten.
long_len_PayloadOnly(b, ll) ==
    IF Len(b) < 1 + ll \/ ll > Word THEN None ELSE usize(1 + be(SubSeq(b, 2, 1 + ll)))

\* An item whose length is spelt in ll bytes after the first.
long_len(b, ll) ==
    IF Len(b) < 1 + ll \/ ll > Word THEN None ELSE usize(1 + ll + be(SubSeq(b, 2, 1 + ll)))

\* Length of the RLP item at the start of b, header included.
rlp_item_len(b) ==
    IF b = <<>> THEN None
    ELSE CASE b[1] < STR                           -> 1
           [] b[1] >= STR /\ b[1] < STRLONG        -> 1 + (b[1] - STR)
           [] b[1] >= STRLONG /\ b[1] < LIST       -> long_len(b, b[1] - (STRLONG - 1))
           [] b[1] >= LIST /\ b[1] < LISTLONG      -> 1 + (b[1] - LIST)
           [] OTHER                                -> long_len(b, b[1] - (LISTLONG - 1))

\* Length of the signed transaction at the start of b: a type and a list, or
\* a list.
tx_len(b) ==
    LET body == Tail(b)
    IN  CASE b = <<>>                              -> None
          [] b # <<>> /\ b[1] < STR                ->
                IF body = <<>> \/ Head(body) < LIST \/ rlp_item_len(body) = None THEN None
                ELSE usize(1 + rlp_item_len(body))
          [] b # <<>> /\ b[1] >= LIST              -> rlp_item_len(b)
          [] OTHER                                 -> None

\* The transactions of a frame in which each has a prefix of p bytes; None if
\* the frame is not a run of such.
run_of(frame, p) ==
    LET from[pos \in 0 .. Len(frame)] ==
            LET rest == SubSeq(frame, pos + p + 1, Len(frame))
                n    == tx_len(rest)
            IN  IF pos = Len(frame) THEN <<>>
                ELSE IF \/ pos + p > Len(frame)
                        \/ n = None
                        \/ p > 0 /\ be(SubSeq(frame, pos + 1, pos + p)) # n
                        \/ n > Len(rest)
                        \/ n < MinTx
                        \/ from[pos + p + n] = None
                     THEN None
                     ELSE <<SubSeq(rest, 1, n)>> \o from[pos + p + n]
    IN  from[0]

\* The first size of prefix for which the frame is a run wins.
split_txs(frame) ==
    LET fits == {i \in DOMAIN PrefixSizes : run_of(frame, PrefixSizes[i]) \notin {None, <<>>}}
    IN  IF fits = {} THEN <<>>
        ELSE run_of(frame, PrefixSizes[CHOOSE i \in fits : \A j \in fits : i <= j])
=============================================================================
