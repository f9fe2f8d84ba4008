------------------------------ MODULE Decoders ------------------------------
(***************************************************************************)
(* The pure functions of the program against what they are meant to        *)
(* compute.  A state is an input, and a step makes it larger: an L2        *)
(* message, which is enclosed in a batch or gets an entry more; a binary   *)
(* frame, which gets a piece more; a sorted sequence of samples; a date.   *)
(***************************************************************************)
EXTENDS RawTxs, Ranks, Dates, FiniteSets

CONSTANTS Bodies,      \* bodies of signed transactions
          Pieces,      \* what binary frames are made of
          Samples,     \* values of samples
          Permilles,   \* the percentiles of the tables
          MaxBytes,    \* bound: bytes of an L2 message
          MaxPieces,   \* bound: pieces of a frame
          MaxSamples,  \* bound: number of samples
          LastYear     \* bound: dates from 1970 to this year

Byte == 0 .. Base - 1

\* A number spelt in size bytes, what is too large for them cut off.
Spell(n, size) ==
    LET rest[i \in 0 .. size] == IF i = 0 THEN n ELSE rest[i - 1] \div Base
    IN  [i \in 1 .. size |-> rest[size - i] % Base]

ASSUME BytesAssumption == Bodies \subseteq Seq(Byte) /\ Pieces \subseteq Seq(Byte)

\* The length of a message can be spelt.
ASSUME LengthAssumption ==
    MaxBytes \in Nat /\ \A n \in 0 .. MaxBytes : BigEndian(Spell(n, LenSize)) = n

ASSUME SampleAssumption == Samples \subseteq Int /\ Permilles \subseteq 0 .. 1000

VARIABLES task,     \* which function: "l2", "raw", "ranks" or "date"
          message,  \* the L2 message: its kind, its bytes and its entries
          prefix,   \* the size of the length put in front of each piece
          pieces,   \* the pieces of the frame
          frame,    \* and its bytes
          sorted,   \* the samples
          day,      \* a day, counted from 1970-01-01
          date      \* and the date it has in the calendar

vars == <<task, message, prefix, pieces, frame, sorted, day, date>>

\* A transaction, a message of another kind (6), or no message at all (0).
Leaf(kind, bytes) == [kind |-> kind, bytes |-> bytes, subs |-> <<>>]

Leaves == {Leaf(KIND_SIGNED_TX, <<KIND_SIGNED_TX>> \o body) : body \in Bodies}
              \cup {Leaf(6, <<6>>), Leaf(0, <<>>)}

-----------------------------------------------------------------------------
(***************************************************************************)
(* What an L2 message carries.  Of an entry the last byte is known, its    *)
(* length, and the transactions it carries at each depth.                  *)
(***************************************************************************)

\* Entry i is all in the first c bytes, and not too large.
Readable(i, c) == message.subs[i].last <= c /\ message.subs[i].size <= MaxEntry

\* The transactions of the first k entries, at some depth.
Gathered(k, depth) ==
    LET txs[i \in 0 .. k] ==
            IF i = 0 THEN <<>> ELSE txs[i - 1] \o message.subs[i].txs[depth]
    IN  txs[k]

\* The entries before the first that is not readable.
Kept(c) ==
    CHOOSE k \in 0 .. Len(message.subs) :
        /\ \A i \in 1 .. k : Readable(i, c)
        /\ k < Len(message.subs) => ~Readable(k + 1, c)

\* The transactions in the first c bytes of the message, when it is found at some
\* depth: none below the depth limit.
Carried(c, depth) ==
    IF message.kind = KIND_SIGNED_TX /\ c > 1 THEN <<SubSeq(message.bytes, 2, c)>>
    ELSE IF message.kind = KIND_BATCH /\ depth <= MaxDepth THEN Gathered(Kept(c), depth + 1)
    ELSE <<>>

\* The message with an entry of these bytes, which carries these transactions.
WithEntry(bytes, subs, entry, txs) ==
    [kind  |-> KIND_BATCH,
     bytes |-> bytes \o Spell(Len(entry), LenSize) \o entry,
     subs  |-> Append(subs, [last |-> Len(bytes) + LenSize + Len(entry),
                             size |-> Len(entry),
                             txs  |-> txs])]

-----------------------------------------------------------------------------
Leap(y) == y % 4 = 0 /\ (y % 100 = 0 => y % 400 = 0)

DaysIn(y, m) ==
    CASE m = 2              -> IF Leap(y) THEN 29 ELSE 28
      [] m \in {4, 6, 9, 11} -> 30
      [] OTHER              -> 31

Init ==
    /\ task    \in {"l2", "raw", "ranks", "date"}
    /\ message \in IF task = "l2" THEN Leaves ELSE {Leaf(0, <<>>)}
    /\ prefix  \in IF task = "raw" THEN {PrefixSizes[i] : i \in DOMAIN PrefixSizes} ELSE {0}
    /\ pieces = <<>>
    /\ frame  = <<>>
    /\ sorted = <<>>
    /\ day    = 0
    /\ date   = [y |-> 1970, m |-> 1, d |-> 1]

\* The message becomes the first entry of a batch.
Enclose ==
    /\ task = "l2"
    /\ Len(message.bytes) + 1 + LenSize <= MaxBytes
    /\ message' = WithEntry(<<KIND_BATCH>>, <<>>, message.bytes,
                            [d \in 0 .. MaxDepth + 1 |-> Carried(Len(message.bytes), d)])
    /\ UNCHANGED <<task, prefix, pieces, frame, sorted, day, date>>

\* A batch has one more entry, a batch: what it was itself.
Nest ==
    /\ task = "l2" /\ message.kind = KIND_BATCH
    /\ Len(message.bytes) + LenSize + Len(message.bytes) <= MaxBytes
    /\ message' = WithEntry(message.bytes, message.subs, message.bytes,
                            [d \in 0 .. MaxDepth + 1 |-> Carried(Len(message.bytes), d)])
    /\ UNCHANGED <<task, prefix, pieces, frame, sorted, day, date>>

\* A batch has one more entry, with a transaction or none.
Join(leaf) ==
    LET size == Len(leaf.bytes)
        txs  == IF leaf.kind = KIND_SIGNED_TX /\ size > 1 THEN <<Tail(leaf.bytes)>> ELSE <<>>
    IN  /\ task = "l2" /\ message.kind = KIND_BATCH
        /\ Len(message.bytes) + LenSize + size <= MaxBytes
        /\ message' = WithEntry(message.bytes, message.subs, leaf.bytes,
                                [d \in 0 .. MaxDepth + 1 |-> txs])
        /\ UNCHANGED <<task, prefix, pieces, frame, sorted, day, date>>

\* The frame has one more piece.
Add(piece) ==
    /\ task = "raw" /\ Len(pieces) < MaxPieces
    /\ pieces' = Append(pieces, piece)
    /\ frame'  = frame \o Spell(Len(piece), prefix) \o piece
    /\ UNCHANGED <<task, message, prefix, sorted, day, date>>

\* One more sample, no smaller than the others.
Measure(x) ==
    /\ task = "ranks" /\ Len(sorted) < MaxSamples
    /\ sorted # <<>> => sorted[Len(sorted)] <= x
    /\ sorted' = Append(sorted, x)
    /\ UNCHANGED <<task, message, prefix, pieces, frame, day, date>>

\* The day after.
Tomorrow ==
    LET last == date.d = DaysIn(date.y, date.m)
    IN  /\ task = "date" /\ date.y < LastYear
        /\ day' = day + 1
        /\ date' = CASE ~last               -> [date EXCEPT !.d = @ + 1]
                     [] last /\ date.m < 12 -> [date EXCEPT !.m = @ + 1, !.d = 1]
                     [] last /\ date.m = 12 -> [y |-> date.y + 1, m |-> 1, d |-> 1]
        /\ UNCHANGED <<task, message, prefix, pieces, frame, sorted>>

Next ==
    \/ Enclose \/ Nest
    \/ \E leaf \in Leaves : Join(leaf)
    \/ \E piece \in Pieces : Add(piece)
    \/ \E x \in Samples : Measure(x)
    \/ Tomorrow

Spec == Init /\ [][Next]_vars

-----------------------------------------------------------------------------
(***************************************************************************)
(* L2 messages.                                                            *)
(***************************************************************************)

\* Every signed transaction of an L2 message is found, once and in order, with
\* all of its bytes and no others, down to the depth limit; of a message that
\* is cut short, those of the entries that are whole, and never a part of one
\* (signed_txs and walk, l2.rs).
SignedTxsExact ==
    task = "l2" => \A c \in 0 .. Len(message.bytes) :
        signed_txs(SubSeq(message.bytes, 1, c)) = Carried(c, 0)

-----------------------------------------------------------------------------
(***************************************************************************)
(* Binary frames.                                                          *)
(***************************************************************************)

\* An RLP list, whatever the length it states.
IsList(b) ==
    \/ \E n \in 0 .. LISTLONG - LIST - 1 : b # <<>> /\ b[1] = LIST + n /\ Len(b) = 1 + n
    \/ \E ll \in 1 .. Word :
          /\ Len(b) > ll /\ b[1] = LISTLONG + ll - 1
          /\ Len(b) = 1 + ll + BigEndian(SubSeq(b, 2, 1 + ll))

\* A signed transaction, bare or in an envelope of some type.
IsTx(b) ==
    /\ Len(b) >= MinTx
    /\ IsList(b) \/ (b[1] < STR /\ IsList(Tail(b)))

\* The list that b begins with states a length that, with extra bytes in front,
\* no usize holds.
TooLong(b, extra) ==
    \E ll \in 1 .. Word :
        /\ Len(b) > ll /\ b[1] = LISTLONG + ll - 1
        /\ extra + 1 + ll + BigEndian(SubSeq(b, 2, 1 + ll)) >= Usize

\* So does the list, bare or in an envelope, that is read for a transaction.
Wraps(b) == TooLong(b, 0) \/ (b # <<>> /\ b[1] < STR /\ TooLong(Tail(b), 1))

\* The bytes of f from which on that is so.
Wrapping(f) == {i \in DOMAIN f : Wraps(SubSeq(f, i, Len(f)))}

\* The bytes of f are those of the items, each with its length in front, in p
\* bytes, and the items are transactions, but for those that begin at a byte of
\* odd.
IsRun(f, items, p, odd) ==
    LET end[i \in 0 .. Len(items)] == IF i = 0 THEN 0 ELSE end[i - 1] + p + Len(items[i])
    IN  /\ items # <<>> /\ end[Len(items)] = Len(f)
        /\ \A i \in DOMAIN items :
              LET at == end[i - 1] + p
              IN  /\ SubSeq(f, at + 1, end[i]) = items[i]
                  /\ p > 0 => BigEndian(SubSeq(f, end[i - 1] + 1, at)) = Len(items[i])
                  /\ IsTx(items[i]) \/ at + 1 \in odd

\* A frame is split into items that it is made of to the last byte, and one that
\* is not made of such yields nothing; each is a transaction, unless a list is
\* read where it begins whose length leaves usize, so that the sum wraps.  A
\* frame made of transactions is split into them, unless the bytes are also a
\* run for a prefix that is tried earlier (split_txs, wsraw.rs).
SplitExact ==
    LET out == split_txs(frame)
        odd == Wrapping(frame)
    IN  task = "raw" =>
          /\ out # <<>> => \E i \in DOMAIN PrefixSizes : IsRun(frame, out, PrefixSizes[i], odd)
          /\ Len(frame) < Usize => \A i \in DOMAIN PrefixSizes :
                IsRun(frame, pieces, PrefixSizes[i], {}) =>
                    \/ out = pieces
                    \/ \E j \in 1 .. i - 1 : IsRun(frame, out, PrefixSizes[j], odd)

-----------------------------------------------------------------------------
(***************************************************************************)
(* Percentiles.                                                            *)
(***************************************************************************)

\* How many samples are at most x.
UpTo(x) == Cardinality({i \in DOMAIN sorted : sorted[i] <= x})

\* A percentile is the least sample that enough of the samples do not exceed;
\* the median has as many samples on either side, and is that of the negated
\* samples, negated (nearest_rank and median, stats.rs).
RanksRight ==
    LET n       == Len(sorted)
        middle  == median2(sorted)
        negated == [i \in 1 .. n |-> -sorted[n + 1 - i]]
    IN  task = "ranks" /\ sorted # <<>> =>
          /\ \A permille \in Permilles :
                LET x == nearest_rank(sorted, permille)
                IN  /\ \E i \in DOMAIN sorted : sorted[i] = x
                    /\ 1000 * UpTo(x) >= permille * n
                    /\ \A i \in DOMAIN sorted : sorted[i] < x => 1000 * UpTo(sorted[i]) < permille * n
          /\ 2 * Cardinality({i \in DOMAIN sorted : 2 * sorted[i] < middle}) <= n
          /\ 2 * Cardinality({i \in DOMAIN sorted : 2 * sorted[i] > middle}) <= n
          /\ median2(negated) = -middle

-----------------------------------------------------------------------------
(***************************************************************************)
(* Dates.                                                                  *)
(***************************************************************************)

\* A day has the date that counting day by day through the calendar gives it,
\* over leap years, centuries and the end of an era (utc_string, report.rs).
DateRight == task = "date" => civil(day) = date
=============================================================================
