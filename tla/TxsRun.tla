------------------------------- MODULE TxsRun -------------------------------
(***************************************************************************)
(* The transaction table of Txs under every order of deliveries.  Sources  *)
(* deliver the transactions of blocks, in any order, again after a         *)
(* reconnect, and only some of them; the stamps of one source do not go    *)
(* back, those of different sources are in no order.  A Nitro source names *)
(* the block by its sequence number and says how many transactions the     *)
(* message held, Eira names it by the same key or, of a transaction that   *)
(* came without one, by the block's number, and the other sources name     *)
(* none.                                                                   *)
(***************************************************************************)
EXTENDS Txs

CONSTANTS Block,      \* the blocks of the chain
          Content,    \* the transactions of every block
          NitroKey,   \* the key of a block's sequence number
          NumKey,     \* the key of its block number
          MaxEvents   \* bound: Tx events of each source

ASSUME BoundAssumption == MaxEvents \in Nat
ASSUME ContentAssumption ==
    /\ Content  \in [Block -> SUBSET Hash]
    /\ NitroKey \in [Block -> Key]
    /\ NumKey   \in [Block -> Key]
    /\ \A b \in Block : IsFiniteSet(Content[b])

VARIABLE heard   \* every event processed so far, with its source

vars == <<txVars, heard>>

Init == TxsInit /\ heard = {}

\* The keys Eira can give a transaction of block b: its update carries the
\* sequence number or not, whatever those of the same block do.
EiraKeys(b) == {NitroKey[b], NumKey[b]}

\* The events source s can send for transaction h of block b.
Events(s, b, h, t) ==
    CASE setup.kind[s] = "nitro" ->
           {[hash |-> h, block_key |-> NitroKey[b], tx_count |-> Cardinality(Content[b]),
             synthetic_swap |-> FALSE, t |-> t]}
      [] setup.kind[s] = "eira" ->
           {[hash |-> h, block_key |-> key, tx_count |-> NoCount,
             synthetic_swap |-> swap, t |-> t] : key \in EiraKeys(b), swap \in BOOLEAN}
      [] OTHER ->
           {[hash |-> h, block_key |-> NoKey, tx_count |-> NoCount,
             synthetic_swap |-> FALSE, t |-> t]}

Deliver(s, b, h, t) ==
    /\ tx_events[s] < MaxEvents
    /\ \A e \in heard : e.src = s => e.ev.t <= t
    /\ \E ev \in Events(s, b, h, t) :
          /\ OnTx(s, ev)
          /\ heard' = heard \cup {[src |-> s, ev |-> ev]}

Next == \E s \in Source, b \in Block, t \in Instant : \E h \in Content[b] : Deliver(s, b, h, t)

Spec == Init /\ [][Next]_vars

-----------------------------------------------------------------------------
TxRec == [arrivals         : [Source -> Instant \cup {NoInstant}],
          first            : Instant,
          seen             : Nat,
          block_key        : Key \cup {NoKey},
          block_from_nitro : BOOLEAN,
          tx_count         : Nat \cup {NoCount},
          synthetic_swap   : BOOLEAN]

TxEvent == [hash           : Hash,
            block_key      : Key \cup {NoKey},
            tx_count       : Nat \cup {NoCount},
            synthetic_swap : BOOLEAN,
            t              : Instant]

\* The state has the types of the Collector's fields.
TypeOK ==
    /\ DOMAIN txs \subseteq Hash
    /\ txs       \in [DOMAIN txs -> TxRec]
    /\ tx_events \in [Source -> Nat]
    /\ setup     \in Setups
    /\ heard     \subseteq [src : Source, ev : TxEvent]

\* What was heard of a transaction, and what of it from Nitro sources.
Of(h)      == {e \in heard : e.ev.hash = h}
NitroOf(h) == {e \in Of(h) : from_nitro(e.src)}
BlocksOf(h) == {b \in Block : h \in Content[b]}

\* The block, the size and the swap flag of a transaction depend on what was
\* heard of it and not on the order: a Nitro source that delivered it has the
\* last word on the block however late it came, the count is a Nitro source's,
\* and one flag, in a duplicate too, is enough.  A transaction that is in one
\* block only has the key and the size of that block.
AttributionOrderless ==
    \A h \in DOMAIN txs :
        LET rec == txs[h]
        IN  /\ rec.block_from_nitro <=> NitroOf(h) # {}
            /\ rec.block_from_nitro =>
                  /\ \E e \in NitroOf(h) : rec.block_key = e.ev.block_key
                  /\ \E e \in NitroOf(h) : rec.tx_count = e.ev.tx_count
            /\ ~rec.block_from_nitro =>
                  /\ rec.tx_count = NoCount
                  /\ rec.block_key = NoKey => \A e \in Of(h) : e.ev.block_key = NoKey
                  /\ rec.block_key # NoKey => \E e \in Of(h) : e.ev.block_key = rec.block_key
            /\ rec.synthetic_swap <=> \E e \in Of(h) : e.ev.synthetic_swap
            /\ \A b \in Block : BlocksOf(h) = {b} /\ rec.block_from_nitro =>
                  rec.block_key = NitroKey[b] /\ rec.tx_count = Cardinality(Content[b])

\* The transaction summary says of every transaction what the deliveries say,
\* whatever the order in which they were processed and however often they were
\* repeated: it is matched iff enough sources delivered it and the earliest
\* delivery is in the window; a source was first iff nobody delivered earlier,
\* first by 1 ms iff others delivered and none of them within it, and ahead in
\* a pair table iff it delivered before the other.
FirstsRight ==
    \A h \in DOMAIN txs :
        LET Earliest(e) == \A f \in Of(h) : e.ev.t <= f.ev.t
            By(s)       == {e \in Of(h) : e.src = s}
        IN  /\ h \in Matched <=>
                  /\ Cardinality({e.src : e \in Of(h)}) >= MinSources
                  /\ \E e \in Of(h) : Earliest(e) /\ in_window(e.ev.t)
            /\ h \in Total => \A s \in Source : h \in SeenBy(s) <=> By(s) # {}
            /\ h \in Matched => \A s \in Source :
                  /\ h \in Firsts(s) <=> \E e \in By(s) : Earliest(e)
                  /\ h \in FirstBy1ms(s) <=>
                        /\ Of(h) # By(s)
                        /\ \E e \in By(s) : \A f \in Of(h) \ By(s) : e.ev.t + Lead <= f.ev.t
            /\ \A other \in Source \ {setup.reference} :
                  h \in RefFirst(other) <=>
                      /\ h \in Rows(other)
                      /\ \E e \in By(setup.reference) : \A f \in By(other) : e.ev.t < f.ev.t

\* A block that shares neither a transaction nor a key with another.
Apart(b) == \A c \in Block \ {b} :
    Content[c] \cap Content[b] = {} /\ EiraKeys(c) \cap EiraKeys(b) = {}

\* What the reference delivered of h.
RefOf(h) == {e \in Of(h) : e.src = setup.reference}

\* The transactions of b that the reference delivered, those it named k at
\* least once, and those it never named otherwise.
RefHas(b)   == {h \in Content[b] : RefOf(h) # {}}
Named(b, k) == {h \in RefHas(b) : \E e \in RefOf(h) : e.ev.block_key = k}
Alike(b, k) == {h \in RefHas(b) : \A e \in RefOf(h) : e.ev.block_key = k}

\* The size buckets of a pair table count whole blocks, as far as the keys allow
\* it.  Of a block apart from the others, with Nitro sources: the rows that one
\* of them delivered have the size its message says and the other rows none.
\* Without: the rows have the key Eira gave them, and for their size the number
\* of transactions of the block it gave that key to (of one that it named
\* differently in a repeat, either may count).  So whatever the order and the
\* repeats, the rows of one key are in one bucket, and all the rows of the block
\* are counted once, under one key, with Nitro sources or if Eira named its
\* transactions alike; if it did not, the block is counted once under each key.
BlocksInBuckets ==
    \A other \in Source \ {setup.reference}, b \in Block : Apart(b) =>
        LET rows == Rows(other) \cap Content[b]
            one  == nitro_present \/ \E k \in Key : Alike(b, k) = RefHas(b)
        IN  /\ nitro_present => \A h \in rows :
                  Size(h) = IF NitroOf(h) = {} THEN NoCount ELSE Cardinality(Content[b])
            /\ ~nitro_present /\ setup.kind[setup.reference] = "eira" => \A h \in rows :
                  \E k \in EiraKeys(b) :
                      /\ txs[h].block_key = k /\ h \in Named(b, k)
                      /\ Cardinality(Alike(b, k)) <= Size(h)
                      /\ Size(h) <= Cardinality(Named(b, k))
            /\ ~nitro_present /\ setup.kind[setup.reference] # "eira" => \A h \in rows :
                  Size(h) = NoCount
            /\ \A i, j \in DOMAIN Buckets :
                  \A g \in rows \cap bucket_rows(i, other), h \in rows \cap bucket_rows(j, other) :
                      /\ txs[g].block_key = txs[h].block_key => i = j
                      /\ one => txs[g].block_key = txs[h].block_key

\* An arrival is never replaced and the first one never grows; a block that a
\* Nitro source named stays, and nothing that was known is forgotten.
TxSettles ==
    [][\A h \in DOMAIN txs :
          /\ h \in DOMAIN txs'
          /\ \A s \in Source : txs[h].arrivals[s] # NoInstant =>
                 txs'[h].arrivals[s] = txs[h].arrivals[s]
          /\ txs'[h].first <= txs[h].first
          /\ txs[h].block_from_nitro =>
                 txs'[h].block_from_nitro /\ txs'[h].block_key = txs[h].block_key
          /\ txs[h].block_key # NoKey => txs'[h].block_key # NoKey
          /\ txs[h].synthetic_swap => txs'[h].synthetic_swap]_vars
=============================================================================
