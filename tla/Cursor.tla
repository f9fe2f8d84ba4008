------------------------------- MODULE Cursor -------------------------------
(***************************************************************************)
(* The cursor of a Nitro adapter, next_seq of src/src/nitro.rs: which      *)
(* block an adapter asks for when it connects again, and what becomes of   *)
(* the blocks around a reconnect.                                          *)
(*                                                                         *)
(* Sequence numbers run to Top, which stands for u64::MAX.  The server     *)
(* keeps a backlog of what it published and starts a connection inside it. *)
(***************************************************************************)
EXTENDS Naturals, FiniteSets, FiniteSetsExt

CONSTANTS Top,      \* the largest sequence number
          NoSeq,    \* None
          First     \* how many blocks are published when the run starts

ASSUME CursorAssumption == Top \in Nat /\ NoSeq \notin Nat

ASSUME FirstAssumption == First \subseteq 0 .. Top

VARIABLES honest,      \* whether the server starts where it is asked to
          published,   \* the blocks 0 .. published - 1 exist
          oldest,      \* the first block of the backlog
          link,        \* "down" or "up"
          pos,         \* the block this connection carries next
          next_seq,    \* the local of run()
          received,    \* blocks for which a Block event was sent
          replayed,    \* history: those for which it was sent again
          unparsed,    \* history: blocks of frames that did not parse
          skipped      \* history: blocks that left the backlog before they were asked for

serverVars  == <<honest, published, oldest>>
historyVars == <<replayed, unparsed, skipped>>
cursorVars == <<serverVars, link, pos, next_seq, received, historyVars>>

CursorInit ==
    /\ honest    \in BOOLEAN
    /\ published \in First
    /\ oldest   = 0
    /\ link     = "down"
    /\ pos      = 0
    /\ next_seq = NoSeq
    /\ received = {}
    /\ replayed = {}
    /\ unparsed = {}
    /\ skipped  = {}

Publish ==
    /\ published <= Top
    /\ published' = published + 1
    /\ UNCHANGED <<honest, oldest, link, pos, next_seq, received, historyVars>>

Evict ==
    /\ oldest < published
    /\ link = "up" => oldest < pos
    /\ oldest' = oldest + 1
    /\ UNCHANGED <<honest, published, link, pos, next_seq, received, historyVars>>

\* Mutant: no connection asks for a sequence number.
Requested_Never == NoSeq

\* The header Arbitrum-Requested-Sequence-Number, omitted without a cursor.
Requested == next_seq

\* A connection starts at the block asked for, or at the next one there is;
\* without a request, or when the server does not honour it, anywhere.
Reconnect ==
    /\ link = "down"
    /\ link' = "up"
    /\ IF honest /\ Requested # NoSeq
       THEN pos' = Max({Requested, oldest})
       ELSE pos' \in oldest .. published
    /\ skipped' = IF next_seq = NoSeq THEN skipped ELSE skipped \cup next_seq .. pos' - 1
    /\ UNCHANGED <<serverVars, next_seq, received, replayed, unparsed>>

\* Mutant: the cursor follows the block seen last.
Advance_Last(S) == IF S \ {Top} = {} THEN next_seq ELSE Max(S \ {Top}) + 1

\* Mutant: the next block is taken for seen.
Advance_OneMore(S) == IF S \ {Top} = {} THEN next_seq ELSE Min({Max(S \ {Top}) + 2, Top})

\* The cursor after the blocks S: never moved back, never moved past Top.
Advance(S) ==
    IF S \ {Top} = {} THEN next_seq
    ELSE LET n == Max(S \ {Top}) + 1
         IN  IF next_seq = NoSeq THEN n ELSE Max({next_seq, n})

\* A frame with n blocks.
Frame(n) ==
    LET S == pos .. pos + n - 1
    IN  /\ link = "up" /\ pos + n <= published
        /\ pos'      = pos + n
        /\ next_seq' = Advance(S)
        /\ received' = received \cup S
        /\ replayed' = replayed \cup (S \cap received)
        /\ UNCHANGED <<serverVars, link, unparsed, skipped>>

\* A frame that does not parse is skipped, the good blocks in it too.
BadFrame(n) ==
    LET S == pos .. pos + n - 1
    IN  /\ link = "up" /\ pos + n <= published
        /\ pos'      = pos + n
        /\ unparsed' = unparsed \cup S
        /\ UNCHANGED <<serverVars, link, next_seq, received, replayed, skipped>>

Hangup ==
    /\ link = "up"
    /\ link' = "down"
    /\ UNCHANGED <<serverVars, pos, next_seq, received, historyVars>>

CursorNext ==
    \/ Publish \/ Evict \/ Reconnect \/ Hangup
    \/ \E n \in 1 .. 2 : Frame(n) \/ BadFrame(n)

CursorSpec == CursorInit /\ [][CursorNext]_cursorVars

-----------------------------------------------------------------------------
\* The cursor is a u64: it never runs past the largest number.
CursorTypeOK ==
    /\ honest \in BOOLEAN
    /\ published \in 0 .. Top + 1 /\ oldest \in 0 .. published
    /\ link \in {"down", "up"} /\ pos \in 0 .. Top + 1
    /\ next_seq \in 0 .. Top \cup {NoSeq}
    /\ received \cup replayed \cup unparsed \cup skipped \subseteq 0 .. Top

\* A connection asks for one more than the largest block seen, whatever was
\* replayed and in whatever order: README.md:120, "reconnects with last seen + 1".
CursorIsLastSeenPlusOne ==
    next_seq = IF received \ {Top} = {} THEN NoSeq ELSE Max(received \ {Top}) + 1

\* From a server that honours the cursor no block is seen twice, except the very
\* last one, which the cursor cannot pass (nitro.rs:143).
NoReplay == honest => replayed \subseteq {Top}

\* Between the first block seen and the cursor none is missing, through any
\* number of reconnects to a server that honours the cursor, but those in frames
\* that did not parse and those that the server no longer had.
NothingMissing ==
    honest /\ received # {} /\ next_seq # NoSeq =>
        Min(received) .. next_seq - 1 \subseteq received \cup unparsed \cup skipped
=============================================================================
