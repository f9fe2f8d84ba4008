----------------------------- MODULE MCDecoders -----------------------------
(***************************************************************************)
(* Small inputs for the decoders: bytes of sixteen values, lengths of two  *)
(* bytes.                                                                  *)
(***************************************************************************)
EXTENDS Decoders

MCPrefixSizes == <<0, 1, 2>>

MCBodies == {<<>>, <<1>>, <<4, 3>>}

\* Lists, short and long, bare and in an envelope; strings; lists that end too
\* late, too early, or beyond any usize, and what makes a frame of such.
MCPieces == {<<12, 1, 1>>, <<2, 12, 1, 1>>, <<14, 2, 1, 1>>, <<15, 0, 3, 1, 1, 1>>,
             <<2, 14, 1, 1>>, <<11, 1>>, <<10>>, <<2, 11>>, <<7, 1>>, <<1>>, <<13>>,
             <<2, 15, 15, 15>>, <<15, 15, 15, 12>>, <<0, 3, 1, 1, 1>>}

MCPermilles == {100, 500, 750, 900, 950, 990, 999}
=============================================================================
