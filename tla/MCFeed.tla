------------------------------- MODULE MCFeed -------------------------------
(* One Nitro feed and the Eira stream over a few instants.  A message      *)
(* carries one block, or one twice (a replay inside one message).          *)
EXTENDS FeedRun, TLC

InstantDef == 0 .. MaxInstant
OneBlock   == {<<k>> : k \in Key}
Backlog    == OneBlock \cup {<<k, k>> : k \in Key}
=============================================================================
