------------------------------- MODULE MCReply -------------------------------
(* A request with a lone routing part, or with an identity and a null part, *)
(* and two parts left to relay; two replies to it that copy or move its     *)
(* parts, are queued when they would block, and throw.                      *)
EXTENDS Reply

MCOptionSets ==
  {{"NONBLOCK", "CACHE_ON_BLOCK"},
   {"NONBLOCK", "CACHE_ON_BLOCK", "COPY_INCOMING"}}
MCEnvelopes == {1, 2}
MCLinked == {1}
MCTails == {2}
=============================================================================
