--------------------------- MODULE MCSinkDelivery ---------------------------
(* Every option set that says what to do when the first send would block.   *)
EXTENDS SinkDelivery

HandledOptions ==
  {o \in SUBSET Flags :
     {"NONBLOCK", "EMULATE_BLOCK_SENDS"} \cap o # {} =>
       {"CACHE_ON_BLOCK", "DROP_ON_BLOCK"} \cap o # {}}
MCEnvelopes == {0, 1, 2}
MCLinked == {1, 2}
=============================================================================
