----------------------------- MODULE SinkClaims -----------------------------
(* What a comment of the library says of a Sink and the code does not keep, *)
(* with a run that finds the calls that break it.                            *)
EXTENDS Sink

AllOptions == SUBSET Flags
HandledOptions ==
  {o \in AllOptions :
     {"NONBLOCK", "EMULATE_BLOCK_SENDS"} \cap o # {} =>
       {"CACHE_ON_BLOCK", "DROP_ON_BLOCK"} \cap o # {}}
ClaimEnvelopes == {0, 1, 2}
ClaimLinked == {1}

\* Sink.hpp 152: FLUSHED means "all messages are sent or queued".  flush()
\* overwrites DROPPING when the dropped message had one part only.
FlushedIsDelivered ==
  state = "FLUSHED" /\ offered > 0 => Terminated \/ Queued # <<>>
=============================================================================
