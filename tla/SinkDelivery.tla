---------------------------- MODULE SinkDelivery ----------------------------
(***************************************************************************)
(* Sink implements Delivery, when nothing of Faults happens and when the   *)
(* options say what to do with a message that would block.                 *)
(***************************************************************************)
EXTENDS Sink

ASSUME NoFaults == Faults = {}
ASSUME BlockIsHandled ==
  \A o \in OptionSets :
    {"NONBLOCK", "EMULATE_BLOCK_SENDS"} \cap o # {} =>
      {"CACHE_ON_BLOCK", "DROP_ON_BLOCK"} \cap o # {}

\* A peer receives a message when its last frame is there, not before.
delivered == IF Terminated THEN [i \in 1 .. Len(wire) |-> wire[i].part]
                           ELSE <<>>

fate ==
  CASE state = "DROPPING" -> "dropped"
    [] state = "FLUSHED" /\ "drop" \in mishaps -> "dropped"
    [] state = "FLUSHED" /\ detached # <<>> -> "handed"
    [] state = "FLUSHED" /\ outgoing_queue # <<>> -> "queued"
    [] state = "FLUSHED" /\ Queued = <<>> /\ "drop" \notin mishaps -> "sent"
    [] OTHER -> "open"

D == INSTANCE Delivery WITH handed <- detached

\* The next call is a zmq_send without ZMQ_NOBLOCK of the first part: it returns
\* only when a peer makes room for the message.
MayWait ==
  /\ {"NONBLOCK", "EMULATE_BLOCK_SENDS"} \cap options = {}
  /\ state = "NOTSENT" /\ cached # NoPart

\* The constructor runs to its end, and every Outgoing is destroyed at the end
\* of its scope: C++ guarantees both, for what does not wait for a peer.
FairSpec ==
  Spec /\ WF_vars(SendRouting /\ ~MayWait) /\ WF_vars(Destroy /\ ~MayWait)

\* Every step of the Sink is a step of the promise or leaves it unchanged: no
\* sequence of insertions, flushes and a full socket splits a message.
Implements == D!Spec

\* Each message is decided in the end, by a flush or by the destructor, unless
\* the thread waits for ever in the blocking send of its first part.  So with
\* NONBLOCK or EMULATE_BLOCK_SENDS it always is, and without them no later part
\* waits: once begun, a message needs no peer.
DecidedInTheEnd == <>(fate # "open") \/ <>[]MayWait
=============================================================================
