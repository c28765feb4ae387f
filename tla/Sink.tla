-------------------------------- MODULE Sink --------------------------------
(***************************************************************************)
(* One outgoing multipart message: class Sink of zmqmessage/Sink.hpp with  *)
(* the constructor of Outgoing<RoutingPolicy> (zmqmessage/Outgoing.hpp).   *)
(*                                                                         *)
(* A Sink holds back the last inserted part (cached_), because only the    *)
(* next insertion or flush() tells whether it goes out with ZMQ_SNDMORE.   *)
(* The first part decides what becomes of the message: it is sent, or, if  *)
(* the socket would block, the message is queued, dropped, or the          *)
(* insertion throws, as the options say.                                   *)
(*                                                                         *)
(* A part is the number of its insertion (1, 2, ...), so a correct message *)
(* is 1, 2, ..., offered; NoPart stands for a Part that is not valid().    *)
(* An exception leaves the state as the code leaves it.  The caller may    *)
(* catch it and go on, or let it unwind to the destructor, which flushes.  *)
(* FI stands for zmqmessage/ZmqMessageFullImpl.hpp.                        *)
(***************************************************************************)
EXTENDS Naturals, Sequences

CONSTANTS
  OptionSets,   \* the values of options_ an Outgoing is created with
  Envelopes,    \* numbers of routing parts: 0 for SimpleRouting, 1 for the
                \*   lone null part of XRouting, more for a reply to Incoming
  Linked,       \* the indices of the parts of the linked message incoming_
  MaxParts,     \* bound on the insertions, routing parts included
  MaxNotified,  \* bound on the retries of a flush() that throws
  Faults        \* what the environment and the caller may do, see FaultKinds

Flags == {"NONBLOCK", "CACHE_ON_BLOCK", "DROP_ON_BLOCK", "COPY_INCOMING",
          "EMULATE_BLOCK_SENDS"}

\* "error": zmq_send fails between two messages (EINTR, EFSM);
\* "term": the context is terminated, and every later zmq_send fails (ETERM);
\* "reuse": the caller inserts a Part it no longer owns;
\* "early": the caller detaches the queue before flush().
FaultKinds == {"error", "term", "reuse", "early"}

ASSUME OptionSetsAssumption == OptionSets \subseteq SUBSET Flags
ASSUME EnvelopesAssumption == Envelopes \subseteq Nat
ASSUME BoundsAssumption == MaxParts \in Nat /\ MaxNotified \in Nat
ASSUME FaultsAssumption == Faults \subseteq FaultKinds

VARIABLES
  options,                \* options_
  envelope,               \* the number of parts send_routing inserts
  phase,                  \* "ctor", "open", "unwinding", "dead" or "aborted"
  state,                  \* state_
  cached,                 \* cached_, NoPart if not valid()
  outgoing_queue,         \* outgoing_queue_; <<>> is the null pointer, since a
                          \*   queue is created together with its first part
  pending_routing_parts,  \* pending_routing_parts_
  incoming,               \* which parts of incoming_ are still valid()
  detached,               \* the queue detach() handed to the caller
  wire,                   \* the frames dst_ accepted: [part, more]
  ctx_term,               \* the context of dst_ has been terminated
  notified,               \* the parts passed to SendObserver::on_send_part
  flushes,                \* the number of calls of SendObserver::on_flush
  offered,                \* history: the number of parts inserted
  reused,                 \* history: a Part that was not valid was inserted
  mishaps                 \* history: what kept parts of the message back

config == <<options, envelope>>
socket == <<wire, ctx_term>>
observer == <<notified, flushes>>
history == <<offered, reused, mishaps>>
vars == <<config, phase, state, cached, outgoing_queue, pending_routing_parts,
          incoming, detached, socket, observer, history>>

NoPart == 0
Part == Nat \ {NoPart}
Slot == Nat
Frame == [part : Part, more : BOOLEAN]
State == {"NOTSENT", "SENDING", "QUEUEING", "DROPPING", "FLUSHED"}
Phase == {"ctor", "open", "unwinding", "dead", "aborted"}

\* "blocked": an operation threw because the first send would block;
\* "error": zmq_send failed; "drop": DROP_ON_BLOCK took effect.
Mishap == {"blocked", "error", "drop"}

TypeOK ==
  /\ options \in OptionSets
  /\ envelope \in Envelopes
  /\ phase \in Phase
  /\ state \in State
  /\ cached \in Slot
  /\ outgoing_queue \in Seq(Slot)
  /\ pending_routing_parts \in Nat
  /\ incoming \in [Linked -> BOOLEAN]
  /\ detached \in Seq(Slot)
  /\ wire \in Seq(Frame)
  /\ ctx_term \in BOOLEAN
  /\ notified \in Seq(Part)
  /\ flushes \in Nat
  /\ offered \in Nat
  /\ reused \in BOOLEAN
  /\ mishaps \in SUBSET Mishap

Init ==
  /\ options \in OptionSets
  /\ envelope \in Envelopes
  /\ phase = IF envelope > 0 THEN "ctor" ELSE "open"
  /\ state = "NOTSENT"
  /\ cached = NoPart
  /\ outgoing_queue = <<>>
  /\ pending_routing_parts = 0
  /\ incoming = [i \in Linked |-> TRUE]
  /\ detached = <<>>
  /\ wire = <<>>
  /\ ctx_term = FALSE
  /\ notified = <<>>
  /\ flushes = 0
  /\ offered = 0
  /\ reused = FALSE
  /\ mishaps = {}

-----------------------------------------------------------------------------
(* The socket.  0MQ accepts a message whole: once its first part is taken   *)
(* the following ones never block, they fail only when the context goes.    *)

MidMessage == wire # <<>> /\ wire[Len(wire)].more

SendResults ==
  IF ctx_term THEN {"error"}
  ELSE IF MidMessage THEN {"ok"}
  ELSE {"ok"} \cup (IF "NONBLOCK" \in options THEN {"again"} ELSE {})
              \cup (IF "error" \in Faults THEN {"error"} ELSE {})

\* The value of pending_routing_parts_ while an operation runs: the loop of
\* send_routing counts each part (add_pending_routing_part) before it sends it.
Pending == IF phase = "ctor" THEN pending_routing_parts + 1
                             ELSE pending_routing_parts

NotSent == UNCHANGED wire /\ pending_routing_parts' = Pending

\* Seeded fault: the counter is decremented unconditionally.
Transmit_uncounted(part, last) ==
  /\ wire' = Append(wire, [part |-> part, more |-> ~last])
  /\ pending_routing_parts' = Pending - 1

Transmit(part, last) ==
  /\ wire' = Append(wire, [part |-> part, more |-> ~last])
  /\ pending_routing_parts' = IF Pending > 0 THEN Pending - 1 ELSE 0

\* Seeded fault: routing parts are notified like payload.
notify_on_send_routing(part) == notified' = Append(notified, part)

notify_on_send(part) ==
  notified' = IF Pending = 0 THEN Append(notified, part) ELSE notified

-----------------------------------------------------------------------------
(* try_send_first_cached: "SENDING", "QUEUEING" and "DROPPING" are the      *)
(* states it ends in, "blocked" and "error" the two exceptions it throws.   *)

OnBlock == IF "CACHE_ON_BLOCK" \in options THEN "QUEUEING"
           ELSE IF "DROP_ON_BLOCK" \in options THEN "DROPPING"
           ELSE "blocked"

FirstOutcomes ==
  IF "EMULATE_BLOCK_SENDS" \in options THEN {OnBlock}
  ELSE {CASE r = "ok" -> "SENDING" [] r = "again" -> OnBlock
          [] r = "error" -> "error" : r \in SendResults}

MishapOf(outcome) ==
  CASE outcome = "DROPPING" -> {"drop"}
    [] outcome \in {"blocked", "error"} -> {outcome}
    [] OTHER -> {}

try_send_first_cached(outcome, last) ==
  /\ outcome \in FirstOutcomes
  /\ IF "EMULATE_BLOCK_SENDS" \in options THEN UNCHANGED notified
                                          ELSE notify_on_send(cached)
  /\ IF outcome = "SENDING" THEN Transmit(cached, last) ELSE NotSent
  /\ mishaps' = mishaps \cup MishapOf(outcome)

\* do_send_one on the cached part, in the middle of the message.
do_send_one(result, last) ==
  /\ result \in SendResults
  /\ notify_on_send(cached)
  /\ IF result = "ok" THEN Transmit(cached, last) ELSE NotSent
  /\ mishaps' = IF result = "ok" THEN mishaps ELSE mishaps \cup {"error"}

-----------------------------------------------------------------------------
(* send_owned: one insertion.  Return, Raise and Abort are its three ways   *)
(* to end; the constructor is left when the last routing part is in.        *)

Return == phase' = IF offered + 1 < envelope THEN "ctor" ELSE "open"
Raise == phase' = IF phase = "ctor" THEN "unwinding" ELSE "open"
Abort == phase' = "aborted"

NoSend == NotSent /\ UNCHANGED <<notified, mishaps>>

HoldFirst(owned) ==
  /\ state = "NOTSENT" /\ cached = NoPart
  /\ cached' = owned
  /\ NoSend /\ Return
  /\ UNCHANGED <<state, outgoing_queue>>

SendFirst(owned) ==
  /\ state = "NOTSENT" /\ cached # NoPart
  /\ try_send_first_cached("SENDING", FALSE)
  /\ state' = "SENDING"
  /\ cached' = owned
  /\ Return
  /\ UNCHANGED outgoing_queue

\* Seeded faults: state_ says SENDING though the parts are queued; the parts
\* change places; the part being inserted is forgotten.
QueueFirst_sending(owned) ==
  /\ state = "NOTSENT" /\ cached # NoPart
  /\ try_send_first_cached("QUEUEING", FALSE)
  /\ state' = "SENDING" /\ cached' = NoPart
  /\ outgoing_queue' = <<cached, owned>>
  /\ Return
QueueFirst_swapped(owned) ==
  /\ state = "NOTSENT" /\ cached # NoPart
  /\ try_send_first_cached("QUEUEING", FALSE)
  /\ state' = "QUEUEING" /\ cached' = NoPart
  /\ outgoing_queue' = <<owned, cached>>
  /\ Return
QueueFirst_forgetful(owned) ==
  /\ state = "NOTSENT" /\ cached # NoPart
  /\ try_send_first_cached("QUEUEING", FALSE)
  /\ state' = "QUEUEING" /\ cached' = NoPart
  /\ outgoing_queue' = <<cached>>
  /\ Return

QueueFirst(owned) ==
  /\ state = "NOTSENT" /\ cached # NoPart
  /\ try_send_first_cached("QUEUEING", FALSE)
  /\ state' = "QUEUEING"
  /\ outgoing_queue' = <<cached, owned>>
  /\ cached' = NoPart
  /\ Return

DropFirst ==
  /\ state = "NOTSENT" /\ cached # NoPart
  /\ try_send_first_cached("DROPPING", FALSE)
  /\ state' = "DROPPING"
  /\ Return
  /\ UNCHANGED <<cached, outgoing_queue>>

FirstRaises(last) ==
  \/ /\ try_send_first_cached("blocked", last)
     /\ UNCHANGED <<state, cached, outgoing_queue>>
  \/ /\ try_send_first_cached("error", last)
     /\ cached' = NoPart
     /\ UNCHANGED <<state, outgoing_queue>>

SendNext(owned) ==
  /\ state = "SENDING" /\ cached # NoPart
  /\ do_send_one("ok", FALSE)
  /\ cached' = owned
  /\ Return
  /\ UNCHANGED <<state, outgoing_queue>>

NextRaises ==
  /\ state = "SENDING" /\ cached # NoPart
  /\ \E r \in SendResults \ {"ok"} : do_send_one(r, FALSE)
  /\ Raise
  /\ UNCHANGED <<state, cached, outgoing_queue>>

\* "no messages cached yet - strange": an invalid part was inserted before.
HoldAgain(owned) ==
  /\ state = "SENDING" /\ cached = NoPart
  /\ cached' = owned
  /\ NoSend /\ Return
  /\ UNCHANGED <<state, outgoing_queue>>

QueueNext(owned) ==
  /\ state = "QUEUEING" /\ outgoing_queue # <<>>
  /\ outgoing_queue' = Append(outgoing_queue, owned)
  /\ NoSend /\ Return
  /\ UNCHANGED <<state, cached>>

\* assert(outgoing_queue_.get()): the queue has been detached.
QueueGone ==
  /\ state = "QUEUEING" /\ outgoing_queue = <<>>
  /\ NoSend /\ Abort
  /\ UNCHANGED <<state, cached, outgoing_queue>>

Ignore ==
  /\ state \in {"DROPPING", "FLUSHED"}
  /\ NoSend /\ Return
  /\ UNCHANGED <<state, cached, outgoing_queue>>

send_owned(owned) ==
  /\ \/ HoldFirst(owned)
     \/ SendFirst(owned)
     \/ QueueFirst(owned)
     \/ DropFirst
     \/ state = "NOTSENT" /\ cached # NoPart /\ FirstRaises(FALSE) /\ Raise
     \/ SendNext(owned)
     \/ NextRaises
     \/ HoldAgain(owned)
     \/ QueueNext(owned)
     \/ QueueGone
     \/ Ignore
  /\ offered' = IF state = "FLUSHED" THEN offered ELSE offered + 1
  /\ reused' = (reused \/ (owned = NoPart /\ state # "FLUSHED"))
  /\ UNCHANGED <<config, detached, ctx_term, flushes>>

NewPart == offered + 1

\* Seeded fault: the part counts as moved whatever the Sink did with it.
Moved_always(part) == TRUE

\* The inserted part has been moved into cached_ or the queue.
Moved(part) ==
  \/ cached' = part
  \/ outgoing_queue' # outgoing_queue

-----------------------------------------------------------------------------
(* The operations.                                                          *)

\* One iteration of Outgoing<XRouting>::send_routing, in the constructor.
SendRouting ==
  /\ phase = "ctor"
  /\ send_owned(NewPart)
  /\ UNCHANGED incoming

\* operator<< of a value, a RawMessage, a message_t pointer or a foreign Part;
\* the loop of relay_from.
Insert ==
  /\ phase = "open" /\ offered < MaxParts
  /\ send_owned(NewPart)
  /\ UNCHANGED incoming

\* operator<< of a part of incoming_, send_incoming_messages: a copy goes in
\* with COPY_INCOMING, else the part itself, which incoming_ then disowns.
InsertLinked(i) ==
  /\ phase = "open" /\ offered < MaxParts
  /\ LET copied == "COPY_INCOMING" \in options
         valid == incoming[i] \/ copied
     IN /\ valid \/ "reuse" \in Faults
        /\ send_owned(IF valid THEN NewPart ELSE NoPart)
        /\ incoming' = IF incoming[i] /\ ~copied /\ Moved(NewPart)
                       THEN [incoming EXCEPT ![i] = FALSE] ELSE incoming

\* Seeded fault: state_ is not set.
FlushDone_open ==
  /\ cached' = NoPart
  /\ flushes' = IF state = "FLUSHED" THEN flushes ELSE flushes + 1
  /\ UNCHANGED state

FlushDone ==
  /\ state' = "FLUSHED"
  /\ cached' = NoPart
  /\ flushes' = IF state = "FLUSHED" THEN flushes ELSE flushes + 1

FlushNothing ==
  /\ state # "DROPPING" /\ (cached # NoPart => state \notin {"NOTSENT", "SENDING"})
  /\ FlushDone
  /\ NoSend
  /\ UNCHANGED outgoing_queue

\* The whole message is one part: state_ is FLUSHED afterwards whatever the
\* first send came to.
FlushFirst ==
  /\ state = "NOTSENT" /\ cached # NoPart
  /\ \E outcome \in State :
       /\ try_send_first_cached(outcome, TRUE)
       /\ outgoing_queue' = IF outcome = "QUEUEING" THEN <<cached>>
                                                    ELSE outgoing_queue
  /\ FlushDone

\* Seeded fault: the last part goes out with ZMQ_SNDMORE.
FlushLast_more ==
  /\ state = "SENDING" /\ cached # NoPart
  /\ do_send_one("ok", FALSE)
  /\ FlushDone
  /\ UNCHANGED outgoing_queue

FlushLast ==
  /\ state = "SENDING" /\ cached # NoPart
  /\ do_send_one("ok", TRUE)
  /\ FlushDone
  /\ UNCHANGED outgoing_queue

FlushRaises ==
  /\ cached # NoPart
  /\ \/ state = "NOTSENT" /\ FirstRaises(TRUE)
     \/ /\ state = "SENDING"
        /\ \E r \in SendResults \ {"ok"} : do_send_one(r, TRUE)
        /\ UNCHANGED <<state, cached, outgoing_queue>>
  /\ UNCHANGED flushes

flush ==
  \/ FlushNothing \/ FlushFirst \/ FlushLast \/ FlushRaises
  \/ /\ state = "DROPPING"
     /\ NoSend /\ UNCHANGED <<state, cached, outgoing_queue, flushes>>

Flush ==
  /\ phase = "open" /\ Len(notified) < MaxNotified
  /\ flush
  /\ UNCHANGED <<config, phase, incoming, detached, ctx_term, offered, reused>>

Detach ==
  /\ phase = "open" /\ outgoing_queue # <<>>
  /\ state = "FLUSHED" \/ "early" \in Faults
  /\ detached' = outgoing_queue
  /\ outgoing_queue' = <<>>
  /\ UNCHANGED <<config, phase, state, cached, pending_routing_parts, incoming,
                 socket, observer, history>>

\* ~Sink flushes and swallows the exception.  A queue still there is deleted
\* with the object: outgoing_queue in phase "dead" is what was deleted.
Destroy ==
  /\ phase \in {"open", "unwinding"}
  /\ flush
  /\ phase' = "dead"
  /\ UNCHANGED <<config, incoming, detached, ctx_term, offered, reused>>

Terminate ==
  /\ "term" \in Faults /\ ctx_term = FALSE
  /\ ctx_term' = TRUE
  /\ UNCHANGED <<config, phase, state, cached, outgoing_queue,
                 pending_routing_parts, incoming, detached, wire, observer,
                 history>>

Next ==
  \/ SendRouting
  \/ Insert
  \/ \E i \in Linked : InsertLinked(i)
  \/ Flush
  \/ Detach
  \/ Destroy
  \/ Terminate

Spec == Init /\ [][Next]_vars

-----------------------------------------------------------------------------
(* Properties.                                                              *)

Terminated == wire # <<>> /\ ~wire[Len(wire)].more

\* The queue, wherever it is now.
Queued == IF detached # <<>> THEN detached ELSE outgoing_queue

\* A message is sent or queued, never split: no part reaches the socket when
\* some part of the same message is in the queue (or in the caller's hands),
\* or when the message is dropped.  (The first send alone decides, FI 289.)
NeverSplit == wire # <<>> => Queued = <<>> /\ "drop" \notin mishaps

\* Every frame but the last carries ZMQ_SNDMORE, and once a frame without it
\* is on the wire the message is closed: no later call can start another
\* message behind the caller's back.
Framing ==
  /\ \A i \in 1 .. Len(wire) : i < Len(wire) => wire[i].more
  /\ Terminated => state = "FLUSHED"

\* Parts leave in the order of their insertion and none leaves twice, even
\* when operations throw in between and the caller goes on.
InOrder ==
  /\ \A i, j \in 1 .. Len(wire) : i < j => wire[i].part < wire[j].part
  /\ \A i, j \in 1 .. Len(Queued) :
       i < j /\ Queued[j] # NoPart => Queued[i] < Queued[j]
  /\ cached # NoPart =>
       /\ \A i \in 1 .. Len(wire) : wire[i].part < cached
       /\ \A i \in 1 .. Len(Queued) : Queued[i] < cached

\* The socket is never left in the middle of a message: when the object is
\* gone its last frame was sent without ZMQ_SNDMORE, whatever threw, unless
\* the context is gone or the caller inserted a part it did not own.
BoundaryAtEnd == phase = "dead" /\ ~ctx_term /\ ~reused => ~MidMessage

\* The observer sees each payload part that was sent once, in order, and no
\* routing part; of a message that was not sent it sees at most the part the
\* blocked send was tried with.  on_flush comes at most once, and not before the
\* last part was passed to the socket or to the queue.
ObserverExact ==
  /\ \A i \in 1 .. Len(notified) : notified[i] > envelope
  /\ mishaps = {} /\ ~reused =>
       IF Queued = <<>>
       THEN notified = [i \in 1 .. (IF Len(wire) > envelope
                                    THEN Len(wire) - envelope ELSE 0) |->
                          envelope + i]
       ELSE Len(notified) <= 1
  /\ flushes <= 1
  /\ flushes = 1 => cached = NoPart /\ state = "FLUSHED"

\* A linked part leaves incoming_ only into cached_ or the queue: no exception
\* and no state of the Sink makes it vanish between the two owners.
NoOrphan ==
  [][\A i \in Linked : incoming[i] /\ ~incoming'[i] =>
       /\ "COPY_INCOMING" \notin options
       /\ \/ cached' = offered'
          \/ outgoing_queue' # <<>> /\
             outgoing_queue'[Len(outgoing_queue')] = offered']_vars
=============================================================================
