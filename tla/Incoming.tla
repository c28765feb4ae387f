------------------------------ MODULE Incoming ------------------------------
(***************************************************************************)
(* Incoming multipart messages: class Incoming<RoutingPolicy,PartsStorage> *)
(* (zmqmessage/Incoming.hpp, ZmqMessageTemplateImpl.hpp) and XRouting's    *)
(* receive_routing (ZmqMessageFullImpl.hpp 91).                            *)
(*                                                                         *)
(* One thread reads one socket.  It creates an Incoming, receives, and     *)
(* goes on to the next Incoming on the same socket.  Each step takes at    *)
(* most one part off the socket, so that arrivals and interruptions fall   *)
(* between any two parts.  The socket delivers whole messages; has_more    *)
(* asks it for the flag of the last part taken, whoever took it.           *)
(***************************************************************************)
EXTENDS Naturals, Sequences, SequencesExt, FiniteSets

CONSTANTS
  Shapes,       \* the messages peers send, as sequences of Kinds
  Policies,     \* subset of {"Simple", "X"}: the RoutingPolicy
  Capacities,   \* capacities of the parts storage: where next() returns 0
  RoutingCapacity, \* ZMQMESSAGE_ROUTING_CAPACITY
  Counts,       \* the numbers of parts callers ask for
  MaxMessages,  \* bound on the messages that arrive
  MaxObjects,   \* bound on the Incoming objects created
  MaxErrors     \* bound on the recv calls that are interrupted

Kinds == {"id", "null", "body"}

ASSUME ShapesAssumption == Shapes \subseteq Seq(Kinds) \ {<<>>}
ASSUME PoliciesAssumption == Policies \subseteq {"Simple", "X"}
ASSUME BoundsAssumption ==
  /\ Capacities \subseteq Nat /\ Counts \subseteq Nat
  /\ RoutingCapacity \in Nat
  /\ MaxMessages \in Nat /\ MaxObjects \in Nat \ {0} /\ MaxErrors \in Nat

VARIABLES
  policy,       \* the RoutingPolicy of the Incoming objects
  capacity,     \* the capacity of their PartsStorage
  inbox,        \* the parts that have arrived on src_ and were not taken
  rcvmore,      \* ZMQ_RCVMORE of src_
  arrived,      \* number of messages arrived
  objects,      \* number of Incoming objects created so far
  errors,       \* number of interrupted recv calls so far
  parts,        \* the parts storage of the current Incoming
  routing,      \* the routing storage of the current Incoming
  is_terminal,  \* is_terminal_
  cur_extract_idx, \* cur_extract_idx_
  call,         \* the operation under way, see Call
  result,       \* how the last operation ended
  taken,        \* history: the parts this Incoming took off the socket
  observed,     \* history: the parts passed to on_receive_part
  drained,      \* history: fetch_tail or drop_tail emptied the message
  past_end      \* history: the caller received on after the end it knew of

world == <<policy, capacity>>
socket == <<inbox, rcvmore>>
counters == <<arrived, objects, errors>>
object == <<parts, routing, is_terminal, cur_extract_idx>>
history == <<taken, observed, drained, past_end>>
vars == <<world, socket, counters, object, call, result, history>>

PartOfMessage == [msg : Nat, idx : Nat, kind : Kinds, more : BOOLEAN]

\* A part that next() counted and no recv filled: valid, and of no content.
Phantom == [msg |-> 0, idx |-> 0, kind |-> "null", more |-> FALSE]

\* step: the loop the thread is in; left: parts the loop of receive still
\* wants; check: check_terminal; rest: what follows receive, the loop of
\* receive_all ("all") or of receive_up_to ("upto", at most room more parts).
Step == {"idle", "routing", "parts", "rest", "tail"}
Call == [step : Step, left : Nat, check : BOOLEAN,
         rest : {"no", "all", "upto"}, room : Nat]
Idle == [step |-> "idle", left |-> 0, check |-> FALSE, rest |-> "no", room |-> 0]

Result == {"ok", "format", "error", "part"}

TypeOK ==
  /\ policy \in Policies /\ capacity \in Capacities
  /\ inbox \in Seq(PartOfMessage) /\ rcvmore \in BOOLEAN
  /\ arrived \in 0 .. MaxMessages /\ objects \in 1 .. MaxObjects
  /\ errors \in 0 .. MaxErrors
  /\ parts \in Seq(PartOfMessage) /\ Len(parts) <= capacity
  /\ routing \in Seq(PartOfMessage) /\ Len(routing) <= RoutingCapacity
  /\ is_terminal \in BOOLEAN
  /\ cur_extract_idx \in 0 .. Len(parts)
  /\ call \in Call /\ result \in Result
  /\ taken \in Seq(PartOfMessage) /\ observed \in Seq(PartOfMessage)
  /\ drained \in BOOLEAN /\ past_end \in BOOLEAN

Init ==
  /\ policy \in Policies /\ capacity \in Capacities
  /\ inbox = <<>> /\ rcvmore = FALSE
  /\ arrived = 0 /\ objects = 1 /\ errors = 0
  /\ parts = <<>> /\ routing = <<>>
  /\ is_terminal = FALSE /\ cur_extract_idx = 0
  /\ taken = <<>> /\ observed = <<>>
  /\ drained = FALSE /\ past_end = FALSE
  /\ call = Idle /\ result = "ok"

-----------------------------------------------------------------------------
(* The socket: external, a message becomes readable with all its parts.     *)

Arrive(shape) ==
  /\ arrived < MaxMessages
  /\ arrived' = arrived + 1
  /\ inbox' = inbox \o [i \in 1 .. Len(shape) |->
       [msg |-> arrived + 1, idx |-> i, kind |-> shape[i],
        more |-> i < Len(shape)]]
  /\ UNCHANGED <<world, rcvmore, objects, errors, object, call, result, history>>

\* recv_msg takes the next part; rcvmore' is what has_more then returns.
recv_msg ==
  /\ inbox # <<>>
  /\ inbox' = Tail(inbox)
  /\ rcvmore' = Head(inbox).more
  /\ taken' = Append(taken, Head(inbox))

\* recv waits for a message and is interrupted (EINTR); nothing was taken.
Interrupted ==
  /\ inbox = <<>> /\ errors < MaxErrors
  /\ errors' = errors + 1
  /\ UNCHANGED <<socket, taken>>

\* Seeded fault: the observer is not called.
do_receive_msg_unobserved == recv_msg /\ UNCHANGED observed

\* do_receive_msg: take a payload part and show it to the observer.
do_receive_msg == recv_msg /\ observed' = Append(observed, Head(inbox))

End(outcome) == call' = Idle /\ result' = outcome

-----------------------------------------------------------------------------
(* receive, receive_all and receive_up_to.                                  *)

\* Seeded faults: the end of the message is not looked at; receive_all stops
\* after its first min_parts parts.
AfterParts_past_end(c, terminal) ==
  IF c.rest = "no" \/ (c.rest = "upto" /\ c.room = 0)
  THEN End("ok")
  ELSE call' = [c EXCEPT !.step = "rest", !.left = 0] /\ result' = "ok"
AfterParts_once(c, terminal) == End("ok")

\* Where receive goes when its own loop is done and is_terminal_ is terminal.
AfterParts(c, terminal) ==
  IF terminal \/ c.rest = "no" \/ (c.rest = "upto" /\ c.room = 0)
  THEN End("ok")
  ELSE call' = [c EXCEPT !.step = "rest", !.left = 0] /\ result' = "ok"

\* Where it goes when receive_routing is done.
AfterRouting(c) ==
  IF c.left = 0 THEN AfterParts(c, is_terminal)
                ELSE call' = [c EXCEPT !.step = "parts"] /\ result' = "ok"

\* A call of one of the three.  receive_routing returns at once when its
\* storage is not empty.  past_end records what the caller could have known:
\* the message was terminal, or its tail fetched or dropped before.
Receive(n, check, rest, room) ==
  /\ call = Idle
  /\ LET c == [step |-> "routing", left |-> n, check |-> check,
               rest |-> rest, room |-> room]
     IN IF policy = "X" /\ routing = <<>>
        THEN call' = c /\ result' = "ok"
        ELSE AfterRouting(c)
  /\ past_end' = (past_end \/ drained \/ (is_terminal /\ n > 0))
  /\ UNCHANGED <<world, socket, counters, object, taken, observed, drained>>

receive == \E n \in Counts, check \in BOOLEAN : Receive(n, check, "no", 0)
receive_all == \E n \in Counts : Receive(n, FALSE, "all", 0)
receive_up_to ==
  \E n, m \in Counts : n < m /\ Receive(n, FALSE, "upto", m - n)

\* Seeded fault: any part ends the envelope.
EndOfEnvelope_any(part) == TRUE

\* "if (part->msg().size() == 0) break"
EndOfEnvelope(part) == part.kind = "null"

\* receive_routing, one part: up to and including the first empty one.
ReceiveRouting ==
  /\ call.step = "routing"
  /\ \/ /\ Len(routing) < RoutingCapacity
        /\ recv_msg
        /\ routing' = Append(routing, Head(inbox))
        /\ IF EndOfEnvelope(Head(inbox)) THEN AfterRouting(call)
           ELSE IF ~Head(inbox).more THEN End("format")
           ELSE UNCHANGED <<call, result>>
        /\ UNCHANGED errors
     \/ /\ Len(routing) < RoutingCapacity
        /\ Interrupted
        /\ routing' = Append(routing, Phantom)
        /\ End("error")
     \/ /\ Len(routing) = RoutingCapacity
        /\ End("format")
        /\ UNCHANGED <<socket, routing, taken, errors>>
  /\ UNCHANGED <<world, arrived, objects, parts, is_terminal, cur_extract_idx,
                 observed, drained, past_end>>

\* next() of the storages with a fixed capacity returns 0 when they are full.
HasRoom == Len(parts) < capacity

\* receive_one: the storage counts the part before it is received.
receive_one(Received, Failed) ==
  \/ /\ HasRoom
     /\ do_receive_msg
     /\ parts' = Append(parts, Head(inbox))
     /\ Received
     /\ UNCHANGED errors
  \/ /\ HasRoom
     /\ Interrupted
     /\ parts' = Append(parts, Phantom)
     /\ Failed /\ End("error")
     /\ UNCHANGED observed
  \/ /\ ~HasRoom
     /\ Failed /\ End("format")
     /\ UNCHANGED <<socket, parts, taken, observed, errors>>

\* Seeded fault: is_terminal_ is not set before throwing.
TooFew_unmarked == UNCHANGED is_terminal /\ End("format")

\* The message ends before the last wanted part.
TooFew == is_terminal' = TRUE /\ End("format")

\* The loop of receive: the last wanted part sets is_terminal_, an earlier
\* one must not be the last of the message.
ReceivePart ==
  /\ call.step = "parts"
  /\ receive_one(
       LET more == Head(inbox).more
           last == call.left = 1
       IN \/ /\ ~last /\ more
             /\ call' = [call EXCEPT !.left = @ - 1]
             /\ UNCHANGED <<is_terminal, result>>
          \/ ~last /\ ~more /\ TooFew
          \/ /\ last /\ more /\ call.check
             /\ is_terminal' = FALSE /\ End("format")
          \/ /\ last /\ ~(more /\ call.check)
             /\ is_terminal' = ~more
             /\ AfterParts(call, ~more),
       UNCHANGED is_terminal)
  /\ UNCHANGED <<world, arrived, objects, routing, cur_extract_idx, drained,
                 past_end>>

\* The loops of receive_all and receive_up_to after receive.
ReceiveRest ==
  /\ call.step = "rest"
  /\ receive_one(
       LET more == Head(inbox).more
           c == IF call.rest = "upto" THEN [call EXCEPT !.room = @ - 1] ELSE call
       IN is_terminal' = ~more /\ AfterParts(c, ~more),
       UNCHANGED is_terminal)
  /\ UNCHANGED <<world, arrived, objects, routing, cur_extract_idx, drained,
                 past_end>>

-----------------------------------------------------------------------------
(* fetch_tail and drop_tail: neither stores the parts nor sets is_terminal_. *)

TailOrEnd(more) ==
  /\ IF more THEN call' = [Idle EXCEPT !.step = "tail"] /\ UNCHANGED result
             ELSE End("ok")
  /\ drained' = ~more

\* fetch_tail (assert(size() > 0)), and drop_tail of a message begun.
FetchOrDropTail ==
  /\ call = Idle /\ parts # <<>>
  /\ TailOrEnd(~is_terminal /\ rcvmore)
  /\ UNCHANGED <<world, socket, counters, object, taken, observed, past_end>>

\* drop_tail of a message nothing was stored of: it takes a part if there is
\* one (ZMQ_NOBLOCK).
DropWhole ==
  /\ call = Idle /\ parts = <<>> /\ ~is_terminal
  /\ \/ inbox = <<>> /\ End("ok") /\ UNCHANGED <<socket, taken, observed, drained>>
     \/ do_receive_msg /\ TailOrEnd(Head(inbox).more)
  /\ past_end' = (past_end \/ drained)
  /\ UNCHANGED <<world, counters, object>>

ReceiveTail ==
  /\ call.step = "tail"
  /\ do_receive_msg
  /\ TailOrEnd(Head(inbox).more)
  /\ UNCHANGED <<world, counters, object, past_end>>

-----------------------------------------------------------------------------
(* Extraction, and the end of the object.                                   *)

\* Seeded fault: no check_has_part.
Extract_unchecked ==
  /\ call = Idle
  /\ cur_extract_idx' = cur_extract_idx + 1 /\ result' = "ok"
  /\ UNCHANGED <<world, socket, counters, parts, routing, is_terminal, call,
                 history>>

\* operator>> and Skip; a missing part throws NoSuchPartError.
Extract ==
  /\ call = Idle
  /\ IF cur_extract_idx < Len(parts)
     THEN cur_extract_idx' = cur_extract_idx + 1 /\ result' = "ok"
     ELSE result' = "part" /\ UNCHANGED cur_extract_idx
  /\ UNCHANGED <<world, socket, counters, parts, routing, is_terminal, call,
                 history>>

\* The object goes out of scope, whatever is left of its message stays on the
\* socket, and the next one is created.
NextIncoming ==
  /\ call = Idle /\ objects < MaxObjects
  /\ objects' = objects + 1
  /\ parts' = <<>> /\ routing' = <<>>
  /\ is_terminal' = FALSE /\ cur_extract_idx' = 0
  /\ taken' = <<>> /\ observed' = <<>>
  /\ drained' = FALSE /\ past_end' = FALSE
  /\ result' = "ok"
  /\ UNCHANGED <<world, socket, arrived, errors, call>>

Read == ReceiveRouting \/ ReceivePart \/ ReceiveRest \/ ReceiveTail

Next ==
  \/ \E shape \in Shapes : Arrive(shape)
  \/ receive \/ receive_all \/ receive_up_to
  \/ Read
  \/ FetchOrDropTail \/ DropWhole
  \/ Extract
  \/ NextIncoming

Spec == Init /\ [][Next]_vars
FairSpec == Spec /\ WF_vars(Read)

-----------------------------------------------------------------------------
(* Properties.                                                              *)

Filled == {i \in DOMAIN parts : parts[i] # Phantom}

\* The envelope came whole and something follows it.
EnvelopeOK == routing # <<>> => Last(routing).more

\* An Incoming holds parts of one wire message only, as long as its caller
\* does not go on after an end it was told of, and as long as an envelope is
\* followed by something.  (No recv of receive asks has_more first, TI 243.)
OneMessage ==
  ~past_end /\ EnvelopeOK =>
    \A i, j \in 1 .. Len(taken) : taken[i].msg = taken[j].msg

\* How many of the first i parts of a storage were received.
FilledUpTo(s, i) == Cardinality({j \in 1 .. i : s[j] # Phantom})
AllFilled(s) == FilledUpTo(s, Len(s))

\* The parts of a storage that were received are the beginning of t, in order.
Begins(s, t) ==
  \A i \in DOMAIN s : s[i] # Phantom =>
    FilledUpTo(s, i) \in DOMAIN t /\ t[FilledUpTo(s, i)] = s[i]

\* No part is lost or shown twice between the socket, the routing, the
\* storage and the observer: what was taken is the envelope and then what the
\* observer saw, and what is stored is the beginning of that.
NothingLost ==
  ~past_end =>
    /\ Begins(routing, taken)
    /\ Len(taken) = AllFilled(routing) + Len(observed)
    /\ \A i \in DOMAIN observed : taken[AllFilled(routing) + i] = observed[i]
    /\ Begins(parts, observed)

\* is_terminal() is what the socket says, between any two calls, though it is
\* set by three functions and read by four (the tail functions excepted).
TerminalAccurate ==
  call = Idle /\ ~past_end /\ ~drained =>
    /\ is_terminal => ~rcvmore /\ parts # <<>>
    /\ ~is_terminal /\ Filled # {} => rcvmore

\* The parts of an X message that are stored as payload are those behind its
\* first null part, unless receive_routing threw and the caller went on: it
\* returns at once the next time, whatever it has left (FI 95).
RoutingThrew ==
  \/ Phantom \in Range(routing)
  \/ Last(routing).kind # "null" /\ ~Last(routing).more
  \/ Last(routing).kind # "null" /\ Len(routing) = RoutingCapacity
EnvelopeApart ==
  policy = "X" /\ parts # <<>> =>
    /\ routing # <<>>
    /\ \A i \in 1 .. Len(routing) - 1 : routing[i].kind # "null"
    /\ Last(routing).kind = "null" \/ RoutingThrew

\* receive with check_terminal, and receive_all, return normally only at the
\* end of the message: the next Incoming starts with the next message.
EndsAtBoundary ==
  [][call.step \in {"parts", "rest"} /\ (call.check \/ call.rest = "all")
       /\ call' = Idle /\ result' = "ok" => ~rcvmore' /\ is_terminal']_vars

\* Once a part of a message has been taken the thread needs no peer to finish
\* its call: it reads to the end of the message, or throws.
NeedsNoPeer == (call # Idle /\ rcvmore) ~> (call = Idle \/ ~EnvelopeOK)
=============================================================================
