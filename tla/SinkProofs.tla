----------------------------- MODULE SinkProofs -----------------------------
(***************************************************************************)
(* Safety of Sink for every set of options, envelope, number of parts and  *)
(* choice of faults.  IInv is inductive: its parts say, state by state,    *)
(* where the parts of the message are.                                     *)
(***************************************************************************)
EXTENDS Sink, TLAPS

\* Where the message is, by the state_ of the Sink.
PlaceInv ==
  /\ outgoing_queue = <<>> \/ detached = <<>>
  /\ state \in {"NOTSENT", "DROPPING"} => wire = <<>> /\ Queued = <<>>
  /\ state = "SENDING" => MidMessage /\ Queued = <<>>
  /\ state = "QUEUEING" => wire = <<>> /\ cached = NoPart /\ Queued # <<>>
  /\ state = "FLUSHED" => cached = NoPart /\ (wire = <<>> \/ Queued = <<>>)
  /\ "drop" \in mishaps =>
       state \in {"DROPPING", "FLUSHED"} /\ wire = <<>> /\ Queued = <<>>

\* An owned message keeps a part back until flush, and is closed by it.
HeldInv ==
  /\ state = "SENDING" /\ ~reused => cached # NoPart
  /\ state = "FLUSHED" /\ ~reused => ~MidMessage
  /\ phase = "dead" /\ ~ctx_term => state # "SENDING"

\* The order of insertion, and the last insertion as its bound.
OrderInv ==
  /\ InOrder
  /\ cached <= offered
  /\ \A i \in 1 .. Len(wire) : wire[i].part <= offered
  /\ \A i \in 1 .. Len(Queued) : Queued[i] <= offered

IInv == TypeOK /\ PlaceInv /\ HeldInv /\ Framing /\ OrderInv

-----------------------------------------------------------------------------
(* Facts the steps share.                                                   *)

\* A part that goes to the socket extends wire by one frame.
LEMMA TransmitType ==
  ASSUME wire \in Seq(Frame), pending_routing_parts \in Nat,
         NEW part \in Part, NEW last \in BOOLEAN, Transmit(part, last)
  PROVE  /\ wire' \in Seq(Frame)
         /\ pending_routing_parts' \in Nat
         /\ Len(wire') = Len(wire) + 1
         /\ wire'[Len(wire')] = [part |-> part, more |-> ~last]
         /\ \A i \in 1 .. Len(wire) : wire'[i] = wire[i]
BY DEF Transmit, Pending, Frame

\* A failing or blocked first send leaves the wire as it is.
LEMMA NotSentType ==
  ASSUME pending_routing_parts \in Nat, NotSent
  PROVE  wire' = wire /\ pending_routing_parts' \in Nat
BY DEF NotSent, Pending

\* notify_on_send keeps the type of what was shown to the observer.
LEMMA NotifyType ==
  ASSUME notified \in Seq(Part), NEW part \in Part, notify_on_send(part)
  PROVE  notified' \in Seq(Part)
BY DEF notify_on_send

\* The first send, whatever comes of it.
LEMMA FirstType ==
  ASSUME TypeOK, cached # NoPart, NEW outcome, NEW last \in BOOLEAN,
         try_send_first_cached(outcome, last)
  PROVE  /\ wire' \in Seq(Frame)
         /\ pending_routing_parts' \in Nat
         /\ notified' \in Seq(Part)
         /\ mishaps' \in SUBSET Mishap
<1>1. cached \in Part
  BY DEF TypeOK, Slot, Part
<1>2. notified' \in Seq(Part)
  BY <1>1, NotifyType DEF try_send_first_cached, TypeOK
<1>3. wire' \in Seq(Frame) /\ pending_routing_parts' \in Nat
  <2>1. CASE outcome = "SENDING"
    BY <1>1, <2>1, TransmitType DEF try_send_first_cached, TypeOK
  <2>2. CASE outcome # "SENDING"
    BY <2>2, NotSentType DEF try_send_first_cached, TypeOK
  <2> QED BY <2>1, <2>2
<1>4. mishaps' \in SUBSET Mishap
  BY DEF try_send_first_cached, MishapOf, Mishap, TypeOK
<1> QED BY <1>2, <1>3, <1>4

\* A later send, whatever comes of it.
LEMMA NextType ==
  ASSUME TypeOK, cached # NoPart, NEW result, NEW last \in BOOLEAN,
         do_send_one(result, last)
  PROVE  /\ wire' \in Seq(Frame)
         /\ pending_routing_parts' \in Nat
         /\ notified' \in Seq(Part)
         /\ mishaps' \in SUBSET Mishap
<1>1. cached \in Part
  BY DEF TypeOK, Slot, Part
<1>2. notified' \in Seq(Part)
  BY <1>1, NotifyType DEF do_send_one, TypeOK
<1>3. wire' \in Seq(Frame) /\ pending_routing_parts' \in Nat
  <2>1. CASE result = "ok"
    BY <1>1, <2>1, TransmitType DEF do_send_one, TypeOK
  <2>2. CASE result # "ok"
    BY <2>2, NotSentType DEF do_send_one, TypeOK
  <2> QED BY <2>1, <2>2
<1>4. mishaps' \in SUBSET Mishap
  BY DEF do_send_one, Mishap, TypeOK
<1> QED BY <1>2, <1>3, <1>4

-----------------------------------------------------------------------------
(* Type correctness.                                                        *)

\* Every case of send_owned keeps the types.
LEMMA SendType ==
  ASSUME TypeOK, NEW owned \in Slot, send_owned(owned)
  PROVE  /\ phase' \in Phase /\ state' \in State /\ cached' \in Slot
         /\ outgoing_queue' \in Seq(Slot) /\ wire' \in Seq(Frame)
         /\ pending_routing_parts' \in Nat /\ notified' \in Seq(Part)
         /\ mishaps' \in SUBSET Mishap
         /\ offered' \in Nat /\ reused' \in BOOLEAN
<1>1. offered' \in Nat /\ reused' \in BOOLEAN
  BY DEF send_owned, TypeOK
<1> USE DEF Return, Raise, Abort, Phase, State, Slot, NoPart
<1>2. ASSUME NoSend PROVE /\ wire' \in Seq(Frame) /\ pending_routing_parts' \in Nat
                          /\ notified' \in Seq(Part) /\ mishaps' \in SUBSET Mishap
  BY <1>2, NotSentType DEF NoSend, TypeOK
<1>3. CASE HoldFirst(owned)
  BY <1>1, <1>2, <1>3 DEF HoldFirst, TypeOK
<1>4. CASE SendFirst(owned)
  BY <1>1, <1>4, FirstType DEF SendFirst, TypeOK
<1>5. CASE QueueFirst(owned)
  <2>1. cached \in Slot /\ <<cached, owned>> \in Seq(Slot)
    BY DEF TypeOK
  <2>2. cached # NoPart /\ try_send_first_cached("QUEUEING", FALSE)
    BY <1>5 DEF QueueFirst
  <2> QED BY <1>1, <1>5, <2>1, <2>2, FirstType DEF QueueFirst
<1>6. CASE DropFirst
  BY <1>1, <1>6, FirstType DEF DropFirst, TypeOK
<1>7. CASE state = "NOTSENT" /\ cached # NoPart /\ FirstRaises(FALSE) /\ Raise
  <2>1. PICK outcome \in {"blocked", "error"} :
          try_send_first_cached(outcome, FALSE)
    BY <1>7 DEF FirstRaises
  <2>2. /\ wire' \in Seq(Frame) /\ pending_routing_parts' \in Nat
        /\ notified' \in Seq(Part) /\ mishaps' \in SUBSET Mishap
    BY <1>7, <2>1, FirstType
  <2>3. /\ state' = state /\ outgoing_queue' = outgoing_queue
        /\ cached' \in {cached, NoPart}
    BY <1>7 DEF FirstRaises
  <2> QED BY <1>1, <1>7, <2>2, <2>3 DEF TypeOK
<1>8. CASE SendNext(owned)
  BY <1>1, <1>8, NextType DEF SendNext, TypeOK
<1>9. CASE NextRaises
  BY <1>1, <1>9, NextType DEF NextRaises, TypeOK
<1>10. CASE HoldAgain(owned)
  BY <1>1, <1>2, <1>10 DEF HoldAgain, TypeOK
<1>11. CASE QueueNext(owned)
  BY <1>1, <1>2, <1>11 DEF QueueNext, TypeOK
<1>12. CASE QueueGone
  BY <1>1, <1>2, <1>12 DEF QueueGone, TypeOK
<1>13. CASE Ignore
  BY <1>1, <1>2, <1>13 DEF Ignore, TypeOK
<1> QED
  BY <1>1, <1>3, <1>4, <1>5, <1>6, <1>7, <1>8, <1>9, <1>10, <1>11, <1>12,
     <1>13 DEF send_owned

\* The end of flush keeps the types.
LEMMA FlushDoneType ==
  ASSUME TypeOK, FlushDone
  PROVE  state' \in State /\ cached' \in Slot /\ flushes' \in Nat
BY DEF FlushDone, TypeOK, State, Slot, NoPart

\* Every case of flush keeps the types.
LEMMA FlushType ==
  ASSUME TypeOK, flush
  PROVE  /\ state' \in State /\ cached' \in Slot /\ flushes' \in Nat
         /\ outgoing_queue' \in Seq(Slot) /\ wire' \in Seq(Frame)
         /\ pending_routing_parts' \in Nat /\ notified' \in Seq(Part)
         /\ mishaps' \in SUBSET Mishap
<1>1. ASSUME NoSend PROVE /\ wire' \in Seq(Frame) /\ pending_routing_parts' \in Nat
                          /\ notified' \in Seq(Part) /\ mishaps' \in SUBSET Mishap
  BY <1>1, NotSentType DEF NoSend, TypeOK
<1>2. CASE FlushNothing
  BY <1>1, <1>2, FlushDoneType DEF FlushNothing, TypeOK
<1>3. CASE FlushFirst
  <2>1. PICK outcome \in State :
          /\ try_send_first_cached(outcome, TRUE)
          /\ outgoing_queue' = IF outcome = "QUEUEING" THEN <<cached>>
                                                       ELSE outgoing_queue
    BY <1>3 DEF FlushFirst
  <2>2. cached # NoPart /\ FlushDone
    BY <1>3 DEF FlushFirst
  <2>3. outgoing_queue' \in Seq(Slot)
    BY <2>1 DEF TypeOK
  <2> QED BY <2>1, <2>2, <2>3, FirstType, FlushDoneType
<1>4. CASE FlushLast
  <2>1. cached # NoPart /\ do_send_one("ok", TRUE) /\ FlushDone
    BY <1>4 DEF FlushLast
  <2>2. outgoing_queue' \in Seq(Slot)
    BY <1>4 DEF FlushLast, TypeOK
  <2> QED BY <2>1, <2>2, NextType, FlushDoneType
<1>5. CASE FlushRaises
  <2>1. /\ state' = state /\ outgoing_queue' = outgoing_queue
        /\ flushes' = flushes /\ cached' \in {cached, NoPart}
    BY <1>5 DEF FlushRaises, FirstRaises
  <2>2. \/ \E outcome \in {"blocked", "error"} :
             try_send_first_cached(outcome, TRUE)
        \/ \E r \in SendResults : do_send_one(r, TRUE)
    BY <1>5 DEF FlushRaises, FirstRaises
  <2>3. cached # NoPart
    BY <1>5 DEF FlushRaises
  <2>4. /\ wire' \in Seq(Frame) /\ pending_routing_parts' \in Nat
        /\ notified' \in Seq(Part) /\ mishaps' \in SUBSET Mishap
    <3>1. CASE \E outcome \in {"blocked", "error"} :
                 try_send_first_cached(outcome, TRUE)
      BY <2>3, <3>1, FirstType
    <3>2. CASE \E r \in SendResults : do_send_one(r, TRUE)
      BY <2>3, <3>2, NextType
    <3> QED BY <2>2, <3>1, <3>2
  <2> QED BY <2>1, <2>4 DEF TypeOK, Slot, NoPart
<1>6. CASE /\ state = "DROPPING"
           /\ NoSend /\ UNCHANGED <<state, cached, outgoing_queue, flushes>>
  BY <1>1, <1>6 DEF TypeOK
<1> QED
  BY <1>2, <1>3, <1>4, <1>5, <1>6 DEF flush

\* A new Sink is well typed.
LEMMA InitType == Init => TypeOK
<1> SUFFICES ASSUME Init PROVE TypeOK
  OBVIOUS
<1>1. phase \in Phase /\ state \in State /\ cached \in Slot
  BY DEF Init, Phase, State, Slot, NoPart
<1>2. /\ outgoing_queue \in Seq(Slot) /\ detached \in Seq(Slot)
      /\ wire \in Seq(Frame) /\ notified \in Seq(Part)
  BY DEF Init
<1> QED BY <1>1, <1>2 DEF Init, TypeOK

\* Every step of a Sink keeps the types.
LEMMA StepType == TypeOK /\ [Next]_vars => TypeOK'
<1> SUFFICES ASSUME TypeOK, [Next]_vars PROVE TypeOK'
  OBVIOUS
<1>1. NewPart \in Slot /\ NoPart \in Slot
  BY DEF NewPart, NoPart, Slot, TypeOK
<1>2. CASE SendRouting
  BY <1>1, <1>2, SendType DEF SendRouting, send_owned, config, TypeOK
<1>3. CASE Insert
  BY <1>1, <1>3, SendType DEF Insert, send_owned, config, TypeOK
<1>4. CASE \E i \in Linked : InsertLinked(i)
  <2> PICK i \in Linked : InsertLinked(i)
    BY <1>4
  <2>1. \E owned \in Slot : send_owned(owned)
    BY <1>1 DEF InsertLinked
  <2>2. incoming' \in [Linked -> BOOLEAN]
    BY DEF InsertLinked, TypeOK
  <2> QED
    BY <2>1, <2>2, SendType DEF send_owned, config, TypeOK
<1>5. CASE Flush
  BY <1>5, FlushType DEF Flush, config, TypeOK
<1>6. CASE Detach
  BY <1>6 DEF Detach, config, socket, observer, history, TypeOK
<1>7. CASE Destroy
  BY <1>7, FlushType DEF Destroy, config, Phase, TypeOK
<1>8. CASE Terminate
  BY <1>8 DEF Terminate, config, observer, history, TypeOK
<1>9. CASE UNCHANGED vars
  BY <1>9 DEF vars, config, socket, observer, history, TypeOK
<1> QED
  BY <1>2, <1>3, <1>4, <1>5, <1>6, <1>7, <1>8, <1>9 DEF Next

\* Every variable keeps its type in every reachable state: in particular the
\* count of pending routing parts never wraps below zero (do_send_one, FI 233).
THEOREM TypeCorrect == Spec => []TypeOK
BY InitType, StepType, PTL DEF Spec

-----------------------------------------------------------------------------
(* The inductive invariant, one operation at a time.                        *)

\* A frame more on the wire, sent from cached_: what it does to the order and
\* to the framing.  The socket must not have closed the message before.
LEMMA GrowWire ==
  ASSUME TypeOK, Framing, OrderInv, ~Terminated, cached # NoPart,
         NEW last \in BOOLEAN, Transmit(cached, last)
  PROVE  /\ wire' # <<>>
         /\ wire'[Len(wire')].more = ~last
         /\ \A i \in 1 .. Len(wire') : i < Len(wire') => wire'[i].more
         /\ \A i, j \in 1 .. Len(wire') :
              i < j => wire'[i].part < wire'[j].part
         /\ \A i \in 1 .. Len(wire') : wire'[i].part <= cached
         /\ wire' \in Seq(Frame)
<1>1. cached \in Part
  BY DEF TypeOK, Slot, Part
<1>2. /\ wire' \in Seq(Frame)
      /\ Len(wire') = Len(wire) + 1
      /\ wire'[Len(wire')] = [part |-> cached, more |-> ~last]
      /\ \A i \in 1 .. Len(wire) : wire'[i] = wire[i]
  BY <1>1, TransmitType DEF TypeOK
<1>3. Len(wire) \in Nat /\ \A i \in 1 .. Len(wire) : wire[i] \in Frame
  BY DEF TypeOK
<1>4. wire' # <<>> /\ wire'[Len(wire')].more = ~last
  BY <1>2, <1>3
<1>5. \A i \in 1 .. Len(wire) : wire[i].more
  BY <1>3 DEF Framing, Terminated, Frame
<1>6. \A i \in 1 .. Len(wire') : i < Len(wire') => i \in 1 .. Len(wire)
  BY <1>2, <1>3
<1>7. \A i \in 1 .. Len(wire') : i < Len(wire') => wire'[i].more
  BY <1>2, <1>5, <1>6
<1>8. \A i \in 1 .. Len(wire) : wire[i].part < cached
  BY DEF OrderInv, InOrder
<1>9. \A i \in 1 .. Len(wire') :
        \/ wire'[i].part = cached
        \/ /\ i \in 1 .. Len(wire) /\ wire'[i] = wire[i]
           /\ wire'[i].part < cached
  BY <1>2, <1>3, <1>8
<1>10. \A i \in 1 .. Len(wire') : wire'[i].part <= cached
  BY <1>1, <1>9, <1>3 DEF Frame, Part
<1>11. \A i, j \in 1 .. Len(wire') : i < j => wire'[i].part < wire'[j].part
  <2> SUFFICES ASSUME NEW i \in 1 .. Len(wire'), NEW j \in 1 .. Len(wire'), i < j
               PROVE  wire'[i].part < wire'[j].part
    OBVIOUS
  <2>1. i \in 1 .. Len(wire) /\ wire'[i] = wire[i]
    BY <1>2, <1>3
  <2>2. CASE j \in 1 .. Len(wire)
    BY <1>2, <2>1, <2>2 DEF OrderInv, InOrder
  <2>3. CASE j = Len(wire')
    BY <1>2, <1>8, <2>1, <2>3
  <2> QED BY <1>2, <1>3, <2>2, <2>3
<1> QED BY <1>2, <1>4, <1>7, <1>10, <1>11

\* Nothing moves but cached_, which is emptied or takes the new part.
LEMMA OrderStays ==
  ASSUME TypeOK, OrderInv, wire' = wire, Queued' = Queued,
         offered' \in {offered, NewPart},
         cached' \in {cached, NoPart} \/ (cached' = NewPart /\ offered' = NewPart)
  PROVE  OrderInv'
<1>1. /\ offered \in Nat /\ offered' \in Nat /\ offered <= offered'
      /\ cached \in Nat /\ cached' <= offered'
  BY DEF TypeOK, NewPart, OrderInv, Slot, NoPart
<1>2. \A i \in 1 .. Len(wire) : wire[i].part \in Nat
  <2>1. \A i \in 1 .. Len(wire) : wire[i] \in Frame
    BY DEF TypeOK
  <2> QED BY <2>1 DEF Frame, Part
<1>3. \A i \in 1 .. Len(Queued) : Queued[i] \in Nat
  <2>1. Queued \in Seq(Nat)
    BY DEF TypeOK, Queued, Slot
  <2> QED
    BY <2>1
<1>4. /\ \A i \in 1 .. Len(wire) : wire[i].part <= offered'
      /\ \A i \in 1 .. Len(Queued) : Queued[i] <= offered'
  BY <1>1, <1>2, <1>3 DEF OrderInv
<1>5. cached' # NoPart =>
        /\ \A i \in 1 .. Len(wire) : wire[i].part < cached'
        /\ \A i \in 1 .. Len(Queued) : Queued[i] < cached'
  BY <1>1, <1>2, <1>3 DEF OrderInv, InOrder, NewPart
<1> QED BY <1>1, <1>4, <1>5 DEF OrderInv, InOrder

\* cached_ goes to the socket and is emptied or takes the new part.
LEMMA OrderGrows ==
  ASSUME TypeOK, Framing, OrderInv, ~Terminated, cached # NoPart,
         NEW last \in BOOLEAN, Transmit(cached, last), Queued' = <<>>,
         \/ cached' = NoPart /\ offered' \in {offered, NewPart}
         \/ cached' = NewPart /\ offered' = NewPart
  PROVE  OrderInv'
<1>1. /\ \A i, j \in 1 .. Len(wire') : i < j => wire'[i].part < wire'[j].part
      /\ \A i \in 1 .. Len(wire') : wire'[i].part <= cached
      /\ wire' \in Seq(Frame)
  BY GrowWire
<1>2. /\ offered \in Nat /\ offered' \in Nat /\ offered <= offered'
      /\ cached \in Nat /\ cached <= offered /\ cached' <= offered'
  BY DEF TypeOK, NewPart, OrderInv, Slot, NoPart
<1>3. \A i \in 1 .. Len(wire') : wire'[i].part \in Nat
  <2>1. \A i \in 1 .. Len(wire') : wire'[i] \in Frame
    BY <1>1
  <2> QED BY <2>1 DEF Frame, Part
<1>4. \A i \in 1 .. Len(wire') : wire'[i].part <= offered
  BY <1>1, <1>2, <1>3
<1>5. \A i \in 1 .. Len(wire') : wire'[i].part <= offered'
  BY <1>2, <1>3, <1>4
<1>6. cached' # NoPart => \A i \in 1 .. Len(wire') : wire'[i].part < cached'
  BY <1>2, <1>3, <1>4 DEF NewPart
<1>7. Len(Queued') = 0
  OBVIOUS
<1> QED BY <1>1, <1>2, <1>5, <1>6, <1>7 DEF OrderInv, InOrder

\* Every case of send_owned keeps the inductive invariant.
LEMMA SendInv ==
  ASSUME IInv, TypeOK', NEW owned \in {NewPart, NoPart}, send_owned(owned)
  PROVE  PlaceInv' /\ HeldInv' /\ Framing' /\ OrderInv'
<1> USE DEF IInv
<1>1. /\ detached' = detached /\ ctx_term' = ctx_term
      /\ offered' = IF state = "FLUSHED" THEN offered ELSE NewPart
      /\ reused' = (reused \/ (owned = NoPart /\ state # "FLUSHED"))
  BY DEF send_owned, NewPart
<1>2. ASSUME outgoing_queue' = outgoing_queue PROVE Queued' = Queued
  BY <1>1, <1>2 DEF Queued
<1>3. Return \/ Raise \/ Abort => phase' # "dead"
  BY DEF Return, Raise, Abort
<1>4. ASSUME NoSend PROVE wire' = wire /\ mishaps' = mishaps
  BY <1>4 DEF NoSend, NotSent
<1>5. CASE HoldFirst(owned)
  <2>1. /\ state = "NOTSENT" /\ state' = state /\ wire' = wire
        /\ mishaps' = mishaps /\ Queued' = Queued /\ cached' = owned
        /\ outgoing_queue' = outgoing_queue /\ phase' # "dead"
    BY <1>2, <1>3, <1>4, <1>5 DEF HoldFirst
  <2>2. OrderInv'
    BY <1>1, <2>1, OrderStays
  <2> QED BY <1>1, <2>1, <2>2 DEF PlaceInv, HeldInv, Framing, Terminated
<1>6. CASE SendFirst(owned)
  <2>1. /\ state = "NOTSENT" /\ cached # NoPart /\ state' = "SENDING"
        /\ cached' = owned /\ outgoing_queue' = outgoing_queue
        /\ Transmit(cached, FALSE) /\ mishaps' = mishaps /\ phase' # "dead"
    BY <1>3, <1>6 DEF SendFirst, try_send_first_cached, MishapOf
  <2>2. wire = <<>> /\ Queued = <<>> /\ Queued' = <<>> /\ ~Terminated
    BY <1>2, <2>1 DEF PlaceInv, Terminated
  <2>3. OrderInv'
    BY <1>1, <2>1, <2>2, OrderGrows
  <2>4. MidMessage' /\ ~Terminated' /\ Framing'
    BY <2>1, <2>2, GrowWire DEF MidMessage, Terminated, Framing
  <2> QED BY <1>1, <2>1, <2>2, <2>3, <2>4 DEF PlaceInv, HeldInv
<1>7. CASE QueueFirst(owned)
  <2>1. /\ state = "NOTSENT" /\ cached # NoPart /\ state' = "QUEUEING"
        /\ cached' = NoPart /\ outgoing_queue' = <<cached, owned>>
        /\ wire' = wire /\ mishaps' = mishaps /\ phase' # "dead"
    BY <1>3, <1>7 DEF QueueFirst, try_send_first_cached, MishapOf, NotSent
  <2>2. wire = <<>> /\ detached = <<>> /\ Queued' = <<cached, owned>>
    BY <1>1, <2>1 DEF PlaceInv, Queued
  <2>3. cached \in Nat /\ cached <= offered /\ offered \in Nat
    BY DEF OrderInv, TypeOK, Slot
  <2>4. OrderInv'
    <3>1. Len(Queued') = 2 /\ Queued'[1] = cached /\ Queued'[2] = owned
      BY <2>2
    <3>2. \A i \in 1 .. Len(Queued') : i = 1 \/ i = 2
      BY <3>1
    <3>3. owned # NoPart => cached < owned
      BY <2>3 DEF NewPart
    <3>4. cached <= offered' /\ owned <= offered' /\ 0 <= offered'
      BY <1>1, <2>1, <2>3 DEF NewPart, NoPart
    <3>5. wire' = <<>> /\ cached' = NoPart
      BY <2>1, <2>2
    <3> QED BY <3>1, <3>2, <3>3, <3>4, <3>5 DEF OrderInv, InOrder, NoPart
  <2> QED BY <1>1, <2>1, <2>2, <2>4 DEF PlaceInv, HeldInv, Framing, Terminated
<1>8. CASE DropFirst
  <2>1. /\ state = "NOTSENT" /\ state' = "DROPPING"
        /\ cached' = cached /\ outgoing_queue' = outgoing_queue
        /\ wire' = wire /\ phase' # "dead" /\ Queued' = Queued
    BY <1>2, <1>3, <1>8 DEF DropFirst, try_send_first_cached, NotSent
  <2>2. OrderInv'
    BY <1>1, <2>1, OrderStays
  <2> QED BY <1>1, <2>1, <2>2 DEF PlaceInv, HeldInv, Framing, Terminated
<1>9. CASE state = "NOTSENT" /\ cached # NoPart /\ FirstRaises(FALSE) /\ Raise
  <2>1. /\ state = "NOTSENT" /\ state' = state
        /\ cached' \in {cached, NoPart} /\ outgoing_queue' = outgoing_queue
        /\ wire' = wire /\ phase' # "dead" /\ Queued' = Queued
        /\ "drop" \in mishaps' => "drop" \in mishaps
    BY <1>2, <1>3, <1>9
    DEF FirstRaises, try_send_first_cached, NotSent, MishapOf
  <2>2. OrderInv'
    BY <1>1, <2>1, OrderStays
  <2> QED BY <1>1, <2>1, <2>2 DEF PlaceInv, HeldInv, Framing, Terminated
<1>10. CASE SendNext(owned)
  <2>1. /\ state = "SENDING" /\ cached # NoPart /\ state' = "SENDING"
        /\ cached' = owned /\ outgoing_queue' = outgoing_queue
        /\ Transmit(cached, FALSE) /\ mishaps' = mishaps /\ phase' # "dead"
    BY <1>3, <1>10 DEF SendNext, do_send_one
  <2>2. Queued = <<>> /\ Queued' = <<>> /\ ~Terminated
    BY <1>2, <2>1 DEF PlaceInv, Framing
  <2>3. OrderInv'
    BY <1>1, <2>1, <2>2, OrderGrows
  <2>4. MidMessage' /\ ~Terminated' /\ Framing'
    BY <2>1, <2>2, GrowWire DEF MidMessage, Terminated, Framing
  <2> QED BY <1>1, <2>1, <2>2, <2>3, <2>4 DEF PlaceInv, HeldInv
<1>11. CASE NextRaises
  <2>1. /\ state = "SENDING" /\ state' = state
        /\ cached' = cached /\ outgoing_queue' = outgoing_queue
        /\ wire' = wire /\ phase' # "dead" /\ Queued' = Queued
        /\ "drop" \in mishaps' => "drop" \in mishaps
    BY <1>2, <1>3, <1>11 DEF NextRaises, do_send_one, NotSent
  <2>2. OrderInv'
    BY <1>1, <2>1, OrderStays
  <2> QED BY <1>1, <2>1, <2>2 DEF PlaceInv, HeldInv, Framing, Terminated, MidMessage
<1>12. CASE HoldAgain(owned)
  <2>1. /\ state = "SENDING" /\ state' = state
        /\ cached' = owned /\ outgoing_queue' = outgoing_queue
        /\ wire' = wire /\ phase' # "dead" /\ Queued' = Queued
        /\ mishaps' = mishaps
    BY <1>2, <1>3, <1>4, <1>12 DEF HoldAgain
  <2>2. OrderInv'
    BY <1>1, <2>1, OrderStays
  <2> QED BY <1>1, <2>1, <2>2 DEF PlaceInv, HeldInv, Framing, Terminated, MidMessage
<1>13. CASE QueueNext(owned)
  <2>1. /\ state = "QUEUEING" /\ state' = state
        /\ cached' = cached /\ outgoing_queue # <<>>
        /\ outgoing_queue' = Append(outgoing_queue, owned)
        /\ wire' = wire /\ phase' # "dead" /\ mishaps' = mishaps
    BY <1>3, <1>4, <1>13 DEF QueueNext
  <2>2. /\ wire = <<>> /\ cached = NoPart /\ detached = <<>>
        /\ Queued = outgoing_queue /\ Queued' = Append(outgoing_queue, owned)
    BY <1>1, <2>1 DEF PlaceInv, Queued
  <2>3. outgoing_queue \in Seq(Nat) /\ offered \in Nat
    BY DEF TypeOK, Slot
  <2>4. Queued' # <<>>
    BY <2>2, <2>3
  <2>5. OrderInv'
    <3>1. /\ Len(Queued') = Len(Queued) + 1 /\ Len(Queued) \in Nat
          /\ Queued'[Len(Queued')] = owned
          /\ \A i \in 1 .. Len(Queued) : Queued'[i] = Queued[i]
      BY <2>2, <2>3
    <3>2. \A i \in 1 .. Len(Queued') : i = Len(Queued') \/ i \in 1 .. Len(Queued)
      BY <3>1
    <3>3. \A i \in 1 .. Len(Queued) : Queued[i] \in Nat /\ Queued[i] <= offered
      BY <2>2, <2>3 DEF OrderInv
    <3>4. offered' = offered + 1 /\ owned <= offered'
      BY <1>1, <2>1, <2>3 DEF NewPart, NoPart
    <3>5. \A i \in 1 .. Len(Queued') : Queued'[i] <= offered'
      BY <2>3, <3>1, <3>2, <3>3, <3>4
    <3>6. \A i, j \in 1 .. Len(Queued') :
            i < j /\ Queued'[j] # NoPart => Queued'[i] < Queued'[j]
      <4> SUFFICES ASSUME NEW i \in 1 .. Len(Queued'),
                          NEW j \in 1 .. Len(Queued'),
                          i < j, Queued'[j] # NoPart
                   PROVE  Queued'[i] < Queued'[j]
        OBVIOUS
      <4>1. i \in 1 .. Len(Queued) /\ Queued'[i] = Queued[i]
        BY <3>1
      <4>2. CASE j \in 1 .. Len(Queued)
        BY <3>1, <4>1, <4>2 DEF OrderInv, InOrder
      <4>3. CASE j = Len(Queued')
        BY <2>3, <3>1, <3>3, <4>1, <4>3 DEF NewPart
      <4> QED BY <3>2, <4>2, <4>3
    <3>7. wire' = <<>> /\ cached' = NoPart
      BY <2>1, <2>2
    <3> QED BY <2>3, <3>4, <3>5, <3>6, <3>7 DEF OrderInv, InOrder, NoPart
  <2> QED BY <1>1, <2>1, <2>2, <2>4, <2>5 DEF PlaceInv, HeldInv, Framing, Terminated
<1>14. CASE QueueGone \/ Ignore
  <2>1. /\ state \in {"QUEUEING", "DROPPING", "FLUSHED"} /\ state' = state
        /\ cached' = cached /\ outgoing_queue' = outgoing_queue
        /\ wire' = wire /\ phase' # "dead" /\ Queued' = Queued
        /\ mishaps' = mishaps
    BY <1>2, <1>3, <1>4, <1>14 DEF QueueGone, Ignore
  <2>2. OrderInv'
    BY <1>1, <2>1, OrderStays
  <2> QED BY <1>1, <2>1, <2>2 DEF PlaceInv, HeldInv, Framing, Terminated, MidMessage
<1> QED
  BY <1>5, <1>6, <1>7, <1>8, <1>9, <1>10, <1>11, <1>12, <1>13, <1>14
  DEF send_owned

\* Every case of flush keeps the inductive invariant.
LEMMA FlushInv ==
  ASSUME IInv, TypeOK', flush, phase \in {"open", "unwinding"},
         phase' \in {phase, "dead"},
         UNCHANGED <<detached, ctx_term, offered, reused>>
  PROVE  PlaceInv' /\ HeldInv' /\ Framing' /\ OrderInv'
<1> USE DEF IInv
<1>1. /\ detached' = detached /\ ctx_term' = ctx_term
      /\ offered' = offered /\ reused' = reused
  OBVIOUS
<1>2. ASSUME outgoing_queue' = outgoing_queue PROVE Queued' = Queued
  BY <1>1, <1>2 DEF Queued
<1>3. ASSUME NoSend PROVE wire' = wire /\ mishaps' = mishaps
  BY <1>3 DEF NoSend, NotSent
<1>4. CASE FlushNothing
  <2>1. /\ state # "DROPPING" /\ state \in State
        /\ cached # NoPart => state \notin {"NOTSENT", "SENDING"}
        /\ state' = "FLUSHED" /\ cached' = NoPart /\ wire' = wire
        /\ mishaps' = mishaps /\ Queued' = Queued
        /\ outgoing_queue' = outgoing_queue
    BY <1>2, <1>3, <1>4 DEF FlushNothing, FlushDone, TypeOK
  <2>2. OrderInv'
    BY <1>1, <2>1, OrderStays
  <2>3. wire = <<>> \/ Queued = <<>>
    BY <2>1 DEF PlaceInv, State
  <2>4. ~reused => ~MidMessage
    BY <2>1 DEF PlaceInv, HeldInv, State, MidMessage
  <2> QED BY <1>1, <2>1, <2>2, <2>3, <2>4
    DEF PlaceInv, HeldInv, Framing, Terminated, MidMessage
<1>5. CASE FlushFirst
  <2>1. PICK outcome \in State :
          /\ try_send_first_cached(outcome, TRUE)
          /\ outgoing_queue' = IF outcome = "QUEUEING" THEN <<cached>>
                                                       ELSE outgoing_queue
    BY <1>5 DEF FlushFirst
  <2>2. /\ state = "NOTSENT" /\ cached # NoPart
        /\ state' = "FLUSHED" /\ cached' = NoPart
    BY <1>5 DEF FlushFirst, FlushDone
  <2>3. wire = <<>> /\ Queued = <<>> /\ detached = <<>> /\ ~Terminated
        /\ outgoing_queue = <<>> /\ "drop" \notin mishaps
    BY <2>2 DEF PlaceInv, Terminated, Queued
  <2>4. CASE outcome = "SENDING"
    <3>1. /\ Transmit(cached, TRUE) /\ mishaps' = mishaps
          /\ outgoing_queue' = outgoing_queue
      BY <2>1, <2>4 DEF try_send_first_cached, MishapOf
    <3>2. Queued' = <<>>
      BY <1>2, <2>3, <3>1
    <3>3. OrderInv'
      BY <1>1, <2>2, <2>3, <3>1, <3>2, OrderGrows
    <3>4. ~MidMessage' /\ Framing'
      BY <2>2, <2>3, <3>1, GrowWire DEF MidMessage, Terminated, Framing
    <3> QED BY <1>1, <2>2, <2>3, <3>1, <3>2, <3>3, <3>4 DEF PlaceInv, HeldInv
  <2>5. CASE outcome = "QUEUEING"
    <3>1. /\ wire' = <<>> /\ mishaps' = mishaps /\ outgoing_queue' = <<cached>>
          /\ Queued' = <<cached>>
      BY <1>1, <2>1, <2>3, <2>5
      DEF try_send_first_cached, MishapOf, NotSent, Queued
    <3>2. Len(Queued') = 1 /\ Queued'[1] = cached /\ cached <= offered
      BY <3>1 DEF OrderInv
    <3>3. \A i \in 1 .. Len(Queued') : i = 1
      BY <3>2
    <3>4. OrderInv'
      BY <1>1, <2>2, <3>1, <3>2, <3>3 DEF OrderInv, InOrder, NoPart, TypeOK
    <3> QED BY <1>1, <2>2, <2>3, <3>1, <3>4
      DEF PlaceInv, HeldInv, Framing, Terminated, MidMessage
  <2>6. CASE outcome \notin {"SENDING", "QUEUEING"}
    <3>1. wire' = wire /\ outgoing_queue' = outgoing_queue /\ Queued' = Queued
      BY <1>2, <2>1, <2>6 DEF try_send_first_cached, NotSent
    <3>2. OrderInv'
      BY <1>1, <2>2, <3>1, OrderStays
    <3> QED BY <1>1, <2>2, <2>3, <3>1, <3>2
      DEF PlaceInv, HeldInv, Framing, Terminated, MidMessage
  <2> QED BY <2>4, <2>5, <2>6
<1>6. CASE FlushLast
  <2>1. /\ state = "SENDING" /\ cached # NoPart
        /\ state' = "FLUSHED" /\ cached' = NoPart
        /\ Transmit(cached, TRUE) /\ mishaps' = mishaps
        /\ outgoing_queue' = outgoing_queue /\ Queued' = Queued
    BY <1>2, <1>6 DEF FlushLast, FlushDone, do_send_one
  <2>2. Queued = <<>> /\ ~Terminated
    BY <2>1 DEF PlaceInv, Framing
  <2>3. OrderInv'
    BY <1>1, <2>1, <2>2, OrderGrows
  <2>4. ~MidMessage' /\ Framing'
    BY <2>1, <2>2, GrowWire DEF MidMessage, Terminated, Framing
  <2> QED BY <1>1, <2>1, <2>2, <2>3, <2>4 DEF PlaceInv, HeldInv
<1>7. CASE FlushRaises
  <2>1. /\ state \in {"NOTSENT", "SENDING"} /\ state' = state
        /\ cached' \in {cached, NoPart} /\ (state = "SENDING" => cached' = cached)
        /\ outgoing_queue' = outgoing_queue /\ wire' = wire /\ Queued' = Queued
        /\ "drop" \in mishaps' => "drop" \in mishaps
    BY <1>2, <1>7 DEF FlushRaises, FirstRaises, try_send_first_cached,
                      do_send_one, NotSent, MishapOf
  <2>2. OrderInv'
    BY <1>1, <2>1, OrderStays
  <2>3. state = "SENDING" => ctx_term
    <3> SUFFICES ASSUME state = "SENDING", ~ctx_term PROVE FALSE
      OBVIOUS
    <3>1. SendResults = {"ok"}
      BY DEF PlaceInv, SendResults
    <3>2. \E r \in SendResults : r # "ok"
      BY <1>7 DEF FlushRaises
    <3> QED BY <3>1, <3>2
  <2> QED BY <1>1, <2>1, <2>2, <2>3
    DEF PlaceInv, HeldInv, Framing, Terminated, MidMessage
<1>8. CASE /\ state = "DROPPING"
           /\ NoSend /\ UNCHANGED <<state, cached, outgoing_queue, flushes>>
  <2>1. /\ state = "DROPPING" /\ state' = state /\ cached' = cached
        /\ outgoing_queue' = outgoing_queue /\ wire' = wire
        /\ Queued' = Queued /\ mishaps' = mishaps
    BY <1>2, <1>3, <1>8
  <2>2. OrderInv'
    BY <1>1, <2>1, OrderStays
  <2> QED BY <1>1, <2>1, <2>2 DEF PlaceInv, HeldInv, Framing, Terminated
<1> QED
  BY <1>4, <1>5, <1>6, <1>7, <1>8 DEF flush

\* A new Sink satisfies the inductive invariant.
LEMMA InitInv == Init => IInv
<1> SUFFICES ASSUME Init PROVE IInv
  OBVIOUS
<1>1. TypeOK
  BY InitType
<1>2. /\ wire = <<>> /\ outgoing_queue = <<>> /\ detached = <<>>
      /\ state = "NOTSENT" /\ cached = 0 /\ offered = 0 /\ mishaps = {}
      /\ phase # "dead"
  BY DEF Init, NoPart
<1>3. Queued = <<>>
  BY <1>2 DEF Queued
<1> QED
  BY <1>1, <1>2, <1>3 DEF IInv, PlaceInv, HeldInv, Framing, Terminated,
                          OrderInv, InOrder, NoPart

\* Every step of a Sink keeps it.
LEMMA StepInv == IInv /\ [Next]_vars => IInv'
<1> SUFFICES ASSUME IInv, [Next]_vars PROVE IInv'
  OBVIOUS
<1> USE DEF IInv
<1>1. TypeOK'
  BY StepType
<1>2. ASSUME NEW owned \in {NewPart, NoPart}, send_owned(owned) PROVE IInv'
  BY <1>1, <1>2, SendInv
<1>3. CASE SendRouting
  BY <1>2, <1>3 DEF SendRouting
<1>4. CASE Insert
  BY <1>2, <1>4 DEF Insert
<1>5. CASE \E i \in Linked : InsertLinked(i)
  BY <1>2, <1>5 DEF InsertLinked
<1>6. CASE Flush
  BY <1>1, <1>6, FlushInv DEF Flush
<1>7. CASE Detach
  <2>1. /\ phase' = phase /\ state' = state /\ cached' = cached
        /\ wire' = wire /\ ctx_term' = ctx_term /\ offered' = offered
        /\ reused' = reused /\ mishaps' = mishaps
        /\ outgoing_queue # <<>> /\ outgoing_queue' = <<>>
        /\ detached' = outgoing_queue
    BY <1>7 DEF Detach, socket, history
  <2>2. Queued' = Queued
    BY <2>1 DEF Queued, PlaceInv
  <2>3. OrderInv'
    BY <2>1, <2>2, OrderStays
  <2> QED BY <1>1, <2>1, <2>2, <2>3
    DEF PlaceInv, HeldInv, Framing, Terminated, MidMessage
<1>8. CASE Destroy
  BY <1>1, <1>8, FlushInv DEF Destroy
<1>9. CASE Terminate \/ UNCHANGED vars
  <2>1. /\ phase' = phase /\ state' = state /\ cached' = cached
        /\ wire' = wire /\ (ctx_term => ctx_term') /\ offered' = offered
        /\ reused' = reused /\ mishaps' = mishaps
        /\ outgoing_queue' = outgoing_queue /\ detached' = detached
    BY <1>9 DEF Terminate, vars, socket, history
  <2>2. Queued' = Queued
    BY <2>1 DEF Queued
  <2>3. OrderInv'
    BY <2>1, <2>2, OrderStays
  <2> QED BY <1>1, <2>1, <2>2, <2>3
    DEF PlaceInv, HeldInv, Framing, Terminated, MidMessage
<1> QED
  BY <1>3, <1>4, <1>5, <1>6, <1>7, <1>8, <1>9 DEF Next

\* The inductive invariant holds in every reachable state.
THEOREM Inductive == Spec => []IInv
BY InitInv, StepInv, PTL DEF Spec

-----------------------------------------------------------------------------
(* The safety properties.                                                   *)

\* A message is sent, or queued, or dropped: never two of them.
THEOREM NeverSplitThm == Spec => []NeverSplit
<1>1. IInv => NeverSplit
  BY DEF IInv, PlaceInv, NeverSplit, TypeOK, State
<1> QED BY <1>1, Inductive, PTL

\* ZMQ_SNDMORE is on every frame but the last, and the last closes the Sink.
THEOREM FramingThm == Spec => []Framing
<1>1. IInv => Framing
  BY DEF IInv
<1> QED BY <1>1, Inductive, PTL

\* Parts are sent and queued in the order of insertion, none of them twice.
THEOREM InOrderThm == Spec => []InOrder
<1>1. IInv => InOrder
  BY DEF IInv, OrderInv
<1> QED BY <1>1, Inductive, PTL

\* The destructor leaves the socket between two messages.
THEOREM BoundaryThm == Spec => []BoundaryAtEnd
<1>1. IInv => BoundaryAtEnd
  BY DEF IInv, PlaceInv, HeldInv, BoundaryAtEnd, TypeOK, State, MidMessage
<1> QED BY <1>1, Inductive, PTL

\* A part of incoming_ that it has disowned is held by the Sink, which was told
\* to move it: an insertion that is ignored, dropped or ends in an exception
\* takes nothing.
THEOREM NoOrphanThm == Spec => NoOrphan
<1>1. ASSUME IInv, [Next]_vars, NEW i \in Linked, incoming[i] /\ ~incoming'[i]
      PROVE  /\ "COPY_INCOMING" \notin options
             /\ \/ cached' = offered'
                \/ outgoing_queue' # <<>> /\
                   outgoing_queue'[Len(outgoing_queue')] = offered'
  <2>1. InsertLinked(i)
    <3>1. ASSUME NEW k \in Linked, InsertLinked(k)
          PROVE  k = i
      BY <1>1, <3>1 DEF InsertLinked, IInv, TypeOK
    <3>2. ~ \/ SendRouting \/ Insert \/ Flush \/ Detach \/ Destroy \/ Terminate
            \/ UNCHANGED vars
      BY <1>1 DEF SendRouting, Insert, Flush, Detach, Destroy, Terminate, vars
    <3> QED
      BY <1>1, <3>1, <3>2 DEF Next
  <2>2. "COPY_INCOMING" \notin options /\ send_owned(NewPart) /\ Moved(NewPart)
    BY <1>1, <2>1 DEF InsertLinked, IInv, TypeOK
  <2>3. cached \in Nat /\ offered \in Nat /\ cached <= offered
        /\ outgoing_queue \in Seq(Slot)
    BY <1>1 DEF IInv, OrderInv, TypeOK, Slot
  <2>4. NewPart \in Slot
    BY <2>3 DEF NewPart, Slot
  <2>5. state # "FLUSHED"
    <3>1. ASSUME state = "FLUSHED" PROVE FALSE
      <4>1. cached' = cached /\ outgoing_queue' = outgoing_queue
        BY <2>2, <3>1 DEF send_owned, HoldFirst, SendFirst, QueueFirst, DropFirst,
           SendNext, NextRaises, HoldAgain, QueueNext, QueueGone, Ignore
      <4> QED
        BY <2>2, <2>3, <4>1 DEF Moved, NewPart
    <3> QED
      BY <3>1
  <2>6. offered' = NewPart
    BY <2>2, <2>5 DEF send_owned, NewPart
  <2>7. \/ outgoing_queue' = outgoing_queue
        \/ outgoing_queue' = <<cached, NewPart>>
        \/ outgoing_queue' = Append(outgoing_queue, NewPart)
    BY <2>2 DEF send_owned, HoldFirst, SendFirst, QueueFirst, DropFirst, FirstRaises,
       SendNext, NextRaises, HoldAgain, QueueNext, QueueGone, Ignore
  <2>8. CASE outgoing_queue' = outgoing_queue
    BY <2>2, <2>6, <2>8 DEF Moved
  <2>9. CASE outgoing_queue' = <<cached, NewPart>>
    <3>1. Len(outgoing_queue') = 2 /\ outgoing_queue'[2] = NewPart
      BY <2>9
    <3>2. outgoing_queue' # <<>>
      BY <2>9
    <3> QED
      BY <2>2, <2>6, <3>1, <3>2
  <2>10. CASE outgoing_queue' = Append(outgoing_queue, NewPart)
    <3> DEFINE q == Append(outgoing_queue, NewPart)
    <3>1. q # <<>> /\ q[Len(q)] = NewPart
      BY <2>3, <2>4
    <3> QED
      BY <2>2, <2>6, <2>10, <3>1
  <2> QED
    BY <2>7, <2>8, <2>9, <2>10
<1>2. IInv /\ [Next]_vars =>
        [\A i \in Linked : incoming[i] /\ ~incoming'[i] =>
           /\ "COPY_INCOMING" \notin options
           /\ \/ cached' = offered'
              \/ outgoing_queue' # <<>> /\
                 outgoing_queue'[Len(outgoing_queue')] = offered']_vars
  BY <1>1
<1> QED
  BY <1>2, Inductive, PTL DEF Spec, NoOrphan

-----------------------------------------------------------------------------
(* What the observer is told, for every option set, envelope and bound,     *)
(* when parts fail to go out and the caller goes on.                        *)

\* The constructor puts the envelope in, and is left by an exception otherwise.
CtorInv ==
  /\ phase = "ctor" => state # "FLUSHED" /\ offered < envelope
  /\ phase = "open" => offered >= envelope
  /\ phase = "unwinding" => mishaps # {}

\* A routing part that is held back is still counted as pending.
RoutingInv ==
  /\ \A i \in 1 .. Len(notified) : notified[i] > envelope
  /\ cached # NoPart /\ cached <= envelope => pending_routing_parts > 0

FlushedInv == flushes = IF state = "FLUSHED" THEN 1 ELSE 0

\* The payload parts among the first n.
Payload(n) == [i \in 1 .. (IF n > envelope THEN n - envelope ELSE 0) |-> envelope + i]

\* While nothing went wrong all parts but the one held back are on the wire.
GoodInv ==
  mishaps = {} /\ ~reused =>
    /\ state \in {"NOTSENT", "SENDING"} =>
         /\ cached = offered
         /\ Len(wire) = IF offered = 0 THEN 0 ELSE offered - 1
         /\ pending_routing_parts =
              IF offered > 0 /\ Len(wire) < envelope THEN 1 ELSE 0
    /\ state # "DROPPING"
    /\ IF Queued = <<>> THEN notified = Payload(Len(wire)) ELSE Len(notified) <= 1

ObserverInv == CtorInv /\ RoutingInv /\ FlushedInv /\ GoodInv

-----------------------------------------------------------------------------
(* What one attempt to send the held part does.                             *)

\* The count an operation works with is the stored one, plus the routing part the
\* constructor is inserting.
LEMMA PendingType ==
  ASSUME TypeOK
  PROVE  /\ envelope \in Nat /\ offered \in Nat /\ cached \in Nat
         /\ pending_routing_parts \in Nat /\ Pending \in Nat
         /\ Pending = IF phase = "ctor" THEN pending_routing_parts + 1
                                        ELSE pending_routing_parts
BY EnvelopesAssumption DEF TypeOK, Slot, Pending

Outcome == {"SENDING", "QUEUEING", "DROPPING", "blocked", "error"}

\* The first send: one mishap, or none and the part is sent or queued.
LEMMA FirstEffect ==
  ASSUME TypeOK, cached # NoPart, NEW outcome \in Outcome, NEW last \in BOOLEAN,
         try_send_first_cached(outcome, last)
  PROVE  /\ \/ notified' = notified
            \/ Pending = 0 /\ notified' = Append(notified, cached)
         /\ outcome = "SENDING" =>
              /\ Len(wire') = Len(wire) + 1
              /\ pending_routing_parts' = IF Pending > 0 THEN Pending - 1 ELSE 0
              /\ notified' = IF Pending = 0 THEN Append(notified, cached) ELSE notified
         /\ outcome # "SENDING" => wire' = wire /\ pending_routing_parts' = Pending
         /\ mishaps' = {} => mishaps = {} /\ outcome \in {"SENDING", "QUEUEING"}
<1>1. outcome \in {"SENDING", "QUEUEING", "DROPPING", "blocked", "error"}
  BY DEF Outcome
<1>2. outcome = "SENDING" => "EMULATE_BLOCK_SENDS" \notin options
  BY DEF try_send_first_cached, FirstOutcomes, OnBlock
<1>3. \/ notified' = notified
      \/ Pending = 0 /\ notified' = Append(notified, cached)
  BY DEF try_send_first_cached, notify_on_send
<1>4. ASSUME outcome = "SENDING"
      PROVE  /\ Len(wire') = Len(wire) + 1
             /\ pending_routing_parts' = IF Pending > 0 THEN Pending - 1 ELSE 0
             /\ notified' = IF Pending = 0 THEN Append(notified, cached) ELSE notified
  <2>1. Transmit(cached, last) /\ notify_on_send(cached)
    BY <1>2, <1>4 DEF try_send_first_cached
  <2> QED
    BY <2>1 DEF Transmit, notify_on_send, TypeOK
<1>5. outcome # "SENDING" => wire' = wire /\ pending_routing_parts' = Pending
  BY DEF try_send_first_cached, NotSent
<1>6. mishaps' = {} => mishaps = {} /\ outcome \in {"SENDING", "QUEUEING"}
  BY <1>1 DEF try_send_first_cached, MishapOf
<1> QED
  BY <1>3, <1>4, <1>5, <1>6

\* A later send.
LEMMA NextEffect ==
  ASSUME TypeOK, cached # NoPart, NEW result, NEW last \in BOOLEAN,
         do_send_one(result, last)
  PROVE  /\ notified' = IF Pending = 0 THEN Append(notified, cached) ELSE notified
         /\ result = "ok" =>
              /\ Len(wire') = Len(wire) + 1
              /\ pending_routing_parts' = IF Pending > 0 THEN Pending - 1 ELSE 0
              /\ mishaps' = mishaps
         /\ result # "ok" =>
              wire' = wire /\ pending_routing_parts' = Pending /\ mishaps' # {}
<1>1. notified' = IF Pending = 0 THEN Append(notified, cached) ELSE notified
  BY DEF do_send_one, notify_on_send
<1>2. CASE result = "ok"
  <2>1. Transmit(cached, last) /\ mishaps' = mishaps
    BY <1>2 DEF do_send_one
  <2> QED
    BY <1>1, <1>2, <2>1 DEF Transmit, TypeOK
<1>3. CASE result # "ok"
  BY <1>1, <1>3 DEF do_send_one, NotSent
<1> QED
  BY <1>2, <1>3

\* An operation that sends nothing.
LEMMA NoSendEffect ==
  ASSUME NoSend
  PROVE  UNCHANGED <<wire, notified, mishaps>> /\ pending_routing_parts' = Pending
BY DEF NoSend, NotSent

\* Routing parts are not notified.
LEMMA NotifiedPayload ==
  ASSUME TypeOK, RoutingInv, cached # NoPart, UNCHANGED envelope,
         \/ notified' = notified
         \/ Pending = 0 /\ notified' = Append(notified, cached)
  PROVE  \A i \in 1 .. Len(notified') : notified'[i] > envelope'
<1>1. CASE notified' = notified
  BY <1>1 DEF RoutingInv
<1>2. CASE Pending = 0 /\ notified' = Append(notified, cached)
  <2>1. pending_routing_parts = 0 /\ cached \in Nat /\ envelope \in Nat
    BY <1>2, PendingType
  <2>2. cached > envelope
    BY <2>1 DEF RoutingInv
  <2>3. /\ Len(notified') = Len(notified) + 1 /\ notified'[Len(notified')] = cached
        /\ Len(notified) \in Nat
        /\ \A i \in 1 .. Len(notified) : notified'[i] = notified[i]
    BY <1>2 DEF TypeOK
  <2>4. \A i \in 1 .. Len(notified') : i = Len(notified') \/ i \in 1 .. Len(notified)
    BY <2>3
  <2> QED
    BY <2>2, <2>3, <2>4 DEF RoutingInv
<1> QED
  BY <1>1, <1>2

\* The payload parts among the first n, and one part more.
LEMMA PayloadGrows ==
  ASSUME NEW n \in Nat, envelope \in Nat
  PROVE  /\ n < envelope => Payload(n + 1) = Payload(n)
         /\ n >= envelope => Append(Payload(n), n + 1) = Payload(n + 1)
         /\ Payload(0) = <<>>
<1>1. ASSUME n < envelope PROVE Payload(n + 1) = Payload(n)
  <2>1. ~ (n > envelope) /\ (n + 1 > envelope => n + 1 - envelope = 0)
        /\ ~ (n + 1 > envelope)
    BY <1>1
  <2> QED
    BY <2>1 DEF Payload
<1>2. ASSUME n >= envelope PROVE Append(Payload(n), n + 1) = Payload(n + 1)
  <2> DEFINE k == n - envelope
  <2>1. /\ k \in Nat /\ n + 1 > envelope
        /\ n + 1 - envelope = k + 1 /\ envelope + (k + 1) = n + 1
    BY <1>2
  <2>2. (IF n > envelope THEN n - envelope ELSE 0) = k
    BY <1>2
  <2> HIDE DEF k
  <2>3. Payload(n) = [i \in 1 .. k |-> envelope + i]
    BY <2>2 DEF Payload
  <2>4. Payload(n + 1) = [i \in 1 .. k + 1 |-> envelope + i]
    BY <2>1 DEF Payload
  <2>5. Append([i \in 1 .. k |-> envelope + i], envelope + (k + 1)) =
          [i \in 1 .. k + 1 |-> envelope + i]
    BY <2>1
  <2> QED
    BY <2>1, <2>3, <2>4, <2>5
<1>3. Payload(0) = <<>>
  <2>1. (IF 0 > envelope THEN 0 - envelope ELSE 0) = 0
    OBVIOUS
  <2>2. Payload(0) = [i \in 1 .. 0 |-> envelope + i]
    BY <2>1 DEF Payload
  <2> QED
    BY <2>2
<1> QED
  BY <1>1, <1>2, <1>3

\* While nothing has gone wrong, sending the held part keeps the observer exact
\* and the count right.
LEMMA GoodTransmit ==
  ASSUME TypeOK, CtorInv, GoodInv, mishaps = {}, ~reused, Queued = <<>>,
         state \in {"NOTSENT", "SENDING"}, cached # NoPart,
         phase \in {"ctor", "open"}, UNCHANGED envelope,
         Len(wire') = Len(wire) + 1,
         pending_routing_parts' = IF Pending > 0 THEN Pending - 1 ELSE 0,
         notified' = IF Pending = 0 THEN Append(notified, cached) ELSE notified
  PROVE  /\ notified' = Payload(Len(wire))'
         /\ Len(wire') = offered
         /\ pending_routing_parts' = IF Len(wire') < envelope THEN 1 ELSE 0
<1>0. /\ cached = offered /\ offered \in Nat /\ offered > 0 /\ envelope \in Nat
      /\ Len(wire) = offered - 1 /\ Len(wire) \in Nat
      /\ pending_routing_parts = IF Len(wire) < envelope THEN 1 ELSE 0
      /\ notified = Payload(Len(wire))
  BY PendingType DEF GoodInv, TypeOK, NoPart
<1>1. /\ phase = "ctor" => offered < envelope
      /\ phase = "open" => offered >= envelope
  BY DEF CtorInv
<1>2. Pending = 0 <=> Len(wire) >= envelope
  BY <1>0, <1>1, PendingType
<1>3. pending_routing_parts' = IF Len(wire') < envelope THEN 1 ELSE 0
  BY <1>0, <1>1, PendingType
<1>4. Payload(Len(wire))' = Payload(Len(wire) + 1) /\ Len(wire) + 1 = cached
  BY <1>0 DEF Payload
<1>5. CASE Pending = 0
  <2> DEFINE n == Len(wire)
  <2>1. n \in Nat /\ n >= envelope /\ n + 1 = cached
    BY <1>0, <1>2, <1>4, <1>5
  <2>2. notified' = Append(Payload(n), n + 1)
    BY <1>0, <1>5, <2>1
  <2>3. Payload(n)' = Payload(n + 1)
    BY <1>4
  <2> HIDE DEF n
  <2>4. Append(Payload(n), n + 1) = Payload(n + 1)
    BY <1>0, <2>1, PayloadGrows
  <2>5. notified' = Payload(n)'
    BY <2>2, <2>3, <2>4
  <2> QED
    BY <1>0, <1>3, <2>5 DEF n
<1>6. CASE Pending # 0
  <2>1. Len(wire) < envelope
    BY <1>0, <1>2, <1>6
  <2>2. Payload(Len(wire) + 1) = Payload(Len(wire))
    BY <1>0, <2>1, PayloadGrows
  <2> QED
    BY <1>0, <1>3, <1>4, <1>6, <2>2
<1> QED
  BY <1>0, <1>3, <1>5, <1>6

-----------------------------------------------------------------------------
(* The steps.                                                               *)

\* What an insertion does to the phase, whichever case it is.
LEMMA SendPhase ==
  ASSUME IInv, ObserverInv, phase \in {"ctor", "open"}, NEW owned \in Slot,
         send_owned(owned)
  PROVE  CtorInv' /\ FlushedInv'
<1>1. TypeOK /\ offered \in Nat /\ envelope \in Nat /\ envelope' = envelope
  BY PendingType DEF IInv, send_owned, config
<1>2. /\ state = "FLUSHED" => offered' = offered /\ Ignore
      /\ state # "FLUSHED" => offered' = offered + 1 /\ state' # "FLUSHED"
      /\ flushes' = flushes
  BY DEF send_owned, HoldFirst, SendFirst, QueueFirst, DropFirst, FirstRaises, SendNext,
     NextRaises, HoldAgain, QueueNext, QueueGone, Ignore
<1>3. \/ Return
      \/ Raise /\ mishaps' # {} /\ state' = state
      \/ Abort
  <2>1. CASE state = "NOTSENT" /\ cached # NoPart /\ FirstRaises(FALSE) /\ Raise
    <3>1. PICK outcome \in {"blocked", "error"} : try_send_first_cached(outcome, FALSE)
      BY <2>1 DEF FirstRaises
    <3>2. mishaps' # {}
      BY <1>1, <2>1, <3>1, FirstEffect DEF Outcome
    <3> QED
      BY <2>1, <3>2 DEF FirstRaises
  <2>2. CASE NextRaises
    <3>1. PICK r \in SendResults \ {"ok"} : do_send_one(r, FALSE)
      BY <2>2 DEF NextRaises
    <3>2. mishaps' # {}
      BY <1>1, <2>2, <3>1, NextEffect DEF NextRaises
    <3> QED
      BY <2>2, <3>2 DEF NextRaises
  <2> QED
    BY <2>1, <2>2 DEF send_owned, HoldFirst, SendFirst, QueueFirst, DropFirst, SendNext,
       HoldAgain, QueueNext, QueueGone, Ignore
<1>4. FlushedInv'
  BY <1>2 DEF ObserverInv, FlushedInv, Ignore
<1>5. /\ phase = "ctor" => state # "FLUSHED" /\ offered < envelope
      /\ phase = "open" => offered >= envelope
  BY DEF ObserverInv, CtorInv
<1>6. CASE Return
  BY <1>1, <1>2, <1>4, <1>5, <1>6 DEF Return, CtorInv
<1>7. CASE Raise /\ mishaps' # {} /\ state' = state
  BY <1>1, <1>2, <1>4, <1>5, <1>7 DEF Raise, CtorInv
<1>8. CASE Abort
  BY <1>4, <1>8 DEF Abort, CtorInv
<1> QED
  BY <1>3, <1>4, <1>6, <1>7, <1>8

\* An insertion keeps the count of routing parts that are still to be sent.
LEMMA SendRoutingInv ==
  ASSUME IInv, ObserverInv, phase \in {"ctor", "open"},
         NEW owned \in {NewPart, NoPart}, send_owned(owned)
  PROVE  RoutingInv'
<1>1. TypeOK /\ envelope' = envelope /\ RoutingInv /\ cached <= offered
  BY DEF IInv, OrderInv, ObserverInv, send_owned, config
<1>2. /\ phase = "ctor" => offered < envelope
      /\ phase = "open" => offered >= envelope
  BY DEF ObserverInv, CtorInv
<1>3. Pending >= pending_routing_parts /\ (phase = "ctor" => Pending > 0)
  BY <1>1, PendingType
<1>4. owned # NoPart /\ owned <= envelope => phase = "ctor"
  BY <1>1, <1>2, PendingType DEF NewPart
<1>5. ASSUME NoSend, cached' \in {cached, owned} PROVE RoutingInv'
  <2>1. notified' = notified /\ pending_routing_parts' = Pending
    BY <1>5, NoSendEffect
  <2>2. cached' # NoPart /\ cached' <= envelope => Pending > 0
    BY <1>1, <1>3, <1>4, <1>5, PendingType DEF RoutingInv
  <2> QED
    BY <1>1, <2>1, <2>2 DEF RoutingInv
<1>6. ASSUME cached # NoPart,
             \/ notified' = notified
             \/ Pending = 0 /\ notified' = Append(notified, cached),
             \/ cached' \in {cached, NoPart} /\ pending_routing_parts' = Pending
             \/ /\ cached' = owned
                /\ pending_routing_parts' = IF Pending > 0 THEN Pending - 1 ELSE 0
      PROVE RoutingInv'
  <2>1. \A i \in 1 .. Len(notified') : notified'[i] > envelope'
    BY <1>1, <1>6, NotifiedPayload
  <2>2. CASE cached' \in {cached, NoPart} /\ pending_routing_parts' = Pending
    BY <1>1, <1>3, <2>1, <2>2, PendingType DEF RoutingInv
  <2>3. CASE /\ cached' = owned
             /\ pending_routing_parts' = IF Pending > 0 THEN Pending - 1 ELSE 0
    <3>1. ASSUME owned # NoPart, owned <= envelope PROVE pending_routing_parts' > 0
      <4>1. phase = "ctor" /\ cached <= envelope
        BY <1>1, <1>2, <1>4, <3>1, PendingType
      <4>2. pending_routing_parts > 0 /\ Pending = pending_routing_parts + 1
        BY <1>1, <1>6, <4>1, PendingType DEF RoutingInv
      <4> QED
        BY <1>1, <2>3, <4>2, PendingType
    <3> QED
      BY <1>1, <2>1, <2>3, <3>1 DEF RoutingInv
  <2> QED
    BY <1>6, <2>2, <2>3
<1>7. CASE \/ HoldFirst(owned) \/ HoldAgain(owned) \/ QueueNext(owned) \/ QueueGone
           \/ Ignore
  BY <1>5, <1>7 DEF HoldFirst, HoldAgain, QueueNext, QueueGone, Ignore
<1>8. CASE SendFirst(owned)
  <2>1. cached # NoPart /\ cached' = owned /\ try_send_first_cached("SENDING", FALSE)
    BY <1>8 DEF SendFirst
  <2>2. /\ \/ notified' = notified
           \/ Pending = 0 /\ notified' = Append(notified, cached)
        /\ pending_routing_parts' = IF Pending > 0 THEN Pending - 1 ELSE 0
    BY <1>1, <2>1, FirstEffect DEF Outcome
  <2> QED
    BY <1>6, <2>1, <2>2
<1>9. CASE QueueFirst(owned)
  <2>1. cached # NoPart /\ cached' = NoPart /\ try_send_first_cached("QUEUEING", FALSE)
    BY <1>9 DEF QueueFirst
  <2>2. /\ \/ notified' = notified
           \/ Pending = 0 /\ notified' = Append(notified, cached)
        /\ pending_routing_parts' = Pending
    BY <1>1, <2>1, FirstEffect DEF Outcome
  <2> QED
    BY <1>6, <2>1, <2>2
<1>10. CASE DropFirst
  <2>1. cached # NoPart /\ cached' = cached /\ try_send_first_cached("DROPPING", FALSE)
    BY <1>10 DEF DropFirst
  <2>2. /\ \/ notified' = notified
           \/ Pending = 0 /\ notified' = Append(notified, cached)
        /\ pending_routing_parts' = Pending
    BY <1>1, <2>1, FirstEffect DEF Outcome
  <2> QED
    BY <1>6, <2>1, <2>2
<1>11. CASE state = "NOTSENT" /\ cached # NoPart /\ FirstRaises(FALSE) /\ Raise
  <2>1. PICK outcome \in {"blocked", "error"} : try_send_first_cached(outcome, FALSE)
    BY <1>11 DEF FirstRaises
  <2>2. cached # NoPart /\ cached' \in {cached, NoPart}
    BY <1>11 DEF FirstRaises
  <2> QED
    BY <1>1, <1>6, <2>1, <2>2, FirstEffect DEF Outcome
<1>12. CASE SendNext(owned)
  <2>1. cached # NoPart /\ cached' = owned /\ do_send_one("ok", FALSE)
    BY <1>12 DEF SendNext
  <2> QED
    BY <1>1, <1>6, <2>1, NextEffect
<1>13. CASE NextRaises
  <2>1. cached # NoPart /\ cached' = cached
    BY <1>13 DEF NextRaises
  <2>2. PICK r \in SendResults \ {"ok"} : do_send_one(r, FALSE)
    BY <1>13 DEF NextRaises
  <2> QED
    BY <1>1, <1>6, <2>1, <2>2, NextEffect
<1> QED
  BY <1>7, <1>8, <1>9, <1>10, <1>11, <1>12, <1>13 DEF send_owned

\* An insertion that goes well: the part it sends is notified unless it is routing.
LEMMA SendGood ==
  ASSUME IInv, ObserverInv, phase \in {"ctor", "open"},
         NEW owned \in {NewPart, NoPart}, send_owned(owned),
         mishaps' = {}, ~reused'
  PROVE  GoodInv'
<1>1. /\ TypeOK /\ envelope' = envelope /\ detached' = detached /\ CtorInv /\ GoodInv
      /\ ~reused /\ (state # "FLUSHED" => owned = NewPart /\ offered' = owned)
      /\ (state = "FLUSHED" => offered' = offered)
  BY DEF IInv, ObserverInv, send_owned, config, NewPart
<1>2. /\ offered \in Nat /\ envelope \in Nat
      /\ phase = "ctor" => offered < envelope /\ state # "FLUSHED"
      /\ phase = "open" => offered >= envelope
  BY <1>1, PendingType DEF CtorInv
<1>3. PlaceInv /\ HeldInv
  BY DEF IInv
<1>4. CASE HoldFirst(owned)
  <2>1. /\ state = "NOTSENT" /\ state' = state /\ cached = NoPart /\ cached' = owned
        /\ UNCHANGED <<wire, notified, mishaps, outgoing_queue>>
        /\ pending_routing_parts' = Pending
    BY <1>4, NoSendEffect DEF HoldFirst
  <2>2. mishaps = {} /\ offered = 0 /\ owned = 1 /\ Len(wire) = 0
        /\ pending_routing_parts = 0 /\ notified = Payload(Len(wire)) /\ Queued = <<>>
    BY <1>1, <1>3, <2>1 DEF GoodInv, NewPart, NoPart, PlaceInv
  <2>3. Queued' = Queued /\ Payload(Len(wire))' = Payload(Len(wire))
    BY <1>1, <2>1 DEF Queued, Payload
  <2>4. pending_routing_parts' = IF 0 < envelope THEN 1 ELSE 0
    BY <1>1, <1>2, <2>1, <2>2, PendingType
  <2>5. cached' = offered' /\ offered' = 1 /\ Len(wire') = 0
    BY <1>1, <2>1, <2>2
  <2>6. state' # "DROPPING" /\ Queued' = <<>> /\ notified' = Payload(Len(wire))'
    BY <2>1, <2>2, <2>3
  <2> QED
    BY <1>1, <2>4, <2>5, <2>6 DEF GoodInv
<1>5. CASE SendFirst(owned) \/ SendNext(owned)
  <2>1. /\ state \in {"NOTSENT", "SENDING"} /\ state' = "SENDING" /\ cached # NoPart
        /\ cached' = owned /\ UNCHANGED outgoing_queue
    BY <1>5 DEF SendFirst, SendNext
  <2>2. /\ Len(wire') = Len(wire) + 1 /\ mishaps = {}
        /\ pending_routing_parts' = IF Pending > 0 THEN Pending - 1 ELSE 0
        /\ notified' = IF Pending = 0 THEN Append(notified, cached) ELSE notified
    <3>1. CASE SendFirst(owned)
      BY <1>1, <2>1, <3>1, FirstEffect DEF Outcome, SendFirst
    <3>2. CASE SendNext(owned)
      BY <1>1, <2>1, <3>2, NextEffect DEF SendNext
    <3> QED
      BY <1>5, <3>1, <3>2
  <2>3. Queued = <<>> /\ Queued' = <<>>
    BY <1>1, <1>3, <2>1 DEF PlaceInv, Queued
  <2>4. /\ notified' = Payload(Len(wire))' /\ Len(wire') = offered
        /\ pending_routing_parts' = IF Len(wire') < envelope THEN 1 ELSE 0
    BY <1>1, <2>1, <2>2, <2>3, GoodTransmit
  <2>5. cached' = offered' /\ offered' = offered + 1
    BY <1>1, <2>1 DEF NewPart
  <2> QED
    BY <1>1, <1>2, <2>1, <2>3, <2>4, <2>5 DEF GoodInv
<1>6. CASE QueueFirst(owned)
  <2>1. /\ state = "NOTSENT" /\ state' = "QUEUEING" /\ cached # NoPart
        /\ outgoing_queue' = <<cached, owned>>
        /\ try_send_first_cached("QUEUEING", FALSE)
    BY <1>6 DEF QueueFirst
  <2>2. mishaps = {} /\ (notified' = notified \/ notified' = Append(notified, cached))
    BY <1>1, <2>1, FirstEffect DEF Outcome
  <2>3. wire = <<>> /\ Queued = <<>> /\ detached = <<>>
    BY <1>3, <2>1 DEF PlaceInv, Queued
  <2>4. notified = <<>>
    <3>1. Len(wire) = 0
      BY <2>3
    <3> QED
      BY <1>1, <1>2, <2>2, <2>3, <3>1, PayloadGrows DEF GoodInv
  <2>5. Len(notified') <= 1
    <3>1. Len(<<>>) = 0 /\ Len(Append(<<>>, cached)) = 1
      OBVIOUS
    <3>2. Len(notified') = 0 \/ Len(notified') = 1
      BY <2>2, <2>4, <3>1, Zenon
    <3>3. \A n : n = 0 \/ n = 1 => n <= 1
      OBVIOUS
    <3> QED
      BY <3>2, <3>3, Zenon
  <2>6. Queued' # <<>>
    BY <1>1, <2>1, <2>3 DEF Queued
  <2> QED
    BY <2>1, <2>5, <2>6 DEF GoodInv
<1>7. CASE DropFirst
  <2>1. cached # NoPart /\ try_send_first_cached("DROPPING", FALSE)
    BY <1>7 DEF DropFirst
  <2>2. mishaps' # {}
    BY <1>1, <2>1, FirstEffect DEF Outcome
  <2> QED
    BY <2>2
<1>8. CASE state = "NOTSENT" /\ cached # NoPart /\ FirstRaises(FALSE) /\ Raise
  <2>1. PICK outcome \in {"blocked", "error"} : try_send_first_cached(outcome, FALSE)
    BY <1>8 DEF FirstRaises
  <2> QED
    BY <1>1, <1>8, <2>1, FirstEffect DEF Outcome
<1>9. CASE NextRaises
  <2>1. PICK r \in SendResults \ {"ok"} : do_send_one(r, FALSE)
    BY <1>9 DEF NextRaises
  <2> QED
    BY <1>1, <1>9, <2>1, NextEffect DEF NextRaises
<1>10. CASE HoldAgain(owned)
  BY <1>1, <1>3, <1>10 DEF HoldAgain, HeldInv
<1>11. CASE QueueNext(owned) \/ QueueGone
  <2>1. /\ state = "QUEUEING" /\ state' = "QUEUEING"
        /\ UNCHANGED <<wire, notified, mishaps>>
        /\ \/ outgoing_queue' = Append(outgoing_queue, owned)
           \/ outgoing_queue' = outgoing_queue
    BY <1>11, NoSendEffect DEF QueueNext, QueueGone
  <2>2. Queued # <<>>
    BY <1>3, <2>1 DEF PlaceInv
  <2>3. Append(outgoing_queue, owned) # <<>>
    BY <1>1, <2>1 DEF TypeOK
  <2>4. Queued' # <<>>
    BY <1>1, <2>1, <2>2, <2>3 DEF Queued
  <2>5. Len(notified) <= 1
    BY <1>1, <2>1, <2>2 DEF GoodInv
  <2> QED
    BY <2>1, <2>4, <2>5 DEF GoodInv
<1>12. CASE Ignore
  <2>1. /\ state' = state /\ UNCHANGED <<wire, notified, mishaps, outgoing_queue>>
        /\ state \in {"DROPPING", "FLUSHED"}
    BY <1>12, NoSendEffect DEF Ignore
  <2>2. Queued' = Queued /\ Payload(Len(wire))' = Payload(Len(wire))
    BY <1>1, <2>1 DEF Queued, Payload
  <2> QED
    BY <1>1, <2>1, <2>2 DEF GoodInv
<1> QED
  BY <1>4, <1>5, <1>6, <1>7, <1>8, <1>9, <1>10, <1>11, <1>12 DEF send_owned

\* flush() tells the observer of the last part, and of its own end once.
LEMMA FlushObserver ==
  ASSUME IInv, ObserverInv, flush, phase \in {"open", "unwinding"},
         phase' \in {phase, "dead"},
         UNCHANGED <<config, detached, offered, reused>>
  PROVE  ObserverInv'
<1>1. /\ TypeOK /\ envelope' = envelope /\ detached' = detached
      /\ offered' = offered /\ reused' = reused
      /\ CtorInv /\ RoutingInv /\ FlushedInv /\ GoodInv /\ PlaceInv
  BY DEF IInv, ObserverInv, config
<1>2. Pending = pending_routing_parts /\ pending_routing_parts \in Nat
  BY <1>1, PendingType
<1>3. CASE FlushNothing \/ (/\ state = "DROPPING" /\ NoSend
                            /\ UNCHANGED <<state, cached, outgoing_queue, flushes>>)
  <2>1. /\ UNCHANGED <<wire, notified, mishaps, outgoing_queue>>
        /\ pending_routing_parts' = Pending
        /\ \/ FlushDone
           \/ state = "DROPPING" /\ UNCHANGED <<state, cached, flushes>>
    BY <1>3, NoSendEffect DEF FlushNothing
  <2>2. Queued' = Queued /\ Payload(Len(wire))' = Payload(Len(wire))
    BY <1>1, <2>1 DEF Queued, Payload
  <2>3. RoutingInv'
    BY <1>1, <1>2, <2>1 DEF RoutingInv, FlushDone
  <2>4. FlushedInv'
    BY <1>1, <2>1 DEF FlushedInv, FlushDone
  <2>5. CtorInv'
    BY <1>1, <2>1 DEF CtorInv
  <2>6. GoodInv'
    BY <1>1, <2>1, <2>2 DEF GoodInv, FlushDone
  <2> QED
    BY <2>3, <2>4, <2>5, <2>6 DEF ObserverInv
<1>4. CASE FlushFirst \/ FlushLast
  <2>1. /\ cached # NoPart /\ FlushDone /\ cached' = NoPart /\ state' = "FLUSHED"
        /\ state \in {"NOTSENT", "SENDING"}
    BY <1>4 DEF FlushFirst, FlushLast, FlushDone
  <2>2. Queued = <<>> /\ detached = <<>> /\ outgoing_queue = <<>>
    BY <1>1, <2>1 DEF PlaceInv, Queued
  <2>3. FlushedInv' /\ flushes' = flushes + 1
    BY <1>1, <2>1 DEF FlushedInv, FlushDone
  <2>4. PICK outcome \in Outcome :
          /\ \/ notified' = notified
             \/ Pending = 0 /\ notified' = Append(notified, cached)
          /\ outcome = "SENDING" =>
               /\ Len(wire') = Len(wire) + 1 /\ outgoing_queue' = outgoing_queue
               /\ pending_routing_parts' = IF Pending > 0 THEN Pending - 1 ELSE 0
               /\ notified' = IF Pending = 0 THEN Append(notified, cached) ELSE notified
          /\ outcome = "QUEUEING" =>
               state = "NOTSENT" /\ outgoing_queue' = <<cached>> /\ wire' = wire
          /\ mishaps' = {} => mishaps = {} /\ outcome \in {"SENDING", "QUEUEING"}
    <3>1. CASE FlushFirst
      <4>1. PICK outcome \in State :
              /\ try_send_first_cached(outcome, TRUE)
              /\ outgoing_queue' = IF outcome = "QUEUEING" THEN <<cached>>
                                                           ELSE outgoing_queue
        BY <3>1 DEF FlushFirst
      <4>2. state = "NOTSENT" /\ outcome \in Outcome
        BY <3>1, <4>1 DEF FlushFirst, Outcome, try_send_first_cached, FirstOutcomes,
           OnBlock, SendResults
      <4>3. /\ \/ notified' = notified
               \/ Pending = 0 /\ notified' = Append(notified, cached)
            /\ outcome = "SENDING" =>
                 /\ Len(wire') = Len(wire) + 1
                 /\ pending_routing_parts' = IF Pending > 0 THEN Pending - 1 ELSE 0
                 /\ notified' = IF Pending = 0 THEN Append(notified, cached) ELSE notified
            /\ outcome # "SENDING" => wire' = wire /\ pending_routing_parts' = Pending
            /\ mishaps' = {} => mishaps = {} /\ outcome \in {"SENDING", "QUEUEING"}
        BY <1>1, <2>1, <4>1, <4>2, FirstEffect
      <4> QED
        BY <4>1, <4>2, <4>3
    <3>2. CASE FlushLast
      <4>1. do_send_one("ok", TRUE) /\ outgoing_queue' = outgoing_queue
        BY <3>2 DEF FlushLast
      <4>2. /\ Len(wire') = Len(wire) + 1 /\ mishaps' = mishaps
            /\ pending_routing_parts' = IF Pending > 0 THEN Pending - 1 ELSE 0
            /\ notified' = IF Pending = 0 THEN Append(notified, cached) ELSE notified
        BY <1>1, <2>1, <4>1, NextEffect
      <4>3. "SENDING" \in Outcome
        BY DEF Outcome
      <4>4. \/ notified' = notified
            \/ Pending = 0 /\ notified' = Append(notified, cached)
        BY <4>2
      <4> QED
        BY <4>1, <4>2, <4>3, <4>4
    <3> QED
      BY <1>4, <3>1, <3>2
  <2>5. RoutingInv'
    BY <1>1, <2>1, <2>4, NotifiedPayload DEF RoutingInv
  <2>6. CtorInv'
    <3>1. phase = "unwinding" => mishaps' # {}
      BY <1>1, <2>4 DEF CtorInv
    <3> QED
      BY <1>1, <3>1 DEF CtorInv
  <2>7. ASSUME mishaps' = {}, ~reused' PROVE GoodInv'
    <3>1. mishaps = {} /\ ~reused /\ outcome \in {"SENDING", "QUEUEING"}
      BY <1>1, <2>4, <2>7
    <3>2. phase = "open"
      BY <1>1, <3>1 DEF CtorInv
    <3>3. CASE outcome = "SENDING"
      <4>1. notified' = Payload(Len(wire))'
        BY <1>1, <2>1, <2>2, <2>4, <3>1, <3>2, <3>3, GoodTransmit
      <4>2. Queued' = <<>>
        BY <1>1, <2>2, <2>4, <3>3 DEF Queued
      <4> QED
        BY <2>1, <4>1, <4>2 DEF GoodInv
    <3>4. CASE outcome = "QUEUEING"
      <4>1. wire = <<>> /\ outgoing_queue' = <<cached>>
        BY <1>1, <2>1, <2>4, <3>4 DEF PlaceInv
      <4>2. notified = <<>>
        <5>1. Len(wire) = 0
          BY <4>1
        <5> QED
          BY <1>1, <2>2, <3>1, <5>1, PendingType, PayloadGrows DEF GoodInv
      <4>3. Len(notified') <= 1
        <5>1. Len(<<>>) = 0 /\ Len(Append(<<>>, cached)) = 1
          OBVIOUS
        <5>2. Len(notified') = 0 \/ Len(notified') = 1
          BY <2>4, <4>2, <5>1, Zenon
        <5>3. \A n : n = 0 \/ n = 1 => n <= 1
          OBVIOUS
        <5> QED
          BY <5>2, <5>3, Zenon
      <4>4. Queued' # <<>>
        BY <1>1, <2>2, <4>1 DEF Queued
      <4> QED
        BY <2>1, <4>3, <4>4 DEF GoodInv
    <3> QED
      BY <3>1, <3>3, <3>4
  <2>8. GoodInv'
    BY <2>7 DEF GoodInv
  <2> QED
    BY <2>3, <2>5, <2>6, <2>8 DEF ObserverInv
<1>5. CASE FlushRaises
  <2>1. /\ cached # NoPart /\ cached' \in {cached, NoPart}
        /\ UNCHANGED <<state, outgoing_queue, flushes>>
    BY <1>5 DEF FlushRaises, FirstRaises
  <2>2. /\ \/ notified' = notified
           \/ Pending = 0 /\ notified' = Append(notified, cached)
        /\ pending_routing_parts' = Pending /\ mishaps' # {}
    <3>1. CASE FirstRaises(TRUE)
      <4>1. PICK outcome \in {"blocked", "error"} : try_send_first_cached(outcome, TRUE)
        BY <3>1 DEF FirstRaises
      <4> QED
        BY <1>1, <2>1, <4>1, FirstEffect DEF Outcome
    <3>2. CASE \E r \in SendResults \ {"ok"} : do_send_one(r, TRUE)
      <4>1. PICK r \in SendResults \ {"ok"} : do_send_one(r, TRUE)
        BY <3>2
      <4>2. /\ notified' = IF Pending = 0 THEN Append(notified, cached) ELSE notified
            /\ pending_routing_parts' = Pending /\ mishaps' # {}
        BY <1>1, <2>1, <4>1, NextEffect
      <4> QED
        BY <4>2
    <3> QED
      BY <1>5, <3>1, <3>2 DEF FlushRaises
  <2>3. \A i \in 1 .. Len(notified') : notified'[i] > envelope'
    BY <1>1, <2>1, <2>2, NotifiedPayload
  <2>4. RoutingInv'
    BY <1>1, <1>2, <2>1, <2>2, <2>3 DEF RoutingInv
  <2>5. FlushedInv' /\ CtorInv' /\ GoodInv'
    BY <1>1, <2>1, <2>2 DEF FlushedInv, CtorInv, GoodInv
  <2> QED
    BY <2>4, <2>5 DEF ObserverInv
<1> QED
  BY <1>3, <1>4, <1>5 DEF flush

\* Every step keeps the invariant.
LEMMA NextObserver ==
  ASSUME IInv, ObserverInv, [Next]_vars
  PROVE  ObserverInv'
<1>1. TypeOK /\ NewPart \in Slot /\ NoPart \in Slot
  BY DEF IInv, TypeOK, NewPart, NoPart, Slot
<1>2. ASSUME NEW owned \in {NewPart, NoPart}, send_owned(owned),
             phase \in {"ctor", "open"}
      PROVE  ObserverInv'
  <2>1. CtorInv' /\ FlushedInv'
    BY <1>1, <1>2, SendPhase
  <2>2. RoutingInv'
    BY <1>2, SendRoutingInv
  <2>3. mishaps' = {} /\ ~reused' => GoodInv'
    BY <1>2, SendGood
  <2>4. GoodInv'
    BY <2>3 DEF GoodInv
  <2> QED
    BY <2>1, <2>2, <2>4 DEF ObserverInv
<1>3. CASE SendRouting \/ Insert
  BY <1>2, <1>3 DEF SendRouting, Insert
<1>4. CASE \E i \in Linked : InsertLinked(i)
  <2>1. PICK i \in Linked : InsertLinked(i)
    BY <1>4
  <2>2. phase = "open" /\ \E owned \in {NewPart, NoPart} : send_owned(owned)
    BY <2>1 DEF InsertLinked
  <2> QED
    BY <1>2, <2>2
<1>5. CASE Flush
  BY <1>5, FlushObserver DEF Flush
<1>6. CASE Destroy
  BY <1>6, FlushObserver DEF Destroy
<1>7. CASE Detach
  <2>1. /\ UNCHANGED <<envelope, phase, state, cached, pending_routing_parts, wire,
                       notified, flushes, offered, reused, mishaps>>
        /\ detached' = outgoing_queue /\ outgoing_queue # <<>> /\ outgoing_queue' = <<>>
    BY <1>7 DEF Detach, config, socket, observer, history
  <2>2. detached = <<>> /\ Queued' = Queued
    BY <2>1 DEF IInv, PlaceInv, Queued
  <2>3. Payload(Len(wire))' = Payload(Len(wire))
    BY <2>1 DEF Payload
  <2>4. CtorInv' /\ RoutingInv' /\ FlushedInv'
    BY <2>1 DEF ObserverInv, CtorInv, RoutingInv, FlushedInv
  <2>5. GoodInv'
    BY <2>1, <2>2, <2>3 DEF ObserverInv, GoodInv
  <2> QED
    BY <2>4, <2>5 DEF ObserverInv
<1>8. CASE Terminate \/ UNCHANGED vars
  <2>1. UNCHANGED <<envelope, phase, state, cached, pending_routing_parts, wire,
                    notified, flushes, offered, reused, mishaps, detached,
                    outgoing_queue>>
    BY <1>8 DEF Terminate, vars, config, socket, observer, history
  <2>2. Queued' = Queued /\ Payload(Len(wire))' = Payload(Len(wire))
    BY <2>1 DEF Queued, Payload
  <2>3. CtorInv' /\ RoutingInv' /\ FlushedInv'
    BY <2>1 DEF ObserverInv, CtorInv, RoutingInv, FlushedInv
  <2>4. GoodInv'
    BY <2>1, <2>2 DEF ObserverInv, GoodInv
  <2> QED
    BY <2>3, <2>4 DEF ObserverInv
<1> QED
  BY <1>3, <1>4, <1>5, <1>6, <1>7, <1>8 DEF Next

\* The observer sees the payload and no routing part, each part sent once and in
\* order unless a send failed, and one on_flush after the last part; for every
\* option set, envelope and number of parts.
THEOREM ObserverThm == Spec => []ObserverExact
<1>1. Init => ObserverInv
  <2> SUFFICES ASSUME Init PROVE ObserverInv
    OBVIOUS
  <2>1. /\ envelope \in Nat /\ offered = 0 /\ cached = NoPart /\ state = "NOTSENT"
        /\ pending_routing_parts = 0 /\ flushes = 0 /\ notified = <<>> /\ wire = <<>>
        /\ Queued = <<>>
    BY EnvelopesAssumption DEF Init, Queued
  <2>2. Len(<<>>) = 0 /\ Payload(0) = <<>>
    <3>1. 0 \in Nat
      OBVIOUS
    <3> QED
      BY <2>1, <3>1, PayloadGrows
  <2>3. CtorInv
    BY <2>1 DEF Init, CtorInv
  <2>4. RoutingInv /\ FlushedInv
    BY <2>1, <2>2 DEF RoutingInv, FlushedInv
  <2>5. GoodInv
    BY <2>1, <2>2 DEF GoodInv, NoPart
  <2> QED
    BY <2>3, <2>4, <2>5 DEF ObserverInv
<1>2. IInv /\ ObserverInv /\ [Next]_vars => ObserverInv'
  BY NextObserver
<1>3. ASSUME IInv, ObserverInv PROVE ObserverExact
  <2>1. \A i \in 1 .. Len(notified) : notified[i] > envelope
    BY <1>3 DEF ObserverInv, RoutingInv
  <2>2. flushes <= 1 /\ (flushes = 1 => state = "FLUSHED")
    BY <1>3 DEF ObserverInv, FlushedInv
  <2>3. state = "FLUSHED" => cached = NoPart
    BY <1>3 DEF IInv, PlaceInv
  <2>4. mishaps = {} /\ ~reused =>
          IF Queued = <<>> THEN notified = Payload(Len(wire)) ELSE Len(notified) <= 1
    BY <1>3 DEF ObserverInv, GoodInv
  <2> QED
    BY <2>1, <2>2, <2>3, <2>4 DEF ObserverExact, Payload
<1> QED
  BY <1>1, <1>2, <1>3, Inductive, PTL DEF Spec

-----------------------------------------------------------------------------
(* What becomes of the parts of the message: an insertion does one of six   *)
(* things with them, and a flush one of four.                               *)

\* The held part goes out, as the last of the message or not.
Push(last) ==
  /\ state \in {"NOTSENT", "SENDING"} /\ cached # NoPart /\ ~ctx_term
  /\ wire' = Append(wire, [part |-> cached, more |-> ~last])
  /\ pending_routing_parts' = IF Pending > 0 THEN Pending - 1 ELSE 0
  /\ notified' = IF Pending = 0 THEN Append(notified, cached) ELSE notified
  /\ UNCHANGED <<outgoing_queue, mishaps>>

\* It stays where it is, and so do the others.
Rest == UNCHANGED <<wire, outgoing_queue>> /\ pending_routing_parts' = Pending

MayNotify ==
  \/ notified' = notified
  \/ cached # NoPart /\ Pending = 0 /\ notified' = Append(notified, cached)

Taken(owned) ==
  \/ /\ state \in {"NOTSENT", "SENDING"} /\ cached = NoPart
     /\ cached' = owned /\ Rest
     /\ UNCHANGED <<state, notified, mishaps>>
  \/ Push(FALSE) /\ state' = "SENDING" /\ cached' = owned
  \/ /\ state = "NOTSENT" /\ cached # NoPart
     /\ state' = "QUEUEING" /\ cached' = NoPart
     /\ outgoing_queue' = <<cached, owned>>
     /\ pending_routing_parts' = Pending
     /\ MayNotify /\ UNCHANGED <<wire, mishaps>>
  \/ /\ state = "QUEUEING" /\ outgoing_queue # <<>>
     /\ outgoing_queue' = Append(outgoing_queue, owned)
     /\ pending_routing_parts' = Pending
     /\ UNCHANGED <<state, cached, wire, notified, mishaps>>

\* The part inserted is not taken.
Refused ==
  /\ Rest /\ MayNotify /\ mishaps \subseteq mishaps'
  /\ cached' = cached \/ (cached' = NoPart /\ state = "NOTSENT" /\ "error" \in mishaps')
  /\ \/ /\ state \in {"NOTSENT", "SENDING"} /\ cached # NoPart
        /\ state' = state /\ mishaps' # {} /\ Raise
     \/ /\ state = "NOTSENT" /\ cached # NoPart
        /\ state' = "DROPPING" /\ mishaps' # {} /\ Return
     \/ state = "QUEUEING" /\ outgoing_queue = <<>> /\ state' = state /\ Abort
     \/ state \in {"DROPPING", "FLUSHED"} /\ state' = state /\ Return

\* The first send, whatever comes of it.
LEMMA FirstMove ==
  ASSUME NEW outcome \in Outcome, NEW last \in BOOLEAN, cached # NoPart,
         try_send_first_cached(outcome, last)
  PROVE  /\ MayNotify /\ mishaps \subseteq mishaps'
         /\ outcome = "SENDING" =>
              /\ ~ctx_term
              /\ wire' = Append(wire, [part |-> cached, more |-> ~last])
              /\ pending_routing_parts' = IF Pending > 0 THEN Pending - 1 ELSE 0
              /\ notified' = IF Pending = 0 THEN Append(notified, cached) ELSE notified
         /\ outcome # "SENDING" => wire' = wire /\ pending_routing_parts' = Pending
         /\ outcome \in {"SENDING", "QUEUEING"} => mishaps' = mishaps
         /\ outcome \notin {"SENDING", "QUEUEING"} => mishaps' # {}
         /\ outcome = "error" => "error" \in mishaps'
<1>1. outcome \in FirstOutcomes
  BY DEF try_send_first_cached
<1>2. OnBlock \in {"QUEUEING", "DROPPING", "blocked"}
  BY DEF OnBlock
<1>3. CASE "EMULATE_BLOCK_SENDS" \in options
  <2>1. outcome = OnBlock
    BY <1>1, <1>3 DEF FirstOutcomes
  <2> QED
    BY <1>2, <1>3, <2>1 DEF try_send_first_cached, MayNotify, MishapOf, NotSent
<1>4. CASE "EMULATE_BLOCK_SENDS" \notin options
  <2>1. PICK r \in SendResults :
          outcome = CASE r = "ok" -> "SENDING" [] r = "again" -> OnBlock
                      [] r = "error" -> "error"
    BY <1>1, <1>4 DEF FirstOutcomes
  <2>2. r \in {"ok", "again", "error"} /\ (ctx_term => r = "error")
    BY DEF SendResults
  <2>3. outcome \in {"SENDING", OnBlock, "error"} /\ (outcome = "SENDING" => ~ctx_term)
    BY <1>2, <2>1, <2>2
  <2>4. notify_on_send(cached)
    BY <1>4 DEF try_send_first_cached
  <2> QED
    BY <1>2, <2>3, <2>4 DEF try_send_first_cached, MayNotify, MishapOf, NotSent,
                            Transmit, notify_on_send
<1> QED
  BY <1>3, <1>4

\* The cases of send_owned, by what becomes of the parts.
LEMMA SendMoves ==
  ASSUME NEW owned, send_owned(owned)
  PROVE  (Taken(owned) /\ Return) \/ Refused
<1>1. ASSUME NoSend PROVE /\ wire' = wire /\ pending_routing_parts' = Pending
                          /\ UNCHANGED <<notified, mishaps>>
  BY <1>1 DEF NoSend, NotSent
<1>2. CASE HoldFirst(owned) \/ HoldAgain(owned)
  BY <1>1, <1>2 DEF HoldFirst, HoldAgain, Taken, Rest
<1>3. CASE SendFirst(owned)
  BY <1>3, FirstMove DEF Outcome, SendFirst, Taken, Push
<1>4. CASE QueueFirst(owned)
  <2>1. /\ MayNotify /\ wire' = wire /\ pending_routing_parts' = Pending
        /\ mishaps' = mishaps
    BY <1>4, FirstMove DEF Outcome, QueueFirst, MayNotify
  <2> QED
    BY <1>4, <2>1 DEF QueueFirst, Taken
<1>5. CASE DropFirst
  <2>1. /\ MayNotify /\ wire' = wire /\ pending_routing_parts' = Pending
        /\ mishaps \subseteq mishaps' /\ mishaps' # {}
    BY <1>5, FirstMove DEF Outcome, DropFirst, MayNotify
  <2> QED
    BY <1>5, <2>1 DEF DropFirst, Refused, Rest
<1>6. CASE state = "NOTSENT" /\ cached # NoPart /\ FirstRaises(FALSE) /\ Raise
  <2>1. CASE try_send_first_cached("blocked", FALSE) /\ cached' = cached
    <3>1. /\ MayNotify /\ wire' = wire /\ pending_routing_parts' = Pending
          /\ mishaps \subseteq mishaps' /\ mishaps' # {}
      BY <1>6, <2>1, FirstMove DEF Outcome, MayNotify
    <3> QED
      BY <1>6, <2>1, <3>1 DEF FirstRaises, Refused, Rest
  <2>2. CASE try_send_first_cached("error", FALSE) /\ cached' = NoPart
    <3>1. /\ MayNotify /\ wire' = wire /\ pending_routing_parts' = Pending
          /\ mishaps \subseteq mishaps' /\ "error" \in mishaps'
      BY <1>6, <2>2, FirstMove DEF Outcome, MayNotify
    <3> QED
      BY <1>6, <2>2, <3>1 DEF FirstRaises, Refused, Rest
  <2> QED
    BY <1>6, <2>1, <2>2 DEF FirstRaises
<1>7. CASE SendNext(owned)
  <2>1. ~ctx_term
    BY <1>7 DEF SendNext, do_send_one, SendResults
  <2> QED
    BY <1>7, <2>1 DEF SendNext, do_send_one, Taken, Push, Transmit, notify_on_send
<1>8. CASE NextRaises
  BY <1>8 DEF NextRaises, do_send_one, Refused, Rest, NotSent, MayNotify,
              notify_on_send
<1>9. CASE QueueNext(owned)
  BY <1>1, <1>9 DEF QueueNext, Taken
<1>10. CASE QueueGone \/ Ignore
  BY <1>1, <1>10 DEF QueueGone, Ignore, Refused, Rest, MayNotify
<1> QED
  BY <1>2, <1>3, <1>4, <1>5, <1>6, <1>7, <1>8, <1>9, <1>10 DEF send_owned

\* A flush that ends the message, and one that fails or has nothing to do.
Closed ==
  \/ Push(TRUE)
  \/ /\ state = "NOTSENT" /\ cached # NoPart
     /\ outgoing_queue' = <<cached>> /\ pending_routing_parts' = Pending
     /\ MayNotify /\ UNCHANGED <<wire, mishaps>>
  \/ /\ state # "DROPPING" /\ cached = NoPart /\ Rest
     /\ UNCHANGED <<notified, mishaps>>

NotClosed ==
  /\ Rest /\ MayNotify /\ mishaps \subseteq mishaps'
  /\ mishaps' # {} \/ state = "DROPPING"
  /\ \/ state' = "FLUSHED" /\ cached' = NoPart /\ state = "NOTSENT"
     \/ state' = state /\ cached' = cached
     \/ /\ state = "NOTSENT" /\ state' = state /\ cached' = NoPart
        /\ "error" \in mishaps'
  /\ UNCHANGED state => state \in {"NOTSENT", "SENDING", "DROPPING"}

\* The cases of flush, by what becomes of the parts.
LEMMA FlushMoves ==
  ASSUME TypeOK, PlaceInv, flush
  PROVE  (Closed /\ state' = "FLUSHED" /\ cached' = NoPart) \/ NotClosed
<1>1. ASSUME NoSend PROVE /\ wire' = wire /\ pending_routing_parts' = Pending
                          /\ UNCHANGED <<notified, mishaps>>
  BY <1>1 DEF NoSend, NotSent
<1>2. CASE FlushNothing
  <2>1. state' = "FLUSHED" /\ cached' = NoPart
    BY <1>2 DEF FlushNothing, FlushDone
  <2>2. CASE cached = NoPart
    BY <1>1, <1>2, <2>1, <2>2 DEF FlushNothing, Closed, Rest
  <2>3. CASE cached # NoPart /\ state \notin {"NOTSENT", "SENDING"}
    <3>1. state \notin {"QUEUEING", "FLUSHED", "DROPPING"}
      BY <1>2, <2>3 DEF FlushNothing, PlaceInv
    <3> QED
      BY <2>3, <3>1 DEF TypeOK, State
  <2> QED
    BY <1>2, <2>2, <2>3 DEF FlushNothing
<1>3. CASE FlushFirst
  <2>1. /\ state' = "FLUSHED" /\ cached' = NoPart
        /\ state = "NOTSENT" /\ cached # NoPart
    BY <1>3 DEF FlushFirst, FlushDone
  <2>2. PICK outcome \in State :
          /\ try_send_first_cached(outcome, TRUE)
          /\ outgoing_queue' = IF outcome = "QUEUEING" THEN <<cached>>
                                                       ELSE outgoing_queue
    BY <1>3 DEF FlushFirst
  <2>0. outcome \in Outcome
    BY <2>2 DEF Outcome, try_send_first_cached, FirstOutcomes, OnBlock, SendResults
  <2>3. CASE outcome = "SENDING"
    <3>1. Push(TRUE)
      BY <2>0, <2>1, <2>2, <2>3, FirstMove DEF Push
    <3> QED
      BY <2>1, <3>1 DEF Closed
  <2>4. CASE outcome = "QUEUEING"
    <3>1. /\ MayNotify /\ wire' = wire /\ pending_routing_parts' = Pending
          /\ mishaps' = mishaps
      BY <2>1, <2>2, <2>4, FirstMove DEF Outcome, MayNotify
    <3> QED
      BY <2>1, <2>2, <2>4, <3>1 DEF Closed
  <2>5. CASE outcome \notin {"SENDING", "QUEUEING"}
    <3>1. /\ MayNotify /\ wire' = wire /\ pending_routing_parts' = Pending
          /\ mishaps \subseteq mishaps' /\ mishaps' # {}
      BY <2>0, <2>1, <2>2, <2>5, FirstMove DEF MayNotify
    <3> QED
      BY <2>1, <2>2, <2>5, <3>1 DEF NotClosed, Rest
  <2> QED
    BY <2>3, <2>4, <2>5
<1>4. CASE FlushLast
  <2>1. ~ctx_term
    BY <1>4 DEF FlushLast, do_send_one, SendResults
  <2> QED
    BY <1>4, <2>1 DEF FlushLast, FlushDone, do_send_one, Closed, Push, Transmit,
                      notify_on_send
<1>5. CASE FlushRaises
  <2>1. CASE state = "NOTSENT" /\ try_send_first_cached("blocked", TRUE) /\ cached' = cached
    <3>1. /\ MayNotify /\ wire' = wire /\ pending_routing_parts' = Pending
          /\ mishaps \subseteq mishaps' /\ mishaps' # {}
      BY <1>5, <2>1, FirstMove DEF Outcome, FlushRaises, MayNotify
    <3> QED
      BY <1>5, <2>1, <3>1 DEF FlushRaises, FirstRaises, NotClosed, Rest
  <2>2. CASE state = "NOTSENT" /\ try_send_first_cached("error", TRUE) /\ cached' = NoPart
    <3>1. /\ MayNotify /\ wire' = wire /\ pending_routing_parts' = Pending
          /\ mishaps \subseteq mishaps' /\ "error" \in mishaps'
      BY <1>5, <2>2, FirstMove DEF Outcome, FlushRaises, MayNotify
    <3> QED
      BY <1>5, <2>2, <3>1 DEF FlushRaises, FirstRaises, NotClosed, Rest
  <2>3. CASE state = "SENDING"
    BY <1>5, <2>3 DEF FlushRaises, do_send_one, NotClosed, Rest, NotSent, MayNotify,
                      notify_on_send
  <2> QED
    BY <1>5, <2>1, <2>2, <2>3 DEF FlushRaises, FirstRaises
<1>6. CASE /\ state = "DROPPING"
           /\ NoSend /\ UNCHANGED <<state, cached, outgoing_queue, flushes>>
  BY <1>1, <1>6 DEF NotClosed, Rest, MayNotify
<1> QED
  BY <1>2, <1>3, <1>4, <1>5, <1>6 DEF flush
=============================================================================
