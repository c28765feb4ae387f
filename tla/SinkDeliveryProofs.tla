------------------------- MODULE SinkDeliveryProofs -------------------------
(***************************************************************************)
(* Sink implements Delivery for every number of parts, every envelope and  *)
(* every set of options that says what to do when the first send would     *)
(* block.  IInv (SinkProofs) says where the message is; WholeInv adds that *)
(* it is all there: the frames on the wire and the parts of the queue are  *)
(* 1, 2, ..., and only the part in cached_ is missing from them.           *)
(***************************************************************************)
EXTENDS SinkDelivery, SinkProofs

\* Without faults a Sink loses nothing but a message it drops.
CalmInv ==
  /\ ~reused /\ ~ctx_term /\ mishaps \subseteq {"drop"}
  /\ state \in {"NOTSENT", "SENDING", "QUEUEING"} => mishaps = {}
  /\ state = "DROPPING" => "drop" \in mishaps
  /\ state # "FLUSHED" => detached = <<>>

\* The parts 1 .. offered are on the wire, in the queue or in cached_.
PartsInv ==
  /\ \A i \in 1 .. Len(wire) : wire[i].part = i
  /\ state = "NOTSENT" => cached = offered /\ offered <= 1
  /\ state = "SENDING" => cached = offered /\ Len(wire) + 1 = offered
  /\ state = "QUEUEING" => outgoing_queue = D!Whole(offered)
  /\ state = "FLUSHED" /\ mishaps = {} =>
       \/ Queued = <<>> /\ Len(wire) = offered
       \/ Queued # <<>> /\ Queued = D!Whole(offered)

WholeInv == CalmInv /\ PartsInv

-----------------------------------------------------------------------------
(* One send, when nothing fails.                                            *)

\* No message is longer than it is: the numbers 1 .. n, and one more.
LEMMA WholeGrows ==
  ASSUME NEW n \in Nat
  PROVE  /\ D!Whole(0) = <<>>
         /\ Append(D!Whole(n), n + 1) = D!Whole(n + 1)
         /\ <<1>> = D!Whole(1) /\ <<1, 2>> = D!Whole(2)
<1>1. D!Whole(0) = <<>>
  BY DEF D!Whole
<1>2. Append(D!Whole(n), n + 1) = D!Whole(n + 1)
  BY DEF D!Whole
<1>3. <<1>> = D!Whole(1) /\ <<1, 2>> = D!Whole(2)
  BY DEF D!Whole
<1> QED
  BY <1>1, <1>2, <1>3

\* A socket that does not fail takes the part or would block.
LEMMA CalmResults ==
  ASSUME CalmInv
  PROVE  SendResults \subseteq (IF MidMessage \/ "NONBLOCK" \notin options
                                THEN {"ok"} ELSE {"ok", "again"})
BY NoFaults DEF CalmInv, SendResults

\* The options say what becomes of a first part that would block.
LEMMA CalmOutcomes ==
  ASSUME TypeOK, CalmInv
  PROVE  FirstOutcomes \subseteq {"SENDING", "QUEUEING", "DROPPING"}
<1>1. SendResults \subseteq (IF "NONBLOCK" \in options THEN {"ok", "again"} ELSE {"ok"})
  BY CalmResults
<1>2. {"NONBLOCK", "EMULATE_BLOCK_SENDS"} \cap options # {} =>
        OnBlock \in {"QUEUEING", "DROPPING"}
  BY BlockIsHandled DEF TypeOK, OnBlock
<1>3. CASE "EMULATE_BLOCK_SENDS" \in options
  BY <1>2, <1>3 DEF FirstOutcomes
<1>4. CASE "EMULATE_BLOCK_SENDS" \notin options
  <2>1. \A r \in SendResults :
          r = "ok" \/ (r = "again" /\ OnBlock \in {"QUEUEING", "DROPPING"})
    BY <1>1, <1>2
  <2> QED
    BY <1>4, <2>1 DEF FirstOutcomes
<1> QED
  BY <1>3, <1>4

\* cached_ goes out as the next frame.
LEMMA PartsGrow ==
  ASSUME TypeOK, \A i \in 1 .. Len(wire) : wire[i].part = i,
         cached = Len(wire) + 1, NEW last \in BOOLEAN, Transmit(cached, last)
  PROVE  /\ Len(wire') = Len(wire) + 1
         /\ \A i \in 1 .. Len(wire') : wire'[i].part = i
<1>1. cached \in Part /\ Len(wire) \in Nat
  BY DEF TypeOK, Slot, Part, NoPart
<1>2. /\ Len(wire') = Len(wire) + 1
      /\ wire'[Len(wire')] = [part |-> cached, more |-> ~last]
      /\ \A i \in 1 .. Len(wire) : wire'[i] = wire[i]
  BY <1>1, TransmitType DEF TypeOK
<1>3. wire'[Len(wire')].part = Len(wire) + 1
  BY <1>2
<1>4. \A i \in 1 .. Len(wire') : i = Len(wire') \/ i \in 1 .. Len(wire)
  BY <1>1, <1>2
<1> QED
  BY <1>1, <1>2, <1>3, <1>4

\* No later send fails, and no first send throws.
LEMMA NoneRaises ==
  ASSUME IInv, CalmInv, NEW last \in BOOLEAN
  PROVE  /\ ~(state = "NOTSENT" /\ FirstRaises(last))
         /\ ~(state = "SENDING" /\ \E r \in SendResults \ {"ok"} : do_send_one(r, last))
         /\ ~(state = "QUEUEING" /\ outgoing_queue = <<>>)
<1>1. ~FirstRaises(last)
  BY CalmOutcomes DEF FirstRaises, try_send_first_cached, IInv
<1>2. state = "SENDING" => SendResults \subseteq {"ok"}
  BY CalmResults DEF IInv, PlaceInv
<1>3. state = "QUEUEING" => outgoing_queue # <<>>
  BY DEF IInv, PlaceInv, CalmInv, Queued
<1> QED
  BY <1>1, <1>2, <1>3

-----------------------------------------------------------------------------
(* The steps.                                                               *)

\* What an insertion changes for a reader of the promise.
LEMMA SendWhole ==
  ASSUME IInv, WholeInv, send_owned(NewPart)
  PROVE  /\ WholeInv'
         /\ state = "FLUSHED" =>
              UNCHANGED <<state, offered, detached, outgoing_queue, wire, mishaps>>
         /\ state # "FLUSHED" =>
              offered' = offered + 1 /\ state' # "FLUSHED" /\ UNCHANGED detached
         /\ state = "DROPPING" => state' = "DROPPING"
<1> USE DEF WholeInv
<1>1. /\ TypeOK /\ offered \in Nat /\ cached \in Nat /\ Len(wire) \in Nat /\ state \in State
      /\ outgoing_queue \in Seq(Nat)
  BY DEF IInv, TypeOK, Slot
<1>2. /\ detached' = detached /\ ctx_term' = ctx_term
      /\ offered' = IF state = "FLUSHED" THEN offered ELSE offered + 1
      /\ ~reused'
  <2>1. NewPart # NoPart
    BY <1>1 DEF NewPart, NoPart
  <2>2. ~reused'
    BY <2>1 DEF send_owned, CalmInv
  <2> QED
    BY <2>2 DEF send_owned
<1>3. ASSUME NoSend PROVE wire' = wire /\ mishaps' = mishaps
  BY <1>3 DEF NoSend, NotSent
<1>4. CASE HoldFirst(NewPart)
  <2>1. /\ state = "NOTSENT" /\ state' = state /\ cached = NoPart /\ cached' = NewPart
        /\ wire' = wire /\ mishaps' = mishaps /\ outgoing_queue' = outgoing_queue
    BY <1>3, <1>4 DEF HoldFirst
  <2>2. wire = <<>> /\ offered = 0 /\ cached' = 1 /\ offered' = 1
    BY <1>1, <1>2, <2>1 DEF IInv, PlaceInv, PartsInv, NoPart, NewPart
  <2> QED
    BY <1>1, <1>2, <2>1, <2>2 DEF CalmInv, PartsInv
<1>5. CASE state = "NOTSENT" /\ cached # NoPart
  <2>1. offered = 1 /\ cached = 1 /\ NewPart = 2 /\ offered' = 2
        /\ wire = <<>> /\ mishaps = {} /\ Len(wire) = 0
    BY <1>1, <1>2, <1>5 DEF IInv, PlaceInv, CalmInv, PartsInv, NoPart, NewPart
  <2>2. CASE SendFirst(NewPart)
    <3>1. /\ state' = "SENDING" /\ cached' = NewPart
          /\ Transmit(cached, FALSE) /\ mishaps' = mishaps
      BY <2>2 DEF SendFirst, try_send_first_cached, MishapOf
    <3>2. cached = Len(wire) + 1 /\ \A i \in 1 .. Len(wire) : wire[i].part = i
      BY <2>1
    <3>3. Len(wire') = Len(wire) + 1 /\ \A i \in 1 .. Len(wire') : wire'[i].part = i
      BY <1>1, <3>1, <3>2, PartsGrow
    <3> QED
      BY <1>2, <1>5, <2>1, <3>1, <3>3 DEF CalmInv, PartsInv
  <2>3. CASE QueueFirst(NewPart)
    <3>1. /\ state' = "QUEUEING" /\ outgoing_queue' = <<cached, NewPart>>
          /\ wire' = wire /\ mishaps' = mishaps
      BY <2>3 DEF QueueFirst, try_send_first_cached, MishapOf, NotSent
    <3>2. outgoing_queue' = D!Whole(2)
      BY <2>1, <3>1, WholeGrows
    <3>3. (D!Whole(offered))' = D!Whole(2)
      BY <2>1 DEF D!Whole
    <3> QED
      BY <1>2, <1>5, <2>1, <3>1, <3>2, <3>3 DEF CalmInv, PartsInv
  <2>4. CASE DropFirst
    <3>1. state' = "DROPPING" /\ wire' = wire /\ mishaps' = {"drop"}
      BY <2>1, <2>4 DEF DropFirst, try_send_first_cached, MishapOf, NotSent
    <3> QED
      BY <1>2, <1>5, <2>1, <3>1 DEF CalmInv, PartsInv
  <2> QED
    BY <1>5, <2>2, <2>3, <2>4, NoneRaises
    DEF send_owned, HoldFirst, SendNext, NextRaises, HoldAgain, QueueNext, QueueGone, Ignore
<1>6. CASE SendNext(NewPart)
  <2>1. /\ state = "SENDING" /\ state' = state /\ cached' = NewPart
        /\ Transmit(cached, FALSE) /\ mishaps' = mishaps /\ cached = Len(wire) + 1
        /\ cached = offered
    BY <1>6 DEF SendNext, do_send_one, PartsInv
  <2>2. \A i \in 1 .. Len(wire) : wire[i].part = i
    BY DEF PartsInv
  <2>3. Len(wire') = Len(wire) + 1 /\ \A i \in 1 .. Len(wire') : wire'[i].part = i
    BY <1>1, <2>1, <2>2, PartsGrow
  <2> QED
    BY <1>1, <1>2, <2>1, <2>3 DEF CalmInv, PartsInv, NewPart
<1>7. CASE HoldAgain(NewPart)
  BY <1>1, <1>7 DEF HoldAgain, IInv, HeldInv, CalmInv
<1>8. CASE QueueNext(NewPart)
  <2>1. /\ state = "QUEUEING" /\ state' = state /\ wire' = wire /\ mishaps' = mishaps
        /\ outgoing_queue' = Append(outgoing_queue, offered + 1)
    BY <1>3, <1>8 DEF QueueNext, NewPart
  <2>2. outgoing_queue' = D!Whole(offered + 1)
    BY <1>1, <2>1, WholeGrows DEF PartsInv
  <2>3. (D!Whole(offered))' = D!Whole(offered + 1) /\ offered' = offered + 1
    BY <1>2, <2>1 DEF D!Whole
  <2>4. wire = <<>>
    BY <2>1 DEF IInv, PlaceInv
  <2> QED
    BY <1>1, <1>2, <2>1, <2>2, <2>3, <2>4 DEF CalmInv, PartsInv
<1>9. CASE Ignore
  <2>1. /\ state \in {"DROPPING", "FLUSHED"} /\ wire' = wire /\ mishaps' = mishaps
        /\ UNCHANGED <<state, cached, outgoing_queue>>
    BY <1>3, <1>9 DEF Ignore
  <2>2. CASE state = "DROPPING"
    BY <1>1, <1>2, <2>1, <2>2 DEF CalmInv, PartsInv
  <2>3. CASE state = "FLUSHED"
    <3>1. offered' = offered /\ Queued' = Queued /\ (D!Whole(offered))' = D!Whole(offered)
      BY <1>2, <2>1, <2>3 DEF Queued, D!Whole
    <3> QED
      BY <1>1, <1>2, <2>1, <2>3, <3>1 DEF CalmInv, PartsInv
  <2> QED
    BY <2>1, <2>2, <2>3
<1> QED
  BY <1>4, <1>5, <1>6, <1>7, <1>8, <1>9, NoneRaises
  DEF send_owned, SendFirst, QueueFirst, DropFirst, NextRaises, QueueGone

\* A flush decides an open message, and changes nothing of a decided one.
LEMMA FlushWhole ==
  ASSUME IInv, WholeInv, flush, UNCHANGED <<detached, ctx_term, offered, reused>>
  PROVE  /\ WholeInv'
         /\ state \in {"DROPPING", "FLUSHED"} =>
              UNCHANGED <<state, outgoing_queue, wire, mishaps>>
         /\ state \notin {"DROPPING", "FLUSHED"} => state' = "FLUSHED"
<1> USE DEF WholeInv
<1>1. /\ TypeOK /\ offered \in Nat /\ cached \in Nat /\ Len(wire) \in Nat /\ state \in State
  BY DEF IInv, TypeOK, Slot
<1>2. /\ detached' = detached /\ ctx_term' = ctx_term /\ offered' = offered
      /\ reused' = reused /\ ~reused /\ ~ctx_term
      /\ (D!Whole(offered))' = D!Whole(offered)
  BY DEF CalmInv, D!Whole
<1>3. ASSUME NoSend PROVE wire' = wire /\ mishaps' = mishaps
  BY <1>3 DEF NoSend, NotSent
<1>4. ASSUME outgoing_queue' = outgoing_queue PROVE Queued' = Queued
  BY <1>2, <1>4 DEF Queued
<1>5. CASE FlushNothing
  <2>1. /\ state # "DROPPING" /\ state' = "FLUSHED" /\ wire' = wire /\ mishaps' = mishaps
        /\ outgoing_queue' = outgoing_queue /\ Queued' = Queued
        /\ cached # NoPart => state \notin {"NOTSENT", "SENDING"}
    BY <1>3, <1>4, <1>5 DEF FlushNothing, FlushDone
  <2>2. CASE state = "NOTSENT"
    <3>1. wire = <<>> /\ Queued = <<>> /\ offered = 0
      BY <2>1, <2>2 DEF IInv, PlaceInv, PartsInv, NoPart
    <3> QED
      BY <1>1, <1>2, <2>1, <2>2, <3>1 DEF CalmInv, PartsInv
  <2>3. CASE state = "SENDING"
    BY <1>2, <2>1, <2>3 DEF IInv, HeldInv
  <2>4. CASE state = "QUEUEING"
    <3>1. Queued # <<>> /\ Queued = D!Whole(offered) /\ wire = <<>>
      BY <2>4 DEF IInv, PlaceInv, PartsInv, CalmInv, Queued
    <3> QED
      BY <1>1, <1>2, <2>1, <2>4, <3>1 DEF CalmInv, PartsInv
  <2>5. CASE state = "FLUSHED"
    BY <1>1, <1>2, <2>1, <2>5 DEF CalmInv, PartsInv
  <2> QED
    BY <1>1, <2>1, <2>2, <2>3, <2>4, <2>5 DEF State
<1>6. CASE FlushFirst
  <2>1. PICK outcome \in State :
          /\ try_send_first_cached(outcome, TRUE)
          /\ outgoing_queue' = IF outcome = "QUEUEING" THEN <<cached>>
                                                       ELSE outgoing_queue
    BY <1>6 DEF FlushFirst
  <2>2. state = "NOTSENT" /\ cached # NoPart /\ state' = "FLUSHED"
    BY <1>6 DEF FlushFirst, FlushDone
  <2>3. /\ offered = 1 /\ cached = 1 /\ mishaps = {} /\ wire = <<>> /\ Queued = <<>>
        /\ detached = <<>> /\ Len(wire) = 0
    BY <1>1, <2>2 DEF IInv, PlaceInv, CalmInv, PartsInv, NoPart
  <2>4. CASE outcome = "SENDING"
    <3>1. Transmit(cached, TRUE) /\ mishaps' = mishaps /\ Queued' = Queued
      BY <1>4, <2>1, <2>4 DEF try_send_first_cached, MishapOf
    <3>2. cached = Len(wire) + 1 /\ \A i \in 1 .. Len(wire) : wire[i].part = i
      BY <2>3
    <3>3. Len(wire') = Len(wire) + 1 /\ \A i \in 1 .. Len(wire') : wire'[i].part = i
      BY <1>1, <3>1, <3>2, PartsGrow
    <3> QED
      BY <1>2, <2>2, <2>3, <3>1, <3>3 DEF CalmInv, PartsInv
  <2>5. CASE outcome = "QUEUEING"
    <3>1. /\ wire' = wire /\ mishaps' = mishaps /\ Queued' = <<1>>
      BY <1>2, <2>1, <2>3, <2>5 DEF try_send_first_cached, MishapOf, NotSent, Queued
    <3>2. Queued' = D!Whole(offered) /\ Queued' # <<>>
      BY <2>3, <3>1, WholeGrows
    <3> QED
      BY <1>2, <2>2, <2>3, <3>1, <3>2 DEF CalmInv, PartsInv
  <2>6. CASE outcome = "DROPPING"
    <3>1. wire' = wire /\ mishaps' = {"drop"}
      BY <2>1, <2>3, <2>6 DEF try_send_first_cached, MishapOf, NotSent
    <3>2. mishaps' # {} /\ Len(wire') = 0
      BY <2>3, <3>1
    <3>3. CalmInv'
      BY <1>2, <2>2, <3>1 DEF CalmInv
    <3>4. PartsInv'
      BY <2>2, <3>2 DEF PartsInv
    <3> QED
      BY <2>2, <3>3, <3>4
  <2>7. outcome \in {"SENDING", "QUEUEING", "DROPPING"}
    BY <1>1, <2>1, CalmOutcomes DEF try_send_first_cached
  <2> QED
    BY <2>2, <2>4, <2>5, <2>6, <2>7
<1>7. CASE FlushLast
  <2>1. /\ state = "SENDING" /\ state' = "FLUSHED" /\ Transmit(cached, TRUE)
        /\ mishaps' = mishaps /\ Queued' = Queued
        /\ cached = Len(wire) + 1 /\ cached = offered
    BY <1>4, <1>7 DEF FlushLast, FlushDone, do_send_one, PartsInv
  <2>2. Queued = <<>> /\ \A i \in 1 .. Len(wire) : wire[i].part = i
    BY <2>1 DEF IInv, PlaceInv, PartsInv
  <2>3. Len(wire') = Len(wire) + 1 /\ \A i \in 1 .. Len(wire') : wire'[i].part = i
    BY <1>1, <2>1, <2>2, PartsGrow
  <2> QED
    BY <1>1, <1>2, <2>1, <2>2, <2>3 DEF CalmInv, PartsInv
<1>8. CASE /\ state = "DROPPING"
           /\ NoSend /\ UNCHANGED <<state, cached, outgoing_queue, flushes>>
  <2>1. /\ state = "DROPPING" /\ UNCHANGED <<state, outgoing_queue, wire, mishaps>>
    BY <1>3, <1>8
  <2> QED
    BY <1>1, <1>2, <2>1 DEF CalmInv, PartsInv
<1>9. ~FlushRaises
  BY NoneRaises DEF FlushRaises
<1> QED
  BY <1>5, <1>6, <1>7, <1>8, <1>9 DEF flush

\* A new Sink has no part anywhere.
LEMMA InitWhole == Init => WholeInv
<1> SUFFICES ASSUME Init PROVE WholeInv
  OBVIOUS
<1>1. /\ wire = <<>> /\ detached = <<>> /\ state = "NOTSENT" /\ cached = 0 /\ offered = 0
      /\ mishaps = {} /\ ~reused /\ ~ctx_term /\ Len(wire) = 0
  BY DEF Init, NoPart
<1> QED
  BY <1>1 DEF WholeInv, CalmInv, PartsInv

\* What a step changes for a reader of the promise: an insertion, a decision, a
\* hand-over, or nothing.
Inserts ==
  /\ state # "FLUSHED" /\ state' # "FLUSHED" /\ offered' = offered + 1
  /\ UNCHANGED detached /\ (state = "DROPPING" => state' = "DROPPING")
Decides ==
  /\ state \notin {"DROPPING", "FLUSHED"} /\ state' = "FLUSHED"
  /\ UNCHANGED <<offered, detached>>
HandsOver ==
  /\ state = "FLUSHED" /\ outgoing_queue # <<>> /\ detached' = outgoing_queue
  /\ UNCHANGED <<state, offered, wire, mishaps>>
Idles == UNCHANGED <<state, offered, detached, outgoing_queue, wire, mishaps>>

\* Every step of a Sink in which nothing fails keeps WholeInv.
LEMMA StepWhole ==
  ASSUME IInv, WholeInv, [Next]_vars
  PROVE  WholeInv' /\ (Inserts \/ Decides \/ HandsOver \/ Idles)
<1>1. CASE SendRouting \/ Insert \/ \E i \in Linked : InsertLinked(i)
  <2>1. send_owned(NewPart)
    BY <1>1, NoFaults DEF SendRouting, Insert, InsertLinked
  <2> QED
    BY <2>1, SendWhole DEF Inserts, Idles
<1>2. CASE Flush \/ Destroy
  <2>1. flush /\ UNCHANGED <<detached, ctx_term, offered, reused>>
    BY <1>2 DEF Flush, Destroy
  <2> QED
    BY <2>1, FlushWhole DEF Decides, Idles
<1>3. CASE Detach
  <2>1. HandsOver /\ UNCHANGED <<cached, ctx_term, reused>>
    BY <1>3, NoFaults DEF Detach, HandsOver, socket, history
  <2>2. Queued' = Queued /\ (D!Whole(offered))' = D!Whole(offered)
    BY <2>1 DEF HandsOver, Queued, IInv, PlaceInv, D!Whole
  <2> QED
    BY <2>1, <2>2 DEF HandsOver, WholeInv, CalmInv, PartsInv
<1>4. CASE Terminate
  BY <1>4, NoFaults DEF Terminate
<1>5. CASE UNCHANGED vars
  <2>1. Idles /\ UNCHANGED <<cached, ctx_term, reused>>
    BY <1>5 DEF vars, Idles, socket, history
  <2>2. Queued' = Queued /\ (D!Whole(offered))' = D!Whole(offered)
    BY <2>1 DEF Idles, Queued, D!Whole
  <2> QED
    BY <2>1, <2>2 DEF Idles, WholeInv, CalmInv, PartsInv
<1> QED
  BY <1>1, <1>2, <1>3, <1>4, <1>5 DEF Next

-----------------------------------------------------------------------------
(* The promise, read off a state.                                           *)

Promised ==
  /\ state \in {"NOTSENT", "SENDING", "QUEUEING"} => fate = "open"
  /\ state = "DROPPING" => fate = "dropped"
  /\ state = "FLUSHED" =>
       /\ fate \in {"dropped", "handed", "queued", "sent"}
       /\ fate = "handed" <=> detached # <<>>
       /\ fate # "queued" => outgoing_queue = <<>>
       /\ fate = "queued" => outgoing_queue = D!Whole(offered)
  /\ delivered = IF fate = "sent" THEN D!Whole(offered) ELSE <<>>

\* The invariants give what a step of Delivery needs.
LEMMA PromisedInv == IInv /\ WholeInv => Promised
<1> SUFFICES ASSUME IInv, WholeInv PROVE Promised
  OBVIOUS
<1>1. state \in State /\ wire \in Seq(Frame) /\ offered \in Nat
  BY DEF IInv, TypeOK
<1>2. CASE state \in {"NOTSENT", "SENDING", "QUEUEING"}
  BY <1>2 DEF IInv, Framing, Promised, fate, delivered
<1>3. CASE state = "DROPPING"
  BY <1>3 DEF IInv, Framing, Promised, fate, delivered
<1>4. CASE state = "FLUSHED" /\ mishaps # {}
  <2>1. "drop" \in mishaps
    BY <1>4 DEF WholeInv, CalmInv
  <2>2. wire = <<>> /\ Queued = <<>>
    BY <2>1 DEF IInv, PlaceInv
  <2>3. detached = <<>> /\ outgoing_queue = <<>>
    BY <2>2 DEF Queued
  <2> QED
    BY <1>4, <2>1, <2>2, <2>3 DEF Promised, fate, delivered, Terminated
<1>5. CASE state = "FLUSHED" /\ mishaps = {} /\ Queued # <<>>
  <2>1. wire = <<>> /\ Queued = D!Whole(offered) /\ (outgoing_queue = <<>> \/ detached = <<>>)
    BY <1>5 DEF IInv, PlaceInv, WholeInv, PartsInv
  <2>2. CASE detached # <<>>
    BY <1>5, <2>1, <2>2 DEF Promised, fate, delivered, Terminated
  <2>3. CASE detached = <<>>
    BY <1>5, <2>1, <2>3 DEF Promised, fate, delivered, Terminated, Queued
  <2> QED
    BY <2>2, <2>3
<1>6. CASE state = "FLUSHED" /\ mishaps = {} /\ Queued = <<>>
  <2>1. detached = <<>> /\ outgoing_queue = <<>>
    BY <1>6 DEF Queued
  <2>2. Len(wire) = offered /\ \A i \in 1 .. Len(wire) : wire[i].part = i
    BY <1>6 DEF WholeInv, PartsInv
  <2>3. fate = "sent"
    BY <1>6, <2>1 DEF fate
  <2>4. delivered = D!Whole(offered)
    <3>1. CASE wire = <<>>
      <4>1. offered = 0 /\ delivered = <<>>
        BY <2>2, <3>1 DEF delivered, Terminated
      <4> QED
        BY <4>1, WholeGrows
    <3>2. CASE wire # <<>>
      <4>1. Terminated
        BY <1>6, <3>2 DEF IInv, HeldInv, WholeInv, CalmInv, MidMessage, Terminated
      <4>2. delivered = [i \in 1 .. Len(wire) |-> wire[i].part]
        BY <4>1 DEF delivered
      <4> QED
        BY <2>2, <4>2 DEF D!Whole
    <3> QED
      BY <3>1, <3>2
  <2> QED
    BY <1>6, <2>1, <2>3, <2>4 DEF Promised
<1> QED
  BY <1>1, <1>2, <1>3, <1>4, <1>5, <1>6 DEF State

\* Each step of the Sink is one step of the promise, or none.
LEMMA StepPromised ==
  ASSUME IInv, WholeInv, IInv', WholeInv', Promised, Promised',
         Inserts \/ Decides \/ HandsOver \/ Idles
  PROVE  [D!Next]_D!vars
<1>1. /\ state \in State /\ state' \in State
      /\ state # "FLUSHED" => detached = <<>>
      /\ state' # "FLUSHED" => detached' = <<>>
  BY DEF IInv, TypeOK, WholeInv, CalmInv
<1>2. CASE Inserts
  <2>1. CASE state' = "DROPPING"
    <3>1. fate' = "dropped" /\ delivered' = <<>> /\ delivered = <<>>
          /\ fate \in {"open", "dropped"} /\ detached' = detached /\ offered' = offered + 1
      BY <1>1, <1>2, <2>1 DEF Promised, Inserts, State
    <3>2. D!Drop \/ D!Offer
      BY <3>1 DEF D!Drop, D!Offer
    <3> QED
      BY <3>2 DEF D!Next
  <2>2. CASE state' # "DROPPING"
    <3>1. fate' = "open" /\ delivered' = <<>> /\ delivered = <<>>
          /\ fate = "open" /\ detached' = detached /\ offered' = offered + 1
      BY <1>1, <1>2, <2>2 DEF Promised, Inserts, State
    <3>2. D!Offer
      BY <3>1 DEF D!Offer
    <3> QED
      BY <3>2 DEF D!Next
  <2> QED
    BY <2>1, <2>2
<1>3. CASE Decides
  <2>1. /\ fate = "open" /\ delivered = <<>> /\ fate' \in {"dropped", "queued", "sent"}
        /\ offered' = offered /\ detached' = detached
        /\ delivered' = IF fate' = "sent" THEN (D!Whole(offered))' ELSE <<>>
    BY <1>1, <1>3 DEF Promised, Decides, State
  <2>2. (D!Whole(offered))' = D!Whole(offered)
    BY <2>1 DEF D!Whole
  <2>3. D!Send \/ D!Queue \/ D!Drop
    BY <2>1, <2>2 DEF D!Send, D!Queue, D!Drop
  <2> QED
    BY <2>3 DEF D!Next
<1>4. CASE HandsOver
  <2>1. /\ fate = "queued" /\ delivered = <<>> /\ detached' = D!Whole(offered)
        /\ offered' = offered /\ detached' # <<>> /\ state' = "FLUSHED"
    BY <1>4 DEF Promised, HandsOver
  <2>2. fate' = "handed" /\ delivered' = <<>>
    BY <2>1 DEF Promised
  <2>3. D!HandOver
    BY <2>1, <2>2 DEF D!HandOver
  <2> QED
    BY <2>3 DEF D!Next
<1>5. CASE Idles
  BY <1>5 DEF Idles, D!vars, fate, delivered, Queued, Terminated
<1> QED
  BY <1>2, <1>3, <1>4, <1>5

\* An Outgoing keeps the promise of Delivery: a message is decided once and for
\* all its parts, and what a peer or the caller gets is the whole of it, in the
\* order of insertion (FI 289-345, Sink.hpp 120-160).
THEOREM Refines == Spec => Implements
<1>1. Init => IInv /\ WholeInv /\ D!Init
  <2>1. Init => D!Init
    BY DEF Init, D!Init, fate, delivered, Terminated
  <2> QED
    BY <2>1, InitInv, InitWhole
<1>2. IInv /\ WholeInv /\ [Next]_vars => IInv' /\ WholeInv'
  BY StepInv, StepWhole
<1>3. (IInv /\ WholeInv => Promised)'
  BY PromisedInv, PTL
<1>4. IInv /\ WholeInv /\ [Next]_vars => [D!Next]_D!vars
  <2> SUFFICES ASSUME IInv, WholeInv, [Next]_vars PROVE [D!Next]_D!vars
    OBVIOUS
  <2>1. IInv' /\ WholeInv' /\ (Inserts \/ Decides \/ HandsOver \/ Idles)
    BY StepInv, StepWhole
  <2>2. Promised /\ Promised'
    BY <1>3, <2>1, PromisedInv
  <2> QED
    BY <2>1, <2>2, StepPromised
<1> QED
  BY <1>1, <1>2, <1>4, PTL DEF Spec, Implements, D!Spec
=============================================================================
