---------------------------- MODULE ReplyProofs ----------------------------
(***************************************************************************)
(* The worker of Reply, for every envelope, linked part, option set, fault *)
(* and number of replies and releases.                                     *)
(*                                                                         *)
(* RelayInv is about the source socket alone: the frames that are left on  *)
(* relay_src are those behind the ones taken, and ZMQ_RCVMORE is set as    *)
(* long as frames of the request are among them.  RInv is the inductive    *)
(* invariant of everything else, in three layers.  TypeInv: the types and  *)
(* the invariant of Sink.  OneInv: the reply in hand, that is, where the   *)
(* parts inserted are in the Sink, how the envelope goes in front of them  *)
(* and what the observer knows of them.  AllInv: the finished replies, and *)
(* what of them the kept queues and the messages of the peers hold.        *)
(* SpotInv, at the end, is the one for OnePlace.                           *)
(***************************************************************************)
EXTENDS Reply, SinkProofs, FiniteSetTheorems

\* The request on relay_src, n parts, and the first part of the one after it.
TailFrame(n, i) ==
  IF i <= n THEN [part |-> Of("tail", i), more |-> i < n]
            ELSE [part |-> Of("next", 1), more |-> FALSE]

\* k parts of the request were taken.
Relayed(n, k) ==
  /\ relayed = [i \in 1 .. k |-> Of("tail", i)]
  /\ source = [i \in 1 .. n + 1 - k |-> TailFrame(n, i + k)]
  /\ rcvmore = (k < n)

RelayInv == \E n \in Tails : \E k \in 0 .. n : Relayed(n, k)

\* At the start no part has been taken from relay_src.
LEMMA InitRelayed == ReplyInit => RelayInv
<1> SUFFICES ASSUME ReplyInit PROVE RelayInv
  OBVIOUS
<1>1. PICK n \in Tails :
        /\ source = [i \in 1 .. n + 1 |->
                       IF i <= n THEN [part |-> Of("tail", i), more |-> i < n]
                                 ELSE [part |-> Of("next", 1), more |-> FALSE]]
        /\ rcvmore = (n > 0)
  BY DEF ReplyInit
<1>2. n \in Nat
  BY TailsAssumption
<1>3. relayed = <<>>
  BY DEF ReplyInit
<1>4. <<>> = [i \in 1 .. 0 |-> Of("tail", i)]
  OBVIOUS
<1>5. source = [i \in 1 .. n + 1 - 0 |-> TailFrame(n, i + 0)]
  BY <1>1, <1>2 DEF TailFrame
<1>6. rcvmore = (0 < n)
  BY <1>1, <1>2
<1> QED
  BY <1>2, <1>3, <1>4, <1>5, <1>6 DEF RelayInv, Relayed

\* An iteration of relay_from takes the next part of the request.
LEMMA RelayTakes ==
  ASSUME RelayInv, RelayFrom
  PROVE  RelayInv'
<1>1. PICK n \in Tails : \E k \in 0 .. n : Relayed(n, k)
  BY DEF RelayInv
<1>0. PICK k \in 0 .. n : Relayed(n, k)
  BY <1>1
<1>2. n \in Nat /\ k \in Nat /\ k < n
  <2>1. rcvmore /\ rcvmore = (k < n)
    BY <1>0 DEF RelayFrom, MayRelay, Relayed
  <2>2. k < n
    BY <2>1, Zenon
  <2> QED
    BY <2>2, TailsAssumption
<1> DEFINE frames == [i \in 1 .. n + 1 - k |-> TailFrame(n, i + k)]
<1>3. /\ source = frames /\ Len(frames) = n + 1 - k
      /\ Head(frames) = TailFrame(n, 1 + k)
      /\ Tail(frames) = [i \in 1 .. n + 1 - (k + 1) |-> TailFrame(n, i + (k + 1))]
  <2>1. source = frames
    BY <1>0 DEF Relayed
  <2>2. DOMAIN frames = 1 .. n + 1 - k /\ n + 1 - k \in Nat
    BY <1>2
  <2>3. Len(frames) = n + 1 - k
    BY <2>2
  <2>4. Head(frames) = frames[1]
    OBVIOUS
  <2>5. frames[1] = TailFrame(n, 1 + k)
    BY <1>2
  <2>0. frames \in Seq([part : Id, more : BOOLEAN])
    BY <1>2 DEF TailFrame, Id, Of, Origin
  <2>6. Tail(frames) = [i \in 1 .. Len(frames) - 1 |-> frames[i + 1]]
    BY <2>0, <2>2, <2>3
  <2>7. \A i \in 1 .. n + 1 - (k + 1) : frames[i + 1] = TailFrame(n, i + (k + 1))
    BY <1>2
  <2>8. Len(frames) - 1 = n + 1 - (k + 1)
    BY <2>3, <1>2
  <2> QED
    BY <2>1, <2>3, <2>4, <2>5, <2>6, <2>7, <2>8
<1> HIDE DEF frames
<1>4. TailFrame(n, 1 + k) = [part |-> Of("tail", k + 1), more |-> k + 1 < n]
  BY <1>2 DEF TailFrame
<1>5. source' = Tail(frames) /\ rcvmore' = (k + 1 < n)
  BY <1>3, <1>4 DEF RelayFrom
<1>6. relayed' = Append([i \in 1 .. k |-> Of("tail", i)], Of("tail", k + 1))
  BY <1>0, <1>3, <1>4 DEF RelayFrom, Relayed
<1>7. Append([i \in 1 .. k |-> Of("tail", i)], Of("tail", k + 1))
        = [i \in 1 .. k + 1 |-> Of("tail", i)]
  BY <1>2
<1>8. Relayed(n, k + 1)'
  BY <1>3, <1>5, <1>6, <1>7 DEF Relayed
<1>9. k + 1 \in 0 .. n
  BY <1>2
<1> QED
  BY <1>8, <1>9 DEF RelayInv

\* Nothing else touches relay_src.
LEMMA OthersLeaveSource ==
  ASSUME [ReplyNext]_replyVars
  PROVE  RelayFrom \/ UNCHANGED <<source, rcvmore, relayed>>
<1>1. CASE ReplyRouting
  BY <1>1 DEF ReplyRouting
<1>2. ASSUME NEW i \in Linked, ReplyLinked(i) \/ LinkedGone(i)
      PROVE  UNCHANGED <<source, rcvmore, relayed>>
  BY <1>2 DEF ReplyLinked, LinkedGone, request, past
<1>3. CASE ReplyOwn \/ ReplyFlush \/ ReplyDetach
  BY <1>3 DEF ReplyOwn, ReplyFlush, ReplyDetach, request, past
<1>4. CASE ReplyDestroy \/ NextReply
  BY <1>4 DEF ReplyDestroy, NextReply, request
<1>5. CASE ResendPart \/ ResendFails \/ ResendGone
  BY <1>5 DEF ResendPart, ResendFails, ResendGone, request, past
<1>6. CASE Release \/ ReplyTerminate
  BY <1>6 DEF Release, ReplyTerminate, request, past
<1>7. CASE UNCHANGED replyVars
  BY <1>7 DEF replyVars, request, past
<1> QED
  BY <1>1, <1>2, <1>3, <1>4, <1>5, <1>6, <1>7 DEF ReplyNext

\* The rest of the request is relayed in order and without a part of the next
\* message, whatever throws in between and however often relay_from is called.
THEOREM RelayStopsThm == ReplySpec => []RelayStops
<1>1. RelayInv /\ [ReplyNext]_replyVars => RelayInv'
  <2> SUFFICES ASSUME RelayInv, [ReplyNext]_replyVars PROVE RelayInv'
    OBVIOUS
  <2>1. CASE RelayFrom
    BY <2>1, RelayTakes
  <2>2. CASE UNCHANGED <<source, rcvmore, relayed>>
    BY <2>2 DEF RelayInv, Relayed
  <2> QED
    BY <2>1, <2>2, OthersLeaveSource
<1>2. RelayInv => RelayStops
  BY TailsAssumption DEF RelayInv, Relayed, RelayStops
<1> QED
  BY <1>1, <1>2, InitRelayed, PTL DEF ReplySpec

\* What relay_from takes is a part of the request.
LEMMA NextFrame ==
  ASSUME RelayInv, RelayFrom
  PROVE  Head(source).part.from = "tail"
<1>1. PICK n \in Tails : \E k \in 0 .. n : Relayed(n, k)
  BY DEF RelayInv
<1>2. PICK k \in 0 .. n : Relayed(n, k)
  BY <1>1
<1>3. n \in Nat /\ k \in Nat /\ k < n
  <2>1. rcvmore /\ rcvmore = (k < n)
    BY <1>2 DEF RelayFrom, MayRelay, Relayed
  <2>2. k < n
    BY <2>1, Zenon
  <2> QED
    BY <2>2, TailsAssumption
<1>4. source[1] = TailFrame(n, 1 + k)
  BY <1>2, <1>3 DEF Relayed
<1>5. Head(source) = source[1]
  OBVIOUS
<1> QED
  BY <1>3, <1>4, <1>5 DEF TailFrame, Of

-----------------------------------------------------------------------------
(* The Sink in the hands of the worker.  An invalid part is inserted only    *)
(* while nothing else has been: that is what the shape of routing shows, and *)
(* it is why a reply, unlike a Sink in general, is never left in the middle. *)

Alive == phase \in {"ctor", "open", "unwinding"}

\* send() is called between two Outgoing objects, on a queue that has parts.
KeptInv ==
  /\ \A q \in DOMAIN queues : queues[q].parts # <<>>
  /\ queues # <<>> => sending < Len(Newest.parts)
  /\ sending > 0 => ~Alive /\ peers # <<>>

TypeInv ==
  /\ ReplyTypeOK /\ IInv /\ KeptInv /\ RelayInv
  /\ \A i \in 1 .. Len(notified) : notified[i] <= offered

\* The envelope leaves the Incoming from its front.
ShapeInv ==
  /\ \A i, j \in 1 .. envelope : i < j /\ ~routing[j] => ~routing[i]
  /\ phase = "ctor" => offered < envelope /\ state # "FLUSHED"
  /\ phase = "open" => offered >= envelope
  /\ phase = "unwinding" => offered <= envelope
  /\ phase = "ctor" /\ ~Copy /\ state # "DROPPING" =>
       \A i \in 1 .. envelope : i <= offered => ~routing[i]
  /\ phase = "ctor" /\ ~Copy /\ (cached # NoPart \/ state # "NOTSENT") =>
       \A j \in 1 .. envelope : j > offered => routing[j]

HeldAlways ==
  /\ state = "SENDING" => cached # NoPart
  /\ state = "FLUSHED" => ~MidMessage
  /\ state = "DROPPING" => mishaps # {}

\* An insertion by the constructor, of a part of the envelope.
OfEnvelope(owned, part) ==
  /\ owned = IF routing[NewPart] \/ Copy THEN NewPart ELSE NoPart
  /\ part = IF routing[NewPart] THEN Of("routing", NewPart)
            ELSE IF Copy THEN Empty ELSE Gone
  /\ routing' = RoutingAfter(NewPart) /\ incoming' = incoming
  /\ copied' = IF Copy THEN copied \cup {Of("routing", NewPart)} ELSE copied

\* An insertion by the worker, of a part of the request or of another one.
OfPayload(part) ==
  /\ routing' = routing /\ part.from # "routing"
  /\ \/ part.from # "request" /\ UNCHANGED <<incoming, copied>>
     \/ \E i \in Linked :
          /\ incoming[i] /\ part = Of("request", i)
          /\ incoming' = IF ~Copy /\ Moved(NewPart)
                         THEN [incoming EXCEPT ![i] = FALSE] ELSE incoming
          /\ copied' = IF Copy THEN copied \cup {part} ELSE copied

\* One insertion, whatever part it is of.
Inserts(owned, part) ==
  /\ phase \in {"ctor", "open"}
  /\ send_owned(owned) /\ Insertion(part)
  /\ (owned = NoPart) = (part = Gone)
  /\ incoming' \in [Linked -> BOOLEAN] /\ relaying' \in BOOLEAN
  /\ phase = "ctor" => OfEnvelope(owned, part)
  /\ phase = "open" => owned = NewPart /\ OfPayload(part)
  /\ copied' \subseteq Id
  /\ UNCHANGED <<resend, intact, composed, seen, released>>

Inserting == \E owned \in {NewPart, NoPart} : \E part \in Id : Inserts(owned, part)

\* Every step of the worker is one of these.
LEMMA Steps ==
  ASSUME TypeInv, [ReplyNext]_replyVars
  PROVE  \/ Inserting \/ ReplyFlush \/ ReplyDetach \/ ReplyDestroy \/ NextReply
         \/ ResendPart \/ ResendFails \/ ResendGone \/ (\E i \in Linked : LinkedGone(i))
         \/ Release \/ ReplyTerminate \/ UNCHANGED replyVars
<1>1. /\ incoming \in [Linked -> BOOLEAN] /\ relaying \in BOOLEAN
      /\ offered \in Nat /\ envelope \in Nat /\ copied \subseteq Id
      /\ routing \in [1 .. envelope -> BOOLEAN] /\ NewPart # NoPart
      /\ \A n \in Nat, o \in Origin : Of(o, n) \in Id
      /\ Gone \in Id /\ Empty \in Id /\ Gone # Empty
  BY SMTT(20), EnvelopesAssumption DEF TypeInv, ReplyTypeOK, TypeOK, Id, Of, NewPart, NoPart,
     Gone, Empty, Origin
<1>2. CASE ReplyRouting
  <2> DEFINE n == NewPart
  <2>1. n \in Nat /\ Of("routing", n) \in Id
    BY <1>1 DEF NewPart, Origin
  <2>2. Of("routing", n) # Gone /\ Empty # Gone
    BY DEF Of, Gone, Empty
  <2> DEFINE owned == IF routing[n] \/ Copy THEN n ELSE NoPart
             part == IF routing[n] THEN Of("routing", n)
                     ELSE IF Copy THEN Empty ELSE Gone
  <2>3. owned \in {NewPart, NoPart} /\ part \in Id /\ (owned = NoPart) = (part = Gone)
    BY <1>1, <2>1, <2>2
  <2>4. Inserts(owned, part)
    <3>1. copied' \subseteq Id
      BY <1>1, <1>2, <2>1 DEF ReplyRouting
    <3>2. /\ phase = "ctor" /\ send_owned(owned) /\ Insertion(part)
          /\ UNCHANGED <<incoming, relaying, resend, intact, composed, seen, released>>
          /\ OfEnvelope(owned, part)
      BY <1>2 DEF ReplyRouting, OfEnvelope
    <3> QED
      BY <1>1, <1>2, <2>3, <3>1, <3>2 DEF Inserts
  <2> QED
    BY <2>3, <2>4 DEF Inserting
<1>3. ASSUME NEW i \in Linked, ReplyLinked(i)
      PROVE  Inserting
  <2> DEFINE part == Of("request", i)
  <2>1. /\ send_owned(NewPart) /\ phase = "open" /\ Insertion(part) /\ incoming[i]
        /\ incoming' = IF ~Copy /\ Moved(NewPart)
                       THEN [incoming EXCEPT ![i] = FALSE] ELSE incoming
    BY <1>1, <1>3 DEF ReplyLinked, InsertLinked, Composing, Copy
  <2>2. part # Gone /\ part.from # "routing" /\ i \in Nat
    BY LinkedAssumption DEF Of, Gone
  <2>3. OfPayload(part)
    BY <1>3, <2>1, <2>2 DEF OfPayload, ReplyLinked, request
  <2>4. Inserts(NewPart, part)
    <3>1. copied' \subseteq Id
      BY <1>1, <1>3, <2>2 DEF ReplyLinked, Origin
    <3>2. incoming' \in [Linked -> BOOLEAN]
      BY <1>1, <2>1
    <3> QED
      BY <1>1, <1>3, <2>1, <2>2, <2>3, <3>1, <3>2 DEF Inserts, ReplyLinked, request
  <2> QED
    BY <1>1, <2>2, <2>4 DEF Inserting, Origin
<1>4. CASE ReplyOwn
  <2> DEFINE part == Of("caller", NewPart)
  <2>0. NewPart \in Nat /\ NewPart # 0
    BY <1>1 DEF NewPart
  <2>1. part # Gone /\ part.from = "caller" /\ part \in Id
    <3>1. part \in Id
      BY <1>1, <2>0 DEF Origin
    <3>2. part.from = "caller" /\ part.idx = NewPart /\ Gone.idx = 0
      BY DEF Of, Gone
    <3> QED
      BY <2>0, <3>1, <3>2
  <2>2. OfPayload(part)
    BY <1>4, <2>1 DEF OfPayload, ReplyOwn, Insert, request, past
  <2>3. Inserts(NewPart, part)
    BY <1>1, <1>4, <2>1, <2>2 DEF Inserts, ReplyOwn, Insert, Composing, request, past
  <2> QED
    BY <2>1, <2>3 DEF Inserting
<1>5. CASE RelayFrom
  <2> DEFINE frame == Head(source)
  <2>1. frame \in [part : Id, more : BOOLEAN]
    <3>1. source \in Seq([part : Id, more : BOOLEAN]) /\ source # <<>>
      BY <1>5 DEF RelayFrom, TypeInv, ReplyTypeOK
    <3> DEFINE R == [part : Id, more : BOOLEAN]
    <3> HIDE DEF R
    <3>2. \A s \in Seq(R) : s # <<>> => Head(s) \in R
      OBVIOUS
    <3> QED
      BY <3>1, <3>2 DEF R
  <2>2. frame.part.from = "tail"
    BY <1>5, NextFrame DEF TypeInv
  <2>3. frame.part # Gone
    <3>1. Gone.from = "caller"
      BY DEF Gone, Of
    <3> QED
      BY <2>2, <3>1
  <2>4. /\ phase = "open" /\ send_owned(NewPart) /\ Insertion(frame.part)
        /\ UNCHANGED <<incoming, routing, resend, intact, composed, seen, copied,
                       released>>
    BY <1>5 DEF RelayFrom
  <2>5. OfPayload(frame.part)
    BY <2>2, <2>4 DEF OfPayload
  <2>6. Inserts(NewPart, frame.part)
    <3>1. relaying' \in BOOLEAN
      BY <1>5 DEF RelayFrom
    <3> QED
      BY <1>1, <2>3, <2>4, <2>5, <3>1 DEF Inserts
  <2> QED
    BY <2>1, <2>6 DEF Inserting
<1> QED
  BY <1>2, <1>3, <1>4, <1>5 DEF ReplyNext

-----------------------------------------------------------------------------
(* The types, and the invariant of Sink, over all the replies.              *)

\* The operator Append, in the form the steps need.
LEMMA Appended ==
  ASSUME NEW S, NEW s \in Seq(S), NEW e \in S
  PROVE  /\ Append(s, e) \in Seq(S) /\ Len(Append(s, e)) = Len(s) + 1
         /\ Append(s, e)[Len(s) + 1] = e
         /\ \A i \in 1 .. Len(s) : Append(s, e)[i] = s[i]
         /\ \A i \in 1 .. Len(s) + 1 : i = Len(s) + 1 \/ i \in 1 .. Len(s)
         /\ Append(s, e) # <<>>
OBVIOUS

\* A sink that may notify keeps the type of the history of its observer.
LEMMA NotifiedGrows ==
  ASSUME TypeInv, TypeOK', MayNotify, offered <= offered'
  PROVE  \A i \in 1 .. Len(notified') : notified'[i] <= offered'
<1>1. /\ notified \in Seq(Part) /\ offered \in Nat /\ offered' \in Nat
      /\ cached \in Nat /\ cached <= offered
      /\ \A i \in 1 .. Len(notified) : notified[i] <= offered
  BY DEF TypeInv, IInv, OrderInv, TypeOK, Slot
<1>2. CASE notified' = notified
  <2>1. \A i \in 1 .. Len(notified) : notified[i] \in Nat
    BY <1>1 DEF Part
  <2> QED
    BY <1>1, <1>2, <2>1
<1>3. CASE cached # NoPart /\ notified' = Append(notified, cached)
  <2>1. \A i \in 1 .. Len(notified) : notified[i] \in Nat
    BY <1>1 DEF Part
  <2>2. cached \in Part
    BY <1>1, <1>3 DEF Part
  <2>3. /\ Len(notified') = Len(notified) + 1 /\ notified'[Len(notified) + 1] = cached
        /\ \A i \in 1 .. Len(notified) : notified'[i] = notified[i]
        /\ \A i \in 1 .. Len(notified) + 1 : i = Len(notified) + 1 \/ i \in 1 .. Len(notified)
    BY <1>1, <1>3, <2>2, Appended
  <2> QED
    BY <1>1, <2>1, <2>3
<1> QED
  BY <1>2, <1>3 DEF MayNotify

\* Push and Rest notify the held part or none.
LEMMA MovesNotify ==
  ASSUME NEW owned, Taken(owned) \/ Refused \/ Closed \/ NotClosed
  PROVE  MayNotify
BY DEF Taken, Refused, Closed, NotClosed, MayNotify, Push

\* What an insertion does to the composition.
LEMMA InsertContent ==
  ASSUME TypeInv, NEW owned \in {NewPart, NoPart}, NEW part \in Id,
         Inserts(owned, part)
  PROVE  /\ content' \in Seq(Id) /\ Len(content') = offered' /\ inserted' \in Seq(Id)
         /\ offered \in Nat /\ offered' \in Nat /\ offered <= offered'
         /\ \A s \in 1 .. offered : content'[s] = content[s]
         /\ state = "FLUSHED" => UNCHANGED <<offered, content, inserted>>
         /\ state # "FLUSHED" => /\ offered' = NewPart /\ content'[NewPart] = part
                                 /\ inserted' = IF owned = NoPart THEN inserted
                                                ELSE Append(inserted, part)
<1>1. /\ content \in Seq(Id) /\ Len(content) = offered /\ inserted \in Seq(Id)
      /\ offered \in Nat
  BY DEF TypeInv, ReplyTypeOK, TypeOK
<1>2. /\ offered' = IF state = "FLUSHED" THEN offered ELSE offered + 1
      /\ content' = IF state = "FLUSHED" THEN content ELSE Append(content, part)
      /\ inserted' = IF state = "FLUSHED" \/ part = Gone THEN inserted
                     ELSE Append(inserted, part)
      /\ (owned = NoPart) = (part = Gone)
  BY DEF Inserts, send_owned, Insertion
<1>3. CASE state = "FLUSHED"
  BY <1>1, <1>2, <1>3
<1>4. CASE state # "FLUSHED"
  <2>1. /\ content' \in Seq(Id) /\ Len(content') = offered + 1
        /\ content'[offered + 1] = part /\ \A s \in 1 .. offered : content'[s] = content[s]
    BY <1>1, <1>2, <1>4, Appended
  <2>2. inserted' \in Seq(Id)
    BY <1>1, <1>2, Appended
  <2>3. inserted' = IF owned = NoPart THEN inserted ELSE Append(inserted, part)
    BY <1>2, <1>4
  <2> QED
    BY <1>1, <1>2, <1>4, <2>1, <2>2, <2>3 DEF NewPart
<1> QED
  BY <1>3, <1>4

\* What an insertion does to the Sink.
LEMMA InsertSink ==
  ASSUME TypeInv, NEW owned \in {NewPart, NoPart}, NEW part \in Id,
         Inserts(owned, part)
  PROVE  IInv' /\ \A i \in 1 .. Len(notified') : notified'[i] <= offered'
<1>1. TypeOK /\ IInv /\ owned \in Slot /\ send_owned(owned)
  BY DEF TypeInv, IInv, TypeOK, NewPart, NoPart, Slot, Inserts
<1>2. TypeOK'
  BY <1>1, SendType DEF send_owned, config, TypeOK, Inserts
<1>3. IInv'
  BY <1>1, <1>2, SendInv DEF IInv
<1>4. MayNotify
  BY <1>1, SendMoves, MovesNotify
<1> QED
  BY <1>2, <1>3, <1>4, InsertContent, NotifiedGrows

\* What a flush does to the Sink, in an operation or in the destructor.
LEMMA FlushSink ==
  ASSUME TypeInv, flush, phase \in {"open", "unwinding"}, phase' \in {phase, "dead"},
         UNCHANGED <<config, incoming, detached, ctx_term, offered, reused>>
  PROVE  IInv' /\ \A i \in 1 .. Len(notified') : notified'[i] <= offered'
<1>1. TypeOK /\ IInv /\ PlaceInv
  BY DEF TypeInv, IInv
<1>2. TypeOK'
  BY <1>1, FlushType DEF config, TypeOK, Phase
<1>3. IInv'
  BY <1>1, <1>2, FlushInv DEF IInv
<1>4. MayNotify
  BY <1>1, FlushMoves, MovesNotify
<1>5. offered <= offered'
  BY <1>1 DEF TypeOK
<1> QED
  BY <1>2, <1>3, <1>4, <1>5, NotifiedGrows

\* relay_src keeps its type.
LEMMA RelayType ==
  ASSUME TypeInv, [ReplyNext]_replyVars
  PROVE  /\ RelayInv'
         /\ source' \in Seq([part : Id, more : BOOLEAN]) /\ rcvmore' \in BOOLEAN
         /\ relayed' \in Seq(Id)
<1> DEFINE R == [part : Id, more : BOOLEAN]
<1>1. source \in Seq(R) /\ rcvmore \in BOOLEAN /\ relayed \in Seq(Id) /\ RelayInv
  BY DEF TypeInv, ReplyTypeOK
<1>2. CASE UNCHANGED <<source, rcvmore, relayed>>
  BY <1>1, <1>2 DEF RelayInv, Relayed
<1>3. CASE RelayFrom
  <2>1. source # <<>> /\ source' = Tail(source)
    BY <1>3 DEF RelayFrom
  <2> HIDE DEF R
  <2>2. \A s \in Seq(R) : s # <<>> => Head(s) \in R /\ Tail(s) \in Seq(R)
    OBVIOUS
  <2>3. Head(source) \in R /\ source' \in Seq(R)
    BY <1>1, <2>1, <2>2
  <2>4. rcvmore' = Head(source).more /\ relayed' = Append(relayed, Head(source).part)
    BY <1>3 DEF RelayFrom
  <2>5. Head(source).more \in BOOLEAN /\ Head(source).part \in Id
    BY <2>3 DEF R
  <2>6. relayed' \in Seq(Id)
    BY <1>1, <2>4, <2>5, Appended
  <2> QED
    BY <1>1, <1>3, <2>3, <2>4, <2>5, <2>6, RelayTakes DEF R
<1> QED
  BY <1>2, <1>3, OthersLeaveSource

\* The parts behind some slots.
LEMMA QueueOfType ==
  ASSUME content \in Seq(Id), NEW slots \in Seq(Slot),
         \A i \in 1 .. Len(slots) : slots[i] <= Len(content)
  PROVE  /\ QueueOf(slots) \in Seq(Id) /\ Len(QueueOf(slots)) = Len(slots)
         /\ \A i \in 1 .. Len(slots) : QueueOf(slots)[i] = PartOf(slots[i])
<1>1. \A s \in Slot : s <= Len(content) => PartOf(s) \in Id
  <2>1. Gone \in Id
    BY DEF Gone, Id, Of, Origin
  <2>2. \A s \in Slot : s # NoPart /\ s <= Len(content) => content[s] \in Id
    BY DEF Slot, NoPart
  <2> QED
    BY <2>1, <2>2 DEF PartOf
<1>2. \A i \in 1 .. Len(slots) : slots[i] \in Slot
  OBVIOUS
<1>3. DOMAIN slots = 1 .. Len(slots) /\ Len(slots) \in Nat
  OBVIOUS
<1>4. QueueOf(slots) = [i \in 1 .. Len(slots) |-> PartOf(slots[i])]
  BY <1>3 DEF QueueOf
<1> QED
  BY <1>1, <1>2, <1>3, <1>4

\* The parts behind some frames.
PartsOf(frames) == [i \in DOMAIN frames |-> content[frames[i].part]]

\* They are parts, as many as there are frames.
LEMMA PartsOfType ==
  ASSUME content \in Seq(Id), NEW frames \in Seq(Frame),
         \A i \in 1 .. Len(frames) : frames[i].part <= Len(content)
  PROVE  /\ PartsOf(frames) \in Seq(Id) /\ Len(PartsOf(frames)) = Len(frames)
         /\ \A i \in 1 .. Len(frames) :
              /\ PartsOf(frames)[i] = content[frames[i].part]
              /\ frames[i].part \in 1 .. Len(content)
<1>1. \A i \in 1 .. Len(frames) : frames[i].part \in 1 .. Len(content)
  <2>1. \A i \in 1 .. Len(frames) : frames[i] \in Frame
    OBVIOUS
  <2> QED
    BY <2>1 DEF Frame, Part, NoPart
<1>2. /\ PartsOf(frames) = [i \in 1 .. Len(frames) |-> content[frames[i].part]]
      /\ Len(frames) \in Nat
  BY DEF PartsOf
<1> QED
  BY <1>1, <1>2

\* What is left of ReplyTypeOK when the Sink and relay_src are taken care of.
RestOK ==
  /\ relaying \in BOOLEAN
  /\ routing \in [1 .. envelope -> BOOLEAN]
  /\ content \in Seq(Id) /\ Len(content) = offered /\ inserted \in Seq(Id)
  /\ queues \in Seq([reply : Nat, parts : Seq(Id)])
  /\ sending \in Nat /\ (queues = <<>> => sending = 0)
  /\ peers \in Seq(Message)
  /\ intact \in BOOLEAN /\ composed \in Seq(Composed)
  /\ seen \subseteq (Nat \X Id)
  /\ copied \subseteq Id /\ released \subseteq Id

\* An insertion keeps the types.
LEMMA TypeInsert ==
  ASSUME TypeInv, Inserting
  PROVE  IInv' /\ RestOK' /\ KeptInv'
         /\ \A i \in 1 .. Len(notified') : notified'[i] <= offered'
<1>1. PICK owned \in {NewPart, NoPart}, part \in Id : Inserts(owned, part)
  BY DEF Inserting
<1>2. /\ ReplyTypeOK /\ KeptInv /\ TypeOK /\ envelope \in Nat
  BY EnvelopesAssumption DEF TypeInv, ReplyTypeOK, TypeOK
<1>3. phase \in {"ctor", "open"} /\ UNCHANGED <<resend, intact, composed, seen, released>>
      /\ relaying' \in BOOLEAN /\ copied' \subseteq Id /\ envelope' = envelope
  BY <1>1 DEF Inserts, send_owned, config
<1>4. routing' \in [1 .. envelope' -> BOOLEAN]
  <2>1. CASE phase = "ctor"
    <3>1. routing' = RoutingAfter(NewPart)
      BY <1>1, <2>1 DEF Inserts, OfEnvelope
    <3> QED
      BY <1>2, <1>3, <3>1 DEF RoutingAfter, ReplyTypeOK
  <2>2. CASE phase = "open"
    BY <1>1, <1>2, <1>3, <2>2 DEF Inserts, OfPayload, ReplyTypeOK
  <2> QED
    BY <1>3, <2>1, <2>2
<1>5. RestOK'
  BY <1>1, <1>2, <1>3, <1>4, InsertContent DEF RestOK, ReplyTypeOK, resend
<1>6. KeptInv'
  <2>1. sending = 0
    BY <1>2, <1>3 DEF KeptInv, Alive, ReplyTypeOK
  <2>2. UNCHANGED <<queues, sending, peers>>
    BY <1>3 DEF resend
  <2> QED
    BY <1>2, <2>1, <2>2 DEF KeptInv, Newest, Last
<1> QED
  BY <1>1, <1>5, <1>6, InsertSink

\* Only the destructor, of the operations that flush, changes more than the Sink.
LEMMA TypeFlush ==
  ASSUME TypeInv, ReplyFlush
  PROVE  IInv' /\ RestOK' /\ KeptInv'
         /\ \A i \in 1 .. Len(notified') : notified'[i] <= offered'
<1>1. /\ flush /\ phase = "open" /\ phase' = phase
      /\ UNCHANGED <<config, incoming, detached, ctx_term, offered, reused>>
      /\ UNCHANGED <<composition, request, resend, past>>
  BY DEF ReplyFlush, Flush
<1>2. RestOK'
  BY <1>1 DEF TypeInv, ReplyTypeOK, RestOK, config, composition, request, resend, past
<1>3. KeptInv'
  BY <1>1 DEF TypeInv, KeptInv, Newest, Last, resend, Alive
<1> QED
  BY <1>1, <1>2, <1>3, FlushSink

\* detach() makes a queue of the worker, with the number of the reply in hand.
LEMMA TypeDetach ==
  ASSUME TypeInv, ReplyDetach
  PROVE  IInv' /\ RestOK' /\ KeptInv'
         /\ \A i \in 1 .. Len(notified') : notified'[i] <= offered'
<1>1. /\ Detach /\ phase = "open" /\ phase' = phase /\ outgoing_queue # <<>>
      /\ offered' = offered /\ envelope' = envelope /\ notified' = notified
  BY DEF ReplyDetach, Detach, history, config, observer
<1>2. IInv'
  BY <1>1, StepInv DEF Next, TypeInv
<1>3. /\ outgoing_queue \in Seq(Slot)
      /\ \A i \in 1 .. Len(outgoing_queue) : outgoing_queue[i] <= offered
  <2>1. Queued = outgoing_queue
    BY <1>1 DEF Queued, TypeInv, IInv, PlaceInv
  <2> QED
    BY <2>1 DEF TypeInv, IInv, TypeOK, OrderInv
<1>4. /\ content \in Seq(Id) /\ Len(content) = offered
      /\ queues \in Seq([reply : Nat, parts : Seq(Id)])
      /\ composed \in Seq(Composed) /\ KeptInv /\ sending \in Nat
  BY DEF TypeInv, ReplyTypeOK
<1> DEFINE parts == QueueOf(outgoing_queue)
           Q == [reply : Nat, parts : Seq(Id)]
           entry == [reply |-> Current, parts |-> parts]
<1>5. parts \in Seq(Id) /\ Len(parts) = Len(outgoing_queue)
  BY <1>3, <1>4, QueueOfType
<1>6. parts # <<>>
  BY <1>1, <1>3, <1>5
<1>7. entry \in Q /\ entry.parts # <<>> /\ \A e \in Q : e.parts \in Seq(Id)
  BY <1>4, <1>5, <1>6 DEF Current
<1>8. queues' = Append(queues, entry)
  BY DEF ReplyDetach
<1> HIDE DEF entry, Q
<1>9. /\ queues' \in Seq(Q) /\ Len(queues') = Len(queues) + 1
      /\ queues'[Len(queues) + 1] = entry
      /\ \A i \in 1 .. Len(queues) : queues'[i] = queues[i]
      /\ \A i \in 1 .. Len(queues) + 1 : i = Len(queues) + 1 \/ i \in 1 .. Len(queues)
      /\ queues' # <<>>
  BY SMTT(20), <1>4, <1>7, <1>8, Appended DEF Q
<1>10. RestOK'
  BY <1>1, <1>9 DEF ReplyDetach, TypeInv, ReplyTypeOK, RestOK, composition, request,
                    past, Q
<1>11. KeptInv'
  <2>1. sending = 0 /\ sending' = sending
    BY <1>1, <1>4 DEF KeptInv, Alive, ReplyDetach
  <2>2. \A q \in DOMAIN queues' : queues'[q].parts # <<>>
    <3>1. DOMAIN queues = 1 .. Len(queues) /\ DOMAIN queues' = 1 .. Len(queues) + 1
      BY <1>4, <1>9 DEF Q
    <3> QED
      BY <1>4, <1>7, <1>9, <3>1 DEF KeptInv
  <2>3. Newest' = entry
    BY <1>9 DEF Newest, Last
  <2>4. 0 < Len(Newest'.parts)
    BY <1>7, <2>3
  <2> QED
    BY <2>1, <2>2, <2>4 DEF KeptInv
<1> QED
  BY <1>1, <1>2, <1>10, <1>11 DEF TypeInv

\* A Sink that is destroyed, with its frames as a message of dst_.
LEMMA DestroyEffect ==
  ASSUME TypeInv, ReplyDestroy
  PROVE  /\ IInv' /\ \A i \in 1 .. Len(notified') : notified'[i] <= offered'
         /\ PartsOf(wire') \in Seq(Id) /\ Len(PartsOf(wire')) = Len(wire')
         /\ \A i \in 1 .. Len(wire') :
              /\ PartsOf(wire')[i] = content[wire'[i].part]
              /\ wire'[i].part \in 1 .. offered
         /\ wire' = <<>> => peers' = peers
         /\ wire' # <<>> =>
              peers' = Append(peers, [reply |-> Current, parts |-> PartsOf(wire'),
                                      closed |-> Terminated'])
         /\ sending = 0
<1>1. /\ flush /\ phase \in {"open", "unwinding"} /\ phase' = "dead"
      /\ UNCHANGED <<config, incoming, detached, ctx_term, offered, reused>>
  BY DEF ReplyDestroy, Destroy
<1>2. IInv' /\ \A i \in 1 .. Len(notified') : notified'[i] <= offered'
  BY <1>1, FlushSink
<1>3. /\ wire' \in Seq(Frame)
      /\ \A i \in 1 .. Len(wire') : wire'[i].part <= offered'
  BY <1>2 DEF IInv, TypeOK, OrderInv
<1>4. content \in Seq(Id) /\ Len(content) = offered /\ offered' = offered
  BY <1>1 DEF TypeInv, ReplyTypeOK
<1>5. sending = 0
  BY <1>1 DEF TypeInv, KeptInv, Alive, ReplyTypeOK
<1>6. /\ PartsOf(wire') \in Seq(Id) /\ Len(PartsOf(wire')) = Len(wire')
      /\ \A i \in 1 .. Len(wire') :
           /\ PartsOf(wire')[i] = content[wire'[i].part]
           /\ wire'[i].part \in 1 .. Len(content)
  BY <1>3, <1>4, PartsOfType
<1> QED
  BY <1>2, <1>4, <1>5, <1>6 DEF ReplyDestroy, PartsOf

\* The destructor adds to composed, and to peers if something is on the wire.
LEMMA TypeDestroy ==
  ASSUME TypeInv, ReplyDestroy
  PROVE  IInv' /\ RestOK' /\ KeptInv'
         /\ \A i \in 1 .. Len(notified') : notified'[i] <= offered'
<1>1. /\ UNCHANGED <<composition, request, queues, sending, intact, copied, released>>
      /\ offered' = offered /\ envelope' = envelope /\ phase' = "dead"
  BY DEF ReplyDestroy, Destroy, config
<1>2. /\ content \in Seq(Id) /\ Len(content) = offered /\ inserted \in Seq(Id)
      /\ peers \in Seq(Message) /\ composed \in Seq(Composed) /\ intact \in BOOLEAN
      /\ seen \subseteq (Nat \X Id) /\ Current \in Nat
  BY DEF TypeInv, ReplyTypeOK, Current
<1>3. peers' \in Seq(Message)
  <2>1. CASE wire' = <<>>
    BY <1>2, <2>1, DestroyEffect
  <2>2. CASE wire' # <<>>
    <3> DEFINE m == [reply |-> Current, parts |-> PartsOf(wire'), closed |-> Terminated']
    <3>1. Terminated' \in BOOLEAN
      BY DestroyEffect DEF Terminated, IInv, TypeOK, Frame
    <3>2. m \in Message
      BY <1>2, <3>1, DestroyEffect DEF Message
    <3>3. peers' = Append(peers, m)
      BY <2>2, DestroyEffect
    <3> QED
      BY <1>2, <3>2, <3>3, Appended
  <2> QED
    BY <2>1, <2>2
<1>4. composed' \in Seq(Composed)
  <2> DEFINE c == [parts |-> inserted, intact |-> intact, clean |-> mishaps' = {},
                   failed |-> "error" \in mishaps', deleted |-> outgoing_queue' # <<>>]
  <2>1. c \in Composed
    BY <1>2 DEF Composed
  <2>2. composed' = Append(composed, c)
    BY DEF ReplyDestroy
  <2> QED
    BY <1>2, <2>1, <2>2, Appended
<1>5. seen' \subseteq (Nat \X Id)
  <2>1. /\ notified' \in Seq(Part)
        /\ \A i \in 1 .. Len(notified') : notified'[i] <= offered
    BY <1>1, DestroyEffect DEF IInv, TypeOK
  <2>2. \A i \in DOMAIN notified' : content[notified'[i]] \in Id
    <3> SUFFICES ASSUME NEW i \in DOMAIN notified' PROVE content[notified'[i]] \in Id
      OBVIOUS
    <3>1. notified'[i] \in Part /\ notified'[i] <= Len(content)
      BY <1>2, <2>1
    <3> QED
      BY <1>2, <3>1 DEF Part, NoPart
  <2>3. seen' = seen \cup {<<Current, content[notified'[i]]>> : i \in DOMAIN notified'}
    BY DEF ReplyDestroy
  <2> QED
    BY <1>2, <2>2, <2>3
<1>6. RestOK'
  BY <1>1, <1>3, <1>4, <1>5 DEF TypeInv, ReplyTypeOK, RestOK, composition, request
<1>7. KeptInv'
  BY <1>1, DestroyEffect DEF TypeInv, KeptInv, Newest, Last
<1> QED
  BY <1>6, <1>7, DestroyEffect

\* The next Outgoing starts from nothing.
LEMMA TypeNext ==
  ASSUME TypeInv, NextReply
  PROVE  IInv' /\ RestOK' /\ KeptInv'
         /\ \A i \in 1 .. Len(notified') : notified'[i] <= offered'
<1>1. /\ wire' = <<>> /\ outgoing_queue' = <<>> /\ detached' = <<>> /\ notified' = <<>>
      /\ state' = "NOTSENT" /\ cached' = 0 /\ offered' = 0 /\ mishaps' = {}
      /\ phase' \in {"ctor", "open"} /\ content' = <<>> /\ inserted' = <<>>
      /\ envelope' = envelope /\ sending = 0 /\ incoming' = incoming
      /\ ctx_term' = ctx_term /\ options' \in OptionSets
      /\ pending_routing_parts' = 0 /\ flushes' = 0 /\ reused' = FALSE
      /\ UNCHANGED <<request, resend, composed, seen, relayed, copied, released>>
      /\ intact' = (\A n \in 1 .. envelope : routing[n])
  BY DEF NextReply, NoPart, Between
<1>2. Queued' = <<>>
  BY <1>1 DEF Queued
<1>3. TypeOK'
  <2>1. /\ phase' \in Phase /\ state' \in State /\ cached' \in Slot
        /\ outgoing_queue' \in Seq(Slot) /\ detached' \in Seq(Slot)
        /\ wire' \in Seq(Frame) /\ notified' \in Seq(Part)
        /\ mishaps' \in SUBSET Mishap /\ offered' \in Nat /\ flushes' \in Nat
    BY <1>1 DEF Phase, State, Slot
  <2> QED
    BY <1>1, <2>1 DEF TypeInv, IInv, TypeOK
<1>4. IInv'
  BY <1>1, <1>2, <1>3 DEF IInv, PlaceInv, HeldInv, Framing, Terminated, OrderInv,
                          InOrder, NoPart
<1>5. RestOK'
  <2>1. content' \in Seq(Id) /\ Len(content') = 0 /\ inserted' \in Seq(Id)
    BY <1>1
  <2>2. intact' \in BOOLEAN
    BY <1>1
  <2> QED
    BY <1>1, <2>1, <2>2 DEF TypeInv, ReplyTypeOK, RestOK, request, resend
<1>6. KeptInv'
  BY <1>1 DEF TypeInv, KeptInv, Newest, Last, resend
<1> QED
  BY <1>1, <1>4, <1>5, <1>6

Kept == [reply : Nat, parts : Seq(Id)]

\* The queue that send() is given, and the part of it that it is at.
LEMMA NewestKept ==
  ASSUME TypeInv, queues # <<>>
  PROVE  /\ queues \in Seq(Kept) /\ Newest \in Kept /\ Len(queues) \in Nat \ {0}
         /\ DOMAIN queues = 1 .. Len(queues) /\ Newest = queues[Len(queues)]
         /\ Newest.parts \in Seq(Id) /\ Newest.reply \in Nat
         /\ sending \in Nat /\ sending < Len(Newest.parts)
         /\ Len(Newest.parts) \in Nat
         /\ NextPart \in Id
<1>1. queues \in Seq(Kept) /\ sending \in Nat /\ sending < Len(Newest.parts)
  BY DEF TypeInv, ReplyTypeOK, KeptInv, Kept
<1>2. /\ Len(queues) \in Nat \ {0} /\ Newest \in Kept /\ DOMAIN queues = 1 .. Len(queues)
      /\ Newest = queues[Len(queues)]
  <2>1. \A s \in Seq(Kept) : s # <<>> => Len(s) \in Nat \ {0} /\ s[Len(s)] \in Kept
                                         /\ DOMAIN s = 1 .. Len(s)
    OBVIOUS
  <2> QED
    BY <1>1, <2>1 DEF Newest, Last
<1>3. Newest.parts \in Seq(Id) /\ Newest.reply \in Nat
  BY <1>2 DEF Kept
<1>4. sending + 1 \in 1 .. Len(Newest.parts) /\ Len(Newest.parts) \in Nat
  BY <1>1, <1>3
<1>5. NextPart \in Id
  BY <1>3, <1>4 DEF NextPart
<1> QED
  BY <1>1, <1>2, <1>3, <1>4, <1>5

\* The queues without the newest.
LEMMA FrontKept ==
  ASSUME TypeInv, queues # <<>>
  PROVE  /\ Front(queues) \in Seq(Kept) /\ Len(Front(queues)) = Len(queues) - 1
         /\ DOMAIN Front(queues) = 1 .. Len(queues) - 1
         /\ \A q \in 1 .. Len(queues) - 1 :
              q \in 1 .. Len(queues) /\ q # Len(queues) /\ Front(queues)[q] = queues[q]
<1>1. queues \in Seq(Kept) /\ Len(queues) \in Nat \ {0}
  BY NewestKept
<1> DEFINE n == Len(queues) - 1
           front == [q \in 1 .. n |-> queues[q]]
<1>2. n \in Nat /\ \A q \in 1 .. n : q \in 1 .. Len(queues) /\ q # Len(queues)
  BY <1>1
<1>3. Front(queues) = front
  BY <1>1 DEF Front
<1>4. front \in Seq(Kept) /\ Len(front) = n
  <2>1. \A q \in 1 .. n : queues[q] \in Kept
    BY <1>1, <1>2
  <2> QED
    BY <1>2, <2>1
<1> QED
  BY <1>2, <1>3, <1>4

\* What send() does to the message it is sending.
LEMMA ResentEffect ==
  ASSUME TypeInv, ResendPart
  PROVE  /\ ~ctx_term /\ phase = "dead" /\ queues # <<>> /\ NextPart # Gone
         /\ Resent \in Message /\ Resent.parts \in Seq(Id)
         /\ Resent.reply = Newest.reply /\ Resent.closed = LastPart
         /\ sending = 0 => Resent.parts = <<NextPart>>
         /\ sending > 0 =>
              LET old == peers[Len(peers)].parts IN
              /\ Resent.parts = Append(old, NextPart) /\ old \in Seq(Id)
              /\ Len(Resent.parts) = Len(old) + 1
              /\ Resent.parts[Len(old) + 1] = NextPart
              /\ \A i \in 1 .. Len(old) : Resent.parts[i] = old[i]
         /\ peers' \in Seq(Message) /\ peers \in Seq(Message)
         /\ Len(peers') = IF sending = 0 THEN Len(peers) + 1 ELSE Len(peers)
         /\ Len(peers') \in Nat \ {0} /\ peers'[Len(peers')] = Resent
         /\ \A m \in 1 .. Len(peers') :
              m # Len(peers') => m \in 1 .. Len(peers) /\ peers'[m] = peers[m]
         /\ \A m \in 1 .. Len(peers) : m \in 1 .. Len(peers')
<1>1. queues # <<>> /\ phase = "dead" /\ "ok" \in ResendResults /\ NextPart # Gone
  BY DEF ResendPart, Resending
<1>2. ~ctx_term
  BY <1>1 DEF ResendResults
<1>3. /\ NextPart \in Id /\ Newest.reply \in Nat /\ sending \in Nat
      /\ sending < Len(Newest.parts) /\ Len(Newest.parts) \in Nat
  BY <1>1, NewestKept
<1>4. peers \in Seq(Message) /\ (sending > 0 => peers # <<>>)
  BY DEF TypeInv, ReplyTypeOK, KeptInv
<1>5. LastPart \in BOOLEAN
  BY DEF LastPart
<1>6. CASE sending = 0
  <2>1. /\ <<NextPart>> \in Seq(Id)
        /\ Resent = [reply |-> Newest.reply, closed |-> LastPart, parts |-> <<NextPart>>]
    BY <1>3, <1>6 DEF Resent
  <2>2. Resent \in Message
    BY <1>3, <1>5, <2>1 DEF Message
  <2>3. peers' = Append(peers, Resent)
    BY <1>6 DEF ResendPart
  <2>4. /\ peers' \in Seq(Message) /\ Len(peers') = Len(peers) + 1
        /\ peers'[Len(peers) + 1] = Resent
        /\ \A m \in 1 .. Len(peers) : peers'[m] = peers[m]
        /\ Len(peers) \in Nat
    BY <1>4, <2>2, <2>3, Appended
  <2> QED
    BY <1>1, <1>2, <1>6, <1>4, <2>1, <2>2, <2>4
<1>7. CASE sending > 0
  <2>1. Len(peers) \in Nat \ {0} /\ peers[Len(peers)] \in Message
    <3>1. \A s \in Seq(Message) : s # <<>> => Len(s) \in Nat \ {0} /\ s[Len(s)] \in Message
      OBVIOUS
    <3> QED
      BY <1>4, <1>7, <3>1
  <2> DEFINE old == peers[Len(peers)].parts
  <2>2. old \in Seq(Id)
    BY <2>1 DEF Message
  <2> HIDE DEF old
  <2>3. /\ Append(old, NextPart) \in Seq(Id) /\ Len(Append(old, NextPart)) = Len(old) + 1
        /\ Append(old, NextPart)[Len(old) + 1] = NextPart
        /\ \A i \in 1 .. Len(old) : Append(old, NextPart)[i] = old[i]
    BY <1>3, <2>2, Appended
  <2>0. sending # 0
    BY <1>3, <1>7
  <2>4. Resent = [reply |-> Newest.reply, closed |-> LastPart,
                  parts |-> Append(old, NextPart)]
    BY <2>0, Zenon DEF Resent, old
  <2>5. Resent \in Message /\ Resent.parts = Append(old, NextPart)
        /\ Resent.reply = Newest.reply /\ Resent.closed = LastPart
    BY <1>3, <1>5, <2>3, <2>4 DEF Message
  <2>6. peers' = [peers EXCEPT ![Len(peers)] = Resent]
    BY <1>7 DEF ResendPart
  <2>7. /\ peers' \in Seq(Message) /\ Len(peers') = Len(peers)
        /\ peers'[Len(peers)] = Resent
        /\ \A m \in 1 .. Len(peers) : m # Len(peers) => peers'[m] = peers[m]
    <3>1. \A s \in Seq(Message), e \in Message : s # <<>> =>
            LET t == [s EXCEPT ![Len(s)] = e] IN
              /\ t \in Seq(Message) /\ Len(t) = Len(s) /\ t[Len(s)] = e
              /\ \A m \in 1 .. Len(s) : m # Len(s) => t[m] = s[m]
      OBVIOUS
    <3> QED
      BY <1>4, <1>7, <2>5, <2>6, <3>1
  <2> QED
    BY <1>1, <1>2, <1>4, <1>7, <2>1, <2>2, <2>3, <2>5, <2>7 DEF old
<1> QED
  BY <1>3, <1>6, <1>7

\* What send() does to the queues.
LEMMA ResentQueues ==
  ASSUME TypeInv, ResendPart
  PROVE  /\ queues' \in Seq(Kept) /\ queues \in Seq(Kept)
         /\ LastPart => /\ Len(queues') = Len(queues) - 1 /\ sending' = 0
                        /\ \A q \in 1 .. Len(queues') :
                             /\ q \in 1 .. Len(queues) /\ q # Len(queues)
                             /\ queues'[q] = queues[q]
         /\ ~LastPart =>
              /\ Len(queues') = Len(queues) /\ sending' = sending + 1
              /\ queues'[Len(queues)].reply = Newest.reply
              /\ Len(queues'[Len(queues)].parts) = Len(Newest.parts)
              /\ queues'[Len(queues)].parts[sending + 1] = Empty
              /\ \A i \in 1 .. Len(Newest.parts) :
                   i # sending + 1 => queues'[Len(queues)].parts[i] = Newest.parts[i]
              /\ \A q \in 1 .. Len(queues') : q # Len(queues) => queues'[q] = queues[q]
              /\ sending + 1 < Len(Newest.parts)
<1>1. queues # <<>>
  BY DEF ResendPart, Resending
<1>2. /\ queues \in Seq(Kept) /\ Newest \in Kept /\ Len(queues) \in Nat \ {0}
      /\ Newest.parts \in Seq(Id) /\ sending \in Nat /\ Newest = queues[Len(queues)]
      /\ sending < Len(Newest.parts) /\ Len(Newest.parts) \in Nat
  BY <1>1, NewestKept
<1>3. CASE LastPart
  <2>1. queues' = Front(queues) /\ sending' = 0
    BY <1>3 DEF ResendPart, ResendDone
  <2>2. /\ queues' \in Seq(Kept) /\ Len(queues') = Len(queues) - 1
        /\ \A q \in 1 .. Len(queues) - 1 :
             q \in 1 .. Len(queues) /\ q # Len(queues) /\ queues'[q] = queues[q]
    BY <1>1, <2>1, FrontKept
  <2> QED
    BY <1>2, <1>3, <2>1, <2>2
<1>4. CASE ~LastPart
  <2>1. sending' = sending + 1
    BY <1>4 DEF ResendPart, ResendDone
  <2>2. sending + 1 < Len(Newest.parts)
    BY <1>2, <1>4 DEF LastPart
  <2> DEFINE last == [queues[Len(queues)] EXCEPT !.parts = [@ EXCEPT ![sending + 1] = Empty]]
  <2>3. queues' = [queues EXCEPT ![Len(queues)] = last]
    BY <1>4 DEF ResendPart, ResendDone, Sent
  <2>4. Empty \in Id
    BY DEF Empty, Id, Of, Origin
  <2> DEFINE parts == [Newest.parts EXCEPT ![sending + 1] = Empty]
  <2>5. /\ parts \in Seq(Id) /\ Len(parts) = Len(Newest.parts)
        /\ parts[sending + 1] = Empty
        /\ \A i \in 1 .. Len(Newest.parts) :
             i # sending + 1 => parts[i] = Newest.parts[i]
    BY <1>2, <2>2, <2>4
  <2>6. last.parts = parts /\ last.reply = Newest.reply
    BY <1>2 DEF Kept
  <2> HIDE DEF parts
  <2>7. last \in Kept
    BY <1>2, <2>5, <2>6 DEF Kept
  <2> HIDE DEF last
  <2>8. /\ queues' \in Seq(Kept) /\ Len(queues') = Len(queues)
        /\ queues'[Len(queues)] = last
        /\ \A q \in 1 .. Len(queues) : q # Len(queues) => queues'[q] = queues[q]
    BY <1>2, <2>3, <2>7
  <2> QED
    BY <1>2, <1>4, <2>1, <2>2, <2>5, <2>6, <2>8
<1> QED
  BY <1>3, <1>4

\* A sequence, element by element.
LEMMA SeqAt ==
  ASSUME NEW S, NEW s \in Seq(S)
  PROVE  /\ DOMAIN s = 1 .. Len(s) /\ Len(s) \in Nat
         /\ \A i \in 1 .. Len(s) : s[i] \in S
         /\ s # <<>> => Len(s) > 0 /\ Len(s) \in 1 .. Len(s) /\ 1 \in 1 .. Len(s)
OBVIOUS

\* The newest queue after a step.
LEMMA NewestNext ==
  ASSUME queues' \in Seq(Kept), queues' # <<>>
  PROVE  /\ Newest' = queues'[Len(queues')] /\ Len(queues') \in 1 .. Len(queues')
BY SeqAt DEF Newest, Last

\* A queue of the worker, field by field.
LEMMA KeptAt ==
  ASSUME NEW keep \in Seq(Kept)
  PROVE  /\ DOMAIN keep = 1 .. Len(keep) /\ Len(keep) \in Nat
         /\ \A q \in 1 .. Len(keep) :
              /\ keep[q] \in Kept /\ keep[q].parts \in Seq(Id) /\ keep[q].reply \in Nat
              /\ DOMAIN keep[q].parts = 1 .. Len(keep[q].parts)
              /\ Len(keep[q].parts) \in Nat
              /\ \A i \in 1 .. Len(keep[q].parts) : keep[q].parts[i] \in Id
<1>1. /\ DOMAIN keep = 1 .. Len(keep) /\ Len(keep) \in Nat
      /\ \A q \in 1 .. Len(keep) : keep[q] \in Kept
  BY SeqAt
<1>2. \A e \in Kept : e.parts \in Seq(Id) /\ e.reply \in Nat
  BY DEF Kept
<1>3. \A s \in Seq(Id) : /\ DOMAIN s = 1 .. Len(s) /\ Len(s) \in Nat
                         /\ \A i \in 1 .. Len(s) : s[i] \in Id
  BY SeqAt
<1> QED
  BY <1>1, <1>2, <1>3

\* send() tells the observer of a part of the queue it is sending.
LEMMA SeenType ==
  ASSUME TypeInv, queues # <<>>, Notify
  PROVE  seen' \subseteq (Nat \X Id)
<1>1. Newest.reply \in Nat /\ NextPart \in Id
  BY NewestKept
<1> QED
  BY <1>1 DEF Notify, TypeInv, ReplyTypeOK

\* A step of send(), the one that throws included, keeps the types.
LEMMA TypeResend ==
  ASSUME TypeInv, ResendPart
  PROVE  IInv' /\ RestOK' /\ KeptInv'
         /\ \A i \in 1 .. Len(notified') : notified'[i] <= offered'
<1>1. /\ UNCHANGED <<vars, request, composition, intact, composed, relayed, copied,
                     released>>
      /\ queues # <<>> /\ phase = "dead"
  BY DEF ResendPart, Resending
<1>2. /\ queues \in Seq(Kept) /\ Len(queues) \in Nat \ {0} /\ sending \in Nat
      /\ DOMAIN queues = 1 .. Len(queues)
  BY <1>1, NewestKept
<1>3. IInv' /\ \A i \in 1 .. Len(notified') : notified'[i] <= offered'
  <2>1. IInv'
    BY <1>1, StepInv DEF TypeInv
  <2> QED
    BY <1>1, <2>1 DEF TypeInv, vars, observer, history
<1>4. seen' \subseteq (Nat \X Id)
  BY <1>1, SeenType DEF ResendPart
<1>5. peers' \in Seq(Message) /\ peers' # <<>>
  BY ResentEffect
<1>6. queues' \in Seq(Kept) /\ DOMAIN queues' = 1 .. Len(queues')
  BY ResentQueues
<1>7. sending' \in Nat /\ (queues' = <<>> => sending' = 0)
  <2>1. CASE LastPart
    BY <2>1, ResentQueues
  <2>2. CASE ~LastPart
    <3>1. Len(queues') = Len(queues) /\ sending' = sending + 1
      BY <2>2, ResentQueues
    <3>2. queues' # <<>>
      BY <1>2, <3>1
    <3> QED
      BY <1>2, <3>1, <3>2
  <2> QED
    BY <2>1, <2>2
<1>8. /\ \A q \in DOMAIN queues' : queues'[q].parts # <<>>
      /\ queues' # <<>> => sending' < Len(queues'[Len(queues')].parts)
  <2>0. \A q \in 1 .. Len(queues) : queues[q].parts # <<>> /\ queues[q].parts \in Seq(Id)
    BY <1>2, KeptAt DEF TypeInv, KeptInv
  <2>1. CASE LastPart
    <3>1. \A q \in 1 .. Len(queues') : q \in 1 .. Len(queues)
                                       /\ queues'[q] = queues[q]
      BY <2>1, ResentQueues
    <3>2. \A q \in 1 .. Len(queues') : queues'[q].parts # <<>>
                                       /\ queues'[q].parts \in Seq(Id)
      BY <2>0, <3>1
    <3>3. queues' # <<>> => Len(queues') \in 1 .. Len(queues')
      BY <1>6, NewestNext
    <3>4. \A s \in Seq(Id) : s # <<>> => 0 < Len(s)
      OBVIOUS
    <3>5. queues' # <<>> => 0 < Len(queues'[Len(queues')].parts)
      BY <3>2, <3>3, <3>4
    <3>6. sending' = 0
      BY <2>1, ResentQueues
    <3> QED
      BY <1>6, <3>2, <3>5, <3>6
  <2>2. CASE ~LastPart
    <3>1. /\ Len(queues') = Len(queues) /\ sending' = sending + 1
          /\ Len(queues'[Len(queues)].parts) = Len(Newest.parts)
          /\ \A q \in 1 .. Len(queues') : q # Len(queues) => queues'[q] = queues[q]
          /\ sending + 1 < Len(Newest.parts)
      BY <2>2, ResentQueues
    <3>2. queues'[Len(queues)].parts # <<>>
      <4>1. Len(Newest.parts) \in Nat /\ sending \in Nat /\ sending < Len(Newest.parts)
        BY <1>1, NewestKept
      <4>2. Len(Newest.parts) # 0
        BY <4>1
      <4>3. Len(queues'[Len(queues)].parts) # 0
        BY <3>1, <4>2
      <4> QED
        BY <4>3
    <3>3. \A q \in 1 .. Len(queues') : queues'[q].parts # <<>>
      BY <1>2, <2>0, <3>1, <3>2
    <3>4. sending' < Len(queues'[Len(queues')].parts)
      BY <3>1
    <3>5. \A q \in DOMAIN queues' : queues'[q].parts # <<>>
      BY <1>6, <3>3
    <3> QED
      BY <3>4, <3>5
  <2> QED
    BY <2>1, <2>2
<1>9. KeptInv'
  <2>1. phase' = "dead"
    BY <1>1 DEF vars
  <2>2. queues' # <<>> => sending' < Len(Newest'.parts)
    BY <1>6, <1>8, NewestNext
  <2> QED
    BY <1>5, <1>8, <2>1, <2>2 DEF KeptInv, Alive
<1>10. RestOK'
  BY <1>1, <1>4, <1>5, <1>6, <1>7 DEF RestOK, TypeInv, ReplyTypeOK, vars, config,
     history, request, composition, Kept
<1> QED
  BY <1>3, <1>9, <1>10

\* The steps that leave the Sink and the queues alone, or end the program.
LEMMA TypeOther ==
  ASSUME TypeInv,
         ResendFails \/ ResendGone \/ (\E i \in Linked : LinkedGone(i))
         \/ ReplyTerminate \/ UNCHANGED replyVars
  PROVE  IInv' /\ RestOK' /\ KeptInv'
         /\ \A i \in 1 .. Len(notified') : notified'[i] <= offered'
<1>1. CASE UNCHANGED replyVars
  <2>1. IInv'
    BY <1>1, StepInv DEF TypeInv, replyVars
  <2> QED
    BY <1>1, <2>1 DEF replyVars, TypeInv, KeptInv, Newest, Last, Alive, RestOK,
       ReplyTypeOK, vars, config, socket, observer, history, request, composition,
       resend, past
<1>2. CASE ReplyTerminate
  <2>1. IInv'
    BY <1>2, StepInv DEF TypeInv, ReplyTerminate, Next
  <2> QED
    BY <1>2, <2>1 DEF ReplyTerminate, Terminate, TypeInv, KeptInv, Newest, Last, Alive,
       RestOK, ReplyTypeOK, config, observer, history, request, composition, resend, past
<1>3. CASE ResendFails
  <2>1. IInv' /\ queues # <<>>
    <3>1. /\ phase' = "aborted" /\ queues # <<>>
          /\ UNCHANGED <<config, state, cached, outgoing_queue, pending_routing_parts,
                         incoming, detached, socket, observer, history>>
      BY <1>3 DEF ResendFails, Resending
    <3>2. TypeOK'
      BY <3>1 DEF TypeInv, IInv, TypeOK, config, socket, observer, history, Phase
    <3>3. Queued' = Queued /\ wire' = wire
      BY <3>1 DEF Queued, socket
    <3> QED
      BY <3>1, <3>2, <3>3 DEF TypeInv, IInv, PlaceInv, HeldInv, Framing, OrderInv,
         InOrder, MidMessage, Terminated, socket, history
  <2>2. seen' \subseteq (Nat \X Id)
    BY <1>3, <2>1, SeenType DEF ResendFails
  <2>3. queues' = Front(queues) /\ sending' = 0 /\ phase' = "aborted"
    BY <1>3 DEF ResendFails
  <2>4. queues' \in Seq(Kept) /\ DOMAIN queues' = 1 .. Len(queues')
    BY <2>1, <2>3, FrontKept
  <2>5. \A q \in DOMAIN queues' : queues'[q].parts # <<>> /\ queues'[q].parts \in Seq(Id)
    <3>1. \A q \in 1 .. Len(queues') : q \in 1 .. Len(queues) /\ queues'[q] = queues[q]
      BY <2>1, <2>3, FrontKept
    <3>2. \A q \in 1 .. Len(queues) : queues[q].parts # <<>> /\ queues[q].parts \in Seq(Id)
      BY <2>1, NewestKept, KeptAt DEF TypeInv, KeptInv
    <3> QED
      BY <2>4, <3>1, <3>2
  <2>6. KeptInv'
    <3>1. ASSUME queues' # <<>> PROVE 0 < Len(Newest'.parts)
      <4>1. Newest'.parts # <<>> /\ Newest'.parts \in Seq(Id)
        BY <2>4, <2>5, <3>1, NewestNext
      <4> QED
        BY <4>1
    <3> QED
      BY <2>3, <2>5, <3>1 DEF KeptInv
  <2>7. RestOK'
    BY <1>3, <2>2, <2>3, <2>4 DEF ResendFails, TypeInv, RestOK, ReplyTypeOK, config,
       history, request, composition, Kept
  <2>8. UNCHANGED <<notified, offered>>
    BY <1>3 DEF ResendFails, observer, history
  <2> QED
    BY <2>1, <2>6, <2>7, <2>8 DEF TypeInv
<1>4. CASE ResendGone \/ \E i \in Linked : LinkedGone(i)
  <2>1. /\ phase' = "aborted" /\ phase \in {"open", "dead"}
        /\ UNCHANGED <<config, state, cached, outgoing_queue, pending_routing_parts,
                       incoming, detached, socket, observer, history, request,
                       composition, resend, past>>
    BY <1>4 DEF ResendGone, LinkedGone, Composing, Resending
  <2>2. IInv'
    <3>1. TypeOK'
      BY <2>1 DEF TypeInv, IInv, TypeOK, config, socket, observer, history, Phase
    <3>2. Queued' = Queued /\ wire' = wire
      BY <2>1 DEF Queued, socket
    <3> QED
      BY <2>1, <3>1, <3>2 DEF TypeInv, IInv, PlaceInv, HeldInv, Framing, OrderInv,
         InOrder, MidMessage, Terminated, socket, history
  <2> QED
    BY <2>1, <2>2 DEF TypeInv, KeptInv, Newest, Last, Alive, RestOK, ReplyTypeOK, config,
       observer, history, request, composition, resend, past
<1> QED
  BY <1>1, <1>2, <1>3, <1>4

\* A queue keeps its length and its reply when a part of it is released.
LEMMA ReleaseQueues ==
  ASSUME TypeInv, Release
  PROVE  /\ queues \in Seq(Kept) /\ queues' \in Seq(Kept) /\ Len(queues') = Len(queues)
         /\ \A q \in 1 .. Len(queues) :
              /\ queues'[q].reply = queues[q].reply
              /\ queues[q].parts \in Seq(Id) /\ queues'[q].parts \in Seq(Id)
              /\ Len(queues'[q].parts) = Len(queues[q].parts)
              /\ \A i \in 1 .. Len(queues[q].parts) :
                   queues'[q].parts[i] \in {queues[q].parts[i], Gone}
         /\ released \subseteq released' /\ released' \subseteq Id
         /\ incoming' \in [Linked -> BOOLEAN]
<1>1. /\ queues \in Seq(Kept) /\ released \subseteq Id /\ incoming \in [Linked -> BOOLEAN]
      /\ DOMAIN queues = 1 .. Len(queues) /\ Len(queues) \in Nat
  <2>1. /\ queues \in Seq(Kept) /\ released \subseteq Id
        /\ incoming \in [Linked -> BOOLEAN]
    BY DEF TypeInv, ReplyTypeOK, TypeOK, Kept
  <2> QED
    BY <2>1, KeptAt
<1>2. \A q \in 1 .. Len(queues) : queues[q] \in Kept /\ queues[q].parts \in Seq(Id)
  BY <1>1, KeptAt
<1>3. CASE UNCHANGED queues /\ \E i \in Linked :
             /\ incoming' = [incoming EXCEPT ![i] = FALSE]
             /\ released' = released \cup {Of("request", i)}
  <2>1. \A i \in Linked : Of("request", i) \in Id
    BY LinkedAssumption DEF Of, Id, Origin
  <2>2. PICK i \in Linked : /\ incoming' = [incoming EXCEPT ![i] = FALSE]
                            /\ released' = released \cup {Of("request", i)}
    BY <1>3
  <2>3. /\ released \subseteq released' /\ released' \subseteq Id
        /\ incoming' \in [Linked -> BOOLEAN]
    BY <1>1, <2>1, <2>2
  <2>4. queues' = queues
    BY <1>3
  <2> QED
    BY <1>1, <1>2, <2>3, <2>4
<1>4. ASSUME NEW q \in DOMAIN queues, NEW i \in DOMAIN queues[q].parts,
             queues' = [queues EXCEPT ![q].parts[i] = Gone],
             released' = released \cup {queues[q].parts[i]}, UNCHANGED incoming
      PROVE  /\ queues' \in Seq(Kept) /\ Len(queues') = Len(queues)
             /\ \A k \in 1 .. Len(queues) :
                  /\ queues'[k].reply = queues[k].reply
                  /\ Len(queues'[k].parts) = Len(queues[k].parts)
                  /\ queues'[k].parts \in Seq(Id)
                  /\ \A j \in 1 .. Len(queues[k].parts) :
                       queues'[k].parts[j] \in {queues[k].parts[j], Gone}
             /\ released' \subseteq Id
  <2> DEFINE parts == [queues[q].parts EXCEPT ![i] = Gone]
             entry == [queues[q] EXCEPT !.parts = [@ EXCEPT ![i] = Gone]]
  <2>1. Gone \in Id
    BY DEF Gone, Id, Of, Origin
  <2>2. queues[q].parts \in Seq(Id) /\ i \in 1 .. Len(queues[q].parts) /\ queues[q] \in Kept
        /\ queues[q].parts[i] \in Id
    BY <1>1, <1>2
  <2>3. /\ parts \in Seq(Id) /\ Len(parts) = Len(queues[q].parts)
        /\ \A j \in 1 .. Len(queues[q].parts) : parts[j] \in {queues[q].parts[j], Gone}
    BY <2>1, <2>2
  <2>4. entry.parts = parts /\ entry.reply = queues[q].reply /\ entry \in Kept
    BY <2>2, <2>3 DEF Kept
  <2>5. queues' = [queues EXCEPT ![q] = entry]
    BY <1>4
  <2> HIDE DEF parts, entry
  <2>6. /\ queues' \in Seq(Kept) /\ Len(queues') = Len(queues) /\ queues'[q] = entry
        /\ \A k \in 1 .. Len(queues) : k # q => queues'[k] = queues[k]
    BY <1>1, <2>4, <2>5
  <2> QED
    BY <1>1, <1>2, <1>4, <2>2, <2>3, <2>4, <2>6
<1> QED
  BY <1>1, <1>2, <1>3, <1>4 DEF Release

\* release() replaces a part of a queue, and nothing else.
LEMMA TypeRelease ==
  ASSUME TypeInv, Release
  PROVE  IInv' /\ RestOK' /\ KeptInv'
         /\ \A i \in 1 .. Len(notified') : notified'[i] <= offered'
<1>1. /\ UNCHANGED <<config, phase, state, cached, outgoing_queue,
                     pending_routing_parts, detached, socket, observer, history,
                     request, composition, sending, peers, intact, composed, seen,
                     relayed, copied>>
      /\ phase = "dead" /\ sending = 0
  BY DEF Release, Between
<1>2. /\ queues' \in Seq(Kept) /\ released' \subseteq Id
      /\ incoming' \in [Linked -> BOOLEAN]
  BY ReleaseQueues
<1>3. IInv'
  <2>1. TypeOK'
    BY <1>1, <1>2 DEF TypeInv, IInv, TypeOK, config, socket, observer, history
  <2>2. Queued' = Queued
    BY <1>1 DEF Queued
  <2> QED
    BY <1>1, <2>1, <2>2 DEF TypeInv, IInv, PlaceInv, HeldInv, Framing, OrderInv,
       InOrder, MidMessage, Terminated, socket, history
<1>4. RestOK'
  BY <1>1, <1>2 DEF TypeInv, RestOK, ReplyTypeOK, Kept, config, history, request,
                    composition
<1>5. /\ \A q \in DOMAIN queues' : queues'[q].parts # <<>>
      /\ queues' # <<>> => 0 < Len(queues'[Len(queues')].parts)
  <2>1. /\ queues \in Seq(Kept) /\ Len(queues') = Len(queues)
        /\ \A q \in 1 .. Len(queues) : Len(queues'[q].parts) = Len(queues[q].parts)
    BY ReleaseQueues
  <2>2. \A q \in 1 .. Len(queues) : Len(queues[q].parts) > 0
    <3> SUFFICES ASSUME NEW q \in 1 .. Len(queues) PROVE Len(queues[q].parts) > 0
      OBVIOUS
    <3>1. queues[q].parts \in Seq(Id) /\ q \in DOMAIN queues
      BY <2>1, KeptAt
    <3>2. queues[q].parts # <<>>
      BY <3>1 DEF TypeInv, KeptInv
    <3> QED
      BY <3>1, <3>2, SeqAt
  <2>3. DOMAIN queues' = 1 .. Len(queues)
    BY <1>2, <2>1, KeptAt
  <2>4. queues' # <<>> => Len(queues') \in 1 .. Len(queues)
    BY <1>2, <2>1, SeqAt
  <2>5. \A q \in 1 .. Len(queues) : Len(queues'[q].parts) > 0
    BY <2>1, <2>2
  <2>6. \A q \in 1 .. Len(queues) : queues'[q].parts # <<>>
    BY <2>5
  <2> QED
    BY <2>3, <2>4, <2>5, <2>6
<1>6. KeptInv'
  <2>1. queues' # <<>> => Newest' = queues'[Len(queues')]
    BY <1>2, NewestNext
  <2> QED
    BY <1>1, <1>5, <2>1 DEF KeptInv
<1> QED
  BY <1>1, <1>3, <1>4, <1>6 DEF TypeInv, observer, history

\* Every step keeps the types and the invariant of Sink.
LEMMA TypeStep ==
  ASSUME TypeInv, [ReplyNext]_replyVars
  PROVE  TypeInv'
<1>1. IInv' /\ RestOK' /\ KeptInv'
      /\ \A i \in 1 .. Len(notified') : notified'[i] <= offered'
  BY Steps, TypeInsert, TypeFlush, TypeDetach, TypeDestroy, TypeNext, TypeResend,
     TypeOther, TypeRelease
<1> QED
  BY <1>1, RelayType DEF TypeInv, ReplyTypeOK, RestOK, IInv

\* The types and the invariant of Sink hold at the start.
LEMMA InitTypeInv == ReplyInit => TypeInv
<1> SUFFICES ASSUME ReplyInit PROVE TypeInv
  OBVIOUS
<1>1. Init /\ IInv /\ TypeOK /\ RelayInv
  BY InitInv, InitRelayed DEF ReplyInit, IInv
<1>2. /\ content = <<>> /\ inserted = <<>> /\ queues = <<>> /\ peers = <<>>
      /\ composed = <<>> /\ relayed = <<>> /\ seen = {} /\ copied = {} /\ released = {}
      /\ intact = TRUE /\ relaying = FALSE /\ sending = 0
      /\ routing \in [1 .. envelope -> BOOLEAN] /\ offered = 0 /\ notified = <<>>
  BY DEF ReplyInit, Init
<1>3. source \in Seq([part : Id, more : BOOLEAN]) /\ rcvmore \in BOOLEAN
  <2>1. PICK n \in Tails :
          /\ source = [i \in 1 .. n + 1 |->
                         IF i <= n THEN [part |-> Of("tail", i), more |-> i < n]
                                   ELSE [part |-> Of("next", 1), more |-> FALSE]]
          /\ rcvmore = (n > 0)
    BY DEF ReplyInit
  <2>2. n \in Nat
    BY TailsAssumption
  <2> QED
    BY <2>1, <2>2 DEF Id, Of, Origin
<1>4. ReplyTypeOK
  <2>1. \A S : <<>> \in Seq(S)
    OBVIOUS
  <2>2. <<>> \in Seq(Id) /\ <<>> \in Seq(Message) /\ <<>> \in Seq(Composed) /\ Len(<<>>) = 0
    BY <2>1
  <2> QED
    BY <1>1, <1>2, <1>3, <2>1, <2>2 DEF ReplyTypeOK
<1> QED
  BY <1>1, <1>2, <1>4 DEF TypeInv, KeptInv

\* A worker never leaves its types, and the Sink in its hands keeps the invariant
\* of Sink, whatever replies it makes, keeps, resends and releases parts of.
THEOREM ReplyTypeThm == ReplySpec => []ReplyTypeOK
<1>1. TypeInv => ReplyTypeOK
  BY DEF TypeInv
<1> QED
  BY <1>1, InitTypeInv, TypeStep, PTL DEF ReplySpec

\* An invalid part is inserted only in front of everything else.
LEMMA OwnedUnlessFirst ==
  ASSUME TypeInv, ShapeInv, NEW owned \in {NewPart, NoPart}, NEW part \in Id,
         Inserts(owned, part)
  PROVE  /\ owned = NoPart => /\ phase = "ctor" /\ state = "NOTSENT" /\ cached = NoPart
                              /\ ~Copy /\ ~routing[NewPart]
         /\ phase = "ctor" => /\ offered < envelope /\ offered' = NewPart
                              /\ NewPart \in 1 .. envelope /\ state # "FLUSHED"
<1>1. offered \in Nat /\ envelope \in Nat /\ NewPart # NoPart
  BY EnvelopesAssumption DEF TypeInv, ReplyTypeOK, TypeOK, NewPart, NoPart
<1>2. phase = "ctor" => /\ offered < envelope /\ offered' = NewPart
                        /\ NewPart \in 1 .. envelope /\ state # "FLUSHED"
  BY <1>1 DEF ShapeInv, Inserts, send_owned, NewPart
<1>3. ASSUME owned = NoPart
      PROVE  /\ phase = "ctor" /\ state = "NOTSENT" /\ cached = NoPart
             /\ ~Copy /\ ~routing[NewPart]
  <2>1. phase = "ctor" /\ ~Copy /\ ~routing[NewPart]
    BY <1>1, <1>3 DEF Inserts, OfEnvelope
  <2>2. NewPart \in 1 .. envelope /\ NewPart > offered
    BY <1>1, <1>2, <2>1 DEF NewPart
  <2> QED
    BY <2>1, <2>2 DEF ShapeInv
<1> QED
  BY <1>2, <1>3

\* An insertion keeps the shape of the composition, and a message being sent holds a part back.
LEMMA ShapeInsert ==
  ASSUME TypeInv, ShapeInv, HeldAlways, Inserting
  PROVE  ShapeInv' /\ HeldAlways'
<1>1. PICK owned \in {NewPart, NoPart}, part \in Id : Inserts(owned, part)
  BY DEF Inserting
<1>2. /\ offered \in Nat /\ envelope \in Nat /\ cached \in Nat /\ cached <= offered
      /\ routing \in [1 .. envelope -> BOOLEAN] /\ state \in State
      /\ NewPart = offered + 1 /\ wire \in Seq(Frame) /\ mishaps \subseteq Mishap
  BY EnvelopesAssumption
     DEF TypeInv, ReplyTypeOK, IInv, OrderInv, TypeOK, NewPart, NoPart, Slot
<1>3. /\ options' = options /\ envelope' = envelope /\ phase \in {"ctor", "open"}
      /\ offered' = (IF state = "FLUSHED" THEN offered ELSE offered + 1)
      /\ detached' = detached
  BY <1>1 DEF Inserts, send_owned, config
<1>4. (Taken(owned) /\ Return) \/ Refused
  BY <1>1, SendMoves DEF Inserts
<1>5. HeldAlways'
  <2>1. state' = "SENDING" => cached' # NoPart
    <3>1. CASE Taken(owned)
      <4>1. CASE Push(FALSE) /\ state' = "SENDING" /\ cached' = owned
        <5>1. cached # NoPart
          BY <4>1 DEF Push
        <5>2. owned # NoPart
          BY <1>1, <5>1, OwnedUnlessFirst
        <5> QED
          BY <4>1, <5>2
      <4> QED
        BY <3>1, <4>1 DEF Taken, HeldAlways
    <3>2. CASE Refused
      BY <3>2 DEF Refused, HeldAlways
    <3> QED
      BY <1>4, <3>1, <3>2
  <2>2. state' = "FLUSHED" => state = "FLUSHED" /\ wire' = wire
    BY <1>4 DEF Taken, Refused, Push, Rest
  <2>3. state' = "DROPPING" => mishaps' # {}
    BY <1>4 DEF Taken, Refused, HeldAlways
  <2> QED
    BY <2>1, <2>2, <2>3 DEF HeldAlways, MidMessage
<1>6. CASE phase = "open"
  <2>1. phase' \in {"open", "aborted"} /\ routing' = routing
    <3>1. offered >= envelope
      BY <1>6 DEF ShapeInv
    <3>2. ~(offered + 1 < envelope)
      BY <1>2, <3>1
    <3>3. routing' = routing
      BY <1>1, <1>6 DEF Inserts, OfPayload
    <3> QED
      BY <1>4, <1>6, <3>2, <3>3 DEF Return, Refused, Raise, Abort
  <2>2. \A i, j \in 1 .. envelope : i < j /\ ~routing'[j] => ~routing'[i]
    BY <2>1 DEF ShapeInv
  <2>3. offered' >= envelope
    BY <1>2, <1>3, <1>6 DEF ShapeInv
  <2> QED
    BY <1>3, <1>5, <2>1, <2>2, <2>3 DEF ShapeInv
<1>7. CASE phase = "ctor"
  <2>1. /\ offered < envelope /\ offered' = offered + 1 /\ state # "FLUSHED"
        /\ NewPart \in 1 .. envelope /\ OfEnvelope(owned, part)
    BY <1>1, <1>2, <1>3, <1>7, OwnedUnlessFirst DEF Inserts
  <2>2. phase' \in {"ctor", "open", "unwinding", "aborted"}
        /\ (phase' = "ctor" => offered' < envelope) /\ (phase' = "open" => offered' >= envelope)
        /\ (phase' = "ctor" => Taken(owned) \/ state' = "DROPPING")
    <3>1. CASE Taken(owned) /\ Return
      BY <1>2, <2>1, <3>1 DEF Return
    <3>2. CASE Refused
      BY <1>2, <1>7, <2>1, <3>2 DEF Refused, Return, Raise, Abort
    <3> QED
      BY <1>4, <3>1, <3>2
  <2>3. offered' <= envelope
    BY <1>2, <2>1
  <2>4. state' # "FLUSHED"
    BY <1>4, <2>1 DEF Taken, Refused, Push
  <2>5. /\ routing' \in [1 .. envelope -> BOOLEAN]
        /\ \A j \in 1 .. envelope : j # NewPart => routing'[j] = routing[j]
        /\ routing'[NewPart] => routing[NewPart]
    BY <1>2, <2>1 DEF OfEnvelope, RoutingAfter
  <2>6. Moved(NewPart) => ~(state = "DROPPING")
    BY <1>2, <1>4 DEF Moved, Taken, Refused, Push, Rest
  <2>7. ASSUME ~Copy, routing[NewPart], ~routing'[NewPart]
        PROVE  Moved(NewPart)
    BY <1>2, <2>1, <2>7 DEF OfEnvelope, RoutingAfter
  <2>8. \A i, j \in 1 .. envelope : i < j /\ ~routing'[j] => ~routing'[i]
    <3> SUFFICES ASSUME NEW i \in 1 .. envelope, NEW j \in 1 .. envelope,
                        i < j, ~routing'[j]
                 PROVE  ~routing'[i]
      OBVIOUS
    <3>1. CASE ~routing[j]
      BY <2>5, <3>1 DEF ShapeInv
    <3>2. CASE routing[j]
      <4>1. j = NewPart
        BY <2>5, <3>2
      <4>2. ~Copy
        BY <2>1, <3>2 DEF OfEnvelope, RoutingAfter
      <4>3. state # "DROPPING"
        BY <2>6, <2>7, <3>2, <4>1, <4>2
      <4>4. i <= offered
        BY <1>2, <4>1
      <4>5. ~routing[i]
        BY <1>7, <4>2, <4>3, <4>4 DEF ShapeInv
      <4> QED
        BY <2>5, <4>1, <4>5
    <3> QED
      BY <3>1, <3>2
  <2>9. ASSUME phase' = "ctor", ~Copy, state' # "DROPPING",
               NEW i \in 1 .. envelope, i <= offered'
        PROVE  ~routing'[i]
    <3>1. Taken(owned) /\ state # "DROPPING"
      BY <2>2, <2>9 DEF Taken, Push
    <3>2. CASE i <= offered
      <4>1. ~routing[i]
        BY <1>7, <2>9, <3>1, <3>2 DEF ShapeInv
      <4> QED
        BY <1>2, <2>5, <3>2, <4>1
    <3>3. CASE i > offered
      <4>1. i = NewPart
        BY <1>2, <2>1, <2>9, <3>3
      <4>2. CASE routing[NewPart]
        <5>1. owned = NewPart
          BY <2>1, <4>2 DEF OfEnvelope
        <5>2. Moved(NewPart)
          <6>1. CASE cached' = owned
            BY <5>1, <6>1 DEF Moved
          <6>2. CASE /\ state = "NOTSENT" /\ outgoing_queue' = <<cached, owned>>
            <7>1. outgoing_queue = <<>>
              BY <6>2 DEF TypeInv, IInv, PlaceInv, Queued
            <7> QED
              BY <6>2, <7>1 DEF Moved
          <6>3. CASE outgoing_queue' = Append(outgoing_queue, owned)
            <7>1. outgoing_queue \in Seq(Slot) /\ owned \in Slot
              BY <1>2, <5>1 DEF TypeInv, IInv, TypeOK, Slot
            <7>2. Len(outgoing_queue') = Len(outgoing_queue) + 1 /\ Len(outgoing_queue) \in Nat
              BY <6>3, <7>1
            <7> QED
              BY <7>2 DEF Moved
          <6> QED
            BY <3>1, <6>1, <6>2, <6>3 DEF Taken
        <5> QED
          BY <1>2, <2>1, <2>9, <4>1, <4>2, <5>2 DEF OfEnvelope, RoutingAfter
      <4> QED
        BY <2>5, <4>1, <4>2
    <3> QED
      BY <1>2, <3>2, <3>3
  <2>10. ASSUME phase' = "ctor", ~Copy, cached' # NoPart \/ state' # "NOTSENT",
                NEW j \in 1 .. envelope, j > offered'
         PROVE  routing'[j]
    <3>1. j # NewPart /\ j > offered
      BY <1>2, <2>1, <2>10
    <3>2. CASE cached # NoPart \/ state # "NOTSENT"
      BY <1>7, <2>5, <2>10, <3>1, <3>2 DEF ShapeInv
    <3>3. CASE cached = NoPart /\ state = "NOTSENT"
      <4>1. Taken(owned) \/ state' = "DROPPING"
        BY <2>2, <2>10
      <4>2. owned # NoPart
        BY <1>4, <2>10, <3>3 DEF Taken, Push, Refused
      <4>3. routing[NewPart]
        BY <2>1, <2>10, <4>2 DEF OfEnvelope
      <4>4. NewPart < j
        BY <1>2, <2>1, <2>10
      <4>5. routing[j]
        BY <1>2, <2>1, <4>3, <4>4 DEF ShapeInv
      <4> QED
        BY <2>5, <3>1, <4>5
    <3> QED
      BY <3>2, <3>3
  <2>11. Copy' = Copy
    BY <1>3 DEF Copy
  <2>12. envelope' = envelope
    BY <1>3
  <2>13. phase' = "ctor" /\ ~Copy' /\ state' # "DROPPING" =>
           \A i \in 1 .. envelope : i <= offered' => ~routing'[i]
    BY <2>9, <2>11
  <2>14. phase' = "ctor" /\ ~Copy' /\ (cached' # NoPart \/ state' # "NOTSENT") =>
           \A j \in 1 .. envelope : j > offered' => routing'[j]
    BY <2>10, <2>11
  <2> QED
    BY <1>5, <2>2, <2>3, <2>4, <2>8, <2>12, <2>13, <2>14 DEF ShapeInv
<1> QED
  BY <1>3, <1>5, <1>6, <1>7

\* flush() leaves no part held back.
LEMMA HeldFlush ==
  ASSUME TypeInv, HeldAlways, flush
  PROVE  HeldAlways'
<1>1. TypeOK /\ PlaceInv /\ wire \in Seq(Frame) /\ state \in State
  BY DEF TypeInv, IInv, TypeOK
<1>2. CASE Closed /\ state' = "FLUSHED" /\ cached' = NoPart
  <2>1. CASE Push(TRUE)
    <3>1. wire' = Append(wire, [part |-> cached, more |-> FALSE]) /\ cached # NoPart
      BY <2>1 DEF Push
    <3>2. [part |-> cached, more |-> FALSE] \in Frame
      BY <1>1, <3>1 DEF TypeOK, Frame, Part, Slot
    <3>3. wire'[Len(wire')] = [part |-> cached, more |-> FALSE]
      BY <1>1, <3>1, <3>2
    <3> QED
      BY <1>2, <3>3 DEF HeldAlways, MidMessage
  <2>2. CASE ~Push(TRUE)
    <3>1. wire' = wire /\ (state = "FLUSHED" \/ state \in {"NOTSENT", "QUEUEING"})
      BY <1>1, <1>2, <2>2 DEF Closed, Rest, HeldAlways, State
    <3>2. state # "FLUSHED" => wire = <<>>
      BY <1>1, <3>1 DEF PlaceInv
    <3> QED
      BY <1>2, <3>1, <3>2 DEF HeldAlways, MidMessage
  <2> QED
    BY <2>1, <2>2
<1>3. CASE NotClosed
  <2>1. wire' = wire /\ (state = "NOTSENT" => wire = <<>>)
    BY <1>1, <1>3 DEF NotClosed, Rest, PlaceInv
  <2>2. state' = "SENDING" => cached' # NoPart
    BY <1>3 DEF NotClosed, HeldAlways
  <2>3. state' = "FLUSHED" => state \in {"NOTSENT", "FLUSHED"}
    BY <1>3 DEF NotClosed
  <2>4. state' = "DROPPING" => mishaps' # {}
    BY <1>3 DEF NotClosed, HeldAlways
  <2> QED
    BY <2>1, <2>2, <2>3, <2>4 DEF HeldAlways, MidMessage
<1> QED
  BY <1>1, <1>2, <1>3, FlushMoves

Shape == ShapeInv /\ HeldAlways

\* Every step keeps the shape and the held part.
LEMMA ShapeStep ==
  ASSUME TypeInv, Shape, [ReplyNext]_replyVars
  PROVE  Shape'
<1>1. ShapeInv /\ HeldAlways
  BY DEF Shape
<1>2. CASE Inserting
  BY <1>1, <1>2, ShapeInsert DEF Shape
<1>3. CASE ReplyFlush
  BY <1>1, <1>3, HeldFlush DEF Shape, ReplyFlush, Flush, ShapeInv, config, request, Copy
<1>4. CASE ReplyDestroy
  <2>1. flush /\ phase' = "dead" /\ routing' = routing /\ envelope' = envelope
    BY <1>4 DEF ReplyDestroy, Destroy, request, config
  <2> QED
    BY <1>1, <2>1, HeldFlush DEF Shape, ShapeInv
<1>5. CASE ReplyDetach
  BY <1>1, <1>5 DEF Shape, ShapeInv, HeldAlways, MidMessage, ReplyDetach, Detach,
     config, request, socket, history, Copy
<1>6. CASE NextReply
  <2>1. /\ state' = "NOTSENT" /\ offered' = 0 /\ cached' = NoPart
        /\ routing' = routing /\ envelope' = envelope /\ envelope \in Nat
        /\ phase' = IF envelope > 0 THEN "ctor" ELSE "open"
    BY <1>6, EnvelopesAssumption DEF NextReply, request, TypeInv, IInv, TypeOK
  <2> QED
    BY <1>1, <2>1 DEF Shape, ShapeInv, HeldAlways
<1>7. CASE ResendPart \/ UNCHANGED replyVars
  BY <1>1, <1>7 DEF Shape, ShapeInv, HeldAlways, MidMessage, ResendPart,
     vars, replyVars, config, request, socket, history, Copy
<1>8. CASE ResendFails \/ ResendGone \/ \E i \in Linked : LinkedGone(i)
  BY <1>1, <1>8 DEF Shape, ShapeInv, HeldAlways, MidMessage, ResendFails, ResendGone, LinkedGone,
     config, request, socket, history, Copy
<1>9. CASE Release \/ ReplyTerminate
  BY <1>1, <1>9 DEF Shape, ShapeInv, HeldAlways, MidMessage, Release, ReplyTerminate,
     Terminate, config, request, socket, history, Copy
<1> QED
  BY <1>2, <1>3, <1>4, <1>5, <1>6, <1>7, <1>8, <1>9, Steps

\* At the start nothing has been inserted.
LEMMA InitShape == ReplyInit => Shape
<1> SUFFICES ASSUME ReplyInit PROVE Shape
  OBVIOUS
<1>1. /\ state = "NOTSENT" /\ offered = 0 /\ cached = NoPart /\ envelope \in Nat
      /\ routing = [n \in 1 .. envelope |-> TRUE]
      /\ phase = IF envelope > 0 THEN "ctor" ELSE "open"
  BY EnvelopesAssumption DEF ReplyInit, Init
<1> QED
  BY <1>1 DEF Shape, ShapeInv, HeldAlways

(* Where the parts of an undisturbed composition are.                       *)
ContentsInv ==
  mishaps = {} /\ phase # "aborted" =>
    /\ state = "NOTSENT" =>
         inserted = IF cached = NoPart THEN <<>> ELSE <<content[cached]>>
    /\ state = "SENDING" => inserted = Append(PartsOf(wire), content[cached])
    /\ state = "QUEUEING" => inserted = QueueOf(Queued)
    /\ state = "FLUSHED" =>
         inserted = IF Queued = <<>> THEN PartsOf(wire) ELSE QueueOf(Queued)

\* Sequences of one length with the same elements are equal.
LEMMA SameSeq ==
  ASSUME NEW S, NEW s \in Seq(S), NEW t \in Seq(S), Len(s) = Len(t),
         \A i \in 1 .. Len(s) : s[i] = t[i]
  PROVE  s = t
OBVIOUS

\* The frames, or the slots of a queue, and one more, while content grows.
LEMMA PartsGrow ==
  ASSUME content \in Seq(Id), content' \in Seq(Id), Len(content) <= Len(content'),
         \A s \in 1 .. Len(content) : content'[s] = content[s],
         wire \in Seq(Frame), \A i \in 1 .. Len(wire) : wire[i].part <= Len(content),
         NEW more \in BOOLEAN, cached \in Part, cached <= Len(content),
         wire' = Append(wire, [part |-> cached, more |-> more])
  PROVE  PartsOf(wire)' = Append(PartsOf(wire), content[cached])
<1> DEFINE frame == [part |-> cached, more |-> more]
           before == Append(PartsOf(wire), content[cached])
           after == PartsOf(wire)'
<1>1. frame \in Frame /\ frame.part = cached
  BY DEF Frame
<1> HIDE DEF frame
<1>2. /\ wire' \in Seq(Frame) /\ Len(wire') = Len(wire) + 1 /\ wire'[Len(wire) + 1] = frame
      /\ \A i \in 1 .. Len(wire) : wire'[i] = wire[i]
      /\ \A i \in 1 .. Len(wire) + 1 : i = Len(wire) + 1 \/ i \in 1 .. Len(wire)
  BY <1>1, Appended DEF frame
<1>3. cached \in 1 .. Len(content) /\ content[cached] \in Id
  BY DEF Part, NoPart
<1>4. /\ PartsOf(wire) \in Seq(Id) /\ Len(PartsOf(wire)) = Len(wire)
      /\ \A i \in 1 .. Len(wire) : /\ PartsOf(wire)[i] = content[wire[i].part]
                                   /\ wire[i].part \in 1 .. Len(content)
  BY PartsOfType
<1>5. /\ before \in Seq(Id) /\ Len(before) = Len(wire) + 1
      /\ before[Len(wire) + 1] = content[cached]
      /\ \A i \in 1 .. Len(wire) : before[i] = content[wire[i].part]
  <2> HIDE DEF before
  <2>1. /\ before \in Seq(Id) /\ Len(before) = Len(PartsOf(wire)) + 1
        /\ before[Len(PartsOf(wire)) + 1] = content[cached]
        /\ \A i \in 1 .. Len(PartsOf(wire)) : before[i] = PartsOf(wire)[i]
    BY <1>3, <1>4, Appended DEF before
  <2> QED
    BY <1>4, <2>1
<1>6. after = [i \in 1 .. Len(wire) + 1 |-> content'[wire'[i].part]]
  <2>1. DOMAIN wire' = 1 .. Len(wire) + 1
    BY <1>2, SeqAt
  <2> QED
    BY <2>1 DEF PartsOf
<1>7. \A i \in 1 .. Len(wire) + 1 : content'[wire'[i].part] = before[i]
  <2>1. \A i \in 1 .. Len(wire) : content'[wire'[i].part] = before[i]
    BY <1>2, <1>4, <1>5
  <2>2. content'[wire'[Len(wire) + 1].part] = before[Len(wire) + 1]
    BY <1>1, <1>2, <1>3, <1>5
  <2> QED
    BY <1>2, <2>1, <2>2
<1>8. Len(wire) \in Nat
  OBVIOUS
<1> HIDE DEF before
<1>9. before = [i \in 1 .. Len(wire) + 1 |-> before[i]]
  BY <1>5, <1>8
<1> QED
  BY <1>6, <1>7, <1>9 DEF before

\* The parts of the slots stay when content grows.
LEMMA QueueOfStays ==
  ASSUME content \in Seq(Id), content' \in Seq(Id), Len(content) <= Len(content'),
         \A s \in 1 .. Len(content) : content'[s] = content[s],
         Queued \in Seq(Slot), \A i \in 1 .. Len(Queued) : Queued[i] <= Len(content),
         Queued' = Queued
  PROVE  QueueOf(Queued)' = QueueOf(Queued)
<1>1. DOMAIN Queued = 1 .. Len(Queued) /\ \A i \in 1 .. Len(Queued) : Queued[i] \in Nat
  BY SeqAt DEF Slot
<1>2. \A i \in DOMAIN Queued : PartOf(Queued[i])' = PartOf(Queued[i])
  BY <1>1 DEF PartOf, NoPart
<1> QED
  BY <1>2 DEF QueueOf

\* The same for a queue of slots.
LEMMA QueueGrows ==
  ASSUME content \in Seq(Id), content' \in Seq(Id), Len(content) <= Len(content'),
         \A s \in 1 .. Len(content) : content'[s] = content[s],
         Queued \in Seq(Slot), \A i \in 1 .. Len(Queued) : Queued[i] <= Len(content),
         NEW slot \in Part, slot <= Len(content'),
         Queued' = Append(Queued, slot)
  PROVE  QueueOf(Queued)' = Append(QueueOf(Queued), content'[slot])
<1> DEFINE before == Append(QueueOf(Queued), content'[slot])
           after == QueueOf(Queued)'
<1>1. slot \in Slot /\ slot \in 1 .. Len(content') /\ content'[slot] \in Id /\ slot # NoPart
  BY DEF Part, NoPart, Slot
<1>2. /\ Queued' \in Seq(Slot) /\ Len(Queued') = Len(Queued) + 1
      /\ Queued'[Len(Queued) + 1] = slot
      /\ \A i \in 1 .. Len(Queued) : Queued'[i] = Queued[i]
      /\ \A i \in 1 .. Len(Queued) + 1 : i = Len(Queued) + 1 \/ i \in 1 .. Len(Queued)
  BY <1>1, Appended
<1>3. /\ QueueOf(Queued) \in Seq(Id) /\ Len(QueueOf(Queued)) = Len(Queued)
      /\ \A i \in 1 .. Len(Queued) : QueueOf(Queued)[i] = PartOf(Queued[i])
  BY QueueOfType
<1>4. /\ before \in Seq(Id) /\ Len(before) = Len(Queued) + 1
      /\ before[Len(Queued) + 1] = content'[slot]
      /\ \A i \in 1 .. Len(Queued) : before[i] = PartOf(Queued[i])
  <2> HIDE DEF before
  <2>1. /\ before \in Seq(Id) /\ Len(before) = Len(QueueOf(Queued)) + 1
        /\ before[Len(QueueOf(Queued)) + 1] = content'[slot]
        /\ \A i \in 1 .. Len(QueueOf(Queued)) : before[i] = QueueOf(Queued)[i]
    BY <1>1, <1>3, Appended DEF before
  <2> QED
    BY <1>3, <2>1
<1>5. after = [i \in 1 .. Len(Queued) + 1 |-> PartOf(Queued[i])']
  <2>1. DOMAIN Queued' = 1 .. Len(Queued) + 1
    BY <1>2, SeqAt
  <2> QED
    BY <2>1 DEF QueueOf
<1>6. \A i \in 1 .. Len(Queued) + 1 : PartOf(Queued[i])' = before[i]
  <2>0. \A i \in 1 .. Len(Queued) : Queued[i] \in Nat
    BY SeqAt DEF Slot
  <2>1. \A i \in 1 .. Len(Queued) : PartOf(Queued[i])' = PartOf(Queued[i])
    <3> SUFFICES ASSUME NEW i \in 1 .. Len(Queued)
                 PROVE  PartOf(Queued[i])' = PartOf(Queued[i])
      OBVIOUS
    <3>1. Queued'[i] = Queued[i] /\ Queued[i] \in Nat /\ Queued[i] <= Len(content)
      BY <1>2, <2>0
    <3>2. Queued[i] # NoPart => content'[Queued[i]] = content[Queued[i]]
      BY <3>1 DEF NoPart
    <3> QED
      BY <3>1, <3>2 DEF PartOf
  <2>2. Queued'[Len(Queued) + 1] = slot /\ slot # NoPart
    BY <1>1, <1>2
  <2>3. (IF Queued'[Len(Queued) + 1] = NoPart THEN Gone
         ELSE content'[Queued'[Len(Queued) + 1]]) = content'[slot]
    BY <2>2
  <2> QED
    BY <1>2, <1>4, <2>1, <2>3 DEF PartOf
<1>7. Len(Queued) \in Nat
  OBVIOUS
<1> HIDE DEF before
<1>8. before = [i \in 1 .. Len(Queued) + 1 |-> before[i]]
  BY <1>4, <1>7
<1> QED
  BY <1>5, <1>6, <1>8 DEF before

\* A sequence of two elements.
LEMMA Pair ==
  ASSUME NEW S, NEW a \in S, NEW b \in S
  PROVE  Append(<<a>>, b) = <<a, b>>
<1>1. <<a>> \in Seq(S) /\ Len(<<a>>) = 1 /\ <<a>>[1] = a
  OBVIOUS
<1>2. /\ Append(<<a>>, b) \in Seq(S) /\ Len(Append(<<a>>, b)) = 2
      /\ Append(<<a>>, b)[1] = a /\ Append(<<a>>, b)[2] = b
  BY <1>1
<1>3. /\ <<a, b>> \in Seq(S) /\ Len(<<a, b>>) = 2
      /\ <<a, b>>[1] = a /\ <<a, b>>[2] = b
  OBVIOUS
<1> DEFINE s == Append(<<a>>, b)
           t == <<a, b>>
<1>4. \A i \in 1 .. 2 : i = 1 \/ i = 2
  OBVIOUS
<1> HIDE DEF s, t
<1>5. \A i \in 1 .. Len(s) : s[i] = t[i]
  BY <1>2, <1>3, <1>4 DEF s, t
<1>6. s \in Seq(S) /\ t \in Seq(S) /\ Len(s) = Len(t)
  BY <1>2, <1>3 DEF s, t
<1>7. s = t
  BY <1>5, <1>6, SameSeq
<1> QED
  BY <1>7 DEF s, t

\* An insertion puts its part behind what is in the Sink, or changes neither.
LEMMA ContentsInsert ==
  ASSUME TypeInv, Shape, ContentsInv, Inserting
  PROVE  ContentsInv'
<1>1. PICK owned \in {NewPart, NoPart}, part \in Id : Inserts(owned, part)
  BY DEF Inserting
<1>2. (Taken(owned) /\ Return) \/ Refused
  BY <1>1, SendMoves DEF Inserts
<1>3. /\ phase \in {"ctor", "open"} /\ detached' = detached
      /\ outgoing_queue \in Seq(Slot) /\ detached \in Seq(Slot) /\ Queued \in Seq(Slot)
      /\ wire \in Seq(Frame) /\ NewPart \in Part /\ offered \in Nat /\ cached \in Nat
      /\ PlaceInv /\ NewPart = offered + 1 /\ state \in State
      /\ content \in Seq(Id) /\ Len(content) = offered /\ cached <= offered
      /\ \A i \in 1 .. Len(wire) : wire[i].part <= offered
      /\ \A i \in 1 .. Len(Queued) : Queued[i] <= offered
  BY SMTT(20), <1>1 DEF TypeInv, IInv, TypeOK, OrderInv, ReplyTypeOK, Queued, Inserts, send_owned,
              NewPart, Part, NoPart, Slot
<1>4. /\ content' \in Seq(Id) /\ Len(content') = offered' /\ inserted' \in Seq(Id)
      /\ offered <= offered' /\ \A s \in 1 .. offered : content'[s] = content[s]
      /\ state = "FLUSHED" => UNCHANGED <<offered, content, inserted>>
      /\ state # "FLUSHED" => /\ offered' = NewPart /\ content'[NewPart] = part
                              /\ inserted' = IF owned = NoPart THEN inserted
                                             ELSE Append(inserted, part)
  BY <1>1, InsertContent
<1>5. cached # NoPart \/ state # "NOTSENT" => owned = NewPart
  BY <1>1, OwnedUnlessFirst DEF Shape
<1>6. SUFFICES ASSUME mishaps' = {}, phase' # "aborted" PROVE ContentsInv'
  BY DEF ContentsInv
<1>7. CASE Taken(owned)
  <2>0. mishaps = {} /\ state # "FLUSHED"
    BY <1>6, <1>7 DEF Taken, Push
  <2>1. CASE /\ state \in {"NOTSENT", "SENDING"} /\ cached = NoPart
             /\ cached' = owned /\ Rest /\ state' = state
    <3>1. state = "NOTSENT"
      BY <2>1 DEF Shape, HeldAlways
    <3>2. inserted = <<>>
      BY <1>3, <2>0, <2>1, <3>1 DEF ContentsInv
    <3>3. inserted' = IF owned = NoPart THEN <<>> ELSE <<part>>
      BY <1>4, <2>0, <3>2
    <3>4. cached' # NoPart => content'[cached'] = part
      BY <1>4, <2>0, <2>1
    <3> QED
      BY <2>1, <3>1, <3>3, <3>4 DEF ContentsInv
  <2>2. CASE Push(FALSE) /\ state' = "SENDING" /\ cached' = owned
    <3>1. /\ cached \in Part /\ owned = NewPart
          /\ wire' = Append(wire, [part |-> cached, more |-> TRUE])
          /\ state \in {"NOTSENT", "SENDING"}
      BY <1>3, <1>5, <2>2 DEF Push, Part
    <3>2. PartsOf(wire)' = Append(PartsOf(wire), content[cached])
      BY <1>3, <1>4, <3>1, PartsGrow
    <3>3. inserted = Append(PartsOf(wire), content[cached])
      <4>1. CASE state = "SENDING"
        BY <1>3, <2>0, <4>1 DEF ContentsInv
      <4>2. CASE state = "NOTSENT"
        <5>1. wire = <<>> /\ inserted = <<content[cached]>>
          BY <1>3, <2>0, <3>1, <4>2 DEF ContentsInv, PlaceInv, Part
        <5>2. PartsOf(wire) = <<>>
          BY <5>1 DEF PartsOf
        <5> QED
          BY <5>1, <5>2
      <4> QED
        BY <3>1, <4>1, <4>2
    <3>4. inserted' = Append(inserted, part) /\ content'[cached'] = part
      BY <1>3, <1>4, <2>0, <2>2, <3>1 DEF Part
    <3> QED
      BY <2>2, <3>2, <3>3, <3>4 DEF ContentsInv
  <2>3. CASE /\ state = "NOTSENT" /\ cached # NoPart /\ state' = "QUEUEING"
             /\ outgoing_queue' = <<cached, owned>>
    <3>1. owned = NewPart /\ detached = <<>> /\ cached \in Part
      BY <1>3, <1>5, <2>3 DEF PlaceInv, Queued, Part
    <3>2. Queued' = <<cached, NewPart>>
      BY <1>3, <2>3, <3>1 DEF Queued
    <3>3. QueueOf(Queued)' = <<content'[cached], content'[NewPart]>>
      <4>1. QueueOf(Queued)' = [i \in DOMAIN Queued' |-> PartOf(Queued[i])']
        BY DEF QueueOf
      <4>2. DOMAIN Queued' = 1 .. 2 /\ Queued'[1] = cached /\ Queued'[2] = NewPart
        BY <3>2
      <4>3. PartOf(Queued[1])' = content'[cached] /\ PartOf(Queued[2])' = content'[NewPart]
        BY <1>3, <3>1, <4>2 DEF PartOf, Part
      <4> QED
        BY <4>1, <4>2, <4>3
    <3>4. inserted' = Append(<<content[cached]>>, part) /\ part = content'[NewPart]
      BY <1>3, <1>4, <2>0, <2>3, <3>1 DEF ContentsInv, Part
    <3>5. content'[cached] = content[cached]
      <4>1. cached \in 1 .. offered
        BY <1>3, <3>1 DEF Part, NoPart
      <4> QED
        BY <1>4, <4>1
    <3>6. inserted' = QueueOf(Queued)'
      <4>1. content[cached] \in Id /\ content'[NewPart] \in Id
        <5>1. cached \in 1 .. Len(content)
          BY <1>3, <3>1 DEF Part, NoPart
        <5> QED
          BY <1>3, <3>4, <5>1
      <4> QED
        BY <3>3, <3>4, <3>5, <4>1, Pair
    <3> QED
      BY <2>3, <3>6 DEF ContentsInv
  <2>4. CASE /\ state = "QUEUEING" /\ outgoing_queue # <<>> /\ state' = state
             /\ outgoing_queue' = Append(outgoing_queue, owned)
    <3>1. owned = NewPart /\ detached = <<>> /\ owned \in Slot
      BY <1>3, <1>5, <2>4 DEF PlaceInv, Slot, Part
    <3>2. Queued' = Append(Queued, NewPart)
      BY <1>3, <2>4, <3>1 DEF Queued
    <3>3. NewPart <= Len(content')
      BY <1>3, <1>4, <2>0
    <3>4. QueueOf(Queued)' = Append(QueueOf(Queued), content'[NewPart])
      BY <1>3, <1>4, <3>2, <3>3, QueueGrows
    <3>5. inserted' = Append(QueueOf(Queued), content'[NewPart])
      BY <1>3, <1>4, <2>0, <2>4, <3>1 DEF ContentsInv, Part
    <3> QED
      BY <2>4, <3>4, <3>5 DEF ContentsInv
  <2> QED
    BY <1>7, <2>1, <2>2, <2>3, <2>4 DEF Taken
<1>8. CASE Refused
  <2>1. state = "FLUSHED" /\ state' = "FLUSHED" /\ wire' = wire /\ mishaps = {}
        /\ Queued' = Queued
    BY <1>3, <1>6, <1>8 DEF Refused, Rest, Abort, Shape, HeldAlways, Queued
  <2>2. content' = content /\ inserted' = inserted
    BY <1>4, <2>1
  <2>3. QueueOf(Queued)' = QueueOf(Queued) /\ PartsOf(wire)' = PartsOf(wire)
    BY <2>1, <2>2 DEF QueueOf, PartsOf, PartOf
  <2> QED
    BY <1>3, <2>1, <2>2, <2>3 DEF ContentsInv
<1> QED
  BY <1>2, <1>7, <1>8

\* flush() moves the held part to where the others are.
LEMMA ContentsFlush ==
  ASSUME TypeInv, Shape, ContentsInv, flush, phase \in {"open", "unwinding"},
         UNCHANGED <<composition, detached>>
  PROVE  ContentsInv'
<1>1. /\ TypeOK /\ PlaceInv /\ state \in State
      /\ outgoing_queue \in Seq(Slot) /\ detached \in Seq(Slot)
      /\ wire \in Seq(Frame) /\ offered \in Nat /\ cached \in Nat
      /\ content \in Seq(Id) /\ Len(content) = offered /\ cached <= offered
      /\ \A i \in 1 .. Len(wire) : wire[i].part <= offered
  BY DEF TypeInv, IInv, TypeOK, OrderInv, ReplyTypeOK, Slot
<1>2. UNCHANGED <<content, inserted, detached>>
  BY DEF composition
<1>3. SUFFICES ASSUME mishaps' = {} PROVE ContentsInv'
  BY DEF ContentsInv
<1>4. CASE Closed /\ state' = "FLUSHED"
  <2>0. mishaps = {}
    BY <1>3, <1>4 DEF Closed, Push
  <2>1. CASE Push(TRUE)
    <3>1. /\ cached \in Part /\ wire' = Append(wire, [part |-> cached, more |-> FALSE])
          /\ state \in {"NOTSENT", "SENDING"} /\ outgoing_queue' = outgoing_queue
      BY <1>1, <2>1 DEF Push, Part
    <3>2. PartsOf(wire)' = Append(PartsOf(wire), content[cached])
      <4>1. /\ content' \in Seq(Id) /\ Len(content) <= Len(content')
            /\ \A s \in 1 .. Len(content) : content'[s] = content[s]
        BY <1>1, <1>2
      <4> QED
        BY <1>1, <3>1, <4>1, PartsGrow
    <3>3. inserted = Append(PartsOf(wire), content[cached])
      <4>1. CASE state = "SENDING"
        BY <2>0, <4>1 DEF ContentsInv
      <4>2. CASE state = "NOTSENT"
        <5>1. wire = <<>> /\ inserted = <<content[cached]>>
          BY <1>1, <2>0, <3>1, <4>2 DEF ContentsInv, PlaceInv, Part
        <5>2. PartsOf(wire) = <<>>
          BY <5>1 DEF PartsOf
        <5> QED
          BY <5>1, <5>2
      <4> QED
        BY <3>1, <4>1, <4>2
    <3>4. Queued' = <<>>
      BY <1>1, <1>2, <3>1 DEF PlaceInv, Queued
    <3> QED
      BY <1>2, <1>4, <3>2, <3>3, <3>4 DEF ContentsInv
  <2>2. CASE /\ state = "NOTSENT" /\ cached # NoPart
             /\ outgoing_queue' = <<cached>>
    <3>1. Queued' = <<cached>>
      BY <1>1, <1>2, <2>2 DEF PlaceInv, Queued
    <3>2. QueueOf(Queued)' = <<content[cached]>>
      <4>1. QueueOf(Queued)' = [i \in DOMAIN Queued' |-> PartOf(Queued[i])']
        BY DEF QueueOf
      <4>2. DOMAIN Queued' = 1 .. 1 /\ Queued'[1] = cached
        BY <3>1
      <4>3. PartOf(Queued[1])' = content[cached]
        BY <1>2, <2>2, <4>2 DEF PartOf
      <4> QED
        BY <4>1, <4>2, <4>3
    <3>3. inserted = <<content[cached]>>
      BY <2>0, <2>2 DEF ContentsInv
    <3> QED
      BY <1>2, <1>4, <3>1, <3>2, <3>3 DEF ContentsInv
  <2>3. CASE state # "DROPPING" /\ cached = NoPart /\ Rest
    <3>1. wire' = wire /\ Queued' = Queued
      BY <1>2, <2>3 DEF Rest, Queued
    <3>2. QueueOf(Queued)' = QueueOf(Queued) /\ PartsOf(wire)' = PartsOf(wire)
      BY <1>2, <3>1 DEF QueueOf, PartsOf, PartOf
    <3>3. state \in {"NOTSENT", "QUEUEING", "FLUSHED"}
      BY <1>1, <2>3 DEF Shape, HeldAlways, State
    <3>4. state = "NOTSENT" => Queued = <<>> /\ inserted = PartsOf(wire)
      <4> SUFFICES ASSUME state = "NOTSENT" PROVE Queued = <<>> /\ inserted = PartsOf(wire)
        OBVIOUS
      <4>1. wire = <<>> /\ inserted = <<>> /\ Queued = <<>>
        BY <1>1, <2>0, <2>3 DEF ContentsInv, PlaceInv
      <4> QED
        BY <4>1 DEF PartsOf
    <3>5. state = "QUEUEING" => Queued # <<>>
      BY <1>1 DEF PlaceInv
    <3>6. inserted = IF Queued = <<>> THEN PartsOf(wire) ELSE QueueOf(Queued)
      BY <2>0, <3>3, <3>4, <3>5 DEF ContentsInv
    <3> QED
      BY <1>2, <1>4, <3>1, <3>2, <3>6 DEF ContentsInv
  <2> QED
    BY <1>4, <2>1, <2>2, <2>3 DEF Closed
<1>5. ~NotClosed
  BY <1>3 DEF NotClosed, Shape, HeldAlways
<1> QED
  BY <1>1, <1>4, <1>5, FlushMoves

\* A step that leaves the composition alone.
LEMMA ContentsStays ==
  ASSUME ContentsInv, phase' = phase \/ phase' = "aborted",
         UNCHANGED <<state, cached, outgoing_queue, detached, wire, mishaps, composition>>
  PROVE  ContentsInv'
<1>1. Queued' = Queued /\ content' = content /\ inserted' = inserted
  BY DEF Queued, composition
<1>2. QueueOf(Queued)' = QueueOf(Queued) /\ PartsOf(wire)' = PartsOf(wire)
  BY <1>1 DEF QueueOf, PartsOf, PartOf
<1> QED
  BY <1>1, <1>2 DEF ContentsInv

\* Every step keeps what was composed where it is.
LEMMA ContentsStep ==
  ASSUME TypeInv, Shape, ContentsInv, [ReplyNext]_replyVars
  PROVE  ContentsInv'
<1>1. CASE Inserting
  BY <1>1, ContentsInsert
<1>2. CASE ReplyFlush
  BY <1>2, ContentsFlush DEF ReplyFlush, Flush
<1>3. CASE ReplyDestroy
  BY <1>3, ContentsFlush DEF ReplyDestroy, Destroy
<1>4. CASE ReplyDetach
  <2>1. Queued' = Queued
    BY <1>4 DEF ReplyDetach, Detach, Queued, TypeInv, IInv, PlaceInv
  <2>2. UNCHANGED <<state, cached, wire, mishaps, composition, phase>>
    BY <1>4 DEF ReplyDetach, Detach, socket, history
  <2>3. QueueOf(Queued)' = QueueOf(Queued) /\ PartsOf(wire)' = PartsOf(wire)
        /\ content' = content /\ inserted' = inserted
    BY <2>1, <2>2 DEF QueueOf, PartsOf, PartOf, composition
  <2> QED
    BY <2>1, <2>2, <2>3 DEF ContentsInv
<1>5. CASE NextReply
  BY <1>5 DEF NextReply, ContentsInv
<1>6. CASE ResendPart \/ UNCHANGED replyVars
  BY <1>6, ContentsStays DEF ResendPart, vars, replyVars, socket, history
<1>7. CASE ResendFails \/ ResendGone \/ \E i \in Linked : LinkedGone(i)
  BY <1>7, ContentsStays DEF ResendFails, ResendGone, LinkedGone, socket, history
<1>8. CASE Release \/ ReplyTerminate
  BY <1>8, ContentsStays DEF Release, ReplyTerminate, Terminate, socket, history
<1> QED
  BY <1>1, <1>2, <1>3, <1>4, <1>5, <1>6, <1>7, <1>8, Steps

(* The envelope in the Sink.                                                *)

\* The envelope was valid at first, and no failed send lost a lone part of it.
EnvCond == phase # "aborted" /\ intact /\ (envelope # 1 \/ "error" \notin mishaps)

EnvInv ==
  EnvCond =>
    /\ \A n \in 1 .. envelope : n <= Len(wire) => wire[n].part = n
    /\ \A n \in 1 .. envelope : n <= Len(Queued) => Queued[n] = n
    /\ state = "SENDING" /\ Len(wire) < envelope =>
         /\ cached = Len(wire) + 1
         /\ phase = "ctor" => offered = cached
         /\ phase = "open" => cached = envelope
    /\ state = "NOTSENT" =>
         /\ phase = "ctor" => cached = offered /\ offered <= 1
         /\ phase = "open" => envelope <= 1 /\ (envelope = 1 => cached = 1)
         /\ phase = "unwinding" => cached <= 1
    /\ state = "QUEUEING" =>
         phase # "unwinding" /\ (Len(Queued) >= envelope \/ Len(Queued) = offered)

ContentInv ==
  intact =>
    /\ \A n \in 1 .. envelope : n <= offered => content[n] = Of("routing", n)
    /\ phase = "ctor" => \A n \in 1 .. envelope : n > offered => routing[n]

\* Every step keeps the numbers of the envelope and of what of it is left.
LEMMA ContentStep ==
  ASSUME TypeInv, Shape, ContentInv, [ReplyNext]_replyVars
  PROVE  ContentInv'
<1>0. envelope \in Nat /\ offered \in Nat /\ NewPart = offered + 1
      /\ routing \in [1 .. envelope -> BOOLEAN]
  BY EnvelopesAssumption DEF TypeInv, ReplyTypeOK, TypeOK, NewPart
<1>1. CASE Inserting
  <2>1. PICK owned \in {NewPart, NoPart}, part \in Id : Inserts(owned, part)
    BY <1>1 DEF Inserting
  <2>2. intact' = intact /\ envelope' = envelope /\ phase \in {"ctor", "open"}
    BY <2>1 DEF Inserts, send_owned, config
  <2>3. /\ \A s \in 1 .. offered : content'[s] = content[s]
        /\ state # "FLUSHED" => offered' = NewPart /\ content'[NewPart] = part
        /\ state = "FLUSHED" => offered' = offered
    BY <2>1, InsertContent
  <2>4. SUFFICES ASSUME intact PROVE ContentInv'
    BY <2>2 DEF ContentInv
  <2>5. CASE phase = "ctor"
    <3>1. /\ NewPart \in 1 .. envelope /\ offered' = NewPart /\ content'[NewPart] = part
          /\ OfEnvelope(owned, part)
      BY <2>1, <2>3, <2>5, OwnedUnlessFirst DEF Shape, Inserts
    <3>2. routing[NewPart]
      BY <1>0, <2>4, <2>5, <3>1 DEF ContentInv
    <3>3. part = Of("routing", NewPart)
      BY <3>1, <3>2 DEF OfEnvelope
    <3>4. \A n \in 1 .. envelope : n <= offered' => content'[n] = Of("routing", n)
      <4> SUFFICES ASSUME NEW n \in 1 .. envelope, n <= offered'
                   PROVE  content'[n] = Of("routing", n)
        OBVIOUS
      <4>1. CASE n <= offered
        <5>1. n \in 1 .. offered /\ content[n] = Of("routing", n)
          BY <1>0, <2>4, <4>1 DEF ContentInv
        <5> QED
          BY <2>3, <5>1
      <4>2. CASE n = NewPart
        BY <3>1, <3>3, <4>2
      <4> QED
        BY <1>0, <3>1, <4>1, <4>2
    <3>5. \A n \in 1 .. envelope : n > offered' => routing'[n]
      <4>1. \A n \in 1 .. envelope : n # NewPart => routing'[n] = routing[n]
        BY <1>0, <3>1 DEF OfEnvelope, RoutingAfter
      <4> QED
        BY <1>0, <2>4, <2>5, <3>1, <4>1 DEF ContentInv
    <3> QED
      BY <2>2, <3>4, <3>5 DEF ContentInv
  <2>6. CASE phase = "open"
    <3>1. offered >= envelope
      BY <2>6 DEF Shape, ShapeInv
    <3>2. \A n \in 1 .. envelope : content'[n] = Of("routing", n)
      <4> SUFFICES ASSUME NEW n \in 1 .. envelope PROVE content'[n] = Of("routing", n)
        OBVIOUS
      <4>1. n \in 1 .. offered /\ content[n] = Of("routing", n)
        BY <1>0, <2>4, <3>1 DEF ContentInv
      <4> QED
        BY <2>3, <4>1
    <3>3. phase' # "ctor"
      <4>1. Return \/ Raise \/ Abort
        BY <2>1, SendMoves DEF Inserts, Refused
      <4> QED
        BY <1>0, <2>6, <3>1, <4>1 DEF Return, Raise, Abort
    <3> QED
      BY <2>2, <3>2, <3>3 DEF ContentInv
  <2> QED
    BY <2>2, <2>5, <2>6
<1>2. CASE ReplyFlush \/ ReplyDetach
  BY <1>2 DEF ReplyFlush, ReplyDetach, Flush, Detach, ContentInv, config, history,
              composition, request, past
<1>3. CASE ReplyDestroy
  BY <1>3 DEF ReplyDestroy, Destroy, ContentInv, config, composition, request
<1>4. CASE NextReply
  <2>1. offered' = 0 /\ envelope' = envelope /\ routing' = routing
    BY <1>4 DEF NextReply, request
  <2>2. intact' = (\A n \in 1 .. envelope : routing[n])
    BY <1>4 DEF NextReply
  <2>3. intact' => \A n \in 1 .. envelope : routing'[n]
    BY <2>1, <2>2, Zenon
  <2>4. \A n \in 1 .. envelope : ~(n <= offered')
    BY <1>0, <2>1
  <2> QED
    BY <2>1, <2>3, <2>4 DEF ContentInv
<1>5. CASE ResendPart \/ UNCHANGED replyVars
  BY <1>5 DEF ContentInv, ResendPart, vars, replyVars, config, request,
              composition, past, history
<1>6. CASE ResendFails \/ ResendGone \/ \E i \in Linked : LinkedGone(i)
  BY <1>6 DEF ContentInv, ResendFails, ResendGone, LinkedGone, config, request, composition, past,
              history
<1>7. CASE Release \/ ReplyTerminate
  BY <1>7 DEF ContentInv, Release, ReplyTerminate, Terminate, config, request,
              composition, past, history
<1> QED
  BY <1>1, <1>2, <1>3, <1>4, <1>5, <1>6, <1>7, Steps

\* The held part is the next one of the envelope, as long as that goes out.
LEMMA EnvHeld ==
  ASSUME TypeInv, Shape, EnvInv, EnvCond, cached # NoPart,
         state \in {"NOTSENT", "SENDING"}, Len(wire) < envelope,
         phase \in {"ctor", "open", "unwinding"}
  PROVE  /\ cached = Len(wire) + 1
         /\ phase = "ctor" => offered = cached
         /\ phase = "open" => cached = envelope
<1>0. envelope \in Nat /\ offered \in Nat /\ cached \in Nat /\ wire \in Seq(Frame)
      /\ PlaceInv
  BY EnvelopesAssumption DEF TypeInv, IInv, TypeOK, Slot
<1>1. CASE state = "SENDING"
  BY <1>1 DEF EnvInv
<1>2. CASE state = "NOTSENT"
  <2>1. wire = <<>> /\ Len(wire) = 0 /\ envelope >= 1
    BY <1>0, <1>2 DEF PlaceInv
  <2>2. cached = 1
    BY <1>0, <1>2, <2>1 DEF EnvInv, NoPart
  <2> QED
    BY <1>0, <1>2, <2>1, <2>2 DEF EnvInv
<1> QED
  BY <1>1, <1>2

\* wire and the queue when one more part is put there.
LEMMA WireGrows ==
  ASSUME wire \in Seq(Frame), NEW part \in Part, NEW more \in BOOLEAN,
         wire' = Append(wire, [part |-> part, more |-> more])
  PROVE  /\ Len(wire') = Len(wire) + 1 /\ wire'[Len(wire) + 1].part = part
         /\ \A i \in 1 .. Len(wire) : wire'[i] = wire[i]
         /\ \A i \in Nat : i > Len(wire) /\ i <= Len(wire) + 1 => i = Len(wire) + 1
         /\ wire' \in Seq(Frame)
<1>1. [part |-> part, more |-> more] \in Frame
  BY DEF Frame
<1>2. /\ Len(wire') = Len(wire) + 1 /\ wire'[Len(wire) + 1] = [part |-> part, more |-> more]
      /\ \A i \in 1 .. Len(wire) : wire'[i] = wire[i] /\ wire' \in Seq(Frame)
      /\ wire' \in Seq(Frame)
  BY <1>1, Appended
<1>3. Len(wire) \in Nat
  OBVIOUS
<1> QED
  BY <1>2, <1>3

\* A part that follows a whole envelope leaves it whole.
LEMMA EnvPush ==
  ASSUME TypeInv, Shape, EnvInv, EnvCond, NEW last \in BOOLEAN, Push(last),
         phase \in {"ctor", "open", "unwinding"}
  PROVE  /\ \A n \in 1 .. envelope : n <= Len(wire') => wire'[n].part = n
         /\ Len(wire') = Len(wire) + 1
<1>0. envelope \in Nat /\ offered \in Nat /\ cached \in Part /\ wire \in Seq(Frame)
      /\ Len(wire) \in Nat
  BY EnvelopesAssumption DEF TypeInv, IInv, TypeOK, Slot, Push, Part
<1>1. /\ Len(wire') = Len(wire) + 1 /\ wire'[Len(wire) + 1].part = cached
      /\ \A i \in 1 .. Len(wire) : wire'[i] = wire[i]
  BY <1>0, WireGrows DEF Push
<1>2. Len(wire) < envelope => cached = Len(wire) + 1
  BY EnvHeld DEF Push
<1>3. ASSUME NEW n \in 1 .. envelope, n <= Len(wire') PROVE wire'[n].part = n
  <2>1. CASE n <= Len(wire)
    <3>1. wire[n].part = n /\ wire'[n] = wire[n]
      BY <1>0, <1>1, <2>1 DEF EnvInv
    <3> QED
      BY <3>1
  <2>2. CASE n = Len(wire) + 1
    BY <1>0, <1>1, <1>2, <2>2
  <2> QED
    BY <1>0, <1>1, <1>3, <2>1, <2>2
<1> QED
  BY <1>1, <1>3

\* An insertion keeps the envelope in front.
LEMMA EnvInsert ==
  ASSUME TypeInv, Shape, EnvInv, ContentInv, Inserting
  PROVE  EnvInv'
<1>1. PICK owned \in {NewPart, NoPart}, part \in Id : Inserts(owned, part)
  BY DEF Inserting
<1>2. (Taken(owned) /\ Return) \/ Refused
  BY <1>1, SendMoves DEF Inserts
<1>3. /\ envelope \in Nat /\ offered \in Nat /\ cached \in Nat /\ wire \in Seq(Frame)
      /\ outgoing_queue \in Seq(Slot) /\ detached \in Seq(Slot) /\ Queued \in Seq(Slot)
      /\ Len(Queued) \in Nat
      /\ Len(wire) \in Nat /\ NewPart = offered + 1 /\ NewPart \in Slot /\ PlaceInv
      /\ routing \in [1 .. envelope -> BOOLEAN] /\ state \in State
  BY SMTT(20), EnvelopesAssumption DEF TypeInv, ReplyTypeOK, IInv, TypeOK, Slot, NewPart, Queued
<1>4. /\ intact' = intact /\ envelope' = envelope /\ phase \in {"ctor", "open"}
      /\ detached' = detached
      /\ offered' = IF state = "FLUSHED" THEN offered ELSE offered + 1
  BY <1>1 DEF Inserts, send_owned, config
<1>5. SUFFICES ASSUME EnvCond' PROVE EnvInv'
  BY DEF EnvInv
<1>6. EnvCond
  <2>1. mishaps \subseteq mishaps'
    BY <1>2 DEF Taken, Refused, Push
  <2> QED
    BY <1>4, <1>5, <2>1 DEF EnvCond
<1>7. /\ phase = "ctor" => offered < envelope /\ state # "FLUSHED"
      /\ phase = "open" => offered >= envelope
  BY DEF Shape, ShapeInv
<1>8. Return => /\ phase' \in {"ctor", "open"}
                /\ phase = "open" => phase' = "open"
                /\ phase = "ctor" => (phase' = "open") = (offered + 1 = envelope)
  BY <1>3, <1>4, <1>7 DEF Return
<1>9. CASE Taken(owned) /\ Return
  <2>0. state # "FLUSHED" /\ offered' = offered + 1
    BY <1>4, <1>9 DEF Taken, Push
  <2>1. CASE /\ state \in {"NOTSENT", "SENDING"} /\ cached = NoPart
             /\ cached' = owned /\ Rest /\ state' = state
    <3>1. state = "NOTSENT" /\ wire = <<>> /\ Queued = <<>>
      BY <1>3, <2>1 DEF Shape, HeldAlways, PlaceInv
    <3>2. wire' = <<>> /\ Queued' = <<>>
      BY <1>4, <2>1, <3>1 DEF Rest, Queued
    <3>3. CASE phase = "ctor"
      <4>1. offered = 0 /\ NewPart = 1 /\ envelope >= 1
        BY <1>3, <1>6, <1>7, <2>1, <3>1, <3>3 DEF EnvInv, NoPart
      <4>2. routing[NewPart]
        BY <1>3, <1>6, <3>3, <4>1 DEF ContentInv, EnvCond
      <4>3. owned = 1
        BY <1>1, <3>3, <4>1, <4>2 DEF Inserts, OfEnvelope
      <4>4. /\ phase' = "ctor" => cached' = offered' /\ offered' <= 1
            /\ phase' = "open" => envelope <= 1 /\ (envelope = 1 => cached' = 1)
        BY <1>3, <1>8, <1>9, <2>0, <2>1, <3>3, <4>1, <4>3
      <4> QED
        BY <1>4, <1>8, <1>9, <2>1, <3>1, <3>2, <4>4 DEF EnvInv
    <3>4. CASE phase = "open"
      <4>1. envelope = 0
        BY <1>3, <1>6, <2>1, <3>1, <3>4 DEF EnvInv, NoPart
      <4> QED
        BY <1>4, <1>8, <1>9, <2>1, <3>1, <3>2, <3>4, <4>1 DEF EnvInv
    <3> QED
      BY <1>4, <3>3, <3>4
  <2>2. CASE Push(FALSE) /\ state' = "SENDING" /\ cached' = owned
    <3>1. owned = NewPart
      BY <1>1, <2>2, OwnedUnlessFirst DEF Shape, Push
    <3>2. /\ \A n \in 1 .. envelope : n <= Len(wire') => wire'[n].part = n
          /\ Len(wire') = Len(wire) + 1
      BY <1>4, <1>6, <2>2, EnvPush
    <3>3. Queued = <<>> /\ Queued' = <<>>
      BY <1>3, <1>4, <2>2 DEF Push, PlaceInv, Queued
    <3>4. ASSUME Len(wire') < envelope
          PROVE  /\ cached' = Len(wire') + 1
                 /\ phase' = "ctor" => offered' = cached'
                 /\ phase' = "open" => cached' = envelope
      <4>1. Len(wire) < envelope /\ cached # NoPart /\ state \in {"NOTSENT", "SENDING"}
        BY <1>3, <2>2, <3>2, <3>4 DEF Push
      <4>2. /\ cached = Len(wire) + 1 /\ (phase = "ctor" => offered = cached)
            /\ (phase = "open" => cached = envelope)
        BY <1>4, <1>6, <4>1, EnvHeld
      <4>3. phase = "ctor"
        BY <1>3, <1>4, <3>2, <3>4, <4>2
      <4> QED
        BY <1>3, <1>8, <1>9, <2>0, <2>2, <3>1, <3>2, <4>2, <4>3
    <3> QED
      BY <1>4, <2>2, <3>2, <3>3, <3>4 DEF EnvInv
  <2>3. CASE /\ state = "NOTSENT" /\ cached # NoPart
             /\ state' = "QUEUEING" /\ outgoing_queue' = <<cached, owned>>
             /\ wire' = wire
    <3>1. owned = NewPart
      BY <1>1, <2>3, OwnedUnlessFirst DEF Shape
    <3>2. wire = <<>> /\ Queued' = <<cached, NewPart>> /\ detached = <<>>
      BY <1>3, <1>4, <2>3, <3>1 DEF PlaceInv, Queued
    <3>3. envelope >= 1 => cached = 1
      <4>1. Len(wire) = 0
        BY <3>2
      <4> QED
        BY <1>3, <1>4, <1>6, <2>3, <4>1, EnvHeld
    <3>4. envelope >= 2 => offered = 1 /\ phase = "ctor"
      <4>1. Len(wire) = 0
        BY <3>2
      <4> QED
        BY <1>3, <1>4, <1>6, <2>3, <3>3, <4>1, EnvHeld
    <3>5. Len(Queued') = 2 /\ Queued'[1] = cached /\ Queued'[2] = NewPart
      BY <3>2
    <3>6. \A n \in 1 .. envelope : n <= 2 => Queued'[n] = n
      <4> SUFFICES ASSUME NEW n \in 1 .. envelope, n <= 2 PROVE Queued'[n] = n
        OBVIOUS
      <4>1. n = 1 \/ n = 2
        BY <1>3
      <4> QED
        BY <1>3, <3>3, <3>4, <3>5, <4>1
    <3>7. 2 >= envelope \/ 2 = offered'
      <4>1. CASE envelope >= 2
        BY <1>3, <2>0, <3>4, <4>1
      <4> QED
        BY <1>3, <4>1
    <3>8. \A n \in 1 .. envelope : ~(n <= Len(wire'))
      BY <1>3, <2>3, <3>2
    <3> QED
      BY <1>4, <1>8, <1>9, <2>3, <3>5, <3>6, <3>7, <3>8 DEF EnvInv
  <2>4. CASE /\ state = "QUEUEING" /\ outgoing_queue # <<>> /\ state' = state
             /\ outgoing_queue' = Append(outgoing_queue, owned) /\ wire' = wire
    <3>1. owned = NewPart /\ detached = <<>> /\ wire = <<>> /\ Queued = outgoing_queue
      BY <1>1, <1>3, <2>4, OwnedUnlessFirst DEF Shape, PlaceInv, Queued
    <3>2. Queued' = Append(Queued, NewPart)
      BY <1>4, <2>4, <3>1 DEF Queued
    <3>3. /\ Len(Queued') = Len(Queued) + 1 /\ Queued'[Len(Queued) + 1] = NewPart
          /\ \A i \in 1 .. Len(Queued) : Queued'[i] = Queued[i]
      BY <1>3, <3>2, Appended
    <3>4. Len(Queued) >= envelope \/ Len(Queued) = offered
      BY <1>6, <2>4 DEF EnvInv
    <3>5. \A n \in 1 .. envelope : n <= Len(Queued) => Queued[n] = n
      BY <1>6 DEF EnvInv
    <3>6. \A n \in 1 .. envelope : n <= Len(Queued') => Queued'[n] = n
      <4> SUFFICES ASSUME NEW n \in 1 .. envelope, n <= Len(Queued') PROVE Queued'[n] = n
        OBVIOUS
      <4>1. CASE n <= Len(Queued)
        BY <1>3, <3>3, <3>5, <4>1
      <4>2. CASE n = Len(Queued) + 1
        BY <1>3, <3>3, <3>4, <4>2
      <4> QED
        BY <1>3, <3>3, <4>1, <4>2
    <3>7. Len(Queued') >= envelope \/ Len(Queued') = offered'
      BY <1>3, <2>0, <3>3, <3>4
    <3>8. \A n \in 1 .. envelope : ~(n <= Len(wire'))
      BY <1>3, <2>4, <3>1
    <3> QED
      BY <1>4, <1>8, <1>9, <2>4, <3>6, <3>7, <3>8 DEF EnvInv
  <2> QED
    BY <1>9, <2>1, <2>2, <2>3, <2>4 DEF Taken
<1>10. CASE Refused
  <2>1. wire' = wire /\ Queued' = Queued
    BY <1>4, <1>10 DEF Refused, Rest, Queued
  <2>2. /\ \A n \in 1 .. envelope : n <= Len(wire) => wire[n].part = n
        /\ \A n \in 1 .. envelope : n <= Len(Queued) => Queued[n] = n
    BY <1>6 DEF EnvInv
  <2>3. state' = "SENDING" =>
          state = "SENDING" /\ phase' \in {"unwinding", "open"} /\ cached' = cached
          /\ (phase' = "open" => phase = "open")
    BY <1>4, <1>10 DEF Refused, Raise
  <2>4. state' = "QUEUEING" => phase' = "aborted"
    BY <1>10 DEF Refused, Abort
  <2>5. state' = "NOTSENT" =>
          /\ state = "NOTSENT" /\ phase' = IF phase = "ctor" THEN "unwinding" ELSE "open"
          /\ cached' = cached \/ (cached' = NoPart /\ envelope # 1)
    BY <1>4, <1>5, <1>10 DEF Refused, Raise, EnvCond
  <2>6. state' = "NOTSENT" =>
          /\ phase' # "ctor"
          /\ phase' = "open" => envelope <= 1 /\ (envelope = 1 => cached' = 1)
          /\ phase' = "unwinding" => cached' <= 1
    BY <1>3, <1>4, <1>6, <2>5 DEF EnvInv, NoPart
  <2>7. state' = "SENDING" /\ Len(wire') < envelope =>
          /\ cached' = Len(wire') + 1 /\ phase' # "ctor"
          /\ phase' = "open" => cached' = envelope
    BY <1>6, <2>1, <2>3 DEF EnvInv
  <2>8. phase' # "aborted"
    BY <1>5 DEF EnvCond
  <2> QED
    BY <1>4, <2>1, <2>2, <2>4, <2>6, <2>7, <2>8 DEF EnvInv
<1> QED
  BY <1>2, <1>9, <1>10

\* flush() keeps the envelope in front.
LEMMA EnvFlush ==
  ASSUME TypeInv, Shape, EnvInv, flush, phase \in {"open", "unwinding"},
         phase' \in {phase, "dead"}, phase = "unwinding" => phase' = "dead",
         UNCHANGED <<envelope, intact, detached, offered>>
  PROVE  EnvInv'
<1>1. /\ envelope \in Nat /\ offered \in Nat /\ cached \in Nat /\ wire \in Seq(Frame)
      /\ outgoing_queue \in Seq(Slot) /\ detached \in Seq(Slot) /\ Queued \in Seq(Slot)
      /\ Len(Queued) \in Nat
      /\ Len(wire) \in Nat
  BY SMTT(20), EnvelopesAssumption DEF TypeInv, ReplyTypeOK, IInv, TypeOK, Slot, Queued
<1>0. TypeOK /\ PlaceInv
  BY DEF TypeInv, IInv
<1>2. SUFFICES ASSUME EnvCond' PROVE EnvInv'
  BY DEF EnvInv
<1>3. (Closed /\ state' = "FLUSHED" /\ cached' = NoPart) \/ NotClosed
  BY <1>0, FlushMoves
<1>4. EnvCond
  <2>1. mishaps \subseteq mishaps'
    BY <1>3 DEF Closed, NotClosed, Push
  <2> QED
    BY <1>2, <2>1 DEF EnvCond
<1>5. /\ \A n \in 1 .. envelope : n <= Len(wire) => wire[n].part = n
      /\ \A n \in 1 .. envelope : n <= Len(Queued) => Queued[n] = n
  BY <1>4 DEF EnvInv
<1>6. CASE Closed /\ state' = "FLUSHED"
  <2>1. CASE Push(TRUE)
    <3>1. \A n \in 1 .. envelope : n <= Len(wire') => wire'[n].part = n
      BY <1>4, <2>1, EnvPush
    <3>2. Queued' = Queued
      BY <2>1 DEF Push, Queued
    <3> QED
      BY <1>5, <1>6, <3>1, <3>2 DEF EnvInv
  <2>2. CASE /\ state = "NOTSENT" /\ cached # NoPart /\ outgoing_queue' = <<cached>>
             /\ wire' = wire
    <3>1. Queued' = <<cached>> /\ wire = <<>>
      BY <1>0, <1>1, <2>2 DEF Queued, PlaceInv
    <3>2. envelope >= 1 => cached = 1
      <4>1. Len(wire) = 0
        BY <3>1
      <4> QED
        BY <1>1, <1>4, <2>2, <4>1, EnvHeld
    <3>3. \A n \in 1 .. envelope : n <= Len(Queued') => Queued'[n] = n
      <4> SUFFICES ASSUME NEW n \in 1 .. envelope, n <= Len(Queued') PROVE Queued'[n] = n
        OBVIOUS
      <4>1. n = 1 /\ Queued'[1] = cached
        BY <1>1, <3>1
      <4> QED
        BY <1>1, <3>2, <4>1
    <3> QED
      BY <1>5, <1>6, <2>2, <3>3 DEF EnvInv
  <2>3. CASE Rest
    BY <1>5, <1>6, <2>3 DEF EnvInv, Rest, Queued
  <2> QED
    BY <1>6, <2>1, <2>2, <2>3 DEF Closed
<1>7. CASE NotClosed
  <2>1. wire' = wire /\ Queued' = Queued
    BY <1>7 DEF NotClosed, Rest, Queued
  <2>2. state' = "SENDING" => state = "SENDING" /\ cached' = cached
    BY <1>7 DEF NotClosed
  <2>3. state' # "QUEUEING"
    BY <1>7 DEF NotClosed
  <2>4. state' = "NOTSENT" =>
          state = "NOTSENT" /\ (cached' = cached \/ (cached' = NoPart /\ envelope # 1))
    BY <1>2, <1>7 DEF NotClosed, EnvCond
  <2>5. state' = "NOTSENT" =>
          /\ phase' \notin {"ctor", "unwinding"}
          /\ phase' = "open" => envelope <= 1 /\ (envelope = 1 => cached' = 1)
    BY <1>1, <1>4, <2>4 DEF EnvInv, NoPart
  <2>6. state' = "SENDING" /\ Len(wire') < envelope =>
          /\ cached' = Len(wire') + 1 /\ phase' # "ctor"
          /\ phase' = "open" => cached' = envelope
    BY <1>4, <2>1, <2>2 DEF EnvInv
  <2> QED
    BY <1>5, <2>1, <2>3, <2>5, <2>6 DEF EnvInv
<1> QED
  BY <1>3, <1>6, <1>7

\* Every step keeps the envelope in front.
LEMMA EnvStep ==
  ASSUME TypeInv, Shape, EnvInv, ContentInv, [ReplyNext]_replyVars
  PROVE  EnvInv'
<1>1. CASE Inserting
  BY <1>1, EnvInsert
<1>2. CASE ReplyFlush
  BY <1>2, EnvFlush DEF ReplyFlush, Flush, config, past
<1>3. CASE ReplyDestroy
  BY <1>3, EnvFlush DEF ReplyDestroy, Destroy, config
<1>4. CASE ReplyDetach
  <2>1. Queued' = Queued
    BY <1>4 DEF ReplyDetach, Detach, Queued, TypeInv, IInv, PlaceInv
  <2> QED
    BY <1>4, <2>1 DEF ReplyDetach, Detach, EnvInv, EnvCond, config, socket, history, past
<1>5. CASE NextReply
  <2>1. /\ offered' = 0 /\ cached' = 0 /\ wire' = <<>> /\ Queued' = <<>>
        /\ state' = "NOTSENT" /\ envelope' = envelope /\ envelope \in Nat
        /\ phase' = IF envelope > 0 THEN "ctor" ELSE "open"
    BY <1>5, EnvelopesAssumption DEF NextReply, Queued, NoPart, TypeInv, IInv, TypeOK
  <2>2. \A n \in 1 .. envelope : ~(n <= Len(wire')) /\ ~(n <= Len(Queued'))
    BY <2>1
  <2> QED
    BY <2>1, <2>2 DEF EnvInv
<1>6. CASE ResendPart \/ UNCHANGED replyVars
  BY <1>6 DEF EnvInv, EnvCond, Queued, ResendPart, vars, replyVars, config,
              socket, past, history
<1>7. CASE ResendFails \/ ResendGone \/ \E i \in Linked : LinkedGone(i)
  BY <1>7 DEF EnvInv, EnvCond, Queued, ResendFails, ResendGone, LinkedGone, config, socket, past,
              history
<1>8. CASE Release \/ ReplyTerminate
  BY <1>8 DEF EnvInv, EnvCond, Queued, Release, ReplyTerminate, Terminate, config,
              socket, past, history
<1> QED
  BY <1>1, <1>2, <1>3, <1>4, <1>5, <1>6, <1>7, <1>8, Steps

(* What the observer of the Sink is told.                                   *)
PendingInv ==
  /\ phase = "ctor" => pending_routing_parts + Len(wire) = offered
  /\ phase = "open" =>
       pending_routing_parts = IF Len(wire) < envelope THEN envelope - Len(wire) ELSE 0

ObsLive ==
  EnvCond => \A i \in 1 .. Len(wire) : wire[i].part > envelope =>
               \E j \in 1 .. Len(notified) : notified[j] = wire[i].part

\* The counter of routing parts, in an insertion and in a flush.
LEMMA PendingMoves ==
  ASSUME TypeInv, Shape, PendingInv, phase \in {"ctor", "open"},
         \/ wire' = wire /\ pending_routing_parts' = Pending
         \/ \E last \in BOOLEAN : Push(last)
  PROVE  /\ Len(wire) \in Nat /\ Len(wire') \in Nat
         /\ phase = "ctor" => pending_routing_parts' + Len(wire') = offered + 1
         /\ phase = "open" =>
              pending_routing_parts' = IF Len(wire') < envelope THEN envelope - Len(wire')
                                       ELSE 0
<1>1. /\ envelope \in Nat /\ offered \in Nat /\ pending_routing_parts \in Nat
      /\ wire \in Seq(Frame) /\ Len(wire) \in Nat
  BY EnvelopesAssumption DEF TypeInv, IInv, TypeOK
<1>2. Pending = IF phase = "ctor" THEN pending_routing_parts + 1
                ELSE pending_routing_parts
  BY DEF Pending
<1>3. CASE wire' = wire /\ pending_routing_parts' = Pending
  BY <1>1, <1>2, <1>3 DEF PendingInv
<1>4. ASSUME NEW last \in BOOLEAN, Push(last)
      PROVE  /\ Len(wire') = Len(wire) + 1
             /\ pending_routing_parts' = IF Pending > 0 THEN Pending - 1 ELSE 0
  <2>1. cached \in Part
    BY <1>4 DEF TypeInv, IInv, TypeOK, Slot, Part, Push
  <2> QED
    BY <1>1, <1>4, <2>1, WireGrows DEF Push
<1>5. CASE \E last \in BOOLEAN : Push(last)
  <2>1. /\ Len(wire') = Len(wire) + 1
        /\ pending_routing_parts' = IF Pending > 0 THEN Pending - 1 ELSE 0
    BY <1>4, <1>5
  <2> QED
    BY <1>1, <1>2, <2>1 DEF PendingInv
<1> QED
  BY <1>3, <1>5

\* Every step keeps the count of routing parts.
LEMMA PendingStep ==
  ASSUME TypeInv, Shape, PendingInv, [ReplyNext]_replyVars
  PROVE  PendingInv'
<1>0. /\ envelope \in Nat /\ offered \in Nat /\ pending_routing_parts \in Nat
      /\ wire \in Seq(Frame) /\ Len(wire) \in Nat
  BY EnvelopesAssumption DEF TypeInv, IInv, TypeOK
<1>1. CASE Inserting
  <2>1. PICK owned \in {NewPart, NoPart}, part \in Id : Inserts(owned, part)
    BY <1>1 DEF Inserting
  <2>2. (Taken(owned) /\ Return) \/ Refused
    BY <2>1, SendMoves DEF Inserts
  <2>3. /\ phase \in {"ctor", "open"} /\ envelope' = envelope
        /\ offered' = IF state = "FLUSHED" THEN offered ELSE offered + 1
    BY <2>1 DEF Inserts, send_owned, config
  <2>4. \/ wire' = wire /\ pending_routing_parts' = Pending
        \/ \E last \in BOOLEAN : Push(last)
    BY <2>2 DEF Taken, Refused, Rest
  <2>5. /\ Len(wire') \in Nat
        /\ phase = "ctor" => pending_routing_parts' + Len(wire') = offered + 1
        /\ phase = "open" =>
             pending_routing_parts' = IF Len(wire') < envelope
                                      THEN envelope - Len(wire') ELSE 0
    BY <2>3, <2>4, PendingMoves
  <2>6. CASE phase = "ctor"
    <3>1. offered < envelope /\ offered' = offered + 1
      BY <2>3, <2>6 DEF Shape, ShapeInv
    <3>2. /\ phase' \in {"ctor", "open", "unwinding", "aborted"}
          /\ phase' = "open" => offered + 1 = envelope
      BY <1>0, <2>2, <2>6, <3>1 DEF Refused, Return, Raise, Abort
    <3>3. phase' = "open" => pending_routing_parts' = envelope - Len(wire')
                             /\ Len(wire') <= envelope
      <4>1. pending_routing_parts' \in Nat
        BY <2>1, InsertSink DEF IInv, TypeOK
      <4> QED
        BY <1>0, <2>5, <2>6, <3>2, <4>1
    <3> QED
      BY <1>0, <2>3, <2>5, <2>6, <3>1, <3>2, <3>3 DEF PendingInv
  <2>7. CASE phase = "open"
    <3>1. offered >= envelope
      BY <2>7 DEF Shape, ShapeInv
    <3>2. phase' \in {"open", "aborted"}
      BY <1>0, <2>2, <2>7, <3>1 DEF Refused, Return, Raise, Abort
    <3> QED
      BY <2>3, <2>5, <2>7, <3>2 DEF PendingInv
  <2> QED
    BY <2>3, <2>6, <2>7
<1>2. CASE ReplyFlush
  <2>1. flush /\ phase = "open" /\ phase' = "open" /\ envelope' = envelope
    BY <1>2 DEF ReplyFlush, Flush, config
  <2>2. (Closed /\ state' = "FLUSHED" /\ cached' = NoPart) \/ NotClosed
    BY <2>1, FlushMoves DEF TypeInv, IInv
  <2>3. \/ wire' = wire /\ pending_routing_parts' = Pending
        \/ \E last \in BOOLEAN : Push(last)
    BY <2>2 DEF Closed, NotClosed, Rest
  <2> QED
    BY <2>1, <2>3, PendingMoves DEF PendingInv
<1>3. CASE ReplyDestroy
  BY <1>3 DEF ReplyDestroy, Destroy, PendingInv
<1>4. CASE ReplyDetach
  BY <1>4 DEF ReplyDetach, Detach, PendingInv, config, socket, history
<1>5. CASE NextReply
  BY <1>0, <1>5 DEF NextReply, PendingInv
<1>6. CASE ResendPart \/ UNCHANGED replyVars
  BY <1>6 DEF PendingInv, ResendPart, vars, replyVars, config, socket,
              history
<1>7. CASE ResendFails \/ ResendGone \/ \E i \in Linked : LinkedGone(i)
  BY <1>7 DEF PendingInv, ResendFails, ResendGone, LinkedGone
<1>8. CASE Release \/ ReplyTerminate
  BY <1>8 DEF PendingInv, Release, ReplyTerminate, Terminate, config, socket, history
<1> QED
  BY <1>1, <1>2, <1>3, <1>4, <1>5, <1>6, <1>7, <1>8, Steps

\* A part that goes out is shown to the observer unless it is of the envelope.
LEMMA ObsMoves ==
  ASSUME TypeInv, Shape, EnvInv, PendingInv, ObsLive, EnvCond,
         phase \in {"ctor", "open", "unwinding"},
         MayNotify, wire' = wire \/ \E last \in BOOLEAN : Push(last)
  PROVE  \A i \in 1 .. Len(wire') : wire'[i].part > envelope =>
           \E j \in 1 .. Len(notified') : notified'[j] = wire'[i].part
<1>0. /\ envelope \in Nat /\ offered \in Nat /\ pending_routing_parts \in Nat
      /\ wire \in Seq(Frame) /\ Len(wire) \in Nat /\ notified \in Seq(Part)
      /\ cached \in Nat /\ cached <= offered /\ Len(notified) \in Nat
  BY EnvelopesAssumption DEF TypeInv, IInv, TypeOK, OrderInv, Slot
<1>1. \A j \in 1 .. Len(notified) : j \in 1 .. Len(notified') /\ notified'[j] = notified[j]
  <2>1. CASE cached # NoPart /\ notified' = Append(notified, cached)
    <3>1. cached \in Part
      BY <1>0, <2>1 DEF Part
    <3> QED
      BY <1>0, <2>1, <3>1, Appended
  <2> QED
    BY <1>0, <2>1 DEF MayNotify
<1>2. \A i \in 1 .. Len(wire) : wire[i].part > envelope =>
        \E j \in 1 .. Len(notified') : notified'[j] = wire[i].part
  BY <1>1 DEF ObsLive
<1>3. CASE wire' = wire
  BY <1>2, <1>3
<1>4. ASSUME NEW last \in BOOLEAN, Push(last)
      PROVE  \A i \in 1 .. Len(wire') : wire'[i].part > envelope =>
               \E j \in 1 .. Len(notified') : notified'[j] = wire'[i].part
  <2>1. cached \in Part
    BY <1>0, <1>4 DEF Push, Part
  <2>2. /\ Len(wire') = Len(wire) + 1 /\ wire'[Len(wire) + 1].part = cached
        /\ \A i \in 1 .. Len(wire) : wire'[i] = wire[i]
    BY <1>0, <1>4, <2>1, WireGrows DEF Push
  <2>3. ASSUME cached > envelope
        PROVE  \E j \in 1 .. Len(notified') : notified'[j] = cached
    <3>1. phase = "open"
      <4>1. phase = "ctor" => offered < envelope
        BY DEF Shape, ShapeInv
      <4>2. phase = "unwinding" => offered <= envelope
        BY DEF Shape, ShapeInv
      <4> QED
        BY <1>0, <2>3, <4>1, <4>2
    <3>2. ~(Len(wire) < envelope)
      BY <1>0, <1>4, <2>3, <3>1, EnvHeld DEF Push
    <3>3. Pending = 0
      BY <1>0, <3>1, <3>2 DEF PendingInv, Pending
    <3>4. notified' = Append(notified, cached)
      BY <1>4, <3>3 DEF Push
    <3>5. Len(notified') = Len(notified) + 1 /\ notified'[Len(notified) + 1] = cached
      BY <1>0, <2>1, <3>4, Appended
    <3> QED
      BY <1>0, <3>5
  <2>4. \A i \in 1 .. Len(wire') : i \in 1 .. Len(wire) \/ i = Len(wire) + 1
    BY <1>0, <2>2
  <2> QED
    BY <1>2, <2>2, <2>3, <2>4
<1> QED
  BY <1>3, <1>4

\* Every step keeps the observer informed of the payload on the wire.
LEMMA ObsStep ==
  ASSUME TypeInv, Shape, EnvInv, PendingInv, ObsLive, [ReplyNext]_replyVars
  PROVE  ObsLive'
<1>1. CASE Inserting
  <2>1. PICK owned \in {NewPart, NoPart}, part \in Id : Inserts(owned, part)
    BY <1>1 DEF Inserting
  <2>2. (Taken(owned) /\ Return) \/ Refused
    BY <2>1, SendMoves DEF Inserts
  <2>3. phase \in {"ctor", "open"} /\ envelope' = envelope /\ intact' = intact
    BY <2>1 DEF Inserts, send_owned, config
  <2>4. MayNotify
    BY <2>2, MovesNotify
  <2>5. wire' = wire \/ \E last \in BOOLEAN : Push(last)
    BY <2>2 DEF Taken, Refused, Rest
  <2>6. mishaps \subseteq mishaps'
    BY <2>2 DEF Taken, Refused, Push
  <2>7. EnvCond' => EnvCond
    BY <2>3, <2>6 DEF EnvCond
  <2> QED
    BY <2>3, <2>4, <2>5, <2>7, ObsMoves DEF ObsLive
<1>2. CASE ReplyFlush \/ ReplyDestroy
  <2>1. /\ flush /\ phase \in {"open", "unwinding"} /\ envelope' = envelope
        /\ intact' = intact
    BY <1>2 DEF ReplyFlush, Flush, ReplyDestroy, Destroy, config, past
  <2>2. Closed \/ NotClosed
    BY <2>1, FlushMoves DEF TypeInv, IInv
  <2>3. MayNotify
    BY <2>2, MovesNotify
  <2>4. wire' = wire \/ \E last \in BOOLEAN : Push(last)
    BY <2>2 DEF Closed, NotClosed, Rest
  <2>5. mishaps \subseteq mishaps'
    BY <2>2 DEF Closed, NotClosed, Push
  <2>6. EnvCond' => EnvCond
    BY <2>1, <2>5 DEF EnvCond
  <2> QED
    BY <2>1, <2>3, <2>4, <2>6, ObsMoves DEF ObsLive
<1>3. CASE ReplyDetach
  BY <1>3 DEF ReplyDetach, Detach, ObsLive, EnvCond, config, socket, history, observer,
              past
<1>4. CASE NextReply
  <2>1. Len(wire') = 0
    BY <1>4 DEF NextReply
  <2> QED
    BY <2>1 DEF ObsLive
<1>5. CASE ResendPart \/ UNCHANGED replyVars
  BY <1>5 DEF ObsLive, EnvCond, ResendPart, vars, replyVars, config, socket,
              history, observer, past
<1>6. CASE ResendFails \/ ResendGone \/ \E i \in Linked : LinkedGone(i)
  BY <1>6 DEF ObsLive, EnvCond, ResendFails, ResendGone, LinkedGone
<1>7. CASE Release \/ ReplyTerminate
  BY <1>7 DEF ObsLive, EnvCond, Release, ReplyTerminate, Terminate, config, socket,
              history, observer, past
<1> QED
  BY <1>1, <1>2, <1>3, <1>4, <1>5, <1>6, <1>7, Steps

-----------------------------------------------------------------------------
(* The replies and their fates.                                             *)

\* The invariant of one reply.
OneInv == Shape /\ ContentsInv /\ ContentInv /\ EnvInv /\ PendingInv /\ ObsLive

\* The invariant of one reply is kept by every step.
LEMMA OneStep ==
  ASSUME TypeInv, OneInv, [ReplyNext]_replyVars
  PROVE  OneInv'
BY ShapeStep, ContentsStep, ContentStep, EnvStep, PendingStep, ObsStep DEF OneInv

\* The invariant of one reply holds at the start.
LEMMA InitOne == ReplyInit => OneInv
<1> SUFFICES ASSUME ReplyInit PROVE OneInv
  OBVIOUS
<1>1. /\ state = "NOTSENT" /\ offered = 0 /\ cached = 0 /\ wire = <<>> /\ notified = <<>>
      /\ outgoing_queue = <<>> /\ detached = <<>> /\ pending_routing_parts = 0
      /\ inserted = <<>> /\ envelope \in Nat
      /\ routing = [n \in 1 .. envelope |-> TRUE]
      /\ phase = IF envelope > 0 THEN "ctor" ELSE "open"
  BY EnvelopesAssumption DEF ReplyInit, Init, NoPart
<1>2. Queued = <<>> /\ Len(wire) = 0 /\ Len(Queued) = 0
  BY <1>1 DEF Queued
<1> QED
  BY <1>1, <1>2, InitShape DEF OneInv, ContentsInv, ContentInv, EnvInv, PendingInv,
                               ObsLive, NoPart

\* A composition that was made may have become the message parts.
Fits(env, made, parts) ==
  /\ made.clean => parts = made.parts
  /\ made.intact /\ (env # 1 \/ ~made.failed)
       /\ (\E i \in 1 .. Len(parts) : parts[i].from # "routing") =>
       /\ Len(parts) > env
       /\ \A n \in 1 .. env : parts[n] = Of("routing", n)

\* A queue that was orig: the parts that send() has sent are empty now, those
\* that release() took are gone.
Matches(orig, parts, sent, term) ==
  /\ Len(orig) = Len(parts)
  /\ \A i \in 1 .. Len(orig) : parts[i] \in {orig[i], Gone} \/ term \/ i <= sent

SentOf(q) == IF q = Len(queues) THEN sending ELSE 0

QueuesFit ==
  \A q \in 1 .. Len(queues) : queues[q].reply <= Len(composed) =>
    \E orig \in Seq(Id) :
      /\ Fits(envelope, composed[queues[q].reply], orig)
      /\ Matches(orig, queues[q].parts, SentOf(q), ctx_term)
      /\ q = Len(queues) =>
           \A i \in 1 .. sending : peers[Len(peers)].parts[i] = orig[i]

PeersFit ==
  \A m \in 1 .. Len(peers) : peers[m].closed =>
    Fits(envelope, composed[peers[m].reply], peers[m].parts)

PeersSeen ==
  /\ \A m \in 1 .. Len(peers) : peers[m].closed /\ WholeEnvelope(peers[m].reply) =>
       \A i \in 1 .. Len(peers[m].parts) : peers[m].parts[i].from # "routing" =>
         <<peers[m].reply, peers[m].parts[i]>> \in seen
  /\ \A i \in 1 .. sending : <<Newest.reply, peers[Len(peers)].parts[i]>> \in seen

\* Which reply a queue and a message are of.
CurrentInv ==
  /\ \A q \in 1 .. Len(queues) : queues[q].reply \in 1 .. Current
  /\ \A p, q \in 1 .. Len(queues) : p < q => queues[p].reply < queues[q].reply
  /\ \A m \in 1 .. Len(peers) : peers[m].reply \in 1 .. Len(composed)
  /\ phase = "dead" => \A q \in 1 .. Len(queues) : queues[q].reply <= Len(composed)

\* The queue of the reply in hand is the one it was detached as.
DetachedInv ==
  Alive =>
    /\ \A q \in 1 .. Len(queues) : queues[q].reply = Current =>
         detached # <<>> /\ queues[q].parts = QueueOf(detached)
    /\ detached # <<>> => \E q \in 1 .. Len(queues) : queues[q].reply = Current

\* A reply is delivered once, and is not kept then.
OnceInv ==
  /\ \A m, n \in 1 .. Len(peers) :
       peers[m].closed /\ peers[n].closed /\ peers[m].reply = peers[n].reply => m = n
  /\ \A m \in 1 .. Len(peers), q \in 1 .. Len(queues) :
       peers[m].closed => peers[m].reply # queues[q].reply

\* The message in the middle of which dst_ is.
PartialInv ==
  /\ \A m \in 1 .. Len(peers) : ~peers[m].closed =>
       m = Len(peers) /\ (sending > 0 \/ (ctx_term /\ (Alive => wire = <<>>)))
  /\ sending > 0 =>
       /\ ~peers[Len(peers)].closed /\ peers[Len(peers)].reply = Newest.reply
       /\ Len(peers[Len(peers)].parts) = sending

FatesInv ==
  phase # "aborted" =>
    \A r \in 1 .. Len(composed) : composed[r].clean /\ composed[r].parts # <<>> =>
      IF composed[r].deleted
      THEN /\ \A m \in 1 .. Len(peers) : peers[m].closed => peers[m].reply # r
           /\ \A q \in 1 .. Len(queues) : queues[q].reply # r
      ELSE \/ \E m \in 1 .. Len(peers) : peers[m].closed /\ peers[m].reply = r
           \/ \E q \in 1 .. Len(queues) : queues[q].reply = r

AllInv == QueuesFit /\ PeersFit /\ PeersSeen /\ CurrentInv /\ DetachedInv /\ OnceInv
          /\ PartialInv /\ FatesInv

\* Steps that concern the reply in hand only.
LEMMA AllStays ==
  ASSUME AllInv,
         UNCHANGED <<queues, sending, peers, composed, seen, envelope>>,
         ctx_term => ctx_term',
         ctx_term /\ (Alive => wire = <<>>) => (Alive' => wire' = <<>>),
         Alive' => Alive /\ detached' = detached
                   /\ (detached # <<>> => QueueOf(detached)' = QueueOf(detached)),
         phase' = "dead" => phase = "dead",
         phase = "aborted" => phase' = "aborted"
  PROVE  AllInv'
<1>1. Newest' = Newest /\ Len(queues') = Len(queues)
  BY DEF Newest, Last
<1>2. \A orig, parts, sent :
        Matches(orig, parts, sent, ctx_term) => Matches(orig, parts, sent, ctx_term')
  BY DEF Matches
<1>3. QueuesFit' /\ PeersFit'
  <2>1. QueuesFit'
    <3> SUFFICES ASSUME NEW q \in 1 .. Len(queues), queues[q].reply <= Len(composed)
                 PROVE  \E orig \in Seq(Id) :
                          /\ Fits(envelope, composed[queues[q].reply], orig)
                          /\ Matches(orig, queues[q].parts, SentOf(q), ctx_term')
                          /\ q = Len(queues) =>
                               \A i \in 1 .. sending : peers[Len(peers)].parts[i] = orig[i]
      BY DEF QueuesFit, SentOf
    <3> QED
      BY <1>2 DEF AllInv, QueuesFit
  <2>2. PeersFit'
    BY DEF AllInv, PeersFit
  <2> QED
    BY <2>1, <2>2
<1>4. PeersSeen' /\ OnceInv' /\ FatesInv'
  BY <1>1 DEF AllInv, PeersSeen, OnceInv, FatesInv, WholeEnvelope
<1>5. CurrentInv' /\ Current' = Current
  BY DEF AllInv, CurrentInv, Current
<1>6. DetachedInv'
  BY <1>5 DEF AllInv, DetachedInv
<1>7. PartialInv'
  BY <1>1 DEF AllInv, PartialInv
<1> QED
  BY <1>3, <1>4, <1>5, <1>6, <1>7 DEF AllInv

\* An insertion concerns the reply in hand only.
LEMMA AllInsert ==
  ASSUME TypeInv, OneInv, AllInv, Inserting
  PROVE  AllInv'
<1>1. PICK owned \in {NewPart, NoPart}, part \in Id : Inserts(owned, part)
  BY DEF Inserting
<1>2. (Taken(owned) /\ Return) \/ Refused
  BY <1>1, SendMoves DEF Inserts
<1>3. /\ UNCHANGED <<queues, sending, peers, composed, seen, envelope, ctx_term, detached>>
      /\ phase \in {"ctor", "open"} /\ phase' # "dead"
  BY <1>1, <1>2 DEF Inserts, send_owned, resend, config, Refused, Return, Raise, Abort
<1>4. ctx_term => wire' = wire
  BY <1>2 DEF Taken, Refused, Rest, Push
<1>5. detached # <<>> => QueueOf(detached)' = QueueOf(detached)
  <2> SUFFICES ASSUME detached # <<>> PROVE QueueOf(detached)' = QueueOf(detached)
    OBVIOUS
  <2>1. Queued = detached /\ Queued' = Queued
    BY <1>3 DEF Queued
  <2>2. /\ content \in Seq(Id) /\ Queued \in Seq(Slot)
        /\ \A i \in 1 .. Len(Queued) : Queued[i] <= Len(content)
    BY <2>1 DEF TypeInv, ReplyTypeOK, IInv, TypeOK, OrderInv
  <2>3. /\ content' \in Seq(Id) /\ Len(content) <= Len(content')
        /\ \A s \in 1 .. Len(content) : content'[s] = content[s]
    <3>1. /\ content' \in Seq(Id) /\ Len(content') = offered' /\ offered \in Nat
          /\ offered <= offered' /\ \A s \in 1 .. offered : content'[s] = content[s]
      BY <1>1, InsertContent
    <3>2. Len(content) = offered
      BY DEF TypeInv, ReplyTypeOK
    <3> QED
      BY <3>1, <3>2
  <2>4. QueueOf(Queued)' = QueueOf(Queued)
    BY <2>1, <2>2, <2>3, QueueOfStays
  <2>5. detached' = detached /\ Queued' = detached'
    BY <1>3, <2>1
  <2>6. QueueOf(Queued)' = QueueOf(detached)'
    BY <2>5 DEF QueueOf
  <2> QED
    BY <2>1, <2>4, <2>6
<1> QED
  BY <1>3, <1>4, <1>5, AllStays DEF Alive

\* So does a flush, as long as the Outgoing lives.
LEMMA AllFlush ==
  ASSUME TypeInv, OneInv, AllInv, ReplyFlush
  PROVE  AllInv'
<1>1. /\ flush /\ phase = "open" /\ phase' = "open"
      /\ UNCHANGED <<queues, sending, peers, composed, seen, envelope, ctx_term, detached,
                     content>>
  BY DEF ReplyFlush, Flush, resend, config, past, composition
<1>2. Closed \/ NotClosed
  BY <1>1, FlushMoves DEF TypeInv, IInv
<1>3. ctx_term => wire' = wire
  BY <1>2 DEF Closed, NotClosed, Rest, Push
<1>4. QueueOf(detached)' = QueueOf(detached)
  BY <1>1 DEF QueueOf, PartOf
<1> QED
  BY <1>1, <1>3, <1>4, AllStays DEF Alive

\* So do the steps that end the program or the context.
LEMMA AllOther ==
  ASSUME AllInv,
         ResendGone \/ (\E i \in Linked : LinkedGone(i)) \/ ReplyTerminate
         \/ UNCHANGED replyVars
  PROVE  AllInv'
<1>1. /\ UNCHANGED <<queues, sending, peers, composed, seen, envelope, detached, content,
                     wire>>
      /\ phase' = "aborted" \/ phase' = phase
      /\ ctx_term => ctx_term'
  BY DEF ResendGone, LinkedGone, ReplyTerminate, Terminate, replyVars, vars, resend, past,
         config, socket, composition
<1>2. QueueOf(detached)' = QueueOf(detached)
  BY <1>1 DEF QueueOf, PartOf
<1> QED
  BY <1>1, <1>2, AllStays DEF Alive

\* The next Outgoing has a number that nothing kept or delivered has.
LEMMA AllNext ==
  ASSUME TypeInv, AllInv, NextReply
  PROVE  AllInv'
<1>1. /\ UNCHANGED <<queues, sending, peers, composed, seen, envelope, ctx_term>>
      /\ phase = "dead" /\ phase' \in {"ctor", "open"} /\ detached' = <<>> /\ wire' = <<>>
  BY DEF NextReply, Between, resend
<1>4. QueuesFit' /\ PeersFit'
  BY <1>1 DEF AllInv, QueuesFit, PeersFit, SentOf
<1>2. Newest' = Newest
  BY <1>1 DEF Newest, Last
<1>5. PeersSeen' /\ OnceInv' /\ FatesInv'
  BY <1>1, <1>2 DEF AllInv, PeersSeen, OnceInv, FatesInv, WholeEnvelope
<1>6. CurrentInv' /\ Current' = Current
  BY <1>1 DEF AllInv, CurrentInv, Current
<1>7. DetachedInv'
  <2>1. \A q \in 1 .. Len(queues) : queues[q].reply # Current
    <3>1. \A q \in 1 .. Len(queues) : queues[q].reply \in Nat /\ queues[q].reply <= Len(composed)
      BY <1>1 DEF AllInv, CurrentInv
    <3>2. Len(composed) \in Nat
      BY DEF TypeInv, ReplyTypeOK
    <3> QED
      BY <3>1, <3>2 DEF Current
  <2> QED
    BY <1>1, <1>6, <2>1 DEF DetachedInv
<1>8. PartialInv'
  BY <1>1, <1>2 DEF AllInv, PartialInv
<1> QED
  BY <1>4, <1>5, <1>6, <1>7, <1>8 DEF AllInv

\* detach(): the queue leaves the Outgoing and is kept with the number of the reply.
LEMMA AllDetach ==
  ASSUME TypeInv, AllInv, ReplyDetach
  PROVE  AllInv'
<1> DEFINE entry == [reply |-> Current, parts |-> QueueOf(outgoing_queue)]
           n == Len(queues)
<1>1. /\ UNCHANGED <<sending, peers, composed, seen, envelope, ctx_term, content, wire>>
      /\ phase = "open" /\ phase' = "open" /\ outgoing_queue # <<>>
      /\ detached' = outgoing_queue /\ queues' = Append(queues, entry)
  BY DEF ReplyDetach, Detach, composition, past, config, socket
<1>2. /\ queues \in Seq(Kept) /\ queues' \in Seq(Kept) /\ Current \in Nat
      /\ Len(composed) \in Nat /\ Current = Len(composed) + 1 /\ n \in Nat /\ sending = 0
      /\ detached = <<>>
  <2>1. queues' \in Seq(Kept)
    BY TypeDetach DEF RestOK, Kept
  <2> QED
    BY <1>1, <2>1 DEF TypeInv, ReplyTypeOK, Kept, Current, KeptInv, Alive, IInv, PlaceInv
<1>3. /\ Len(queues') = n + 1 /\ queues'[n + 1] = entry
      /\ \A q \in 1 .. n : queues'[q] = queues[q]
      /\ \A q \in 1 .. n + 1 : q = n + 1 \/ q \in 1 .. n
      /\ \A q \in 1 .. n : q \in 1 .. n + 1
  <2>1. entry \in Kept
    <3>1. outgoing_queue \in Seq(Slot) /\ Queued = outgoing_queue
      BY <1>2 DEF TypeInv, IInv, TypeOK, Queued
    <3>2. /\ content \in Seq(Id)
          /\ \A i \in 1 .. Len(outgoing_queue) : outgoing_queue[i] <= Len(content)
      BY <3>1 DEF TypeInv, IInv, OrderInv, ReplyTypeOK
    <3>3. QueueOf(outgoing_queue) \in Seq(Id)
      BY <3>1, <3>2, QueueOfType
    <3> QED
      BY <1>2, <3>3 DEF Kept
  <2> HIDE DEF entry
  <2>2. /\ Len(queues') = n + 1 /\ queues'[n + 1] = entry
        /\ \A q \in 1 .. n : queues'[q] = queues[q]
    BY <1>1, <1>2, <2>1, Appended
  <2> QED
    BY <1>2, <2>2
<1>4. entry.reply = Current /\ entry.parts = QueueOf(outgoing_queue)
  OBVIOUS
<1> HIDE DEF entry, n
<1>5. Current' = Current
  BY <1>1 DEF Current
<1>6. \A q \in 1 .. n : queues[q].reply \in 1 .. Len(composed)
  <2>1. \A q \in 1 .. n : queues[q].reply \in 1 .. Current
    BY DEF AllInv, CurrentInv, n
  <2>2. \A q \in 1 .. n : queues[q].reply # Current
    BY <1>1, <1>2 DEF AllInv, DetachedInv, Alive, n
  <2> QED
    BY <1>2, <2>1, <2>2
<1>9. QueuesFit'
  <2> SUFFICES ASSUME NEW q \in 1 .. n + 1, queues'[q].reply <= Len(composed)
               PROVE  \E orig \in Seq(Id) :
                        /\ Fits(envelope, composed[queues'[q].reply], orig)
                        /\ Matches(orig, queues'[q].parts, 0, ctx_term)
    <3>1. \A i \in 1 .. sending : FALSE
      BY <1>2
    <3> QED
      BY <1>1, <1>2, <1>3, <3>1 DEF QueuesFit, SentOf
  <2>1. q \in 1 .. n
    BY <1>2, <1>3, <1>4
  <2>2. SentOf(q) = 0
    BY <1>2 DEF SentOf
  <2> QED
    BY <1>3, <2>1, <2>2 DEF AllInv, QueuesFit, n
<1>10. PeersFit' /\ PeersSeen'
  <2>1. PeersFit'
    BY <1>1 DEF AllInv, PeersFit
  <2>2. \A i \in 1 .. sending : FALSE
    BY <1>2
  <2> QED
    BY <1>1, <2>1, <2>2 DEF AllInv, PeersSeen, WholeEnvelope
<1>11. CurrentInv'
  <2>1. \A q \in 1 .. n + 1 : queues'[q].reply \in 1 .. Current
    <3> SUFFICES ASSUME NEW q \in 1 .. n + 1 PROVE queues'[q].reply \in 1 .. Current
      OBVIOUS
    <3>1. CASE q = n + 1
      BY <1>2, <1>3, <1>4, <3>1
    <3>2. CASE q \in 1 .. n
      <4>1. queues'[q] = queues[q] /\ queues[q].reply \in 1 .. Len(composed)
        BY <1>3, <1>6, <3>2
      <4> QED
        BY <1>2, <4>1
    <3> QED
      BY <1>3, <3>1, <3>2
  <2>2. \A p, q \in 1 .. n + 1 : p < q => queues'[p].reply < queues'[q].reply
    <3> SUFFICES ASSUME NEW p \in 1 .. n + 1, NEW q \in 1 .. n + 1, p < q
                 PROVE  queues'[p].reply < queues'[q].reply
      OBVIOUS
    <3>1. p \in 1 .. n /\ queues'[p] = queues[p] /\ queues[p].reply \in 1 .. Len(composed)
      <4>1. p \in 1 .. n
        BY <1>2 DEF n
      <4> QED
        BY <1>3, <1>6, <4>1
    <3>2. CASE q \in 1 .. n
      <4>1. queues'[q] = queues[q]
        BY <1>3, <3>2
      <4>2. queues[p].reply < queues[q].reply
        BY <3>1, <3>2 DEF AllInv, CurrentInv, n
      <4> QED
        BY <3>1, <4>1, <4>2
    <3>3. CASE q = n + 1
      <4>1. queues'[q].reply = Current
        BY <1>3, <1>4, <3>3
      <4> QED
        BY <1>2, <3>1, <4>1
    <3> QED
      BY <1>3, <3>2, <3>3
  <2>3. \A m \in 1 .. Len(peers) : peers[m].reply \in 1 .. Len(composed)
    BY DEF AllInv, CurrentInv
  <2> QED
    BY <1>1, <1>3, <1>5, <2>1, <2>2, <2>3 DEF CurrentInv
<1>12. DetachedInv'
  <2>1. QueueOf(detached)' = QueueOf(outgoing_queue)
    BY <1>1 DEF QueueOf, PartOf
  <2>2. \A q \in 1 .. n + 1 : queues'[q].reply = Current => q = n + 1
    BY <1>2, <1>3, <1>6
  <2>3. n + 1 \in 1 .. n + 1
    BY <1>2 DEF n
  <2> QED
    BY <1>1, <1>3, <1>4, <1>5, <2>1, <2>2, <2>3 DEF DetachedInv
<1>13. OnceInv'
  <2>1. \A m \in 1 .. Len(peers) : peers[m].reply # Current
    BY <1>2 DEF AllInv, CurrentInv
  <2>2. \A m \in 1 .. Len(peers), q \in 1 .. n + 1 :
          peers[m].closed => peers[m].reply # queues'[q].reply
    <3> SUFFICES ASSUME NEW m \in 1 .. Len(peers), NEW q \in 1 .. n + 1, peers[m].closed
                 PROVE  peers[m].reply # queues'[q].reply
      OBVIOUS
    <3>1. CASE q \in 1 .. n
      BY <1>3, <3>1 DEF AllInv, OnceInv, n
    <3>2. CASE q = n + 1
      BY <1>3, <1>4, <2>1, <3>2
    <3> QED
      BY <1>3, <3>1, <3>2
  <2> QED
    BY <1>1, <1>3, <2>2 DEF AllInv, OnceInv
<1>14. PartialInv'
  BY <1>1, <1>2 DEF AllInv, PartialInv, Alive
<1>15. FatesInv'
  <2> SUFFICES ASSUME NEW r \in 1 .. Len(composed), composed[r].clean,
                      composed[r].parts # <<>>
               PROVE  IF composed[r].deleted
                      THEN /\ \A m \in 1 .. Len(peers) : peers[m].closed => peers[m].reply # r
                           /\ \A q \in 1 .. n + 1 : queues'[q].reply # r
                      ELSE \/ \E m \in 1 .. Len(peers) : peers[m].closed /\ peers[m].reply = r
                           \/ \E q \in 1 .. n + 1 : queues'[q].reply = r
    BY <1>1, <1>3 DEF FatesInv
  <2>1. CASE composed[r].deleted
    <3>1. /\ \A m \in 1 .. Len(peers) : peers[m].closed => peers[m].reply # r
          /\ \A q \in 1 .. n : queues[q].reply # r
      BY <1>1, <2>1 DEF AllInv, FatesInv, n
    <3>2. r # Current
      BY <1>2
    <3> QED
      BY <1>3, <1>4, <2>1, <3>1, <3>2
  <2>2. CASE ~composed[r].deleted
    <3>1. \/ \E m \in 1 .. Len(peers) : peers[m].closed /\ peers[m].reply = r
          \/ \E q \in 1 .. n : queues[q].reply = r
      BY <1>1, <2>2 DEF AllInv, FatesInv, n
    <3> QED
      BY <1>3, <2>2, <3>1
  <2> QED
    BY <2>1, <2>2
<1> QED
  BY <1>9, <1>10, <1>11, <1>12, <1>13, <1>14, <1>15 DEF AllInv

\* A send() that throws ends the program: what is left of its message stays with
\* dst_, which only the end of the context allows in the middle of a message.
LEMMA AllFails ==
  ASSUME TypeInv, AllInv, ResendFails
  PROVE  AllInv'
<1> DEFINE n == Len(queues) - 1
<1>1. /\ UNCHANGED <<peers, composed, envelope, ctx_term, wire>>
      /\ phase = "dead" /\ phase' = "aborted" /\ sending' = 0
      /\ sending \in Nat /\ (sending = 0 \/ ctx_term) /\ queues # <<>>
      /\ seen \subseteq seen' /\ queues' = Front(queues)
  BY DEF ResendFails, Resending, ResendResults, Notify, TypeInv, ReplyTypeOK, config,
         socket, composition
<1>2. Current' = Current /\ n \in Nat
  BY <1>1, NewestKept DEF Current
<1>3. /\ Len(queues') = n
      /\ \A q \in 1 .. n : /\ q \in 1 .. Len(queues) /\ q # Len(queues)
                           /\ queues'[q] = queues[q]
  BY <1>1, FrontKept
<1> HIDE DEF n
<1>4. \A i \in 1 .. sending' : FALSE
  BY <1>1
<1>5. QueuesFit'
  <2> SUFFICES ASSUME NEW q \in 1 .. n, queues'[q].reply <= Len(composed)
               PROVE  \E orig \in Seq(Id) :
                        /\ Fits(envelope, composed[queues'[q].reply], orig)
                        /\ Matches(orig, queues'[q].parts, 0, ctx_term)
    BY <1>1, <1>3, <1>4 DEF QueuesFit, SentOf
  <2>1. q \in 1 .. Len(queues) /\ queues'[q] = queues[q] /\ SentOf(q) = 0
    BY <1>3 DEF SentOf
  <2> QED
    BY <2>1 DEF AllInv, QueuesFit
<1>6. PeersFit' /\ PeersSeen'
  BY <1>1, <1>4 DEF AllInv, PeersFit, PeersSeen, WholeEnvelope
<1>7. CurrentInv' /\ OnceInv' /\ FatesInv'
  <2>1. CurrentInv'
    BY <1>1, <1>2, <1>3 DEF AllInv, CurrentInv
  <2>2. OnceInv'
    BY <1>1, <1>3 DEF AllInv, OnceInv
  <2> QED
    BY <1>1, <2>1, <2>2 DEF FatesInv
<1>8. DetachedInv' /\ PartialInv'
  <2>1. \A m \in 1 .. Len(peers) : ~peers[m].closed => m = Len(peers) /\ ctx_term
    BY <1>1 DEF AllInv, PartialInv
  <2> QED
    BY <1>1, <2>1 DEF DetachedInv, PartialInv, Alive
<1> QED
  BY <1>5, <1>6, <1>7, <1>8 DEF AllInv

\* release() takes a part out of a kept queue, which fits what was composed but for that part.
LEMMA AllRelease ==
  ASSUME TypeInv, AllInv, Release
  PROVE  AllInv'
<1> DEFINE n == Len(queues)
<1>1. /\ UNCHANGED <<sending, peers, composed, seen, envelope, ctx_term, wire>>
      /\ phase = "dead" /\ phase' = "dead" /\ sending = 0
  BY DEF Release, Between, config, socket, composition
<1>2. /\ Len(queues') = n /\ n \in Nat
      /\ \A q \in 1 .. n :
           /\ queues'[q].reply = queues[q].reply
           /\ Len(queues'[q].parts) = Len(queues[q].parts)
           /\ \A i \in 1 .. Len(queues[q].parts) :
                queues'[q].parts[i] \in {queues[q].parts[i], Gone}
  BY ReleaseQueues, KeptAt
<1>3. Current' = Current
  BY <1>1 DEF Current
<1>4. QueuesFit'
  <2> SUFFICES ASSUME NEW q \in 1 .. n, queues'[q].reply <= Len(composed)
               PROVE  \E orig \in Seq(Id) :
                        /\ Fits(envelope, composed[queues'[q].reply], orig)
                        /\ Matches(orig, queues'[q].parts, 0, ctx_term)
                        /\ \A i \in 1 .. 0 : peers[Len(peers)].parts[i] = orig[i]
    BY <1>1, <1>2 DEF QueuesFit, SentOf
  <2>1. PICK orig \in Seq(Id) : /\ Fits(envelope, composed[queues[q].reply], orig)
                                /\ Matches(orig, queues[q].parts, SentOf(q), ctx_term)
    BY <1>2 DEF AllInv, QueuesFit
  <2>2. Matches(orig, queues[q].parts, 0, ctx_term)
    BY <1>1, <2>1 DEF SentOf
  <2>3. Matches(orig, queues'[q].parts, 0, ctx_term)
    BY <1>2, <2>2 DEF Matches
  <2>4. \A i \in 1 .. 0 : peers[Len(peers)].parts[i] = orig[i]
    OBVIOUS
  <2> QED
    BY <1>2, <2>1, <2>3, <2>4
<1>5. PeersFit' /\ PeersSeen'
  <2>1. PeersFit'
    BY <1>1 DEF AllInv, PeersFit
  <2>2. \A i \in 1 .. sending' : FALSE
    BY <1>1
  <2> QED
    BY <1>1, <2>1, <2>2 DEF AllInv, PeersSeen, WholeEnvelope
<1> HIDE DEF n
<1>6. CurrentInv'
  <2>1. /\ \A q \in 1 .. n : queues[q].reply \in 1 .. Current
        /\ \A p, q \in 1 .. n : p < q => queues[p].reply < queues[q].reply
        /\ \A m \in 1 .. Len(peers) : peers[m].reply \in 1 .. Len(composed)
        /\ \A q \in 1 .. n : queues[q].reply <= Len(composed)
    BY <1>1 DEF AllInv, CurrentInv, n
  <2>2. \A q \in 1 .. n : queues'[q].reply \in 1 .. Current /\ queues'[q].reply <= Len(composed)
    BY <1>2, <2>1
  <2>3. \A p, q \in 1 .. n : p < q => queues'[p].reply < queues'[q].reply
    <3> SUFFICES ASSUME NEW p \in 1 .. n, NEW q \in 1 .. n, p < q
                 PROVE  queues'[p].reply < queues'[q].reply
      OBVIOUS
    <3>1. queues'[p].reply = queues[p].reply /\ queues'[q].reply = queues[q].reply
      BY <1>2
    <3> QED
      BY <2>1, <3>1
  <2> QED
    BY <1>1, <1>2, <1>3, <2>1, <2>2, <2>3 DEF CurrentInv
<1>7. OnceInv'
  BY <1>1, <1>2 DEF AllInv, OnceInv, n
<1>8. FatesInv'
  <2> SUFFICES ASSUME NEW r \in 1 .. Len(composed), composed[r].clean,
                      composed[r].parts # <<>>
               PROVE  IF composed[r].deleted
                      THEN /\ \A m \in 1 .. Len(peers) : peers[m].closed => peers[m].reply # r
                           /\ \A q \in 1 .. n : queues'[q].reply # r
                      ELSE \/ \E m \in 1 .. Len(peers) : peers[m].closed /\ peers[m].reply = r
                           \/ \E q \in 1 .. n : queues'[q].reply = r
    BY <1>1, <1>2 DEF FatesInv
  <2>1. IF composed[r].deleted
        THEN /\ \A m \in 1 .. Len(peers) : peers[m].closed => peers[m].reply # r
             /\ \A q \in 1 .. n : queues[q].reply # r
        ELSE \/ \E m \in 1 .. Len(peers) : peers[m].closed /\ peers[m].reply = r
             \/ \E q \in 1 .. n : queues[q].reply = r
    BY <1>1 DEF AllInv, FatesInv, n
  <2> QED
    BY <1>2, <2>1
<1>9. DetachedInv' /\ PartialInv'
  BY <1>1 DEF AllInv, DetachedInv, PartialInv, Alive
<1> QED
  BY <1>4, <1>5, <1>6, <1>7, <1>8, <1>9 DEF AllInv

\* send() sends a part: the message grows, and with the last part of the queue it
\* has what the queue had.
LEMMA AllResend ==
  ASSUME TypeInv, AllInv, ResendPart
  PROVE  AllInv'
<1> DEFINE n == Len(queues)
           m0 == Len(peers')
           last == Newest
           old == peers[Len(peers)]
<1>1. /\ UNCHANGED <<composed, envelope, ctx_term, wire, phase>>
      /\ ~ctx_term /\ phase = "dead" /\ NextPart # Gone /\ queues # <<>>
      /\ seen' = seen \cup {<<last.reply, NextPart>>}
  BY ResentEffect DEF ResendPart, Notify, vars, config, socket
<1>2. /\ n \in Nat \ {0} /\ n \in 1 .. n /\ last = queues[n] /\ last.parts \in Seq(Id) /\ last.reply \in Nat
      /\ sending \in Nat /\ sending < Len(last.parts) /\ Len(last.parts) \in Nat
      /\ NextPart \in Id /\ NextPart = last.parts[sending + 1]
  BY <1>1, NewestKept DEF NextPart
<1>3. Current' = Current /\ Current = Len(composed) + 1 /\ Len(composed) \in Nat
  BY <1>1 DEF Current, TypeInv, ReplyTypeOK
<1>4. /\ Len(peers) \in Nat /\ m0 \in Nat \ {0}
      /\ m0 = IF sending = 0 THEN Len(peers) + 1 ELSE Len(peers)
      /\ peers'[m0] = Resent /\ m0 \in 1 .. m0
  BY ResentEffect DEF TypeInv, ReplyTypeOK
<1>5. /\ \A m \in 1 .. Len(peers) : ~peers[m].closed => m = Len(peers) /\ sending > 0
      /\ sending > 0 => ~old.closed /\ old.reply = last.reply /\ Len(old.parts) = sending
  BY <1>1 DEF AllInv, PartialInv
<1>6. \A m \in 1 .. Len(peers) : peers[m].closed =>
        m \in 1 .. m0 /\ m # m0 /\ peers'[m] = peers[m]
  <2> SUFFICES ASSUME NEW m \in 1 .. Len(peers), peers[m].closed
               PROVE  m \in 1 .. m0 /\ m # m0 /\ peers'[m] = peers[m]
    OBVIOUS
  <2>1. m \in 1 .. m0 /\ m # m0
    BY <1>2, <1>4, <1>5
  <2> QED
    BY <2>1, ResentEffect
<1>7. \A m \in 1 .. m0 : m # m0 =>
        m \in 1 .. Len(peers) /\ peers'[m] = peers[m] /\ peers[m].closed
  <2> SUFFICES ASSUME NEW m \in 1 .. m0, m # m0
               PROVE  m \in 1 .. Len(peers) /\ peers'[m] = peers[m] /\ peers[m].closed
    OBVIOUS
  <2>1. m \in 1 .. Len(peers) /\ peers'[m] = peers[m]
    BY ResentEffect
  <2> QED
    BY <1>2, <1>4, <1>5, <2>1
<1>8. /\ Resent.parts \in Seq(Id) /\ Len(Resent.parts) = sending + 1
      /\ Resent.parts[sending + 1] = NextPart
      /\ \A i \in 1 .. sending : Resent.parts[i] = old.parts[i]
      /\ Resent.reply = last.reply /\ Resent.closed = LastPart
  <2>1. CASE sending = 0
    <3>1. Resent.parts = <<NextPart>> /\ Resent.parts \in Seq(Id)
          /\ Resent.reply = last.reply /\ Resent.closed = LastPart
      BY <2>1, ResentEffect
    <3>2. Len(<<NextPart>>) = 1 /\ <<NextPart>>[1] = NextPart
      OBVIOUS
    <3>3. sending + 1 = 1 /\ \A i \in 1 .. sending : FALSE
      BY <2>1
    <3> QED
      BY <3>1, <3>2, <3>3
  <2>2. CASE sending > 0
    BY <1>2, <1>5, <2>2, ResentEffect
  <2> QED
    BY <1>2, <2>1, <2>2
<1>9. last.reply \in 1 .. Len(composed)
  BY <1>1, <1>2, <1>3 DEF AllInv, CurrentInv
<1>10. PICK orig \in Seq(Id) :
         /\ Fits(envelope, composed[last.reply], orig)
         /\ Matches(orig, last.parts, sending, ctx_term)
         /\ \A i \in 1 .. sending : old.parts[i] = orig[i]
  <2>1. queues[n].reply <= Len(composed)
    BY <1>2, <1>3, <1>9
  <2>2. SentOf(n) = sending
    BY DEF SentOf
  <2> QED
    BY <1>2, <2>1, <2>2 DEF AllInv, QueuesFit
<1>11. /\ Len(orig) = Len(last.parts)
       /\ \A i \in 1 .. sending + 1 : Resent.parts[i] = orig[i]
  <2>1. /\ Len(orig) = Len(last.parts)
        /\ \A i \in 1 .. Len(orig) : last.parts[i] \in {orig[i], Gone} \/ i <= sending
    BY <1>1, <1>10 DEF Matches
  <2>2. sending + 1 \in 1 .. Len(orig)
    BY <1>2, <2>1
  <2>3. NextPart = orig[sending + 1]
    BY <1>1, <1>2, <2>1, <2>2
  <2> QED
    BY <1>2, <1>8, <1>10, <2>1, <2>3
<1>12. seen \subseteq seen'
       /\ \A i \in 1 .. sending + 1 : <<last.reply, Resent.parts[i]>> \in seen'
  <2>1. \A i \in 1 .. sending : <<last.reply, old.parts[i]>> \in seen
    BY DEF AllInv, PeersSeen
  <2>2. \A i \in 1 .. sending + 1 : i \in 1 .. sending \/ i = sending + 1
    BY <1>2
  <2> QED
    BY <1>1, <1>8, <2>1, <2>2
<1>13. /\ \A q \in 1 .. n : queues[q].reply \in 1 .. Len(composed)
       /\ \A p, q \in 1 .. n : p < q => queues[p].reply < queues[q].reply
  BY <1>1, <1>3 DEF AllInv, CurrentInv
<1>14. /\ \A m, k \in 1 .. Len(peers) :
            peers[m].closed /\ peers[k].closed /\ peers[m].reply = peers[k].reply => m = k
       /\ \A m \in 1 .. Len(peers), q \in 1 .. n :
            peers[m].closed => peers[m].reply # queues[q].reply
  BY DEF AllInv, OnceInv
<1>15. PeersFit'
  <2> SUFFICES ASSUME NEW m \in 1 .. m0, peers'[m].closed
               PROVE  Fits(envelope, composed[peers'[m].reply], peers'[m].parts)
    BY <1>1 DEF PeersFit
  <2>1. CASE m = m0
    <3>1. LastPart /\ Len(last.parts) = sending + 1
      BY <1>4, <1>8, <2>1 DEF LastPart
    <3>2. Resent.parts = orig
      BY <1>8, <1>11, <3>1, SameSeq
    <3> QED
      BY <1>4, <1>8, <1>10, <2>1, <3>2
  <2>2. CASE m # m0
    BY <1>7, <2>2 DEF AllInv, PeersFit
  <2> QED
    BY <2>1, <2>2
<1>16. \A m \in 1 .. m0 : peers'[m].closed /\ WholeEnvelope(peers'[m].reply) =>
         \A i \in 1 .. Len(peers'[m].parts) : peers'[m].parts[i].from # "routing" =>
           <<peers'[m].reply, peers'[m].parts[i]>> \in seen'
  <2> SUFFICES ASSUME NEW m \in 1 .. m0, peers'[m].closed, WholeEnvelope(peers'[m].reply),
                      NEW i \in 1 .. Len(peers'[m].parts),
                      peers'[m].parts[i].from # "routing"
               PROVE  <<peers'[m].reply, peers'[m].parts[i]>> \in seen'
    OBVIOUS
  <2>1. CASE m = m0
    BY <1>4, <1>8, <1>12, <2>1
  <2>2. CASE m # m0
    BY <1>7, <1>12, <2>2 DEF AllInv, PeersSeen
  <2> QED
    BY <2>1, <2>2
<1>17. \A m \in 1 .. m0 : peers'[m].reply \in 1 .. Len(composed)
  BY <1>4, <1>7, <1>8, <1>9 DEF AllInv, CurrentInv
<1>18. DetachedInv'
  BY <1>1 DEF DetachedInv, Alive
<1> HIDE DEF last, n, m0, old
<1>19. CASE LastPart
  <2>1. /\ Len(queues') = n - 1 /\ sending' = 0
        /\ \A q \in 1 .. n - 1 : q \in 1 .. n /\ q # n /\ queues'[q] = queues[q]
    BY <1>19, ResentQueues DEF n
  <2>2. PeersSeen'
    <3>1. \A i \in 1 .. sending' : FALSE
      BY <2>1
    <3> QED
      BY <1>1, <1>16, <3>1 DEF PeersSeen, m0, WholeEnvelope
  <2>3. QueuesFit'
    <3> SUFFICES ASSUME NEW q \in 1 .. n - 1, queues'[q].reply <= Len(composed)
                 PROVE  \E was \in Seq(Id) :
                          /\ Fits(envelope, composed[queues'[q].reply], was)
                          /\ Matches(was, queues'[q].parts, 0, ctx_term)
      <4>1. \A i \in 1 .. sending' : FALSE
        BY <2>1
      <4> QED
        BY <1>1, <2>1, <4>1 DEF QueuesFit, SentOf
    <3>1. q \in 1 .. n /\ queues'[q] = queues[q] /\ SentOf(q) = 0
      BY <2>1 DEF SentOf, n
    <3> QED
      BY <3>1 DEF AllInv, QueuesFit, n
  <2>4. /\ \A q \in 1 .. n - 1 : queues'[q].reply \in 1 .. Len(composed)
                                 /\ queues'[q].reply # last.reply
        /\ \A p, q \in 1 .. n - 1 : p < q => queues'[p].reply < queues'[q].reply
    <3>1. \A q \in 1 .. n - 1 : q < n /\ queues[q].reply < last.reply
      <4> SUFFICES ASSUME NEW q \in 1 .. n - 1 PROVE q < n /\ queues[q].reply < last.reply
        OBVIOUS
      <4>1. q \in 1 .. n /\ q < n
        BY <1>2
      <4> QED
        BY <1>2, <1>13, <4>1
    <3>2. \A p, q \in 1 .. n - 1 : p < q => queues'[p].reply < queues'[q].reply
      BY <1>13, <2>1
    <3>3. \A q \in 1 .. n - 1 : queues'[q].reply \in 1 .. Len(composed)
      BY <1>13, <2>1
    <3>4. \A q \in 1 .. n - 1 : queues'[q].reply # last.reply
      <4> SUFFICES ASSUME NEW q \in 1 .. n - 1 PROVE queues'[q].reply # last.reply
        OBVIOUS
      <4>1. queues[q].reply \in 1 .. Len(composed) /\ queues'[q] = queues[q]
        BY <1>13, <2>1
      <4> QED
        BY <1>2, <1>3, <3>1, <4>1
    <3> QED
      BY <3>2, <3>3, <3>4
  <2>5. CurrentInv'
    BY <1>1, <1>3, <1>17, <2>1, <2>4 DEF CurrentInv, m0
  <2>6. OnceInv'
    <3>1. \A m \in 1 .. m0 : m # m0 /\ peers'[m].closed => peers'[m].reply # last.reply
      BY <1>2, <1>7, <1>14
    <3>2. \A m, k \in 1 .. m0 :
            peers'[m].closed /\ peers'[k].closed /\ peers'[m].reply = peers'[k].reply => m = k
      BY <1>4, <1>7, <1>8, <1>14, <3>1
    <3>3. \A m \in 1 .. m0, q \in 1 .. n - 1 :
            peers'[m].closed => peers'[m].reply # queues'[q].reply
      <4> SUFFICES ASSUME NEW m \in 1 .. m0, NEW q \in 1 .. n - 1, peers'[m].closed
                   PROVE  peers'[m].reply # queues'[q].reply
        OBVIOUS
      <4>1. CASE m = m0
        BY <1>4, <1>8, <2>4, <4>1
      <4>2. CASE m # m0
        BY <1>7, <1>14, <2>1, <4>2
      <4> QED
        BY <4>1, <4>2
    <3> QED
      BY <2>1, <3>2, <3>3 DEF OnceInv, m0
  <2>7. PartialInv'
    <3>1. \A m \in 1 .. m0 : peers'[m].closed
      BY <1>4, <1>7, <1>8, <1>19
    <3> QED
      BY <2>1, <3>1 DEF PartialInv, m0
  <2>8. FatesInv'
    <3> SUFFICES ASSUME NEW r \in 1 .. Len(composed), composed[r].clean,
                        composed[r].parts # <<>>
                 PROVE  IF composed[r].deleted
                        THEN /\ \A m \in 1 .. m0 : peers'[m].closed => peers'[m].reply # r
                             /\ \A q \in 1 .. n - 1 : queues'[q].reply # r
                        ELSE \/ \E m \in 1 .. m0 : peers'[m].closed /\ peers'[m].reply = r
                             \/ \E q \in 1 .. n - 1 : queues'[q].reply = r
      BY <1>1, <2>1 DEF FatesInv, m0
    <3>1. CASE composed[r].deleted
      <4>1. /\ \A m \in 1 .. Len(peers) : peers[m].closed => peers[m].reply # r
            /\ \A q \in 1 .. n : queues[q].reply # r
        BY <1>1, <3>1 DEF AllInv, FatesInv, n
      <4>2. last.reply # r
        BY <1>2, <4>1
      <4>3. \A m \in 1 .. m0 : peers'[m].closed => peers'[m].reply # r
        BY <1>4, <1>7, <1>8, <4>1, <4>2
      <4>4. \A q \in 1 .. n - 1 : queues'[q].reply # r
        BY <2>1, <4>1
      <4> QED
        BY <3>1, <4>3, <4>4
    <3>2. CASE ~composed[r].deleted
      <4>1. \/ \E m \in 1 .. Len(peers) : peers[m].closed /\ peers[m].reply = r
            \/ \E q \in 1 .. n : queues[q].reply = r
        BY <1>1, <3>2 DEF AllInv, FatesInv, n
      <4>2. CASE \E m \in 1 .. Len(peers) : peers[m].closed /\ peers[m].reply = r
        BY <1>6, <3>2, <4>2
      <4>3. ASSUME NEW q \in 1 .. n, queues[q].reply = r
            PROVE  \/ \E m \in 1 .. m0 : peers'[m].closed /\ peers'[m].reply = r
                   \/ \E k \in 1 .. n - 1 : queues'[k].reply = r
        <5>1. CASE q = n
          BY <1>2, <1>4, <1>8, <1>19, <4>3, <5>1
        <5>2. CASE q # n
          <6>1. q \in 1 .. n - 1
            BY <1>2, <5>2
          <6> QED
            BY <2>1, <4>3, <6>1
        <5> QED
          BY <5>1, <5>2
      <4> QED
        BY <3>2, <4>1, <4>2, <4>3
    <3> QED
      BY <3>1, <3>2
  <2> QED
    BY <1>15, <1>18, <2>2, <2>3, <2>5, <2>6, <2>7, <2>8 DEF AllInv
<1>20. CASE ~LastPart
  <2>1. /\ Len(queues') = n /\ sending' = sending + 1
        /\ queues'[n].reply = last.reply /\ Len(queues'[n].parts) = Len(last.parts)
        /\ \A i \in 1 .. Len(last.parts) :
             i # sending + 1 => queues'[n].parts[i] = last.parts[i]
        /\ \A q \in 1 .. n : q # n => queues'[q] = queues[q]
        /\ \A q \in 1 .. n : queues'[q].reply = queues[q].reply
        /\ Newest' = queues'[n]
    <3>1. Newest' = queues'[n]
      <4>1. queues' \in Seq(Kept) /\ Len(queues') = n
        BY <1>20, ResentQueues DEF n
      <4>2. queues' # <<>>
        BY <1>2, <4>1
      <4> QED
        BY <4>1, <4>2, NewestNext
    <3>2. /\ Len(queues') = n /\ sending' = sending + 1
          /\ queues'[n].reply = last.reply /\ Len(queues'[n].parts) = Len(last.parts)
          /\ \A i \in 1 .. Len(last.parts) :
               i # sending + 1 => queues'[n].parts[i] = last.parts[i]
          /\ \A q \in 1 .. n : q # n => queues'[q] = queues[q]
      BY <1>20, ResentQueues DEF n, last
    <3> QED
      BY <1>2, <3>1, <3>2
  <2>2. PeersSeen'
    <3>1. \A i \in 1 .. sending + 1 : <<Newest'.reply, peers'[m0].parts[i]>> \in seen'
      BY <1>4, <1>8, <1>12, <2>1
    <3> QED
      BY <1>1, <1>16, <2>1, <3>1 DEF PeersSeen, m0, WholeEnvelope
  <2>3. QueuesFit'
    <3> SUFFICES ASSUME NEW q \in 1 .. n, queues'[q].reply <= Len(composed)
                 PROVE  \E was \in Seq(Id) :
                          /\ Fits(envelope, composed[queues'[q].reply], was)
                          /\ Matches(was, queues'[q].parts,
                                     IF q = n THEN sending + 1 ELSE 0, ctx_term)
                          /\ q = n => \A i \in 1 .. sending + 1 :
                                         peers'[m0].parts[i] = was[i]
      BY <1>1, <2>1 DEF QueuesFit, SentOf, m0
    <3>1. CASE q = n
      <4>1. Matches(orig, queues'[n].parts, sending + 1, ctx_term)
        <5> SUFFICES ASSUME NEW i \in 1 .. Len(orig)
                     PROVE  \/ queues'[n].parts[i] \in {orig[i], Gone}
                            \/ i <= sending + 1
          BY <1>11, <2>1 DEF Matches
        <5>1. last.parts[i] \in {orig[i], Gone} \/ i <= sending
          BY <1>1, <1>10 DEF Matches
        <5>2. i # sending + 1 => queues'[n].parts[i] = last.parts[i]
          BY <1>11, <2>1
        <5> QED
          BY <1>2, <5>1, <5>2
      <4>2. \A i \in 1 .. sending + 1 : peers'[m0].parts[i] = orig[i]
        BY <1>4, <1>11
      <4> QED
        BY <1>10, <2>1, <3>1, <4>1, <4>2
    <3>2. CASE q # n
      <4>1. PICK was \in Seq(Id) : /\ Fits(envelope, composed[queues[q].reply], was)
                                   /\ Matches(was, queues[q].parts, SentOf(q), ctx_term)
        BY <2>1 DEF AllInv, QueuesFit, n
      <4> QED
        BY <2>1, <3>2, <4>1 DEF SentOf, n
    <3> QED
      BY <3>1, <3>2
  <2>4. CurrentInv'
    <3>1. \A p, q \in 1 .. n : p < q => queues'[p].reply < queues'[q].reply
      BY <1>13, <2>1
    <3>2. \A q \in 1 .. n : queues'[q].reply \in 1 .. Current
                           /\ queues'[q].reply <= Len(composed)
      BY <1>3, <1>13, <2>1
    <3> QED
      BY <1>1, <1>3, <1>17, <2>1, <3>1, <3>2 DEF CurrentInv, m0
  <2>5. \A m \in 1 .. m0 : peers'[m].closed =>
          m # m0 /\ m \in 1 .. Len(peers) /\ peers'[m] = peers[m]
    BY <1>4, <1>7, <1>8, <1>20
  <2>6. OnceInv'
    <3>1. \A m, k \in 1 .. m0 :
            peers'[m].closed /\ peers'[k].closed /\ peers'[m].reply = peers'[k].reply => m = k
      BY <1>14, <2>5
    <3>2. \A m \in 1 .. m0, q \in 1 .. n :
            peers'[m].closed => peers'[m].reply # queues'[q].reply
      BY <1>14, <2>1, <2>5
    <3> QED
      BY <2>1, <3>1, <3>2 DEF OnceInv, m0
  <2>7. PartialInv'
    <3>1. \A m \in 1 .. m0 : ~peers'[m].closed => m = m0 /\ sending' > 0
      BY <1>2, <1>7, <2>1
    <3>2. ~peers'[m0].closed /\ peers'[m0].reply = Newest'.reply
          /\ Len(peers'[m0].parts) = sending'
      BY <1>4, <1>8, <1>20, <2>1
    <3> QED
      BY <3>1, <3>2 DEF PartialInv, m0
  <2>8. FatesInv'
    <3> SUFFICES ASSUME NEW r \in 1 .. Len(composed), composed[r].clean,
                        composed[r].parts # <<>>
                 PROVE  IF composed[r].deleted
                        THEN /\ \A m \in 1 .. m0 : peers'[m].closed => peers'[m].reply # r
                             /\ \A q \in 1 .. n : queues'[q].reply # r
                        ELSE \/ \E m \in 1 .. m0 : peers'[m].closed /\ peers'[m].reply = r
                             \/ \E q \in 1 .. n : queues'[q].reply = r
      BY <1>1, <2>1 DEF FatesInv, m0
    <3>1. IF composed[r].deleted
          THEN /\ \A m \in 1 .. Len(peers) : peers[m].closed => peers[m].reply # r
               /\ \A q \in 1 .. n : queues[q].reply # r
          ELSE \/ \E m \in 1 .. Len(peers) : peers[m].closed /\ peers[m].reply = r
               \/ \E q \in 1 .. n : queues[q].reply = r
      BY <1>1 DEF AllInv, FatesInv, n
    <3> QED
      BY SMTT(20), <1>6, <2>1, <2>5, <3>1
  <2> QED
    BY <1>15, <1>18, <2>2, <2>3, <2>4, <2>6, <2>7, <2>8 DEF AllInv
<1> QED
  BY <1>19, <1>20

\* What the Outgoing that has just been destroyed was.
Made == [parts |-> inserted, intact |-> intact, clean |-> mishaps = {},
         failed |-> "error" \in mishaps, deleted |-> outgoing_queue # <<>>]

\* The envelope condition on a sequence of parts that begins as the insertions do.
LEMMA FitsFirst ==
  ASSUME TypeInv', EnvInv', ContentInv', phase' = "dead", content' = content,
         NEW parts \in Seq(Id), Made'.clean => parts = Made'.parts,
         NEW slot \in Seq(Nat), Len(parts) = Len(slot),
         \A i \in 1 .. Len(slot) : slot[i] # NoPart => parts[i] = content[slot[i]],
         \A n \in 1 .. envelope' : n <= Len(slot) /\ EnvCond' =>
           slot[n] = n /\ n <= offered'
  PROVE  Fits(envelope', Made', parts)
<1>1. /\ Made'.intact = intact' /\ Made'.failed = ("error" \in mishaps')
      /\ envelope' \in Nat /\ Len(slot) \in Nat
  BY EnvelopesAssumption DEF Made, TypeInv, IInv, TypeOK
<1> SUFFICES ASSUME intact', envelope' # 1 \/ "error" \notin mishaps',
                    NEW i \in 1 .. Len(parts), parts[i].from # "routing"
             PROVE  /\ Len(parts) > envelope'
                    /\ \A n \in 1 .. envelope' : parts[n] = Of("routing", n)
  BY <1>1 DEF Fits
<1>2. EnvCond'
  BY DEF EnvCond
<1>3. \A n \in 1 .. envelope' : n <= Len(slot) => parts[n] = Of("routing", n)
  <2> SUFFICES ASSUME NEW n \in 1 .. envelope', n <= Len(slot)
               PROVE  parts[n] = Of("routing", n)
    OBVIOUS
  <2>1. slot[n] = n /\ n <= offered' /\ n \in 1 .. Len(slot)
    BY <1>1, <1>2
  <2>2. parts[n] = content[n]
    BY <1>1, <2>1 DEF NoPart
  <2>3. content'[n] = Of("routing", n)
    BY <2>1 DEF ContentInv
  <2> QED
    BY <2>2, <2>3
<1>4. Len(parts) > envelope'
  <2> SUFFICES ASSUME Len(parts) <= envelope' PROVE FALSE
    BY <1>1
  <2>1. i \in 1 .. envelope' /\ i <= Len(slot)
    BY <1>1
  <2>2. parts[i] = Of("routing", i)
    BY <1>3, <2>1
  <2> QED
    BY <2>2 DEF Of
<1> QED
  BY <1>1, <1>3, <1>4

\* Where the composition is when the Outgoing has been destroyed.
LEMMA Destroyed ==
  ASSUME TypeInv, OneInv, ReplyDestroy
  PROVE  /\ wire' # <<>> => /\ Queued' = <<>> /\ (Terminated' \/ ctx_term)
                            /\ Fits(envelope, Made', PartsOf(wire'))
         /\ detached # <<>> => /\ wire' = <<>> /\ outgoing_queue' = <<>>
                               /\ Fits(envelope, Made', QueueOf(detached))
         /\ Made'.clean /\ inserted # <<>> =>
              (wire' # <<>> /\ Terminated') \/ Queued' # <<>>
         /\ ctx_term => wire' = wire
<1>1. /\ flush /\ phase \in {"open", "unwinding"} /\ phase' = "dead"
      /\ UNCHANGED <<detached, ctx_term, offered, composition, envelope>>
  BY DEF ReplyDestroy, Destroy, config
<1>2. [ReplyNext]_replyVars
  BY DEF ReplyNext
<1>3. TypeInv' /\ OneInv'
  BY <1>2, TypeStep, OneStep
<1>4. IInv' /\ HeldAlways' /\ ContentsInv' /\ ContentInv' /\ EnvInv'
  BY <1>3 DEF TypeInv, OneInv, Shape
<1>5. content' = content /\ inserted' = inserted
  BY <1>1 DEF composition
<1>6. /\ wire' \in Seq(Frame) /\ outgoing_queue' \in Seq(Slot) /\ detached' \in Seq(Slot)
      /\ Queued' \in Seq(Slot)
      /\ \A i \in 1 .. Len(wire') : wire'[i].part <= offered'
      /\ \A i \in 1 .. Len(Queued') : Queued'[i] <= offered'
      /\ content \in Seq(Id) /\ Len(content) = offered /\ inserted \in Seq(Id)
  BY <1>4 DEF IInv, TypeOK, OrderInv, Queued, TypeInv, ReplyTypeOK
<1>7. (Closed /\ state' = "FLUSHED" /\ cached' = NoPart) \/ NotClosed
  BY <1>1, FlushMoves DEF TypeInv, IInv
<1>8. ctx_term => wire' = wire
  BY <1>7 DEF Closed, NotClosed, Rest, Push
<1>9. mishaps' = {} => state' = "FLUSHED"
  <2> SUFFICES ASSUME mishaps' = {}, NotClosed PROVE state' = "FLUSHED"
    BY <1>7
  <2>1. state = "DROPPING" /\ mishaps \subseteq mishaps'
    BY DEF NotClosed
  <2>2. mishaps # {}
    BY <2>1 DEF OneInv, Shape, HeldAlways
  <2> QED
    BY <2>1, <2>2
<1>10. wire' # <<>> => Queued' = <<>> /\ (Terminated' \/ ctx_term)
  <2> SUFFICES ASSUME wire' # <<>> PROVE Queued' = <<>> /\ (Terminated' \/ ctx_term)
    OBVIOUS
  <2>1. PlaceInv' /\ HeldInv' /\ state' \in State
    BY <1>4 DEF IInv, TypeOK
  <2>2. state' \in {"SENDING", "FLUSHED"} /\ Queued' = <<>>
    BY <2>1 DEF PlaceInv, State
  <2>3. CASE state' = "FLUSHED"
    BY <1>4, <2>2, <2>3 DEF HeldAlways, MidMessage, Terminated
  <2>4. CASE state' = "SENDING"
    BY <1>1, <2>1, <2>2, <2>4 DEF HeldInv
  <2> QED
    BY <2>2, <2>3, <2>4
<1>11. detached # <<>> => /\ Queued' = detached /\ outgoing_queue' = <<>> /\ wire' = <<>>
  BY <1>1, <1>4, <1>10 DEF Queued, IInv, PlaceInv
<1>12. mishaps' = {} =>
         inserted = IF Queued' = <<>> THEN PartsOf(wire)' ELSE QueueOf(Queued)'
  BY <1>1, <1>4, <1>5, <1>9 DEF ContentsInv
<1>13. PartsOf(wire)' = PartsOf(wire') /\ QueueOf(Queued)' = QueueOf(Queued')
  BY <1>5 DEF PartsOf, QueueOf, PartOf
<1>14. ASSUME wire' # <<>> PROVE Fits(envelope, Made', PartsOf(wire'))
  <2> DEFINE slot == [i \in 1 .. Len(wire') |-> wire'[i].part]
  <2>1. /\ slot \in Seq(Nat) /\ Len(slot) = Len(wire')
        /\ \A i \in 1 .. Len(wire') : slot[i] = wire'[i].part
    <3>1. \A i \in 1 .. Len(wire') : wire'[i].part \in Nat
      <4>1. \A i \in 1 .. Len(wire') : wire'[i] \in Frame
        BY <1>6, SeqAt
      <4> QED
        BY <4>1 DEF Frame, Part
    <3>2. Len(wire') \in Nat
      BY <1>6
    <3> QED
      BY <3>1, <3>2
  <2>2. /\ PartsOf(wire') \in Seq(Id) /\ Len(PartsOf(wire')) = Len(wire')
        /\ \A i \in 1 .. Len(wire') : PartsOf(wire')[i] = content[wire'[i].part]
    BY DestroyEffect
  <2>3. Made'.clean => PartsOf(wire') = Made'.parts
    BY <1>5, <1>10, <1>12, <1>13, <1>14 DEF Made
  <2>4. \A n \in 1 .. envelope' : n <= Len(slot) /\ EnvCond' => slot[n] = n /\ n <= offered'
    <3> HIDE DEF slot
    <3> SUFFICES ASSUME NEW n \in 1 .. envelope', n <= Len(slot), EnvCond'
                 PROVE  slot[n] = n /\ n <= offered'
      OBVIOUS
    <3>1. wire'[n].part = n /\ n \in 1 .. Len(wire')
      <4>1. Len(wire') \in Nat /\ envelope' \in Nat
        BY <1>4, <1>6, EnvelopesAssumption DEF IInv, TypeOK
      <4> QED
        BY <1>4, <2>1, <4>1 DEF EnvInv
    <3>2. slot[n] = wire'[n].part
      BY <2>1, <3>1
    <3>3. wire'[n].part <= offered'
      BY <1>6, <3>1
    <3> QED
      BY <3>1, <3>2, <3>3
  <2> HIDE DEF slot
  <2>5. /\ PartsOf(wire') \in Seq(Id) /\ Len(PartsOf(wire')) = Len(slot)
        /\ \A i \in 1 .. Len(slot) :
             slot[i] # NoPart => PartsOf(wire')[i] = content[slot[i]]
    BY <2>1, <2>2
  <2>6. TypeInv' /\ EnvInv' /\ ContentInv' /\ phase' = "dead" /\ content' = content
    BY <1>1, <1>3, <1>4, <1>5
  <2>7. slot \in Seq(Nat)
    BY <2>1
  <2>8. Fits(envelope', Made', PartsOf(wire'))
    BY SMTT(30), <2>3, <2>4, <2>5, <2>6, <2>7, FitsFirst
  <2> QED
    BY <1>1, <2>8
<1>15. ASSUME detached # <<>> PROVE Fits(envelope, Made', QueueOf(detached))
  <2>1. /\ detached \in Seq(Slot) /\ detached \in Seq(Nat)
        /\ \A i \in 1 .. Len(detached) : detached[i] <= Len(content)
    BY <1>1, <1>6, <1>11, <1>15 DEF Slot
  <2>2. /\ QueueOf(detached) \in Seq(Id) /\ Len(QueueOf(detached)) = Len(detached)
        /\ \A i \in 1 .. Len(detached) : QueueOf(detached)[i] = PartOf(detached[i])
    BY <1>6, <2>1, QueueOfType
  <2>3. Made'.clean => QueueOf(detached) = Made'.parts
    BY <1>5, <1>11, <1>12, <1>13, <1>15 DEF Made
  <2>4. \A n \in 1 .. envelope' : n <= Len(detached) /\ EnvCond' =>
          detached[n] = n /\ n <= offered'
    <3> SUFFICES ASSUME NEW n \in 1 .. envelope', n <= Len(detached), EnvCond'
                 PROVE  detached[n] = n /\ n <= offered'
      OBVIOUS
    <3>1. detached[n] = n /\ n \in 1 .. Len(detached)
      <4>1. Len(detached) \in Nat /\ envelope' \in Nat
        BY <1>4, <2>1, EnvelopesAssumption DEF IInv, TypeOK
      <4> QED
        BY <1>4, <1>11, <1>15, <4>1 DEF EnvInv
    <3> QED
      BY <1>6, <1>11, <1>15, <3>1
  <2>5. \A i \in 1 .. Len(detached) : detached[i] # NoPart =>
          QueueOf(detached)[i] = content[detached[i]]
    BY <2>2 DEF PartOf
  <2>6. Fits(envelope', Made', QueueOf(detached))
    BY <1>1, <1>3, <1>4, <1>5, <2>1, <2>2, <2>3, <2>4, <2>5, FitsFirst
  <2> QED
    BY <1>1, <2>6
<1>16. Made'.clean /\ inserted # <<>> => (wire' # <<>> /\ Terminated') \/ Queued' # <<>>
  <2> SUFFICES ASSUME mishaps' = {}, inserted # <<>>, Queued' = <<>>
               PROVE  wire' # <<>> /\ Terminated'
    BY DEF Made
  <2>1. inserted = PartsOf(wire')
    BY <1>12, <1>13
  <2>2. wire' # <<>>
    BY <2>1 DEF PartsOf
  <2> QED
    BY <1>4, <1>9, <2>2 DEF HeldAlways, MidMessage, Terminated
<1> QED
  BY <1>8, <1>10, <1>11, <1>14, <1>15, <1>16

\* The destructor: the message on the wire is whole, or the queue that was
\* detached is what was composed.
LEMMA AllDestroy ==
  ASSUME TypeInv, OneInv, AllInv, ReplyDestroy
  PROVE  AllInv'
<1> DEFINE c == Len(composed) + 1
           n == Len(queues)
           k == Len(peers)
           message == [reply |-> Current, parts |-> PartsOf(wire'), closed |-> Terminated']
<1>1. /\ Alive /\ phase' = "dead" /\ sending = 0 /\ sending' = 0
      /\ phase # "aborted"
      /\ UNCHANGED <<queues, envelope, ctx_term, intact, inserted, detached, content>>
      /\ composed' = Append(composed, Made')
      /\ seen' = seen \cup {<<Current, content[notified'[i]]>> : i \in DOMAIN notified'}
  BY DestroyEffect DEF ReplyDestroy, Destroy, config, composition, Made, Alive
<1>2. /\ composed \in Seq(Composed) /\ Len(composed) \in Nat /\ c \in Nat /\ c \in 1 .. c
      /\ Made' \in Composed /\ Current = c /\ k \in Nat /\ n \in Nat
      /\ peers \in Seq(Message)
  BY <1>1 DEF TypeInv, ReplyTypeOK, Made, Composed, Current
<1>3. /\ Len(composed') = c /\ composed'[c] = Made' /\ Current' = c + 1
      /\ \A r \in 1 .. Len(composed) : composed'[r] = composed[r]
      /\ \A r \in 1 .. c : r = c \/ r \in 1 .. Len(composed)
      /\ \A r \in 1 .. Len(composed) : r \in 1 .. c /\ r # c
  <2>1. /\ Len(composed') = c /\ composed'[c] = Made'
        /\ \A r \in 1 .. Len(composed) : composed'[r] = composed[r]
    BY <1>1, <1>2, Appended
  <2> QED
    BY <1>2, <2>1 DEF Current
<1> HIDE DEF c
<1>4. /\ wire' = <<>> => peers' = peers
      /\ wire' # <<>> =>
           /\ Len(peers') = k + 1 /\ peers'[k + 1] = message
           /\ \A m \in 1 .. k : peers'[m] = peers[m]
           /\ \A m \in 1 .. k + 1 : m = k + 1 \/ m \in 1 .. k
  <2> SUFFICES ASSUME wire' # <<>>
               PROVE  /\ Len(peers') = k + 1 /\ peers'[k + 1] = message
                      /\ \A m \in 1 .. k : peers'[m] = peers[m]
                      /\ \A m \in 1 .. k + 1 : m = k + 1 \/ m \in 1 .. k
    BY DestroyEffect
  <2>1. peers' = Append(peers, message)
    BY DestroyEffect
  <2>2. message \in Message
    <3>1. Terminated' \in BOOLEAN
      BY DestroyEffect DEF Terminated, IInv, TypeOK, Frame
    <3> QED
      BY <1>2, <3>1, DestroyEffect DEF Message
  <2> HIDE DEF message
  <2> QED
    BY <1>2, <2>1, <2>2, Appended
<1>5. message.reply = c /\ message.parts = PartsOf(wire') /\ message.closed = Terminated'
  BY <1>2
<1> HIDE DEF message, n, k
<1>6. /\ \A m \in 1 .. k : peers[m].reply \in 1 .. Len(composed) /\ peers[m].reply # c
      /\ \A q \in 1 .. n : queues[q].reply \in 1 .. c
      /\ \A p, q \in 1 .. n : p < q => queues[p].reply < queues[q].reply
      /\ \A q \in 1 .. n : queues[q].reply = c =>
           detached # <<>> /\ queues[q].parts = QueueOf(detached)
      /\ detached # <<>> => \E q \in 1 .. n : queues[q].reply = c
  <2>1. /\ \A m \in 1 .. k : peers[m].reply \in 1 .. Len(composed)
        /\ \A q \in 1 .. n : queues[q].reply \in 1 .. Current
        /\ \A p, q \in 1 .. n : p < q => queues[p].reply < queues[q].reply
        /\ \A q \in 1 .. n : queues[q].reply = Current =>
             detached # <<>> /\ queues[q].parts = QueueOf(detached)
        /\ detached # <<>> => \E q \in 1 .. n : queues[q].reply = Current
    BY <1>1 DEF AllInv, CurrentInv, DetachedInv, k, n
  <2> QED
    BY <1>2, <1>3, <2>1
<1>7. /\ wire' # <<>> => /\ Queued' = <<>> /\ (Terminated' \/ ctx_term)
                         /\ Fits(envelope, Made', PartsOf(wire'))
      /\ detached # <<>> => /\ wire' = <<>> /\ outgoing_queue' = <<>>
                            /\ Fits(envelope, Made', QueueOf(detached))
      /\ Made'.clean /\ inserted # <<>> =>
           (wire' # <<>> /\ Terminated') \/ Queued' # <<>>
      /\ ctx_term => wire' = wire
  BY Destroyed
<1>8. QueuesFit'
  <2> SUFFICES ASSUME NEW q \in 1 .. n
               PROVE  \E orig \in Seq(Id) :
                        /\ Fits(envelope, composed'[queues[q].reply], orig)
                        /\ Matches(orig, queues[q].parts, 0, ctx_term)
                        /\ \A i \in 1 .. 0 : peers'[Len(peers')].parts[i] = orig[i]
    BY <1>1 DEF QueuesFit, SentOf, n
  <2>1. \A i \in 1 .. 0 : FALSE
    OBVIOUS
  <2>2. CASE queues[q].reply = c
    <3>1. detached # <<>> /\ queues[q].parts = QueueOf(detached)
      BY <1>6, <2>2
    <3>2. QueueOf(detached) \in Seq(Id)
      <4>1. queues \in Seq(Kept)
        BY DEF TypeInv, ReplyTypeOK, Kept
      <4> QED
        BY <3>1, <4>1, KeptAt DEF n
    <3>3. Matches(QueueOf(detached), QueueOf(detached), 0, ctx_term)
      BY DEF Matches
    <3> QED
      BY <1>3, <1>7, <2>1, <2>2, <3>1, <3>2, <3>3
  <2>3. CASE queues[q].reply # c
    <3>1. queues[q].reply \in 1 .. Len(composed) /\ queues[q].reply <= Len(composed)
      BY <1>2, <1>3, <1>6, <2>3
    <3>2. PICK orig \in Seq(Id) : /\ Fits(envelope, composed[queues[q].reply], orig)
                                  /\ Matches(orig, queues[q].parts, SentOf(q), ctx_term)
      BY <3>1 DEF AllInv, QueuesFit, n
    <3>3. SentOf(q) = 0
      BY <1>1 DEF SentOf
    <3> QED
      BY <1>3, <2>1, <3>1, <3>2, <3>3
  <2> QED
    BY <2>2, <2>3
<1>9. \A m \in 1 .. Len(peers') :
        \/ m \in 1 .. k /\ peers'[m] = peers[m]
           /\ composed'[peers[m].reply] = composed[peers[m].reply]
           /\ peers[m].reply \in 1 .. Len(composed)
        \/ wire' # <<>> /\ m = k + 1 /\ peers'[m] = message
  <2> SUFFICES ASSUME NEW m \in 1 .. Len(peers')
               PROVE  \/ m \in 1 .. k /\ peers'[m] = peers[m]
                      \/ wire' # <<>> /\ m = k + 1 /\ peers'[m] = message
    BY <1>3, <1>6
  <2> QED
    BY <1>4 DEF k
<1>10. PeersFit'
  <2> SUFFICES ASSUME NEW m \in 1 .. Len(peers'), peers'[m].closed
               PROVE  Fits(envelope, composed'[peers'[m].reply], peers'[m].parts)
    BY <1>1 DEF PeersFit
  <2>1. CASE m \in 1 .. k /\ peers'[m] = peers[m]
             /\ composed'[peers[m].reply] = composed[peers[m].reply]
    BY <2>1 DEF AllInv, PeersFit, k
  <2>2. CASE wire' # <<>> /\ peers'[m] = message
    BY <1>3, <1>5, <1>7, <2>2
  <2> QED
    BY <1>9, <2>1, <2>2
<1>11. PeersSeen'
  <2>1. \A i \in 1 .. sending' : FALSE
    BY <1>1
  <2> SUFFICES ASSUME NEW m \in 1 .. Len(peers'), peers'[m].closed,
                      composed'[peers'[m].reply].intact,
                      envelope # 1 \/ ~composed'[peers'[m].reply].failed,
                      NEW i \in 1 .. Len(peers'[m].parts),
                      peers'[m].parts[i].from # "routing"
               PROVE  <<peers'[m].reply, peers'[m].parts[i]>> \in seen'
    BY <1>1, <2>1 DEF PeersSeen, WholeEnvelope
  <2>2. CASE m \in 1 .. k /\ peers'[m] = peers[m]
             /\ composed'[peers[m].reply] = composed[peers[m].reply]
    <3>1. WholeEnvelope(peers[m].reply)
      BY <1>1, <2>2 DEF WholeEnvelope
    <3> QED
      BY <1>1, <2>2, <3>1 DEF AllInv, PeersSeen, k
  <2>3. CASE wire' # <<>> /\ peers'[m] = message
    <3>1. EnvCond'
      <4>1. Made'.intact = intact' /\ Made'.failed = ("error" \in mishaps')
        BY DEF Made
      <4>2. Made'.intact /\ (envelope # 1 \/ ~Made'.failed)
        BY <1>3, <1>5, <2>3
      <4> QED
        BY <1>1, <4>1, <4>2 DEF EnvCond
    <3>2. TypeInv' /\ ObsLive' /\ ContentInv'
      BY TypeStep, OneStep DEF ReplyNext, OneInv
    <3>3. /\ i \in 1 .. Len(wire') /\ message.parts[i] = content[wire'[i].part]
          /\ wire'[i].part \in 1 .. offered /\ offered' = offered
          /\ offered \in Nat /\ envelope \in Nat
      BY <1>5, <2>3, DestroyEffect, EnvelopesAssumption
         DEF ReplyDestroy, Destroy, TypeInv, IInv, TypeOK
    <3>4. wire'[i].part > envelope
      <4> SUFFICES ASSUME wire'[i].part <= envelope PROVE FALSE
        BY <3>3
      <4>1. content'[wire'[i].part] = Of("routing", wire'[i].part)
        BY <1>1, <3>1, <3>2, <3>3 DEF ContentInv, EnvCond
      <4> QED
        BY <1>1, <2>3, <3>3, <4>1 DEF Of
    <3>5. PICK j \in 1 .. Len(notified') : notified'[j] = wire'[i].part
      BY <1>1, <3>1, <3>2, <3>3, <3>4 DEF ObsLive
    <3>6. j \in DOMAIN notified'
      BY <3>2, <3>5, SeqAt DEF TypeInv, IInv, TypeOK
    <3>7. <<Current, content[notified'[j]]>> \in seen'
      BY <1>1, <3>6
    <3> QED
      BY <1>2, <1>5, <2>3, <3>3, <3>5, <3>7
  <2> QED
    BY <1>9, <2>2, <2>3
<1>12. CurrentInv'
  <2>1. \A q \in 1 .. n : queues[q].reply \in 1 .. c + 1 /\ queues[q].reply <= c
    BY <1>2, <1>6
  <2>2. \A m \in 1 .. Len(peers') : peers'[m].reply \in 1 .. c
    BY <1>2, <1>3, <1>5, <1>9
  <2> QED
    BY <1>1, <1>3, <1>6, <2>1, <2>2 DEF CurrentInv, n
<1>13. DetachedInv'
  BY <1>1 DEF DetachedInv, Alive
<1>14. OnceInv'
  <2>1. /\ \A m, j \in 1 .. k :
             peers[m].closed /\ peers[j].closed /\ peers[m].reply = peers[j].reply => m = j
        /\ \A m \in 1 .. k, q \in 1 .. n : peers[m].closed => peers[m].reply # queues[q].reply
    BY DEF AllInv, OnceInv, k, n
  <2>2. \A m, j \in 1 .. Len(peers') :
          peers'[m].closed /\ peers'[j].closed /\ peers'[m].reply = peers'[j].reply => m = j
    BY <1>5, <1>6, <1>9, <2>1
  <2>3. \A m \in 1 .. Len(peers'), q \in 1 .. n :
          peers'[m].closed => peers'[m].reply # queues[q].reply
    BY <1>5, <1>6, <1>7, <1>9, <2>1
  <2> QED
    BY <1>1, <2>2, <2>3 DEF OnceInv, n
<1>15. PartialInv'
  <2>1. sending' = 0 /\ ~Alive'
    BY <1>1 DEF Alive
  <2> SUFFICES ASSUME NEW m \in 1 .. Len(peers'), ~peers'[m].closed
               PROVE  m = Len(peers') /\ ctx_term
    BY <1>1, <2>1 DEF PartialInv
  <2>2. CASE m \in 1 .. k /\ peers'[m] = peers[m]
    <3>1. m = k /\ ctx_term /\ wire = <<>>
      BY <1>1, <2>2 DEF AllInv, PartialInv, k
    <3>2. peers' = peers
      BY <1>4, <1>7, <3>1
    <3> QED
      BY <3>1, <3>2 DEF k
  <2>3. CASE wire' # <<>> /\ m = k + 1 /\ peers'[m] = message
    BY <1>4, <1>5, <1>7, <2>3
  <2> QED
    BY <1>9, <2>2, <2>3
<1>16. FatesInv'
  <2> SUFFICES ASSUME NEW r \in 1 .. c, composed'[r].clean, composed'[r].parts # <<>>
               PROVE  IF composed'[r].deleted
                      THEN /\ \A m \in 1 .. Len(peers') : peers'[m].closed => peers'[m].reply # r
                           /\ \A q \in 1 .. n : queues[q].reply # r
                      ELSE \/ \E m \in 1 .. Len(peers') : peers'[m].closed /\ peers'[m].reply = r
                           \/ \E q \in 1 .. n : queues[q].reply = r
    BY <1>1, <1>3 DEF FatesInv, n
  <2>0. \A m \in 1 .. k : m \in 1 .. Len(peers') /\ peers'[m] = peers[m]
    BY <1>2, <1>4 DEF k
  <2>1. CASE r # c
    <3>1. r \in 1 .. Len(composed) /\ composed'[r] = composed[r]
      BY <1>3, <2>1
    <3>2. IF composed[r].deleted
          THEN /\ \A m \in 1 .. k : peers[m].closed => peers[m].reply # r
               /\ \A q \in 1 .. n : queues[q].reply # r
          ELSE \/ \E m \in 1 .. k : peers[m].closed /\ peers[m].reply = r
               \/ \E q \in 1 .. n : queues[q].reply = r
      BY <1>1, <3>1 DEF AllInv, FatesInv, k, n
    <3> QED
      BY <1>5, <1>9, <2>0, <2>1, <3>1, <3>2
  <2>2. CASE r = c
    <3>1. /\ Made'.clean /\ inserted # <<>> /\ composed'[r] = Made'
          /\ Made'.deleted = (outgoing_queue' # <<>>)
      <4>1. Made'.parts = inserted
        BY <1>1 DEF Made
      <4>2. Made'.deleted = (outgoing_queue' # <<>>)
        BY DEF Made
      <4> QED
        BY <1>3, <2>2, <4>1, <4>2
    <3>2. CASE outgoing_queue' # <<>>
      <4>1. detached = <<>>
        BY <1>7, <3>2
      <4>2. wire' = <<>>
        BY <1>1, <1>7, <3>2, <4>1 DEF Queued
      <4> QED
        BY <1>4, <1>6, <2>2, <3>1, <3>2, <4>1, <4>2 DEF k
    <3>3. CASE outgoing_queue' = <<>> /\ detached # <<>>
      BY <1>6, <2>2, <3>1, <3>3
    <3>4. CASE outgoing_queue' = <<>> /\ detached = <<>>
      <4>1. wire' # <<>> /\ Terminated'
        BY <1>1, <1>7, <3>1, <3>4 DEF Queued
      <4>2. k + 1 \in 1 .. Len(peers')
        BY <1>2, <1>4, <4>1
      <4> QED
        BY <1>4, <1>5, <2>2, <3>1, <3>4, <4>1, <4>2
    <3> QED
      BY <3>2, <3>3, <3>4
  <2> QED
    BY <2>1, <2>2
<1> QED
  BY <1>8, <1>10, <1>11, <1>12, <1>13, <1>14, <1>15, <1>16 DEF AllInv

\* Every step keeps the invariant over all replies.
LEMMA AllStep ==
  ASSUME TypeInv, OneInv, AllInv, [ReplyNext]_replyVars
  PROVE  AllInv'
BY Steps, AllInsert, AllFlush, AllDetach, AllDestroy, AllNext, AllResend, AllFails,
   AllRelease, AllOther

\* At the start there is no finished reply.
LEMMA InitAll == ReplyInit => AllInv
<1> SUFFICES ASSUME ReplyInit PROVE AllInv
  OBVIOUS
<1>1. /\ queues = <<>> /\ peers = <<>> /\ sending = 0 /\ composed = <<>>
      /\ detached = <<>>
      /\ Len(queues) = 0 /\ Len(peers) = 0 /\ Len(composed) = 0
  BY DEF ReplyInit, Init
<1> QED
  BY <1>1 DEF AllInv, QueuesFit, PeersFit, PeersSeen, CurrentInv, DetachedInv, OnceInv,
              PartialInv, FatesInv

RInv == TypeInv /\ OneInv /\ AllInv

\* The inductive invariant of the worker: every finished composition is where
\* FatesInv says, and what is there is what was composed.
THEOREM ReplyInductive == ReplySpec => []RInv
<1>1. ReplyInit => RInv
  BY InitTypeInv, InitOne, InitAll DEF RInv
<1>2. RInv /\ [ReplyNext]_replyVars => RInv'
  BY TypeStep, OneStep, AllStep DEF RInv
<1> QED
  BY <1>1, <1>2, PTL DEF ReplySpec

\* A set none of whose elements differ is empty or a singleton.
LEMMA OneOrNone ==
  ASSUME NEW S, \A x, y \in S : x = y
  PROVE  Cardinality(S) = IF S = {} THEN 0 ELSE 1
<1>1. CASE S = {}
  BY <1>1, FS_EmptySet
<1>2. CASE S # {}
  <2>1. PICK x : x \in S
    BY <1>2
  <2>2. S = {x}
    BY <2>1
  <2>3. Cardinality({x}) = 1
    BY FS_Singleton
  <2> QED
    BY <1>2, <2>2, <2>3
<1> QED
  BY <1>1, <1>2

\* The fate of a finished reply, as FatesInv and OnceInv say it, is the one of WholeReplies.
LEMMA WholeInv ==
  ASSUME RInv
  PROVE  WholeReplies
<1> DEFINE k == Len(peers)
           n == Len(queues)
<1>1. /\ DOMAIN peers = 1 .. k /\ DOMAIN queues = 1 .. n
      /\ DOMAIN composed = 1 .. Len(composed) /\ k \in Nat /\ n \in Nat
  BY DEF RInv, TypeInv, ReplyTypeOK
<1>2. \A m \in Delivered : m \in 1 .. k /\ peers[m].closed
  BY <1>1 DEF Delivered
<1>3. \A m \in 1 .. k : peers[m].closed => m \in Delivered
  BY <1>1 DEF Delivered
<1>4. /\ \A m, j \in 1 .. k :
           peers[m].closed /\ peers[j].closed /\ peers[m].reply = peers[j].reply => m = j
      /\ \A m \in 1 .. k, q \in 1 .. n : peers[m].closed => peers[m].reply # queues[q].reply
  BY DEF RInv, AllInv, OnceInv
<1>5. \A p, q \in 1 .. n : queues[p].reply = queues[q].reply => p = q
  <2>1. /\ \A q \in 1 .. n : queues[q].reply \in 1 .. Current
        /\ \A p, q \in 1 .. n : p < q => queues[p].reply < queues[q].reply
    BY DEF RInv, AllInv, CurrentInv
  <2> SUFFICES ASSUME NEW p \in 1 .. n, NEW q \in 1 .. n, queues[p].reply = queues[q].reply
               PROVE  p = q
    OBVIOUS
  <2>2. queues[p].reply \in Int /\ queues[q].reply \in Int
    BY <2>1
  <2>3. ~(p < q) /\ ~(q < p)
    BY <2>1, <2>2
  <2> QED
    BY <1>1, <2>3
<1>6. \A m \in Delivered : composed[peers[m].reply].clean =>
        peers[m].parts = composed[peers[m].reply].parts
  BY <1>2 DEF RInv, AllInv, PeersFit, Fits
<1> HIDE DEF k, n
<1>7. ASSUME phase # "aborted",
             NEW r \in 1 .. Len(composed), composed[r].clean, composed[r].parts # <<>>
      PROVE  Cardinality({m \in Delivered : peers[m].reply = r})
             + Cardinality({q \in DOMAIN queues : queues[q].reply = r})
               = IF composed[r].deleted THEN 0 ELSE 1
  <2> DEFINE sent == {m \in Delivered : peers[m].reply = r}
             held == {q \in DOMAIN queues : queues[q].reply = r}
  <2>1. \A m, j \in sent : m = j
    BY <1>2, <1>4
  <2>2. \A p, q \in held : p = q
    BY <1>1, <1>5
  <2>3. sent = {} \/ held = {}
    BY <1>1, <1>2, <1>4
  <2>4. IF composed[r].deleted
        THEN /\ \A m \in 1 .. k : peers[m].closed => peers[m].reply # r
             /\ \A q \in 1 .. n : queues[q].reply # r
        ELSE \/ \E m \in 1 .. k : peers[m].closed /\ peers[m].reply = r
             \/ \E q \in 1 .. n : queues[q].reply = r
    BY <1>7 DEF RInv, AllInv, FatesInv, k, n
  <2>5. IF composed[r].deleted THEN sent = {} /\ held = {} ELSE sent # {} \/ held # {}
    BY <1>1, <1>2, <1>3, <2>4
  <2> HIDE DEF sent, held
  <2>6. /\ Cardinality(sent) = IF sent = {} THEN 0 ELSE 1
        /\ Cardinality(held) = IF held = {} THEN 0 ELSE 1
    BY <2>1, <2>2, OneOrNone
  <2>7. Cardinality(sent) + Cardinality(held) = IF composed[r].deleted THEN 0 ELSE 1
    BY <2>3, <2>5, <2>6
  <2> QED
    BY <2>7 DEF sent, held
<1>8. ASSUME NEW m \in DOMAIN peers \ Delivered
      PROVE  m = Len(peers) /\ (sending > 0 \/ ctx_term)
  <2>1. m \in 1 .. Len(peers) /\ ~peers[m].closed
    BY <1>1, <1>3 DEF k
  <2> QED
    BY <2>1 DEF RInv, AllInv, PartialInv
<1> QED
  BY <1>1, <1>6, <1>7, <1>8 DEF WholeReplies

\* A finished Outgoing whose calls all returned has one fate until the process
\* ends, and what dst_ has of it are the parts that were inserted: however many
\* queues are kept and sent, and whatever was released in between.
THEOREM WholeRepliesThm == ReplySpec => []WholeReplies
<1>1. RInv => WholeReplies
  BY WholeInv
<1> QED
  BY <1>1, ReplyInductive, PTL

\* A delivered message and the reply it belongs to.
LEMMA DeliveredAt ==
  ASSUME TypeInv, NEW m \in Delivered
  PROVE  /\ m \in 1 .. Len(peers) /\ peers[m].closed
         /\ DOMAIN peers[m].parts = 1 .. Len(peers[m].parts)
<1>1. peers \in Seq(Message)
  BY DEF TypeInv, ReplyTypeOK
<1>2. m \in 1 .. Len(peers) /\ peers[m].closed /\ peers[m] \in Message
  BY <1>1, SeqAt DEF Delivered
<1>3. peers[m].parts \in Seq(Id)
  BY <1>2 DEF Message
<1> QED
  BY <1>2, <1>3, SeqAt

\* A message with payload starts with the envelope, by whatever way it went.
THEOREM EnvelopeFirstThm == ReplySpec => []EnvelopeFirst
<1>1. RInv => EnvelopeFirst
  <2> SUFFICES ASSUME RInv, NEW m \in Delivered, WholeEnvelope(peers[m].reply),
                      \E i \in DOMAIN peers[m].parts : peers[m].parts[i].from # "routing"
               PROVE  /\ Len(peers[m].parts) > envelope
                      /\ \A j \in 1 .. envelope : peers[m].parts[j] = Of("routing", j)
    BY DEF EnvelopeFirst
  <2>1. /\ m \in 1 .. Len(peers) /\ peers[m].closed
        /\ DOMAIN peers[m].parts = 1 .. Len(peers[m].parts)
    BY DeliveredAt DEF RInv
  <2>2. Fits(envelope, composed[peers[m].reply], peers[m].parts)
    BY <2>1 DEF RInv, AllInv, PeersFit
  <2> QED
    BY <2>1, <2>2 DEF Fits, WholeEnvelope
<1> QED
  BY <1>1, ReplyInductive, PTL

\* The observer was shown each payload part that a peer received.
THEOREM ObservedThm == ReplySpec => []Observed
<1>1. RInv => Observed
  <2> SUFFICES ASSUME RInv, NEW m \in Delivered, NEW i \in DOMAIN peers[m].parts,
                      WholeEnvelope(peers[m].reply), peers[m].parts[i].from # "routing"
               PROVE  <<peers[m].reply, peers[m].parts[i]>> \in seen
    BY DEF Observed
  <2>1. /\ m \in 1 .. Len(peers) /\ peers[m].closed /\ i \in 1 .. Len(peers[m].parts)
    BY DeliveredAt DEF RInv
  <2> QED
    BY <2>1 DEF RInv, AllInv, PeersSeen
<1> QED
  BY <1>1, ReplyInductive, PTL

-----------------------------------------------------------------------------
(* One place.  A spot is a place, except that a part in the Outgoing that is *)
(* alive is at the number of its insertion, wherever the Sink has that.      *)

Tracked == {Of("routing", n) : n \in 1 .. envelope} \cup {Of("request", i) : i \in Linked}

Hand(p) ==
  \/ \E n \in 1 .. envelope : routing[n] /\ p = Of("routing", n)
  \/ \E i \in Linked : incoming[i] /\ p = Of("request", i)

LiveSlot(s) ==
  /\ s \in Nat \ {NoPart}
  /\ \/ s = cached
     \/ \E i \in 1 .. Len(wire) : wire[i].part = s
     \/ \E i \in 1 .. Len(outgoing_queue) : outgoing_queue[i] = s

Spot(p, kind, m, i) ==
  \/ kind = "hand" /\ m = 0 /\ i = 0 /\ Hand(p)
  \/ kind = "released" /\ m = 0 /\ i = 0 /\ p \in released
  \/ kind = "slot" /\ i = 0 /\ Alive /\ LiveSlot(m) /\ content[m] = p
  \/ /\ kind = "peer" /\ m \in 1 .. Len(peers) /\ i \in 1 .. Len(peers[m].parts)
     /\ peers[m].parts[i] = p
  \/ /\ kind = "kept" /\ m \in 1 .. Len(queues) /\ i \in 1 .. Len(queues[m].parts)
     /\ queues[m].parts[i] = p

SpotInv ==
  \A p \in Tracked \ copied : \A k, m, i, l, n, j :
    Spot(p, k, m, i) /\ Spot(p, l, n, j) => k = l /\ m = n /\ i = j

\* The parts that are tracked are none of those that stand for another thing.
LEMMA TrackedParts ==
  ASSUME TypeInv, NEW p \in Tracked
  PROVE  /\ p # Gone /\ p # Empty /\ p.from \in {"routing", "request"}
         /\ p \in Id
         /\ \A n \in Nat : p = Of("routing", n) => n \in 1 .. envelope
BY LinkedAssumption DEF Tracked, Gone, Empty, Of, Id, Origin

\* A step that puts nothing anywhere.
LEMMA SpotsLess ==
  ASSUME SpotInv, copied \subseteq copied', envelope' = envelope,
         \A p \in Tracked : \A k, m, i : Spot(p, k, m, i)' => Spot(p, k, m, i)
  PROVE  SpotInv'
<1> SUFFICES ASSUME NEW p \in Tracked \ copied', NEW k, NEW m, NEW i, NEW l, NEW n, NEW j,
                    Spot(p, k, m, i)', Spot(p, l, n, j)'
             PROVE  k = l /\ m = n /\ i = j
  BY DEF SpotInv, Tracked
<1> QED
  BY DEF SpotInv

\* The slots that the Sink holds.
LEMMA LiveFlush ==
  ASSUME TypeInv, flush
  PROVE  \A s : LiveSlot(s)' => LiveSlot(s)
<1>1. (Closed /\ state' = "FLUSHED" /\ cached' = NoPart) \/ NotClosed
  BY FlushMoves DEF TypeInv, IInv
<1>2. wire \in Seq(Frame) /\ outgoing_queue \in Seq(Slot) /\ cached \in Nat
  BY DEF TypeInv, IInv, TypeOK, Slot
<1>3. CASE Closed /\ cached' = NoPart
  <2>1. CASE Push(TRUE)
    <3>1. outgoing_queue' = outgoing_queue /\ cached # NoPart
          /\ wire' = Append(wire, [part |-> cached, more |-> FALSE])
      BY <2>1 DEF Push
    <3>2. /\ Len(wire') = Len(wire) + 1 /\ wire'[Len(wire) + 1].part = cached
          /\ \A i \in 1 .. Len(wire) : wire'[i] = wire[i]
      BY <1>2, <3>1, WireGrows DEF Part
    <3>3. \A i \in 1 .. Len(wire') : i = Len(wire) + 1 \/ i \in 1 .. Len(wire)
      BY <1>2, <3>2
    <3> QED
      BY <1>3, <3>1, <3>2, <3>3 DEF LiveSlot
  <2>2. CASE outgoing_queue' = <<cached>> /\ wire' = wire
    BY <1>2, <1>3, <2>2 DEF LiveSlot
  <2>3. CASE Rest
    BY <1>3, <2>3 DEF LiveSlot, Rest
  <2> QED
    BY <1>3, <2>1, <2>2, <2>3 DEF Closed
<1>4. CASE NotClosed
  BY <1>4 DEF NotClosed, Rest, LiveSlot
<1> QED
  BY <1>1, <1>3, <1>4

\* An insertion takes a part from the Incoming, if it is not copied, and puts it in the Sink.
LEMMA LiveInsert ==
  ASSUME TypeInv, NEW owned \in {NewPart, NoPart}, NEW part \in Id, Inserts(owned, part)
  PROVE  /\ \A s : LiveSlot(s)' => LiveSlot(s) \/ (s = NewPart /\ owned = NewPart
                                                  /\ state # "FLUSHED" /\ Moved(NewPart))
         /\ \A s : LiveSlot(s) => s <= offered
<1>1. (Taken(owned) /\ Return) \/ Refused
  BY SendMoves DEF Inserts
<1>2. /\ wire \in Seq(Frame) /\ outgoing_queue \in Seq(Slot) /\ cached \in Nat
      /\ offered \in Nat
  BY DEF TypeInv, IInv, TypeOK, Slot
<1>3. /\ \A i \in 1 .. Len(wire) : wire[i].part <= offered
      /\ \A i \in 1 .. Len(outgoing_queue) : outgoing_queue[i] <= offered
      /\ cached <= offered
  <2>1. CASE detached = <<>>
    BY <2>1 DEF TypeInv, IInv, OrderInv, Queued
  <2>2. CASE detached # <<>>
    <3>1. outgoing_queue = <<>> /\ Len(outgoing_queue) = 0
      BY <2>2 DEF TypeInv, IInv, PlaceInv
    <3> QED
      BY <3>1 DEF TypeInv, IInv, OrderInv
  <2> QED
    BY <2>1, <2>2
<1>4. \A s : LiveSlot(s) => s <= offered
  BY <1>3 DEF LiveSlot
<1> SUFFICES ASSUME NEW s, LiveSlot(s)'
             PROVE  LiveSlot(s) \/ (s = NewPart /\ owned = NewPart /\ state # "FLUSHED"
                                    /\ Moved(NewPart))
  BY <1>4
<1>5. CASE Refused
  BY <1>5 DEF Refused, Rest, LiveSlot
<1>6. CASE Taken(owned)
  <2>1. state # "FLUSHED"
    BY <1>6 DEF Taken, Push
  <2>2. CASE cached' = owned /\ Rest
    BY <1>2, <2>1, <2>2 DEF LiveSlot, Rest, Moved
  <2>3. CASE Push(FALSE) /\ cached' = owned
    <3>1. outgoing_queue' = outgoing_queue /\ cached # NoPart
          /\ wire' = Append(wire, [part |-> cached, more |-> TRUE])
      BY <2>3 DEF Push
    <3>2. /\ Len(wire') = Len(wire) + 1 /\ wire'[Len(wire) + 1].part = cached
          /\ \A i \in 1 .. Len(wire) : wire'[i] = wire[i]
      BY <1>2, <3>1, WireGrows DEF Part
    <3>3. \A i \in 1 .. Len(wire') : i = Len(wire) + 1 \/ i \in 1 .. Len(wire)
      BY <1>2, <3>2
    <3> QED
      BY <1>2, <2>1, <2>3, <3>1, <3>2, <3>3 DEF LiveSlot, Moved
  <2>4. CASE outgoing_queue' = <<cached, owned>> /\ cached' = NoPart /\ wire' = wire
             /\ state = "NOTSENT"
    <3>1. outgoing_queue = <<>>
      <4>1. Queued = <<>>
        BY <2>4 DEF TypeInv, IInv, PlaceInv
      <4> QED
        BY <4>1 DEF Queued
    <3>2. outgoing_queue' # outgoing_queue
      BY <2>4, <3>1
    <3>3. \A i \in 1 .. Len(outgoing_queue') : outgoing_queue'[i] \in {cached, owned}
      BY <2>4
    <3> QED
      BY <2>1, <2>4, <3>2, <3>3 DEF LiveSlot, Moved
  <2>5. CASE outgoing_queue' = Append(outgoing_queue, owned) /\ UNCHANGED <<wire, cached>>
    <3>1. /\ outgoing_queue' # outgoing_queue
          /\ \A i \in 1 .. Len(outgoing_queue') :
               outgoing_queue'[i] = owned
               \/ (i \in 1 .. Len(outgoing_queue) /\ outgoing_queue'[i] = outgoing_queue[i])
      <4>1. owned \in Slot
        BY <1>2 DEF Slot, NoPart, NewPart
      <4>2. /\ Len(outgoing_queue') = Len(outgoing_queue) + 1
            /\ \A i \in 1 .. Len(outgoing_queue) : outgoing_queue'[i] = outgoing_queue[i]
            /\ outgoing_queue'[Len(outgoing_queue) + 1] = owned
            /\ \A i \in 1 .. Len(outgoing_queue) + 1 :
                 i = Len(outgoing_queue) + 1 \/ i \in 1 .. Len(outgoing_queue)
        BY <1>2, <2>5, <4>1, Appended
      <4> QED
        BY <1>2, <4>2
    <3> QED
      BY <2>1, <2>5, <3>1 DEF LiveSlot, Moved
  <2> QED
    BY <1>6, <2>2, <2>3, <2>4, <2>5 DEF Taken
<1> QED
  BY <1>1, <1>4, <1>5, <1>6

\* An insertion moves a part from the hand of the worker into the Outgoing, or it
\* is a copy.
LEMMA SpotInsert ==
  ASSUME TypeInv, SpotInv, Inserting
  PROVE  SpotInv'
<1>1. PICK owned \in {NewPart, NoPart}, part \in Id : Inserts(owned, part)
  BY DEF Inserting
<1>2. /\ UNCHANGED <<peers, queues, released, envelope>> /\ Alive
      /\ phase \in {"ctor", "open"}
  BY <1>1 DEF Inserts, resend, Alive, send_owned, config
<1>3. /\ \A s : LiveSlot(s)' => LiveSlot(s) \/ (s = NewPart /\ owned = NewPart
                                               /\ state # "FLUSHED" /\ Moved(NewPart))
      /\ \A s : LiveSlot(s) => s \in 1 .. offered
  <2>1. \A s : LiveSlot(s) => s <= offered /\ s \in Nat \ {NoPart}
    BY <1>1, LiveInsert DEF LiveSlot
  <2>2. offered \in Nat
    BY DEF TypeInv, IInv, TypeOK
  <2> QED
    BY <1>1, <2>1, <2>2, LiveInsert DEF NoPart
<1>4. /\ \A s \in 1 .. offered : content'[s] = content[s]
      /\ state # "FLUSHED" => content'[NewPart] = part
  BY <1>1, InsertContent
<1>5. /\ routing \in [1 .. envelope -> BOOLEAN] /\ incoming \in [Linked -> BOOLEAN]
      /\ envelope \in Nat
  BY EnvelopesAssumption DEF TypeInv, ReplyTypeOK, IInv, TypeOK
<1>6. copied \subseteq copied'
  BY <1>1, <1>2 DEF Inserts, OfEnvelope, OfPayload
<1>7. /\ \A n \in 1 .. envelope : routing'[n] => routing[n]
      /\ \A i \in Linked : incoming'[i] => incoming[i]
  BY <1>1, <1>2, <1>5 DEF Inserts, OfEnvelope, OfPayload, RoutingAfter
<1>8. ASSUME NEW p \in Tracked \ copied', part = p, Moved(NewPart)
      PROVE  Hand(p) /\ ~Hand(p)'
  <2>1. /\ p # Gone /\ p # Empty /\ p.from \in {"routing", "request"}
        /\ \A n \in Nat : p = Of("routing", n) => n \in 1 .. envelope
    BY TrackedParts
  <2>2. CASE phase = "ctor"
    <3>1. OfEnvelope(owned, part)
      BY <1>1, <2>2 DEF Inserts
    <3>2. p = Of("routing", NewPart) /\ routing[NewPart]
      BY <1>8, <2>1, <3>1 DEF OfEnvelope
    <3>3. NewPart \in 1 .. envelope
      BY <2>1, <3>2 DEF NewPart, TypeInv, IInv, TypeOK
    <3>4. ~Copy
      BY <1>8, <3>1, <3>2 DEF OfEnvelope
    <3>5. routing' = [routing EXCEPT ![NewPart] = FALSE]
      BY <1>8, <3>1, <3>2, <3>4 DEF OfEnvelope, RoutingAfter
    <3>6. ~routing'[NewPart]
      BY <1>5, <3>3, <3>5
    <3> QED
      BY <1>2, <3>2, <3>3, <3>6 DEF Hand, Of
  <2>3. CASE phase = "open"
    <3>1. OfPayload(part)
      BY <1>1, <2>3 DEF Inserts
    <3>2. PICK i \in Linked :
            /\ incoming[i] /\ part = Of("request", i)
            /\ incoming' = IF ~Copy /\ Moved(NewPart)
                           THEN [incoming EXCEPT ![i] = FALSE] ELSE incoming
            /\ copied' = IF Copy THEN copied \cup {part} ELSE copied
      BY <1>8, <2>1, <3>1 DEF OfPayload
    <3>3. ~Copy
      BY <1>8, <3>2
    <3>4. ~incoming'[i]
      BY <1>5, <1>8, <3>2, <3>3
    <3>5. p = Of("request", i)
      BY <1>8, <3>2
    <3>6. Hand(p)
      BY <3>2, <3>5 DEF Hand
    <3>7. /\ \A n : Of("routing", n) # Of("request", i)
          /\ \A n : Of("request", n) = Of("request", i) => n = i
      BY DEF Of
    <3>8. ~Hand(p)'
      BY <3>4, <3>5, <3>7 DEF Hand
    <3> QED
      BY <3>6, <3>8
  <2> QED
    BY <1>2, <2>2, <2>3
<1>9. ASSUME NEW p \in Tracked \ copied', NEW k, NEW m, NEW i, Spot(p, k, m, i)'
      PROVE  \/ Spot(p, k, m, i)
             \/ k = "slot" /\ m = NewPart /\ i = 0 /\ Hand(p) /\ ~Hand(p)'
  <2>1. CASE k = "hand" /\ m = 0 /\ i = 0 /\ Hand(p)'
    <3>1. Hand(p)
      BY <1>2, <1>7, <2>1 DEF Hand
    <3> QED
      BY <2>1, <3>1 DEF Spot
  <2>2. CASE k = "slot" /\ i = 0 /\ LiveSlot(m)' /\ content'[m] = p
    <3>1. CASE LiveSlot(m)
      BY <1>2, <1>3, <1>4, <2>2, <3>1 DEF Spot
    <3>2. CASE m = NewPart /\ state # "FLUSHED" /\ Moved(NewPart)
      BY <1>4, <1>8, <2>2, <3>2
    <3> QED
      BY <1>3, <2>2, <3>1, <3>2
  <2>3. CASE k \in {"released", "peer", "kept"}
    BY <1>2, <1>9, <2>3 DEF Spot
  <2> QED
    BY <1>9, <2>1, <2>2, <2>3 DEF Spot
<1> SUFFICES ASSUME NEW p \in Tracked \ copied', NEW k, NEW m, NEW i, NEW l, NEW n, NEW j,
                    Spot(p, k, m, i)', Spot(p, l, n, j)'
             PROVE  k = l /\ m = n /\ i = j
  BY <1>2 DEF SpotInv, Tracked
<1>10. Hand(p) => Spot(p, "hand", 0, 0)
  BY DEF Spot
<1>11. (k = "hand" \/ l = "hand") => Hand(p)'
  BY DEF Spot
<1> QED
  BY <1>6, <1>9, <1>10, <1>11 DEF SpotInv

\* detach() takes the parts of the queue to the worker one by one.
LEMMA SpotDetach ==
  ASSUME TypeInv, SpotInv, ReplyDetach
  PROVE  SpotInv'
<1> DEFINE n0 == Len(queues)
           entry == [reply |-> Current, parts |-> QueueOf(outgoing_queue)]
<1>1. /\ UNCHANGED <<peers, composition, released, envelope, routing, incoming, copied, wire,
                     cached>>
      /\ phase = "open" /\ Alive /\ outgoing_queue # <<>> /\ outgoing_queue' = <<>>
      /\ queues' = Append(queues, entry)
  BY DEF ReplyDetach, Detach, past, config, socket, request, Alive
<1>2. detached = <<>> /\ Queued = outgoing_queue
  BY <1>1 DEF TypeInv, IInv, PlaceInv, Queued
<1>3. wire = <<>> /\ cached = NoPart /\ Len(wire) = 0
  BY <1>1, <1>2 DEF TypeInv, IInv, PlaceInv, TypeOK, State
<1>4. \A s : ~LiveSlot(s)'
  BY <1>1, <1>3 DEF LiveSlot
<1>5. /\ outgoing_queue \in Seq(Slot) /\ content \in Seq(Id)
      /\ \A i \in 1 .. Len(outgoing_queue) : outgoing_queue[i] <= Len(content)
      /\ \A i, j \in 1 .. Len(outgoing_queue) :
           i < j /\ outgoing_queue[j] # NoPart => outgoing_queue[i] < outgoing_queue[j]
  BY <1>2 DEF TypeInv, IInv, TypeOK, OrderInv, InOrder, ReplyTypeOK
<1>6. /\ QueueOf(outgoing_queue) \in Seq(Id)
      /\ Len(QueueOf(outgoing_queue)) = Len(outgoing_queue)
      /\ \A i \in 1 .. Len(outgoing_queue) :
           QueueOf(outgoing_queue)[i] = PartOf(outgoing_queue[i])
  BY <1>5, QueueOfType
<1>7. /\ Len(queues') = n0 + 1 /\ queues'[n0 + 1] = entry
      /\ \A q \in 1 .. n0 : queues'[q] = queues[q]
      /\ \A q \in 1 .. n0 + 1 : q = n0 + 1 \/ q \in 1 .. n0
  <2>1. queues \in Seq(Kept) /\ entry \in Kept
    BY <1>6 DEF TypeInv, ReplyTypeOK, Kept, Current
  <2> HIDE DEF entry
  <2> QED
    BY <1>1, <2>1, Appended
<1>8. entry.parts = QueueOf(outgoing_queue)
  OBVIOUS
<1> HIDE DEF entry, n0
<1>9. ASSUME NEW p \in Tracked \ copied, NEW k, NEW m, NEW i, Spot(p, k, m, i)'
      PROVE  \/ k # "slot" /\ Spot(p, k, m, i)
             \/ /\ k = "kept" /\ m = n0 + 1 /\ i \in 1 .. Len(outgoing_queue)
                /\ outgoing_queue[i] # NoPart /\ Spot(p, "slot", outgoing_queue[i], 0)
  <2>1. CASE k \in {"hand", "released", "peer"}
    BY <1>1, <1>9, <2>1 DEF Spot, Hand
  <2>2. CASE k = "kept"
    <3>1. /\ m \in 1 .. Len(queues') /\ i \in 1 .. Len(queues'[m].parts)
          /\ queues'[m].parts[i] = p
      BY <1>9, <2>2 DEF Spot
    <3>2. CASE m \in 1 .. n0
      BY <1>7, <2>2, <3>1, <3>2 DEF Spot, n0
    <3>3. CASE m = n0 + 1
      <4>1. i \in 1 .. Len(outgoing_queue) /\ PartOf(outgoing_queue[i]) = p
        BY <1>6, <1>7, <1>8, <3>1, <3>3
      <4>2. outgoing_queue[i] # NoPart /\ content[outgoing_queue[i]] = p
        BY <4>1, TrackedParts DEF PartOf
      <4>3. outgoing_queue[i] \in Nat \ {NoPart}
        BY <1>5, <4>1, <4>2 DEF Slot
      <4>4. LiveSlot(outgoing_queue[i])
        BY <4>1, <4>3 DEF LiveSlot
      <4> QED
        BY <1>1, <2>2, <3>3, <4>1, <4>2, <4>4 DEF Spot
    <3> QED
      BY <1>7, <3>1, <3>2, <3>3
  <2>3. k # "slot"
    BY <1>4, <1>9 DEF Spot
  <2> QED
    BY <1>9, <2>1, <2>2, <2>3 DEF Spot
<1> SUFFICES ASSUME NEW p \in Tracked \ copied, NEW k, NEW m, NEW i, NEW l, NEW n, NEW j,
                    Spot(p, k, m, i)', Spot(p, l, n, j)'
             PROVE  k = l /\ m = n /\ i = j
  BY <1>1 DEF SpotInv, Tracked
<1>10. \A a, b \in 1 .. Len(outgoing_queue) :
         outgoing_queue[a] # NoPart /\ outgoing_queue[a] = outgoing_queue[b] => a = b
  <2> SUFFICES ASSUME NEW a \in 1 .. Len(outgoing_queue), NEW b \in 1 .. Len(outgoing_queue),
                      outgoing_queue[a] # NoPart, outgoing_queue[a] = outgoing_queue[b]
               PROVE  a = b
    OBVIOUS
  <2>1. outgoing_queue[a] \in Nat /\ outgoing_queue[b] \in Nat
    BY <1>5 DEF Slot
  <2>2. ~(a < b) /\ ~(b < a)
    BY <1>5, <2>1
  <2> QED
    BY <2>2
<1> QED
  BY <1>9, <1>10 DEF SpotInv

\* The destructor takes the parts on the wire to the peer, in one message.
LEMMA SpotDestroy ==
  ASSUME TypeInv, SpotInv, ReplyDestroy
  PROVE  SpotInv'
<1> DEFINE k0 == Len(peers)
           message == [reply |-> Current, parts |-> PartsOf(wire'), closed |-> Terminated']
<1>1. /\ UNCHANGED <<composition, queues, released, envelope, routing, incoming, copied>>
      /\ Alive /\ phase' = "dead" /\ flush
  BY DEF ReplyDestroy, Destroy, config, request, Alive
<1>2. \A s : LiveSlot(s)' => LiveSlot(s)
  BY <1>1, LiveFlush
<1>3. /\ PartsOf(wire') \in Seq(Id) /\ Len(PartsOf(wire')) = Len(wire')
      /\ \A i \in 1 .. Len(wire') : PartsOf(wire')[i] = content[wire'[i].part]
      /\ \A i \in 1 .. Len(wire') : wire'[i].part \in Nat \ {NoPart}
      /\ \A i, j \in 1 .. Len(wire') : i < j => wire'[i].part < wire'[j].part
      /\ Len(wire') \in Nat
  <2>1. IInv'
    BY DestroyEffect
  <2>2. wire' \in Seq(Frame)
    BY <2>1 DEF IInv, TypeOK
  <2>3. \A i \in 1 .. Len(wire') : wire'[i] \in Frame
    BY <2>2, SeqAt
  <2> QED
    BY <2>1, <2>2, <2>3, DestroyEffect DEF IInv, OrderInv, InOrder, Frame, Part
<1>4. /\ wire' = <<>> => peers' = peers
      /\ wire' # <<>> =>
           /\ Len(peers') = k0 + 1 /\ peers'[k0 + 1] = message
           /\ \A m \in 1 .. k0 : peers'[m] = peers[m]
           /\ \A m \in 1 .. k0 + 1 : m = k0 + 1 \/ m \in 1 .. k0
  <2> SUFFICES ASSUME wire' # <<>>
               PROVE  /\ Len(peers') = k0 + 1 /\ peers'[k0 + 1] = message
                      /\ \A m \in 1 .. k0 : peers'[m] = peers[m]
                      /\ \A m \in 1 .. k0 + 1 : m = k0 + 1 \/ m \in 1 .. k0
    BY DestroyEffect
  <2>1. peers' = Append(peers, message)
    BY DestroyEffect
  <2>2. message \in Message /\ peers \in Seq(Message)
    <3>1. Terminated' \in BOOLEAN
      BY DestroyEffect DEF Terminated, IInv, TypeOK, Frame
    <3> QED
      BY <1>3, <3>1 DEF Message, TypeInv, ReplyTypeOK, Current
  <2> HIDE DEF message
  <2> QED
    BY <2>1, <2>2, Appended
<1>5. message.parts = PartsOf(wire')
  OBVIOUS
<1> HIDE DEF message, k0
<1>6. ASSUME NEW p \in Tracked \ copied, NEW k, NEW m, NEW i, Spot(p, k, m, i)'
      PROVE  /\ k # "slot"
             /\ \/ Spot(p, k, m, i)
                \/ /\ k = "peer" /\ m = k0 + 1 /\ i \in 1 .. Len(wire')
                   /\ Spot(p, "slot", wire'[i].part, 0)
  <2>0. k # "slot"
    BY <1>1, <1>6 DEF Spot, Alive
  <2>1. CASE k \in {"hand", "released", "kept"}
    BY <1>1, <1>6, <2>1 DEF Spot, Hand
  <2>2. CASE k = "peer"
    <3>1. /\ m \in 1 .. Len(peers') /\ i \in 1 .. Len(peers'[m].parts)
          /\ peers'[m].parts[i] = p
      BY <1>6, <2>2 DEF Spot
    <3>2. CASE m \in 1 .. k0 /\ peers'[m] = peers[m]
      BY <2>2, <3>1, <3>2 DEF Spot, k0
    <3>3. CASE m = k0 + 1 /\ peers'[m] = message
      <4>1. i \in 1 .. Len(wire') /\ content[wire'[i].part] = p
        BY <1>3, <1>5, <3>1, <3>3
      <4>2. LiveSlot(wire'[i].part)
        <5>1. \A s : s \in Nat \ {NoPart} /\ (\E j \in 1 .. Len(wire') : wire'[j].part = s)
                     => LiveSlot(s)'
          BY DEF LiveSlot
        <5> QED
          BY <1>2, <1>3, <4>1, <5>1
      <4> QED
        BY <1>1, <2>2, <3>3, <4>1, <4>2 DEF Spot
    <3> QED
      BY <1>4, <2>0, <3>1, <3>2, <3>3 DEF k0
  <2> QED
    BY <1>6, <2>0, <2>1, <2>2 DEF Spot
<1> SUFFICES ASSUME NEW p \in Tracked \ copied, NEW k, NEW m, NEW i, NEW l, NEW n, NEW j,
                    Spot(p, k, m, i)', Spot(p, l, n, j)'
             PROVE  k = l /\ m = n /\ i = j
  BY <1>1 DEF SpotInv, Tracked
<1>7. \A a, b \in 1 .. Len(wire') : wire'[a].part = wire'[b].part => a = b
  <2> SUFFICES ASSUME NEW a \in 1 .. Len(wire'), NEW b \in 1 .. Len(wire'),
                      wire'[a].part = wire'[b].part
               PROVE  a = b
    OBVIOUS
  <2>1. ~(a < b) /\ ~(b < a)
    BY <1>3
  <2> QED
    BY <2>1
<1> QED
  BY <1>6, <1>7 DEF SpotInv

\* A part that send() takes from the queue is with the peer then, and the rest of
\* the queues moves up when this one is through.
LEMMA SpotResend ==
  ASSUME TypeInv, SpotInv, ResendPart
  PROVE  SpotInv'
<1> DEFINE n0 == Len(queues)
           m0 == Len(peers')
           new == IF sending = 0 THEN 1 ELSE Len(peers[Len(peers)].parts) + 1
           taken(p) == Spot(p, "kept", n0, sending + 1)
<1>1. /\ UNCHANGED <<phase, released, envelope, routing, incoming, copied>>
      /\ phase = "dead" /\ ~Alive /\ ~Alive' /\ queues # <<>>
  BY ResentEffect DEF ResendPart, vars, request, config, Alive
<1>2. /\ n0 \in Nat \ {0} /\ n0 \in 1 .. n0 /\ sending \in Nat
      /\ sending + 1 \in 1 .. Len(queues[n0].parts)
      /\ Newest = queues[n0] /\ NextPart = queues[n0].parts[sending + 1]
  BY <1>1, NewestKept DEF NextPart
<1>3. \A p : NextPart = p => taken(p)
  BY <1>2 DEF Spot
<1>4. ASSUME NEW p \in Tracked, NEW m, NEW i, Spot(p, "peer", m, i)'
      PROVE  Spot(p, "peer", m, i) \/ (m = m0 /\ i = new /\ taken(p))
  <2>1. m \in 1 .. m0 /\ i \in 1 .. Len(peers'[m].parts) /\ peers'[m].parts[i] = p
    BY <1>4 DEF Spot
  <2>2. CASE m # m0
    <3>1. m \in 1 .. Len(peers) /\ peers'[m] = peers[m]
      BY <2>1, <2>2, ResentEffect
    <3> QED
      BY <2>1, <3>1 DEF Spot
  <2>3. CASE m = m0 /\ sending = 0
    <3>1. peers'[m].parts = <<NextPart>>
      BY <2>3, ResentEffect
    <3>2. i = 1 /\ NextPart = p
      BY <2>1, <3>1
    <3> QED
      BY <1>3, <2>3, <3>2
  <2>4. CASE m = m0 /\ sending > 0
    <3> DEFINE old == peers[Len(peers)].parts
    <3>1. /\ peers'[m].parts = Resent.parts /\ old \in Seq(Id)
          /\ Len(Resent.parts) = Len(old) + 1 /\ Resent.parts[Len(old) + 1] = NextPart
          /\ \A j \in 1 .. Len(old) : Resent.parts[j] = old[j]
          /\ m0 = Len(peers) /\ m0 \in 1 .. m0
      <4>1. m0 = Len(peers)
        BY <1>2, <2>4, ResentEffect
      <4>2. peers'[m].parts = Resent.parts
        BY <2>4, ResentEffect
      <4>3. m0 \in 1 .. m0
        BY ResentEffect
      <4> QED
        BY <1>2, <2>4, <4>1, <4>2, <4>3, ResentEffect
    <3> HIDE DEF old
    <3>2. CASE i = Len(old) + 1
      <4>1. NextPart = p
        BY <2>1, <3>1, <3>2
      <4>2. i = new
        BY <2>4, <3>2 DEF old
      <4> QED
        BY <1>3, <2>4, <4>1, <4>2
    <3>3. CASE i # Len(old) + 1
      <4>1. i \in 1 .. Len(old) /\ old[i] = p
        BY <2>1, <3>1, <3>3
      <4> QED
        BY <2>4, <3>1, <4>1 DEF Spot, old
    <3> QED
      BY <3>2, <3>3
  <2> QED
    BY <1>2, <2>1, <2>2, <2>3, <2>4
<1>5. ASSUME NEW p \in Tracked, NEW m, NEW i, Spot(p, "kept", m, i)'
      PROVE  Spot(p, "kept", m, i) /\ (m = n0 => i # sending + 1)
  <2>1. m \in 1 .. Len(queues') /\ i \in 1 .. Len(queues'[m].parts) /\ queues'[m].parts[i] = p
    BY <1>5 DEF Spot
  <2>2. CASE LastPart
    <3>1. m \in 1 .. n0 /\ m # n0 /\ queues'[m] = queues[m]
      BY <2>1, <2>2, ResentQueues
    <3> QED
      BY <2>1, <3>1 DEF Spot
  <2>3. CASE ~LastPart
    <3>1. m \in 1 .. n0
      <4>1. Len(queues') = n0
        BY <2>3, ResentQueues
      <4> QED
        BY <2>1, <4>1
    <3>2. CASE m # n0
      <4>1. queues'[m] = queues[m]
        BY <2>1, <2>3, <3>2, ResentQueues
      <4> QED
        BY <2>1, <3>1, <3>2, <4>1 DEF Spot
    <3>3. CASE m = n0
      <4>1. /\ Len(queues'[n0].parts) = Len(queues[n0].parts)
            /\ queues'[n0].parts[sending + 1] = Empty
            /\ \A j \in 1 .. Len(queues[n0].parts) :
                 j # sending + 1 => queues'[n0].parts[j] = queues[n0].parts[j]
        BY <1>2, <2>3, ResentQueues
      <4>2. i # sending + 1
        BY <2>1, <3>3, <4>1, TrackedParts
      <4> QED
        BY <2>1, <3>1, <3>3, <4>1, <4>2 DEF Spot
    <3> QED
      BY <3>2, <3>3
  <2> QED
    BY <2>2, <2>3
<1>6. ASSUME NEW p, NEW k, NEW m, NEW i, Spot(p, k, m, i)', k \notin {"peer", "kept"}
      PROVE  Spot(p, k, m, i)
  BY <1>1, <1>6 DEF Spot, Hand
<1> HIDE DEF m0, n0, new
<1>7. ASSUME NEW p \in Tracked \ copied, NEW k, NEW m, NEW i, Spot(p, k, m, i)'
      PROVE  \/ k = "peer" /\ m = m0 /\ i = new /\ taken(p)
             \/ Spot(p, k, m, i) /\ (k = "kept" /\ m = n0 => i # sending + 1)
  BY <1>4, <1>5, <1>6, <1>7
<1> SUFFICES ASSUME NEW p \in Tracked \ copied, NEW k, NEW m, NEW i, NEW l, NEW n, NEW j,
                    Spot(p, k, m, i)', Spot(p, l, n, j)'
             PROVE  k = l /\ m = n /\ i = j
  BY <1>1 DEF SpotInv, Tracked
<1>8. CASE taken(p)
  <2>1. ASSUME NEW k1, NEW m1, NEW i1, Spot(p, k1, m1, i1)'
        PROVE  k1 = "peer" /\ m1 = m0 /\ i1 = new
    BY <1>7, <1>8, <2>1 DEF SpotInv
  <2> QED
    BY <2>1
<1>9. CASE ~taken(p)
  BY <1>7, <1>9 DEF SpotInv
<1> QED
  BY <1>8, <1>9

\* release() moves a part to the worker.
LEMMA SpotRelease ==
  ASSUME TypeInv, SpotInv, Release
  PROVE  SpotInv'
<1>1. /\ UNCHANGED <<phase, peers, envelope, routing, copied>> /\ ~Alive /\ ~Alive'
  BY DEF Release, Between, config, resend, request, Alive
<1>2. /\ queues \in Seq(Kept) /\ Len(queues') = Len(queues)
      /\ \A q \in 1 .. Len(queues) :
           /\ Len(queues'[q].parts) = Len(queues[q].parts)
           /\ \A i \in 1 .. Len(queues[q].parts) :
                queues'[q].parts[i] \in {queues[q].parts[i], Gone}
  BY ReleaseQueues
<1>3. incoming \in [Linked -> BOOLEAN]
  BY DEF TypeInv, IInv, TypeOK
<1>0. PICK part :
        /\ released' = released \cup {part}
        /\ \/ \E i \in Linked : /\ part = Of("request", i) /\ incoming[i]
                                /\ incoming' = [incoming EXCEPT ![i] = FALSE]
           \/ \E q \in DOMAIN queues : \E i \in DOMAIN queues[q].parts :
                /\ part = queues[q].parts[i] /\ incoming' = incoming
                /\ queues' = [queues EXCEPT ![q].parts[i] = Gone]
  BY DEF Release
<1>4. PICK kind, m0, i0 :
        /\ part \in Tracked => Spot(part, kind, m0, i0) /\ ~Spot(part, kind, m0, i0)'
        /\ kind # "released"
        /\ \A i \in Linked : incoming'[i] => incoming[i]
  <2>1. ASSUME NEW i \in Linked, part = Of("request", i), incoming[i],
               incoming' = [incoming EXCEPT ![i] = FALSE]
        PROVE  /\ Spot(part, "hand", 0, 0) /\ ~Spot(part, "hand", 0, 0)'
               /\ \A j \in Linked : incoming'[j] => incoming[j]
    <3>1. Hand(part)
      BY <2>1 DEF Hand
    <3>2. /\ \A n : Of("routing", n) # part
          /\ \A n : Of("request", n) = part => n = i
      BY <2>1 DEF Of
    <3>3. ~incoming'[i] /\ \A j \in Linked : incoming'[j] => incoming[j]
      BY <1>3, <2>1
    <3>4. ~Hand(part)'
      BY <3>2, <3>3 DEF Hand
    <3> QED
      BY <3>1, <3>3, <3>4 DEF Spot
  <2>2. ASSUME NEW q \in DOMAIN queues, NEW i \in DOMAIN queues[q].parts,
               part = queues[q].parts[i], part \in Tracked,
               queues' = [queues EXCEPT ![q].parts[i] = Gone]
        PROVE  Spot(part, "kept", q, i) /\ ~Spot(part, "kept", q, i)'
    <3>1. /\ q \in 1 .. Len(queues) /\ i \in 1 .. Len(queues[q].parts)
          /\ queues[q].parts \in Seq(Id) /\ queues[q] \in Kept
      BY <1>2, KeptAt
    <3>2. queues'[q].parts[i] = Gone
      BY <1>2, <2>2, <3>1 DEF Kept
    <3>3. part # Gone
      BY <2>2, TrackedParts
    <3> QED
      BY <2>2, <3>1, <3>2, <3>3 DEF Spot
  <2> QED
    BY <1>0, <2>1, <2>2
<1>5. ASSUME NEW p \in Tracked, NEW k, NEW m, NEW i, Spot(p, k, m, i)'
      PROVE  Spot(p, k, m, i) \/ (p = part /\ k = "released" /\ m = 0 /\ i = 0)
  <2>1. CASE k = "hand"
    BY <1>1, <1>4, <1>5, <2>1 DEF Spot, Hand
  <2>2. CASE k = "released"
    BY <1>0, <1>5, <2>2 DEF Spot
  <2>3. CASE k = "kept"
    <3>1. p # Gone
      BY TrackedParts
    <3> QED
      BY <1>2, <1>5, <2>3, <3>1 DEF Spot
  <2>4. CASE k \in {"slot", "peer"}
    BY <1>1, <1>5, <2>4 DEF Spot
  <2> QED
    BY <1>5, <2>1, <2>2, <2>3, <2>4 DEF Spot
<1> SUFFICES ASSUME NEW p \in Tracked \ copied, NEW k, NEW m, NEW i, NEW l, NEW n, NEW j,
                    Spot(p, k, m, i)', Spot(p, l, n, j)'
             PROVE  k = l /\ m = n /\ i = j
  BY <1>1 DEF SpotInv, Tracked
<1>6. CASE p # part
  BY <1>5, <1>6 DEF SpotInv
<1>7. CASE p = part
  <2>1. ASSUME NEW k1, NEW m1, NEW i1, Spot(p, k1, m1, i1)'
        PROVE  k1 = "released" /\ m1 = 0 /\ i1 = 0
    <3>1. ASSUME Spot(p, k1, m1, i1) PROVE FALSE
      <4>1. k1 = kind /\ m1 = m0 /\ i1 = i0
        BY <1>4, <1>7, <3>1 DEF SpotInv
      <4> QED
        BY <1>4, <1>7, <2>1, <4>1
    <3> QED
      BY <1>5, <2>1, <3>1
  <2> QED
    BY <2>1
<1> QED
  BY <1>6, <1>7

\* The other steps move no part.
LEMMA SpotOther ==
  ASSUME TypeInv, SpotInv,
         ReplyFlush \/ NextReply \/ ResendFails \/ ResendGone \/ (\E i \in Linked : LinkedGone(i))
         \/ ReplyTerminate \/ UNCHANGED replyVars
  PROVE  SpotInv'
<1>1. /\ UNCHANGED <<peers, released, envelope, routing, incoming, copied>>
      /\ \A q \in 1 .. Len(queues') : q \in 1 .. Len(queues) /\ queues'[q] = queues[q]
      /\ Alive' => \A s : LiveSlot(s)' => Alive /\ LiveSlot(s) /\ content' = content
  <2>1. CASE ReplyFlush
    BY <2>1, LiveFlush DEF ReplyFlush, Flush, resend, past, config, request, composition, Alive
  <2>2. CASE NextReply
    <3>1. wire' = <<>> /\ outgoing_queue' = <<>> /\ cached' = NoPart /\ Len(wire') = 0
          /\ Len(outgoing_queue') = 0
      BY <2>2 DEF NextReply
    <3>2. \A s : ~LiveSlot(s)'
      BY <3>1 DEF LiveSlot
    <3> QED
      BY <2>2, <3>2 DEF NextReply, request, resend
  <2>3. CASE ResendFails
    <3>1. queues # <<>> /\ queues' = Front(queues)
      BY <2>3 DEF ResendFails, Resending
    <3>2. \A q \in 1 .. Len(queues') : q \in 1 .. Len(queues) /\ queues'[q] = queues[q]
      BY <3>1, FrontKept
    <3> QED
      BY <2>3, <3>2 DEF ResendFails, config, request, composition, Alive
  <2>4. CASE ResendGone \/ ReplyTerminate \/ (\E i \in Linked : LinkedGone(i))
             \/ UNCHANGED replyVars
    BY <2>4 DEF ResendGone, LinkedGone, ReplyTerminate, Terminate, vars, replyVars, config,
                request, socket, composition, resend, past, Alive, LiveSlot
  <2> QED
    BY <2>1, <2>2, <2>3, <2>4
<1>2. ASSUME NEW p \in Tracked, NEW k, NEW m, NEW i, Spot(p, k, m, i)'
      PROVE  Spot(p, k, m, i)
  BY <1>1, <1>2 DEF Spot, Hand
<1> QED
  BY <1>1, <1>2, SpotsLess

\* No step makes a second spot for a part that was not copied.
LEMMA SpotStep ==
  ASSUME TypeInv, SpotInv, [ReplyNext]_replyVars
  PROVE  SpotInv'
BY Steps, SpotInsert, SpotDetach, SpotDestroy, SpotResend, SpotRelease, SpotOther

\* At the start every part of the request is in the Incoming, or with nobody.
LEMMA InitSpot == ReplyInit => SpotInv
<1> SUFFICES ASSUME ReplyInit PROVE SpotInv
  OBVIOUS
<1>1. /\ queues = <<>> /\ peers = <<>> /\ wire = <<>> /\ outgoing_queue = <<>>
      /\ cached = NoPart /\ released = {}
      /\ Len(queues) = 0 /\ Len(peers) = 0 /\ Len(wire) = 0 /\ Len(outgoing_queue) = 0
  BY DEF ReplyInit, Init
<1>2. \A s : ~LiveSlot(s)
  BY <1>1 DEF LiveSlot
<1>3. \A p, k, m, i : Spot(p, k, m, i) => k = "hand" /\ m = 0 /\ i = 0
  BY <1>1, <1>2 DEF Spot
<1> QED
  BY <1>3 DEF SpotInv

\* The spot of a place, and the place of a spot.
PlaceAt(x, p, k, m, i) ==
  \/ k = "hand" /\ x = <<p.from, p.idx, 0>>
  \/ k = "released" /\ x = <<"released", 0, 0>>
  \/ k = "slot" /\ \E j \in 1 .. Len(wire) : x = <<"wire", 0, j>> /\ wire[j].part = m
  \/ k = "slot" /\ \E j \in 1 .. Len(outgoing_queue) :
                     x = <<"queue", 0, j>> /\ outgoing_queue[j] = m
  \/ k = "slot" /\ x = <<"cached", 0, 1>> /\ m = cached
  \/ k \in {"peer", "kept"} /\ x = <<k, m, i>>

\* What is in Places is at a spot.
LEMMA SpotOfPlace ==
  ASSUME TypeInv, NEW p \in Tracked, NEW x \in Places(p)
  PROVE  \E k, m, i : Spot(p, k, m, i) /\ PlaceAt(x, p, k, m, i)
<1>1. /\ DOMAIN wire = 1 .. Len(wire) /\ DOMAIN outgoing_queue = 1 .. Len(outgoing_queue)
      /\ outgoing_queue \in Seq(Slot) /\ cached \in Nat
      /\ \A j \in 1 .. Len(wire) : wire[j].part \in Nat \ {NoPart}
  <2>1. wire \in Seq(Frame) /\ outgoing_queue \in Seq(Slot) /\ cached \in Nat
    BY DEF TypeInv, IInv, TypeOK, Slot
  <2>2. \A j \in 1 .. Len(wire) : wire[j] \in Frame
    BY <2>1, SeqAt
  <2> QED
    BY <2>1, <2>2 DEF Frame, Part
<1>2. /\ DOMAIN peers = 1 .. Len(peers) /\ DOMAIN queues = 1 .. Len(queues)
      /\ \A m \in 1 .. Len(peers) : DOMAIN peers[m].parts = 1 .. Len(peers[m].parts)
      /\ \A q \in 1 .. Len(queues) : DOMAIN queues[q].parts = 1 .. Len(queues[q].parts)
  <2>1. peers \in Seq(Message) /\ queues \in Seq(Kept)
    BY DEF TypeInv, ReplyTypeOK, Kept
  <2>2. \A m \in 1 .. Len(peers) : peers[m].parts \in Seq(Id)
    <3>1. \A m \in 1 .. Len(peers) : peers[m] \in Message
      BY <2>1, SeqAt
    <3> QED
      BY <3>1 DEF Message
  <2> QED
    BY <2>1, <2>2, KeptAt, SeqAt
<1>3. p # Gone
  BY TrackedParts
<1>4. CASE \E n \in 1 .. envelope :
             routing[n] /\ p = Of("routing", n) /\ x = <<"routing", n, 0>>
  <2>1. Spot(p, "hand", 0, 0)
    BY <1>4 DEF Spot, Hand
  <2>2. x = <<p.from, p.idx, 0>>
    BY <1>4 DEF Of
  <2> QED
    BY <2>1, <2>2 DEF PlaceAt
<1>5. CASE \E n \in Linked : incoming[n] /\ p = Of("request", n) /\ x = <<"request", n, 0>>
  <2>1. Spot(p, "hand", 0, 0)
    BY <1>5 DEF Spot, Hand
  <2>2. x = <<p.from, p.idx, 0>>
    BY <1>5 DEF Of
  <2> QED
    BY <2>1, <2>2 DEF PlaceAt
<1>6. CASE p \in released /\ x = <<"released", 0, 0>>
  <2>1. Spot(p, "released", 0, 0)
    BY <1>6 DEF Spot
  <2> QED
    BY <1>6, <2>1 DEF PlaceAt
<1>7. CASE Alive /\ x \in At("wire", 0, [i \in DOMAIN wire |-> content[wire[i].part]], p)
  <2>1. PICK j \in 1 .. Len(wire) : x = <<"wire", 0, j>> /\ content[wire[j].part] = p
    BY <1>1, <1>7 DEF At
  <2>2. Spot(p, "slot", wire[j].part, 0)
    BY <1>1, <1>7, <2>1 DEF Spot, LiveSlot
  <2>3. PlaceAt(x, p, "slot", wire[j].part, 0)
    BY <2>1 DEF PlaceAt
  <2> QED
    BY <2>2, <2>3
<1>8. CASE Alive /\ x \in At("queue", 0, QueueOf(outgoing_queue), p)
  <2>1. PICK j \in 1 .. Len(outgoing_queue) :
          x = <<"queue", 0, j>> /\ PartOf(outgoing_queue[j]) = p
    BY <1>1, <1>8 DEF At, QueueOf
  <2>2. outgoing_queue[j] \in Nat \ {NoPart} /\ content[outgoing_queue[j]] = p
    BY <1>1, <1>3, <2>1 DEF PartOf, Slot
  <2>3. Spot(p, "slot", outgoing_queue[j], 0)
    BY <1>8, <2>1, <2>2 DEF Spot, LiveSlot
  <2>4. PlaceAt(x, p, "slot", outgoing_queue[j], 0)
    BY <2>1 DEF PlaceAt
  <2> QED
    BY <2>3, <2>4
<1>9. CASE Alive /\ x \in At("cached", 0, QueueOf(<<cached>>), p)
  <2>1. x = <<"cached", 0, 1>> /\ PartOf(cached) = p
    <3>1. DOMAIN QueueOf(<<cached>>) = {1} /\ QueueOf(<<cached>>)[1] = PartOf(cached)
      <4>1. DOMAIN <<cached>> = {1} /\ <<cached>>[1] = cached
        OBVIOUS
      <4> QED
        BY <4>1 DEF QueueOf
    <3> HIDE DEF QueueOf, PartOf
    <3>2. PICK j \in DOMAIN QueueOf(<<cached>>) :
            x = <<"cached", 0, j>> /\ QueueOf(<<cached>>)[j] = p
      BY <1>9 DEF At
    <3> QED
      BY <3>1, <3>2
  <2>2. cached \in Nat \ {NoPart} /\ content[cached] = p
    BY <1>1, <1>3, <2>1 DEF PartOf
  <2>3. Spot(p, "slot", cached, 0)
    BY <1>9, <2>2 DEF Spot, LiveSlot
  <2>4. PlaceAt(x, p, "slot", cached, 0)
    BY <2>1 DEF PlaceAt
  <2> QED
    BY <2>3, <2>4
<1>10. CASE \E m \in DOMAIN peers : x \in At("peer", m, peers[m].parts, p)
  <2>1. PICK m \in 1 .. Len(peers) : x \in At("peer", m, peers[m].parts, p)
    BY <1>2, <1>10
  <2>2. PICK i \in 1 .. Len(peers[m].parts) : x = <<"peer", m, i>> /\ peers[m].parts[i] = p
    BY <1>2, <2>1 DEF At
  <2>3. Spot(p, "peer", m, i) /\ PlaceAt(x, p, "peer", m, i)
    BY <2>2 DEF Spot, PlaceAt
  <2> QED
    BY <2>3
<1>11. CASE \E m \in DOMAIN queues : x \in At("kept", m, queues[m].parts, p)
  <2>1. PICK m \in 1 .. Len(queues) : x \in At("kept", m, queues[m].parts, p)
    BY <1>2, <1>11
  <2>2. PICK i \in 1 .. Len(queues[m].parts) : x = <<"kept", m, i>> /\ queues[m].parts[i] = p
    BY <1>2, <2>1 DEF At
  <2>3. Spot(p, "kept", m, i) /\ PlaceAt(x, p, "kept", m, i)
    BY <2>2 DEF Spot, PlaceAt
  <2> QED
    BY <2>3
<1>12. phase \in {"dead", "aborted"} \/ Alive
  BY DEF TypeInv, IInv, TypeOK, Phase, Alive
<1>13. \/ x \in {<<"routing", n, 0>> :
                   n \in {k \in 1 .. envelope : routing[k] /\ p = Of("routing", k)}}
       \/ x \in {<<"request", i, 0>> :
                   i \in {k \in Linked : incoming[k] /\ p = Of("request", k)}}
       \/ x \in {<<"released", 0, 0>> : r \in released \cap {p}}
       \/ Alive /\ (\/ x \in At("wire", 0, [i \in DOMAIN wire |-> content[wire[i].part]], p)
                    \/ x \in At("queue", 0, QueueOf(outgoing_queue), p)
                    \/ x \in At("cached", 0, QueueOf(<<cached>>), p))
       \/ \E m \in DOMAIN peers : x \in At("peer", m, peers[m].parts, p)
       \/ \E m \in DOMAIN queues : x \in At("kept", m, queues[m].parts, p)
  <2> DEFINE PR == {<<"routing", n, 0>> :
                      n \in {k \in 1 .. envelope : routing[k] /\ p = Of("routing", k)}}
             PI == {<<"request", i, 0>> :
                      i \in {k \in Linked : incoming[k] /\ p = Of("request", k)}}
             PG == {<<"released", 0, 0>> : r \in released \cap {p}}
             PW == At("wire", 0, [i \in DOMAIN wire |-> content[wire[i].part]], p)
             PQ == At("queue", 0, QueueOf(outgoing_queue), p)
             PC == At("cached", 0, QueueOf(<<cached>>), p)
             PP == {At("peer", m, peers[m].parts, p) : m \in DOMAIN peers}
             PK == {At("kept", q, queues[q].parts, p) : q \in DOMAIN queues}
  <2>1. x \in PR \cup PI \cup PG
              \cup (IF phase \in {"dead", "aborted"} THEN {} ELSE PW \cup PQ \cup PC)
              \cup (UNION PP) \cup (UNION PK)
    BY DEF Places
  <2>2. (x \in UNION PP => \E m \in DOMAIN peers : x \in At("peer", m, peers[m].parts, p))
        /\ (x \in UNION PK => \E m \in DOMAIN queues : x \in At("kept", m, queues[m].parts, p))
    OBVIOUS
  <2> HIDE DEF PR, PI, PG, PW, PQ, PC, PP, PK
  <2>3. \/ x \in PR \/ x \in PI \/ x \in PG
        \/ Alive /\ (x \in PW \/ x \in PQ \/ x \in PC)
        \/ x \in UNION PP \/ x \in UNION PK
    <3>1. CASE phase \in {"dead", "aborted"}
      BY <2>1, <3>1
    <3>2. CASE phase \notin {"dead", "aborted"}
      BY <1>12, <2>1, <3>2
    <3> QED
      BY <3>1, <3>2
  <2> QED
    BY <2>2, <2>3 DEF PR, PI, PG, PW, PQ, PC
<1> QED
  BY <1>4, <1>5, <1>6, <1>7, <1>8, <1>9, <1>10, <1>11, <1>13

\* A spot is behind one member of Places only.
LEMMA PlaceOfSpot ==
  ASSUME TypeInv, NEW p \in Tracked, NEW x, NEW y, NEW k, NEW m, NEW i, Spot(p, k, m, i),
         PlaceAt(x, p, k, m, i), PlaceAt(y, p, k, m, i)
  PROVE  x = y
<1>1. CASE k # "slot"
  BY <1>1 DEF PlaceAt, Spot
<1>2. CASE k = "slot"
  <2>1. /\ Alive /\ m \in Nat \ {NoPart}
    BY <1>2 DEF Spot, LiveSlot
  <2>2. \A j, l \in 1 .. Len(wire) : wire[j].part = m /\ wire[l].part = m => j = l
    <3>1. \A j, l \in 1 .. Len(wire) : j < l => wire[j].part < wire[l].part
      BY DEF TypeInv, IInv, OrderInv, InOrder
    <3> SUFFICES ASSUME NEW j \in 1 .. Len(wire), NEW l \in 1 .. Len(wire),
                        wire[j].part = m, wire[l].part = m
                 PROVE  j = l
      OBVIOUS
    <3>2. ~(j < l) /\ ~(l < j)
      BY <2>1, <3>1
    <3> QED
      BY <3>2
  <2>3. CASE outgoing_queue = <<>>
    <3>1. Len(outgoing_queue) = 0
      BY <2>3
    <3>2. \A j \in 1 .. Len(wire) : wire[j].part = m => m # cached
      BY <2>1 DEF TypeInv, IInv, OrderInv, InOrder
    <3> QED
      BY <1>2, <2>2, <3>1, <3>2 DEF PlaceAt
  <2>4. CASE outgoing_queue # <<>>
    <3>1. Queued = outgoing_queue /\ detached = <<>>
      BY <2>4 DEF TypeInv, IInv, PlaceInv, Queued
    <3>2. wire = <<>> /\ cached = NoPart /\ Len(wire) = 0
      BY <2>4, <3>1 DEF TypeInv, IInv, PlaceInv, TypeOK, State
    <3>3. \A j, l \in 1 .. Len(outgoing_queue) :
            outgoing_queue[j] = m /\ outgoing_queue[l] = m => j = l
      <4>1. \A j, l \in 1 .. Len(outgoing_queue) :
              j < l /\ outgoing_queue[l] # NoPart => outgoing_queue[j] < outgoing_queue[l]
        BY <3>1 DEF TypeInv, IInv, OrderInv, InOrder
      <4> SUFFICES ASSUME NEW j \in 1 .. Len(outgoing_queue),
                          NEW l \in 1 .. Len(outgoing_queue),
                          outgoing_queue[j] = m, outgoing_queue[l] = m
                   PROVE  j = l
        OBVIOUS
      <4>2. ~(j < l) /\ ~(l < j)
        BY <2>1, <4>1
      <4> QED
        BY <4>2
    <3> QED
      BY <1>2, <2>1, <3>2, <3>3 DEF PlaceAt
  <2> QED
    BY <2>3, <2>4
<1> QED
  BY <1>1, <1>2

\* One spot at most for a part makes one place at most.
LEMMA OnePlaceInv ==
  ASSUME TypeInv, SpotInv
  PROVE  OnePlace
<1> SUFFICES ASSUME NEW p \in Tracked \ copied PROVE Cardinality(Places(p)) <= 1
  BY DEF OnePlace, Tracked
<1>1. \A x, y \in Places(p) : x = y
  <2> SUFFICES ASSUME NEW x \in Places(p), NEW y \in Places(p) PROVE x = y
    OBVIOUS
  <2>1. PICK k, m, i : Spot(p, k, m, i) /\ PlaceAt(x, p, k, m, i)
    BY SpotOfPlace
  <2>2. PICK l, n, j : Spot(p, l, n, j) /\ PlaceAt(y, p, l, n, j)
    BY SpotOfPlace
  <2>3. k = l /\ m = n /\ i = j
    BY <2>1, <2>2 DEF SpotInv
  <2> QED
    BY <2>1, <2>2, <2>3, PlaceOfSpot
<1>2. Cardinality(Places(p)) = IF Places(p) = {} THEN 0 ELSE 1
  BY <1>1, OneOrNone
<1> QED
  BY <1>2

\* A part of the request that was not copied is in one place at most, over every
\* sequence of replies, resends and releases.
THEOREM OnePlaceThm == ReplySpec => []OnePlace
<1>1. ReplyInit => TypeInv /\ SpotInv
  BY InitTypeInv, InitSpot
<1>2. (TypeInv /\ SpotInv) /\ [ReplyNext]_replyVars => (TypeInv /\ SpotInv)'
  BY TypeStep, SpotStep
<1>3. TypeInv /\ SpotInv => OnePlace
  BY OnePlaceInv
<1> QED
  BY <1>1, <1>2, <1>3, PTL DEF ReplySpec
=============================================================================
