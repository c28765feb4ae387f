--------------------------- MODULE IncomingProofs ---------------------------
(***************************************************************************)
(* Proofs about Incoming, for any messages, storages and bounds.           *)
(*                                                                         *)
(* What makes OneMessage inductive is Fresh: as long as the caller has     *)
(* not been told of an end, the next part on the socket belongs to the     *)
(* message of the parts taken so far, because ZMQ_RCVMORE is set whenever  *)
(* a loop of the code takes another part.                                  *)
(***************************************************************************)
EXTENDS Incoming, SequenceTheorems, FiniteSetTheorems, TLAPS

\* Messages are on the socket as a whole, and so is the rest of the one that
\* the last recv has begun.
InboxInv ==
  \A i \in 1 .. Len(inbox) :
    inbox[i].more => i < Len(inbox) /\ inbox[i + 1].msg = inbox[i].msg

SocketInv ==
  /\ InboxInv
  /\ rcvmore => inbox # <<>>
  /\ taken # <<>> /\ rcvmore => Head(inbox).msg = Last(taken).msg

CallInv ==
  /\ call.step = "parts" => call.left > 0
  /\ call.step = "rest" => call.rest # "no"
  /\ call.step \in {"routing", "parts"} /\ call.rest = "upto" => call.room > 0
  /\ call.step = "rest" /\ call.rest = "upto" => call.room > 0
  /\ call.rest # "no" => ~call.check
  /\ call.step = "idle" => call = Idle

\* The next part is the first this Incoming takes, or one of the same message.
Fresh == taken = <<>> \/ rcvmore

Receiving == call.step \in {"routing", "parts", "rest"}

ControlInv ==
  /\ call.step = "tail" => rcvmore
  /\ Receiving /\ ~past_end => ~drained /\ ~is_terminal
  /\ ~past_end /\ ~drained /\ ~is_terminal /\ EnvelopeOK /\ call.step # "tail" =>
       Fresh

RoutingInv ==
  /\ policy = "X" /\ routing = <<>> =>
       parts = <<>> /\ ~is_terminal /\ call.step \notin {"parts", "rest"}
  /\ call.step = "routing" =>
       /\ policy = "X" /\ parts = <<>> /\ ~is_terminal
       /\ \A i \in 1 .. Len(routing) : routing[i].kind # "null" /\ routing[i].more
  /\ \A i \in 1 .. Len(routing) - 1 : routing[i].kind # "null"
  /\ call.step # "routing" /\ routing # <<>> =>
       Last(routing).kind = "null" \/ RoutingThrew

TerminalInv ==
  ~past_end /\ ~drained /\ call.step # "tail" =>
    /\ is_terminal => ~rcvmore /\ parts # <<>>
    /\ ~is_terminal /\ Filled # {} => rcvmore

IInv ==
  /\ TypeOK /\ SocketInv /\ CallInv /\ ControlInv /\ RoutingInv /\ TerminalInv
  /\ OneMessage

-----------------------------------------------------------------------------
(* The socket.                                                              *)

SameMessage(s) == \A i, j \in 1 .. Len(s) : s[i].msg = s[j].msg

LEMMA PhantomType == Phantom \in PartOfMessage
BY DEF Phantom, PartOfMessage, Kinds

LEMMA LastOfAppend ==
  ASSUME NEW S, NEW s \in Seq(S), NEW x \in S
  PROVE  /\ Append(s, x) \in Seq(S) /\ Append(s, x) # <<>>
         /\ Len(Append(s, x)) = Len(s) + 1
         /\ Last(Append(s, x)) = x
         /\ \A i \in 1 .. Len(s) : Append(s, x)[i] = s[i]
         /\ Append(s, x)[Len(s) + 1] = x
BY AppendProperties DEF Last

LEMMA LastOf ==
  ASSUME NEW S, NEW s \in Seq(S), s # <<>>
  PROVE  Len(s) \in Nat /\ Len(s) > 0 /\ Len(s) \in 1 .. Len(s)
         /\ Last(s) = s[Len(s)] /\ Last(s) \in S
BY DEF Last

\* recv_msg leaves a socket that is in the same order, and what it takes is of
\* the message of the parts before, if it was Fresh.
LEMMA RecvEffect ==
  ASSUME TypeOK, SocketInv, recv_msg
  PROVE  /\ Head(inbox) \in PartOfMessage /\ inbox' \in Seq(PartOfMessage)
         /\ taken' \in Seq(PartOfMessage) /\ taken' # <<>>
         /\ rcvmore' = Head(inbox).more /\ rcvmore' \in BOOLEAN
         /\ SocketInv'
         /\ Fresh /\ SameMessage(taken) => SameMessage(taken')
<1>1. inbox \in Seq(PartOfMessage) /\ inbox # <<>> /\ taken \in Seq(PartOfMessage)
  BY DEF TypeOK, recv_msg
<1>2. inbox' = Tail(inbox) /\ rcvmore' = Head(inbox).more
      /\ taken' = Append(taken, Head(inbox))
  BY DEF recv_msg
<1>3. Head(inbox) \in PartOfMessage /\ inbox' \in Seq(PartOfMessage)
      /\ Len(inbox') = Len(inbox) - 1 /\ Head(inbox) = inbox[1]
      /\ \A i \in 1 .. Len(inbox') : inbox'[i] = inbox[i + 1]
  BY <1>1, <1>2, HeadTailProperties
<1>4. Head(inbox).more \in BOOLEAN
  BY <1>3 DEF PartOfMessage
<1>5. Len(inbox) \in Nat /\ Len(inbox) > 0
  BY <1>1
<1>6. taken' \in Seq(PartOfMessage) /\ taken' # <<>> /\ Len(taken') = Len(taken) + 1
      /\ Last(taken') = Head(inbox)
      /\ (\A i \in 1 .. Len(taken) : taken'[i] = taken[i])
      /\ taken'[Len(taken) + 1] = Head(inbox)
  BY <1>1, <1>2, <1>3, LastOfAppend
<1>7. InboxInv'
  BY <1>3, <1>5 DEF InboxInv, SocketInv
<1>8. rcvmore' => inbox' # <<>> /\ Head(inbox').msg = Head(inbox).msg
  <2> SUFFICES ASSUME Head(inbox).more
               PROVE  inbox' # <<>> /\ Head(inbox').msg = Head(inbox).msg
    BY <1>2
  <2>1. 1 < Len(inbox) /\ inbox[2].msg = inbox[1].msg
    BY <1>3, <1>5 DEF InboxInv, SocketInv
  <2>2. Len(inbox') > 0
    BY <1>3, <1>5, <2>1
  <2>3. inbox' # <<>> /\ Head(inbox') = inbox'[1]
    BY <1>3, <2>2
  <2> QED
    BY <1>3, <1>5, <2>1, <2>2, <2>3
<1>9. SocketInv'
  BY <1>6, <1>7, <1>8 DEF SocketInv
<1>10. ASSUME Fresh, SameMessage(taken) PROVE SameMessage(taken')
  <2>1. CASE taken = <<>>
    BY <1>6, <2>1 DEF SameMessage
  <2>2. CASE taken # <<>>
    <3>1. Head(inbox).msg = Last(taken).msg
      BY <1>10, <2>2 DEF Fresh, SocketInv
    <3>2. Last(taken) = taken[Len(taken)] /\ Len(taken) \in 1 .. Len(taken)
          /\ Len(taken) \in Nat
      BY <1>1, <2>2, LastOf
    <3>3. \A i \in 1 .. Len(taken) : taken[i].msg = Head(inbox).msg
      BY <1>10, <3>1, <3>2 DEF SameMessage
    <3>4. \A i \in 1 .. Len(taken) + 1 : taken'[i].msg = Head(inbox).msg
      <4> SUFFICES ASSUME NEW i \in 1 .. Len(taken) + 1
                   PROVE  taken'[i].msg = Head(inbox).msg
        OBVIOUS
      <4>1. i \in 1 .. Len(taken) \/ i = Len(taken) + 1
        BY <3>2
      <4> QED
        BY <1>6, <3>3, <4>1
    <3> QED
      BY <1>6, <3>4 DEF SameMessage
  <2> QED
    BY <2>1, <2>2
<1> QED
  BY <1>2, <1>3, <1>4, <1>6, <1>9, <1>10

\* An interruption finds an empty socket, so that no message was begun.
LEMMA InterruptedEffect ==
  ASSUME TypeOK, SocketInv, Interrupted
  PROVE  /\ ~rcvmore /\ UNCHANGED <<inbox, rcvmore, taken>>
         /\ errors' \in 0 .. MaxErrors /\ SocketInv'
<1>1. ~rcvmore
  BY DEF SocketInv, Interrupted
<1>2. errors' \in 0 .. MaxErrors
  BY BoundsAssumption DEF TypeOK, Interrupted
<1>3. UNCHANGED <<inbox, rcvmore, taken>>
  BY DEF Interrupted, socket
<1>4. SocketInv'
  BY <1>3 DEF SocketInv, InboxInv
<1> QED
  BY <1>1, <1>2, <1>3, <1>4

\* A new message does not disturb the rest of one that was begun.
LEMMA ArriveEffect ==
  ASSUME TypeOK, SocketInv, NEW shape \in Shapes, Arrive(shape)
  PROVE  /\ inbox' \in Seq(PartOfMessage) /\ SocketInv'
         /\ \A i \in 1 .. Len(inbox') :
              \/ inbox'[i].msg = arrived + 1
              \/ \E j \in 1 .. Len(inbox) : inbox'[i] = inbox[j]
<1> DEFINE new == [i \in 1 .. Len(shape) |->
                     [msg |-> arrived + 1, idx |-> i, kind |-> shape[i],
                      more |-> i < Len(shape)]]
<1>1. shape \in Seq(Kinds) /\ shape # <<>>
  BY ShapesAssumption
<1>2. Len(shape) \in Nat /\ Len(shape) > 0
  BY <1>1
<1>3. arrived + 1 \in Nat
  BY BoundsAssumption DEF TypeOK
<1>4. \A i \in 1 .. Len(shape) : new[i] \in PartOfMessage
  <2> SUFFICES ASSUME NEW i \in 1 .. Len(shape)
               PROVE  [msg |-> arrived + 1, idx |-> i, kind |-> shape[i],
                       more |-> i < Len(shape)] \in PartOfMessage
    OBVIOUS
  <2>1. shape[i] \in Kinds /\ i \in Nat
    BY <1>1, <1>2
  <2>2. (i < Len(shape)) \in BOOLEAN
    OBVIOUS
  <2> QED
    BY <1>3, <2>1, <2>2 DEF PartOfMessage
<1>5. new \in Seq(PartOfMessage) /\ Len(new) = Len(shape)
  BY <1>2, <1>4
<1>6. \A i \in 1 .. Len(shape) : new[i].msg = arrived + 1 /\ (new[i].more => i < Len(shape))
  OBVIOUS
<1>7. inbox' = inbox \o new
  BY DEF Arrive
<1> HIDE DEF new
<1>8. inbox \in Seq(PartOfMessage) /\ Len(inbox) \in Nat
  BY DEF TypeOK
<1>9. /\ inbox' \in Seq(PartOfMessage) /\ Len(inbox') = Len(inbox) + Len(shape)
      /\ \A i \in 1 .. Len(inbox) + Len(shape) :
           inbox'[i] = IF i <= Len(inbox) THEN inbox[i] ELSE new[i - Len(inbox)]
  <2>1. /\ inbox \o new \in Seq(PartOfMessage)
        /\ Len(inbox \o new) = Len(inbox) + Len(new)
        /\ \A i \in 1 .. Len(inbox) + Len(new) :
             (inbox \o new)[i] =
               IF i <= Len(inbox) THEN inbox[i] ELSE new[i - Len(inbox)]
    BY <1>5, <1>8, ConcatProperties, Zenon
  <2>2. Len(new) = Len(shape)
    BY <1>5
  <2> QED
    BY <1>7, <2>1, <2>2, Zenon
<1>10. InboxInv'
  <2> SUFFICES ASSUME NEW i \in 1 .. Len(inbox) + Len(shape), inbox'[i].more
               PROVE  i < Len(inbox) + Len(shape) /\ inbox'[i + 1].msg = inbox'[i].msg
    BY <1>9 DEF InboxInv
  <2>1. CASE i <= Len(inbox)
    <3>1. inbox'[i] = inbox[i] /\ i \in 1 .. Len(inbox)
      BY <1>9, <2>1
    <3>2. i < Len(inbox) /\ inbox[i + 1].msg = inbox[i].msg
      BY <3>1 DEF SocketInv, InboxInv
    <3>3. inbox'[i + 1] = inbox[i + 1]
      BY <1>2, <1>8, <1>9, <3>2
    <3> QED
      BY <1>2, <1>8, <3>1, <3>2, <3>3
  <2>2. CASE i > Len(inbox)
    <3>1. i - Len(inbox) \in 1 .. Len(shape)
      BY <1>2, <1>8, <2>2
    <3>2. inbox'[i] = new[i - Len(inbox)]
      BY <1>9, <1>8, <2>2
    <3>3. i - Len(inbox) < Len(shape)
      BY <1>6, <3>1, <3>2
    <3>4. i + 1 \in 1 .. Len(inbox) + Len(shape) /\ ~(i + 1 <= Len(inbox))
          /\ (i + 1) - Len(inbox) \in 1 .. Len(shape)
      BY <1>2, <1>8, <2>2, <3>1, <3>3
    <3>5. inbox'[i + 1] = new[(i + 1) - Len(inbox)]
      BY <1>9, <3>4
    <3> QED
      BY <1>2, <1>6, <1>8, <3>1, <3>2, <3>3, <3>4, <3>5
  <2> QED
    BY <1>8, <2>1, <2>2
<1>11. inbox # <<>> => inbox' # <<>> /\ Head(inbox') = Head(inbox)
  <2> SUFFICES ASSUME inbox # <<>> PROVE inbox' # <<>> /\ Head(inbox') = Head(inbox)
    OBVIOUS
  <2>1. Len(inbox) > 0
    BY <1>8
  <2>2. inbox'[1] = inbox[1] /\ Len(inbox') > 0
    BY <1>2, <1>8, <1>9, <2>1
  <2> QED
    BY <1>8, <1>9, <2>1, <2>2
<1>12. ASSUME NEW i \in 1 .. Len(inbox')
       PROVE  inbox'[i].msg = arrived + 1 \/ \E j \in 1 .. Len(inbox) : inbox'[i] = inbox[j]
  <2>1. CASE i <= Len(inbox)
    BY <1>8, <1>9, <2>1
  <2>2. CASE i > Len(inbox)
    <3>1. i - Len(inbox) \in 1 .. Len(shape) /\ inbox'[i] = new[i - Len(inbox)]
      BY <1>2, <1>8, <1>9, <2>2
    <3> QED
      BY <1>6, <3>1
  <2> QED
    BY <1>8, <1>9, <2>1, <2>2
<1> QED
  BY <1>9, <1>10, <1>11, <1>12 DEF SocketInv, Arrive, history
-----------------------------------------------------------------------------
(* Where a receive goes.                                                    *)

\* What CallInv says of a call.
CallOK(c) ==
  /\ c.step = "parts" => c.left > 0
  /\ c.step = "rest" => c.rest # "no"
  /\ c.step \in {"routing", "parts"} /\ c.rest = "upto" => c.room > 0
  /\ c.step = "rest" /\ c.rest = "upto" => c.room > 0
  /\ c.rest # "no" => ~c.check
  /\ c.step = "idle" => c = Idle

LEMMA CallInvIsOK == CallInv <=> CallOK(call)
BY DEF CallInv, CallOK

LEMMA IdleType == Idle \in Call /\ CallOK(Idle)
BY DEF Idle, Call, Step, CallOK

\* After its own loop a receive ends, or goes on to the rest of a message that
\* has not ended.
LEMMA AfterPartsEffect ==
  ASSUME NEW c \in Call, NEW terminal \in BOOLEAN, c.rest # "no" => ~c.check,
         AfterParts(c, terminal)
  PROVE  /\ call' \in Call /\ result' \in Result /\ CallOK(call')
         /\ \/ call' = Idle
            \/ ~terminal /\ call'.step = "rest"
<1>1. CASE terminal \/ c.rest = "no" \/ (c.rest = "upto" /\ c.room = 0)
  BY <1>1, IdleType DEF AfterParts, End, Result
<1>2. CASE ~(terminal \/ c.rest = "no" \/ (c.rest = "upto" /\ c.room = 0))
  <2>1. call' = [c EXCEPT !.step = "rest", !.left = 0] /\ result' = "ok"
    BY <1>2, Zenon DEF AfterParts
  <2>2. call' \in Call /\ call'.step = "rest" /\ call'.rest = c.rest
        /\ call'.room = c.room /\ call'.check = c.check /\ c.room \in Nat
    BY <2>1 DEF Call, Step
  <2>3. CallOK(call')
    BY <1>2, <2>2 DEF CallOK
  <2> QED
    BY <1>2, <2>1, <2>2, <2>3 DEF Result
<1> QED
  BY <1>1, <1>2

\* After the envelope it goes on to the parts it still wants.
LEMMA AfterRoutingEffect ==
  ASSUME NEW c \in Call, is_terminal \in BOOLEAN, c.step = "routing", CallOK(c),
         AfterRouting(c)
  PROVE  /\ call' \in Call /\ result' \in Result /\ CallOK(call')
         /\ \/ call' = Idle
            \/ c.left > 0 /\ call'.step = "parts"
            \/ ~is_terminal /\ call'.step = "rest"
<1>1. CASE c.left = 0
  BY <1>1, AfterPartsEffect DEF AfterRouting, CallOK
<1>2. CASE c.left # 0
  <2>1. call' = [c EXCEPT !.step = "parts"] /\ result' = "ok"
    BY <1>2, Zenon DEF AfterRouting
  <2>2. call' \in Call /\ call'.step = "parts" /\ call'.rest = c.rest
        /\ call'.room = c.room /\ call'.check = c.check /\ call'.left = c.left
        /\ c.left \in Nat
    BY <2>1 DEF Call, Step
  <2>3. CallOK(call')
    BY <1>2, <2>2 DEF CallOK
  <2> QED
    BY <1>2, <2>1, <2>2, <2>3 DEF Result
<1> QED
  BY <1>1, <1>2

-----------------------------------------------------------------------------
(* Init, and the steps that take nothing off the socket.                    *)

LEMMA InitInv == Init => IInv
<1> SUFFICES ASSUME Init PROVE IInv
  OBVIOUS
<1>1. TypeOK
  <2>1. capacity \in Nat /\ RoutingCapacity \in Nat
    BY BoundsAssumption DEF Init
  <2>2. <<>> \in Seq(PartOfMessage) /\ Len(<<>>) = 0
    OBVIOUS
  <2>3. 0 \in 0 .. MaxMessages /\ 1 \in 1 .. MaxObjects /\ 0 \in 0 .. MaxErrors
    BY BoundsAssumption
  <2>4. policy \in Policies /\ capacity \in Capacities /\ inbox = <<>>
        /\ rcvmore = FALSE /\ parts = <<>> /\ routing = <<>>
        /\ is_terminal = FALSE /\ cur_extract_idx = 0
        /\ taken = <<>> /\ observed = <<>> /\ drained = FALSE /\ past_end = FALSE
    BY DEF Init
  <2>5. Len(parts) <= capacity /\ Len(routing) <= RoutingCapacity
        /\ cur_extract_idx \in 0 .. Len(parts)
    BY <2>1, <2>2, <2>4
  <2>6. arrived \in 0 .. MaxMessages /\ objects \in 1 .. MaxObjects
        /\ errors \in 0 .. MaxErrors /\ call \in Call /\ result \in Result
    BY <2>3, IdleType DEF Init, Result
  <2> QED
    BY <2>2, <2>4, <2>5, <2>6, Zenon DEF TypeOK
<1>2. SocketInv
  BY DEF Init, SocketInv, InboxInv
<1>3. CallInv
  BY CallInvIsOK, IdleType DEF Init
<1>4. call.step = "idle" /\ Filled = {} /\ taken = <<>>
  BY DEF Init, Idle, Filled
<1>5. ControlInv
  BY <1>4 DEF Init, ControlInv, Receiving, Fresh
<1>6. RoutingInv
  BY <1>4 DEF Init, RoutingInv
<1>7. TerminalInv
  BY <1>4 DEF Init, TerminalInv
<1>8. OneMessage
  BY <1>4 DEF OneMessage
<1> QED
  BY <1>1, <1>2, <1>3, <1>5, <1>6, <1>7, <1>8 DEF IInv

LEMMA ArriveStep ==
  ASSUME IInv, NEW shape \in Shapes, Arrive(shape)
  PROVE  IInv'
<1>1. inbox' \in Seq(PartOfMessage) /\ SocketInv'
  BY ArriveEffect DEF IInv
<1>2. arrived' \in 0 .. MaxMessages
  BY BoundsAssumption DEF IInv, TypeOK, Arrive
<1>3. UNCHANGED <<policy, capacity, rcvmore, objects, errors, parts, routing,
                  is_terminal, cur_extract_idx, call, result, taken, observed,
                  drained, past_end>>
  BY DEF Arrive, world, object, history
<1>4. TypeOK'
  BY <1>1, <1>2, <1>3 DEF IInv, TypeOK
<1>5. CallInv'
  BY <1>3 DEF IInv, CallInv
<1>6. ControlInv'
  BY <1>3 DEF IInv, ControlInv, Receiving, Fresh, EnvelopeOK
<1>7. RoutingInv'
  BY <1>3 DEF IInv, RoutingInv, RoutingThrew
<1>8. TerminalInv' /\ OneMessage'
  BY <1>3 DEF IInv, TerminalInv, OneMessage, Filled, EnvelopeOK
<1> QED
  BY <1>1, <1>4, <1>5, <1>6, <1>7, <1>8 DEF IInv

\* receive, receive_all and receive_up_to begin.
LEMMA ReceiveStep ==
  ASSUME IInv, NEW n \in Nat, NEW check \in BOOLEAN, NEW rest \in {"no", "all", "upto"},
         NEW room \in Nat, rest # "no" => ~check, rest = "upto" => room > 0,
         Receive(n, check, rest, room)
  PROVE  IInv'
<1> DEFINE c == [step |-> "routing", left |-> n, check |-> check,
                 rest |-> rest, room |-> room]
<1>1. c \in Call /\ CallOK(c) /\ c.step = "routing" /\ c.left = n
  BY DEF Call, Step, CallOK
<1>2. call.step = "idle"
  BY DEF Receive, Idle
<1>3. /\ IF policy = "X" /\ routing = <<>>
         THEN call' = c /\ result' = "ok" ELSE AfterRouting(c)
      /\ past_end' = (past_end \/ drained \/ (is_terminal /\ n > 0))
      /\ UNCHANGED <<policy, capacity, inbox, rcvmore, arrived, objects, errors,
                     parts, routing, is_terminal, cur_extract_idx, taken,
                     observed, drained>>
  BY DEF Receive, world, socket, counters, object
<1> HIDE DEF c
<1>4. is_terminal \in BOOLEAN /\ past_end' \in BOOLEAN
  BY <1>3 DEF IInv, TypeOK
<1>5. /\ call' \in Call /\ result' \in Result /\ CallOK(call')
      /\ \/ call' = Idle
         \/ n > 0 /\ call'.step = "parts"
         \/ ~is_terminal /\ call'.step = "rest"
         \/ policy = "X" /\ routing = <<>> /\ call'.step = "routing"
      /\ policy = "X" /\ routing = <<>> => call'.step = "routing"
  <2>1. CASE policy = "X" /\ routing = <<>>
    BY <1>1, <1>3, <2>1 DEF Result
  <2>2. CASE ~(policy = "X" /\ routing = <<>>)
    BY <1>1, <1>3, <1>4, <2>2, AfterRoutingEffect
  <2> QED
    BY <2>1, <2>2
<1>6. Idle.step = "idle"
  BY DEF Idle
<1>7. TypeOK'
  BY <1>3, <1>4, <1>5 DEF IInv, TypeOK
<1>8. SocketInv' /\ CallInv'
  BY <1>3, <1>5, CallInvIsOK DEF IInv, SocketInv, InboxInv, CallInv, CallOK
<1>9. ControlInv'
  <2>1. call'.step # "tail"
    BY <1>5, <1>6
  <2>2. Receiving' /\ ~past_end' => ~drained /\ ~is_terminal
    BY <1>3, <1>5, <1>6 DEF IInv, RoutingInv, Receiving
  <2>3. ~past_end' /\ ~drained /\ ~is_terminal /\ EnvelopeOK => Fresh
    BY <1>2, <1>3 DEF IInv, ControlInv
  <2> QED
    BY <1>3, <2>1, <2>2, <2>3 DEF ControlInv, EnvelopeOK, Fresh
<1>10. RoutingInv'
  <2>1. policy = "X" /\ routing = <<>> =>
          parts = <<>> /\ ~is_terminal /\ call'.step = "routing"
    BY <1>5 DEF IInv, RoutingInv
  <2>2. call'.step = "routing" => policy = "X" /\ routing = <<>>
    BY <1>5, <1>6
  <2>3. routing = <<>> => \A i \in 1 .. Len(routing) : FALSE
    OBVIOUS
  <2>4. \A i \in 1 .. Len(routing) - 1 : routing[i].kind # "null"
    BY DEF IInv, RoutingInv
  <2>5. routing # <<>> => Last(routing).kind = "null" \/ RoutingThrew
    BY <1>2 DEF IInv, RoutingInv
  <2> QED
    BY <1>3, <2>1, <2>2, <2>3, <2>4, <2>5 DEF RoutingInv, RoutingThrew
<1>11. TerminalInv' /\ OneMessage'
  BY <1>2, <1>3 DEF IInv, TerminalInv, OneMessage, Filled, EnvelopeOK
<1> QED
  BY <1>7, <1>8, <1>9, <1>10, <1>11 DEF IInv
-----------------------------------------------------------------------------
(* The steps that take a part.                                              *)

\* What the steps inside receive have in common: as long as the caller knows
\* of no end, no end was met, and the next part is one of the message.
LEMMA InReceive ==
  ASSUME IInv, Receiving, ~past_end
  PROVE  ~drained /\ ~is_terminal /\ (EnvelopeOK => Fresh)
BY DEF IInv, ControlInv, Receiving

\* OneMessage after a part was taken, when the envelope was all right before.
LEMMA TakeKeepsOne ==
  ASSUME IInv, SocketInv, recv_msg,
         ~past_end' /\ EnvelopeOK' => ~past_end /\ EnvelopeOK /\ Fresh
  PROVE  OneMessage'
<1> SUFFICES ASSUME ~past_end', EnvelopeOK' PROVE SameMessage(taken')
  BY DEF OneMessage, SameMessage
<1>1. ~past_end /\ EnvelopeOK /\ Fresh
  OBVIOUS
<1>2. SameMessage(taken)
  BY <1>1 DEF IInv, OneMessage, SameMessage
<1> QED
  BY <1>1, <1>2, RecvEffect DEF IInv

LEMMA ReceiveRoutingStep ==
  ASSUME IInv, ReceiveRouting
  PROVE  IInv'
<1>1. /\ call.step = "routing" /\ Receiving
      /\ UNCHANGED <<policy, capacity, arrived, objects, parts, is_terminal,
                     cur_extract_idx, observed, drained, past_end>>
  BY DEF ReceiveRouting, Receiving, world
<1>2. /\ policy = "X" /\ parts = <<>> /\ ~is_terminal
      /\ \A i \in 1 .. Len(routing) : routing[i].kind # "null" /\ routing[i].more
  BY <1>1 DEF IInv, RoutingInv
<1>3. /\ routing \in Seq(PartOfMessage) /\ Len(routing) \in Nat
      /\ is_terminal \in BOOLEAN /\ call \in Call /\ CallOK(call)
      /\ RoutingCapacity \in Nat
  BY CallInvIsOK, BoundsAssumption DEF IInv, TypeOK
<1>4. EnvelopeOK
  BY <1>2, <1>3, LastOf DEF EnvelopeOK
<1>5. ~past_end => ~drained /\ Fresh
  BY <1>1, <1>4, InReceive
<1>6. Idle.step = "idle"
  BY DEF Idle
<1>7. Filled' = {}
  BY <1>1, <1>2 DEF Filled
<1>8. ASSUME NEW part \in PartOfMessage, routing' = Append(routing, part)
      PROVE  /\ routing' \in Seq(PartOfMessage) /\ routing' # <<>>
             /\ Len(routing') = Len(routing) + 1 /\ Last(routing') = part
             /\ \A i \in 1 .. Len(routing') - 1 :
                  routing'[i].kind # "null" /\ routing'[i].more
             /\ routing'[Len(routing')] = part
  <2>1. /\ routing' \in Seq(PartOfMessage) /\ routing' # <<>>
        /\ Len(routing') = Len(routing) + 1 /\ Last(routing') = part
        /\ \A i \in 1 .. Len(routing) : routing'[i] = routing[i]
        /\ routing'[Len(routing) + 1] = part
    BY <1>3, <1>8, LastOfAppend
  <2> QED
    BY <1>2, <1>3, <2>1
\* A part comes.
<1>9. CASE /\ Len(routing) < RoutingCapacity
           /\ recv_msg
           /\ routing' = Append(routing, Head(inbox))
           /\ IF EndOfEnvelope(Head(inbox)) THEN AfterRouting(call)
              ELSE IF ~Head(inbox).more THEN End("format")
              ELSE UNCHANGED <<call, result>>
           /\ UNCHANGED errors
  <2>1. /\ Head(inbox) \in PartOfMessage /\ inbox' \in Seq(PartOfMessage)
        /\ taken' \in Seq(PartOfMessage) /\ taken' # <<>>
        /\ rcvmore' = Head(inbox).more /\ rcvmore' \in BOOLEAN /\ SocketInv'
    BY <1>9, RecvEffect DEF IInv
  <2>2. /\ routing' \in Seq(PartOfMessage) /\ routing' # <<>>
        /\ Len(routing') = Len(routing) + 1 /\ Last(routing') = Head(inbox)
        /\ \A i \in 1 .. Len(routing') - 1 :
             routing'[i].kind # "null" /\ routing'[i].more
        /\ routing'[Len(routing')] = Head(inbox)
    BY <1>8, <1>9, <2>1
  <2>3. /\ call' \in Call /\ result' \in Result /\ CallOK(call')
        /\ \/ Head(inbox).kind = "null" /\ call'.step \in {"idle", "parts", "rest"}
           \/ Head(inbox).kind # "null" /\ ~Head(inbox).more /\ call'.step = "idle"
           \/ Head(inbox).kind # "null" /\ Head(inbox).more /\ call'.step = "routing"
    <3>1. CASE EndOfEnvelope(Head(inbox))
      BY <1>1, <1>3, <1>6, <1>9, <3>1, AfterRoutingEffect DEF EndOfEnvelope
    <3>2. CASE ~EndOfEnvelope(Head(inbox)) /\ ~Head(inbox).more
      BY <1>6, <1>9, <3>2, IdleType DEF EndOfEnvelope, End, Result
    <3>3. CASE ~EndOfEnvelope(Head(inbox)) /\ Head(inbox).more
      BY <1>1, <1>3, <1>9, <3>3 DEF EndOfEnvelope, IInv, TypeOK
    <3> QED
      BY <3>1, <3>2, <3>3
  <2>4. TypeOK'
    BY <1>1, <1>3, <1>9, <2>1, <2>2, <2>3 DEF IInv, TypeOK
  <2>5. CallInv'
    BY <2>3 DEF CallInv, CallOK
  <2>6. ControlInv'
    <3>1. EnvelopeOK' => Fresh'
      BY <2>1, <2>2 DEF EnvelopeOK, Fresh
    <3> QED
      BY <1>1, <1>2, <1>5, <2>3, <3>1 DEF ControlInv
  <2>7. RoutingInv'
    <3>1. call'.step = "routing" =>
            \A i \in 1 .. Len(routing') : routing'[i].kind # "null" /\ routing'[i].more
      BY <1>3, <2>2, <2>3
    <3>2. call'.step # "routing" => Last(routing').kind = "null" \/ RoutingThrew'
      BY <2>2, <2>3 DEF RoutingThrew
    <3> QED
      BY <1>1, <1>2, <2>2, <3>1, <3>2 DEF RoutingInv
  <2>8. TerminalInv'
    BY <1>1, <1>2, <1>7 DEF TerminalInv
  <2>9. OneMessage'
    BY <1>1, <1>4, <1>5, <1>9, TakeKeepsOne DEF IInv
  <2> QED
    BY <2>1, <2>4, <2>5, <2>6, <2>7, <2>8, <2>9 DEF IInv
\* The wait for it is interrupted.
<1>10. CASE /\ Len(routing) < RoutingCapacity
            /\ Interrupted
            /\ routing' = Append(routing, Phantom)
            /\ End("error")
  <2>1. /\ UNCHANGED <<inbox, rcvmore, taken>>
        /\ errors' \in 0 .. MaxErrors /\ SocketInv'
    BY <1>10, InterruptedEffect DEF IInv
  <2>2. /\ routing' \in Seq(PartOfMessage) /\ routing' # <<>>
        /\ Len(routing') = Len(routing) + 1 /\ Last(routing') = Phantom
        /\ \A i \in 1 .. Len(routing') - 1 : routing'[i].kind # "null"
    BY <1>8, <1>10, PhantomType
  <2>3. call' \in Call /\ result' \in Result /\ CallOK(call') /\ call'.step = "idle"
    BY <1>6, <1>10, IdleType DEF End, Result
  <2>4. TypeOK'
    BY <1>1, <1>3, <1>10, <2>1, <2>2, <2>3 DEF IInv, TypeOK
  <2>5. CallInv'
    BY <2>3 DEF CallInv, CallOK
  <2>6. ~EnvelopeOK'
    BY <2>2 DEF EnvelopeOK, Phantom
  <2>7. ControlInv'
    BY <2>3, <2>6 DEF ControlInv, Receiving
  <2>8. RoutingInv'
    BY <2>2, <2>3 DEF RoutingInv, Phantom
  <2>9. TerminalInv' /\ OneMessage'
    BY <1>1, <1>2, <1>7, <2>6 DEF TerminalInv, OneMessage
  <2> QED
    BY <2>1, <2>4, <2>5, <2>7, <2>8, <2>9 DEF IInv
\* There is no room for it.
<1>11. CASE /\ Len(routing) = RoutingCapacity
            /\ End("format")
            /\ UNCHANGED <<socket, routing, taken, errors>>
  <2>1. UNCHANGED <<inbox, rcvmore, routing, taken, errors>>
    BY <1>11 DEF socket
  <2>2. call' \in Call /\ result' \in Result /\ CallOK(call') /\ call'.step = "idle"
    BY <1>6, <1>11, IdleType DEF End, Result
  <2>3. TypeOK' /\ SocketInv' /\ CallInv'
    BY <1>1, <2>1, <2>2 DEF IInv, TypeOK, SocketInv, InboxInv, CallInv, CallOK
  <2>4. ControlInv'
    BY <1>1, <1>5, <2>1, <2>2 DEF ControlInv, Receiving, Fresh
  <2>5. RoutingInv'
    <3>1. routing # <<>> => Last(routing').kind # "null" /\ RoutingThrew'
      BY <1>2, <1>3, <1>11, <2>1, LastOf DEF RoutingThrew
    <3>2. \A i \in 1 .. Len(routing) - 1 : routing[i].kind # "null"
      BY <1>2, <1>3
    <3> QED
      BY <1>1, <1>2, <2>1, <2>2, <3>1, <3>2 DEF RoutingInv
  <2>6. TerminalInv' /\ OneMessage'
    BY <1>1, <1>2, <1>7, <2>1 DEF IInv, TerminalInv, OneMessage, EnvelopeOK
  <2> QED
    BY <2>3, <2>4, <2>5, <2>6 DEF IInv
<1> QED
  BY <1>9, <1>10, <1>11 DEF ReceiveRouting
\* What receive_one does with a part, when its caller marks the end.
LEMMA PartReceived ==
  ASSUME IInv, call.step \in {"parts", "rest"}, HasRoom, do_receive_msg,
         parts' = Append(parts, Head(inbox)),
         UNCHANGED <<policy, capacity, arrived, objects, errors, routing,
                     cur_extract_idx, drained, past_end>>,
         is_terminal' \in BOOLEAN, call' \in Call, CallOK(call'), result' \in Result,
         call'.step \in {"idle", "parts", "rest"},
         ~past_end => is_terminal' = ~rcvmore',
         call'.step # "idle" /\ ~past_end => ~is_terminal'
  PROVE  IInv'
<1>1. recv_msg /\ observed' = Append(observed, Head(inbox)) /\ Receiving
  BY DEF do_receive_msg, Receiving
<1>2. /\ Head(inbox) \in PartOfMessage /\ inbox' \in Seq(PartOfMessage)
      /\ taken' \in Seq(PartOfMessage) /\ taken' # <<>>
      /\ rcvmore' = Head(inbox).more /\ rcvmore' \in BOOLEAN /\ SocketInv'
  BY <1>1, RecvEffect DEF IInv
<1>3. /\ parts \in Seq(PartOfMessage) /\ observed \in Seq(PartOfMessage)
      /\ Len(parts) \in Nat /\ capacity \in Nat /\ Len(parts) < capacity
  BY BoundsAssumption DEF IInv, TypeOK, HasRoom
<1>4. /\ parts' \in Seq(PartOfMessage) /\ parts' # <<>> /\ Len(parts') = Len(parts) + 1
      /\ observed' \in Seq(PartOfMessage)
  <2>1. parts' \in Seq(PartOfMessage) /\ parts' # <<>> /\ Len(parts') = Len(parts) + 1
    BY <1>2, <1>3, LastOfAppend
  <2>2. observed' \in Seq(PartOfMessage)
    BY <1>1, <1>2, <1>3, LastOfAppend
  <2> QED
    BY <2>1, <2>2
<1>5. ~past_end => ~drained /\ ~is_terminal /\ (EnvelopeOK => Fresh)
  BY <1>1, InReceive
<1>6. TypeOK'
  BY <1>2, <1>3, <1>4 DEF IInv, TypeOK
<1>7. CallInv'
  BY DEF CallInv, CallOK
<1>8. ControlInv'
  BY <1>2, <1>5 DEF ControlInv, Receiving, Fresh
<1>9. RoutingInv'
  BY DEF IInv, RoutingInv, RoutingThrew
<1>10. TerminalInv'
  BY <1>4 DEF TerminalInv
<1>11. OneMessage'
  BY <1>1, <1>5, TakeKeepsOne DEF IInv, EnvelopeOK
<1> QED
  BY <1>2, <1>6, <1>7, <1>8, <1>9, <1>10, <1>11 DEF IInv

\* What it leaves when it throws: a phantom, or nothing.
LEMMA PartFailed ==
  ASSUME IInv, call.step \in {"parts", "rest"},
         UNCHANGED <<policy, capacity, arrived, objects, routing, is_terminal,
                     cur_extract_idx, observed, drained, past_end>>,
         \/ HasRoom /\ Interrupted /\ parts' = Append(parts, Phantom) /\ End("error")
         \/ ~HasRoom /\ End("format") /\ UNCHANGED <<socket, parts, taken, errors>>
  PROVE  IInv'
<1>1. /\ Receiving /\ call' = Idle /\ Idle.step = "idle" /\ Idle \in Call
      /\ result' \in Result /\ CallOK(call')
  BY IdleType DEF Receiving, End, Result, Idle
<1>2. ~past_end => ~drained /\ ~is_terminal /\ (EnvelopeOK => Fresh)
  BY <1>1, InReceive
<1>3. /\ parts \in Seq(PartOfMessage) /\ Len(parts) \in Nat /\ capacity \in Nat
      /\ Len(parts) <= capacity
  BY BoundsAssumption DEF IInv, TypeOK
<1>4. /\ UNCHANGED <<inbox, rcvmore, taken>> /\ errors' \in 0 .. MaxErrors
      /\ SocketInv'
      /\ parts' \in Seq(PartOfMessage) /\ Len(parts') <= capacity
      /\ Len(parts') \in Nat /\ Len(parts) <= Len(parts')
      /\ (parts' # parts => ~rcvmore)
      /\ (Filled = {} => Filled' = {})
  <2>1. CASE HasRoom /\ Interrupted /\ parts' = Append(parts, Phantom)
    <3>1. ~rcvmore /\ UNCHANGED <<inbox, rcvmore, taken>>
          /\ errors' \in 0 .. MaxErrors /\ SocketInv'
      BY <2>1, InterruptedEffect DEF IInv
    <3>2. /\ parts' \in Seq(PartOfMessage) /\ Len(parts') = Len(parts) + 1
          /\ \A i \in 1 .. Len(parts) : parts'[i] = parts[i]
          /\ parts'[Len(parts) + 1] = Phantom
      BY <1>3, <2>1, PhantomType, LastOfAppend
    <3>3. Filled = {} => Filled' = {}
      <4>1. DOMAIN parts = 1 .. Len(parts) /\ DOMAIN parts' = 1 .. Len(parts) + 1
        BY <1>3, <3>2
      <4>2. \A i \in 1 .. Len(parts) + 1 : i \in 1 .. Len(parts) \/ i = Len(parts) + 1
        BY <1>3
      <4> QED
        BY <3>2, <4>1, <4>2 DEF Filled
    <3> QED
      BY <1>3, <2>1, <3>1, <3>2, <3>3 DEF HasRoom
  <2>2. CASE UNCHANGED <<socket, parts, taken, errors>>
    BY <1>3, <2>2 DEF socket, IInv, TypeOK, SocketInv, InboxInv, Filled
  <2> QED
    BY <2>1, <2>2
<1>5. TypeOK'
  BY <1>1, <1>3, <1>4 DEF IInv, TypeOK
<1>6. CallInv'
  BY <1>1 DEF CallInv, CallOK
<1>7. ControlInv'
  BY <1>1, <1>2, <1>4 DEF ControlInv, Receiving, Fresh, EnvelopeOK
<1>8. RoutingInv'
  BY <1>1 DEF IInv, RoutingInv, RoutingThrew
<1>9. TerminalInv'
  <2>1. ~past_end /\ Filled' # {} => rcvmore
    BY <1>2, <1>4 DEF IInv, TerminalInv
  <2> QED
    BY <1>2, <1>4, <2>1 DEF TerminalInv
<1>10. OneMessage'
  BY <1>4 DEF IInv, OneMessage, EnvelopeOK
<1> QED
  BY <1>4, <1>5, <1>6, <1>7, <1>8, <1>9, <1>10 DEF IInv

LEMMA ReceivePartStep ==
  ASSUME IInv, ReceivePart
  PROVE  IInv'
<1>1. /\ call.step = "parts"
      /\ UNCHANGED <<policy, capacity, arrived, objects, routing, cur_extract_idx,
                     drained, past_end>>
  BY DEF ReceivePart, world
<1>2. call \in Call /\ CallOK(call) /\ is_terminal \in BOOLEAN /\ result \in Result
  BY CallInvIsOK DEF IInv, TypeOK
<1>3. CASE /\ HasRoom /\ do_receive_msg /\ parts' = Append(parts, Head(inbox))
           /\ LET more == Head(inbox).more
                  last == call.left = 1
              IN \/ /\ ~last /\ more
                    /\ call' = [call EXCEPT !.left = @ - 1]
                    /\ UNCHANGED <<is_terminal, result>>
                 \/ ~last /\ ~more /\ TooFew
                 \/ /\ last /\ more /\ call.check
                    /\ is_terminal' = FALSE /\ End("format")
                 \/ /\ last /\ ~(more /\ call.check)
                    /\ is_terminal' = ~more
                    /\ AfterParts(call, ~more)
           /\ UNCHANGED errors
  <2>1. rcvmore' = Head(inbox).more /\ Head(inbox).more \in BOOLEAN
    BY <1>3, RecvEffect DEF IInv, do_receive_msg
  <2>2. ~past_end => ~is_terminal
    BY <1>1, InReceive DEF Receiving
  <2>3. Idle.step = "idle"
    BY DEF Idle
  <2>4. /\ is_terminal' \in BOOLEAN /\ call' \in Call /\ CallOK(call')
        /\ result' \in Result /\ call'.step \in {"idle", "parts", "rest"}
        /\ ~past_end => is_terminal' = ~rcvmore'
        /\ call'.step # "idle" /\ ~past_end => ~is_terminal'
    <3>1. CASE /\ call.left # 1 /\ Head(inbox).more
               /\ call' = [call EXCEPT !.left = @ - 1]
               /\ UNCHANGED <<is_terminal, result>>
      <4>1. call.left \in Nat /\ call.left > 1
        BY <1>1, <1>2, <3>1 DEF Call, CallOK
      <4>2. /\ call' \in Call /\ call'.step = "parts" /\ call'.left > 0
            /\ call'.rest = call.rest /\ call'.room = call.room
            /\ call'.check = call.check
        BY <1>1, <1>2, <3>1, <4>1 DEF Call, Step
      <4>3. CallOK(call')
        BY <1>1, <1>2, <4>2 DEF CallOK
      <4> QED
        BY <1>2, <2>1, <2>2, <3>1, <4>2, <4>3
    <3>2. CASE ~Head(inbox).more /\ TooFew
      BY <2>1, <2>3, <3>2, IdleType DEF TooFew, End, Result
    <3>3. CASE Head(inbox).more /\ is_terminal' = FALSE /\ End("format")
      BY <2>1, <2>3, <3>3, IdleType DEF End, Result
    <3>4. CASE is_terminal' = ~Head(inbox).more /\ AfterParts(call, ~Head(inbox).more)
      <4>1. call.rest # "no" => ~call.check
        BY <1>2 DEF CallOK
      <4>2. (~Head(inbox).more) \in BOOLEAN
        BY <2>1
      <4>3. /\ call' \in Call /\ result' \in Result /\ CallOK(call')
            /\ \/ call' = Idle
               \/ Head(inbox).more /\ call'.step = "rest"
        BY <1>2, <3>4, <4>1, <4>2, AfterPartsEffect
      <4> QED
        BY <2>1, <2>3, <3>4, <4>3
    <3> QED
      BY <1>3, <3>1, <3>2, <3>3, <3>4
  <2> QED
    BY <1>1, <1>3, <2>4, PartReceived
<1>4. CASE /\ UNCHANGED <<is_terminal, observed>>
           /\ \/ HasRoom /\ Interrupted /\ parts' = Append(parts, Phantom) /\ End("error")
              \/ ~HasRoom /\ End("format") /\ UNCHANGED <<socket, parts, taken, errors>>
  BY <1>1, <1>4, PartFailed
<1> QED
  BY <1>3, <1>4 DEF ReceivePart, receive_one

LEMMA ReceiveRestStep ==
  ASSUME IInv, ReceiveRest
  PROVE  IInv'
<1> DEFINE c == IF call.rest = "upto" THEN [call EXCEPT !.room = @ - 1] ELSE call
<1>1. /\ call.step = "rest"
      /\ UNCHANGED <<policy, capacity, arrived, objects, routing, cur_extract_idx,
                     drained, past_end>>
  BY DEF ReceiveRest, world
<1>2. call \in Call /\ CallOK(call)
  BY CallInvIsOK DEF IInv, TypeOK
<1>3. CASE /\ HasRoom /\ do_receive_msg /\ parts' = Append(parts, Head(inbox))
           /\ is_terminal' = ~Head(inbox).more /\ AfterParts(c, ~Head(inbox).more)
           /\ UNCHANGED errors
  <2>1. rcvmore' = Head(inbox).more /\ Head(inbox).more \in BOOLEAN
    BY <1>3, RecvEffect DEF IInv, do_receive_msg
  <2>2. c \in Call /\ (c.rest # "no" => ~c.check)
    <3>1. call.rest = "upto" => call.room \in Nat /\ call.room > 0
      BY <1>1, <1>2 DEF Call, CallOK
    <3> QED
      BY <1>2, <3>1 DEF Call, CallOK
  <2>3. Idle.step = "idle" /\ (~Head(inbox).more) \in BOOLEAN
    BY <2>1 DEF Idle
  <2> HIDE DEF c
  <2>4. /\ call' \in Call /\ result' \in Result /\ CallOK(call')
        /\ \/ call' = Idle
           \/ Head(inbox).more /\ call'.step = "rest"
    BY <1>3, <2>2, <2>3, AfterPartsEffect
  <2>5. /\ is_terminal' \in BOOLEAN /\ call'.step \in {"idle", "parts", "rest"}
        /\ ~past_end => is_terminal' = ~rcvmore'
        /\ call'.step # "idle" /\ ~past_end => ~is_terminal'
    BY <1>3, <2>1, <2>3, <2>4
  <2> QED
    BY <1>1, <1>3, <2>4, <2>5, PartReceived
<1>4. CASE /\ UNCHANGED <<is_terminal, observed>>
           /\ \/ HasRoom /\ Interrupted /\ parts' = Append(parts, Phantom) /\ End("error")
              \/ ~HasRoom /\ End("format") /\ UNCHANGED <<socket, parts, taken, errors>>
  BY <1>1, <1>4, PartFailed
<1> QED
  BY <1>3, <1>4 DEF ReceiveRest, receive_one
LEMMA FetchOrDropTailStep ==
  ASSUME IInv, FetchOrDropTail
  PROVE  IInv'
<1>1. /\ call.step = "idle" /\ parts # <<>>
      /\ UNCHANGED <<policy, capacity, inbox, rcvmore, arrived, objects, errors,
                     parts, routing, is_terminal, cur_extract_idx, taken, observed,
                     past_end>>
  BY DEF FetchOrDropTail, Idle, world, socket, counters, object
<1>2. /\ call' \in Call /\ CallOK(call') /\ result' \in Result /\ drained' \in BOOLEAN
      /\ \/ call'.step = "tail" /\ rcvmore
         \/ call'.step = "idle" /\ drained'
  <2>1. CASE ~is_terminal /\ rcvmore
    <3>1. call' = [Idle EXCEPT !.step = "tail"] /\ result' = result /\ drained' = FALSE
      BY <2>1 DEF FetchOrDropTail, TailOrEnd
    <3> QED
      BY <2>1, <3>1 DEF Idle, Call, Step, CallOK, IInv, TypeOK
  <2>2. CASE ~(~is_terminal /\ rcvmore)
    <3>1. call' = Idle /\ result' = "ok" /\ drained' = TRUE
      BY <2>2 DEF FetchOrDropTail, TailOrEnd, End
    <3> QED
      BY <3>1, IdleType DEF Idle, Result
  <2> QED
    BY <2>1, <2>2
<1>3. TypeOK' /\ SocketInv' /\ CallInv'
  BY <1>1, <1>2 DEF IInv, TypeOK, SocketInv, InboxInv, CallInv, CallOK
<1>4. ControlInv' /\ TerminalInv'
  BY <1>1, <1>2 DEF ControlInv, Receiving, TerminalInv
<1>5. RoutingInv'
  BY <1>1, <1>2 DEF IInv, RoutingInv, RoutingThrew
<1>6. OneMessage'
  BY <1>1 DEF IInv, OneMessage, EnvelopeOK
<1> QED
  BY <1>3, <1>4, <1>5, <1>6 DEF IInv

\* A part that drop_tail or fetch_tail takes and does not store.
LEMMA TailTaken ==
  ASSUME IInv, do_receive_msg, TailOrEnd(Head(inbox).more),
         call.step \in {"idle", "tail"}, call.step = "idle" => parts = <<>> /\ ~is_terminal,
         past_end' \in BOOLEAN,
         ~past_end' => ~past_end /\ (call.step = "idle" => ~drained),
         UNCHANGED <<policy, capacity, arrived, objects, errors, object>>
  PROVE  IInv'
<1>1. /\ recv_msg /\ observed' = Append(observed, Head(inbox))
      /\ UNCHANGED <<parts, routing, is_terminal, cur_extract_idx>>
  BY DEF do_receive_msg, object
<1>2. /\ Head(inbox) \in PartOfMessage /\ inbox' \in Seq(PartOfMessage)
      /\ taken' \in Seq(PartOfMessage) /\ taken' # <<>>
      /\ rcvmore' = Head(inbox).more /\ rcvmore' \in BOOLEAN /\ SocketInv'
  BY <1>1, RecvEffect DEF IInv
<1>3. observed' \in Seq(PartOfMessage)
  BY <1>1, <1>2, LastOfAppend DEF IInv, TypeOK
<1>4. /\ call' \in Call /\ CallOK(call') /\ result' \in Result /\ drained' \in BOOLEAN
      /\ \/ call'.step = "tail" /\ rcvmore'
         \/ call'.step = "idle" /\ drained'
  <2>1. CASE Head(inbox).more
    <3>1. call' = [Idle EXCEPT !.step = "tail"] /\ result' = result /\ drained' = FALSE
      BY <2>1 DEF TailOrEnd
    <3> QED
      BY <1>2, <2>1, <3>1 DEF Idle, Call, Step, CallOK, IInv, TypeOK
  <2>2. CASE ~Head(inbox).more
    <3>1. call' = Idle /\ result' = "ok" /\ drained' = TRUE
      BY <2>2 DEF TailOrEnd, End
    <3> QED
      BY <3>1, IdleType DEF Idle, Result
  <2> QED
    BY <2>1, <2>2
<1>5. TypeOK'
  BY <1>1, <1>2, <1>3, <1>4 DEF IInv, TypeOK
<1>6. CallInv' /\ ControlInv' /\ TerminalInv'
  BY <1>4 DEF CallInv, CallOK, ControlInv, Receiving, TerminalInv
<1>7. RoutingInv'
  BY <1>1, <1>4 DEF IInv, RoutingInv, RoutingThrew
<1>8. ~past_end' /\ EnvelopeOK' => ~past_end /\ EnvelopeOK /\ Fresh
  <2> SUFFICES ASSUME ~past_end', EnvelopeOK' PROVE EnvelopeOK /\ Fresh
    OBVIOUS
  <2>1. EnvelopeOK
    BY <1>1 DEF EnvelopeOK
  <2>2. CASE call.step = "idle"
    BY <2>1, <2>2 DEF IInv, ControlInv
  <2>3. CASE call.step = "tail"
    BY <2>1, <2>3 DEF IInv, ControlInv, Fresh
  <2> QED
    BY <2>1, <2>2, <2>3
<1>9. OneMessage'
  BY <1>1, <1>8, TakeKeepsOne DEF IInv
<1> QED
  BY <1>2, <1>5, <1>6, <1>7, <1>9 DEF IInv

LEMMA DropWholeStep ==
  ASSUME IInv, DropWhole
  PROVE  IInv'
<1>1. /\ call.step = "idle" /\ parts = <<>> /\ ~is_terminal
      /\ past_end' = (past_end \/ drained)
      /\ UNCHANGED <<policy, capacity, arrived, objects, errors, object>>
      /\ UNCHANGED <<parts, routing, is_terminal, cur_extract_idx>>
  BY DEF DropWhole, Idle, world, counters, object
<1>2. past_end' \in BOOLEAN
  BY <1>1 DEF IInv, TypeOK
<1>3. CASE End("ok") /\ UNCHANGED <<socket, taken, observed, drained>>
  <2>1. /\ UNCHANGED <<inbox, rcvmore, taken, observed, drained>>
        /\ call' = Idle /\ call'.step = "idle" /\ result' = "ok"
    BY <1>3 DEF socket, End, Idle
  <2>2. TypeOK'
    BY <1>1, <1>2, <2>1, IdleType DEF IInv, TypeOK, Result
  <2>3. SocketInv' /\ CallInv'
    BY <2>1, IdleType DEF IInv, SocketInv, InboxInv, CallInv, CallOK
  <2>4. ControlInv'
    BY <1>1, <2>1 DEF IInv, ControlInv, Receiving, Fresh, EnvelopeOK
  <2>5. RoutingInv'
    BY <1>1, <2>1 DEF IInv, RoutingInv, RoutingThrew
  <2>6. TerminalInv' /\ OneMessage'
    BY <1>1, <2>1 DEF IInv, TerminalInv, Filled, OneMessage, EnvelopeOK
  <2> QED
    BY <2>2, <2>3, <2>4, <2>5, <2>6 DEF IInv
<1>4. CASE do_receive_msg /\ TailOrEnd(Head(inbox).more)
  BY <1>1, <1>2, <1>4, TailTaken
<1> QED
  BY <1>3, <1>4 DEF DropWhole

LEMMA ReceiveTailStep ==
  ASSUME IInv, ReceiveTail
  PROVE  IInv'
<1>1. past_end' = past_end /\ past_end \in BOOLEAN /\ call.step = "tail"
      /\ UNCHANGED <<policy, capacity, arrived, objects, errors, object>>
  BY DEF ReceiveTail, IInv, TypeOK, world, counters
<1> QED
  BY <1>1, TailTaken DEF ReceiveTail

LEMMA ExtractStep ==
  ASSUME IInv, Extract
  PROVE  IInv'
<1>1. UNCHANGED <<policy, capacity, inbox, rcvmore, arrived, objects, errors,
                  parts, routing, is_terminal, call, taken, observed, drained,
                  past_end>>
  BY DEF Extract, world, socket, counters, history
<1>2. cur_extract_idx' \in 0 .. Len(parts) /\ result' \in Result
  <2>1. Len(parts) \in Nat /\ cur_extract_idx \in 0 .. Len(parts)
    BY DEF IInv, TypeOK
  <2> QED
    BY <2>1 DEF Extract, Result
<1>3. TypeOK'
  BY <1>1, <1>2 DEF IInv, TypeOK
<1>4. SocketInv' /\ CallInv'
  BY <1>1 DEF IInv, SocketInv, InboxInv, CallInv
<1>5. ControlInv' /\ RoutingInv'
  BY <1>1 DEF IInv, ControlInv, Receiving, Fresh, EnvelopeOK, RoutingInv, RoutingThrew
<1>6. TerminalInv' /\ OneMessage'
  BY <1>1 DEF IInv, TerminalInv, Filled, OneMessage, EnvelopeOK
<1> QED
  BY <1>3, <1>4, <1>5, <1>6 DEF IInv

LEMMA NextIncomingStep ==
  ASSUME IInv, NextIncoming
  PROVE  IInv'
<1>1. /\ UNCHANGED <<policy, capacity, inbox, rcvmore, arrived, errors, call>>
      /\ objects < MaxObjects /\ objects' = objects + 1
      /\ parts' = <<>> /\ routing' = <<>> /\ is_terminal' = FALSE
      /\ cur_extract_idx' = 0 /\ taken' = <<>> /\ observed' = <<>>
      /\ drained' = FALSE /\ past_end' = FALSE /\ result' = "ok"
      /\ call.step = "idle"
  BY DEF NextIncoming, Idle, world, socket
<1>2. TypeOK'
  <2>1. capacity \in Nat /\ RoutingCapacity \in Nat /\ objects' \in 1 .. MaxObjects
    BY <1>1, BoundsAssumption DEF IInv, TypeOK
  <2>2. <<>> \in Seq(PartOfMessage) /\ Len(<<>>) = 0
    OBVIOUS
  <2>3. Len(parts') <= capacity /\ Len(routing') <= RoutingCapacity
        /\ cur_extract_idx' \in 0 .. Len(parts')
    BY <1>1, <2>1, <2>2
  <2> QED
    BY <1>1, <2>1, <2>2, <2>3, Zenon DEF IInv, TypeOK, Result
<1>3. SocketInv' /\ CallInv'
  BY <1>1 DEF IInv, SocketInv, InboxInv, CallInv
<1>4. ControlInv' /\ RoutingInv'
  BY <1>1 DEF ControlInv, Receiving, Fresh, RoutingInv
<1>5. TerminalInv' /\ OneMessage'
  BY <1>1 DEF TerminalInv, Filled, OneMessage
<1> QED
  BY <1>2, <1>3, <1>4, <1>5 DEF IInv

-----------------------------------------------------------------------------
(* The invariant.                                                           *)

LEMMA StutterStep ==
  ASSUME IInv, UNCHANGED vars
  PROVE  IInv'
<1>1. UNCHANGED <<policy, capacity, inbox, rcvmore, arrived, objects, errors,
                  parts, routing, is_terminal, cur_extract_idx, call, result,
                  taken, observed, drained, past_end>>
  BY DEF vars, world, socket, counters, object, history
<1>2. TypeOK' /\ SocketInv' /\ CallInv'
  BY <1>1 DEF IInv, TypeOK, SocketInv, InboxInv, CallInv
<1>3. ControlInv' /\ RoutingInv'
  BY <1>1 DEF IInv, ControlInv, Receiving, Fresh, EnvelopeOK, RoutingInv, RoutingThrew
<1>4. TerminalInv' /\ OneMessage'
  BY <1>1 DEF IInv, TerminalInv, Filled, OneMessage, EnvelopeOK
<1> QED
  BY <1>2, <1>3, <1>4 DEF IInv

LEMMA NextInv == IInv /\ [Next]_vars => IInv'
<1> SUFFICES ASSUME IInv, [Next]_vars PROVE IInv'
  OBVIOUS
<1>1. CASE \E shape \in Shapes : Arrive(shape)
  BY <1>1, ArriveStep
<1>2. CASE receive
  <2>1. PICK n \in Counts, check \in BOOLEAN : Receive(n, check, "no", 0)
    BY <1>2 DEF receive
  <2>2. n \in Nat /\ 0 \in Nat /\ "no" \in {"no", "all", "upto"}
    BY BoundsAssumption
  <2> QED
    BY <2>1, <2>2, ReceiveStep
<1>3. CASE receive_all
  <2>1. PICK n \in Counts : Receive(n, FALSE, "all", 0)
    BY <1>3 DEF receive_all
  <2>2. n \in Nat /\ 0 \in Nat /\ "all" \in {"no", "all", "upto"} /\ FALSE \in BOOLEAN
    BY BoundsAssumption
  <2> QED
    BY <2>1, <2>2, ReceiveStep
<1>4. CASE receive_up_to
  <2>1. PICK n \in Counts, m \in Counts : n < m /\ Receive(n, FALSE, "upto", m - n)
    BY <1>4 DEF receive_up_to
  <2>2. n \in Nat /\ m - n \in Nat /\ m - n > 0 /\ FALSE \in BOOLEAN
        /\ "upto" \in {"no", "all", "upto"}
    BY <2>1, BoundsAssumption
  <2> QED
    BY <2>1, <2>2, ReceiveStep
<1>5. CASE Read
  BY <1>5, ReceiveRoutingStep, ReceivePartStep, ReceiveRestStep, ReceiveTailStep DEF Read
<1>6. CASE FetchOrDropTail
  BY <1>6, FetchOrDropTailStep
<1>7. CASE DropWhole
  BY <1>7, DropWholeStep
<1>8. CASE Extract
  BY <1>8, ExtractStep
<1>9. CASE NextIncoming
  BY <1>9, NextIncomingStep
<1>10. CASE UNCHANGED vars
  BY <1>10, StutterStep
<1> QED
  BY <1>1, <1>2, <1>3, <1>4, <1>5, <1>6, <1>7, <1>8, <1>9, <1>10 DEF Next

\* The invariant is inductive, whatever arrives and whatever the bounds.
THEOREM Inductive == Spec => []IInv
BY InitInv, NextInv, PTL DEF Spec

\* Counts stay within the storages and the bounds (TypeOK).
THEOREM TypeCorrect == Spec => []TypeOK
<1>1. IInv => TypeOK
  BY DEF IInv
<1> QED
  BY <1>1, Inductive, PTL

\* An Incoming takes parts of one message only, as long as its caller does not
\* go on after an end it knew of, although no recv of receive asks has_more
\* first (OneMessage).
THEOREM OneMessageThm == Spec => []OneMessage
<1>1. IInv => OneMessage
  BY DEF IInv
<1> QED
  BY <1>1, Inductive, PTL

\* is_terminal() is what the socket says between two calls (TerminalAccurate).
THEOREM TerminalThm == Spec => []TerminalAccurate
<1>1. IInv => TerminalAccurate
  BY DEF IInv, TerminalInv, TerminalAccurate, Idle
<1> QED
  BY <1>1, Inductive, PTL

\* The payload of an X message begins behind its first null part, unless
\* receive_routing threw and the caller went on (EnvelopeApart).
THEOREM EnvelopeThm == Spec => []EnvelopeApart
<1>1. IInv => EnvelopeApart
  <2> SUFFICES ASSUME IInv, policy = "X", parts # <<>>
               PROVE  /\ routing # <<>>
                      /\ \A i \in 1 .. Len(routing) - 1 : routing[i].kind # "null"
                      /\ Last(routing).kind = "null" \/ RoutingThrew
    BY DEF EnvelopeApart
  <2>1. routing # <<>> /\ call.step # "routing"
    BY DEF IInv, RoutingInv
  <2> QED
    BY <2>1 DEF IInv, RoutingInv
<1> QED
  BY <1>1, Inductive, PTL

\* receive with check_terminal, and receive_all, return normally only at the
\* end of the message (EndsAtBoundary).
THEOREM BoundaryThm == Spec => EndsAtBoundary
<1> DEFINE Ends == call.step \in {"parts", "rest"} /\ (call.check \/ call.rest = "all")
                     /\ call' = Idle /\ result' = "ok" => ~rcvmore' /\ is_terminal'
<1>1. ASSUME IInv, Next, call.step \in {"parts", "rest"},
             call.check \/ call.rest = "all", call' = Idle, result' = "ok"
      PROVE  ~rcvmore' /\ is_terminal'
  <2>1. call.step # "idle" /\ call # Idle /\ call # call'
    BY <1>1 DEF Idle
  <2>2. CallOK(call) /\ call \in Call
    BY <1>1, CallInvIsOK DEF IInv, TypeOK
  <2>3. ReceivePart \/ ReceiveRest
    BY <1>1, <2>1 DEF Next, Arrive, receive, receive_all, receive_up_to, Receive, Read,
       ReceiveRouting, ReceiveTail, FetchOrDropTail, DropWhole, Extract, NextIncoming
  <2>4. recv_msg => rcvmore' = Head(inbox).more /\ Head(inbox).more \in BOOLEAN
    BY <1>1, RecvEffect DEF IInv
  <2>5. "ok" # "format" /\ "ok" # "error"
    OBVIOUS
  <2>6. CASE ReceivePart
    <3>1. /\ recv_msg /\ call.left = 1 /\ ~(Head(inbox).more /\ call.check)
          /\ is_terminal' = ~Head(inbox).more /\ AfterParts(call, ~Head(inbox).more)
      <4>1. CASE call' = [call EXCEPT !.left = @ - 1]
        BY <1>1, <2>1, <2>2, <2>6, <4>1 DEF Call, Idle, ReceivePart
      <4> QED
        BY <1>1, <2>5, <2>6, <4>1 DEF ReceivePart, receive_one, do_receive_msg, TooFew, End
    <3>2. call.check => ~Head(inbox).more
      BY <3>1
    <3>3. call.rest = "all" => ~Head(inbox).more
      <4> SUFFICES ASSUME call.rest = "all", Head(inbox).more PROVE FALSE
        OBVIOUS
      <4>1. call' = [call EXCEPT !.step = "rest", !.left = 0]
        BY <3>1 DEF AfterParts
      <4>2. call'.step = "rest"
        BY <2>2, <4>1 DEF Call
      <4> QED
        BY <1>1, <4>2 DEF Idle
    <3> QED
      BY <1>1, <2>4, <3>1, <3>2, <3>3
  <2>7. CASE ReceiveRest
    <3>1. call.rest = "all"
      BY <1>1, <2>2, <2>7 DEF CallOK, ReceiveRest
    <3>2. /\ recv_msg /\ is_terminal' = ~Head(inbox).more
          /\ AfterParts(call, ~Head(inbox).more)
      BY <1>1, <2>5, <2>7, <3>1 DEF ReceiveRest, receive_one, do_receive_msg, End
    <3>3. ~Head(inbox).more
      <4> SUFFICES ASSUME Head(inbox).more PROVE FALSE
        OBVIOUS
      <4>1. call' = [call EXCEPT !.step = "rest", !.left = 0]
        BY <3>1, <3>2 DEF AfterParts
      <4>2. call'.step = "rest"
        BY <2>2, <4>1 DEF Call
      <4> QED
        BY <1>1, <4>2 DEF Idle
    <3> QED
      BY <2>4, <3>2, <3>3
  <2> QED
    BY <2>3, <2>6, <2>7
<1>2. IInv /\ [Next]_vars => [Ends]_vars
  BY <1>1
<1> QED
  BY <1>2, Inductive, PTL DEF Spec, EndsAtBoundary

-----------------------------------------------------------------------------
(* Nothing is lost.  Parts are counted by induction on what is appended.     *)

\* Nothing was received of an empty storage.
LEMMA NoneFilled == FilledUpTo(<<>>, 0) = 0 /\ AllFilled(<<>>) = 0
<1>1. {j \in 1 .. 0 : <<>>[j] # Phantom} = {}
  OBVIOUS
<1>2. Cardinality({}) = 0
  BY FS_EmptySet
<1>3. FilledUpTo(<<>>, 0) = 0
  BY <1>1, <1>2 DEF FilledUpTo
<1> QED
  BY <1>3 DEF AllFilled

\* A count is a number.
LEMMA FilledType ==
  ASSUME NEW s, NEW i \in Nat
  PROVE  FilledUpTo(s, i) \in Nat /\ IsFiniteSet({j \in 1 .. i : s[j] # Phantom})
<1>1. IsFiniteSet(1 .. i)
  BY FS_Interval
<1>2. IsFiniteSet({j \in 1 .. i : s[j] # Phantom})
  BY <1>1, FS_Subset
<1> QED
  BY <1>2, FS_CardinalityType DEF FilledUpTo

\* A part that is appended is counted if it was received, and changes no count before.
LEMMA FilledAppend ==
  ASSUME NEW s \in Seq(PartOfMessage), NEW x \in PartOfMessage
  PROVE  /\ \A i \in 1 .. Len(s) : FilledUpTo(Append(s, x), i) = FilledUpTo(s, i)
         /\ x = Phantom => AllFilled(Append(s, x)) = AllFilled(s)
         /\ x # Phantom => AllFilled(Append(s, x)) = AllFilled(s) + 1
<1> DEFINE n == Len(s)
           t == Append(s, x)
           S == {j \in 1 .. n : s[j] # Phantom}
           T == {j \in 1 .. n + 1 : t[j] # Phantom}
<1>1. /\ n \in Nat /\ Len(t) = n + 1 /\ t[n + 1] = x
      /\ \A i \in 1 .. n : t[i] = s[i]
  BY LastOfAppend
<1>2. \A i \in 1 .. n : FilledUpTo(t, i) = FilledUpTo(s, i)
  <2> SUFFICES ASSUME NEW i \in 1 .. n PROVE FilledUpTo(t, i) = FilledUpTo(s, i)
    OBVIOUS
  <2> HIDE DEF t, n
  <2>1. \A j \in 1 .. i : j \in 1 .. n
    BY <1>1
  <2>2. {j \in 1 .. i : t[j] # Phantom} = {j \in 1 .. i : s[j] # Phantom}
    BY <1>1, <2>1
  <2> QED
    BY <2>2 DEF FilledUpTo
<1>3. IsFiniteSet(S) /\ AllFilled(s) = Cardinality(S)
  <2>1. n \in Nat
    BY <1>1
  <2>2. IsFiniteSet({j \in 1 .. n : s[j] # Phantom})
    BY <2>1, FilledType
  <2> QED
    BY <2>2 DEF AllFilled, FilledUpTo
<1>4. AllFilled(t) = Cardinality(T)
  BY <1>1 DEF AllFilled, FilledUpTo
<1> HIDE DEF t, n
<1>5. x = Phantom => T = S
  BY <1>1
<1>6. x # Phantom => T = S \cup {n + 1} /\ n + 1 \notin S
  BY <1>1
<1> HIDE DEF S, T
<1>7. x # Phantom => AllFilled(t) = AllFilled(s) + 1
  BY <1>3, <1>4, <1>6, FS_AddElement
<1> QED
  BY <1>2, <1>3, <1>4, <1>5, <1>7 DEF t, n

\* A phantom does not disturb the beginning.
LEMMA BeginsPhantom ==
  ASSUME NEW s \in Seq(PartOfMessage), NEW t, Begins(s, t)
  PROVE  Begins(Append(s, Phantom), t)
<1> DEFINE u == Append(s, Phantom)
<1>1. /\ Len(u) = Len(s) + 1 /\ u[Len(s) + 1] = Phantom /\ Len(s) \in Nat
      /\ DOMAIN u = 1 .. Len(s) + 1 /\ DOMAIN s = 1 .. Len(s)
      /\ \A i \in 1 .. Len(s) : u[i] = s[i]
  BY PhantomType, LastOfAppend
<1>2. \A i \in 1 .. Len(s) : FilledUpTo(u, i) = FilledUpTo(s, i)
  BY PhantomType, FilledAppend
<1> HIDE DEF u
<1>3. ASSUME NEW i \in DOMAIN u, u[i] # Phantom
      PROVE  FilledUpTo(u, i) \in DOMAIN t /\ t[FilledUpTo(u, i)] = u[i]
  <2>1. i \in DOMAIN s /\ u[i] = s[i] /\ FilledUpTo(u, i) = FilledUpTo(s, i)
    BY <1>1, <1>2, <1>3
  <2> QED
    BY <1>3, <2>1 DEF Begins
<1>4. Begins(u, t)
  BY <1>3 DEF Begins
<1> QED
  BY <1>4 DEF u

\* What follows does not either.
LEMMA BeginsMore ==
  ASSUME NEW s, NEW t \in Seq(PartOfMessage), NEW x \in PartOfMessage, Begins(s, t)
  PROVE  Begins(s, Append(t, x))
<1> DEFINE u == Append(t, x)
<1>1. /\ Len(u) = Len(t) + 1 /\ Len(t) \in Nat
      /\ DOMAIN u = 1 .. Len(t) + 1 /\ DOMAIN t = 1 .. Len(t)
      /\ \A i \in 1 .. Len(t) : u[i] = t[i]
  BY LastOfAppend
<1> HIDE DEF u
<1>2. ASSUME NEW i \in DOMAIN s, s[i] # Phantom
      PROVE  FilledUpTo(s, i) \in DOMAIN u /\ u[FilledUpTo(s, i)] = s[i]
  <2>1. FilledUpTo(s, i) \in DOMAIN t /\ t[FilledUpTo(s, i)] = s[i]
    BY <1>2 DEF Begins
  <2> QED
    BY <1>1, <2>1
<1>3. Begins(s, u)
  BY <1>2 DEF Begins
<1> QED
  BY <1>3 DEF u

\* A part that is received and stored is at the end of both.
LEMMA BeginsBoth ==
  ASSUME NEW s \in Seq(PartOfMessage), NEW t \in Seq(PartOfMessage),
         NEW x \in PartOfMessage, x # Phantom, Begins(s, t), AllFilled(s) = Len(t)
  PROVE  /\ Begins(Append(s, x), Append(t, x))
         /\ AllFilled(Append(s, x)) = Len(Append(t, x))
<1> DEFINE u == Append(s, x)
           v == Append(t, x)
<1>1. /\ Len(u) = Len(s) + 1 /\ u[Len(s) + 1] = x /\ Len(s) \in Nat
      /\ DOMAIN u = 1 .. Len(s) + 1 /\ DOMAIN s = 1 .. Len(s)
      /\ \A i \in 1 .. Len(s) : u[i] = s[i]
  BY LastOfAppend
<1>2. /\ Len(v) = Len(t) + 1 /\ Len(t) \in Nat /\ v[Len(t) + 1] = x
      /\ DOMAIN v = 1 .. Len(t) + 1
  BY LastOfAppend
<1>3. /\ \A i \in 1 .. Len(s) : FilledUpTo(u, i) = FilledUpTo(s, i)
      /\ AllFilled(u) = Len(t) + 1
  BY FilledAppend
<1>4. Begins(s, v)
  BY BeginsMore
<1> HIDE DEF u, v
<1>5. ASSUME NEW i \in DOMAIN u, u[i] # Phantom
      PROVE  FilledUpTo(u, i) \in DOMAIN v /\ v[FilledUpTo(u, i)] = u[i]
  <2>1. CASE i \in 1 .. Len(s)
    <3>1. i \in DOMAIN s /\ u[i] = s[i] /\ FilledUpTo(u, i) = FilledUpTo(s, i)
      BY <1>1, <1>3, <2>1
    <3> QED
      BY <1>4, <1>5, <3>1 DEF Begins
  <2>2. CASE i = Len(s) + 1
    <3>1. FilledUpTo(u, i) = Len(t) + 1
      BY <1>1, <1>3, <2>2 DEF AllFilled
    <3> QED
      BY <1>1, <1>2, <2>2, <3>1
  <2> QED
    BY <1>1, <1>5, <2>1, <2>2
<1>6. Begins(u, v)
  BY <1>5 DEF Begins
<1> QED
  BY <1>2, <1>3, <1>6 DEF u, v

\* What a part on the socket is not.
GenuineInv == \A i \in 1 .. Len(inbox) : inbox[i] # Phantom

\* What is stored of a message, and what was shown of it: the storage has
\* all of it until a tail function takes parts, and nothing was shown before
\* the envelope was complete.
StoredInv ==
  /\ call.step = "routing" => observed = <<>>
  /\ policy = "X" /\ routing = <<>> => observed = <<>> \/ drained \/ call.step = "tail"
  /\ AllFilled(parts) = Len(observed) \/ drained \/ call.step = "tail"

KeptInv == NothingLost /\ (~past_end => StoredInv)

LostInv == GenuineInv /\ KeptInv

\* A step that takes nothing and stores nothing that was received.
LEMMA LostStays ==
  ASSUME LostInv, UNCHANGED <<policy, routing, parts, taken, observed>>,
         inbox' = inbox \/ GenuineInv',
         ~past_end' => /\ ~past_end
                       /\ drained \/ call.step = "tail" => drained' \/ call'.step = "tail"
                       /\ call'.step = "routing" => observed = <<>>
  PROVE  LostInv'
<1>1. GenuineInv'
  BY DEF LostInv, GenuineInv
<1>2. NothingLost'
  BY DEF LostInv, KeptInv, NothingLost
<1>3. ~past_end' => StoredInv'
  BY DEF LostInv, KeptInv, StoredInv
<1> QED
  BY <1>1, <1>2, <1>3 DEF LostInv, KeptInv

\* What recv_msg takes is a part, and so are those behind it.
LEMMA GenuineTaken ==
  ASSUME IInv, GenuineInv, recv_msg
  PROVE  /\ GenuineInv'
         /\ Head(inbox) \in PartOfMessage /\ Head(inbox) # Phantom
         /\ taken' = Append(taken, Head(inbox)) /\ taken \in Seq(PartOfMessage)
         /\ inbox # <<>>
<1>1. inbox \in Seq(PartOfMessage) /\ inbox # <<>> /\ taken \in Seq(PartOfMessage)
      /\ inbox' = Tail(inbox) /\ taken' = Append(taken, Head(inbox))
  BY DEF IInv, TypeOK, recv_msg
<1>2. Head(inbox) \in PartOfMessage /\ inbox' \in Seq(PartOfMessage)
      /\ Len(inbox') = Len(inbox) - 1 /\ Head(inbox) = inbox[1]
      /\ \A i \in 1 .. Len(inbox') : inbox'[i] = inbox[i + 1]
  BY <1>1, HeadTailProperties
<1>3. Len(inbox) \in Nat /\ Len(inbox) > 0
  BY <1>1
<1>4. GenuineInv'
  <2>1. \A i \in 1 .. Len(inbox') : i + 1 \in 1 .. Len(inbox)
    BY <1>2, <1>3
  <2> QED
    BY <1>2, <2>1 DEF GenuineInv
<1> QED
  BY <1>1, <1>2, <1>3, <1>4 DEF GenuineInv

\* A part that is shown to the observer is behind the envelope and what was
\* shown before, whether it is stored or not.
LEMMA ShownKeeps ==
  ASSUME IInv, LostInv, do_receive_msg, routing' = routing, ~past_end
  PROVE  /\ Begins(routing', taken')
         /\ Len(taken') = AllFilled(routing') + Len(observed')
         /\ \A i \in DOMAIN observed' : taken'[AllFilled(routing') + i] = observed'[i]
         /\ observed' = Append(observed, Head(inbox)) /\ observed \in Seq(PartOfMessage)
         /\ parts \in Seq(PartOfMessage) /\ Begins(parts, observed)
<1> DEFINE x == Head(inbox)
           n == AllFilled(routing)
<1>1. /\ recv_msg /\ observed' = Append(observed, x)
      /\ observed \in Seq(PartOfMessage) /\ parts \in Seq(PartOfMessage)
      /\ routing \in Seq(PartOfMessage)
  BY DEF do_receive_msg, IInv, TypeOK
<1>2. /\ x \in PartOfMessage /\ taken' = Append(taken, x) /\ taken \in Seq(PartOfMessage)
  BY <1>1, GenuineTaken DEF LostInv
<1>3. /\ Begins(routing, taken) /\ Len(taken) = n + Len(observed)
      /\ \A i \in DOMAIN observed : taken[n + i] = observed[i]
      /\ Begins(parts, observed)
  BY DEF LostInv, KeptInv, NothingLost
<1>4. n \in Nat
  <2>1. Len(routing) \in Nat
    BY <1>1
  <2> QED
    BY <2>1, FilledType DEF AllFilled
<1> HIDE DEF x, n
<1>5. /\ Len(observed') = Len(observed) + 1 /\ observed'[Len(observed) + 1] = x
      /\ Len(observed) \in Nat
      /\ DOMAIN observed' = 1 .. Len(observed) + 1 /\ DOMAIN observed = 1 .. Len(observed)
      /\ \A i \in 1 .. Len(observed) : observed'[i] = observed[i]
  BY <1>1, <1>2, LastOfAppend
<1>6. /\ Len(taken') = Len(taken) + 1 /\ taken'[Len(taken) + 1] = x /\ Len(taken) \in Nat
      /\ \A i \in 1 .. Len(taken) : taken'[i] = taken[i]
  BY <1>2, LastOfAppend
<1>7. Begins(routing, taken')
  BY <1>2, <1>3, BeginsMore
<1>8. ASSUME NEW i \in DOMAIN observed' PROVE taken'[n + i] = observed'[i]
  <2>1. CASE i \in 1 .. Len(observed)
    <3>1. n + i \in 1 .. Len(taken) /\ taken[n + i] = observed[i]
      BY <1>3, <1>4, <1>5, <2>1
    <3> QED
      BY <1>5, <1>6, <2>1, <3>1
  <2>2. CASE i = Len(observed) + 1
    <3>1. n + i = Len(taken) + 1
      BY <1>3, <1>4, <1>5, <2>2
    <3> QED
      BY <1>5, <1>6, <2>2, <3>1
  <2> QED
    BY <1>5, <2>1, <2>2
<1>9. Len(taken') = n + Len(observed')
  BY <1>3, <1>4, <1>5, <1>6
<1> QED
  BY <1>1, <1>3, <1>7, <1>8, <1>9 DEF n, x

\* A part of the payload that a loop of receive takes.
LEMMA StoredKeeps ==
  ASSUME IInv, LostInv, do_receive_msg, parts' = Append(parts, Head(inbox)),
         UNCHANGED <<policy, routing, drained, past_end>>,
         call.step \in {"parts", "rest"}, call'.step # "routing"
  PROVE  LostInv'
<1>1. Head(inbox) \in PartOfMessage /\ Head(inbox) # Phantom /\ GenuineInv'
  BY GenuineTaken DEF LostInv, do_receive_msg
<1>2. ASSUME ~past_end PROVE NothingLost' /\ StoredInv'
  <2>1. /\ Begins(routing', taken')
        /\ Len(taken') = AllFilled(routing') + Len(observed')
        /\ \A i \in DOMAIN observed' : taken'[AllFilled(routing') + i] = observed'[i]
        /\ observed' = Append(observed, Head(inbox)) /\ observed \in Seq(PartOfMessage)
        /\ parts \in Seq(PartOfMessage) /\ Begins(parts, observed)
    BY <1>2, ShownKeeps
  <2>2. AllFilled(parts) = Len(observed)
    <3>1. ~drained
      BY <1>2, InReceive DEF Receiving
    <3> QED
      BY <1>2, <3>1 DEF LostInv, KeptInv, StoredInv
  <2>3. Begins(parts', observed') /\ AllFilled(parts') = Len(observed')
    BY <1>1, <2>1, <2>2, BeginsBoth
  <2>4. ~(policy = "X" /\ routing = <<>>)
    BY DEF IInv, RoutingInv
  <2>5. NothingLost'
    BY <2>1, <2>3 DEF NothingLost
  <2>6. StoredInv'
    BY <2>3, <2>4 DEF StoredInv
  <2> QED
    BY <2>5, <2>6
<1>3. past_end => NothingLost'
  BY DEF NothingLost
<1> QED
  BY <1>1, <1>2, <1>3 DEF LostInv, KeptInv

\* receive_one that throws leaves a phantom or nothing.
LEMMA FailedKeeps ==
  ASSUME IInv, LostInv,
         UNCHANGED <<policy, inbox, routing, taken, observed, drained, past_end>>,
         parts' \in {parts, Append(parts, Phantom)},
         call.step \in {"parts", "rest"}, call' = Idle
  PROVE  LostInv'
<1>1. call'.step = "idle" /\ parts \in Seq(PartOfMessage)
  BY DEF Idle, IInv, TypeOK
<1>2. CASE parts' = parts
  BY <1>1, <1>2, LostStays
<1>3. CASE parts' = Append(parts, Phantom)
  <2>1. AllFilled(parts') = AllFilled(parts)
    BY <1>1, <1>3, PhantomType, FilledAppend
  <2>2. ASSUME ~past_end PROVE NothingLost' /\ StoredInv'
    <3>1. Begins(parts, observed)
      BY <2>2 DEF LostInv, KeptInv, NothingLost
    <3>2. Begins(parts', observed)
      BY <1>1, <1>3, <3>1, BeginsPhantom
    <3>3. NothingLost'
      BY <2>2, <3>2 DEF LostInv, KeptInv, NothingLost
    <3>4. StoredInv'
      BY <1>1, <2>1, <2>2 DEF LostInv, KeptInv, StoredInv
    <3> QED
      BY <3>3, <3>4
  <2>3. past_end => NothingLost'
    BY DEF NothingLost
  <2>4. GenuineInv'
    BY DEF LostInv, GenuineInv
  <2> QED
    BY <2>2, <2>3, <2>4 DEF LostInv, KeptInv
<1> QED
  BY <1>2, <1>3

\* A part that a tail function takes is shown and not stored.
LEMMA TailKeeps ==
  ASSUME IInv, LostInv, do_receive_msg, UNCHANGED <<policy, routing, parts>>,
         ~past_end' => ~past_end, TailOrEnd(Head(inbox).more)
  PROVE  LostInv'
<1>1. Head(inbox) \in PartOfMessage /\ GenuineInv'
  BY GenuineTaken DEF LostInv, do_receive_msg
<1>2. drained' \/ call'.step = "tail"
  <2>1. CASE Head(inbox).more
    <3>1. call' = [Idle EXCEPT !.step = "tail"]
      BY <2>1 DEF TailOrEnd
    <3> QED
      BY <3>1 DEF Idle
  <2>2. CASE ~Head(inbox).more
    BY <2>2 DEF TailOrEnd
  <2> QED
    BY <2>1, <2>2
<1>3. call'.step # "routing"
  <2>1. CASE Head(inbox).more
    <3>1. call' = [Idle EXCEPT !.step = "tail"]
      BY <2>1 DEF TailOrEnd
    <3> QED
      BY <3>1 DEF Idle
  <2>2. CASE ~Head(inbox).more
    <3>1. call' = Idle
      BY <2>2 DEF TailOrEnd, End
    <3> QED
      BY <3>1 DEF Idle
  <2> QED
    BY <2>1, <2>2
<1>4. ASSUME ~past_end PROVE NothingLost' /\ StoredInv'
  <2>1. /\ Begins(routing', taken')
        /\ Len(taken') = AllFilled(routing') + Len(observed')
        /\ \A i \in DOMAIN observed' : taken'[AllFilled(routing') + i] = observed'[i]
        /\ observed' = Append(observed, Head(inbox)) /\ observed \in Seq(PartOfMessage)
        /\ Begins(parts, observed)
    BY <1>4, ShownKeeps
  <2>2. Begins(parts', observed')
    BY <1>1, <2>1, BeginsMore
  <2>3. NothingLost'
    BY <2>1, <2>2 DEF NothingLost
  <2>4. StoredInv'
    BY <1>2, <1>3 DEF StoredInv
  <2> QED
    BY <2>3, <2>4
<1>5. past_end' => NothingLost'
  BY DEF NothingLost
<1> QED
  BY <1>1, <1>4, <1>5 DEF LostInv, KeptInv

\* receive_routing shows nothing: what was taken is the envelope.
LEMMA RoutingKeeps ==
  ASSUME IInv, LostInv, ReceiveRouting
  PROVE  LostInv'
<1>1. /\ call.step = "routing" /\ past_end' = past_end /\ drained' = drained
      /\ UNCHANGED <<policy, parts, observed>>
  BY DEF ReceiveRouting, world
<1>2. routing \in Seq(PartOfMessage) /\ taken \in Seq(PartOfMessage)
      /\ call \in Call /\ CallOK(call) /\ is_terminal \in BOOLEAN
  BY CallInvIsOK DEF IInv, TypeOK
<1>3. Idle.step = "idle"
  BY DEF Idle
<1>4. ASSUME ~past_end
      PROVE  /\ observed = <<>> /\ Len(observed) = 0 /\ DOMAIN observed = {}
             /\ AllFilled(parts) = 0 /\ Begins(parts, observed)
             /\ Begins(routing, taken) /\ AllFilled(routing) = Len(taken)
  <2>1. ~drained
    BY <1>1, <1>4, InReceive DEF Receiving
  <2>2. observed = <<>> /\ AllFilled(parts) = Len(observed)
    BY <1>1, <1>4, <2>1 DEF LostInv, KeptInv, StoredInv
  <2>3. Begins(parts, observed) /\ Begins(routing, taken)
        /\ Len(taken) = AllFilled(routing) + Len(observed)
    BY <1>4 DEF LostInv, KeptInv, NothingLost
  <2>4. AllFilled(routing) \in Nat
    <3>1. Len(routing) \in Nat
      BY <1>2
    <3> QED
      BY <3>1, FilledType DEF AllFilled
  <2> QED
    BY <2>2, <2>3, <2>4
<1>5. call'.step # "tail"
  <2>1. CASE AfterRouting(call)
    BY <1>1, <1>2, <1>3, <2>1, AfterRoutingEffect
  <2>2. CASE call' \in {call, Idle}
    BY <1>1, <1>3, <2>2
  <2> QED
    BY <2>1, <2>2 DEF ReceiveRouting, End
<1>6. ASSUME GenuineInv', routing' # <<>>,
             ~past_end => Begins(routing', taken') /\ AllFilled(routing') = Len(taken')
      PROVE  LostInv'
  <2>1. ASSUME ~past_end PROVE NothingLost' /\ StoredInv'
    <3>1. Begins(routing', taken') /\ AllFilled(routing') = Len(taken')
      BY <1>6, <2>1
    <3>2. Len(taken') \in Nat
      BY <1>2, <1>6 DEF ReceiveRouting, recv_msg
    <3>3. NothingLost'
      BY <1>1, <1>4, <2>1, <3>1, <3>2 DEF NothingLost
    <3>4. StoredInv'
      BY <1>1, <1>4, <1>6, <2>1 DEF StoredInv
    <3> QED
      BY <3>3, <3>4
  <2>2. past_end => NothingLost'
    BY <1>1 DEF NothingLost
  <2> QED
    BY <1>1, <1>6, <2>1, <2>2 DEF LostInv, KeptInv
<1>7. CASE recv_msg /\ routing' = Append(routing, Head(inbox))
  <2>1. /\ Head(inbox) \in PartOfMessage /\ Head(inbox) # Phantom /\ GenuineInv'
        /\ taken' = Append(taken, Head(inbox))
    BY <1>7, GenuineTaken DEF LostInv
  <2>2. routing' # <<>>
    BY <1>2, <1>7, <2>1, LastOfAppend
  <2>3. ~past_end => Begins(routing', taken') /\ AllFilled(routing') = Len(taken')
    BY <1>2, <1>4, <1>7, <2>1, BeginsBoth
  <2> QED
    BY <1>6, <2>1, <2>2, <2>3
<1>8. CASE Interrupted /\ routing' = Append(routing, Phantom)
  <2>1. UNCHANGED <<inbox, taken>>
    BY <1>8 DEF Interrupted, socket
  <2>2. GenuineInv'
    BY <2>1 DEF LostInv, GenuineInv
  <2>3. routing' # <<>> /\ AllFilled(routing') = AllFilled(routing)
    BY <1>2, <1>8, PhantomType, LastOfAppend, FilledAppend
  <2>4. ~past_end => Begins(routing', taken')
    BY <1>2, <1>4, <1>8, <2>1, BeginsPhantom
  <2> QED
    BY <1>4, <1>6, <2>1, <2>2, <2>3, <2>4
<1>9. CASE End("format") /\ UNCHANGED <<socket, routing, taken, errors>>
  <2>1. call'.step = "idle" /\ UNCHANGED <<inbox, routing, taken>>
    BY <1>3, <1>9 DEF End, socket
  <2> QED
    BY <1>1, <2>1, LostStays
<1> QED
  BY <1>7, <1>8, <1>9 DEF ReceiveRouting

\* The parts that arrive are parts.
LEMMA ArriveKeeps ==
  ASSUME IInv, LostInv, NEW shape \in Shapes, Arrive(shape)
  PROVE  LostInv'
<1>1. \A i \in 1 .. Len(inbox') :
        \/ inbox'[i].msg = arrived + 1
        \/ \E j \in 1 .. Len(inbox) : inbox'[i] = inbox[j]
  BY ArriveEffect DEF IInv
<1>2. arrived + 1 # 0
  BY BoundsAssumption DEF IInv, TypeOK
<1>3. GenuineInv'
  BY <1>1, <1>2 DEF LostInv, GenuineInv, Phantom
<1>4. UNCHANGED <<policy, routing, parts, taken, observed, past_end, drained, call>>
  BY DEF Arrive, world, object, history
<1>5. ~past_end => (call.step = "routing" => observed = <<>>)
  BY DEF LostInv, KeptInv, StoredInv
<1> QED
  BY <1>3, <1>4, <1>5, LostStays

\* A receive begins with what is stored, or with an envelope of which nothing
\* was taken.
LEMMA ReceiveKeeps ==
  ASSUME IInv, LostInv, NEW n \in Nat, NEW check \in BOOLEAN,
         NEW rest \in {"no", "all", "upto"}, NEW room \in Nat,
         rest # "no" => ~check, rest = "upto" => room > 0,
         Receive(n, check, rest, room)
  PROVE  LostInv'
<1> DEFINE c == [step |-> "routing", left |-> n, check |-> check,
                 rest |-> rest, room |-> room]
<1>1. c \in Call /\ CallOK(c) /\ c.step = "routing"
  BY DEF Call, Step, CallOK
<1>2. /\ call.step = "idle" /\ Idle.step = "idle"
      /\ IF policy = "X" /\ routing = <<>>
         THEN call' = c /\ result' = "ok" ELSE AfterRouting(c)
      /\ past_end' = (past_end \/ drained \/ (is_terminal /\ n > 0))
      /\ UNCHANGED <<policy, inbox, parts, routing, is_terminal, taken, observed, drained>>
  BY DEF Receive, Idle, world, socket, counters, object
<1> HIDE DEF c
<1>3. is_terminal \in BOOLEAN
  BY DEF IInv, TypeOK
<1>4. ~(policy = "X" /\ routing = <<>>) => call'.step # "routing"
  <2> SUFFICES ASSUME ~(policy = "X" /\ routing = <<>>) PROVE call'.step # "routing"
    OBVIOUS
  <2>1. AfterRouting(c)
    BY <1>2
  <2> QED
    BY <1>1, <1>2, <1>3, <2>1, AfterRoutingEffect
<1>5. ~past_end' => ~past_end /\ ~drained
  BY <1>2
<1>6. ~past_end' /\ call'.step = "routing" => observed = <<>>
  BY <1>2, <1>4, <1>5 DEF LostInv, KeptInv, StoredInv
<1> QED
  BY <1>2, <1>5, <1>6, LostStays

\* The loop of receive.
LEMMA PartKeeps ==
  ASSUME IInv, LostInv, ReceivePart
  PROVE  LostInv'
<1>1. call.step = "parts" /\ UNCHANGED <<policy, routing, drained, past_end>>
      /\ call \in Call /\ CallOK(call) /\ is_terminal \in BOOLEAN /\ Idle.step = "idle"
  BY CallInvIsOK DEF ReceivePart, world, IInv, TypeOK, Idle
<1>2. CASE /\ do_receive_msg /\ parts' = Append(parts, Head(inbox))
           /\ \/ call' = [call EXCEPT !.left = @ - 1]
              \/ call' = Idle
              \/ Head(inbox).more \in BOOLEAN /\ AfterParts(call, ~Head(inbox).more)
  <2>1. call'.step # "routing"
    <3>1. CASE call' = [call EXCEPT !.left = @ - 1]
      BY <1>1, <3>1 DEF Call
    <3>2. CASE call' = Idle
      BY <1>1, <3>2
    <3>3. CASE Head(inbox).more \in BOOLEAN /\ AfterParts(call, ~Head(inbox).more)
      <4>1. call.rest # "no" => ~call.check
        BY <1>1 DEF CallOK
      <4>2. (~Head(inbox).more) \in BOOLEAN
        OBVIOUS
      <4>3. call' = Idle \/ call'.step = "rest"
        BY <1>1, <3>3, <4>1, <4>2, AfterPartsEffect
      <4> QED
        BY <1>1, <4>3
    <3> QED
      BY <1>2, <3>1, <3>2, <3>3
  <2> QED
    BY <1>1, <1>2, <2>1, StoredKeeps
<1>3. CASE /\ parts' \in {parts, Append(parts, Phantom)} /\ call' = Idle
           /\ UNCHANGED <<inbox, taken, observed>>
  BY <1>1, <1>3, FailedKeeps
<1>4. do_receive_msg => Head(inbox).more \in BOOLEAN
  BY RecvEffect DEF IInv, do_receive_msg
<1> QED
  BY <1>2, <1>3, <1>4 DEF ReceivePart, receive_one, Interrupted, End, TooFew, socket

\* The loops of receive_all and receive_up_to.
LEMMA RestKeeps ==
  ASSUME IInv, LostInv, ReceiveRest
  PROVE  LostInv'
<1> DEFINE c == IF call.rest = "upto" THEN [call EXCEPT !.room = @ - 1] ELSE call
<1>1. call.step = "rest" /\ UNCHANGED <<policy, routing, drained, past_end>>
      /\ call \in Call /\ CallOK(call) /\ Idle.step = "idle"
  BY CallInvIsOK DEF ReceiveRest, world, IInv, TypeOK, Idle
<1>2. c \in Call /\ (c.rest # "no" => ~c.check)
  <2>1. call.rest = "upto" => call.room \in Nat /\ call.room > 0
    BY <1>1 DEF Call, CallOK
  <2> QED
    BY <1>1, <2>1 DEF Call, CallOK
<1> HIDE DEF c
<1>3. CASE /\ do_receive_msg /\ parts' = Append(parts, Head(inbox))
           /\ AfterParts(c, ~Head(inbox).more)
  <2>1. (~Head(inbox).more) \in BOOLEAN
    OBVIOUS
  <2>2. call' = Idle \/ call'.step = "rest"
    BY <1>2, <1>3, <2>1, AfterPartsEffect
  <2>3. call'.step # "routing"
    BY <1>1, <2>2
  <2> QED
    BY <1>1, <1>3, <2>3, StoredKeeps
<1>4. CASE /\ parts' \in {parts, Append(parts, Phantom)} /\ call' = Idle
           /\ UNCHANGED <<inbox, taken, observed>>
  BY <1>1, <1>4, FailedKeeps
<1> QED
  BY <1>3, <1>4 DEF ReceiveRest, receive_one, Interrupted, End, socket, c

\* The tail functions, extraction, and the next object.
LEMMA OthersKeep ==
  ASSUME IInv, LostInv,
         FetchOrDropTail \/ DropWhole \/ ReceiveTail \/ Extract \/ NextIncoming
           \/ UNCHANGED vars
  PROVE  LostInv'
<1>0. Idle.step = "idle"
  BY DEF Idle
<1>1. CASE FetchOrDropTail
  <2>1. UNCHANGED <<policy, inbox, routing, parts, taken, observed, past_end>>
    BY <1>1 DEF FetchOrDropTail, world, socket, object
  <2>2. call'.step # "routing" /\ (drained' \/ call'.step = "tail")
    <3>1. CASE ~is_terminal /\ rcvmore
      <4>1. call' = [Idle EXCEPT !.step = "tail"]
        BY <1>1, <3>1 DEF FetchOrDropTail, TailOrEnd
      <4> QED
        BY <4>1 DEF Idle
    <3>2. CASE ~(~is_terminal /\ rcvmore)
      BY <1>0, <1>1, <3>2 DEF FetchOrDropTail, TailOrEnd, End
    <3> QED
      BY <3>1, <3>2
  <2> QED
    BY <2>1, <2>2, LostStays
<1>2. CASE DropWhole
  <2>1. UNCHANGED <<policy, routing, parts>> /\ call.step = "idle"
        /\ past_end' = (past_end \/ drained)
    BY <1>0, <1>2 DEF DropWhole, world, object
  <2>2. CASE End("ok") /\ UNCHANGED <<socket, taken, observed, drained>>
    <3>1. call' = Idle /\ UNCHANGED <<inbox, taken, observed, drained>>
      BY <2>2 DEF End, socket
    <3> QED
      BY <1>0, <2>1, <3>1, LostStays
  <2>3. CASE do_receive_msg /\ TailOrEnd(Head(inbox).more)
    BY <2>1, <2>3, TailKeeps
  <2> QED
    BY <1>2, <2>2, <2>3 DEF DropWhole
<1>3. CASE ReceiveTail
  BY <1>3, TailKeeps DEF ReceiveTail, world, object
<1>4. CASE Extract \/ UNCHANGED vars
  <2>1. UNCHANGED <<policy, inbox, routing, parts, taken, observed, past_end, drained, call>>
    BY <1>4 DEF Extract, vars, world, socket, object, history
  <2>2. ~past_end => (call.step = "routing" => observed = <<>>)
    BY DEF LostInv, KeptInv, StoredInv
  <2> QED
    BY <2>1, <2>2, LostStays
<1>5. CASE NextIncoming
  <2>1. /\ parts' = <<>> /\ routing' = <<>> /\ taken' = <<>> /\ observed' = <<>>
        /\ call' = Idle /\ UNCHANGED inbox
    BY <1>5 DEF NextIncoming, socket
  <2>2. GenuineInv'
    BY <2>1 DEF LostInv, GenuineInv
  <2>3. Len(<<>>) = 0 /\ DOMAIN <<>> = {}
    OBVIOUS
  <2>4. NothingLost'
    BY <2>1, <2>3, NoneFilled DEF NothingLost, Begins
  <2>5. StoredInv'
    BY <1>0, <2>1, <2>3, NoneFilled DEF StoredInv
  <2> QED
    BY <2>2, <2>4, <2>5 DEF LostInv, KeptInv
<1> QED
  BY <1>1, <1>2, <1>3, <1>4, <1>5

\* Every step keeps LostInv.
LEMMA LostNext ==
  ASSUME IInv, LostInv, [Next]_vars
  PROVE  LostInv'
<1>1. CASE \E shape \in Shapes : Arrive(shape)
  BY <1>1, ArriveKeeps
<1>2. CASE receive
  <2>1. PICK n \in Counts, check \in BOOLEAN : Receive(n, check, "no", 0)
    BY <1>2 DEF receive
  <2>2. n \in Nat /\ 0 \in Nat /\ "no" \in {"no", "all", "upto"}
    BY BoundsAssumption
  <2> QED
    BY <2>1, <2>2, ReceiveKeeps
<1>3. CASE receive_all
  <2>1. PICK n \in Counts : Receive(n, FALSE, "all", 0)
    BY <1>3 DEF receive_all
  <2>2. n \in Nat /\ 0 \in Nat /\ "all" \in {"no", "all", "upto"} /\ FALSE \in BOOLEAN
    BY BoundsAssumption
  <2> QED
    BY <2>1, <2>2, ReceiveKeeps
<1>4. CASE receive_up_to
  <2>1. PICK n \in Counts, m \in Counts : n < m /\ Receive(n, FALSE, "upto", m - n)
    BY <1>4 DEF receive_up_to
  <2>2. n \in Nat /\ m - n \in Nat /\ m - n > 0 /\ FALSE \in BOOLEAN
        /\ "upto" \in {"no", "all", "upto"}
    BY <2>1, BoundsAssumption
  <2> QED
    BY <2>1, <2>2, ReceiveKeeps
<1> QED
  BY <1>1, <1>2, <1>3, <1>4, RoutingKeeps, PartKeeps, RestKeeps, OthersKeep
     DEF Next, Read

\* At the start nothing was taken.
LEMMA InitLost == Init => LostInv
<1> SUFFICES ASSUME Init PROVE LostInv
  OBVIOUS
<1>1. /\ parts = <<>> /\ routing = <<>> /\ taken = <<>> /\ observed = <<>>
      /\ inbox = <<>> /\ call.step = "idle"
  BY DEF Init, Idle
<1>2. Len(<<>>) = 0 /\ DOMAIN <<>> = {}
  OBVIOUS
<1> QED
  BY <1>1, <1>2, NoneFilled
     DEF LostInv, GenuineInv, KeptInv, StoredInv, NothingLost, Begins

\* What an Incoming takes off the socket is its envelope and then what its
\* observer is shown, and its storage holds the beginning of that, whatever was
\* interrupted or thrown in between, as long as the caller does not go on after an
\* end it knew of (NothingLost).
THEOREM NothingLostThm == Spec => []NothingLost
<1>1. LostInv => NothingLost
  BY DEF LostInv, KeptInv
<1>2. IInv /\ LostInv /\ [Next]_vars => LostInv'
  BY LostNext
<1> QED
  BY <1>1, <1>2, InitLost, Inductive, PTL DEF Spec
=============================================================================
