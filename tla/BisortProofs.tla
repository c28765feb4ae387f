---------------------------- MODULE BisortProofs ----------------------------
(***************************************************************************)
(* Proofs about Bisort, for any elements, orders and bounds.               *)
(*                                                                         *)
(* While main waits, its list is in one place on its way through relay and *)
(* a sorter and back, and everything else is at rest; and relay stops the  *)
(* sorters one after the other.  IInv lists these situations; each step    *)
(* leads from one to the next.                                             *)
(***************************************************************************)
EXTENDS Bisort, SequenceTheorems, TLAPS

Whole == Append(request.items, Extra[request.mode])

Quiet(l) == to[l] = <<>> /\ back[l] = <<>>
AtRest(m) == pc[m] = "ready" /\ Quiet(m)
RelayEmpty == in["relay"] = <<>> /\ out["relay"] = <<>>

Nobody ==
  /\ pc["main"] = "ready" /\ pc["relay"] = "ready"
  /\ \A l \in Link : Quiet(l)
  /\ \A m \in Mode : pc[m] = "ready"
  /\ RelayEmpty

Waiting == pc["main"] = "waiting" /\ request.items \in Lists

Asked ==
  /\ Waiting /\ pc["relay"] = "ready" /\ RelayEmpty
  /\ to["relay"] = << <<request.mode>> \o request.items >> /\ back["relay"] = <<>>
  /\ \A m \in Mode : AtRest(m)

Relaying ==
  /\ Waiting /\ pc["relay"] = "relaying" /\ mode = request.mode
  /\ in["relay"] \in Seq(Item) /\ out["relay"] \in Seq(Item)
  /\ out["relay"] \o in["relay"] = request.items
  /\ Quiet("relay")
  /\ \A m \in Mode : AtRest(m)

AtSorter ==
  /\ Waiting /\ pc["relay"] = "answer" /\ mode = request.mode /\ RelayEmpty
  /\ Quiet("relay")
  /\ \A m \in Mode \ {mode} : AtRest(m)
  /\ \/ /\ pc[mode] = "ready" /\ to[mode] = <<Whole>> /\ back[mode] = <<>>
     \/ /\ pc[mode] = "sorting" /\ in[mode] = Whole /\ Quiet(mode)
     \/ /\ pc[mode] = "ready" /\ to[mode] = <<>>
        /\ \E s \in Sorted(mode, Whole) : back[mode] = <<s>>

Returning ==
  /\ Waiting /\ pc["relay"] = "raw" /\ mode = request.mode
  /\ in["relay"] \in Seq(Item) /\ out["relay"] \in Seq(Item)
  /\ in["relay"] # <<>>
  /\ out["relay"] \o in["relay"] \in Sorted(mode, Whole)
  /\ Quiet("relay")
  /\ \A m \in Mode : AtRest(m)

Answered ==
  /\ Waiting /\ pc["relay"] = "ready" /\ RelayEmpty
  /\ to["relay"] = <<>>
  /\ \E s \in Sorted(request.mode, Whole) : back["relay"] = <<s>>
  /\ \A m \in Mode : AtRest(m)

Told(m) ==
  \/ pc[m] = "ready" /\ to[m] = << <<STOP>> >> /\ back[m] = <<>>
  \/ pc[m] = "ended" /\ Quiet(m)

Stopping ==
  /\ pc["main"] \in {"joining", "ended"}
  /\ back["relay"] = <<>> /\ RelayEmpty
  /\ \/ /\ pc["relay"] = "ready" /\ to["relay"] = << <<STOP>> >>
        /\ AtRest("INT") /\ AtRest("STRING")
     \/ /\ pc["relay"] = "stopping" /\ to["relay"] = <<>>
        /\ AtRest("INT") /\ AtRest("STRING")
     \/ /\ pc["relay"] = "stopping_string" /\ to["relay"] = <<>>
        /\ Told("INT") /\ AtRest("STRING")
     \/ /\ pc["relay"] \in {"joining", "ended"} /\ to["relay"] = <<>>
        /\ Told("INT") /\ Told("STRING")

Situation ==
  \/ Nobody \/ Asked \/ Relaying \/ AtSorter \/ Returning \/ Answered \/ Stopping

\* What main was told last answers what it asked last.
AnswerInv == answer # <<>> => answer \in Sorted(request.mode, Whole)

IInv == TypeOK /\ Situation /\ AnswerInv

-----------------------------------------------------------------------------
(* Sequences.                                                               *)

Part == Item \cup Mode \cup {STOP}

LEMMA ListsAreSeqs ==
  ASSUME NEW items \in Lists
  PROVE  items \in Seq(Item) /\ items # <<>>
<1>1. PICK n \in 1 .. MaxItems : items \in [1 .. n -> Item]
  BY DEF Lists
<1>2. n \in Nat /\ n > 0
  BY BoundAssumption
<1>3. items \in Seq(Item)
  BY <1>1, <1>2
<1>4. Len(items) = n
  BY <1>1, <1>2
<1> QED
  BY <1>2, <1>3, <1>4

\* The elements of a sorted list are those of the list.
LEMMA SortedType ==
  ASSUME NEW m \in Mode, NEW items \in Seq(Item), NEW s \in Sorted(m, items)
  PROVE  s \in Seq(Item) /\ Len(s) = Len(items)
<1>1. PICK p \in Bijection(DOMAIN items, DOMAIN items) :
        s = [i \in DOMAIN items |-> items[p[i]]]
  BY DEF Sorted
<1>2. p \in [DOMAIN items -> DOMAIN items]
  BY DEF Bijection, Injection, Surjection
<1>3. DOMAIN items = 1 .. Len(items) /\ Len(items) \in Nat
  BY LenProperties
<1>4. s \in [1 .. Len(items) -> Item]
  BY <1>1, <1>2, <1>3, LenProperties
<1> QED
  BY <1>3, <1>4

\* What relay sends a sorter has two elements at least.
LEMMA WholeType ==
  ASSUME TypeOK, Waiting
  PROVE  Whole \in Seq(Item) /\ Len(Whole) > 1
<1>1. request.items \in Seq(Item) /\ request.items # <<>>
  BY ListsAreSeqs DEF Waiting
<1>2. Extra[request.mode] \in Item
  BY ExtraAssumption DEF TypeOK
<1>3. Len(request.items) > 0
  BY <1>1
<1> QED
  BY <1>1, <1>2, <1>3, AppendProperties DEF Whole

LEMMA Framed ==
  ASSUME NEW m \in Mode, NEW items \in Seq(Item)
  PROVE  /\ <<m>> \o items \in Seq(Part)
         /\ Head(<<m>> \o items) = m /\ Tail(<<m>> \o items) = items
<1>1. <<m>> \in Seq(Part) /\ items \in Seq(Part)
  BY DEF Part
<1>2. <<m>> \o items \in Seq(Part) /\ Len(<<m>> \o items) = 1 + Len(items)
  BY <1>1, ConcatProperties
<1>3. \A i \in 1 .. 1 + Len(items) :
        (<<m>> \o items)[i] = IF i <= 1 THEN m ELSE items[i - 1]
  BY <1>1, ConcatProperties
<1>4. <<m>> \o items # <<>>
  BY <1>2
<1>5. Head(<<m>> \o items) = m
  BY <1>2, <1>3, <1>4
<1>6. Tail(<<m>> \o items) \in Seq(Part) /\ Len(Tail(<<m>> \o items)) = Len(items)
      /\ \A i \in 1 .. Len(items) : Tail(<<m>> \o items)[i] = items[i]
  BY <1>2, <1>3, <1>4, HeadTailProperties
<1> QED
  BY <1>1, <1>2, <1>5, <1>6, SeqEqual

\* Moving a part from the front of one list to the end of another leaves their
\* concatenation as it was.
LEMMA MoveOne ==
  ASSUME NEW a \in Seq(Item), NEW b \in Seq(Item), b # <<>>
  PROVE  /\ Append(a, Head(b)) \in Seq(Item) /\ Tail(b) \in Seq(Item)
         /\ Append(a, Head(b)) \o Tail(b) = a \o b
         /\ Len(b) = 1 => Tail(b) = <<>> /\ b = <<Head(b)>>
<1>1. Head(b) \in Item /\ Tail(b) \in Seq(Item)
  BY HeadTailProperties
<1>2. Append(a, Head(b)) = a \o <<Head(b)>>
  BY <1>1, AppendIsConcat
<1>3. <<Head(b)>> \in Seq(Item)
  BY <1>1
<1>4. (a \o <<Head(b)>>) \o Tail(b) = a \o (<<Head(b)>> \o Tail(b))
  BY <1>1, <1>3, ConcatAssociative
<1>5. b = <<Head(b)>> \o Tail(b)
  <2>1. /\ <<Head(b)>> \o Tail(b) \in Seq(Item)
        /\ Len(<<Head(b)>> \o Tail(b)) = 1 + Len(Tail(b))
        /\ \A i \in 1 .. 1 + Len(Tail(b)) : (<<Head(b)>> \o Tail(b))[i] =
             IF i <= 1 THEN Head(b) ELSE Tail(b)[i - 1]
    BY <1>1, <1>3, ConcatProperties
  <2>2. Len(Tail(b)) = Len(b) - 1 /\ \A i \in 1 .. Len(Tail(b)) : Tail(b)[i] = b[i + 1]
    BY HeadTailProperties
  <2>3. Len(b) \in Nat /\ Head(b) = b[1]
    OBVIOUS
  <2>4. \A i \in 1 .. Len(b) : b[i] = (<<Head(b)>> \o Tail(b))[i]
    BY <2>1, <2>2, <2>3
  <2> QED
    BY <2>1, <2>2, <2>3, <2>4, SeqEqual
<1>6. Len(b) = 1 => Tail(b) = <<>> /\ b = <<Head(b)>>
  <2>1. Len(Tail(b)) = Len(b) - 1
    BY HeadTailProperties
  <2>0. \A t \in Seq(Item) : Len(t) = 0 => t = <<>>
    OBVIOUS
  <2>2. ASSUME Len(b) = 1 PROVE Tail(b) = <<>>
    <3>1. Len(Tail(b)) = 0
      BY <2>1, <2>2
    <3> QED
      BY <1>1, <2>0, <3>1
  <2> QED
    BY <1>1, <1>3, <1>5, <2>2, ConcatEmptySeq
<1> QED
  BY <1>1, <1>2, <1>4, <1>5, <1>6, AppendProperties

-----------------------------------------------------------------------------
(* The steps.                                                               *)

\* A request on a link that is quiet, and one that is taken.
LEMMA AskAlone ==
  ASSUME TypeOK, NEW l \in Link, NEW message \in Seq(Part)
  PROVE  /\ to[l] = <<>> /\ Ask(l, message) => to' = [to EXCEPT ![l] = <<message>>]
         /\ [to EXCEPT ![l] = <<message>>] \in [Link -> Seq(Seq(Part))]
<1>1. Append(<<>>, message) = <<message>>
  OBVIOUS
<1>2. to \in [Link -> Seq(Seq(Part))]
  BY DEF TypeOK, Part
<1>3. <<message>> \in Seq(Seq(Part))
  OBVIOUS
<1>4. to[l] = <<>> /\ Ask(l, message) => to' = [to EXCEPT ![l] = <<message>>]
  BY <1>1 DEF Ask
<1> QED
  BY <1>2, <1>3, <1>4

\* The same for an answer.
LEMMA ReplyAlone ==
  ASSUME TypeOK, NEW l \in Link, NEW message \in Seq(Item)
  PROVE  /\ back[l] = <<>> /\ Reply(l, message) =>
              back' = [back EXCEPT ![l] = <<message>>]
         /\ [back EXCEPT ![l] = <<message>>] \in [Link -> Seq(Seq(Item))]
<1>1. Append(<<>>, message) = <<message>>
  OBVIOUS
<1>2. <<message>> \in Seq(Seq(Item))
  OBVIOUS
<1>3. back[l] = <<>> /\ Reply(l, message) => back' = [back EXCEPT ![l] = <<message>>]
  BY <1>1 DEF Reply
<1> QED
  BY <1>2, <1>3 DEF TypeOK

\* The only message of a link is taken.
LEMMA TakeOnly ==
  ASSUME TypeOK, NEW l \in Link
  PROVE  /\ [to EXCEPT ![l] = <<>>] \in [Link -> Seq(Seq(Part))]
         /\ [back EXCEPT ![l] = <<>>] \in [Link -> Seq(Seq(Item))]
BY DEF TypeOK, Part

\* A function with one value replaced.
LEMMA Updated ==
  ASSUME NEW S, NEW T, NEW f \in [S -> T], NEW x \in S, NEW v \in T
  PROVE  /\ [f EXCEPT ![x] = v] \in [S -> T]
         /\ [f EXCEPT ![x] = v][x] = v
         /\ \A y \in S \ {x} : [f EXCEPT ![x] = v][y] = f[y]
OBVIOUS

LEMMA InitIInv == Init => IInv
<1> SUFFICES ASSUME Init PROVE IInv
  OBVIOUS
<1>1. TypeOK
  BY BoundAssumption DEF Init, TypeOK, Mode
<1>2. Nobody
  BY DEF Init, Nobody, Quiet, RelayEmpty, Thread, Link
<1>3. AnswerInv
  BY DEF Init, AnswerInv
<1> QED
  BY <1>1, <1>2, <1>3 DEF IInv, Situation

LEMMA RequestStep ==
  ASSUME IInv, Request
  PROVE  IInv'
<1>1. Nobody
  BY DEF IInv, Situation, Waiting, Asked, Relaying, AtSorter, Returning,
         Answered, Stopping, Request
<1>2. PICK m \in Mode, items \in Lists :
        request' = [mode |-> m, items |-> items] /\ Ask("relay", <<m>> \o items)
  BY DEF Request
<1>3. items \in Seq(Item) /\ <<m>> \o items \in Seq(Part)
  BY ListsAreSeqs, Framed
<1>4. to' = [to EXCEPT !["relay"] = << <<m>> \o items >>]
  BY <1>1, <1>2, <1>3, AskAlone DEF Nobody, Quiet, Link, IInv
<1>5. TypeOK'
  <2>1. to' \in [Link -> Seq(Seq(Part))]
    BY <1>3, <1>4, AskAlone DEF IInv, Link
  <2>2. request' \in [mode : Mode, items : Lists \cup {<<>>}]
    BY <1>2
  <2>3. round' \in 0 .. Rounds
    BY BoundAssumption DEF IInv, TypeOK, Request
  <2> QED
    <3>1. /\ pc' = [pc EXCEPT !["main"] = "waiting"] /\ answer' = <<>>
          /\ UNCHANGED <<back, in, out, mode>>
      BY DEF Request, Goto
    <3>2. to' \in [Link -> Seq(Seq(Item \cup Mode \cup {STOP}))]
      BY <2>1 DEF Part
    <3>3. <<>> \in Seq(Item)
      OBVIOUS
    <3> QED
      BY <2>2, <2>3, <3>1, <3>2, <3>3 DEF IInv, TypeOK
<1>6. Asked'
  BY <1>1, <1>2, <1>4 DEF IInv, TypeOK, Request, Goto, Nobody, Asked, Waiting,
     Quiet, AtRest, RelayEmpty, Thread, Link, Mode
<1>7. AnswerInv'
  BY DEF Request, AnswerInv
<1> QED
  BY <1>5, <1>6, <1>7 DEF IInv, Situation

LEMMA ReceiveSortedStep ==
  ASSUME IInv, ReceiveSorted
  PROVE  IInv'
<1>1. Answered
  BY DEF IInv, Situation, Nobody, Waiting, Asked, Relaying, AtSorter,
         Returning, Stopping, Quiet, Link, ReceiveSorted
<1>2. PICK s \in Sorted(request.mode, Whole) : back["relay"] = <<s>>
  BY <1>1 DEF Answered
<1>3. answer' = s /\ back' = [back EXCEPT !["relay"] = <<>>]
  BY <1>2 DEF ReceiveSorted
<1>4. s \in Seq(Item)
  BY <1>1, WholeType, SortedType DEF IInv, TypeOK, Answered
<1>5. TypeOK'
  <2>1. back' \in [Link -> Seq(Seq(Item))]
    BY <1>3, TakeOnly DEF IInv, Link
  <2>2. pc' = [pc EXCEPT !["main"] = "ready"]
        /\ UNCHANGED <<to, in, out, mode, request, round>>
    BY DEF ReceiveSorted, Goto
  <2> QED
    BY <1>3, <1>4, <2>1, <2>2 DEF IInv, TypeOK
<1>6. Nobody'
  BY <1>1, <1>3 DEF IInv, TypeOK, ReceiveSorted, Goto, Nobody, Answered, Waiting,
     Quiet, AtRest, RelayEmpty, Thread, Link, Mode
<1>7. AnswerInv'
  BY <1>2, <1>3 DEF ReceiveSorted, AnswerInv, Whole
<1> QED
  BY <1>5, <1>6, <1>7 DEF IInv, Situation

LEMMA SendStopStep ==
  ASSUME IInv, SendStop
  PROVE  IInv'
<1>1. Nobody
  BY DEF IInv, Situation, Waiting, Asked, Relaying, AtSorter, Returning,
         Answered, Stopping, SendStop
<1>0. <<STOP>> \in Seq(Part)
  BY DEF Part
<1>2. to' = [to EXCEPT !["relay"] = << <<STOP>> >>]
  BY <1>0, <1>1, AskAlone DEF SendStop, Nobody, Quiet, Link, IInv
<1>3. TypeOK'
  <2>1. to' \in [Link -> Seq(Seq(Part))]
    BY <1>0, <1>2, AskAlone DEF IInv, Link
  <2> QED
    BY <2>1 DEF IInv, TypeOK, SendStop, Goto, Thread, Part
<1>4. Stopping'
  BY <1>1, <1>2 DEF IInv, TypeOK, SendStop, Goto, Nobody, Stopping, Quiet,
     AtRest, RelayEmpty, Thread, Link, Mode
<1>5. AnswerInv'
  BY DEF IInv, SendStop, AnswerInv, Whole
<1> QED
  BY <1>3, <1>4, <1>5 DEF IInv, Situation

LEMMA ReceiveModeStep ==
  ASSUME IInv, ReceiveMode
  PROVE  IInv'
<1>1. Asked \/ Stopping
  BY DEF IInv, Situation, Nobody, Waiting, Relaying, AtSorter, Returning,
         Answered, Quiet, Link, ReceiveMode
<1>2. AnswerInv'
  BY DEF IInv, ReceiveMode, AnswerInv, Whole
<1>3. CASE Asked
  <2>1. request.items \in Seq(Item) /\ request.mode \in Mode
    BY <1>3, ListsAreSeqs DEF Asked, Waiting, IInv, TypeOK
  <2> DEFINE message == <<request.mode>> \o request.items
  <2>2. Head(to["relay"]) = message /\ Tail(to["relay"]) = <<>>
    BY <1>3 DEF Asked
  <2>3. Head(message) = request.mode /\ Tail(message) = request.items
    BY <2>1, Framed
  <2>4. Head(message) # STOP
    BY <2>1, <2>3 DEF Mode, STOP
  <2> HIDE DEF message
  <2>5. /\ to' = [to EXCEPT !["relay"] = <<>>]
        /\ mode' = request.mode
        /\ in' = [in EXCEPT !["relay"] = request.items]
        /\ pc' = [pc EXCEPT !["relay"] = "relaying"]
    BY <2>2, <2>3, <2>4 DEF ReceiveMode, Goto
  <2>6. TypeOK'
    <3>1. to' \in [Link -> Seq(Seq(Part))]
      BY <2>5, TakeOnly DEF IInv, Link
    <3> QED
      BY <2>1, <2>5, <3>1 DEF IInv, TypeOK, ReceiveMode, Thread, Part
  <2>7. Relaying'
    <3>1. <<>> \o request.items = request.items
      BY <2>1, ConcatEmptySeq
    <3> QED
      BY <1>3, <2>1, <2>5, <3>1 DEF IInv, TypeOK, ReceiveMode, Asked, Relaying,
         Waiting, Quiet, AtRest, RelayEmpty, Thread, Link, Mode
  <2> QED
    BY <1>2, <2>6, <2>7 DEF IInv, Situation
<1>4. CASE Stopping
  <2>1. to["relay"] = << <<STOP>> >>
    BY <1>4 DEF Stopping, ReceiveMode
  <2>2. /\ to' = [to EXCEPT !["relay"] = <<>>]
        /\ pc' = [pc EXCEPT !["relay"] = "stopping"]
        /\ UNCHANGED <<in, mode>>
    BY <2>1 DEF ReceiveMode, Goto
  <2>3. TypeOK'
    <3>1. to' \in [Link -> Seq(Seq(Part))]
      BY <2>2, TakeOnly DEF IInv, Link
    <3> QED
      BY <2>2, <3>1 DEF IInv, TypeOK, ReceiveMode, Thread, Part
  <2>4. Stopping'
    BY <1>4, <2>2 DEF IInv, TypeOK, ReceiveMode, Stopping, Told, Quiet, AtRest,
       RelayEmpty, Thread, Link, Mode
  <2> QED
    BY <1>2, <2>3, <2>4 DEF IInv, Situation
<1> QED
  BY <1>1, <1>3, <1>4

LEMMA RelayFromStep ==
  ASSUME IInv, RelayFrom
  PROVE  IInv'
<1>1. Relaying
  BY DEF IInv, Situation, Nobody, Asked, AtSorter, Returning, Answered,
         Stopping, RelayFrom
<1>2. /\ in' = [in EXCEPT !["relay"] = Tail(in["relay"])]
      /\ out' = [out EXCEPT !["relay"] = Append(out["relay"], Head(in["relay"]))]
  BY DEF RelayFrom, Relayed
<1>3. /\ in'["relay"] \in Seq(Item) /\ out'["relay"] \in Seq(Item)
      /\ out'["relay"] \o in'["relay"] = request.items
  <2>1. in["relay"] # <<>>
    BY DEF RelayFrom
  <2>2. in'["relay"] = Tail(in["relay"])
        /\ out'["relay"] = Append(out["relay"], Head(in["relay"]))
    BY <1>2 DEF IInv, TypeOK, Thread
  <2> QED
    BY <1>1, <2>1, <2>2, MoveOne DEF Relaying
<1>4. TypeOK'
  <2>1. in' \in [Thread -> Seq(Item)] /\ out' \in [Thread -> Seq(Item)]
    BY <1>2, <1>3 DEF IInv, TypeOK, Thread
  <2> QED
    BY <2>1 DEF IInv, TypeOK, RelayFrom
<1>5. Relaying'
  BY <1>1, <1>3 DEF RelayFrom, Relaying, Waiting, Quiet, AtRest
<1>6. AnswerInv'
  BY DEF IInv, RelayFrom, AnswerInv, Whole
<1> QED
  BY <1>4, <1>5, <1>6 DEF IInv, Situation

LEMMA AdditionStep ==
  ASSUME IInv, Addition
  PROVE  IInv'
<1>1. Relaying
  BY DEF IInv, Situation, Nobody, Asked, AtSorter, Returning, Answered,
         Stopping, Addition
<1>2. mode \in Mode /\ mode \in Link
  BY DEF IInv, TypeOK, Link
<1>3. out["relay"] = request.items
  BY <1>1, ConcatEmptySeq DEF Relaying, Addition
<1>4. Whole \in Seq(Part)
  <2>1. Whole \in Seq(Item)
    BY <1>1, WholeType DEF IInv, Relaying
  <2> QED
    BY <2>1 DEF Part
<1>5. Ask(mode, Whole)
  BY <1>1, <1>3 DEF Addition, Relaying, Whole
<1>6. to' = [to EXCEPT ![mode] = <<Whole>>]
  BY <1>1, <1>2, <1>4, <1>5, AskAlone DEF IInv, Relaying, AtRest, Quiet
<1>7. TypeOK'
  <2>1. to' \in [Link -> Seq(Seq(Part))]
    BY <1>2, <1>4, <1>6, AskAlone DEF IInv
  <2>2. out' \in [Thread -> Seq(Item)]
    BY DEF IInv, TypeOK, Addition, Thread
  <2> QED
    BY <2>1, <2>2 DEF IInv, TypeOK, Addition, Goto, Thread, Part
<1>8. AtSorter'
  BY <1>1, <1>2, <1>6 DEF IInv, TypeOK, Addition, Goto, Relaying, AtSorter, Waiting,
     Quiet, AtRest, RelayEmpty, Thread, Link, Mode, Whole
<1>9. AnswerInv'
  BY DEF IInv, Addition, AnswerInv, Whole
<1> QED
  BY <1>7, <1>8, <1>9 DEF IInv, Situation

LEMMA TakeAnswerStep ==
  ASSUME IInv, TakeAnswer
  PROVE  IInv'
<1>1. AtSorter
  BY DEF IInv, Situation, Nobody, Asked, Relaying, Returning, Answered,
         Stopping, TakeAnswer
<1>2. mode \in Mode /\ mode \in Link
  BY DEF IInv, TypeOK, Link
<1>3. /\ pc[mode] = "ready" /\ to[mode] = <<>>
      /\ \E s \in Sorted(mode, Whole) : back[mode] = <<s>>
  BY <1>1 DEF AtSorter, Quiet, TakeAnswer
<1>4. PICK s \in Sorted(mode, Whole) : back[mode] = <<s>>
  BY <1>3
<1>5. Whole \in Seq(Item) /\ Len(Whole) > 1
  BY <1>1, WholeType DEF IInv, AtSorter
<1>6. s \in Seq(Item) /\ s # <<>>
  BY <1>2, <1>5, SortedType
<1>7. /\ in' = [in EXCEPT !["relay"] = s]
      /\ back' = [back EXCEPT ![mode] = <<>>]
  BY <1>4 DEF TakeAnswer
<1>8. TypeOK'
  <2>1. back' \in [Link -> Seq(Seq(Item))]
    BY <1>2, <1>7, TakeOnly DEF IInv
  <2> QED
    <3>1. in' \in [Thread -> Seq(Item)]
      <4>1. in \in [Thread -> Seq(Item)] /\ "relay" \in Thread
        BY DEF IInv, TypeOK, Thread
      <4> QED
        BY <1>6, <1>7, <4>1, Updated
    <3>2. /\ pc' = [pc EXCEPT !["relay"] = "raw"]
          /\ UNCHANGED <<to, out, mode, request, answer, round>>
      BY DEF TakeAnswer, Goto
    <3> QED
      BY <2>1, <3>1, <3>2 DEF IInv, TypeOK
<1>9. Returning'
  <2>1. <<>> \o s = s
    BY <1>6, ConcatEmptySeq
  <2> QED
    <3>1. UNCHANGED <<to, out, mode, request>> /\ Whole' = Whole
      BY DEF TakeAnswer, Whole
    <3>2. pc'["relay"] = "raw" /\ in'["relay"] = s /\ out'["relay"] = <<>>
      BY <1>1, <1>7, <3>1
         DEF IInv, TypeOK, TakeAnswer, Goto, AtSorter, RelayEmpty, Thread
    <3>3. \A t \in Thread \ {"relay"} : pc'[t] = pc[t]
      BY DEF IInv, TypeOK, TakeAnswer, Goto
    <3>4. back'[mode] = <<>> /\ \A l \in Link \ {mode} : back'[l] = back[l]
      BY <1>2, <1>7 DEF IInv, TypeOK
    <3>5. "main" \in Thread \ {"relay"} /\ "relay" \in Link \ {mode}
      BY DEF IInv, TypeOK, Thread, Link, Mode
    <3>6. Waiting' /\ mode' = request'.mode /\ Quiet("relay")'
      BY <1>1, <3>1, <3>3, <3>4, <3>5 DEF AtSorter, Waiting, Quiet
    <3>7. \A m \in Mode : AtRest(m)'
      <4>1. \A m \in Mode : m \in Thread \ {"relay"} /\ m \in Link
        BY DEF Thread, Link, Mode
      <4>2. AtRest(mode)'
        BY <1>2, <1>3, <3>1, <3>3, <3>4, <4>1 DEF AtRest, Quiet
      <4>3. \A m \in Mode \ {mode} : AtRest(m)'
        BY <1>1, <3>1, <3>3, <3>4, <4>1 DEF AtSorter, AtRest, Quiet
      <4> QED
        BY <3>1, <4>2, <4>3
    <3>8. <<>> \in Seq(Item)
      OBVIOUS
    <3> QED
      BY <1>6, <2>1, <3>1, <3>2, <3>6, <3>7, <3>8 DEF Returning
<1>10. AnswerInv'
  BY DEF IInv, TakeAnswer, AnswerInv, Whole
<1> QED
  BY <1>8, <1>9, <1>10 DEF IInv, Situation

LEMMA RelayRawStep ==
  ASSUME IInv, RelayRaw
  PROVE  IInv'
<1>1. Returning
  BY DEF IInv, Situation, Nobody, Asked, Relaying, AtSorter, Answered,
         Stopping, RelayRaw
<1>2. AnswerInv'
  BY DEF IInv, RelayRaw, AnswerInv, Whole
<1>3. CASE Len(in["relay"]) > 1 /\ Relayed /\ UNCHANGED <<pc, back>>
  <2>1. /\ in' = [in EXCEPT !["relay"] = Tail(in["relay"])]
        /\ out' = [out EXCEPT !["relay"] = Append(out["relay"], Head(in["relay"]))]
    BY <1>3 DEF Relayed
  <2>2. in'["relay"] = Tail(in["relay"])
        /\ out'["relay"] = Append(out["relay"], Head(in["relay"]))
    BY <2>1 DEF IInv, TypeOK, Thread
  <2>3. /\ in'["relay"] \in Seq(Item) /\ out'["relay"] \in Seq(Item)
        /\ out'["relay"] \o in'["relay"] = out["relay"] \o in["relay"]
    <3>1. in["relay"] \in Seq(Item) /\ out["relay"] \in Seq(Item) /\ in["relay"] # <<>>
      BY <1>1 DEF Returning
    <3> DEFINE a == out["relay"]
               b == in["relay"]
    <3>2. a \in Seq(Item) /\ b \in Seq(Item) /\ b # <<>>
      BY <3>1
    <3>3. in'["relay"] = Tail(b) /\ out'["relay"] = Append(a, Head(b))
      BY <2>2
    <3> HIDE DEF a, b
    <3>4. /\ Append(a, Head(b)) \in Seq(Item) /\ Tail(b) \in Seq(Item)
          /\ Append(a, Head(b)) \o Tail(b) = a \o b
      BY <3>2, MoveOne
    <3> QED
      BY <3>3, <3>4 DEF a, b
  <2>4. in'["relay"] # <<>>
    <3>1. Len(in'["relay"]) = Len(in["relay"]) - 1
      BY <1>1, <2>2, HeadTailProperties DEF Returning
    <3> QED
      BY <1>1, <1>3, <2>3, <3>1 DEF Returning
  <2>5. TypeOK'
    <3>1. in' \in [Thread -> Seq(Item)] /\ out' \in [Thread -> Seq(Item)]
      BY <2>1, <2>3 DEF IInv, TypeOK, Thread
    <3> QED
      BY <1>3, <3>1 DEF IInv, TypeOK, RelayRaw
  <2>6. Returning'
    BY <1>1, <1>3, <2>3, <2>4 DEF RelayRaw, Returning, Waiting, Quiet, AtRest, Whole
  <2> QED
    BY <1>2, <2>5, <2>6 DEF IInv, Situation
<1>4. CASE /\ Reply("relay", out["relay"] \o in["relay"])
           /\ in' = [in EXCEPT !["relay"] = <<>>]
           /\ out' = [out EXCEPT !["relay"] = <<>>]
           /\ Goto("relay", "ready")
  <2> DEFINE s == out["relay"] \o in["relay"]
  <2>1. s \in Sorted(request.mode, Whole) /\ s \in Seq(Item)
    BY <1>1, ConcatProperties DEF Returning
  <2> HIDE DEF s
  <2>2. back' = [back EXCEPT !["relay"] = <<s>>]
    <3>1. Reply("relay", s)
      BY <1>4 DEF s
    <3> QED
      BY <1>1, <2>1, <3>1, ReplyAlone DEF IInv, Returning, Quiet, Link
  <2>3. TypeOK'
    <3>1. back' \in [Link -> Seq(Seq(Item))]
      BY <2>1, <2>2, ReplyAlone DEF IInv, Link
    <3> QED
      <4>1. pc' = [pc EXCEPT !["relay"] = "ready"]
            /\ UNCHANGED <<to, mode, request, answer, round>>
        BY <1>4 DEF RelayRaw, Goto
      <4>2. in' \in [Thread -> Seq(Item)] /\ out' \in [Thread -> Seq(Item)]
        <5>1. in \in [Thread -> Seq(Item)] /\ out \in [Thread -> Seq(Item)]
          BY DEF IInv, TypeOK
        <5>2. <<>> \in Seq(Item) /\ "relay" \in Thread
          BY DEF Thread
        <5> QED
          BY <1>4, <5>1, <5>2, Updated
      <4> QED
        BY <3>1, <4>1, <4>2 DEF IInv, TypeOK
  <2>4. Answered'
    BY <1>1, <1>4, <2>1, <2>2 DEF IInv, TypeOK, RelayRaw, Goto, Returning, Answered,
       Waiting, Quiet, AtRest, RelayEmpty, Thread, Link, Mode, Whole
  <2> QED
    BY <1>2, <2>3, <2>4 DEF IInv, Situation
<1> QED
  BY <1>3, <1>4 DEF RelayRaw

LEMMA StopSortersStep ==
  ASSUME IInv, StopSorters
  PROVE  IInv'
<1>1. Stopping
  BY DEF IInv, Situation, Nobody, Asked, Relaying, AtSorter, Returning,
         Answered, StopSorters
<1>2. <<STOP>> \in Seq(Part)
  BY DEF Part
<1>3. AnswerInv'
  BY DEF IInv, StopSorters, AnswerInv, Whole
<1>4. CASE pc["relay"] = "stopping" /\ Ask("INT", <<STOP>>)
           /\ Goto("relay", "stopping_string")
  <2>1. to' = [to EXCEPT !["INT"] = << <<STOP>> >>]
        /\ to' \in [Link -> Seq(Seq(Part))]
    BY <1>1, <1>2, <1>4, AskAlone DEF IInv, Stopping, AtRest, Quiet, Link, Mode
  <2>2. TypeOK'
    BY <1>4, <2>1 DEF IInv, TypeOK, StopSorters, Goto, Thread, Part
  <2>3. Stopping'
    BY <1>1, <1>4, <2>1 DEF IInv, TypeOK, StopSorters, Goto, Stopping, Told, Quiet,
       AtRest, RelayEmpty, Thread, Link, Mode
  <2> QED
    BY <1>3, <2>2, <2>3 DEF IInv, Situation
<1>5. CASE pc["relay"] = "stopping_string" /\ Ask("STRING", <<STOP>>)
           /\ Goto("relay", "joining")
  <2>1. to' = [to EXCEPT !["STRING"] = << <<STOP>> >>]
        /\ to' \in [Link -> Seq(Seq(Part))]
    BY <1>1, <1>2, <1>5, AskAlone DEF IInv, Stopping, AtRest, Quiet, Link, Mode
  <2>2. TypeOK'
    BY <1>5, <2>1 DEF IInv, TypeOK, StopSorters, Goto, Thread, Part
  <2>3. Stopping'
    BY <1>1, <1>5, <2>1 DEF IInv, TypeOK, StopSorters, Goto, Stopping, Told, Quiet,
       AtRest, RelayEmpty, Thread, Link, Mode
  <2> QED
    BY <1>3, <2>2, <2>3 DEF IInv, Situation
<1> QED
  BY <1>4, <1>5 DEF StopSorters

LEMMA ReceiveListStep ==
  ASSUME IInv, NEW m \in Mode, ReceiveList(m)
  PROVE  IInv'
<1>1. (AtSorter /\ m = mode) \/ (Stopping /\ Told(m))
  BY DEF IInv, Situation, Nobody, Asked, Relaying, AtSorter, Returning, Answered,
         Stopping, Told, Quiet, AtRest, Link, Mode, ReceiveList
<1>2. m \in Link /\ m \in Thread
  BY DEF Link, Thread
<1>3. AnswerInv'
  BY DEF IInv, ReceiveList, AnswerInv, Whole
<1>4. CASE AtSorter /\ m = mode
  <2>1. Whole \in Seq(Item) /\ Len(Whole) > 1
    BY <1>4, WholeType DEF IInv, AtSorter
  <2>2. to[m] = <<Whole>> /\ back[m] = <<>>
    BY <1>4 DEF AtSorter, Quiet, ReceiveList
  <2>3. /\ to' = [to EXCEPT ![m] = <<>>]
        /\ in' = [in EXCEPT ![m] = Whole]
        /\ pc' = [pc EXCEPT ![m] = "sorting"]
    <3>1. Head(to[m]) = Whole /\ Tail(to[m]) = <<>>
      BY <2>2
    <3>0. Len(Whole) \in Nat
      BY <2>1, LenProperties
    <3>3. \A n \in Nat : n > 1 => n # 1
      OBVIOUS
    <3>2. Len(Whole) # 1
      BY <2>1, <3>0, <3>3
    <3> QED
      BY <3>1, <3>2 DEF ReceiveList, Goto
  <2>4. TypeOK'
    <3>1. to' \in [Link -> Seq(Seq(Part))]
      BY <1>2, <2>3, TakeOnly DEF IInv
    <3> QED
      BY <1>2, <2>1, <2>3, <3>1 DEF IInv, TypeOK, ReceiveList, Part
  <2>5. AtSorter'
    <3>1. UNCHANGED <<back, out, mode, request>> /\ Whole' = Whole
      BY DEF ReceiveList, Whole
    <3>2. /\ pc'[m] = "sorting" /\ in'[m] = Whole
          /\ to'[m] = <<>> /\ back'[m] = <<>>
      BY <1>2, <2>2, <2>3, <3>1 DEF IInv, TypeOK
    <3>3. \A t \in Thread \ {m} : pc'[t] = pc[t] /\ in'[t] = in[t]
      BY <2>3 DEF IInv, TypeOK
    <3>4. \A l \in Link \ {m} : to'[l] = to[l] /\ back'[l] = back[l]
      BY <2>3, <3>1 DEF IInv, TypeOK
    <3>5. {"main", "relay"} \subseteq Thread \ {m} /\ "relay" \in Link \ {m}
      BY DEF Thread, Link, Mode
    <3>6. Waiting' /\ pc'["relay"] = "answer" /\ mode' = request'.mode /\ RelayEmpty'
      BY <1>4, <3>1, <3>3, <3>5 DEF AtSorter, Waiting, RelayEmpty
    <3>7. Quiet("relay")'
      BY <1>4, <3>4, <3>5 DEF AtSorter, Quiet
    <3>8. \A k \in Mode \ {m} : AtRest(k)'
      BY <1>4, <3>3, <3>4 DEF AtSorter, AtRest, Quiet, Thread, Link
    <3> QED
      BY <1>4, <3>1, <3>2, <3>6, <3>7, <3>8 DEF AtSorter, Quiet
  <2> QED
    BY <1>3, <2>4, <2>5 DEF IInv, Situation
<1>5. CASE Stopping /\ Told(m)
  <2>1. to[m] = << <<STOP>> >> /\ back[m] = <<>>
    BY <1>5 DEF Told, Quiet, ReceiveList
  <2>2. /\ to' = [to EXCEPT ![m] = <<>>]
        /\ pc' = [pc EXCEPT ![m] = "ended"]
        /\ UNCHANGED in
    BY <2>1 DEF ReceiveList, Goto
  <2>3. TypeOK'
    <3>1. to' \in [Link -> Seq(Seq(Part))]
      BY <1>2, <2>2, TakeOnly DEF IInv
    <3> QED
      BY <1>2, <2>2, <3>1 DEF IInv, TypeOK, ReceiveList, Part
  <2>4. Stopping'
    BY <1>2, <1>5, <2>1, <2>2 DEF IInv, TypeOK, ReceiveList, Stopping, Told, Quiet,
       AtRest, RelayEmpty, Thread, Link, Mode
  <2> QED
    BY <1>3, <2>3, <2>4 DEF IInv, Situation
<1> QED
  BY <1>1, <1>4, <1>5

LEMMA SendSortedStep ==
  ASSUME IInv, NEW m \in Mode, SendSorted(m)
  PROVE  IInv'
<1>1. AtSorter /\ m = mode
  BY DEF IInv, Situation, Nobody, Asked, Relaying, AtSorter, Returning, Answered,
         Stopping, Told, Quiet, AtRest, Link, Mode, SendSorted
<1>2. m \in Link /\ m \in Thread
  BY DEF Link, Thread
<1>3. Whole \in Seq(Item) /\ Len(Whole) > 1
  BY <1>1, WholeType DEF IInv, AtSorter
<1>4. in[m] = Whole /\ to[m] = <<>> /\ back[m] = <<>>
  BY <1>1 DEF AtSorter, Quiet, SendSorted
<1>5. PICK s \in Sorted(m, Whole) : Reply(m, s)
  BY <1>4 DEF SendSorted
<1>6. s \in Seq(Item)
  BY <1>3, SortedType
<1>7. back' = [back EXCEPT ![m] = <<s>>]
      /\ back' \in [Link -> Seq(Seq(Item))]
  BY <1>2, <1>4, <1>5, <1>6, ReplyAlone DEF IInv
<1>8. TypeOK'
  BY <1>2, <1>7 DEF IInv, TypeOK, SendSorted, Goto
<1>9. AtSorter'
  <2>1. UNCHANGED <<to, out, mode, request>> /\ Whole' = Whole
    BY DEF SendSorted, Whole
  <2>2. pc'[m] = "ready" /\ to'[m] = <<>> /\ back'[m] = <<s>>
    BY <1>2, <1>4, <1>7, <2>1 DEF IInv, TypeOK, SendSorted, Goto
  <2>3. \A t \in Thread \ {m} : pc'[t] = pc[t] /\ in'[t] = in[t]
    BY DEF IInv, TypeOK, SendSorted, Goto
  <2>4. \A l \in Link \ {m} : to'[l] = to[l] /\ back'[l] = back[l]
    BY <1>7, <2>1 DEF IInv, TypeOK
  <2>5. {"main", "relay"} \subseteq Thread \ {m} /\ "relay" \in Link \ {m}
    BY DEF Thread, Link, Mode
  <2>6. Waiting' /\ pc'["relay"] = "answer" /\ mode' = request'.mode /\ RelayEmpty'
    BY <1>1, <2>1, <2>3, <2>5 DEF AtSorter, Waiting, RelayEmpty
  <2>7. Quiet("relay")'
    BY <1>1, <2>4, <2>5 DEF AtSorter, Quiet
  <2>8. \A k \in Mode \ {m} : AtRest(k)'
    <3>1. \A k \in Mode \ {m} : AtRest(k)
      BY <1>1 DEF AtSorter
    <3>2. \A k \in Mode \ {m} : k \in Thread \ {m} /\ k \in Link \ {m}
      BY DEF Thread, Link
    <3> QED
      BY <2>3, <2>4, <3>1, <3>2 DEF AtRest, Quiet
  <2>9. s \in Sorted(m, Whole')
    BY <1>5, <2>1
  <2> QED
    BY <1>1, <2>1, <2>2, <2>6, <2>7, <2>8, <2>9 DEF AtSorter
<1>10. AnswerInv'
  BY DEF IInv, SendSorted, AnswerInv, Whole
<1> QED
  BY <1>8, <1>9, <1>10 DEF IInv, Situation

LEMMA JoinStep ==
  ASSUME IInv, NEW t \in {"main", "relay"}, Join(t)
  PROVE  IInv'
<1>1. Stopping
  BY DEF IInv, Situation, Nobody, Waiting, Asked, Relaying, AtSorter, Returning,
         Answered, Join
<1>2. TypeOK'
  BY DEF IInv, TypeOK, Join, Goto, Thread
<1>3. Stopping'
  BY <1>1 DEF IInv, TypeOK, Join, Goto, Stopping, Told, Quiet, AtRest, RelayEmpty,
     Thread, Link, Mode
<1>4. AnswerInv'
  BY DEF IInv, Join, AnswerInv, Whole
<1> QED
  BY <1>2, <1>3, <1>4 DEF IInv, Situation

\* The list, or the order to stop, is in one of the situations at any time.
THEOREM Inductive == Spec => []IInv
<1>1. IInv /\ [Next]_vars => IInv'
  <2> SUFFICES ASSUME IInv, [Next]_vars PROVE IInv'
    OBVIOUS
  <2>1. CASE Main
    BY <2>1, RequestStep, ReceiveSortedStep, SendStopStep, JoinStep DEF Main
  <2>2. CASE Relay
    BY <2>2, ReceiveModeStep, RelayFromStep, AdditionStep, TakeAnswerStep,
       RelayRawStep, StopSortersStep, JoinStep DEF Relay
  <2>3. ASSUME NEW m \in Mode, Sorter(m) PROVE IInv'
    BY <2>3, ReceiveListStep, SendSortedStep DEF Sorter
  <2>4. CASE UNCHANGED vars
    <3>1. TypeOK' /\ AnswerInv'
      BY <2>4 DEF vars, IInv, TypeOK, AnswerInv, Whole
    <3>2. Situation'
      <4> USE <2>4 DEF vars, Waiting, Quiet, AtRest, RelayEmpty, Whole
      <4>1. (Nobody => Nobody') /\ (Asked => Asked')
        BY DEF Nobody, Asked
      <4>2. (Relaying => Relaying') /\ (Answered => Answered')
        BY DEF Relaying, Answered
      <4>3. AtSorter => AtSorter'
        BY DEF AtSorter
      <4>4. Returning => Returning'
        BY DEF Returning
      <4>5. Stopping => Stopping'
        BY DEF Stopping, Told
      <4> QED
        BY <4>1, <4>2, <4>3, <4>4, <4>5 DEF IInv, Situation
    <3> QED
      BY <3>1, <3>2 DEF IInv
  <2> QED
    BY <2>1, <2>2, <2>3, <2>4 DEF Next, Exited
<1> QED
  BY <1>1, InitIInv, PTL DEF Spec

\* Types, for every set of elements and every bound.
THEOREM TypeCorrect == Spec => []TypeOK
<1>1. IInv => TypeOK
  BY DEF IInv
<1> QED
  BY <1>1, Inductive, PTL

\* The answer is what sorting main's list with relay's element may give, for
\* every order of the elements.
THEOREM AnswerThm == Spec => []AnswerIsSorted
<1>1. IInv => AnswerIsSorted
  BY DEF IInv, AnswerInv, Sorted, Whole, AnswerIsSorted
<1> QED
  BY <1>1, Inductive, PTL

\* No link ever carries a second message.
THEOREM LockStepThm == Spec => []LockStep
<1>1. IInv => LockStep
  <2> SUFFICES ASSUME IInv, NEW l \in Link
               PROVE  /\ Len(to[l]) + Len(back[l]) <= 1
                      /\ l \in Mode /\ pc[l] = "sorting" => Quiet(l)
                      /\ back[l] # <<>> =>
                           IF l = "relay" THEN pc["main"] = "waiting"
                                          ELSE pc["relay"] = "answer"
    BY DEF LockStep, Quiet
  <2> DEFINE Alone == \/ Quiet(l)
                      \/ back[l] = <<>> /\ \E x : to[l] = <<x>>
                      \/ to[l] = <<>> /\ \E x : back[l] = <<x>>
  <2>1. Alone
    <3>1. CASE l = "relay"
      BY <3>1 DEF IInv, Situation, Nobody, Asked, Relaying, AtSorter, Returning,
         Answered, Stopping, Quiet, Link
    <3>2. CASE l \in Mode
      BY <3>2 DEF IInv, Situation, Nobody, Asked, Relaying, AtSorter, Returning,
         Answered, Stopping, Told, Quiet, AtRest, Link, Mode
    <3> QED
      BY <3>1, <3>2 DEF Link
  <2>2. Len(to[l]) + Len(back[l]) <= 1
    <3>1. Len(<<>>) = 0 /\ \A x : Len(<<x>>) = 1
      OBVIOUS
    <3>2. CASE Quiet(l)
      BY <3>1, <3>2 DEF Quiet
    <3>3. CASE back[l] = <<>> /\ \E x : to[l] = <<x>>
      BY <3>1, <3>3
    <3>4. CASE to[l] = <<>> /\ \E x : back[l] = <<x>>
      BY <3>1, <3>4
    <3> QED
      BY <2>1, <3>2, <3>3, <3>4
  <2>3. l \in Mode /\ pc[l] = "sorting" => Quiet(l)
    BY DEF IInv, Situation, Nobody, Asked, Relaying, AtSorter, Returning,
       Answered, Stopping, Told, AtRest, Quiet, Mode
  <2>4. back[l] # <<>> => IF l = "relay" THEN pc["main"] = "waiting"
                                         ELSE pc["relay"] = "answer"
    BY DEF IInv, Situation, Nobody, Waiting, Asked, Relaying, AtSorter, Returning,
       Answered, Stopping, Told, AtRest, Quiet, Link, Mode
  <2> QED
    BY <2>2, <2>3, <2>4
<1> QED
  BY <1>1, Inductive, PTL

\* No list is ever taken for the order to stop.
THEOREM LeavesThm == Spec => []LeavesOnStop
<1>1. IInv => LeavesOnStop
  BY DEF IInv, Situation, Nobody, Waiting, Asked, Relaying, AtSorter, Returning,
     Answered, Stopping, Told, Quiet, AtRest, Link, Mode, LeavesOnStop
<1> QED
  BY <1>1, Inductive, PTL
=============================================================================
