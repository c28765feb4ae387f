------------------------------- MODULE Bisort -------------------------------
(***************************************************************************)
(* The four threads of zbisort (examples/zbisort.cpp): main asks for lists *)
(* to be sorted, relay is a dispatcher that passes each list on to the     *)
(* sorter of its mode, with an element of its own, and the answer back.    *)
(* Each pair talks over one REQ and one REP socket on an inproc link.      *)
(*                                                                         *)
(* Main of the source sends one list of strings and one of integers; here  *)
(* it may send any lists of at least one element, in any order.            *)
(***************************************************************************)
EXTENDS Naturals, Sequences, Functions

CONSTANTS
  Item,      \* the elements of the lists
  Extra,     \* the element relay adds in each mode
  Rank,      \* the position of each element in the order of each mode
  MaxItems,  \* bound on the length of a list
  Rounds     \* bound on the number of lists

Mode == {"INT", "STRING"}
STOP == "STOP"

ASSUME ExtraAssumption == Extra \in [Mode -> Item]
ASSUME RankAssumption == Rank \in [Mode -> [Item -> Nat]]
ASSUME BoundAssumption == MaxItems \in Nat \ {0} /\ Rounds \in Nat

\* The sorters are named by their mode, the links by the thread that serves.
Thread == {"main", "relay"} \cup Mode
Link == {"relay"} \cup Mode

Lists == UNION {[1 .. n -> Item] : n \in 1 .. MaxItems}

VARIABLES
  pc,       \* where each thread is
  to, back, \* messages to the REP socket of each link and back to the REQ one
  in,       \* parts of the current message that the thread has not read
  out,      \* parts the thread has sent of the message it is composing
  mode,     \* of the list in relay's hands
  request,  \* main's last request: its mode and list
  answer,   \* the answer to it, or <<>>
  round     \* number of lists sent

vars == <<pc, to, back, in, out, mode, request, answer, round>>

TypeOK ==
  /\ pc \in [Thread -> {"ready", "waiting", "relaying", "answer", "raw",
                        "stopping", "stopping_string", "sorting", "joining",
                        "ended"}]
  /\ to \in [Link -> Seq(Seq(Item \cup Mode \cup {STOP}))]
  /\ back \in [Link -> Seq(Seq(Item))]
  /\ in \in [Thread -> Seq(Item)]
  /\ out \in [Thread -> Seq(Item)]
  /\ mode \in Mode
  /\ request \in [mode : Mode, items : Lists \cup {<<>>}]
  /\ answer \in Seq(Item)
  /\ round \in 0 .. Rounds

Init ==
  /\ pc = [t \in Thread |-> "ready"]
  /\ to = [l \in Link |-> <<>>] /\ back = [l \in Link |-> <<>>]
  /\ in = [t \in Thread |-> <<>>] /\ out = [t \in Thread |-> <<>>]
  /\ mode = "STRING"
  /\ request = [mode |-> "STRING", items |-> <<>>]
  /\ answer = <<>>
  /\ round = 0

Goto(thread, label) == pc' = [pc EXCEPT ![thread] = label]

Ask(link, message) == to' = [to EXCEPT ![link] = Append(@, message)]
Reply(link, message) == back' = [back EXCEPT ![link] = Append(@, message)]

-----------------------------------------------------------------------------
(* main                                                                     *)

\* The mode part and the list in one message.
Request ==
  /\ pc["main"] = "ready" /\ round < Rounds
  /\ \E m \in Mode, items \in Lists :
       /\ request' = [mode |-> m, items |-> items]
       /\ Ask("relay", <<m>> \o items)
  /\ round' = round + 1
  /\ answer' = <<>>
  /\ Goto("main", "waiting")
  /\ UNCHANGED <<back, in, out, mode>>

ReceiveSorted ==
  /\ pc["main"] = "waiting" /\ back["relay"] # <<>>
  /\ answer' = Head(back["relay"])
  /\ back' = [back EXCEPT !["relay"] = Tail(@)]
  /\ Goto("main", "ready")
  /\ UNCHANGED <<to, in, out, mode, request, round>>

SendStop ==
  /\ pc["main"] = "ready"
  /\ Ask("relay", <<STOP>>)
  /\ Goto("main", "joining")
  /\ UNCHANGED <<back, in, out, mode, request, answer, round>>

-----------------------------------------------------------------------------
(* relay                                                                    *)

\* Seeded fault: the mode is read but left in front of the list.
ReceiveMode_whole ==
  /\ pc["relay"] = "ready" /\ to["relay"] # <<>>
  /\ to' = [to EXCEPT !["relay"] = Tail(@)]
  /\ LET message == Head(to["relay"]) IN
       IF Head(message) = STOP
       THEN Goto("relay", "stopping") /\ UNCHANGED <<in, mode>>
       ELSE /\ mode' = Head(message)
            /\ in' = [in EXCEPT !["relay"] = message]
            /\ Goto("relay", "relaying")
  /\ UNCHANGED <<back, out, request, answer, round>>

\* receive(1, false) reads the first part only.
ReceiveMode ==
  /\ pc["relay"] = "ready" /\ to["relay"] # <<>>
  /\ to' = [to EXCEPT !["relay"] = Tail(@)]
  /\ LET message == Head(to["relay"]) IN
       IF Head(message) = STOP
       THEN Goto("relay", "stopping") /\ UNCHANGED <<in, mode>>
       ELSE /\ mode' = Head(message)
            /\ in' = [in EXCEPT !["relay"] = Tail(message)]
            /\ Goto("relay", "relaying")
  /\ UNCHANGED <<back, out, request, answer, round>>

Relayed ==
  /\ in' = [in EXCEPT !["relay"] = Tail(@)]
  /\ out' = [out EXCEPT !["relay"] = Append(@, Head(in["relay"]))]

\* One iteration of relay_from().
RelayFrom ==
  /\ pc["relay"] = "relaying" /\ in["relay"] # <<>>
  /\ Relayed
  /\ UNCHANGED <<pc, to, back, mode, request, answer, round>>

\* Seeded fault: what was relayed is flushed before the addition.
Addition_apart ==
  /\ pc["relay"] = "relaying" /\ in["relay"] = <<>>
  /\ to' = [to EXCEPT ![mode] = @ \o <<out["relay"], <<Extra[mode]>> >>]
  /\ out' = [out EXCEPT !["relay"] = <<>>]
  /\ Goto("relay", "answer")
  /\ UNCHANGED <<back, in, mode, request, answer, round>>

\* Seeded fault: relay_from() was not called.
Addition_alone ==
  /\ pc["relay"] = "relaying" /\ in["relay"] = <<>>
  /\ Ask(mode, <<Extra[mode]>>)
  /\ out' = [out EXCEPT !["relay"] = <<>>]
  /\ Goto("relay", "answer")
  /\ UNCHANGED <<back, in, mode, request, answer, round>>

\* "<< 38 << Flush" at the end of the relayed message.
Addition ==
  /\ pc["relay"] = "relaying" /\ in["relay"] = <<>>
  /\ Ask(mode, Append(out["relay"], Extra[mode]))
  /\ out' = [out EXCEPT !["relay"] = <<>>]
  /\ Goto("relay", "answer")
  /\ UNCHANGED <<back, in, mode, request, answer, round>>

\* Seeded fault: relay_raw asks has_more before it has received anything, which
\* is false on this socket, and the loop goes on to the next request.
TakeAnswer_checked ==
  /\ pc["relay"] = "answer"
  /\ Goto("relay", "ready")
  /\ UNCHANGED <<to, back, in, out, mode, request, answer, round>>

\* relay_raw(..., false) waits for the first part without asking has_more.
TakeAnswer ==
  /\ pc["relay"] = "answer" /\ back[mode] # <<>>
  /\ in' = [in EXCEPT !["relay"] = Head(back[mode])]
  /\ back' = [back EXCEPT ![mode] = Tail(@)]
  /\ Goto("relay", "raw")
  /\ UNCHANGED <<to, out, mode, request, answer, round>>

\* An iteration of relay_raw(); the part without ZMQ_SNDMORE makes the message
\* visible to main.
RelayRaw ==
  /\ pc["relay"] = "raw"
  /\ \/ /\ Len(in["relay"]) > 1
        /\ Relayed
        /\ UNCHANGED <<pc, back>>
     \/ /\ Len(in["relay"]) = 1
        /\ Reply("relay", out["relay"] \o in["relay"])
        /\ in' = [in EXCEPT !["relay"] = <<>>]
        /\ out' = [out EXCEPT !["relay"] = <<>>]
        /\ Goto("relay", "ready")
  /\ UNCHANGED <<to, mode, request, answer, round>>

\* Seeded fault: the sorter of strings is not told.
StopSorters_one ==
  /\ pc["relay"] = "stopping" /\ Ask("INT", <<STOP>>) /\ Goto("relay", "joining")
  /\ UNCHANGED <<back, in, out, mode, request, answer, round>>

\* A message of one part to each sorter.
StopSorters ==
  /\ \/ /\ pc["relay"] = "stopping"
        /\ Ask("INT", <<STOP>>) /\ Goto("relay", "stopping_string")
     \/ /\ pc["relay"] = "stopping_string"
        /\ Ask("STRING", <<STOP>>) /\ Goto("relay", "joining")
  /\ UNCHANGED <<back, in, out, mode, request, answer, round>>

-----------------------------------------------------------------------------
(* sorter                                                                   *)

\* receive_all(); a message of one part is the termination marker.
ReceiveList(m) ==
  /\ pc[m] = "ready" /\ to[m] # <<>>
  /\ to' = [to EXCEPT ![m] = Tail(@)]
  /\ LET message == Head(to[m]) IN
       \/ /\ Len(message) = 1
          /\ Goto(m, "ended") /\ UNCHANGED in
       \/ /\ Len(message) # 1
          /\ in' = [in EXCEPT ![m] = message] /\ Goto(m, "sorting")
  /\ UNCHANGED <<back, out, mode, request, answer, round>>

\* What std::sort may make of the list: equal elements come in any order.
Sorted(m, items) ==
  {s \in {[i \in DOMAIN items |-> items[p[i]]] : p \in Bijection(DOMAIN items, DOMAIN items)} :
     \A i, j \in DOMAIN s : i < j => Rank[m][s[i]] <= Rank[m][s[j]]}

\* Seeded fault: both sorters were started with the same type.
SendSorted_same(m) ==
  /\ pc[m] = "sorting"
  /\ \E sorted \in Sorted("INT", in[m]) : Reply(m, sorted)
  /\ in' = [in EXCEPT ![m] = <<>>]
  /\ Goto(m, "ready")
  /\ UNCHANGED <<to, out, mode, request, answer, round>>

\* Sorting, copying to the Outgoing and the flush.
SendSorted(m) ==
  /\ pc[m] = "sorting"
  /\ \E sorted \in Sorted(m, in[m]) : Reply(m, sorted)
  /\ in' = [in EXCEPT ![m] = <<>>]
  /\ Goto(m, "ready")
  /\ UNCHANGED <<to, out, mode, request, answer, round>>

-----------------------------------------------------------------------------

\* pthread_join, in relay for the sorters and in main for relay.
Join(t) ==
  /\ pc[t] = "joining"
  /\ \A s \in IF t = "relay" THEN Mode ELSE {"relay"} : pc[s] = "ended"
  /\ Goto(t, "ended")
  /\ UNCHANGED <<to, back, in, out, mode, request, answer, round>>

Main == Request \/ ReceiveSorted \/ SendStop \/ Join("main")

Relay ==
  \/ ReceiveMode \/ RelayFrom \/ Addition \/ TakeAnswer \/ RelayRaw
  \/ StopSorters \/ Join("relay")

Sorter(m) == ReceiveList(m) \/ SendSorted(m)

Ended == \A t \in Thread : pc[t] = "ended"

\* The process has ended: every other state without a step is a deadlock.
Exited == Ended /\ UNCHANGED vars

Next == Main \/ Relay \/ (\E m \in Mode : Sorter(m)) \/ Exited

\* The threads are scheduled.  Nothing is assumed of the order.
Fairness == WF_vars(Main) /\ WF_vars(Relay) /\ \A m \in Mode : WF_vars(Sorter(m))

Spec == Init /\ [][Next]_vars /\ Fairness

-----------------------------------------------------------------------------
(* Properties.                                                              *)

\* The answer is main's list with relay's element, nothing lost, doubled or
\* taken from another list, in the order of the mode.
AnswerIsSorted ==
  answer # <<>> =>
    LET whole == Append(request.items, Extra[request.mode]) IN
      /\ \E p \in Bijection(DOMAIN whole, DOMAIN whole) :
           answer = [i \in DOMAIN whole |-> whole[p[i]]]
      /\ \A i, j \in DOMAIN answer :
           i < j => Rank[request.mode][answer[i]] <= Rank[request.mode][answer[j]]

\* A link carries one message at a time, as its REQ and REP sockets demand: a
\* second request before the answer would fail with EFSM and end the process.
LockStep ==
  \A l \in Link :
    /\ Len(to[l]) + Len(back[l]) <= 1
    /\ l \in Mode /\ pc[l] = "sorting" => to[l] = <<>> /\ back[l] = <<>>
    /\ back[l] # <<>> =>
         IF l = "relay" THEN pc["main"] = "waiting" ELSE pc["relay"] = "answer"

\* A sorter leaves only when relay is stopping: no list, with the element that
\* relay adds, looks like the termination marker.
LeavesOnStop ==
  \A m \in Mode : pc[m] = "ended" =>
    pc["relay"] \in {"stopping_string", "joining", "ended"}

\* All four threads end, whatever main asked for.
Terminates == <>Ended
=============================================================================
