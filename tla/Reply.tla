-------------------------------- MODULE Reply --------------------------------
(***************************************************************************)
(* A worker and the replies it makes to one request: an Incoming with its  *)
(* envelope, Outgoing objects linked to it one after another, the parts of *)
(* the request that are still on the source socket (relay_from), and the   *)
(* queues of replies that would have blocked, which the worker keeps and   *)
(* sends later with send().                                                *)
(*                                                                         *)
(* Sink knows a part by the number of its insertion.  Here content says    *)
(* which part that was, so that one can follow it from the request through *)
(* cached_, the queue and send() to the peer, over several replies.        *)
(*                                                                         *)
(* The calls are those of a worker that uses the library as the examples   *)
(* do: one Outgoing is alive at a time, linked to the Incoming (zqueue     *)
(* 86-106); between two of them the worker takes the newest of its queues  *)
(* and calls send() with it, and a send() that throws ends the process     *)
(* (zasync 177-183 and 201-205, zqueue 79-84 and 109-113).                 *)
(* FI stands for zmqmessage/ZmqMessageFullImpl.hpp.                        *)
(***************************************************************************)
EXTENDS Sink, FiniteSets, SequencesExt

CONSTANTS
  Tails,       \* numbers of parts of the request left on the source socket
  MaxReplies,  \* bound on the Outgoing objects
  MaxReleases  \* bound on the calls of release()

ASSUME TailsAssumption == Tails \subseteq Nat
ASSUME LinkedAssumption == Linked \subseteq Nat
ASSUME ReplyBoundsAssumption == MaxReplies \in Nat /\ MaxReleases \in Nat

VARIABLES
  source,    \* the frames on relay_src that were not taken: [part, more]
  rcvmore,   \* ZMQ_RCVMORE of relay_src
  relaying,  \* the worker is in the loop of relay_from
  routing,   \* which parts of the envelope in the Incoming are valid()
  content,   \* the part behind each insertion of the current Outgoing
  inserted,  \* history: the ones among them that were valid
  queues,    \* the detached queues the worker keeps, newest last
  sending,   \* number of parts send() has sent of the last of them
  peers,     \* the messages dst_ accepted, the last may be incomplete
  intact,    \* history: the envelope was valid when the Outgoing was created
  composed,  \* history: what became of each finished Outgoing
  seen,      \* history: [reply, part] passed to on_send_part
  relayed,   \* history: the parts passed to on_receive_part by relay_from
  copied,    \* history: the parts inserted as copies (COPY_INCOMING)
  released   \* history: the parts that release() gave to the worker

request == <<source, rcvmore, relaying, routing>>
composition == <<content, inserted>>
resend == <<queues, sending, peers>>
past == <<intact, composed, seen, relayed, copied, released>>
replyVars == <<vars, request, composition, resend, past>>

\* A part of the envelope, of the payload received, of the rest of the request,
\* of the request after it, or one that the worker made itself.
Origin == {"routing", "request", "tail", "next", "caller"}
Id == [from : Origin, idx : Nat]
Of(origin, i) == [from |-> origin, idx |-> i]

Empty == Of("routing", 0)   \* a valid Part with no content
Gone == Of("caller", 0)     \* a Part that is not valid

Current == Len(composed) + 1
Message == [reply : Nat, parts : Seq(Id), closed : BOOLEAN]
Composed == [parts : Seq(Id), intact : BOOLEAN, clean : BOOLEAN,
             failed : BOOLEAN, deleted : BOOLEAN]

ReplyTypeOK ==
  /\ TypeOK
  /\ source \in Seq([part : Id, more : BOOLEAN]) /\ rcvmore \in BOOLEAN
  /\ relaying \in BOOLEAN
  /\ routing \in [1 .. envelope -> BOOLEAN]
  /\ content \in Seq(Id) /\ Len(content) = offered /\ inserted \in Seq(Id)
  /\ queues \in Seq([reply : Nat, parts : Seq(Id)])
  /\ sending \in Nat /\ (queues = <<>> => sending = 0)
  /\ peers \in Seq(Message)
  /\ intact \in BOOLEAN /\ composed \in Seq(Composed)
  /\ seen \subseteq (Nat \X Id)
  /\ relayed \in Seq(Id) /\ copied \subseteq Id /\ released \subseteq Id

ReplyInit ==
  /\ Init
  /\ \E n \in Tails :
       /\ source = [i \in 1 .. n + 1 |->
                      IF i <= n THEN [part |-> Of("tail", i), more |-> i < n]
                                ELSE [part |-> Of("next", 1), more |-> FALSE]]
       /\ rcvmore = (n > 0)
  /\ relaying = FALSE
  /\ routing = [n \in 1 .. envelope |-> TRUE]
  /\ content = <<>> /\ inserted = <<>>
  /\ queues = <<>> /\ sending = 0 /\ peers = <<>>
  /\ intact = TRUE /\ composed = <<>>
  /\ seen = {} /\ relayed = <<>> /\ copied = {} /\ released = {}

-----------------------------------------------------------------------------
(* Composing a reply: the insertions of Sink, and what they insert.         *)

\* Seeded fault: a part offered after the flush is counted.
Insertion_always(part) ==
  /\ content' = Append(content, part)
  /\ inserted' = IF part = Gone THEN inserted ELSE Append(inserted, part)

\* Sink counts an insertion unless it is FLUSHED; so does content.
Insertion(part) ==
  /\ content' = IF state = "FLUSHED" THEN content ELSE Append(content, part)
  /\ inserted' = IF state = "FLUSHED" \/ part = Gone THEN inserted
                 ELSE Append(inserted, part)

Copy == "COPY_INCOMING" \in options

\* Seeded fault: a moved part of the envelope stays valid in the Incoming.
RoutingAfter_shared(n) == routing

\* Part::move leaves the source invalid.
RoutingAfter(n) ==
  IF ~Copy /\ routing[n] /\ Moved(NewPart)
  THEN [routing EXCEPT ![n] = FALSE] ELSE routing

\* One iteration of send_routing, with the envelope of the Incoming: nothing
\* asks whether its parts are valid.  A copy of an invalid part is an empty
\* one, and an invalid part goes into cached_ as it is.
ReplyRouting ==
  /\ phase = "ctor"
  /\ LET n == NewPart IN
       /\ send_owned(IF routing[n] \/ Copy THEN n ELSE NoPart)
       /\ Insertion(IF routing[n] THEN Of("routing", n)
                    ELSE IF Copy THEN Empty ELSE Gone)
       /\ routing' = RoutingAfter(n)
       /\ copied' = IF Copy THEN copied \cup {Of("routing", n)} ELSE copied
  /\ UNCHANGED <<incoming, source, rcvmore, relaying, resend, intact, composed,
                 seen, relayed, released>>

Composing == phase = "open" /\ ~relaying

\* "egress << ingress[i]", an iteration of send_incoming_messages.
ReplyLinked(i) ==
  /\ Composing /\ incoming[i]
  /\ InsertLinked(i)
  /\ Insertion(Of("request", i))
  /\ copied' = IF Copy THEN copied \cup {Of("request", i)} ELSE copied
  /\ UNCHANGED <<request, resend, intact, composed, seen, relayed, released>>

\* send_incoming_messages reaches a part that is gone: NoSuchPartError leaves a
\* function declared throw(ZmqErrorType), which ends the program.
LinkedGone(i) ==
  /\ Composing /\ ~incoming[i]
  /\ phase' = "aborted"
  /\ UNCHANGED <<config, state, cached, outgoing_queue, pending_routing_parts,
                 incoming, detached, socket, observer, history, request,
                 composition, resend, past>>

ReplyOwn ==
  /\ Composing
  /\ Insert
  /\ Insertion(Of("caller", NewPart))
  /\ UNCHANGED <<request, resend, past>>

\* Seeded fault: the loop of relay_from runs once before it asks has_more.
MayRelay_first == rcvmore \/ ~relaying

\* "for (bool more = has_more(relay_src); more; )"
MayRelay == rcvmore

\* Sink raised: the part in relay_from's hands is in none of its slots.
Raised(part) ==
  ~Moved(part) /\ state' \notin {"DROPPING", "FLUSHED"} /\ phase' # "aborted"

\* One iteration of relay_from; an exception ends the loop and destroys the
\* part that was just received.
RelayFrom ==
  /\ phase = "open" /\ MayRelay /\ source # <<>>
  /\ LET frame == Head(source) IN
       /\ source' = Tail(source)
       /\ rcvmore' = frame.more
       /\ relayed' = Append(relayed, frame.part)
       /\ send_owned(NewPart)
       /\ Insertion(frame.part)
       /\ relaying' = (frame.more /\ ~Raised(NewPart))
  /\ UNCHANGED <<incoming, routing, resend, intact, composed, seen, copied,
                 released>>

ReplyFlush ==
  /\ Composing
  /\ Flush
  /\ UNCHANGED <<composition, request, resend, past>>

\* What a slot of the Sink holds: nothing, an invalid Part, or the part of an
\* insertion.
PartOf(slot) == IF slot = NoPart THEN Gone ELSE content[slot]

\* Seeded fault: the queue is handed over from its end.
QueueOf_reversed(slots) ==
  [i \in DOMAIN slots |-> PartOf(slots[Len(slots) + 1 - i])]

QueueOf(slots) == [i \in DOMAIN slots |-> PartOf(slots[i])]

\* The worker asks is_queued() after the flush and detaches.
ReplyDetach ==
  /\ Composing
  /\ Detach
  /\ queues' = Append(queues, [reply |-> Current,
                               parts |-> QueueOf(outgoing_queue)])
  /\ UNCHANGED <<composition, request, sending, peers, past>>

\* The destructor of the Outgoing.  Its frames are a message of dst_.
ReplyDestroy ==
  /\ ~relaying
  /\ Destroy
  /\ peers' = IF wire' = <<>> THEN peers
              ELSE Append(peers, [reply |-> Current,
                                  parts |-> [i \in DOMAIN wire' |->
                                               content[wire'[i].part]],
                                  closed |-> Terminated'])
  /\ composed' = Append(composed,
       [parts |-> inserted, intact |-> intact, clean |-> mishaps' = {},
        failed |-> "error" \in mishaps', deleted |-> outgoing_queue' # <<>>])
  /\ seen' = seen \cup {<<Current, content[notified'[i]]>> : i \in DOMAIN notified'}
  /\ UNCHANGED <<composition, request, queues, sending, intact, relayed, copied,
                 released>>

\* The worker has no Outgoing and is not in send().
Between == phase = "dead" /\ sending = 0

\* The next Outgoing for the same request.
NextReply ==
  /\ Between /\ Len(composed) < MaxReplies
  /\ options' \in OptionSets
  /\ phase' = IF envelope > 0 THEN "ctor" ELSE "open"
  /\ state' = "NOTSENT" /\ cached' = NoPart
  /\ outgoing_queue' = <<>> /\ pending_routing_parts' = 0 /\ detached' = <<>>
  /\ wire' = <<>> /\ notified' = <<>> /\ flushes' = 0
  /\ offered' = 0 /\ reused' = FALSE /\ mishaps' = {}
  /\ content' = <<>> /\ inserted' = <<>>
  /\ intact' = (\A n \in 1 .. envelope : routing[n])
  /\ UNCHANGED <<envelope, incoming, ctx_term, request, resend, composed, seen,
                 relayed, copied, released>>

-----------------------------------------------------------------------------
(* send(): one step per part.  dst_ may refuse only the first, as in Sink.  *)

\* The worker took queue.back() and is in the loop of send().
Resending == phase = "dead" /\ queues # <<>>
Newest == Last(queues)
NextPart == Newest.parts[sending + 1]
LastPart == sending + 1 = Len(Newest.parts)

ResendResults ==
  IF ctx_term THEN {"error"}
  ELSE IF sending > 0 THEN {"ok"} ELSE {"ok", "again", "error"}

\* Seeded fault: the observer is told of the first part only.
Notify_first ==
  seen' = IF sending = 0 THEN seen \cup {<<Newest.reply, NextPart>>} ELSE seen

\* on_send_part comes before send_msg, for any part.
Notify == seen' = seen \cup {<<Newest.reply, NextPart>>}

\* The message that send() has begun, with the part it sends now.
Resent ==
  [reply |-> Newest.reply, closed |-> LastPart,
   parts |-> IF sending = 0 THEN <<NextPart>>
             ELSE Append(peers[Len(peers)].parts, NextPart)]

\* Seeded fault: the loop of send() ends before the last part.
ResendDone_early == sending + 2 >= Len(Newest.parts)

\* zmq_send empties the Part and leaves it valid.  The worker deletes a queue
\* that was sent.
ResendDone == LastPart
Sent == [queues EXCEPT ![Len(queues)].parts[sending + 1] = Empty]

ResendPart ==
  /\ Resending /\ NextPart # Gone
  /\ "ok" \in ResendResults
  /\ Notify
  /\ peers' = IF sending = 0 THEN Append(peers, Resent)
              ELSE [peers EXCEPT ![Len(peers)] = Resent]
  /\ sending' = IF ResendDone THEN 0 ELSE sending + 1
  /\ queues' = IF ResendDone THEN Front(queues) ELSE Sent
  /\ UNCHANGED <<vars, request, composition, intact, composed, relayed, copied,
                 released>>

\* send() throws: the auto_ptr deletes the queue, and the worker's handler
\* ends the process.
ResendFails ==
  /\ Resending /\ NextPart # Gone /\ ResendResults # {"ok"}
  /\ Notify
  /\ phase' = "aborted"
  /\ queues' = Front(queues) /\ sending' = 0
  /\ UNCHANGED <<config, state, cached, outgoing_queue, pending_routing_parts,
                 incoming, detached, socket, observer, history, request,
                 composition, peers, intact, composed, relayed, copied,
                 released>>

\* multipart[i] throws NoSuchPartError out of send(), as in LinkedGone.
ResendGone ==
  /\ Resending /\ NextPart = Gone
  /\ phase' = "aborted"
  /\ UNCHANGED <<config, state, cached, outgoing_queue, pending_routing_parts,
                 incoming, detached, socket, observer, history, request,
                 composition, resend, past>>

-----------------------------------------------------------------------------
(* The worker takes a part out of the request or out of a queue.            *)

Release ==
  /\ Between /\ Cardinality(released) < MaxReleases
  /\ \/ \E i \in Linked :
          /\ incoming[i]
          /\ incoming' = [incoming EXCEPT ![i] = FALSE]
          /\ released' = released \cup {Of("request", i)}
          /\ UNCHANGED queues
     \/ \E q \in DOMAIN queues : \E i \in DOMAIN queues[q].parts :
          /\ queues[q].parts[i] \notin {Gone, Empty}
          /\ queues' = [queues EXCEPT ![q].parts[i] = Gone]
          /\ released' = released \cup {queues[q].parts[i]}
          /\ UNCHANGED incoming
  /\ UNCHANGED <<config, phase, state, cached, outgoing_queue,
                 pending_routing_parts, detached, socket, observer, history,
                 request, composition, sending, peers, intact, composed, seen,
                 relayed, copied>>

ReplyTerminate == Terminate /\ UNCHANGED <<request, composition, resend, past>>

ReplyNext ==
  \/ ReplyRouting
  \/ \E i \in Linked : ReplyLinked(i) \/ LinkedGone(i)
  \/ ReplyOwn \/ RelayFrom
  \/ ReplyFlush \/ ReplyDetach \/ ReplyDestroy \/ NextReply
  \/ ResendPart \/ ResendFails \/ ResendGone
  \/ Release
  \/ ReplyTerminate

ReplySpec == ReplyInit /\ [][ReplyNext]_replyVars

-----------------------------------------------------------------------------
(* Properties.                                                              *)

Delivered == {m \in DOMAIN peers : peers[m].closed}

\* A finished Outgoing whose calls all returned and that was not dropped has
\* one fate: its message has reached dst_ once, with every valid part that was
\* inserted and in that order, or the worker still keeps it, or it was deleted
\* because nobody detached it (Sink.hpp 136).  No release() and no reply made
\* in between splits it, doubles it or loses it, and dst_ is in the middle of a
\* message only while send() is in its loop or the context has gone.  When the
\* process ends, what it kept is lost with it; what dst_ has stays whole.
WholeReplies ==
  /\ \A m \in Delivered : composed[peers[m].reply].clean =>
       peers[m].parts = composed[peers[m].reply].parts
  /\ phase # "aborted" =>
     \A r \in DOMAIN composed : composed[r].clean /\ composed[r].parts # <<>> =>
       Cardinality({m \in Delivered : peers[m].reply = r})
       + Cardinality({q \in DOMAIN queues : queues[q].reply = r})
         = IF composed[r].deleted THEN 0 ELSE 1
  /\ \A m \in DOMAIN peers \ Delivered :
       m = Len(peers) /\ (sending > 0 \/ ctx_term)

\* The constructor sends or queues all of a longer envelope or throws, but it only
\* caches a lone routing part: the first insertion of the caller sends it, and
\* when that fails try_send_first_cached marks it invalid (FI 310).  The caller
\* who goes on then composes a message without an envelope.
WholeEnvelope(r) ==
  composed[r].intact /\ (envelope # 1 \/ ~composed[r].failed)

\* A message that has payload starts with the whole envelope, if the Incoming
\* still had it when the Outgoing was created, whatever way the message took.
\* (An earlier reply without COPY_INCOMING moves the envelope out: FI 173.)
EnvelopeFirst ==
  \A m \in Delivered :
    WholeEnvelope(peers[m].reply)
      /\ (\E i \in DOMAIN peers[m].parts : peers[m].parts[i].from # "routing") =>
      /\ Len(peers[m].parts) > envelope
      /\ \A n \in 1 .. envelope : peers[m].parts[n] = Of("routing", n)

\* Where a part is now: in the Incoming, in the Outgoing that is alive, with a
\* peer, in a queue of the worker, or in the worker's hands.
At(name, n, parts, part) == {<<name, n, i>> : i \in {j \in DOMAIN parts : parts[j] = part}}

Places(part) ==
  {<<"routing", n, 0>> : n \in {k \in 1 .. envelope :
                                  routing[k] /\ part = Of("routing", k)}}
  \cup {<<"request", i, 0>> : i \in {k \in Linked :
                                       incoming[k] /\ part = Of("request", k)}}
  \cup {<<"released", 0, 0>> : r \in released \cap {part}}
  \cup (IF phase \in {"dead", "aborted"} THEN {}
        ELSE At("wire", 0, [i \in DOMAIN wire |-> content[wire[i].part]], part)
             \cup At("queue", 0, QueueOf(outgoing_queue), part)
             \cup At("cached", 0, QueueOf(<<cached>>), part))
  \cup (UNION {At("peer", m, peers[m].parts, part) : m \in DOMAIN peers})
  \cup (UNION {At("kept", q, queues[q].parts, part) : q \in DOMAIN queues})

\* A part of the request that was never inserted as a copy is in one place at
\* most: two replies, or a reply and release(), do not both have it.
OnePlace ==
  \A part \in {Of("routing", n) : n \in 1 .. envelope}
              \cup {Of("request", i) : i \in Linked} :
    part \notin copied => Cardinality(Places(part)) <= 1

\* Every payload part that a peer received was shown to the observer, also
\* when the message was queued first or an earlier insertion threw.  (A
\* routing part that is invalid, or lost in a failed send, is counted and never
\* sent, so that a reply without its envelope hides as many payload parts.)
Observed ==
  \A m \in Delivered : \A i \in DOMAIN peers[m].parts :
    WholeEnvelope(peers[m].reply) /\ peers[m].parts[i].from # "routing" =>
      <<peers[m].reply, peers[m].parts[i]>> \in seen

\* However often relay_from is called, and whatever threw in it, it takes the
\* rest of the request in order and never a part of the next message.
RelayStops == \A i \in DOMAIN relayed : relayed[i] = Of("tail", i)
=============================================================================
