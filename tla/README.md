# Verification of ZmqMessage

ZmqMessage is a C++ library for composing, sending, receiving and resending multipart
0MQ messages. This directory holds TLA+ models of it, the TLC configurations that check
them, and machine-checked proofs of the properties that matter most. Source files are
abbreviated as follows, in this text and in the modules:

| short | file |
|---|---|
| FI | `src/include/zmqmessage/ZmqMessageFullImpl.hpp` |
| TI | `src/include/zmqmessage/ZmqMessageTemplateImpl.hpp` |
| other `*.hpp` | `src/include/zmqmessage/` (`ZmqTools.hpp`: `src/include/`) |

## 1. Inventory

The library has no threads of its own. Each object belongs to one thread and works on one
or two sockets; what makes it hard is the order of calls, what is left behind when one of
them throws, and a socket that says "would block" at the first part of a message and never
again. Concurrency enters through peers, context termination, and the examples.

| component | state | operations | hard behaviour | what makes it correct |
|---|---|---|---|---|
| `Sink` / `Outgoing<RoutingPolicy>` (Sink.hpp, Outgoing.hpp, FI 146-507) | `state_` (NOTSENT, SENDING, QUEUEING, DROPPING, FLUSHED), `cached_`, `outgoing_queue_`, `pending_routing_parts_`, `incoming_`, `options_` | constructor with `send_routing`, `operator<<`, `send_incoming_messages`, `relay_from`, `flush`, `detach`, destructor | the first send decides for the whole message; exceptions in the middle; the destructor flushes; parts are moved, not copied | a message is sent, queued or dropped as a whole; framing; order; the observer is told the truth |
| `Incoming<RoutingPolicy, Storage>` (Incoming.hpp, TI 125-397) | parts, routing parts, `is_terminal_`, `cur_extract_idx_` | `receive`, `receive_all`, `receive_up_to`, `fetch_tail`, `drop_tail`, `operator>>`, `Skip` | malformed messages, full storage, interrupted `recv`, calling on after an exception | parts of one message only, none lost, `is_terminal_` agrees with the socket |
| `XRouting`, `SimpleRouting` (Routing.hpp, FI 91-129) | the envelope, at most `ZMQMESSAGE_ROUTING_CAPACITY` parts | `receive_routing`, `get_routing` | envelope without end, or with nothing behind it | the envelope is apart from the payload and goes back with the reply |
| `Part` (Part.hpp) | `message_t`, `valid_` | `copy`, `move`, `mark_invalid` | copy construction moves | one owner per part |
| storages (PartsStorage.hpp, MultipartContainer.hpp, TI 43-123) | `parts_`, `size_`, `capacity_` | `next`, `detach` | growth moves live parts; limits | no part is lost by growth, nothing is written past the end |
| `send()` (FI 20-39) | none | resend of a detached queue | throws before or between two parts | the message goes out whole, after the envelope |
| socket primitives (ZmqTools.hpp 425-489, ZmqToolsFullImpl.hpp) | none | `send_msg`, `recv_msg`, `try_recv_msg`, `has_more`, `relay_raw` | `has_more` is about the last part taken, whoever took it | a relay keeps message boundaries |
| conversions (ZmqTools.hpp, MetaTypes.hpp, RawMessage.hpp, Manip.hpp) | text or binary mode | `get`, `init_msg`, `msgcmp`, the iterators | both sides must choose the same form | a round trip is the identity |
| `zasync` (examples) | delayed queue, running tasks | poll loop of the worker, the main thread | high water marks, priorities of the poll loop, stop | every request is answered, no deadlock |
| `zsort`, `zbisort` (examples) | REQ/REP lock step, a list in each thread's hands | relay and sorters | a one-part message ends a worker; every thread waits for another | the answer is the sorted list; all threads end |
| `zqueue`, `zserialize`, build, tests | | | | not modelled, see section 6 |

Interaction: `Outgoing` calls the primitives; a reply moves parts and the envelope out of an
`Incoming`; `detach()` hands the queue to the caller, who gives it to `send()`; observers are
called back in the middle of a send or receive.

`PROJECT.json` lists under `hazards` the places where this can go wrong, with the property that watches each
or the reason why none does.

## 2. Modules

| module | models | extends |
|---|---|---|
| `Sink` | one outgoing message and its socket | |
| `Delivery` | the promise of an Outgoing, as an atomic specification | |
| `SinkDelivery` | the refinement mapping from `Sink` to `Delivery` | `Sink` |
| `SinkClaims` | statements of comments and documentation that `Sink` breaks | `Sink` |
| `SinkProofs` | the inductive invariant of `Sink`, what its observer is told, and its theorems | `Sink`, `TLAPS` |
| `SinkDeliveryProofs` | the refinement of `Delivery`, step by step | `SinkDelivery`, `SinkProofs` |
| `Incoming` | incoming messages on one socket | |
| `IncomingProofs` | the inductive invariant of `Incoming` and its theorems | `Incoming`, `TLAPS` |
| `IncomingClaims` | statements of comments and documentation that `Incoming` breaks | `Incoming` |
| `PartsStorage` | the memory of DynamicPartsStorage: growth, detach, release, destruction | |
| `Parts` | the list a storage promises, without memory | |
| `PartsStorageProofs` | invariants of the memory and the refinement of `Parts` | `PartsStorage`, `TLAPS` |
| `Async` | zasync: the main thread, the worker, their sockets and the delayed queue | |
| `AsyncProofs` | invariants of `Async`: back pressure, every request in one place, how much fits | `Async`, `TLAPS` |
| `Bisort` | zbisort: main, relay and the two sorters | |
| `BisortProofs` | the inductive invariant of `Bisort` and its theorems | `Bisort`, `TLAPS` |
| `Reply` | the replies to one request: the Incoming, the Outgoing objects, `relay_from`, the detached queues and `send()` | `Sink` |
| `ReplyClaims` | a statement of a comment that `Reply` breaks | `Reply` |
| `ReplyProofs` | the inductive invariant of `Reply` over all replies, and its theorems | `Reply`, `SinkProofs` |
| `Codec` | what becomes of a value between `operator<<` and `operator>>` | |
| `CodecProofs` | `get` undoes `init_msg`, `msgcmp` is an order, for all constants | `Codec`, `TLAPS` |
| `CodecClaims` | a statement of a comment that `Codec` breaks | `Codec` |
| `MC*` | instances for TLC | |

`Sink` and `Incoming` are about one object and its socket in full detail. `Async` and `Bisort` are the
level above: they use what `Sink` and `Incoming` show (a message is sent, queued or refused as a whole;
parts of one message only) and are about threads. `PartsStorage` is the level below: `Incoming` uses the
list that `Parts` promises, and the queue of a `Sink` is one too. `Reply` composes: it extends `Sink` with the
Incoming a reply is linked to and with what happens to the queue afterwards. `Codec` is beside them: the bytes
of a part, which no other module looks at.

### Sink

The variables are the fields of the class, with `phase` for where the object is in its life
and history variables (`offered`, `reused`, `mishaps`) that only the properties read. A part is
the number of its insertion, so "the message is whole and in order" reads
`wire[i].part = i`; a `Part` that is not `valid()` is `NoPart`. `send_owned` (FI 364) is the
disjunction of its switch cases, one operator each; every insertion of the class ends in it:
`SendRouting` for the constructor (one step per iteration of `send_routing`), `Insert` for a
value or a foreign part, `InsertLinked` for a part of the linked message, which is copied or
disowned. An iteration of `send_incoming_messages` is an `InsertLinked`, and one of
`relay_from` an `Insert`. A call that throws is an action too: it leaves the state as the code
leaves it. From the constructor the exception unwinds to the destructor; elsewhere the caller may
go on or let the object die, both are modelled.

The socket is external: 0MQ takes a message whole, so only the first part of a message can
block (`SendResults`). `Faults` names what the environment and the caller may do: `error`
(a failing first send, `EINTR` or `EFSM`), `term` (the context goes away), `reuse` (a reference to a
Part that has already been moved is inserted), `early` (detach before flush). The part's bytes,
the text or binary mode and logging are left out.

### Incoming

Each step takes at most one part off the socket, so messages arrive between any two parts and any
blocking `recv` may be interrupted. `call` is the program counter of the loops of `receive`,
`receive_all`, `receive_up_to`, `fetch_tail` and `drop_tail`; `rcvmore` is `ZMQ_RCVMORE`, the
flag of the last part taken. The message shapes include the two malformed ones: an envelope that
never ends and one with nothing after it. `Phantom` is the part `next()` has counted and a
throwing `recv` has not filled. History variables record what was taken and shown to the observer,
and whether the caller went on after an end it knew of (`past_end`, `drained`): the properties that
need a caller who stops there say so.

### Delivery

What the class comment of `Outgoing` promises, with one step per decision: `Send`, `Queue` or
`Drop` for all parts at once, then `HandOver`. `SinkDelivery` maps a Sink to it: a peer has
received a message when its last frame is on the wire and not before.

### PartsStorage and Parts

The two objects are the Incoming or Sink that the storage is a base of (`own`) and the Multipart that
`detach()` makes (`detached`); `parts`, `capacity` and `size` are the fields of each. `blocks` is what the
allocator has handed out and `mem` the cells of each block: raw memory, a Part that is not valid, or a Part
with a message. `Add` is `next()` together with what its three callers do to the part (a message is received
into it, a `recv` that throws leaves it empty, or a queued part is moved into it). `Grown` is the whole of
the growth: two blocks exist in the middle of it, which is why the allocator needs a free one.
`Release` moves, since "return (*parts_ptr_)[i]" copies a Part and copying a Part moves it.

`Parts` is the list with the operations of a Multipart. The refinement maps `contents[o]` to the first `size[o]`
cells: an index and a message survive growth and `detach()`.

### Async

One action per blocking call or iteration of the two threads. `req` and `res` are the two sockets with
their high water marks; `tasks`, with the counter of each and the iterator `it`, and `queue` are those of
the worker. `Poll` evaluates the interest set (which depends on `queue`) and keeps its result in `ready`
while main goes on, so a handler acts on what poll saw and not on what is true. Main's sleeps promise
nothing about the worker; the variable `paced` says whether in a behaviour they outlast what they wait for,
which is what the assertion at zasync.cpp 270 counts on. The tasks and the queue are locals of the worker: `HandleStop`
empties them, and `lost` keeps what was in them. Both kinds of behaviour are checked, and the
properties that need the sleeps name `paced`.

### Reply

`Sink` knows a part by the number of its insertion; `content` says which part of the request that was, and so a
part can be followed from the Incoming through `cached_`, the queue and `send()` to the peer, over several
Outgoing objects. Every action on an Outgoing is the one of `Sink` in conjunction with what it does to the
request: `ReplyRouting` takes the envelope from the Incoming as it is now (`routing` says which parts
of it are still valid; an earlier reply without COPY_INCOMING has moved them out), `RelayFrom` is one iteration
of the loop with the receive before the insertion, `ReplyDestroy` hands what is on the wire to `peers`.
`LinkedGone` and `ResendGone` are the two places where NoSuchPartError leaves a function declared
`throw(ZmqErrorType)`, which ends the process ("aborted").

`send()` is one step per part (`ResendPart`), since context termination falls between two of them. As in zasync (177-183)
the newest queue is taken, and deleted once it is sent; `ResendFails` is the exception, which deletes it too and ends
the process in the worker's handler. Nothing in the repository calls `send()` again for a queue it has thrown on. The
order of calls is the examples': one Outgoing lives at a time, a queue is detached after the flush, and `send()` is
called between two replies (`Between`, `Composing`). Two facts of the code that the properties name instead of hiding:
a second reply without COPY_INCOMING goes out without its envelope, and one with COPY_INCOMING
after such a reply with empty parts in its place (`intact` records that neither is the case); and a queue whose part
was released cannot be sent any more, which ends the process.

### Codec

A byte is one of four, an integer two of them; that is enough to tell a text from an object image and a string with a
null character from one without. `WriteForm` and `ReadForm` are the overload resolution of
`init_msg` and `get` with the traits `IsStr` and `IsRaw`: the mode is asked before the type, so in Binary mode every
type goes as an image, strings, literals and types declared as text included. `Bytes` and `Value` are sets,
since the image of a string object holds an address, and reading a part that is shorter than the type reads past its end;
`{}` stands for a value that could be anything, as it does for a number that does not fit. `RoundTrip` says under which agreement of the two sides (`Agreed`) a value
comes back; the agreement is what the library leaves to its users, and it is the same for extraction, for
iterators and for any switching of modes in between. `SetCur` leaves out the branch `cur_ = T()` of
TI 36, which cannot be reached: `operator[]` throws first.

### Bisort

A link is a pair of message sequences, and `pc` says where each of the four threads is. Relay moves a list part by
part, as `relay_from` and `relay_raw` do, and the message is on the link once its last part is. Lists hold
at least one element, as main's do. With an empty list relay would send its own element alone, the sorter would
take that for the termination marker and relay would wait for ever: the marker is told from a list by its
length only, and `LeavesOnStop` is the property that says it suffices here.

## 3. Runs

| run | question | result |
|---|---|---|
| `sink` | all 32 option sets, envelopes of 0, 1 and 2 parts, every fault | holds |
| `sink_delivery` | does a Sink implement `Delivery` when nothing fails, and is every message decided unless its first send blocks for ever? | holds |
| `parts_storage` | a capacity of 1 that grows twice, three blocks, five parts, every order of release, detach and destruction | holds |
| `async` | every interleaving of main and worker, with and without sleeps that outlast the work | holds |
| `bisort` | two lists of up to three elements in either mode; deadlock is checked here | holds |
| `reply` | two replies to one request with an envelope of one or two parts, which copy, move and relay its parts, block, fail, are detached, resent and released from | holds |
| `codec` | two parts of any type in either mode, read twice as any type in either mode, by extraction or an iterator | holds |
| `incoming` | two Incoming objects over two messages of five shapes, storages that run full, one interruption | holds |
| `claim_flushed` | FLUSHED means "all messages are sent or queued" (Sink.hpp 152) | violated |
| `claim_one_message` | "message consistency when receiving (if number of parts to be received is known in advance)" (README 6) for a receive of two parts and an envelope with nothing behind it | violated |
| `claim_observer` | "Next message part (excluding routing parts) is about to be sent" (Observers.hpp 49) for a queue that `send()` resends | violated |
| `claim_text_type` | "in text mode, independent of current stream state" (MetaTypes.hpp 92) for a type declared with ZMQMESSAGE_TEXT_TYPE | violated |

Disagreements of the same kind that have no run of their own:

- After the send of a routing part fails and the caller goes on, the observer is not told of the next payload
  part (FI 276; Observers.hpp 49 says it is told of every one). `ObserverExact` holds for callers who stop.
- An interrupted `recv` leaves a part in the storage that was never received (TI 184), and `size()` counts it
  (Multipart.hpp 58). `NothingLost` is stated for what was received.
- `drop_tail` and `fetch_tail` read to the end and leave `is_terminal()` false (TI 373; Incoming.hpp 122
  says it is true then). `TerminalAccurate` is about the receives.
- An insertion that throws because the first send would block (NONBLOCK alone) leaves the part in `cached_`, and the
  destructor sends it as a complete message (FI 499), although Outgoing.hpp 19 says all parts are sent or owned.
- A Part that is inserted twice without COPY_INCOMING leaves an empty `cached_`, and `flush()` sends no final
  part (FI 424); doc_pages.hpp 548 says it does. `Framing` is stated so that it allows for this.
- `detach()` before `flush()` makes the next insertion fail `assert(outgoing_queue_.get())` (FI 404); Sink.hpp 251 only says
  the queue is set to 0.
- The worker of zasync leaves its loop on the stop message with answers still delayed (zasync.cpp 175), of which
  doc_pages.hpp 76-78 says that they "MUST be delivered when possible". `ExactlyOnce` bounds what is lost, running tasks included, by two.
- Outgoing.hpp 63 says "we resend Incoming's routing first"; a second reply has none to send, see `Reply`. And an envelope of
  one part is only cached by the constructor: when the insertion that sends it throws (FI 310), the part is marked invalid, and a worker
  that goes on with the same Outgoing replies without it. TLC finds this when `WholeEnvelope` is left out of `EnvelopeFirst` and the envelope has one part.
- `relay_from` loses the part it holds when the insertion throws (FI 491); `RelayStops` says that this is all it loses.
- A caller who repeats `send()` on a queue it has thrown on notifies the observer again, and sends the parts that had left as empty
  ones (FI 31-34). No program in the repository does.
- A `receive_routing` that threw half-way is skipped by the next `receive` (FI 95), which takes the rest of the envelope for payload;
  `EnvelopeApart` leaves such an Incoming out.
- Incoming.hpp 323 says that Binary mode is about "non-string data"; a string is read as the image of its object.
- zasync.cpp 272 says "read all" and the loop reads two answers fewer than there are.

Deadlock checking is off where the system may stop: a destroyed object, a reader with nothing left to
read and no bound left, a program that has ended. `bisort` checks it: there only the state in which all
four threads have ended may be without a step (`Exited`).

What the passing runs say:

- `Sink`: `NeverSplit` (no part of a message is on the wire when another one is queued or the message is
  dropped), `Framing`, `InOrder` (also across exceptions), `BoundaryAtEnd` (whatever threw, the
  destructor leaves the socket between two messages), `ObserverExact` (the observer saw each payload part of a flushed
  message, once and in order, and one `on_flush`) and `NoOrphan` (a linked part never disappears between its two owners).
- `SinkDelivery`: the refinement `Implements`, and `DecidedInTheEnd`: a message is decided, or its first part waits for ever.
- `Incoming`: `OneMessage`, `NothingLost`, `TerminalAccurate`, `EnvelopeApart`, `EndsAtBoundary` and the
  liveness property `NeedsNoPeer`.
- `Reply`: `WholeReplies` (until the process ends, each finished reply has one fate and reaches the peer once, whole and in order,
  whatever was queued, resent or released in between), `EnvelopeFirst`, `OnePlace` (two replies, or a reply and `release()`,
  never both have a part), `Observed`, and `RelayStops` (what relay_from takes is the rest of its message in order, behind a part
  that was lost as well).
- `Codec`: `RoundTrip` and `MsgcmpOrders` (the sign of `msgcmp` is that of the dictionary order, as long as the
  difference of the lengths fits an int).
- `PartsStorage`: `MemorySound` (what is allocated is owned once and given back with its size, and each Part in it is
  constructed and destroyed once), `OnePlace` and the refinement `Implements`.
- `Async`: `ExactlyOnce` (no request is doubled; the stop loses two at most, when main has all it reads),
  `SendNeverBlocks` (the room that poll saw is still there), `TakesOnlyWhenEmpty`,
  `EndsNormally` and `Finishes`.
- `Bisort`: `AnswerIsSorted`, `LockStep`, `LeavesOnStop` and `Terminates`.

Each of these is tested against a seeded fault (the operators marked "Seeded fault" in the
modules): with it TLC must find the property violated.

### Bounds

- `MaxParts` = 4 (5 in `sink_delivery`): the state machine distinguishes the first part, the
  second, which decides, and the later ones; an envelope of two parts leaves two payload parts. All of
  the code's conditions look at the last part only, and the theorems below hold for any bound.
- `MaxNotified` bounds how often a throwing `flush` is retried.
- `Incoming`: messages of up to four parts, capacities 1 and 4, a routing capacity of 2 (the code has
  5) so that an envelope can be too long, callers that ask for 0, 1 or 2 parts at a time, two objects
  and two messages so that one object can disturb the next.
- `PartsStorage`: a capacity of 1 grows to 2 and 4 with 5 parts, so parts are moved twice, and growth also
  fails for want of a block; the refinement and the invariants are proved for any bound.
- `Async`: a limit of 2, so six requests in the two bursts of main; sockets that hold two requests and three answers, so that
  both fill up; tasks of one and of two rounds, so that they finish out of order.
- `Bisort`: three elements whose order differs between the modes, so that a list sorted by the wrong sorter
  is wrong; two lists, so that the second finds what the first has left behind.

- `Reply`: an envelope of one part (which may be lost in a failed send) or two, one linked part, a source with two parts behind
  the one the worker took, so that the loop of `relay_from` goes round twice and goes on behind a lost part, and the first part of the next
  message after them; three parts per reply (so an envelope and one payload part fit, of any origin), two replies, one release. The
  option sets copy or move the parts and queue what blocks. That is 3 million states; no envelope, longer tails and the other option sets are
  not run here (`sink` runs all option sets and envelopes of 0, 1 and 2, and the theorems hold for all).
- `Codec`: two parts and two reads, so that a mode is switched between them; strings of zero, one, three and five bytes, one with a
  null character and one with more digits than a number has, and a number whose text and image differ; an int of two bits, so that lengths overflow it.

### Fairness

- `SinkDelivery!FairSpec`: weak fairness of `SendRouting` and `Destroy`, but not of a step that is a blocking send of the first
  part (`MayWait`). A constructor runs to its end or throws, and an automatic object is destroyed at the end of its scope; without
  NONBLOCK or EMULATE_BLOCK_SENDS either may wait for ever for a peer, which `DecidedInTheEnd` allows. 0MQ takes the later parts
  of a message that it has begun.
- `Incoming!FairSpec`: weak fairness of `Read`, the thread in the middle of a call. It is not enabled
  while the socket is empty unless the call is interrupted, so no message has to arrive.
- `Async!Spec` and `Bisort!Spec`: weak fairness of each thread as a whole. The operating system schedules every
  thread; which of its enabled steps a thread takes is not constrained.

## 4. Proofs

`SinkProofs` proves, for every set of options, envelopes, linked parts, faults and every bound:

- `TypeCorrect`: `Spec => []TypeOK`;
- `Inductive`: `Spec => []IInv`, the inductive invariant;
- `NeverSplitThm`, `FramingThm`, `InOrderThm`, `BoundaryThm`: the properties of the same names;
- `NoOrphanThm`: the action property `NoOrphan`, from how each case of `send_owned` places a part that is inserted.

None of the properties is inductive by itself. `IInv` is `TypeOK`, `PlaceInv` (which of wire, queue, cached
slot and caller can hold parts in each value of `state`), `HeldInv` (a message that is being sent keeps a
part back until `flush`, and is closed by it), `Framing` and `OrderInv` (`InOrder`, and no part anywhere is
newer than the last one offered). `NeverSplit` follows from `PlaceInv`; `Framing` needs it too, since only the state
FLUSHED keeps anything from following the last frame; `BoundaryAtEnd` is `HeldInv` at the destructor. Each action
is split into its disjuncts, and each disjunct proves one conjunct at a time. The assumptions are the four
`ASSUME`s of `Sink`, which say only that the constants have their types.

`ObserverThm` (`ObserverExact`) has a second invariant on top of `IInv`. `ObserverInv` says that the envelope is complete when the
constructor is left without an exception (`CtorInv`), that a routing part in the cached slot is still counted as pending
(`RoutingInv`), that `on_flush` was called once if the state is FLUSHED and not otherwise (`FlushedInv`), and that while
nothing has gone wrong every part but the held one is on the wire and what the observer was told is its payload (`GoodInv`).

`PartsStorageProofs`, for every capacity above 0, set of blocks and number of parts:

- `TypeCorrect`, `MemoryThm` (`MemorySound`), `OnePlaceThm`;
- `Refinement`: `Spec => Implements`, the storage is the list of `Parts`.

`IInv` adds to these properties that the two objects never own a block each (`Single`), that an object
that does not exist has none (`NoneElse`) and that no cell holds a message that has not come yet
(`Arrived`), without which the next message could already be in a cell and `OnePlace` would not be inductive. `AddEffect`
says what `next()` does whether the block grew or not, so that everything above it is proved once for both. The
refinement has a lemma per action (`AddMaps`, `ReleaseMaps`, `DetachMaps`, `DestroyMaps`).

`AsyncProofs`, for every limit, capacity of the sockets and length of the tasks:

- `TypeCorrect`, `DelayedSendNeverBlocks` (`SendNeverBlocks`) and `BackPressure` (`TakesOnlyWhenEmpty`).

`IInv` adds to the types how many requests main has sent in each of its phases (`PhaseInv`), that a task outside
`run_tasks` has a step left (`StepsInv`), and that what poll saw is still true when it is used (`ReadyInv`): only the
worker adds to `res` and only main takes from it, so room does not vanish, and the other way round for `req`.

`EndsNormallyThm` (`EndsNormally`) has two hypotheses, `ReqCap = Limit` and `ResCap = Limit + 1`, which the run has too. They are
what the comments of main presuppose (zasync.cpp 256, 265): the answers to the first `limit + 2` requests fill `res` and leave one
delayed, and the next `limit` requests fill `req`. With other capacities the assertion at 270 fails or a request before it blocks. `FillInv` says
that until main reads an answer is delayed only when `res` is full, and `Stuck` what the program is like when only main can move:
no task is left, `res` is full, one answer is delayed and every later request is in `req`. `PacedInv` says that sleeps that
outlast the work end in that state.

`ExactlyOnceThm` (`ExactlyOnce`): the elements of all places together are the requests sent so far
and their lengths add up to their number, so no request is in two places or twice in one. Each step moves one request
from the head of one sequence to the tail of another, or a task to the delayed queue; the stop moves what the worker still has
to `lost`. Main publishes the stop when it has `2 * Limit` answers, of `2 * Limit + 2` requests at most, so the same
count says that two are lost at most.

`IncomingProofs`, for any messages, storages, routing capacity and bounds:

- `TypeCorrect`, `OneMessageThm`, `TerminalThm` (`TerminalAccurate`), `EnvelopeThm` (`EnvelopeApart`) and the action
  property `BoundaryThm` (`EndsAtBoundary`).

No `recv` of `receive` asks `has_more` first, so `OneMessage` rests on every path that leads to one. `IInv` says why
it holds: messages are on the socket as a whole and in order (`SocketInv`); a loop is only in a state in which
it may take another part (`CallInv`); as long as the caller was told of no end, the next part is the first one or
ZMQ_RCVMORE is set (`ControlInv`, with `Fresh`), where `is_terminal_` (`TerminalInv`) and the state of the envelope
(`RoutingInv`) are what the caller was told. What `recv` does is one lemma (`RecvEffect`), and what `receive_one` leaves, with
or without an exception, two (`PartReceived`, `PartFailed`), used by both loops.

`NothingLostThm` (`NothingLost`) has a second invariant, `LostInv`. No part on the socket is one that was never received
(`GenuineInv`), so that whatever `recv` yields is counted; until the envelope is complete nothing is shown to the observer, and as
long as no tail function takes parts the storage holds all that was shown (`StoredInv`). How many parts of a storage were received is
a cardinality (`FilledUpTo`), which one more part leaves alone or raises by one (`FilledAppend`).

`CodecProofs`, for any strings, numbers, addresses, width of `int` and number of parts and reads:

- `RoundTripThm` (`RoundTrip`) and `MsgcmpOrdersThm` (`MsgcmpOrders`).

`IInv` says that every part is what one insertion made of its value in the mode of that call (`WellFormed`), and that
the last read is what the bytes of its part say in the form of the read (`ReadOK`), which no later insertion or
switch of a mode changes. The rest is about the operators: `ReadBack` undoes `init_msg` with `get` type by type
(`ImageRead`, `TextParsed`, `ToNullIs`), and `MsgcmpSign` compares `msgcmp` with the dictionary order for any two sequences.
Three of these look for the first place where something is so (a byte that differs, a null character, a mistake in a
scan), which is there by `Least`: the intervals below the members of a set of places have a smallest one. That stands in for
induction. The recursion of `text` has a solution because numbers have at most four digits here (`TextIsFour`).

`SinkDeliveryProofs` proves `Refines`: `Spec => Implements`, under the assumption of `SinkDelivery` that nothing fails (`NoFaults`). The
refinement mapping reads `fate` and `delivered` off the state, and what makes that right is `WholeInv`: nothing went wrong but
a drop (`CalmInv`), and the parts 1 to `offered` are on the wire and in the cached slot, or in the queue, in this order (`PartsInv`).
Every step of a Sink then is an insertion, the decision, the hand-over, or nothing for a reader of `Promised` (`StepPromised`).

`ReplyProofs`, for any envelopes, option sets, linked parts, faults, and numbers of replies and releases:

- `ReplyTypeThm` (`ReplyTypeOK`), `ReplyInductive` (`RInv`), `RelayStopsThm` (`RelayStops`);
- `WholeRepliesThm`, `EnvelopeFirstThm`, `ObservedThm`, `OnePlaceThm`: the properties of the same names.

`Reply` uses the actions of `Sink`, so `ReplyProofs` begins with what each of them does to a composition (an insertion, a flush, or
less) and then has a lemma per invariant and kind of step. `RelayInv` is about the source socket alone: how the frames on it, `rcvmore`
and the parts already relayed fit together. `RInv` has three layers:

- `TypeInv`: the types and `IInv` of `Sink`, which holds for each Outgoing of the worker because `NextReply` starts it as `Init` does;
- `OneInv`, the reply in hand: an invalid part is inserted only in front of everything else (`ShapeInv`; a worker has no other one
  to insert), so that a message being sent always holds a part back (`HeldAlways`); while nothing has failed, the parts inserted are
  those on the wire and in the slot, or those in the queue (`ContentsInv`); the envelope is in front, at each stage on its way
  (`ContentInv`, `EnvInv`), and the observer knows of what has left behind it (`PendingInv`, `ObsLive`);
- `AllInv`, the replies that are finished, until the process ends: a kept queue is what was composed, but for what `send()` has sent of it and `release()` has
  taken (`QueuesFit`), a message that a peer got is what was composed (`PeersFit`, `PeersSeen`), each reply is in one of the
  two once (`OnceInv`, `FatesInv`), and `dst_` is in the middle of the message that `send()` is in the middle of (`PartialInv`).

`OnePlace` counts places, and a count is not preserved step by step. `SpotInv` says instead that two spots of a part are the same
spot, where a spot is a place except that a part in the Sink is at the number of its insertion, wherever the Sink has that. The
invariant of `Sink` that no number is in two slots then makes it `OnePlace`.

`EnvelopeFirst` and `Observed` except an envelope of one part that was lost in a failed send (`WholeEnvelope`). That is not a
weakness of the proof: without the exception the properties are false (see the disagreements in section 3). The constructor sends
all of a longer envelope, queues it or throws.

`BisortProofs`, for any lists:

- `TypeCorrect`, `AnswerThm` (`AnswerIsSorted`), `LockStepThm` (`LockStep`) and `LeavesThm` (`LeavesOnStop`).

There is one request in the program at any time. The invariant says, for each place it can be in (main, relay before and after it
learnt the mode, a link to a sorter, the sorter, and back), what the list is at that point and where each of the four
threads waits.

The proofs assume the `ASSUME`s of the modules only: constants have their types, capacities and bounds
of objects are positive, and lists are not empty.

Out of the prover's reach and left to TLC: liveness (`DecidedInTheEnd`, `NeedsNoPeer`,
`Finishes`, `Terminates`). Every safety invariant and every action property that a passing run checks is a theorem.

## 5. Plan

Done: `Sink` with `Delivery`, `Incoming`, `PartsStorage` with `Parts`, `Async`, `Bisort`, `Reply`, `Codec`, and the proofs of
section 4. What could come next is what section 6 lists.

## 6. Not modelled

- `set_send_observer`, `set_receive_observer`: no guard of the code but the call of the observer depends on them; the models
  have an observer from the start.
- `validate` and `check_is_terminal` change no state. `validate` of a message without parts reads
  `part_names[size() - 1]` (TI 217), which is outside the array.
- zsort: one list and a stop message from main to one sorter; that link and that loop are the ones between relay and a sorter
  in `Bisort`. zqueue calls itself
  a "Not-working example" and calls `send()` without a queue when the socket is writable. zserialize converts structs; it reads
  one of them from a part that was sent in another mode and is shorter than it, which is the case `{}` of `Codec`.
- `get_time`, `get_string` with a limit, formatting and locales of real streams, and types whose streams write blanks.
- TypeCheck.hpp, Config.hpp, dll.hpp and the build files have no behaviour at run time. The tests were read for how the library is called.
