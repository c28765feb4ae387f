---------------------------- MODULE PartsStorage ----------------------------
(***************************************************************************)
(* DynamicPartsStorage (PartsStorage.hpp, ZmqMessageTemplateImpl.hpp):     *)
(* the parts of an Incoming, or of the queue of a Sink, in one block of    *)
(* memory.  A full block is replaced by one of twice the size, detach()    *)
(* hands the block to a new object, and the destructor of either object    *)
(* destroys the parts and gives the block back.                            *)
(*                                                                         *)
(* A cell of a block is Raw where no Part has been constructed and Invalid *)
(* where the message of the part was moved away; else it is the number of  *)
(* the message, 0 for the empty message a Part is constructed with.        *)
(***************************************************************************)
EXTENDS Naturals, Sequences

CONSTANTS
  Capacity,  \* StorageArg of the constructor
  Block,     \* the blocks there are; when all are allocated the allocator throws
  NoBlock,   \* the null pointer
  Raw, Invalid,
  Gone,      \* what an object that does not exist contains
  MaxParts   \* bound on the number of parts added to one object

ASSUME CapacityAssumption == Capacity \in Nat \ {0}
ASSUME BlockAssumption == NoBlock \notin Block
ASSUME CellAssumption == Raw # Invalid /\ Raw \notin Nat /\ Invalid \notin Nat
ASSUME GoneAssumption == Gone \notin Seq(Nat \cup {Raw, Invalid})
ASSUME BoundAssumption == MaxParts \in Nat

\* The Incoming or Sink the storage is part of, and the Multipart of detach().
Owner == {"own", "detached"}

Message == 1 .. MaxParts
Cell == Message \cup {0, Raw, Invalid}

VARIABLES
  alive,     \* the objects that exist
  parts,     \* parts_ of each
  capacity,  \* capacity_ of each
  size,      \* size_ of each
  blocks,    \* the blocks that are allocated
  mem,       \* the cells of each block
  added,     \* number of messages that came
  taken      \* the messages released to the caller

memory == <<blocks, mem>>
vars == <<alive, parts, capacity, size, memory, added, taken>>

TypeOK ==
  /\ alive \subseteq Owner
  /\ parts \in [Owner -> Block \cup {NoBlock}]
  /\ capacity \in [Owner -> Nat]
  /\ size \in [Owner -> 0 .. MaxParts]
  /\ blocks \subseteq Block
  /\ mem \in [Block -> Seq(Cell)]
  /\ added \in 0 .. MaxParts
  /\ taken \subseteq Message

Init ==
  /\ alive = {"own"}
  /\ \E b \in Block :
       /\ parts = [o \in Owner |-> IF o = "own" THEN b ELSE NoBlock]
       /\ blocks = {b}
       /\ mem = [x \in Block |->
                   IF x = b THEN [i \in 1 .. Capacity |-> Raw] ELSE <<>>]
  /\ capacity = [o \in Owner |-> IF o = "own" THEN Capacity ELSE 0]
  /\ size = [o \in Owner |-> 0]
  /\ added = 0 /\ taken = {}

-----------------------------------------------------------------------------
(* next()                                                                   *)

\* There is room: a part is constructed behind the last one.
InPlace(part) ==
  /\ size["own"] < capacity["own"]
  /\ mem' = [mem EXCEPT ![parts["own"]] = [@ EXCEPT ![size["own"] + 1] = part]]
  /\ UNCHANGED <<parts, capacity, blocks>>

\* Seeded fault: the loop ends one part early.
Moved_short(cells, n) ==
  [i \in 1 .. 2 * n |-> IF i < n THEN cells[i] ELSE Raw]

\* The parts are moved to a block of twice the size one by one.
Moved(cells, n) ==
  [i \in 1 .. 2 * n |-> IF i <= n THEN cells[i] ELSE Raw]

\* ScopedAlloc takes a block that nobody has; when there is none the allocator
\* throws and nothing has changed.
Unallocated == Block \ blocks

\* Seeded fault: the new capacity is not recorded.
Grown_unrecorded(part) ==
  /\ size["own"] = capacity["own"]
  /\ \E b \in Unallocated :
       /\ parts' = [parts EXCEPT !["own"] = b]
       /\ blocks' = (blocks \ {parts["own"]}) \cup {b}
       /\ mem' = [mem EXCEPT
            ![parts["own"]] = <<>>,
            ![b] = [Moved(mem[parts["own"]], size["own"])
                      EXCEPT ![size["own"] + 1] = part]]
  /\ UNCHANGED capacity

\* The block is full: a new one is allocated while the old one is still there, and
\* the old one given back.
Grown(part) ==
  /\ size["own"] = capacity["own"]
  /\ \E b \in Unallocated :
       /\ parts' = [parts EXCEPT !["own"] = b]
       /\ blocks' = (blocks \ {parts["own"]}) \cup {b}
       /\ mem' = [mem EXCEPT
            ![parts["own"]] = <<>>,
            ![b] = [Moved(mem[parts["own"]], size["own"])
                      EXCEPT ![size["own"] + 1] = part]]
  /\ capacity' = [capacity EXCEPT !["own"] = 2 * @]

\* next(), and what its caller does with the part: receive_one receives the
\* next message into it, or leaves it empty when recv_msg throws, add_to_queue
\* moves a part into it, which may be invalid.  After detach() there is no
\* block and next() returns 0.
Add ==
  /\ "own" \in alive /\ parts["own"] # NoBlock
  /\ size["own"] < MaxParts
  /\ \E part \in {0, Invalid, added + 1} \cap Cell :
       /\ InPlace(part) \/ Grown(part)
       /\ added' = IF part = added + 1 THEN part ELSE added
  /\ size' = [size EXCEPT !["own"] = @ + 1]
  /\ UNCHANGED <<alive, taken>>

-----------------------------------------------------------------------------
(* release(), detach() and the destructors.                                 *)

\* Seeded fault: the message is copied.
Release_copy(o, i) ==
  /\ o \in alive /\ i \in 1 .. size[o]
  /\ taken' = taken \cup ({mem[parts[o]][i]} \ {0, Invalid})
  /\ UNCHANGED <<alive, parts, capacity, size, memory, added>>

\* "return (*parts_ptr_)[i]" constructs a Part from a Part, which moves the
\* message.
Release(o, i) ==
  /\ o \in alive /\ i \in 1 .. size[o]
  /\ mem' = [mem EXCEPT ![parts[o]] = [@ EXCEPT ![i] = Invalid]]
  /\ taken' = taken \cup ({mem[parts[o]][i]} \ {0, Invalid})
  /\ UNCHANGED <<alive, parts, capacity, size, blocks, added>>

\* Seeded fault: the storage keeps the block it has handed over.
Detach_shared ==
  /\ "own" \in alive /\ "detached" \notin alive
  /\ alive' = Owner
  /\ parts' = [o \in Owner |-> parts["own"]]
  /\ capacity' = [o \in Owner |-> capacity["own"]]
  /\ size' = [o \in Owner |-> size["own"]]
  /\ UNCHANGED <<memory, added, taken>>

\* The new Multipart gets everything, the storage keeps nothing.  One detached
\* object at a time.
Detach ==
  /\ "own" \in alive /\ "detached" \notin alive
  /\ alive' = Owner
  /\ parts' = [o \in Owner |-> IF o = "own" THEN NoBlock ELSE parts["own"]]
  /\ capacity' = [o \in Owner |-> IF o = "own" THEN 0 ELSE capacity["own"]]
  /\ size' = [o \in Owner |-> IF o = "own" THEN 0 ELSE size["own"]]
  /\ UNCHANGED <<memory, added, taken>>

\* Seeded fault: the block is not given back.
Destroy_leak(o) ==
  /\ o \in alive
  /\ alive' = alive \ {o}
  /\ parts' = [parts EXCEPT ![o] = NoBlock]
  /\ capacity' = [capacity EXCEPT ![o] = 0]
  /\ size' = [size EXCEPT ![o] = 0]
  /\ UNCHANGED <<memory, added, taken>>

\* The parts are destroyed and the block given back, if there is one.
Destroy(o) ==
  /\ o \in alive
  /\ alive' = alive \ {o}
  /\ blocks' = blocks \ {parts[o]}
  /\ mem' = [b \in Block |-> IF b = parts[o] THEN <<>> ELSE mem[b]]
  /\ parts' = [parts EXCEPT ![o] = NoBlock]
  /\ capacity' = [capacity EXCEPT ![o] = 0]
  /\ size' = [size EXCEPT ![o] = 0]
  /\ UNCHANGED <<added, taken>>

Next ==
  \/ Add
  \/ Detach
  \/ \E o \in Owner : Destroy(o) \/ \E i \in 1 .. MaxParts : Release(o, i)

Spec == Init /\ [][Next]_vars

-----------------------------------------------------------------------------
(* Properties.                                                              *)

Owns(o) == o \in alive /\ parts[o] # NoBlock

\* What an object believes of its block is true: the size deallocate is told is
\* the size that was allocated, and no part lies behind the end.
InBounds ==
  \A o \in Owner :
    IF Owns(o) THEN /\ size[o] <= capacity[o] /\ capacity[o] > 0
                    /\ Len(mem[parts[o]]) = capacity[o]
               ELSE size[o] = 0

\* The allocated blocks are those of the objects that exist, one of each: none
\* is lost, and none is given back twice.
OneOwner ==
  /\ blocks = {parts[o] : o \in {x \in Owner : Owns(x)}}
  /\ \A o, p \in Owner : Owns(o) /\ Owns(p) /\ o # p => parts[o] # parts[p]

\* Exactly the first size_ cells hold a Part, so the loop of the destructor
\* destroys each once and nothing else.
Constructed ==
  \A o \in Owner : Owns(o) =>
    \A i \in 1 .. Len(mem[parts[o]]) : mem[parts[o]][i] = Raw <=> i > size[o]

\* The memory is sound: bounds, ownership and construction agree.
MemorySound == InBounds /\ OneOwner /\ Constructed

\* A message has one owner: it is in one cell, or with the caller.
OnePlace ==
  \A o, p \in Owner : Owns(o) /\ Owns(p) =>
    \A i \in 1 .. size[o], j \in 1 .. size[p] :
      LET m == mem[parts[o]][i] IN
        m \in Message =>
          /\ m \notin taken
          /\ m = mem[parts[p]][j] => o = p /\ i = j

contents ==
  [o \in Owner |->
    IF o \in alive THEN [i \in 1 .. size[o] |-> mem[parts[o]][i]] ELSE Gone]

P == INSTANCE Parts

\* Growing, detaching and destroying are invisible: the Multipart sees a list
\* whose parts keep their index and content.
Implements == P!Spec
=============================================================================
