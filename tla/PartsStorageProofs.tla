------------------------- MODULE PartsStorageProofs -------------------------
(***************************************************************************)
(* DynamicPartsStorage for every initial capacity, allocator and number of *)
(* parts: its memory is in order, and it implements the list of Parts.     *)
(***************************************************************************)
EXTENDS PartsStorage, SequenceTheorems, TLAPS

\* detach() hands the block over and the storage never gets another one, so the
\* two objects never have one each.
Single == ~ (Owns("own") /\ Owns("detached"))

\* A message that is stored or released has come.
Arrived ==
  /\ taken \subseteq 1 .. added
  /\ \A o \in Owner : Owns(o) =>
       \A i \in 1 .. size[o] : mem[parts[o]][i] \in Nat => mem[parts[o]][i] <= added

\* An object that does not exist has no block.
NoneElse == \A o \in Owner : o \notin alive => parts[o] = NoBlock

IInv == /\ TypeOK /\ Single /\ NoneElse
        /\ InBounds /\ OneOwner /\ Constructed /\ OnePlace /\ Arrived

-----------------------------------------------------------------------------
(* Facts about sequences.                                                   *)

\* Replacing one element of a sequence leaves its length and the others.
LEMMA ReplaceOne ==
  ASSUME NEW S, NEW s \in Seq(S), NEW i \in 1 .. Len(s), NEW x \in S
  PROVE  /\ [s EXCEPT ![i] = x] \in Seq(S)
         /\ Len([s EXCEPT ![i] = x]) = Len(s)
         /\ \A j \in 1 .. Len(s) : [s EXCEPT ![i] = x][j] = IF j = i THEN x ELSE s[j]
  OBVIOUS

\* A function over 1 .. n is a sequence of length n.
LEMMA FunctionIsSeq ==
  ASSUME NEW S, NEW n \in Nat, NEW f \in [1 .. n -> S]
  PROVE  f \in Seq(S) /\ Len(f) = n
  OBVIOUS

-----------------------------------------------------------------------------
\* The storage is constructed in order.
LEMMA InitIInv == Init => IInv
<1> SUFFICES ASSUME Init PROVE IInv
  OBVIOUS
<1>1. PICK b \in Block :
        /\ parts = [o \in Owner |-> IF o = "own" THEN b ELSE NoBlock]
        /\ blocks = {b}
        /\ mem = [x \in Block |->
                    IF x = b THEN [i \in 1 .. Capacity |-> Raw] ELSE <<>>]
  BY DEF Init
<1>2. /\ alive = {"own"} /\ added = 0 /\ taken = {}
      /\ capacity = [o \in Owner |-> IF o = "own" THEN Capacity ELSE 0]
      /\ size = [o \in Owner |-> 0]
      /\ Capacity \in Nat /\ Capacity > 0 /\ MaxParts \in Nat
  BY CapacityAssumption, BoundAssumption DEF Init
<1>3. mem[b] \in Seq(Cell) /\ Len(mem[b]) = Capacity
      /\ \A i \in 1 .. Capacity : mem[b][i] = Raw
  <2>1. mem[b] = [i \in 1 .. Capacity |-> Raw]
    BY <1>1
  <2>2. mem[b] \in [1 .. Capacity -> Cell]
    BY <2>1 DEF Cell
  <2> QED
    BY <1>2, <2>1, <2>2, FunctionIsSeq
<1>4. Owner = {"own", "detached"} /\ b # NoBlock
  BY BlockAssumption DEF Owner
<1>5. /\ parts["own"] = b /\ parts["detached"] = NoBlock
      /\ size["own"] = 0 /\ size["detached"] = 0
      /\ capacity["own"] = Capacity
      /\ Owns("own") /\ ~ Owns("detached")
  BY <1>1, <1>2, <1>4 DEF Owns
<1>6. TypeOK
  <2>1. mem \in [Block -> Seq(Cell)]
    <3>1. \A x \in Block : mem[x] \in Seq(Cell)
      BY <1>1, <1>3
    <3> QED
      BY <1>1, <3>1
  <2>2. parts \in [Owner -> Block \cup {NoBlock}] /\ blocks \subseteq Block
    BY <1>1
  <2>3. capacity \in [Owner -> Nat] /\ size \in [Owner -> 0 .. MaxParts]
    BY <1>2
  <2>4. added \in 0 .. MaxParts /\ taken \subseteq Message /\ alive \subseteq Owner
    BY <1>2, <1>4
  <2> QED
    BY <2>1, <2>2, <2>3, <2>4 DEF TypeOK
<1>7. Single /\ NoneElse /\ InBounds /\ Constructed /\ OnePlace /\ Arrived
  BY <1>2, <1>3, <1>4, <1>5
     DEF Single, NoneElse, InBounds, Constructed, OnePlace, Arrived
<1>8. OneOwner
  BY <1>1, <1>4, <1>5 DEF OneOwner
<1> QED
  BY <1>6, <1>7, <1>8 DEF IInv

-----------------------------------------------------------------------------
(* What each step does to the cells.                                        *)

\* next(): the parts keep their index and content, with the new one behind
\* them, whether the block has grown or not.
AddedTo(part) ==
  LET n == size["own"]  old == mem[parts["own"]]  new == mem'[parts'["own"]]
  IN /\ parts'["own"] \in Block /\ blocks' = {parts'["own"]}
     /\ mem' \in [Block -> Seq(Cell)]
     /\ Len(new) = capacity'["own"] /\ n + 1 <= capacity'["own"]
     /\ \A i \in 1 .. n : new[i] = old[i]
     /\ new[n + 1] = part
     /\ \A i \in n + 2 .. Len(new) : new[i] = Raw

\* Facts of the state in which a part can be added.
LEMMA BeforeAdd ==
  ASSUME IInv, Add
  PROVE  /\ Owns("own") /\ ~ Owns("detached")
         /\ parts["own"] \in Block /\ blocks = {parts["own"]}
         /\ mem \in [Block -> Seq(Cell)] /\ mem[parts["own"]] \in Seq(Cell)
         /\ size["own"] \in Nat /\ capacity["own"] \in Nat /\ capacity["own"] > 0
         /\ size["own"] <= capacity["own"] /\ size["own"] < MaxParts
         /\ Len(mem[parts["own"]]) = capacity["own"]
         /\ \A i \in 1 .. capacity["own"] :
              mem[parts["own"]][i] = Raw <=> i > size["own"]
         /\ MaxParts \in Nat
<1> USE DEF IInv
<1>0. Owner = {"own", "detached"} /\ MaxParts \in Nat
  BY BoundAssumption DEF Owner
<1>1. Owns("own") /\ ~ Owns("detached") /\ size["own"] < MaxParts
  BY DEF Add, Owns, Single
<1>2. parts["own"] \in Block /\ mem \in [Block -> Seq(Cell)]
      /\ size["own"] \in Nat /\ capacity["own"] \in Nat
  BY <1>0, <1>1 DEF TypeOK, Owns
<1>3. blocks = {parts["own"]}
  <2>1. {x \in Owner : Owns(x)} = {"own"}
    BY <1>0, <1>1
  <2> QED
    BY <2>1 DEF OneOwner
<1>4. size["own"] <= capacity["own"] /\ capacity["own"] > 0
      /\ Len(mem[parts["own"]]) = capacity["own"]
  BY <1>0, <1>1 DEF InBounds
<1>5. \A i \in 1 .. capacity["own"] :
        mem[parts["own"]][i] = Raw <=> i > size["own"]
  BY <1>0, <1>1, <1>4 DEF Constructed
<1> QED
  BY <1>0, <1>1, <1>2, <1>3, <1>4, <1>5

\* What next() and its caller do to the parts, whether the block grew or not.
LEMMA AddEffect ==
  ASSUME IInv, Add
  PROVE  \E part \in {0, Invalid, added + 1} \cap Cell :
           /\ AddedTo(part)
           /\ added' = IF part = added + 1 THEN part ELSE added
<1> DEFINE n == size["own"]
           p == parts["own"]
           old == mem[p]
<1>1. PICK part \in {0, Invalid, added + 1} \cap Cell :
        /\ InPlace(part) \/ Grown(part)
        /\ added' = IF part = added + 1 THEN part ELSE added
  BY DEF Add
<1>2. /\ p \in Block /\ blocks = {p} /\ mem \in [Block -> Seq(Cell)]
      /\ old \in Seq(Cell) /\ n \in Nat /\ capacity["own"] \in Nat
      /\ capacity["own"] > 0 /\ n <= capacity["own"] /\ n < MaxParts
      /\ Len(old) = capacity["own"] /\ MaxParts \in Nat
      /\ \A i \in 1 .. capacity["own"] : old[i] = Raw <=> i > n
  BY BeforeAdd
<1> SUFFICES AddedTo(part)
  BY <1>1
<1>3. CASE InPlace(part)
  <2>1. /\ n < capacity["own"] /\ UNCHANGED <<parts, capacity, blocks>>
        /\ mem' = [mem EXCEPT ![p] = [old EXCEPT ![n + 1] = part]]
    BY <1>2, <1>3 DEF InPlace
  <2>2. n + 1 \in 1 .. Len(old)
    BY <1>2, <2>1
  <2>3. /\ [old EXCEPT ![n + 1] = part] \in Seq(Cell)
        /\ Len([old EXCEPT ![n + 1] = part]) = Len(old)
        /\ \A j \in 1 .. Len(old) : [old EXCEPT ![n + 1] = part][j] =
             IF j = n + 1 THEN part ELSE old[j]
    BY <1>2, <2>2, ReplaceOne
  <2>4. mem'[p] = [old EXCEPT ![n + 1] = part] /\ mem' \in [Block -> Seq(Cell)]
    BY <1>2, <2>1, <2>3
  <2>5. \A i \in 1 .. n : mem'[p][i] = old[i]
    BY <1>2, <2>2, <2>3, <2>4
  <2>6. \A i \in n + 2 .. Len(old) : mem'[p][i] = Raw
    BY <1>2, <2>2, <2>3, <2>4
  <2> QED
    BY <1>2, <2>1, <2>2, <2>3, <2>4, <2>5, <2>6 DEF AddedTo
<1>4. CASE Grown(part)
  <2>1. PICK b \in Block \ blocks :
          /\ parts' = [parts EXCEPT !["own"] = b]
          /\ blocks' = (blocks \ {p}) \cup {b}
          /\ mem' = [mem EXCEPT ![p] = <<>>,
                       ![b] = [Moved(old, n) EXCEPT ![n + 1] = part]]
    BY <1>4 DEF Grown, Unallocated
  <2>2. n = capacity["own"] /\ capacity'["own"] = 2 * n /\ parts'["own"] = b
    <3>1. capacity' = [capacity EXCEPT !["own"] = 2 * @] /\ n = capacity["own"]
      BY <1>4 DEF Grown, Unallocated
    <3>2. capacity \in [Owner -> Nat] /\ parts \in [Owner -> Block \cup {NoBlock}]
          /\ "own" \in Owner
      BY DEF IInv, TypeOK, Owner
    <3> QED
      BY <2>1, <3>1, <3>2
  <2>3. b # p /\ blocks' = {b}
    BY <1>2, <2>1
  <2>4. /\ Moved(old, n) \in Seq(Cell) /\ Len(Moved(old, n)) = 2 * n
        /\ \A i \in 1 .. 2 * n :
             Moved(old, n)[i] = IF i <= n THEN old[i] ELSE Raw
    <3>1. \A i \in 1 .. n : old[i] \in Cell
      BY <1>2, <2>2
    <3>2. Moved(old, n) \in [1 .. 2 * n -> Cell]
      BY <1>2, <3>1 DEF Moved, Cell
    <3>3. 2 * n \in Nat
      BY <1>2
    <3> QED
      BY <3>2, <3>3, FunctionIsSeq DEF Moved
  <2>5. n + 1 \in 1 .. Len(Moved(old, n))
    BY <1>2, <2>2, <2>4
  <2> DEFINE new == [Moved(old, n) EXCEPT ![n + 1] = part]
  <2>6. /\ new \in Seq(Cell) /\ Len(new) = 2 * n
        /\ \A j \in 1 .. 2 * n : new[j] =
             IF j = n + 1 THEN part ELSE Moved(old, n)[j]
    BY <2>4, <2>5, ReplaceOne
  <2>7. mem'[b] = new /\ mem' \in [Block -> Seq(Cell)]
    <3>1. mem' = [mem EXCEPT ![p] = <<>>, ![b] = new]
      BY <2>1
    <3> HIDE DEF new
    <3>2. <<>> \in Seq(Cell) /\ b \in Block
      BY <2>1
    <3>3. \A x \in Block : mem'[x] = IF x = b THEN new
                                     ELSE IF x = p THEN <<>> ELSE mem[x]
      BY <1>2, <2>3, <3>1, <3>2
    <3>4. \A x \in Block : mem'[x] \in Seq(Cell)
      BY <1>2, <2>6, <3>2, <3>3
    <3>5. mem' = [x \in Block |-> mem'[x]]
      BY <1>2, <3>1
    <3> QED
      BY <3>2, <3>3, <3>4, <3>5
  <2> HIDE DEF new
  <2>8. \A i \in 1 .. n : new[i] = old[i]
    BY <1>2, <2>4, <2>6
  <2>9. new[n + 1] = part /\ \A i \in n + 2 .. 2 * n : new[i] = Raw
    BY <1>2, <2>4, <2>5, <2>6
  <2> QED
    BY <1>2, <2>2, <2>3, <2>5, <2>4, <2>6, <2>7, <2>8, <2>9 DEF AddedTo
<1> QED
  BY <1>1, <1>3, <1>4

-----------------------------------------------------------------------------
(* The steps preserve the inductive invariant.                              *)

\* A part more, in the block or in a new one of twice the size, keeps the memory
\* in order.
LEMMA AddIInv ==
  ASSUME IInv, Add
  PROVE  IInv'
<1> DEFINE n == size["own"]
           old == mem[parts["own"]]
           new == mem'[parts'["own"]]
<1>0. Owner = {"own", "detached"} /\ NoBlock \notin Block
      /\ Raw \notin Nat /\ Invalid \notin Nat /\ Raw # Invalid
  BY BlockAssumption, CellAssumption DEF Owner
<1>1. PICK part \in {0, Invalid, added + 1} \cap Cell :
        /\ AddedTo(part)
        /\ added' = IF part = added + 1 THEN part ELSE added
  BY AddEffect
<1>2. /\ Owns("own") /\ ~ Owns("detached")
      /\ n \in Nat /\ n < MaxParts /\ MaxParts \in Nat
      /\ capacity["own"] \in Nat /\ n <= capacity["own"]
      /\ Len(old) = capacity["own"]
      /\ \A i \in 1 .. capacity["own"] : old[i] = Raw <=> i > n
  BY BeforeAdd
<1>3. /\ alive' = alive /\ taken' = taken /\ size' = [size EXCEPT !["own"] = n + 1]
  BY DEF Add
<1>4. /\ parts' \in [Owner -> Block \cup {NoBlock}]
      /\ capacity' \in [Owner -> Nat]
      /\ parts'["detached"] = parts["detached"]
  <2>1. parts \in [Owner -> Block \cup {NoBlock}] /\ capacity \in [Owner -> Nat]
    BY DEF IInv, TypeOK
  <2>2. \/ UNCHANGED <<parts, capacity>>
        \/ \E b \in Block : /\ parts' = [parts EXCEPT !["own"] = b]
                            /\ capacity' = [capacity EXCEPT !["own"] = 2 * @]
    BY DEF Add, InPlace, Grown, Unallocated
  <2>3. 2 * capacity["own"] \in Nat
    BY <1>2
  <2> QED
    BY <1>0, <2>1, <2>2, <2>3
<1>5. /\ size'["own"] = n + 1 /\ size'["detached"] = size["detached"]
      /\ size' \in [Owner -> 0 .. MaxParts]
  BY <1>0, <1>2, <1>3 DEF IInv, TypeOK
<1>6. /\ parts'["own"] \in Block /\ blocks' = {parts'["own"]}
      /\ mem' \in [Block -> Seq(Cell)]
      /\ Len(new) = capacity'["own"] /\ n + 1 <= capacity'["own"]
      /\ \A i \in 1 .. n : new[i] = old[i]
      /\ new[n + 1] = part
      /\ \A i \in n + 2 .. Len(new) : new[i] = Raw
  BY <1>1 DEF AddedTo
<1>7. Owns("own")' /\ ~ Owns("detached")'
  BY <1>0, <1>2, <1>3, <1>4, <1>6 DEF Owns
<1>8. added \in Nat /\ added' \in 0 .. MaxParts /\ added <= added'
      /\ (part \in Nat => part <= added')
      /\ (part \in Message => part > added)
  BY <1>0, <1>1, <1>2 DEF IInv, TypeOK, Cell, Message
<1> HIDE DEF n, old, new
<1>9. TypeOK'
  BY <1>3, <1>4, <1>5, <1>6, <1>8 DEF IInv, TypeOK
<1>10. Single' /\ NoneElse'
  BY <1>0, <1>3, <1>4, <1>7 DEF IInv, Single, NoneElse, Owns
<1>11. InBounds'
  <2>1. size'["own"] <= capacity'["own"] /\ capacity'["own"] > 0
        /\ Len(new) = capacity'["own"]
    BY <1>2, <1>4, <1>5, <1>6
  <2>2. size'["detached"] = 0
    BY <1>0, <1>2, <1>5 DEF IInv, InBounds
  <2> QED
    BY <1>0, <1>7, <2>1, <2>2 DEF InBounds, new
<1>12. OneOwner'
  <2>1. {parts'[o] : o \in {x \in Owner : Owns(x)'}} = {parts'["own"]}
    BY <1>0, <1>7
  <2> QED
    BY <1>0, <1>6, <1>7, <2>1 DEF OneOwner
<1>13. Constructed'
  <2>1. ASSUME NEW i \in 1 .. Len(new)
        PROVE  new[i] = Raw <=> i > n + 1
    <3>1. capacity'["own"] \in Nat
      BY <1>0, <1>4
    <3>2. CASE i <= n
      BY <1>2, <1>6, <3>1, <3>2
    <3>3. CASE i = n + 1
      <4>1. part # Raw
        BY <1>0, <1>8, <1>1
      <4> QED
        BY <1>2, <1>6, <3>3, <4>1
    <3>4. CASE i >= n + 2
      BY <1>2, <1>6, <3>1, <3>4
    <3> QED
      BY <1>2, <1>6, <3>1, <3>2, <3>3, <3>4
  <2> QED
    BY <1>0, <1>5, <1>7, <2>1 DEF Constructed, new
<1>14. OnePlace'
  <2>1. /\ \A i \in 1 .. n : old[i] \in Nat => old[i] <= added
        /\ taken \subseteq 1 .. added
        /\ \A i, j \in 1 .. n : old[i] \in Message =>
             old[i] \notin taken /\ (old[i] = old[j] => i = j)
    BY <1>0, <1>2 DEF IInv, Arrived, OnePlace, n, old
  <2>2. ASSUME NEW i \in 1 .. n + 1, NEW j \in 1 .. n + 1, new[i] \in Message
        PROVE  new[i] \notin taken /\ (new[i] = new[j] => i = j)
    <3>0. new[i] \in Nat /\ (i \in 1 .. n \/ i = n + 1) /\ (j \in 1 .. n \/ j = n + 1)
      BY <1>2, <2>2 DEF Message
    <3>1. CASE i \in 1 .. n /\ j \in 1 .. n
      BY <1>6, <2>1, <2>2, <3>1
    <3>2. CASE i \in 1 .. n /\ j = n + 1
      <4>1. new[i] = old[i] /\ old[i] <= added /\ new[i] \notin taken
        BY <1>6, <2>1, <2>2, <3>0, <3>2
      <4>2. new[j] = part
        BY <1>6, <3>2
      <4>3. part # new[i]
        BY <1>8, <2>2, <3>0, <4>1
      <4> QED
        BY <4>1, <4>2, <4>3
    <3>3. CASE i = n + 1
      <4>1. new[i] = part /\ part > added /\ part \in Nat
        BY <1>6, <1>8, <2>2, <3>0, <3>3
      <4>2. part \notin taken
        BY <1>8, <2>1, <4>1
      <4>3. j \in 1 .. n => new[j] = old[j] /\ old[j] # part
        BY <1>6, <1>8, <2>1, <4>1
      <4> QED
        BY <3>0, <3>3, <4>1, <4>2, <4>3
    <3> QED
      BY <3>0, <3>1, <3>2, <3>3
  <2> QED
    BY <1>0, <1>3, <1>5, <1>7, <2>2 DEF OnePlace, new
<1>15. Arrived'
  <2>1. taken' \subseteq 1 .. added'
    BY <1>3, <1>8 DEF IInv, Arrived, TypeOK
  <2>2. ASSUME NEW i \in 1 .. n + 1, new[i] \in Nat
        PROVE  new[i] <= added'
    <3>1. CASE i \in 1 .. n
      <4>1. new[i] = old[i] /\ old[i] <= added
        BY <1>0, <1>2, <1>6, <2>2, <3>1 DEF IInv, Arrived, n, old
      <4> QED
        BY <1>8, <2>2, <4>1
    <3>2. CASE i = n + 1
      BY <1>6, <1>8, <2>2, <3>2
    <3> QED
      BY <1>2, <3>1, <3>2
  <2> QED
    BY <1>0, <1>5, <1>7, <2>1, <2>2 DEF Arrived, new
<1> QED
  BY <1>9, <1>10, <1>11, <1>12, <1>13, <1>14, <1>15 DEF IInv

\* release(): one part becomes invalid and its message is the caller's.
LEMMA ReleaseEffect ==
  ASSUME IInv, NEW o \in Owner, NEW i \in 1 .. MaxParts, Release(o, i)
  PROVE  /\ Owns(o) /\ parts[o] \in Block /\ i \in 1 .. size[o]
         /\ mem[parts[o]] \in Seq(Cell) /\ Len(mem[parts[o]]) = capacity[o]
         /\ size[o] \in Nat /\ capacity[o] \in Nat /\ size[o] <= capacity[o]
         /\ mem' \in [Block -> Seq(Cell)]
         /\ Len(mem'[parts[o]]) = capacity[o]
         /\ \A j \in 1 .. capacity[o] :
              mem'[parts[o]][j] = IF j = i THEN Invalid ELSE mem[parts[o]][j]
<1> USE DEF IInv
<1> DEFINE b == parts[o]
<1>0. o \in alive /\ i \in 1 .. size[o]
      /\ mem' = [mem EXCEPT ![b] = [@ EXCEPT ![i] = Invalid]]
  BY DEF Release
<1>1. size[o] \in Nat /\ capacity[o] \in Nat /\ mem \in [Block -> Seq(Cell)]
      /\ parts[o] \in Block \cup {NoBlock}
  BY BoundAssumption DEF TypeOK
<1>2. Owns(o)
  BY <1>0, <1>1 DEF InBounds
<1>3. b \in Block /\ size[o] <= capacity[o] /\ Len(mem[b]) = capacity[o]
  BY <1>1, <1>2 DEF Owns, InBounds
<1>4. i \in 1 .. Len(mem[b]) /\ Invalid \in Cell /\ mem[b] \in Seq(Cell)
  BY <1>0, <1>1, <1>3 DEF Cell
<1>5. /\ [mem[b] EXCEPT ![i] = Invalid] \in Seq(Cell)
      /\ Len([mem[b] EXCEPT ![i] = Invalid]) = Len(mem[b])
      /\ \A j \in 1 .. Len(mem[b]) : [mem[b] EXCEPT ![i] = Invalid][j] =
           IF j = i THEN Invalid ELSE mem[b][j]
  BY <1>4, ReplaceOne
<1>6. mem'[b] = [mem[b] EXCEPT ![i] = Invalid] /\ mem' \in [Block -> Seq(Cell)]
  BY <1>0, <1>1, <1>3, <1>5
<1> QED
  BY <1>0, <1>1, <1>2, <1>3, <1>4, <1>5, <1>6

\* release() keeps the memory in order and leaves the message with the caller.
LEMMA ReleaseIInv ==
  ASSUME IInv, NEW o \in Owner, NEW i \in 1 .. MaxParts, Release(o, i)
  PROVE  IInv'
<1> DEFINE old == mem[parts[o]]
           new == mem'[parts[o]]
<1>1. /\ Owns(o) /\ parts[o] \in Block /\ i \in 1 .. size[o]
      /\ old \in Seq(Cell) /\ Len(old) = capacity[o]
      /\ size[o] \in Nat /\ capacity[o] \in Nat /\ size[o] <= capacity[o]
      /\ mem' \in [Block -> Seq(Cell)] /\ Len(new) = capacity[o]
      /\ \A j \in 1 .. capacity[o] : new[j] = IF j = i THEN Invalid ELSE old[j]
  BY ReleaseEffect
<1>2. /\ UNCHANGED <<alive, parts, capacity, size, blocks, added>>
      /\ taken' = taken \cup ({old[i]} \ {0, Invalid})
  BY DEF Release
<1>3. /\ \A p \in Owner : Owns(p)' <=> Owns(p)
      /\ \A p \in Owner : Owns(p) => p = o
      /\ Raw # Invalid /\ Invalid \notin Nat
  BY <1>1, <1>2, CellAssumption DEF IInv, Owns, Single, Owner
<1>4. old[i] \in Message \cup {0, Invalid} /\ old[i] # Raw
      /\ \A j \in 1 .. capacity[o] : old[j] = Raw <=> j > size[o]
  <2>1. \A j \in 1 .. capacity[o] : old[j] = Raw <=> j > size[o]
    BY <1>1 DEF IInv, Constructed
  <2>2. i \in 1 .. capacity[o] /\ ~ (i > size[o])
    BY <1>1
  <2> QED
    BY <1>1, <2>1, <2>2 DEF Cell
<1> HIDE DEF old, new
<1>5. TypeOK'
  <2>1. taken' \subseteq Message
    BY <1>2, <1>4 DEF IInv, TypeOK
  <2> QED
    BY <1>1, <1>2, <2>1 DEF IInv, TypeOK
<1>6. Single' /\ NoneElse' /\ OneOwner'
  <2>1. {x \in Owner : Owns(x)'} = {x \in Owner : Owns(x)}
    BY <1>3
  <2> QED
    BY <1>2, <1>3, <2>1 DEF IInv, Single, NoneElse, OneOwner, Owns
<1>7. InBounds'
  BY <1>1, <1>2, <1>3 DEF IInv, InBounds, new
<1>8. Constructed'
  BY <1>1, <1>2, <1>3, <1>4 DEF Constructed, new
<1>9. /\ taken \subseteq 1 .. added
      /\ \A j \in 1 .. size[o] : old[j] \in Nat => old[j] <= added
      /\ \A j, k \in 1 .. size[o] : old[j] \in Message =>
           old[j] \notin taken /\ (old[j] = old[k] => j = k)
  <2>1. taken \subseteq 1 .. added
    BY DEF IInv, Arrived
  <2>2. \A j \in 1 .. size[o] : old[j] \in Nat => old[j] <= added
    BY <1>1 DEF IInv, Arrived, old
  <2>3. ASSUME NEW j \in 1 .. size[o], NEW k \in 1 .. size[o], old[j] \in Message
        PROVE  old[j] \notin taken /\ (old[j] = old[k] => j = k)
    BY <1>1, <2>3 DEF IInv, OnePlace, old
  <2> QED
    BY <2>1, <2>2, <2>3
<1>10. OnePlace'
  <2>1. ASSUME NEW j \in 1 .. size[o], NEW k \in 1 .. size[o], new[j] \in Message
        PROVE  new[j] \notin taken' /\ (new[j] = new[k] => j = k)
    <3>1. j # i /\ new[j] = old[j] /\ old[j] \in Message
      BY <1>1, <1>3, <2>1 DEF Message
    <3>2. new[j] \notin taken'
      BY <1>1, <1>2, <1>9, <3>1
    <3>3. new[k] = old[k] \/ new[k] = Invalid
      BY <1>1
    <3>4. new[j] # Invalid
      BY <1>3, <2>1 DEF Message
    <3> QED
      BY <1>9, <3>1, <3>2, <3>3, <3>4
  <2>2. new = mem'[parts'[o]] /\ size'[o] = size[o]
    BY <1>2 DEF new
  <2>3. ASSUME NEW a \in Owner, NEW b \in Owner, Owns(a)', Owns(b)',
               NEW j \in 1 .. size'[a], NEW k \in 1 .. size'[b],
               mem'[parts'[a]][j] \in Message
        PROVE  /\ mem'[parts'[a]][j] \notin taken'
               /\ mem'[parts'[a]][j] = mem'[parts'[b]][k] => a = b /\ j = k
    <3>1. a = o /\ b = o
      BY <1>3, <2>3
    <3> QED
      BY <2>1, <2>2, <2>3, <3>1
  <2> QED
    BY <2>3 DEF OnePlace
<1>11. Arrived'
  <2>1. taken' \subseteq 1 .. added
    <3>1. old[i] \in Message => old[i] \in 1 .. added
      BY <1>1, <1>9 DEF Message, IInv, TypeOK
    <3> QED
      BY <1>2, <1>4, <1>9, <3>1
  <2>2. \A j \in 1 .. size[o] : new[j] \in Nat => new[j] <= added
    BY <1>1, <1>3, <1>9
  <2> QED
    BY <1>2, <1>3, <2>1, <2>2 DEF Arrived, new
<1> QED
  BY <1>5, <1>6, <1>7, <1>8, <1>10, <1>11 DEF IInv

\* detach(): the new object owns what the storage owned.
LEMMA DetachIInv ==
  ASSUME IInv, Detach
  PROVE  IInv'
<1>0. Owner = {"own", "detached"} /\ "own" # "detached"
  BY DEF Owner
<1>1. /\ alive' = Owner /\ "own" \in alive /\ "detached" \notin alive
      /\ parts' = [o \in Owner |-> IF o = "own" THEN NoBlock ELSE parts["own"]]
      /\ capacity' = [o \in Owner |-> IF o = "own" THEN 0 ELSE capacity["own"]]
      /\ size' = [o \in Owner |-> IF o = "own" THEN 0 ELSE size["own"]]
      /\ UNCHANGED <<blocks, mem, added, taken>>
  BY DEF Detach, memory
<1>2. /\ parts'["own"] = NoBlock /\ parts'["detached"] = parts["own"]
      /\ capacity'["detached"] = capacity["own"]
      /\ size'["own"] = 0 /\ size'["detached"] = size["own"]
  BY <1>0, <1>1
<1>3. /\ ~ Owns("detached") /\ ~ Owns("own")' /\ (Owns("detached")' <=> Owns("own"))
  BY <1>0, <1>1, <1>2 DEF Owns
<1>4. TypeOK'
  BY <1>0, <1>1, BoundAssumption DEF IInv, TypeOK
<1>5. Single' /\ NoneElse'
  BY <1>0, <1>1, <1>3 DEF Single, NoneElse
<1>6. InBounds' /\ Constructed'
  BY <1>0, <1>1, <1>2, <1>3 DEF IInv, InBounds, Constructed
<1>7. OneOwner'
  <2>1. {parts'[o] : o \in {x \in Owner : Owns(x)'}}
          = {parts[o] : o \in {x \in Owner : Owns(x)}}
    BY <1>0, <1>2, <1>3
  <2> QED
    BY <1>0, <1>1, <1>3, <2>1 DEF IInv, OneOwner
<1>8. OnePlace' /\ Arrived'
  BY <1>0, <1>1, <1>2, <1>3 DEF IInv, OnePlace, Arrived
<1> QED
  BY <1>4, <1>5, <1>6, <1>7, <1>8 DEF IInv

\* The destructor gives back the block of its object and nothing else.
LEMMA DestroyIInv ==
  ASSUME IInv, NEW o \in Owner, Destroy(o)
  PROVE  IInv'
<1>0. Owner = {"own", "detached"} /\ NoBlock \notin Block
  BY BlockAssumption DEF Owner
<1>1. /\ o \in alive /\ alive' = alive \ {o} /\ blocks' = blocks \ {parts[o]}
      /\ mem' = [b \in Block |-> IF b = parts[o] THEN <<>> ELSE mem[b]]
      /\ parts' = [parts EXCEPT ![o] = NoBlock]
      /\ capacity' = [capacity EXCEPT ![o] = 0] /\ size' = [size EXCEPT ![o] = 0]
      /\ UNCHANGED <<added, taken>>
  BY DEF Destroy
<1>2. TypeOK
  BY DEF IInv
<1>3. /\ parts'[o] = NoBlock /\ size'[o] = 0 /\ ~ Owns(o)'
      /\ \A p \in Owner : p # o => parts'[p] = parts[p] /\ size'[p] = size[p]
                                   /\ capacity'[p] = capacity[p]
                                   /\ (Owns(p)' <=> Owns(p))
  BY <1>1, <1>2 DEF TypeOK, Owns
<1>4. \A p \in Owner : p # o /\ Owns(p) => parts[p] \in Block /\ parts[p] # parts[o]
                                           /\ mem'[parts[p]] = mem[parts[p]]
  <2> SUFFICES ASSUME NEW p \in Owner, p # o, Owns(p)
               PROVE  parts[p] \in Block /\ parts[p] # parts[o]
                      /\ mem'[parts[p]] = mem[parts[p]]
    OBVIOUS
  <2>1. parts[p] \in Block
    BY <1>2 DEF TypeOK, Owns
  <2>2. parts[o] = NoBlock \/ Owns(o)
    BY <1>1 DEF Owns
  <2>3. parts[p] # parts[o]
    BY <1>0, <2>1, <2>2 DEF IInv, OneOwner
  <2> QED
    BY <1>1, <2>1, <2>3
<1>5. TypeOK'
  <2>1. mem' \in [Block -> Seq(Cell)]
    <3>1. <<>> \in Seq(Cell) /\ mem \in [Block -> Seq(Cell)]
      BY <1>2 DEF TypeOK
    <3> QED
      BY <1>1, <3>1
  <2> QED
    BY <1>1, <1>2, <2>1, BoundAssumption DEF TypeOK
<1>6. Single' /\ NoneElse'
  BY <1>0, <1>1, <1>3 DEF IInv, Single, NoneElse
<1>7. InBounds'
  BY <1>3, <1>4 DEF IInv, InBounds
<1>8. Constructed'
  BY <1>3, <1>4 DEF IInv, Constructed
<1>9. OneOwner'
  <2>1. blocks = {parts[p] : p \in {x \in Owner : Owns(x)}}
    BY DEF IInv, OneOwner
  <2>2. blocks' = {parts'[p] : p \in {x \in Owner : Owns(x)'}}
    BY <1>1, <1>3, <1>4, <2>1
  <2> QED
    BY <1>3, <2>2 DEF IInv, OneOwner
<1>10. OnePlace' /\ Arrived'
  BY <1>1, <1>3, <1>4 DEF IInv, OnePlace, Arrived
<1> QED
  BY <1>5, <1>6, <1>7, <1>8, <1>9, <1>10 DEF IInv

\* A step that changes nothing preserves it.
LEMMA StutterIInv ==
  ASSUME IInv, UNCHANGED vars
  PROVE  IInv'
<1>1. /\ UNCHANGED <<alive, parts, capacity, size, blocks, mem, added, taken>>
      /\ \A o \in Owner : Owns(o)' <=> Owns(o)
  BY DEF vars, memory, Owns
<1>2. {o \in Owner : Owns(o)'} = {o \in Owner : Owns(o)}
  BY <1>1
<1>3. TypeOK' /\ Single' /\ NoneElse' /\ OneOwner'
  BY <1>1, <1>2 DEF IInv, TypeOK, Single, NoneElse, OneOwner, Owner
<1>4. InBounds' /\ Constructed' /\ OnePlace' /\ Arrived'
  BY <1>1 DEF IInv, InBounds, Constructed, OnePlace, Arrived
<1> QED
  BY <1>3, <1>4 DEF IInv

\* No step of the storage breaks the inductive invariant.
LEMMA NextIInv ==
  ASSUME IInv, [Next]_vars
  PROVE  IInv'
  BY AddIInv, DetachIInv, DestroyIInv, ReleaseIInv, StutterIInv DEF Next

-----------------------------------------------------------------------------
(* Theorems about the memory.                                               *)

\* IInv is an invariant.
THEOREM Invariance == Spec => []IInv
<1> QED
  BY InitIInv, NextIInv, PTL DEF Spec

\* Every variable has its type; in particular no Raw cell is ever released.
THEOREM TypeCorrect == Spec => []TypeOK
<1>1. IInv => TypeOK
  BY DEF IInv
<1> QED
  BY <1>1, Invariance, PTL

\* No part is constructed behind the end of a block, deallocate is told the size
\* that was allocated, no block is lost or given back twice, and the destructor
\* destroys exactly the parts that were constructed.
THEOREM MemoryThm == Spec => []MemorySound
<1>1. IInv => MemorySound
  BY DEF IInv, MemorySound
<1> QED
  BY <1>1, Invariance, PTL

\* A message is never in two parts, nor in a part and with the caller.
THEOREM OnePlaceThm == Spec => []OnePlace
<1>1. IInv => OnePlace
  BY DEF IInv
<1> QED
  BY <1>1, Invariance, PTL

-----------------------------------------------------------------------------
(* The refinement of Parts.                                                 *)

\* What an object that exists contains is a list of its size.
ContentsOK ==
  /\ DOMAIN contents = Owner
  /\ \A o \in Owner :
       IF o \in alive
       THEN /\ contents[o] \in Seq(Cell) /\ Len(contents[o]) = size[o]
            /\ size[o] \in Nat
            /\ contents[o] = [i \in 1 .. size[o] |-> mem[parts[o]][i]]
            /\ contents[o] # Gone
       ELSE contents[o] = Gone

\* What the objects contain has the type of the list of Parts.
LEMMA ContentsType == TypeOK /\ InBounds => ContentsOK
<1> SUFFICES ASSUME TypeOK, InBounds PROVE ContentsOK
  OBVIOUS
<1>1. ASSUME NEW o \in Owner, o \in alive
      PROVE  /\ contents[o] \in Seq(Cell) /\ Len(contents[o]) = size[o]
             /\ size[o] \in Nat
             /\ contents[o] = [i \in 1 .. size[o] |-> mem[parts[o]][i]]
             /\ contents[o] # Gone
  <2>1. contents[o] = [i \in 1 .. size[o] |-> mem[parts[o]][i]]
    BY <1>1 DEF contents
  <2>2. size[o] \in Nat
    BY BoundAssumption DEF TypeOK
  <2>3. \A i \in 1 .. size[o] : mem[parts[o]][i] \in Cell
    <3>1. CASE Owns(o)
      <4>1. mem[parts[o]] \in Seq(Cell) /\ size[o] <= Len(mem[parts[o]])
            /\ Len(mem[parts[o]]) \in Nat
        BY <3>1, LenProperties DEF TypeOK, InBounds, Owns
      <4> QED
        BY <2>2, <4>1
    <3>2. CASE ~ Owns(o)
      BY <3>2 DEF InBounds
    <3> QED
      BY <3>1, <3>2
  <2>4. contents[o] \in [1 .. size[o] -> Cell]
    BY <2>1, <2>3
  <2>5. contents[o] \in Seq(Cell) /\ Len(contents[o]) = size[o]
    BY <2>2, <2>4, FunctionIsSeq
  <2>6. contents[o] \in Seq(Nat \cup {Raw, Invalid})
    <3>1. contents[o] \in [1 .. size[o] -> Nat \cup {Raw, Invalid}]
      BY <2>4 DEF Cell, Message
    <3> QED
      BY <2>2, <3>1, FunctionIsSeq
  <2> QED
    BY <2>1, <2>2, <2>5, <2>6, GoneAssumption
<1>2. ASSUME NEW o \in Owner, o \notin alive
      PROVE  contents[o] = Gone
  BY <1>2 DEF contents
<1>3. DOMAIN contents = Owner
  BY DEF contents
<1> QED
  BY <1>1, <1>2, <1>3 DEF ContentsOK

\* The same in the state after a step.
LEMMA ContentsTypeNext == IInv /\ IInv' => ContentsOK /\ ContentsOK'
<1>1. TypeOK' /\ InBounds' => ContentsOK'
  BY ContentsType, PTL
<1> QED
  BY <1>1, ContentsType DEF IInv

\* A new storage contains nothing.
LEMMA InitMaps == Init => P!Init
<1> SUFFICES ASSUME Init PROVE P!Init
  OBVIOUS
<1>1. IInv
  BY InitIInv
<1>2. alive = {"own"} /\ size["own"] = 0 /\ added = 0 /\ taken = {}
  BY DEF Init, Owner
<1>3. contents["own"] \in Seq(Cell) /\ Len(contents["own"]) = 0
  BY <1>1, <1>2, ContentsType DEF IInv, ContentsOK, Owner
<1>4. contents["own"] = <<>>
  BY <1>3, EmptySeq
<1>5. contents["detached"] = Gone /\ DOMAIN contents = Owner
  BY <1>1, <1>2, ContentsType DEF IInv, ContentsOK, Owner
<1>6. contents = [o \in Owner |-> IF o = "own" THEN <<>> ELSE Gone]
  BY <1>4, <1>5 DEF Owner, contents
<1> QED
  BY <1>2, <1>6 DEF P!Init, P!Owner, Owner

\* next() appends, whether the block grows or not.
LEMMA AddMaps ==
  ASSUME IInv, IInv', Add
  PROVE  P!Add
<1> DEFINE n == size["own"]
           old == contents["own"]
           new == contents'["own"]
<1>1. PICK part \in {0, Invalid, added + 1} \cap Cell :
        /\ AddedTo(part)
        /\ added' = IF part = added + 1 THEN part ELSE added
  BY AddEffect
<1>2. /\ "own" \in alive /\ UNCHANGED <<alive, taken>>
      /\ size' = [size EXCEPT !["own"] = n + 1] /\ parts["own"] # NoBlock
  BY DEF Add
<1>3. size'["own"] = n + 1 /\ size'["detached"] = size["detached"]
  BY <1>2 DEF IInv, TypeOK, Owner
<1>4. /\ old \in Seq(Cell) /\ Len(old) = n /\ n \in Nat /\ old # Gone
      /\ old = [i \in 1 .. n |-> mem[parts["own"]][i]]
      /\ new \in Seq(Cell) /\ Len(new) = n + 1
      /\ new = [i \in 1 .. n + 1 |-> mem'[parts'["own"]][i]]
  BY <1>2, <1>3, ContentsTypeNext DEF ContentsOK, Owner
<1>5. /\ \A i \in 1 .. n : mem'[parts'["own"]][i] = mem[parts["own"]][i]
      /\ mem'[parts'["own"]][n + 1] = part
  BY <1>1 DEF AddedTo
<1>6. /\ Append(old, part) \in Seq(Cell) /\ Len(Append(old, part)) = n + 1
      /\ \A i \in 1 .. n : Append(old, part)[i] = old[i]
      /\ Append(old, part)[n + 1] = part
  BY <1>1, <1>4, AppendProperties
<1> HIDE DEF n, old, new
<1>7. \A i \in 1 .. n + 1 : new[i] = Append(old, part)[i]
  <2>1. \A i \in 1 .. n + 1 : i \in 1 .. n \/ i = n + 1
    BY <1>4
  <2> QED
    BY <1>4, <1>5, <1>6, <2>1
<1>8. new = Append(old, part)
  BY <1>4, <1>6, <1>7, SeqEqual
<1>9. contents'["detached"] = contents["detached"]
  <2>1. ~ Owns("detached") /\ ~ Owns("detached")'
    <3>1. Owns("own") /\ ~ Owns("detached")
      BY BeforeAdd
    <3>2. Owns("own")'
      BY <1>1, <1>2, BlockAssumption DEF AddedTo, Owns
    <3> QED
      BY <3>1, <3>2 DEF IInv, Single
  <2>2. size["detached"] = 0 /\ size'["detached"] = 0
    BY <2>1 DEF IInv, InBounds, Owner
  <2>3. CASE "detached" \in alive
    <3>1. /\ contents["detached"] \in Seq(Cell) /\ Len(contents["detached"]) = 0
          /\ contents'["detached"] \in Seq(Cell) /\ Len(contents'["detached"]) = 0
      BY <1>2, <2>2, <2>3, ContentsTypeNext DEF ContentsOK, Owner
    <3> QED
      BY <3>1, EmptySeq
  <2>4. CASE "detached" \notin alive
    BY <1>2, <2>4, ContentsTypeNext DEF ContentsOK, Owner
  <2> QED
    BY <2>3, <2>4
<1>10. contents' = [contents EXCEPT !["own"] = Append(@, part)]
  <2>1. contents'["own"] = Append(contents["own"], part)
    BY <1>8 DEF old, new
  <2>2. DOMAIN contents = Owner /\ DOMAIN contents' = Owner
    BY ContentsTypeNext DEF ContentsOK
  <2> QED
    BY <1>9, <2>1, <2>2 DEF Owner, contents
<1> QED
  BY <1>1, <1>2, <1>4, <1>10 DEF P!Add, old

\* release() takes one part of the list.
LEMMA ReleaseMaps ==
  ASSUME IInv, IInv', NEW o \in Owner, NEW i \in 1 .. MaxParts, Release(o, i)
  PROVE  P!Take(o)
<1> DEFINE old == contents[o]
           new == contents'[o]
<1>1. /\ Owns(o) /\ i \in 1 .. size[o] /\ size[o] \in Nat
      /\ size[o] <= capacity[o] /\ capacity[o] \in Nat
      /\ \A j \in 1 .. capacity[o] :
           mem'[parts[o]][j] = IF j = i THEN Invalid ELSE mem[parts[o]][j]
  BY ReleaseEffect
<1>2. /\ o \in alive /\ UNCHANGED <<alive, parts, size, added>>
      /\ taken' = taken \cup ({mem[parts[o]][i]} \ {0, Invalid})
  BY DEF Release
<1>3. /\ old \in Seq(Cell) /\ Len(old) = size[o] /\ old # Gone
      /\ old = [j \in 1 .. size[o] |-> mem[parts[o]][j]]
      /\ new \in Seq(Cell) /\ Len(new) = size[o]
      /\ new = [j \in 1 .. size[o] |-> mem'[parts[o]][j]]
  BY <1>2, ContentsTypeNext DEF ContentsOK
<1>4. /\ [old EXCEPT ![i] = Invalid] \in Seq(Cell)
      /\ Len([old EXCEPT ![i] = Invalid]) = size[o]
      /\ \A j \in 1 .. size[o] : [old EXCEPT ![i] = Invalid][j] =
           IF j = i THEN Invalid ELSE old[j]
  BY <1>1, <1>3, ReplaceOne DEF Cell
<1> HIDE DEF old, new
<1>5. new = [old EXCEPT ![i] = Invalid]
  <2>1. \A j \in 1 .. size[o] : new[j] = [old EXCEPT ![i] = Invalid][j]
    BY <1>1, <1>3, <1>4
  <2> QED
    BY <1>3, <1>4, <2>1, SeqEqual
<1>6. \A p \in Owner : p # o => contents'[p] = contents[p]
  <2> SUFFICES ASSUME NEW p \in Owner, p # o PROVE contents'[p] = contents[p]
    OBVIOUS
  <2>1. ~ Owns(p)
    BY <1>1 DEF IInv, Single, Owner
  <2>2. size[p] = 0
    BY <2>1 DEF IInv, InBounds
  <2>3. CASE p \in alive
    <3>1. /\ contents[p] \in Seq(Cell) /\ Len(contents[p]) = 0
          /\ contents'[p] \in Seq(Cell) /\ Len(contents'[p]) = 0
      BY <1>2, <2>2, <2>3, ContentsTypeNext DEF ContentsOK
    <3> QED
      BY <3>1, EmptySeq
  <2>4. CASE p \notin alive
    BY <1>2, <2>4, ContentsTypeNext DEF ContentsOK
  <2> QED
    BY <2>3, <2>4
<1>7. contents' = [contents EXCEPT ![o] = [@ EXCEPT ![i] = Invalid]]
  <2>1. contents'[o] = [contents[o] EXCEPT ![i] = Invalid]
    BY <1>5 DEF old, new
  <2>2. DOMAIN contents = Owner /\ DOMAIN contents' = Owner
    BY ContentsTypeNext DEF ContentsOK
  <2> QED
    BY <1>6, <2>1, <2>2 DEF contents
<1>8. old[i] = mem[parts[o]][i] /\ i \in 1 .. Len(old)
  BY <1>1, <1>3
<1> QED
  BY <1>2, <1>3, <1>7, <1>8 DEF P!Take, old

\* detach() hands the list over as a whole.
LEMMA DetachMaps ==
  ASSUME IInv, IInv', Detach
  PROVE  P!HandOver
<1>1. /\ alive' = Owner /\ "own" \in alive /\ "detached" \notin alive
      /\ parts' = [o \in Owner |-> IF o = "own" THEN NoBlock ELSE parts["own"]]
      /\ size' = [o \in Owner |-> IF o = "own" THEN 0 ELSE size["own"]]
      /\ UNCHANGED <<mem, added, taken>>
  BY DEF Detach, memory
<1>2. /\ size'["own"] = 0 /\ size'["detached"] = size["own"]
      /\ parts'["detached"] = parts["own"]
  BY <1>1 DEF Owner
<1>3. contents["own"] # Gone /\ contents["detached"] = Gone
  BY <1>1, ContentsTypeNext DEF ContentsOK, Owner
<1>4. contents'["own"] = <<>>
  <2>1. contents'["own"] \in Seq(Cell) /\ Len(contents'["own"]) = 0
    BY <1>1, <1>2, ContentsTypeNext DEF ContentsOK, Owner
  <2> QED
    BY <2>1, EmptySeq
<1>5. contents'["detached"] = contents["own"]
  <2>1. contents'["detached"] = [i \in 1 .. size["own"] |-> mem[parts["own"]][i]]
    BY <1>1, <1>2, ContentsTypeNext DEF ContentsOK, Owner
  <2>2. contents["own"] = [i \in 1 .. size["own"] |-> mem[parts["own"]][i]]
    BY <1>1, ContentsTypeNext DEF ContentsOK, Owner
  <2> QED
    BY <2>1, <2>2
<1>6. contents' = [o \in Owner |-> IF o = "own" THEN <<>> ELSE contents["own"]]
  <2>1. DOMAIN contents' = Owner
    BY ContentsTypeNext DEF ContentsOK
  <2> QED
    BY <1>4, <1>5, <2>1 DEF Owner, contents
<1> QED
  BY <1>1, <1>3, <1>6 DEF P!HandOver, P!Owner, Owner

\* A destructor discards the list and nothing else.
LEMMA DestroyMaps ==
  ASSUME IInv, IInv', NEW o \in Owner, Destroy(o)
  PROVE  P!Discard(o)
<1>1. /\ o \in alive /\ alive' = alive \ {o}
      /\ mem' = [b \in Block |-> IF b = parts[o] THEN <<>> ELSE mem[b]]
      /\ parts' = [parts EXCEPT ![o] = NoBlock]
      /\ size' = [size EXCEPT ![o] = 0]
      /\ UNCHANGED <<added, taken>>
  BY DEF Destroy
<1>2. contents[o] # Gone /\ contents'[o] = Gone
  BY <1>1, ContentsTypeNext DEF ContentsOK
<1>3. \A p \in Owner : p # o => contents'[p] = contents[p]
  <2> SUFFICES ASSUME NEW p \in Owner, p # o PROVE contents'[p] = contents[p]
    OBVIOUS
  <2>1. parts'[p] = parts[p] /\ size'[p] = size[p] /\ (p \in alive' <=> p \in alive)
    BY <1>1 DEF IInv, TypeOK
  <2>2. CASE p \notin alive
    BY <2>1, <2>2, ContentsTypeNext DEF ContentsOK
  <2>3. CASE p \in alive /\ ~ Owns(p)
    <3>1. size[p] = 0
      BY <2>3 DEF IInv, InBounds
    <3>2. /\ contents[p] \in Seq(Cell) /\ Len(contents[p]) = 0
          /\ contents'[p] \in Seq(Cell) /\ Len(contents'[p]) = 0
      BY <2>1, <2>3, <3>1, ContentsTypeNext DEF ContentsOK
    <3> QED
      BY <3>2, EmptySeq
  <2>4. CASE Owns(p)
    <3>1. parts[p] \in Block
      BY <2>4 DEF IInv, TypeOK, Owns
    <3>2. parts[p] # parts[o]
      <4>1. parts[o] = NoBlock \/ Owns(o)
        BY <1>1 DEF Owns
      <4> QED
        BY <2>4, <3>1, <4>1, BlockAssumption DEF IInv, OneOwner
    <3>3. mem'[parts'[p]] = mem[parts[p]]
      BY <1>1, <2>1, <3>1, <3>2
    <3>4. contents'[p] = [i \in 1 .. size[p] |-> mem[parts[p]][i]]
      <4>1. contents'[p] = [i \in 1 .. size'[p] |-> mem'[parts'[p]][i]]
        BY <2>1, <2>4, ContentsTypeNext DEF ContentsOK, Owns
      <4> QED
        BY <2>1, <3>3, <4>1
    <3>5. contents[p] = [i \in 1 .. size[p] |-> mem[parts[p]][i]]
      BY <2>4, ContentsTypeNext DEF ContentsOK, Owns
    <3> QED
      BY <3>4, <3>5
  <2> QED
    BY <2>2, <2>3, <2>4 DEF Owns
<1>4. contents' = [contents EXCEPT ![o] = Gone]
  <2>1. DOMAIN contents = Owner /\ DOMAIN contents' = Owner
    BY ContentsTypeNext DEF ContentsOK
  <2> QED
    BY <1>2, <1>3, <2>1 DEF contents
<1> QED
  BY <1>1, <1>2, <1>4 DEF P!Discard

\* The memory is invisible: the storage implements the list of Parts, for every
\* capacity, number of blocks and number of parts.
THEOREM Refinement == Spec => Implements
<1>1. IInv /\ IInv' /\ [Next]_vars => [P!Next]_P!vars
  <2> SUFFICES ASSUME IInv, IInv', [Next]_vars PROVE [P!Next]_P!vars
    OBVIOUS
  <2>1. CASE Add
    BY <2>1, AddMaps DEF P!Next
  <2>2. CASE Detach
    BY <2>2, DetachMaps DEF P!Next
  <2>3. ASSUME NEW o \in Owner, Destroy(o)
        PROVE  P!Next
    BY <2>3, DestroyMaps DEF P!Next, P!Owner, Owner
  <2>4. ASSUME NEW o \in Owner, NEW i \in 1 .. MaxParts, Release(o, i)
        PROVE  P!Next
    BY <2>4, ReleaseMaps DEF P!Next, P!Owner, Owner
  <2>5. CASE UNCHANGED vars
    BY <2>5 DEF vars, memory, P!vars, contents
  <2> QED
    BY <2>1, <2>2, <2>3, <2>4, <2>5 DEF Next
<1> QED
  BY <1>1, InitMaps, Invariance, PTL DEF Spec, Implements, P!Spec

=============================================================================
