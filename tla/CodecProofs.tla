---------------------------- MODULE CodecProofs ----------------------------
(* RoundTrip and MsgcmpOrders of Codec for every set of strings, numbers and *)
(* addresses, every width of int and any number of parts and reads.          *)
(*                                                                           *)
(* msgcmp looks for the first byte that differs, a literal for its first     *)
(* null character, and the scan of a text is compared with what it should be *)
(* up to its first mistake: all three rest on Least.                         *)
EXTENDS Codec, FiniteSetTheorems, WellFoundedInduction, TLAPS

\* A set of places that is not empty has a first one: sets of numbers are
\* ordered by the intervals below their members, of which there is a smallest.
LEMMA Least ==
  ASSUME NEW n \in Nat, NEW S \in SUBSET (1 .. n), S # {}
  PROVE  \E x \in S : \A y \in S : x <= y
<1> DEFINE All == 1 .. n
           T == {1 .. i : i \in S}
<1>1. IsFiniteSet(All)
  BY FS_Interval
<1>2. IsWellFoundedOn(StrictSubsetOrdering(All), FiniteSubsetsOf(All))
  BY FS_StrictSubsetOrderingWellFounded
<1>3. FiniteSubsetsOf(All) = SUBSET All
  BY <1>1, FS_FiniteSubsetsOfFinite
<1>4. T \subseteq FiniteSubsetsOf(All) /\ T # {}
  <2>1. \A i \in S : 1 .. i \subseteq All
    OBVIOUS
  <2>2. \A i \in S : 1 .. i \in FiniteSubsetsOf(All)
    BY <1>3, <2>1
  <2>3. PICK i \in S : TRUE
    OBVIOUS
  <2>4. 1 .. i \in T
    BY <2>3
  <2> HIDE DEF All
  <2> QED
    BY <2>2, <2>4
<1>5. PICK t \in T : \A u \in T : ~(<<u, t>> \in StrictSubsetOrdering(All))
  BY <1>2, <1>4, WFMin
<1>6. PICK x \in S : t = 1 .. x
  BY <1>5
<1>7. ASSUME NEW y \in S, ~(x <= y)
      PROVE  FALSE
  <2>1. 1 .. y \in T /\ 1 .. y \subseteq All /\ 1 .. x \subseteq All
    OBVIOUS
  <2>2. 1 .. y \subseteq 1 .. x /\ 1 .. y # 1 .. x
    BY <1>7
  <2> QED
    BY <1>5, <1>6, <2>1, <2>2 DEF StrictSubsetOrdering
<1> QED
  BY <1>7

-----------------------------------------------------------------------------
(* msgcmp.                                                                   *)

\* The int that a difference of two lengths becomes, as long as it is one.
LEMMA ToIntExact ==
  ASSUME NEW d \in -IntLimit .. IntLimit - 1
  PROVE  ToInt(d) = d
<1>1. IntLimit \in Nat \ {0}
  BY BoundsAssumption
<1> DEFINE m == 2 * IntLimit
<1>2. m \in Nat \ {0} /\ d \in Int
  BY <1>1
<1>3. CASE d >= 0
  <2>1. d < m /\ d < IntLimit
    BY <1>1, <1>3
  <2>2. d % m = d
    <3> HIDE DEF m
    <3> QED
      BY <1>2, <1>3, <2>1
  <2> QED
    BY <1>1, <1>2, <2>1, <2>2 DEF ToInt
<1>4. CASE d < 0
  <2>1. -m <= d /\ d + m >= IntLimit
    BY <1>1, <1>4
  <2>2. d % m = d + m
    <3> HIDE DEF m
    <3> QED
      BY <1>2, <1>4, <2>1
  <2> QED
    BY <1>1, <1>2, <2>1, <2>2 DEF ToInt
<1> QED
  BY <1>2, <1>3, <1>4

\* Equal sequences are those of one length that agree.
LEMMA EqualAgree ==
  ASSUME NEW a \in Seq(Nat), NEW b \in Seq(Nat)
  PROVE  a = b <=> Len(a) = Len(b) /\ \A i \in 1 .. Len(a) : a[i] = b[i]
<1>1. ASSUME Len(a) = Len(b), \A i \in 1 .. Len(a) : a[i] = b[i]
      PROVE  a = b
  <2>1. Len(a) \in Nat /\ a \in [1 .. Len(a) -> Nat]
    OBVIOUS
  <2>2. b \in [1 .. Len(b) -> Nat]
    OBVIOUS
  <2>3. b \in [1 .. Len(a) -> Nat]
    BY <1>1, <2>2
  <2> QED
    BY <1>1, <2>1, <2>3
<1> QED
  BY <1>1

\* A sequence is a prefix of another if it is no longer and agrees with it.
LEMMA PrefixAgrees ==
  ASSUME NEW a \in Seq(Nat), NEW b \in Seq(Nat)
  PROVE  IsPrefix(a, b) <=> Len(a) <= Len(b) /\ \A i \in 1 .. Len(a) : a[i] = b[i]
<1>0. Len(a) \in Nat /\ Len(b) \in Nat
  OBVIOUS
<1>1. ASSUME Len(a) <= Len(b)
      PROVE  SubSeq(a, 1, Len(a)) = SubSeq(b, 1, Len(a))
               <=> \A i \in 1 .. Len(a) : a[i] = b[i]
  <2> DEFINE p == SubSeq(a, 1, Len(a))
             q == SubSeq(b, 1, Len(a))
  <2>1. p \in Seq(Nat) /\ Len(p) = Len(a) /\ \A i \in 1 .. Len(a) : p[i] = a[i]
    BY <1>0
  <2>2. q \in Seq(Nat) /\ Len(q) = Len(a) /\ \A i \in 1 .. Len(a) : q[i] = b[i]
    BY <1>0, <1>1
  <2> HIDE DEF p, q
  <2>3. p = q <=> Len(p) = Len(q) /\ \A i \in 1 .. Len(p) : p[i] = q[i]
    BY <2>1, <2>2, EqualAgree
  <2> QED
    BY <2>1, <2>2, <2>3 DEF p, q
<1> QED
  BY <1>1 DEF IsPrefix

\* The sign of msgcmp is that of the dictionary order.
LEMMA MsgcmpSign ==
  ASSUME NEW a \in Seq(Nat), NEW b \in Seq(Nat), Comparable(a, b)
  PROVE  /\ msgcmp(a, b) < 0 <=> Before(a, b)
         /\ msgcmp(a, b) = 0 <=> a = b
<1> DEFINE differ == {i \in DOMAIN a \cap DOMAIN b : a[i] # b[i]}
           first == CHOOSE i \in differ : \A j \in differ : i <= j
<1>1. /\ Len(a) \in Nat /\ Len(b) \in Nat
      /\ DOMAIN a = 1 .. Len(a) /\ DOMAIN b = 1 .. Len(b)
      /\ \A i \in DOMAIN a : a[i] \in Nat
      /\ \A i \in DOMAIN b : b[i] \in Nat
  OBVIOUS
<1>2. CASE differ = {}
  <2>1. \A i \in DOMAIN a \cap DOMAIN b : a[i] = b[i]
    BY <1>2
  <2>2. msgcmp(a, b) = Len(a) - Len(b)
    <3>1. ToInt(Len(a) - Len(b)) = Len(a) - Len(b)
      BY ToIntExact DEF Comparable
    <3> QED
      BY <1>2, <3>1 DEF msgcmp
  <2> HIDE DEF differ, first
  <2>3. a = b <=> Len(a) = Len(b)
    BY <1>1, <2>1, EqualAgree
  <2>4. IsStrictPrefix(a, b) <=> Len(a) < Len(b)
    <3>1. IsPrefix(a, b) <=> Len(a) <= Len(b) /\ \A i \in 1 .. Len(a) : a[i] = b[i]
      BY PrefixAgrees
    <3>2. ASSUME Len(a) <= Len(b)
          PROVE  \A i \in 1 .. Len(a) : a[i] = b[i]
      BY <1>1, <2>1, <3>2
    <3>3. IsPrefix(a, b) <=> Len(a) <= Len(b)
      BY <3>1, <3>2
    <3>4. IsStrictPrefix(a, b) <=> Len(a) <= Len(b) /\ Len(a) # Len(b)
      BY <2>3, <3>3 DEF IsStrictPrefix
    <3>5. \A m, n \in Nat : m < n <=> m <= n /\ m # n
      OBVIOUS
    <3>6. Len(a) \in Nat /\ Len(b) \in Nat
      BY <1>1
    <3> QED
      BY <3>4, <3>5, <3>6
  <2>5. Before(a, b) <=> IsStrictPrefix(a, b)
    <3>1. ~\E i \in DOMAIN a \cap DOMAIN b : a[i] < b[i]
      BY <1>1, <2>1
    <3> QED
      BY <3>1 DEF Before
  <2>6. /\ Len(a) - Len(b) < 0 <=> Len(a) < Len(b)
        /\ Len(a) - Len(b) = 0 <=> Len(a) = Len(b)
    BY <1>1
  <2>7. /\ msgcmp(a, b) < 0 <=> Len(a) < Len(b)
        /\ msgcmp(a, b) = 0 <=> Len(a) = Len(b)
    BY <2>2, <2>6
  <2> QED
    BY <2>3, <2>4, <2>5, <2>7
<1>3. CASE differ # {}
  <2>1. differ \in SUBSET (1 .. Len(a))
    BY <1>1
  <2>2. \E x \in differ : \A y \in differ : x <= y
    <3> HIDE DEF differ
    <3> QED
      BY <1>1, <1>3, <2>1, Least
  <2>3. first \in differ /\ \A j \in differ : first <= j
    <3> HIDE DEF differ
    <3> QED
      BY <2>2
  <2>4. msgcmp(a, b) = a[first] - b[first]
    BY <1>3 DEF msgcmp
  <2> HIDE DEF first
  <2>5. /\ first \in 1 .. Len(a) /\ first \in 1 .. Len(b) /\ a[first] # b[first]
        /\ a[first] \in Nat /\ b[first] \in Nat
    BY <1>1, <2>3
  <2>6. \A j \in 1 .. first - 1 : a[j] = b[j]
    <3>1. SUFFICES ASSUME NEW j \in 1 .. first - 1, a[j] # b[j]
                   PROVE  FALSE
      OBVIOUS
    <3>2. j \in differ
      BY <1>1, <2>5, <3>1
    <3>3. first <= j /\ j < first
      BY <2>3, <2>5, <3>2
    <3> QED
      BY <2>5, <3>3
  <2> HIDE DEF differ
  <2>7. ~IsPrefix(a, b) /\ a # b
    BY <1>1, <2>5, PrefixAgrees
  <2>8. Before(a, b) <=> a[first] < b[first]
    <3>1. ASSUME a[first] < b[first]
          PROVE  Before(a, b)
      BY <1>1, <2>5, <2>6, <3>1 DEF Before
    <3>2. ASSUME Before(a, b)
          PROVE  a[first] < b[first]
      <4>1. PICK i \in DOMAIN a \cap DOMAIN b :
              a[i] < b[i] /\ \A j \in 1 .. i - 1 : a[j] = b[j]
        BY <2>7, <3>2 DEF Before, IsStrictPrefix
      <4>2. i \in differ /\ i \in Nat
        BY <1>1, <4>1 DEF differ
      <4>3. first <= i /\ ~(first < i)
        BY <1>1, <2>3, <2>5, <4>1, <4>2
      <4> QED
        BY <2>5, <4>1, <4>2, <4>3
    <3> QED
      BY <3>1, <3>2
  <2> QED
    BY <2>4, <2>5, <2>7, <2>8
<1> QED
  BY <1>2, <1>3

-----------------------------------------------------------------------------
(* Text: the recursion that writes the digits of a number has a solution,    *)
(* which is given, and the one that reads them undoes it.                    *)

\* The digits of a number that has at most one, two, three or four of them.
One(n) == <<Digit(n)>>
Two(n) == IF n < 2 THEN One(n) ELSE Append(One(n \div 2), Digit(n % 2))
Three(n) == IF n < 2 THEN One(n) ELSE Append(Two(n \div 2), Digit(n % 2))
Four(n) == IF n < 2 THEN One(n) ELSE Append(Three(n \div 2), Digit(n % 2))

\* text[n] is what its recursion says.
LEMMA TextIsFour ==
  \A n \in Number : text[n] = Four(n)
<1> DEFINE f == [n \in Number |-> Four(n)]
           step(g) == [n \in Number |-> IF n < 2 THEN <<Digit(n)>>
                                        ELSE Append(g[n \div 2], Digit(n % 2))]
<1>1. ASSUME NEW n \in Number, ~(n < 2)
      PROVE  Four(n) = Append(f[n \div 2], Digit(n % 2))
  <2>1. n \div 2 \in Number /\ n \div 2 < 8
    BY DEF Number
  <2>2. \A k \in Number : k < 4 => Two(k) = Three(k)
    <3>1. \A k \in Number : k < 4 => k \div 2 \in Number /\ k \div 2 < 2
      BY DEF Number
    <3>2. \A k \in Number : k < 2 => One(k) = Two(k)
      BY DEF Two
    <3> QED
      BY <3>1, <3>2 DEF Two, Three
  <2>3. \A k \in Number : k < 8 => Three(k) = Four(k)
    <3>1. \A k \in Number : k < 8 => k \div 2 \in Number /\ k \div 2 < 4
      BY DEF Number
    <3> QED
      BY <2>2, <3>1 DEF Three, Four
  <2> QED
    BY <1>1, <2>1, <2>3 DEF Four
<1>2. \A n \in Number : f[n] = step(f)[n]
  BY <1>1 DEF Four, One
<1>3. f = step(f)
  BY <1>2
<1>4. text = step(text)
  BY <1>3 DEF text
<1>5. \A n \in Number : text[n] = IF n < 2 THEN <<Digit(n)>>
                                  ELSE Append(text[n \div 2], Digit(n % 2))
  BY <1>4
<1> HIDE DEF f, step
<1>6. \A n \in Number : n < 2 => text[n] = One(n)
  BY <1>5 DEF One
<1>7. \A n \in Number : n < 4 => text[n] = Two(n)
  <2>1. \A n \in Number : n < 4 => n \div 2 \in Number /\ n \div 2 < 2
    BY DEF Number
  <2> QED
    BY <1>5, <1>6, <2>1 DEF Two, One
<1>8. \A n \in Number : n < 8 => text[n] = Three(n)
  <2>1. \A n \in Number : n < 8 => n \div 2 \in Number /\ n \div 2 < 4
    BY DEF Number
  <2> QED
    BY <1>5, <1>7, <2>1 DEF Three, One
<1>9. \A n \in Number : n \div 2 \in Number /\ n \div 2 < 8
  BY DEF Number
<1> QED
  BY <1>5, <1>8, <1>9 DEF Four, One

\* Reading one digit of a number.
LEMMA ParseDigit ==
  ASSUME NEW v \in Nat, NEW byte \in {Digit(0), Digit(1)}, NEW begun \in BOOLEAN
  PROVE  ParseNext([value |-> v, begun |-> begun, ended |-> FALSE], byte)
           = [value |-> 2 * v + byte - Digit(0), begun |-> TRUE, ended |-> FALSE]
<1> DEFINE s == [value |-> v, begun |-> begun, ended |-> FALSE]
<1>1. s.ended = FALSE /\ s.value = v
  OBVIOUS
<1>2. byte # Blank
  BY DEF Digit, Blank
<1> HIDE DEF s
<1>3. ParseNext(s, byte)
        = [value |-> 2 * s.value + byte - Digit(0), begun |-> TRUE, ended |-> FALSE]
  BY <1>1, <1>2 DEF ParseNext
<1> QED
  BY <1>1, <1>3 DEF s

\* Digits are read as the number v[Len(b)] whose first digits are v[i].
LEMMA ParsedDigits ==
  ASSUME NEW b \in Seq({Digit(0), Digit(1)}), NEW v \in [0 .. Len(b) -> Nat],
         v[0] = 0,
         \A i \in 1 .. Len(b) : v[i] = 2 * v[i - 1] + b[i] - Digit(0)
  PROVE  Parsed(b) = v[Len(b)]
<1> DEFINE step(g) == [i \in 0 .. Len(b) |->
                         IF i = 0 THEN ParseFirst ELSE ParseNext(g[i - 1], b[i])]
           r == [i \in 0 .. Len(b) |->
                   [value |-> v[i], begun |-> i > 0, ended |-> FALSE]]
           scan == CHOOSE g : g = step(g)
<1>1. Len(b) \in Nat
  OBVIOUS
<1>2. ASSUME NEW i \in 1 .. Len(b)
      PROVE  r[i] = ParseNext(r[i - 1], b[i])
  <2>1. /\ i - 1 \in 0 .. Len(b) /\ i \in 0 .. Len(b) /\ i > 0
        /\ v[i - 1] \in Nat /\ b[i] \in {Digit(0), Digit(1)}
    BY <1>1
  <2>2. r[i - 1] = [value |-> v[i - 1], begun |-> i - 1 > 0, ended |-> FALSE]
    BY <2>1
  <2>3. r[i] = [value |-> v[i], begun |-> TRUE, ended |-> FALSE]
    BY <2>1
  <2>4. (i - 1 > 0) \in BOOLEAN
    OBVIOUS
  <2>5. ParseNext([value |-> v[i - 1], begun |-> i - 1 > 0, ended |-> FALSE], b[i])
          = [value |-> 2 * v[i - 1] + b[i] - Digit(0), begun |-> TRUE, ended |-> FALSE]
    BY <2>1, <2>4, ParseDigit
  <2> HIDE DEF r
  <2> QED
    BY <2>2, <2>3, <2>5
<1>3. r[0] = ParseFirst
  <2>1. 0 \in 0 .. Len(b)
    BY <1>1
  <2>2. r[0] = [value |-> v[0], begun |-> 0 > 0, ended |-> FALSE]
    BY <2>1
  <2>3. (0 > 0) = FALSE
    OBVIOUS
  <2> HIDE DEF r
  <2> QED
    BY <2>2, <2>3 DEF ParseFirst
<1>4. r = step(r)
  <2>1. \A i \in 0 .. Len(b) : i # 0 => i \in 1 .. Len(b)
    BY <1>1
  <2>2. r = [i \in 0 .. Len(b) |-> r[i]]
    OBVIOUS
  <2> HIDE DEF r
  <2>3. \A i \in 0 .. Len(b) :
          r[i] = IF i = 0 THEN ParseFirst ELSE ParseNext(r[i - 1], b[i])
    BY <1>2, <1>3, <2>1
  <2>4. [i \in 0 .. Len(b) |-> r[i]] = step(r)
    BY <2>3
  <2> QED
    BY <2>2, <2>4
<1>5. scan = step(scan)
  <2> HIDE DEF step, r
  <2> QED
    BY <1>4
<1>6. \A i \in 1 .. Len(b) : scan[i] = ParseNext(scan[i - 1], b[i])
  <2> HIDE DEF scan
  <2>1. \A i \in 1 .. Len(b) : i \in 0 .. Len(b) /\ i # 0
    BY <1>1
  <2> QED
    BY <1>5, <2>1
<1>7. scan[0] = ParseFirst
  <2> HIDE DEF scan
  <2>1. 0 \in 0 .. Len(b)
    BY <1>1
  <2> QED
    BY <1>5, <2>1
<1>8. Parsed(b) = scan[Len(b)].value
  BY DEF Parsed
<1>9. r[Len(b)].value = v[Len(b)]
  BY <1>1
<1> HIDE DEF scan, r, step
<1>10. \A i \in 1 .. Len(b) : scan[i] = r[i]
  <2> DEFINE wrong == {i \in 1 .. Len(b) : scan[i] # r[i]}
  <2>1. SUFFICES ASSUME wrong # {}
                 PROVE  FALSE
    OBVIOUS
  <2>2. wrong \in SUBSET (1 .. Len(b))
    OBVIOUS
  <2>3. PICK x \in wrong : \A y \in wrong : x <= y
    <3> HIDE DEF wrong
    <3> QED
      BY <1>1, <2>1, <2>2, Least
  <2>4. x \in 1 .. Len(b) /\ scan[x] # r[x]
    OBVIOUS
  <2>5. scan[x - 1] = r[x - 1]
    <3>1. CASE x = 1
      BY <1>3, <1>7, <3>1
    <3>2. CASE x # 1
      <4>1. x - 1 \in 1 .. Len(b) /\ ~(x <= x - 1)
        BY <1>1, <2>4, <3>2
      <4> QED
        BY <2>3, <4>1
    <3> QED
      BY <3>1, <3>2
  <2> QED
    BY <1>2, <1>6, <2>4, <2>5
<1>11. scan[Len(b)] = r[Len(b)]
  BY <1>1, <1>3, <1>7, <1>10
<1> QED
  BY <1>8, <1>9, <1>11

\* What Append makes is known by its length and its members.
LEMMA AppendIs ==
  ASSUME NEW p \in Seq(Nat), NEW q \in Seq(Nat), NEW e \in Nat,
         Len(q) = Len(p) + 1, q[Len(q)] = e,
         \A i \in 1 .. Len(p) : q[i] = p[i]
  PROVE  Append(p, e) = q
<1>1. Len(p) \in Nat
  OBVIOUS
<1>2. /\ Append(p, e) \in Seq(Nat) /\ Len(Append(p, e)) = Len(p) + 1
      /\ \A i \in 1 .. Len(p) : Append(p, e)[i] = p[i]
      /\ Append(p, e)[Len(p) + 1] = e
  BY <1>1
<1>3. ASSUME NEW i \in 1 .. Len(p) + 1
      PROVE  Append(p, e)[i] = q[i]
  <2>1. i = Len(p) + 1 \/ i \in 1 .. Len(p)
    BY <1>1
  <2> QED
    BY <1>2, <2>1
<1> QED
  BY <1>2, <1>3, EqualAgree

\* The last of two digits is appended.
LEMMA AppendTwo ==
  ASSUME NEW x \in Nat, NEW y \in Nat
  PROVE  Append(<<x>>, y) = <<x, y>>
<1> DEFINE p == <<x>>
           q == <<x, y>>
<1>1. p \in Seq(Nat) /\ Len(p) = 1 /\ p[1] = x
  OBVIOUS
<1>2. q \in Seq(Nat) /\ Len(q) = 2 /\ q[1] = x /\ q[2] = y
  OBVIOUS
<1> HIDE DEF p, q
<1>3. Len(q) = Len(p) + 1 /\ q[Len(q)] = y /\ \A i \in 1 .. Len(p) : q[i] = p[i]
  BY <1>1, <1>2
<1>4. Append(p, y) = q
  BY <1>1, <1>2, <1>3, AppendIs
<1> QED
  BY <1>4 DEF p, q

\* The last of three digits is appended.
LEMMA AppendThree ==
  ASSUME NEW x \in Nat, NEW y \in Nat, NEW z \in Nat
  PROVE  Append(<<x, y>>, z) = <<x, y, z>>
<1> DEFINE p == <<x, y>>
           q == <<x, y, z>>
<1>1. p \in Seq(Nat) /\ Len(p) = 2 /\ p[1] = x /\ p[2] = y
  OBVIOUS
<1>2. q \in Seq(Nat) /\ Len(q) = 3 /\ q[1] = x /\ q[2] = y /\ q[3] = z
  OBVIOUS
<1> HIDE DEF p, q
<1>3. Len(q) = Len(p) + 1 /\ q[Len(q)] = z /\ \A i \in 1 .. Len(p) : q[i] = p[i]
  BY <1>1, <1>2
<1>4. Append(p, z) = q
  BY <1>1, <1>2, <1>3, AppendIs
<1> QED
  BY <1>4 DEF p, q

\* The last of four digits is appended.
LEMMA AppendFour ==
  ASSUME NEW x \in Nat, NEW y \in Nat, NEW z \in Nat, NEW w \in Nat
  PROVE  Append(<<x, y, z>>, w) = <<x, y, z, w>>
<1> DEFINE p == <<x, y, z>>
           q == <<x, y, z, w>>
<1>1. p \in Seq(Nat) /\ Len(p) = 3 /\ p[1] = x /\ p[2] = y /\ p[3] = z
  OBVIOUS
<1>2. q \in Seq(Nat) /\ Len(q) = 4 /\ q[1] = x /\ q[2] = y /\ q[3] = z /\ q[4] = w
  OBVIOUS
<1> HIDE DEF p, q
<1>3. Len(q) = Len(p) + 1 /\ q[Len(q)] = w /\ \A i \in 1 .. Len(p) : q[i] = p[i]
  BY <1>1, <1>2
<1>4. Append(p, w) = q
  BY <1>1, <1>2, <1>3, AppendIs
<1> QED
  BY <1>4 DEF p, q

\* A number that is written in digits is read as itself.
LEMMA TextParsed ==
  ASSUME NEW n \in Number
  PROVE  text[n] \in Seq({Digit(0), Digit(1)}) /\ Parsed(text[n]) = n
<1> DEFINE Digits == {Digit(0), Digit(1)}
           m == n \div 2
           k == n \div 4
           j == n \div 8
<1>1. /\ n \in 0 .. 15 /\ m \in 0 .. 7 /\ k \in 0 .. 3 /\ j \in 0 .. 1
      /\ m \div 2 = k /\ k \div 2 = j
      /\ n = 2 * m + (n % 2) /\ m = 2 * k + (m % 2) /\ k = 2 * j + (k % 2)
      /\ n % 2 \in 0 .. 1 /\ m % 2 \in 0 .. 1 /\ k % 2 \in 0 .. 1
  BY DEF Number
<1>2. \A d \in 0 .. 1 : Digit(d) \in Digits /\ Digit(d) - Digit(0) = d /\ Digit(d) \in Nat
  BY DEF Digit
<1>3. text[n] = Four(n)
  BY TextIsFour
<1> HIDE DEF m, k, j, Digits
<1>4. CASE n < 2
  <2> DEFINE v == [i \in 0 .. 1 |-> IF i = 0 THEN 0 ELSE n]
             b == <<Digit(n)>>
  <2>1. text[n] = b
    BY <1>3, <1>4 DEF Four, One
  <2>2. n \in 0 .. 1
    BY <1>1, <1>4
  <2>3. b \in Seq(Digits) /\ Len(b) = 1 /\ b[1] = Digit(n)
    BY <1>2, <2>2
  <2>4. v \in [0 .. 1 -> Nat] /\ v[0] = 0 /\ v[1] = n
    BY <2>2
  <2> HIDE DEF b, v
  <2>5. \A i \in 1 .. Len(b) : v[i] = 2 * v[i - 1] + b[i] - Digit(0)
    BY <1>2, <2>2, <2>3, <2>4 DEF Digit
  <2>6. Parsed(b) = v[Len(b)]
    BY <2>3, <2>4, <2>5, ParsedDigits DEF Digits
  <2> QED
    BY <2>1, <2>3, <2>4, <2>6 DEF Digits
<1>5. CASE n >= 2 /\ m < 2
  <2> DEFINE v == [i \in 0 .. 2 |-> IF i = 0 THEN 0 ELSE IF i = 1 THEN m ELSE n]
             b == <<Digit(m), Digit(n % 2)>>
  <2>1. text[n] = b
    <3>1. ~(n < 2)
      BY <1>1, <1>5
    <3>2. Four(n) = Append(Three(m), Digit(n % 2))
      BY <3>1 DEF Four, m
    <3>3. Three(m) = <<Digit(m)>>
      BY <1>5 DEF Three, One
    <3> QED
      <4>1. Digit(m) \in Nat /\ Digit(n % 2) \in Nat
        BY <1>1, <1>2, <1>5
      <4> QED
        BY <1>3, <3>2, <3>3, <4>1, AppendTwo
  <2>2. m \in 0 .. 1 /\ n \in Nat
    BY <1>1, <1>5
  <2>3. b \in Seq(Digits) /\ Len(b) = 2 /\ b[1] = Digit(m) /\ b[2] = Digit(n % 2)
    BY <1>1, <1>2, <2>2
  <2>4. v \in [0 .. 2 -> Nat] /\ v[0] = 0 /\ v[1] = m /\ v[2] = n
    BY <2>2
  <2> HIDE DEF b, v
  <2>5. \A i \in 1 .. Len(b) : v[i] = 2 * v[i - 1] + b[i] - Digit(0)
    <3>1. v[1] = 2 * v[0] + b[1] - Digit(0)
      BY <1>1, <2>2, <2>3, <2>4 DEF Digit
    <3>2. v[2] = 2 * v[1] + b[2] - Digit(0)
      BY <1>1, <2>2, <2>3, <2>4 DEF Digit
    <3>3. \A i \in 1 .. Len(b) : i = 1 \/ i = 2
      BY <2>3
    <3> QED
      BY <3>1, <3>2, <3>3
  <2>6. Parsed(b) = v[Len(b)]
    BY <2>3, <2>4, <2>5, ParsedDigits DEF Digits
  <2> QED
    BY <2>1, <2>3, <2>4, <2>6 DEF Digits
<1>6. CASE m >= 2 /\ k < 2
  <2> DEFINE v == [i \in 0 .. 3 |-> IF i = 0 THEN 0 ELSE IF i = 1 THEN k
                                    ELSE IF i = 2 THEN m ELSE n]
             b == <<Digit(k), Digit(m % 2), Digit(n % 2)>>
  <2>1. text[n] = b
    <3>1. ~(n < 2) /\ ~(m < 2)
      BY <1>1, <1>6
    <3>2. Four(n) = Append(Three(m), Digit(n % 2))
      BY <3>1 DEF Four, m
    <3>3. Three(m) = Append(Two(k), Digit(m % 2))
      BY <1>1, <3>1 DEF Three
    <3>4. Two(k) = <<Digit(k)>>
      BY <1>6 DEF Two, One
    <3> QED
      <4>1. Digit(k) \in Nat /\ Digit(m % 2) \in Nat /\ Digit(n % 2) \in Nat
        BY <1>1, <1>2, <1>6
      <4>2. Append(<<Digit(k)>>, Digit(m % 2)) = <<Digit(k), Digit(m % 2)>>
        BY <4>1, AppendTwo
      <4>3. Append(<<Digit(k), Digit(m % 2)>>, Digit(n % 2)) = b
        BY <4>1, AppendThree
      <4> HIDE DEF b
      <4> QED
        BY <1>3, <3>2, <3>3, <3>4, <4>2, <4>3
  <2>2. k \in 0 .. 1 /\ m \in Nat /\ n \in Nat
    BY <1>1, <1>6
  <2>3. /\ b \in Seq(Digits) /\ Len(b) = 3
        /\ b[1] = Digit(k) /\ b[2] = Digit(m % 2) /\ b[3] = Digit(n % 2)
    BY <1>1, <1>2, <2>2
  <2>4. v \in [0 .. 3 -> Nat] /\ v[0] = 0 /\ v[1] = k /\ v[2] = m /\ v[3] = n
    BY <2>2
  <2> HIDE DEF b, v
  <2>5. \A i \in 1 .. Len(b) : v[i] = 2 * v[i - 1] + b[i] - Digit(0)
    <3>1. v[1] = 2 * v[0] + b[1] - Digit(0)
      BY <1>1, <2>2, <2>3, <2>4 DEF Digit
    <3>2. v[2] = 2 * v[1] + b[2] - Digit(0)
      BY <1>1, <2>2, <2>3, <2>4 DEF Digit
    <3>3. v[3] = 2 * v[2] + b[3] - Digit(0)
      BY <1>1, <2>2, <2>3, <2>4 DEF Digit
    <3>4. \A i \in 1 .. Len(b) : i = 1 \/ i = 2 \/ i = 3
      BY <2>3
    <3> QED
      BY <3>1, <3>2, <3>3, <3>4
  <2>6. Parsed(b) = v[Len(b)]
    BY <2>3, <2>4, <2>5, ParsedDigits DEF Digits
  <2> QED
    BY <2>1, <2>3, <2>4, <2>6 DEF Digits
<1>7. CASE k >= 2
  <2> DEFINE v == [i \in 0 .. 4 |-> IF i = 0 THEN 0 ELSE IF i = 1 THEN j
                                    ELSE IF i = 2 THEN k ELSE IF i = 3 THEN m ELSE n]
             b == <<Digit(j), Digit(k % 2), Digit(m % 2), Digit(n % 2)>>
  <2>1. text[n] = b
    <3>1. ~(n < 2) /\ ~(m < 2) /\ ~(k < 2)
      BY <1>1, <1>7
    <3>2. Four(n) = Append(Three(m), Digit(n % 2))
      BY <3>1 DEF Four, m
    <3>3. Three(m) = Append(Two(k), Digit(m % 2))
      BY <1>1, <3>1 DEF Three
    <3>4. Two(k) = Append(<<Digit(j)>>, Digit(k % 2))
      BY <1>1, <3>1 DEF Two, One
    <3> QED
      <4>1. Digit(j) \in Nat /\ Digit(k % 2) \in Nat /\ Digit(m % 2) \in Nat /\ Digit(n % 2) \in Nat
        BY <1>1, <1>2
      <4>2. Append(<<Digit(j)>>, Digit(k % 2)) = <<Digit(j), Digit(k % 2)>>
        BY <4>1, AppendTwo
      <4>3. Append(<<Digit(j), Digit(k % 2)>>, Digit(m % 2))
              = <<Digit(j), Digit(k % 2), Digit(m % 2)>>
        BY <4>1, AppendThree
      <4>4. Append(<<Digit(j), Digit(k % 2), Digit(m % 2)>>, Digit(n % 2)) = b
        BY <4>1, AppendFour
      <4> HIDE DEF b
      <4> QED
        BY <1>3, <3>2, <3>3, <3>4, <4>2, <4>3, <4>4
  <2>2. j \in 0 .. 1 /\ k \in Nat /\ m \in Nat /\ n \in Nat
    BY <1>1
  <2>3. /\ b \in Seq(Digits) /\ Len(b) = 4
        /\ b[1] = Digit(j) /\ b[2] = Digit(k % 2)
        /\ b[3] = Digit(m % 2) /\ b[4] = Digit(n % 2)
    BY <1>1, <1>2, <2>2
  <2>4. /\ v \in [0 .. 4 -> Nat] /\ v[0] = 0 /\ v[1] = j /\ v[2] = k
        /\ v[3] = m /\ v[4] = n
    BY <2>2
  <2> HIDE DEF b, v
  <2>5. \A i \in 1 .. Len(b) : v[i] = 2 * v[i - 1] + b[i] - Digit(0)
    <3>1. v[1] = 2 * v[0] + b[1] - Digit(0)
      BY <1>1, <2>2, <2>3, <2>4 DEF Digit
    <3>2. v[2] = 2 * v[1] + b[2] - Digit(0)
      BY <1>1, <2>2, <2>3, <2>4 DEF Digit
    <3>3. v[3] = 2 * v[2] + b[3] - Digit(0)
      BY <1>1, <2>2, <2>3, <2>4 DEF Digit
    <3>4. v[4] = 2 * v[3] + b[4] - Digit(0)
      BY <1>1, <2>2, <2>3, <2>4 DEF Digit
    <3>5. \A i \in 1 .. Len(b) : i = 1 \/ i = 2 \/ i = 3 \/ i = 4
      BY <2>3
    <3> QED
      BY <3>1, <3>2, <3>3, <3>4, <3>5
  <2>6. Parsed(b) = v[Len(b)]
    BY <2>3, <2>4, <2>5, ParsedDigits DEF Digits
  <2> QED
    BY <2>1, <2>3, <2>4, <2>6 DEF Digits
<1> QED
  <2>1. n < 2 \/ (n >= 2 /\ m < 2) \/ (m >= 2 /\ k < 2) \/ k >= 2
    BY <1>1
  <2> QED
    BY <1>4, <1>5, <1>6, <1>7, <2>1

-----------------------------------------------------------------------------
(* Reading back: what Bytes makes of a value, Value makes a value of again.  *)

\* A part is what one insertion made of one value.
WellFormed(p) ==
  /\ p.type \in Written /\ p.binary \in BOOLEAN
  /\ p.value \in IF p.type \in Textual THEN Strings ELSE Numbers
  /\ p.bytes \in Bytes(p.type, WriteForm(p.type, p.binary), p.value)

\* A string is a sequence of bytes.
LEMMA StringIsSeq ==
  ASSUME NEW s \in Strings
  PROVE  s \in Seq(Byte) /\ s \in Seq(Nat)
<1>1. s \in Seq(Byte)
  BY StringsAssumption
<1> QED
  BY <1>1 DEF Byte

\* The image of a number has the number of bytes that get_bin reads.
LEMMA ImageRead ==
  ASSUME NEW n \in Number
  PROVE  /\ image(n) \in Seq(Nat) /\ Len(image(n)) = SizeOf
         /\ image(n)[1] + 4 * image(n)[2] = n
<1>1. n % 4 \in Nat /\ n \div 4 \in Nat /\ (n % 4) + 4 * (n \div 4) = n
  BY DEF Number
<1> DEFINE b == <<n % 4, n \div 4>>
<1>2. b \in Seq(Nat) /\ Len(b) = 2 /\ b[1] = n % 4 /\ b[2] = n \div 4
  BY <1>1
<1> HIDE DEF b
<1>3. b \in Seq(Nat) /\ Len(b) = 2 /\ b[1] + 4 * b[2] = n
  BY <1>1, <1>2
<1> QED
  BY <1>3 DEF image, SizeOf, b

\* strlen of a literal is the place of its first null character, or its end.
LEMMA ToNullIs ==
  ASSUME NEW s \in Seq(Nat)
  PROVE  /\ ToNull(s) \in Seq(Nat)
         /\ (\A i \in DOMAIN s : s[i] # Null) => ToNull(s) = s
<1> DEFINE ends(n) == /\ \A i \in 1 .. n : s[i] # Null
                      /\ n = Len(s) \/ s[n + 1] = Null
           n0 == CHOOSE n \in 0 .. Len(s) : ends(n)
           nulls == {i \in 1 .. Len(s) : s[i] = Null}
<1>1. Len(s) \in Nat
  OBVIOUS
<1>2. \E n \in 0 .. Len(s) : ends(n)
  <2>1. CASE nulls = {}
    <3>1. \A i \in 1 .. Len(s) : s[i] # Null
      BY <2>1
    <3>2. Len(s) \in 0 .. Len(s) /\ ends(Len(s))
      BY <1>1, <3>1
    <3> QED
      BY <3>2
  <2>2. CASE nulls # {}
    <3>1. nulls \in SUBSET (1 .. Len(s))
      OBVIOUS
    <3>2. PICK x \in nulls : \A y \in nulls : x <= y
      <4> HIDE DEF nulls
      <4> QED
        BY <1>1, <2>2, <3>1, Least
    <3>3. x \in 1 .. Len(s) /\ s[x] = Null
      OBVIOUS
    <3>4. \A i \in 1 .. x - 1 : i \in 1 .. Len(s) /\ ~(x <= i)
      BY <1>1, <3>3
    <3>5. \A i \in 1 .. x - 1 : s[i] # Null
      BY <3>2, <3>4
    <3>6. x - 1 \in 0 .. Len(s) /\ (x - 1) + 1 = x
      BY <1>1, <3>3
    <3>7. ends(x - 1)
      BY <3>3, <3>5, <3>6
    <3> QED
      BY <3>6, <3>7
  <2> QED
    BY <2>1, <2>2
<1>3. n0 \in 0 .. Len(s) /\ ends(n0)
  <2> HIDE DEF ends
  <2> QED
    BY <1>2
<1>4. ToNull(s) = SubSeq(s, 1, n0)
  BY DEF ToNull
<1> HIDE DEF n0
<1>5. SubSeq(s, 1, n0) \in Seq(Nat)
  BY <1>1, <1>3
<1>6. ASSUME \A i \in DOMAIN s : s[i] # Null
      PROVE  SubSeq(s, 1, n0) = s
  <2>1. DOMAIN s = 1 .. Len(s)
    OBVIOUS
  <2>2. n0 = Len(s)
    <3>1. SUFFICES ASSUME n0 # Len(s)
                   PROVE  FALSE
      OBVIOUS
    <3>2. n0 + 1 \in 1 .. Len(s) /\ s[n0 + 1] = Null
      BY <1>1, <1>3, <3>1
    <3> QED
      BY <1>6, <2>1, <3>2
  <2>3. SubSeq(s, 1, Len(s)) = s
    OBVIOUS
  <2> QED
    BY <2>2, <2>3
<1> QED
  BY <1>4, <1>5, <1>6

\* The bytes of a part, type by type.
LEMMA PartBytes ==
  ASSUME NEW p, WellFormed(p)
  PROVE  /\ p.type = "raw_type" => p.value \in Number /\ p.bytes = image(p.value)
         /\ p.type \in {"int", "text_type"} =>
              /\ p.value \in Number
              /\ p.bytes = IF p.binary THEN image(p.value) ELSE text[p.value]
         /\ p.type = "region" => p.value \in Strings /\ p.bytes = p.value
         /\ p.type = "string" =>
              /\ p.value \in Strings
              /\ IF p.binary THEN \E a \in Addresses : p.bytes = <<a, Len(p.value)>>
                 ELSE p.bytes = p.value
         /\ p.type = "literal" =>
              /\ p.value \in Strings
              /\ p.bytes = IF p.binary THEN Append(p.value, Null) ELSE ToNull(p.value)
<1> DEFINE form == WriteForm(p.type, p.binary)
<1>1. p.bytes \in Bytes(p.type, form, p.value)
  BY DEF WellFormed
<1>2. p.type \notin Textual => p.value \in Number
  BY NumbersAssumption DEF WellFormed
<1>3. CASE p.type = "raw_type"
  <2>1. form = "image"
    BY <1>3 DEF WriteForm, init_msg, IsStr, IsRaw
  <2> HIDE DEF form
  <2> QED
    BY <1>1, <1>2, <1>3, <2>1 DEF Bytes, Textual
<1>4. CASE p.type \in {"int", "text_type"}
  <2>1. form = IF p.binary THEN "image" ELSE "text"
    BY <1>4 DEF WriteForm, init_msg, IsStr, IsRaw
  <2> HIDE DEF form
  <2> QED
    BY <1>1, <1>2, <1>4, <2>1 DEF Bytes, Textual
<1>5. CASE p.type = "region"
  <2>1. form = "chars"
    BY <1>5 DEF WriteForm
  <2>2. p.value \in Strings
    BY <1>5 DEF WellFormed, Textual
  <2> HIDE DEF form
  <2> QED
    BY <1>1, <1>5, <2>1, <2>2 DEF Bytes
<1>6. CASE p.type = "string"
  <2>1. form = IF p.binary THEN "image" ELSE "chars"
    BY <1>6 DEF WriteForm, init_msg, IsStr, IsRaw
  <2>2. p.value \in Strings
    BY <1>6 DEF WellFormed, Textual
  <2> HIDE DEF form
  <2> QED
    BY <1>1, <1>6, <2>1, <2>2 DEF Bytes
<1>7. CASE p.type = "literal"
  <2>1. form = IF p.binary THEN "image" ELSE "chars"
    BY <1>7 DEF WriteForm, init_msg, IsStr, IsRaw
  <2>2. p.value \in Strings
    BY <1>7 DEF WellFormed, Textual
  <2> HIDE DEF form
  <2> QED
    BY <1>1, <1>7, <2>1, <2>2 DEF Bytes
<1> QED
  BY <1>3, <1>4, <1>5, <1>6, <1>7

\* Whatever is written, a part is a sequence of numbers.
LEMMA BytesAreSeq ==
  ASSUME NEW p, WellFormed(p)
  PROVE  p.bytes \in Seq(Nat)
<1>1. \A n \in Number : image(n) \in Seq(Nat)
  BY ImageRead
<1>2. \A n \in Number : text[n] \in Seq(Nat)
  <2>1. Digit(0) \in Nat /\ Digit(1) \in Nat
    BY DEF Digit
  <2>2. \A s : s \in Seq({Digit(0), Digit(1)}) => s \in Seq(Nat)
    BY <2>1
  <2> QED
    BY <2>2, TextParsed
<1>3. \A s \in Strings : s \in Seq(Nat) /\ ToNull(s) \in Seq(Nat)
  BY StringIsSeq, ToNullIs
<1>4. \A s \in Strings : Append(s, Null) \in Seq(Nat)
  BY <1>3 DEF Null
<1>5. \A s \in Strings, a \in Addresses : <<a, Len(s)>> \in Seq(Nat)
  <2>1. \A s \in Strings : Len(s) \in Nat
    BY <1>3
  <2>2. \A a \in Addresses : a \in Nat
    BY NumbersAssumption DEF Byte
  <2> QED
    BY <2>1, <2>2
<1>6. p.type \in Written
  BY DEF WellFormed
<1>7. CASE p.type = "raw_type"
  BY <1>1, <1>7, PartBytes
<1>8. CASE p.type \in {"int", "text_type"}
  BY <1>1, <1>2, <1>8, PartBytes
<1>9. CASE p.type = "region"
  BY <1>3, <1>9, PartBytes
<1>10. CASE p.type = "string"
  BY <1>3, <1>5, <1>10, PartBytes
<1>11. CASE p.type = "literal"
  BY <1>3, <1>4, <1>11, PartBytes
<1> QED
  BY <1>6, <1>7, <1>8, <1>9, <1>10, <1>11 DEF Written

\* A part that is read as agreed yields the value that it was made of.
LEMMA ReadBack ==
  ASSUME NEW p, WellFormed(p), NEW type, NEW binary \in BOOLEAN,
         Counterpart(p.type, type), Agreed(p, type, binary)
  PROVE  Value(type, ReadForm(type, binary), p.bytes) = {p.value}
<1> DEFINE form == ReadForm(type, binary)
<1>1. p.type \in Written /\ p.binary \in BOOLEAN
  BY DEF WellFormed
<1>2. ASSUME NEW n \in Number, type \in {"int", "text_type", "raw_type"}
      PROVE  Value(type, "image", image(n)) = {n}
  BY <1>2, ImageRead DEF Value, IsStr
<1>3. CASE p.type = "raw_type"
  <2>1. type = "raw_type"
    BY <1>3 DEF Counterpart, Textual
  <2>2. form = "image"
    BY <2>1 DEF ReadForm, get, IsStr, IsRaw
  <2> QED
    BY <1>2, <1>3, <2>1, <2>2, PartBytes
<1>4. CASE p.type \in {"int", "text_type"}
  <2>1. type = p.type /\ p.binary = binary
    BY <1>4 DEF Counterpart, Textual, Agreed
  <2>2. form = IF binary THEN "image" ELSE "text"
    BY <1>4, <2>1 DEF ReadForm, get, IsStr, IsRaw
  <2>3. p.value \in Number
    BY <1>4, PartBytes
  <2>4. CASE binary
    <3>1. p.bytes = image(p.value)
      BY <1>4, <2>1, <2>4, PartBytes
    <3> QED
      BY <1>2, <1>4, <2>1, <2>2, <2>3, <2>4, <3>1
  <2>5. CASE ~binary
    <3>1. p.bytes = text[p.value]
      BY <1>4, <2>1, <2>5, PartBytes
    <3>2. Value(type, "text", p.bytes) = {Parsed(p.bytes)} \cap Number
      BY DEF Value
    <3> QED
      BY <2>2, <2>3, <2>5, <3>1, <3>2, TextParsed
  <2> QED
    BY <2>4, <2>5
<1>5. CASE p.type \in {"string", "literal", "region"}
  <2>1. type \in {"string", "message"}
    BY <1>5 DEF Counterpart, Textual
  <2>2. /\ p.binary => p.type = "region"
        /\ binary => type = "message"
        /\ p.type = "literal" => \A i \in DOMAIN p.value : p.value[i] # Null
    BY <1>5 DEF Agreed
  <2>3. form = "chars"
    BY <2>1, <2>2 DEF ReadForm, get, IsStr, IsRaw
  <2>4. Value(type, "chars", p.bytes) = {p.bytes}
    BY DEF Value
  <2>5. p.bytes = p.value
    <3>1. CASE p.type = "string"
      BY <2>2, <3>1, PartBytes
    <3>2. CASE p.type = "region"
      BY <3>2, PartBytes
    <3>3. CASE p.type = "literal"
      <4>1. p.bytes = ToNull(p.value) /\ p.value \in Strings
        BY <2>2, <3>3, PartBytes
      <4> QED
        BY <2>2, <3>3, <4>1, StringIsSeq, ToNullIs
    <3> QED
      BY <1>5, <3>1, <3>2, <3>3
  <2> QED
    BY <2>3, <2>4, <2>5
<1> QED
  BY <1>1, <1>3, <1>4, <1>5 DEF Written

-----------------------------------------------------------------------------
(* The inductive invariant: every part is what one insertion made, and the   *)
(* last read is what the bytes of its part say in the form of the read; a    *)
(* read comes after the flush, so that no insertion follows it.              *)

PartType == [type : Written, value : Strings \cup Numbers, binary : BOOLEAN,
             bytes : Seq(Nat)]

PartsOK(ps) == ps \in Seq(PartType) /\ \A i \in DOMAIN ps : WellFormed(ps[i])

ReadOK(r, done, ps) ==
  r.idx > 0 =>
    /\ done /\ r.idx \in DOMAIN ps /\ r.binary \in BOOLEAN
    /\ r.value = Value(r.type, ReadForm(r.type, r.binary), ps[r.idx].bytes)

ModesOK(out, in, it) ==
  /\ out \in BOOLEAN /\ in \in BOOLEAN
  /\ it \in [idx : Nat, type : Extracted, binary : BOOLEAN]

IInv ==
  /\ PartsOK(parts)
  /\ ReadOK(read, flushed, parts)
  /\ ModesOK(out_binary, in_binary, iterator)
  /\ flushed \in BOOLEAN

\* Codec starts with no part and no read.
LEMMA InitIInv == Init => IInv
<1> SUFFICES ASSUME Init PROVE IInv
  OBVIOUS
<1>1. PartsOK(parts)
  BY DEF Init, PartsOK
<1>2. ReadOK(read, flushed, parts)
  BY DEF Init, ReadOK, NoRead
<1>3. ModesOK(out_binary, in_binary, iterator)
  BY DEF Init, ModesOK, NoIterator, Extracted
<1> QED
  BY <1>1, <1>2, <1>3 DEF Init, IInv

\* One insertion adds one part that it made.
LEMMA InsertKeeps ==
  ASSUME NEW ps, PartsOK(ps), NEW p \in PartType, WellFormed(p)
  PROVE  PartsOK(Append(ps, p))
<1>1. ps \in Seq(PartType) /\ Len(ps) \in Nat
  BY DEF PartsOK
<1>2. /\ Append(ps, p) \in Seq(PartType)
      /\ DOMAIN Append(ps, p) = 1 .. Len(ps) + 1
      /\ \A i \in 1 .. Len(ps) : Append(ps, p)[i] = ps[i]
      /\ Append(ps, p)[Len(ps) + 1] = p
  BY <1>1
<1>3. ASSUME NEW i \in 1 .. Len(ps) + 1
      PROVE  WellFormed(Append(ps, p)[i])
  <2>1. i = Len(ps) + 1 \/ i \in DOMAIN ps
    BY <1>1
  <2>2. CASE i = Len(ps) + 1
    BY <1>2, <2>2
  <2>3. CASE i \in DOMAIN ps
    <3>1. Append(ps, p)[i] = ps[i] /\ WellFormed(ps[i])
      BY <1>1, <1>2, <2>3 DEF PartsOK
    <3> QED
      BY <3>1
  <2> QED
    BY <2>1, <2>2, <2>3
<1> QED
  BY <1>2, <1>3 DEF PartsOK

\* What an insertion makes.
LEMMA InsertMakes ==
  ASSUME NEW type \in Written, NEW binary \in BOOLEAN,
         NEW value \in IF type \in Textual THEN Strings ELSE Numbers,
         NEW bytes \in Bytes(type, WriteForm(type, binary), value)
  PROVE  LET p == [type |-> type, value |-> value, binary |-> binary, bytes |-> bytes]
         IN  p \in PartType /\ WellFormed(p)
<1> DEFINE p == [type |-> type, value |-> value, binary |-> binary, bytes |-> bytes]
<1>1. p.type = type /\ p.value = value /\ p.binary = binary /\ p.bytes = bytes
  OBVIOUS
<1>2. WellFormed(p)
  <2> HIDE DEF p
  <2> QED
    BY <1>1 DEF WellFormed
<1>3. bytes \in Seq(Nat)
  <2> HIDE DEF p
  <2> QED
    BY <1>1, <1>2, BytesAreSeq
<1>4. value \in Strings \cup Numbers
  OBVIOUS
<1>5. p \in PartType
  BY <1>3, <1>4 DEF PartType
<1> QED
  BY <1>2, <1>5

\* A read is of a part that is there.
LEMMA ReadReads ==
  ASSUME NEW idx, NEW type, NEW binary \in BOOLEAN,
         flushed, HasPart(idx), Read(idx, type, binary)
  PROVE  ReadOK(read', flushed, parts)
BY DEF Read, HasPart, ReadOK

\* set_cur reads the part that the iterator stands on, if it is there.
LEMMA SetCurKeeps ==
  ASSUME IInv, flushed, NEW it \in [idx : Nat, type : Extracted, binary : BOOLEAN],
         SetCur(it)
  PROVE  IInv'
<1>1. /\ parts' = parts /\ flushed' = flushed /\ out_binary' = out_binary
      /\ in_binary' = in_binary /\ iterator' = it
  BY DEF SetCur
<1>2. ReadOK(read', flushed, parts)
  <2>1. CASE HasPart(it.idx)
    <3>1. Read(it.idx, it.type, it.binary)
      BY <2>1 DEF SetCur
    <3>2. it.binary \in BOOLEAN
      OBVIOUS
    <3> QED
      BY <2>1, <3>1, <3>2, ReadReads
  <2>2. CASE ~HasPart(it.idx)
    <3>1. read' = read
      BY <2>2 DEF SetCur
    <3> QED
      BY <3>1 DEF IInv
  <2> QED
    BY <2>1, <2>2
<1>3. ModesOK(out_binary, in_binary, it)
  BY DEF IInv, ModesOK
<1> QED
  BY <1>1, <1>2, <1>3 DEF IInv

\* Each call of the two sides keeps the invariant.
LEMMA NextIInv ==
  ASSUME IInv, [Next]_vars
  PROVE  IInv'
<1>0. /\ PartsOK(parts) /\ ReadOK(read, flushed, parts)
      /\ ModesOK(out_binary, in_binary, iterator) /\ flushed \in BOOLEAN
  BY DEF IInv
<1>1. ASSUME NEW binary \in BOOLEAN, SwitchOut(binary)
      PROVE  IInv'
  <2>1. /\ parts' = parts /\ read' = read /\ flushed' = flushed
        /\ out_binary' = binary /\ in_binary' = in_binary /\ iterator' = iterator
    BY <1>1 DEF SwitchOut
  <2>2. ModesOK(binary, in_binary, iterator)
    BY <1>0 DEF ModesOK
  <2> QED
    BY <1>0, <2>1, <2>2 DEF IInv
<1>2. ASSUME NEW binary \in BOOLEAN, SwitchIn(binary)
      PROVE  IInv'
  <2>1. /\ parts' = parts /\ read' = read /\ flushed' = flushed
        /\ out_binary' = out_binary /\ in_binary' = binary /\ iterator' = iterator
    BY <1>2 DEF SwitchIn
  <2>2. ModesOK(out_binary, binary, iterator)
    BY <1>0 DEF ModesOK
  <2> QED
    BY <1>0, <2>1, <2>2 DEF IInv
<1>3. ASSUME NEW type \in Written,
             NEW value \in IF type \in Textual THEN Strings ELSE Numbers,
             Insert(type, value)
      PROVE  IInv'
  <2>1. /\ read' = read /\ flushed' = flushed /\ ~flushed
        /\ out_binary' = out_binary /\ in_binary' = in_binary /\ iterator' = iterator
    BY <1>3 DEF Insert
  <2>2. PICK bytes \in Bytes(type, WriteForm(type, out_binary), value) :
          parts' = Append(parts, [type |-> type, value |-> value,
                                  binary |-> out_binary, bytes |-> bytes])
    BY <1>3 DEF Insert
  <2>3. out_binary \in BOOLEAN
    BY <1>0 DEF ModesOK
  <2> DEFINE p == [type |-> type, value |-> value,
                   binary |-> out_binary, bytes |-> bytes]
  <2>4. p \in PartType /\ WellFormed(p)
    BY <2>3, InsertMakes
  <2>5. parts' = Append(parts, p)
    BY <2>2
  <2> HIDE DEF p
  <2>6. PartsOK(parts')
    BY <1>0, <2>4, <2>5, InsertKeeps
  <2>7. ReadOK(read', flushed', parts')
    BY <1>0, <2>1 DEF ReadOK
  <2> QED
    BY <1>0, <2>1, <2>6, <2>7 DEF IInv
<1>4. ASSUME Flush
      PROVE  IInv'
  <2>1. /\ parts' = parts /\ read' = read /\ flushed' = TRUE
        /\ out_binary' = out_binary /\ in_binary' = in_binary /\ iterator' = iterator
    BY <1>4 DEF Flush
  <2>2. ReadOK(read, TRUE, parts)
    BY <1>0 DEF ReadOK
  <2> QED
    BY <1>0, <2>1, <2>2 DEF IInv
<1>5. ASSUME NEW type \in Extracted, Extract(type)
      PROVE  IInv'
  <2>1. /\ parts' = parts /\ flushed' = flushed /\ flushed
        /\ out_binary' = out_binary /\ in_binary' = in_binary /\ iterator' = iterator
        /\ HasPart(cur_extract_idx + 1) /\ Read(cur_extract_idx + 1, type, in_binary)
    BY <1>5 DEF Extract, MayRead
  <2>2. in_binary \in BOOLEAN
    BY <1>0 DEF ModesOK
  <2>3. ReadOK(read', flushed, parts)
    BY <2>1, <2>2, ReadReads
  <2> QED
    BY <1>0, <2>1, <2>3 DEF IInv
<1>6. ASSUME NEW idx \in 1 .. MaxParts, NEW type \in Extracted \ {"message"},
             NEW binary \in BOOLEAN, IterAt(idx, type, binary)
      PROVE  IInv'
  <2> DEFINE it == [idx |-> idx, type |-> type, binary |-> binary]
  <2>1. idx \in Nat
    BY BoundsAssumption
  <2>2. it \in [idx : Nat, type : Extracted, binary : BOOLEAN]
    BY <2>1
  <2>3. flushed /\ SetCur(it)
    BY <1>6 DEF IterAt, MayRead
  <2> HIDE DEF it
  <2> QED
    BY <2>2, <2>3, SetCurKeeps
<1>7. ASSUME Advance
      PROVE  IInv'
  <2> DEFINE it == [iterator EXCEPT !.idx = @ + 1]
  <2>1. iterator \in [idx : Nat, type : Extracted, binary : BOOLEAN]
    BY <1>0 DEF ModesOK
  <2>2. it \in [idx : Nat, type : Extracted, binary : BOOLEAN]
    BY <2>1
  <2>3. flushed /\ SetCur(it)
    BY <1>7 DEF Advance, MayRead
  <2> HIDE DEF it
  <2> QED
    BY <2>2, <2>3, SetCurKeeps
<1>8. ASSUME NEW idx \in valid, Release(idx)
      PROVE  IInv'
  <2>1. /\ parts' = parts /\ read' = read /\ flushed' = flushed
        /\ out_binary' = out_binary /\ in_binary' = in_binary /\ iterator' = iterator
    BY <1>8 DEF Release
  <2> QED
    BY <1>0, <2>1 DEF IInv
<1>9. CASE UNCHANGED vars
  <2>1. /\ parts' = parts /\ read' = read /\ flushed' = flushed
        /\ out_binary' = out_binary /\ in_binary' = in_binary /\ iterator' = iterator
    BY <1>9 DEF vars
  <2> QED
    BY <1>0, <2>1 DEF IInv
<1> QED
  BY <1>1, <1>2, <1>3, <1>4, <1>5, <1>6, <1>7, <1>8, <1>9 DEF Next

\* Every part is what its insertion made of its value in the mode of that call,
\* and every read is of the bytes of its part, in the form of its own mode.
THEOREM Inductive == Spec => []IInv
<1>1. IInv /\ [Next]_vars => IInv'
  BY NextIInv
<1> QED
  BY <1>1, InitIInv, PTL DEF Spec

\* A value that is read as the type it was written as comes back as it was, as
\* long as the two sides agree: get undoes init_msg for every type, whatever the
\* message holds besides and whenever the modes were switched.
THEOREM RoundTripThm == Spec => []RoundTrip
<1>1. IInv => RoundTrip
  <2> SUFFICES ASSUME IInv, read.idx > 0,
                      Counterpart(parts[read.idx].type, read.type),
                      Agreed(parts[read.idx], read.type, read.binary)
               PROVE  read.value = {parts[read.idx].value}
    BY DEF RoundTrip
  <2>1. /\ read.idx \in DOMAIN parts /\ read.binary \in BOOLEAN
        /\ read.value = Value(read.type, ReadForm(read.type, read.binary),
                              parts[read.idx].bytes)
    BY DEF IInv, ReadOK
  <2>2. WellFormed(parts[read.idx])
    BY <2>1 DEF IInv, PartsOK
  <2> QED
    BY <2>1, <2>2, ReadBack
<1> QED
  BY <1>1, Inductive, PTL

\* msgcmp orders the parts of any message as a dictionary does, whatever types
\* and modes they were written in, as long as an int holds the difference of
\* their lengths.
THEOREM MsgcmpOrdersThm == Spec => []MsgcmpOrders
<1>1. IInv => MsgcmpOrders
  <2> SUFFICES ASSUME IInv, NEW i \in DOMAIN parts, NEW j \in DOMAIN parts,
                      Comparable(parts[i].bytes, parts[j].bytes)
               PROVE  /\ msgcmp(parts[i].bytes, parts[j].bytes) < 0
                           <=> Before(parts[i].bytes, parts[j].bytes)
                      /\ msgcmp(parts[i].bytes, parts[j].bytes) = 0
                           <=> parts[i].bytes = parts[j].bytes
    BY DEF MsgcmpOrders
  <2>1. WellFormed(parts[i]) /\ WellFormed(parts[j])
    BY DEF IInv, PartsOK
  <2>2. parts[i].bytes \in Seq(Nat) /\ parts[j].bytes \in Seq(Nat)
    BY <2>1, BytesAreSeq
  <2> QED
    BY <2>2, MsgcmpSign
<1> QED
  BY <1>1, Inductive, PTL
=============================================================================
