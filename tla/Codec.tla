-------------------------------- MODULE Codec --------------------------------
(***************************************************************************)
(* What becomes of a value between operator<< of one side and operator>>   *)
(* or an iterator of the other: init_msg, get and msgcmp of ZmqTools.hpp,  *)
(* the traits of zmqmessage/MetaTypes.hpp, the manipulators Text and       *)
(* Binary, Multipart::iterator and release.                                *)
(*                                                                         *)
(* A message carries bytes and nothing that says in which form they are.   *)
(* Each side decides by itself, from the type at hand and from the mode    *)
(* its stream was last switched to.                                        *)
(*                                                                         *)
(* A byte is one of four: the null character, a blank and the digits 0 and *)
(* 1.  An integer has two of them, low byte first, and a base of 2 in text.*)
(***************************************************************************)
EXTENDS Integers, Sequences, SequencesExt

CONSTANTS
  Strings,   \* the values of strings, literals and memory regions
  Numbers,   \* the values of the other types
  Addresses, \* the bytes that an address in a string object may have
  MaxParts,  \* bound on the parts of the message
  MaxReads,  \* bound on the extractions and iterations
  IntLimit   \* one more than the greatest int

Byte == 0 .. 3
Null == 0
Blank == 1
Digit(d) == d + 2

SizeOf == 2
Number == 0 .. 15

ASSUME StringsAssumption == Strings \subseteq Seq(Byte)
ASSUME NumbersAssumption == Numbers \subseteq Number /\ Addresses \subseteq Byte
ASSUME BoundsAssumption ==
  MaxParts \in Nat /\ MaxReads \in Nat /\ IntLimit \in Nat \ {0}

\* A std::string, a string literal, a RawMessage, an int, a type with raw_mark
\* and ZMQMESSAGE_TEXT_TYPE, and one with raw_mark or ZMQMESSAGE_BINARY_TYPE.
Textual == {"string", "literal", "region", "message"}
Written == {"string", "literal", "region", "int", "text_type", "raw_type"}
Extracted == {"string", "message", "int", "text_type", "raw_type"}

VARIABLES
  out_binary,      \* BINARY_MODE in options_ of the Sink
  parts,           \* the parts composed: [type, value, binary, bytes]
  flushed,         \* the message has been sent and received
  valid,           \* which parts the Incoming still owns
  in_binary,       \* binary_mode_ of the Incoming
  cur_extract_idx, \* cur_extract_idx_
  iterator,        \* [idx, type, binary] of an iterator
  read,            \* history: [idx, type, binary, value] of the last read
  calls            \* bounds the reads

vars == <<out_binary, parts, flushed, valid, in_binary, cur_extract_idx,
          iterator, read, calls>>

NoIterator == [idx |-> 0, type |-> "int", binary |-> FALSE]
NoRead == [idx |-> 0, type |-> "int", binary |-> FALSE, value |-> {}]

Init ==
  /\ out_binary \in BOOLEAN   \* OutOptions::BINARY_MODE
  /\ parts = <<>> /\ flushed = FALSE /\ valid = {}
  /\ in_binary = FALSE /\ cur_extract_idx = 0
  /\ iterator = NoIterator
  /\ read = NoRead /\ calls = 0

-----------------------------------------------------------------------------
(* The forms: "chars" of a string, the "text" that a stream makes of a      *)
(* value, and the "image" of the object in memory.                          *)

IsStr(type) == type = "string"
IsRaw(type) == type = "raw_type"

\* get of a type, without and with the mode.
get(type) ==
  CASE IsStr(type) -> "chars" [] IsRaw(type) -> "image" [] OTHER -> "text"

\* Seeded fault: the mode of the stream decides for binary types too.
ReadForm_mode(type, binary) ==
  CASE type = "message" \/ (IsStr(type) /\ ~binary) -> "chars"
    [] type # "message" /\ binary -> "image"
    [] OTHER -> "text"

\* A message_t is extracted as it is.
ReadForm(type, binary) ==
  CASE type = "message" -> "chars"
    [] type # "message" /\ binary -> "image"
    [] OTHER -> get(type)

\* init_msg of a type, without and with the mode.  A literal is a const char*
\* to the one and an array of characters to the other.
init_msg(type) ==
  CASE IsStr(type) \/ type = "literal" -> "chars"
    [] IsRaw(type) -> "image"
    [] OTHER -> "text"

WriteForm(type, binary) ==
  CASE type = "region" -> "chars"
    [] type # "region" /\ binary -> "image"
    [] OTHER -> init_msg(type)

\* "os << t": the digits of a number, the highest first.
text[n \in Number] ==
  IF n < 2 THEN <<Digit(n)>> ELSE Append(text[n \div 2], Digit(n % 2))

image(n) == <<n % 4, n \div 4>>

\* strlen
ToNull(value) ==
  SubSeq(value, 1, CHOOSE n \in 0 .. Len(value) :
                     /\ \A i \in 1 .. n : value[i] # Null
                     /\ n = Len(value) \/ value[n + 1] = Null)

\* What a part may hold.  The image of a string is an address and a length,
\* that of a literal ends with its null character.
Bytes(type, form, value) ==
  CASE form = "chars" -> {IF type = "literal" THEN ToNull(value) ELSE value}
    [] form = "text" -> {text[value]}
    [] form = "image" /\ type = "string" -> {<<a, Len(value)>> : a \in Addresses}
    [] form = "image" /\ type = "literal" -> {Append(value, Null)}
    [] OTHER -> {image(value)}

\* "ss >> t": blanks are skipped, the digits that follow are the number, and a
\* stream without digits leaves T().
ParseNext(scan, byte) ==
  CASE scan.ended \/ (byte = Blank /\ ~scan.begun) -> scan
    [] ~scan.ended /\ byte \in {Digit(0), Digit(1)} ->
         [value |-> 2 * scan.value + byte - Digit(0),
          begun |-> TRUE, ended |-> FALSE]
    [] OTHER -> [scan EXCEPT !.ended = TRUE]

ParseFirst == [value |-> 0, begun |-> FALSE, ended |-> FALSE]

Parsed(bytes) ==
  LET scan[i \in 0 .. Len(bytes)] ==
        IF i = 0 THEN ParseFirst ELSE ParseNext(scan[i - 1], bytes[i])
  IN scan[Len(bytes)].value

\* What a read may yield.  {} stands for anything.  The size is not asked for by
\* "*reinterpret_cast<T*>(message.data())", so a part that is too short, or that is
\* taken for a string object, yields that; and so do more digits than the type
\* holds, of which the editions of C++ make different numbers.
Value(type, form, bytes) ==
  CASE form = "chars" -> {bytes}
    [] form = "text" -> {Parsed(bytes)} \cap Number
    [] form = "image" /\ (IsStr(type) \/ Len(bytes) < SizeOf) -> {}
    [] OTHER -> {bytes[1] + 4 * bytes[2]}

\* Seeded fault: only the first bytes of the longer part are compared.
msgcmp_prefix(a, b) ==
  LET differ == {i \in DOMAIN a \cap DOMAIN b : a[i] # b[i]}
      first == CHOOSE i \in differ : \A j \in differ : i <= j
  IN IF differ = {} THEN 0 ELSE a[first] - b[first]

\* The difference of two size_t as an int.
ToInt(n) ==
  LET low == n % (2 * IntLimit)
  IN IF low >= IntLimit THEN low - 2 * IntLimit ELSE low

\* memcmp of what both have, then the lengths.
msgcmp(a, b) ==
  LET differ == {i \in DOMAIN a \cap DOMAIN b : a[i] # b[i]}
      first == CHOOSE i \in differ : \A j \in differ : i <= j
  IN IF differ = {} THEN ToInt(Len(a) - Len(b)) ELSE a[first] - b[first]

-----------------------------------------------------------------------------
(* The Sink.                                                                *)

\* The manipulators Text and Binary, set_text and set_binary.
SwitchOut(binary) ==
  /\ ~flushed
  /\ out_binary' = binary
  /\ UNCHANGED <<parts, flushed, valid, in_binary, cur_extract_idx, iterator,
                 read, calls>>

\* operator<< of a value, a literal or a RawMessage; assignment through
\* Sink::iterator.
Insert(type, value) ==
  /\ ~flushed /\ Len(parts) < MaxParts
  /\ \E bytes \in Bytes(type, WriteForm(type, out_binary), value) :
       parts' = Append(parts, [type |-> type, value |-> value,
                               binary |-> out_binary, bytes |-> bytes])
  /\ UNCHANGED <<out_binary, flushed, valid, in_binary, cur_extract_idx,
                 iterator, read, calls>>

\* The message goes to the peer, whose Incoming receives all of it.
Flush ==
  /\ ~flushed /\ parts # <<>>
  /\ flushed' = TRUE
  /\ valid' = DOMAIN parts
  /\ UNCHANGED <<out_binary, parts, in_binary, cur_extract_idx, iterator, read,
                 calls>>

-----------------------------------------------------------------------------
(* The Incoming and its iterators.                                          *)

SwitchIn(binary) ==
  /\ flushed
  /\ in_binary' = binary
  /\ UNCHANGED <<out_binary, parts, flushed, valid, cur_extract_idx, iterator,
                 read, calls>>

MayRead == flushed /\ calls < MaxReads /\ calls' = calls + 1

\* check_has_part
HasPart(idx) == idx \in DOMAIN parts /\ idx \in valid

\* get of one part.
Read(idx, type, binary) ==
  read' = [idx |-> idx, type |-> type, binary |-> binary,
           value |-> Value(type, ReadForm(type, binary), parts[idx].bytes)]

\* operator>>, which throws NoSuchPartError and does nothing if the part is not
\* there.  It never gets past a part that was released.
Extract(type) ==
  /\ MayRead /\ HasPart(cur_extract_idx + 1)
  /\ cur_extract_idx' = cur_extract_idx + 1
  /\ Read(cur_extract_idx + 1, type, in_binary)
  /\ UNCHANGED <<out_binary, parts, flushed, valid, in_binary, iterator>>

\* set_cur: a part is read as soon as the iterator stands on it.  If it is not
\* valid operator[] throws, so that what set_cur does for such a part is dead
\* code, and cur_ stays as it was.
SetCur(it) ==
  /\ iterator' = it
  /\ IF HasPart(it.idx) THEN Read(it.idx, it.type, it.binary) ELSE UNCHANGED read
  /\ UNCHANGED <<out_binary, parts, flushed, valid, in_binary, cur_extract_idx>>

\* begin<T>(binary) and iter_at<T>(idx, binary): an exception leaves no iterator.
IterAt(idx, type, binary) ==
  /\ MayRead /\ iterator = NoIterator
  /\ HasPart(idx) \/ idx > Len(parts)
  /\ SetCur([idx |-> idx, type |-> type, binary |-> binary])

\* operator++, which has moved on when set_cur throws.
Advance ==
  /\ MayRead /\ iterator.idx \in DOMAIN parts
  /\ SetCur([iterator EXCEPT !.idx = @ + 1])

Release(idx) ==
  /\ flushed /\ idx \in valid
  /\ valid' = valid \ {idx}
  /\ UNCHANGED <<out_binary, parts, flushed, in_binary, cur_extract_idx,
                 iterator, read, calls>>

Next ==
  \/ \E binary \in BOOLEAN : SwitchOut(binary) \/ SwitchIn(binary)
  \/ \E type \in Written :
       \E value \in IF type \in Textual THEN Strings ELSE Numbers :
         Insert(type, value)
  \/ Flush
  \/ \E type \in Extracted : Extract(type)
  \/ \E idx \in 1 .. MaxParts, type \in Extracted \ {"message"},
        binary \in BOOLEAN : IterAt(idx, type, binary)
  \/ Advance
  \/ \E idx \in valid : Release(idx)

Spec == Init /\ [][Next]_vars

-----------------------------------------------------------------------------
(* Properties.                                                              *)

\* The types that are read as what was written.
Counterpart(written, type) ==
  IF written \in Textual THEN type \in {"string", "message"} ELSE type = written

\* What the library leaves to its users: numbers need the same mode on both
\* sides, strings and literals need the text mode, and a literal has no null
\* character in it.  Binary types, regions and message_t need nothing.
Agreed(part, type, binary) ==
  CASE part.type = "raw_type" -> TRUE
    [] part.type \in {"int", "text_type"} -> part.binary = binary
    [] OTHER -> /\ part.binary => part.type = "region"
                /\ binary => type = "message"
                /\ part.type = "literal" => \A i \in DOMAIN part.value :
                                               part.value[i] # Null

\* A value that is read as the type it was written as comes back as it was,
\* whatever else the message holds and whenever the two modes were switched.
RoundTrip ==
  read.idx > 0 =>
    LET part == parts[read.idx] IN
    Counterpart(part.type, read.type) /\ Agreed(part, read.type, read.binary) =>
      read.value = {part.value}

\* "like memcmp" (ZmqTools.hpp 277): the sign of msgcmp is that of the order of
\* a dictionary, as long as the lengths differ by less than an int can hold.
Before(a, b) ==
  \/ IsStrictPrefix(a, b)
  \/ \E i \in DOMAIN a \cap DOMAIN b :
       a[i] < b[i] /\ \A j \in 1 .. i - 1 : a[j] = b[j]

Comparable(a, b) ==
  Len(a) - Len(b) \in -IntLimit .. IntLimit - 1

MsgcmpOrders ==
  \A i, j \in DOMAIN parts :
    LET a == parts[i].bytes  b == parts[j].bytes IN
    Comparable(a, b) => /\ msgcmp(a, b) < 0 <=> Before(a, b)
                        /\ msgcmp(a, b) = 0 <=> a = b
=============================================================================
