-------------------------------- MODULE Parts --------------------------------
(***************************************************************************)
(* What a parts storage promises to the Multipart on top of it: a list     *)
(* that grows at its end, whose parts keep their index and their content   *)
(* until the caller takes them, and which detach() hands over as a whole   *)
(* (PartsStorage.hpp 134-152).  There is no memory in it.                  *)
(***************************************************************************)
EXTENDS Naturals, Sequences

CONSTANTS
  Invalid,  \* a part whose message was released
  Gone      \* what an object that does not exist contains

\* The Incoming or Sink the storage is part of, and the Multipart of detach().
Owner == {"own", "detached"}

VARIABLES
  contents,  \* the parts of each object, or Gone
  added,     \* number of messages that came
  taken      \* the messages released to the caller

vars == <<contents, added, taken>>

Init ==
  /\ contents = [o \in Owner |-> IF o = "own" THEN <<>> ELSE Gone]
  /\ added = 0
  /\ taken = {}

\* A part with the next message, with an empty one (0), or an invalid part.
Add ==
  /\ contents["own"] # Gone
  /\ \E part \in {0, Invalid, added + 1} :
       /\ contents' = [contents EXCEPT !["own"] = Append(@, part)]
       /\ added' = IF part = added + 1 THEN part ELSE added
  /\ UNCHANGED taken

Take(o) ==
  /\ contents[o] # Gone
  /\ \E i \in 1 .. Len(contents[o]) :
       /\ contents' = [contents EXCEPT ![o] = [@ EXCEPT ![i] = Invalid]]
       /\ taken' = taken \cup ({contents[o][i]} \ {0, Invalid})
  /\ UNCHANGED added

HandOver ==
  /\ contents["own"] # Gone /\ contents["detached"] = Gone
  /\ contents' = [o \in Owner |-> IF o = "own" THEN <<>> ELSE contents["own"]]
  /\ UNCHANGED <<added, taken>>

Discard(o) ==
  /\ contents[o] # Gone
  /\ contents' = [contents EXCEPT ![o] = Gone]
  /\ UNCHANGED <<added, taken>>

Next == Add \/ HandOver \/ \E o \in Owner : Take(o) \/ Discard(o)

Spec == Init /\ [][Next]_vars
=============================================================================
