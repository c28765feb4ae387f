------------------------------ MODULE Delivery ------------------------------
(***************************************************************************)
(* What an Outgoing promises: "All message parts are either sent (if       *)
(* possible) OR become exclusively owned by this object" (Outgoing.hpp     *)
(* 19-24), and with DROP_ON_BLOCK the message is dropped as a whole.       *)
(* The promise is atomic: a message is decided once, for all its parts.    *)
(***************************************************************************)
EXTENDS Naturals, Sequences

VARIABLES
  offered,    \* the number of parts inserted
  fate,       \* "open" until decided
  delivered,  \* the message a peer can receive; <<>> if none
  handed      \* the message handed back to the caller; <<>> if none

vars == <<offered, fate, delivered, handed>>

Fate == {"open", "sent", "queued", "handed", "dropped"}

\* A message of n parts, none missing and in the order of insertion.
Whole(n) == [i \in 1 .. n |-> i]

TypeOK ==
  /\ offered \in Nat
  /\ fate \in Fate
  /\ delivered \in Seq(Nat)
  /\ handed \in Seq(Nat)

Init ==
  /\ offered = 0
  /\ fate = "open"
  /\ delivered = <<>>
  /\ handed = <<>>

Offer ==
  /\ fate \in {"open", "dropped"}
  /\ offered' = offered + 1
  /\ UNCHANGED <<fate, delivered, handed>>

Send ==
  /\ fate = "open"
  /\ fate' = "sent"
  /\ delivered' = Whole(offered)
  /\ UNCHANGED <<offered, handed>>

Queue ==
  /\ fate = "open"
  /\ fate' = "queued"
  /\ UNCHANGED <<offered, delivered, handed>>

\* Decided by the insertion of the second part, or by flush.
Drop ==
  /\ fate = "open"
  /\ fate' = "dropped"
  /\ offered' \in {offered, offered + 1}
  /\ UNCHANGED <<delivered, handed>>

HandOver ==
  /\ fate = "queued"
  /\ fate' = "handed"
  /\ handed' = Whole(offered)
  /\ UNCHANGED <<offered, delivered>>

Next == Offer \/ Send \/ Queue \/ Drop \/ HandOver

Spec == Init /\ [][Next]_vars
=============================================================================
