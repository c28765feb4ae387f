----------------------------- MODULE ReplyClaims -----------------------------
(* What the documentation of the library says of a reply and the code does   *)
(* not keep, with a run that finds the queue that breaks it.                  *)
EXTENDS Reply

ClaimOptionSets == {{"NONBLOCK", "CACHE_ON_BLOCK"}}
ClaimEnvelopes == {2}
ClaimLinked == {1}
ClaimTails == {0}

\* Observers.hpp 49: "Next message part (excluding routing parts) is about to
\* be sent."  A queue holds the envelope like any other part, and send() tells
\* the observer of all of them.
RoutingNotObserved == \A entry \in seen : entry[2].from # "routing"
=============================================================================
