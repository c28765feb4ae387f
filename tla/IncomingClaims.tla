--------------------------- MODULE IncomingClaims ---------------------------
(* What the documentation of the library says of an Incoming and the code   *)
(* does not keep, with a run that finds the messages that break it.         *)
EXTENDS Incoming

\* Every envelope ends with its null part, and in one message nothing follows it.
ClaimShapes == {<<"id", "null">>, <<"id", "null", "body", "body">>}
ClaimPolicies == {"X"}
ClaimCapacities == {2}
ClaimCounts == {2}

\* README 6: "Checking for multipart message consistency when receiving (if
\* number of parts to be received is known in advance)": a receive of two parts
\* that returns with is_terminal() has received one message.
\* receive_routing leaves its loop at the null part (FI 116) without asking
\* has_more.  When nothing follows the envelope, receive(2, true) takes the
\* identity and the null part of the next message for the payload and returns.
PartsOfOneMessage ==
  call = Idle /\ result = "ok" /\ is_terminal /\ ~past_end =>
    \A i, j \in 1 .. Len(taken) : taken[i].msg = taken[j].msg
=============================================================================
