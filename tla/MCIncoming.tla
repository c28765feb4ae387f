----------------------------- MODULE MCIncoming -----------------------------
(* Payloads of one to three parts, an X message with an envelope, and the   *)
(* two malformed ones: an envelope alone, and one that never ends.          *)
EXTENDS Incoming

MCShapes == {<<"body">>, <<"body", "body", "body">>,
             <<"id", "null", "body", "body">>, <<"id", "null">>, <<"id">>}
MCPolicies == {"Simple", "X"}
MCCapacities == {1, 4}
MCCounts == {0, 1, 2}
=============================================================================
