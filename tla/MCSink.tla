------------------------------- MODULE MCSink -------------------------------
(* Instances of Sink: every option set, SimpleRouting, the lone null part   *)
(* of XRouting and a reply with an envelope of two parts.                   *)
EXTENDS Sink

AllOptions == SUBSET Flags
MCEnvelopes == {0, 1, 2}
MCLinked == {1}
=============================================================================
