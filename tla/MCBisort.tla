------------------------------ MODULE MCBisort ------------------------------
(***************************************************************************)
(* Bisort with three elements that are in one order as numbers and in      *)
(* another as strings.                                                     *)
(***************************************************************************)
EXTENDS Bisort, TLC

MCExtra == [INT |-> "38", STRING |-> "100"]
MCRank == [INT |-> ("9" :> 1 @@ "38" :> 2 @@ "100" :> 3),
           STRING |-> ("100" :> 1 @@ "38" :> 2 @@ "9" :> 3)]
=============================================================================
