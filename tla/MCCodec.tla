------------------------------- MODULE MCCodec -------------------------------
(* Two parts of any type: strings with digits, blanks and null characters,   *)
(* of which some are prefixes of others, and a number whose text and image differ.  *)
EXTENDS Codec

MCStrings == {<<>>, <<Digit(1)>>, <<Digit(1), Null, Digit(0)>>,
              [i \in 1 .. 5 |-> Digit(1)]}
MCNumbers == {6}
MCAddresses == {Blank}
=============================================================================
