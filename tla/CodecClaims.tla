----------------------------- MODULE CodecClaims -----------------------------
(* What the comments of the library say of text types and init_msg does not  *)
(* do, with a run that finds the part that breaks it.                        *)
EXTENDS Codec

ClaimStrings == {}
ClaimNumbers == {1, 6}
ClaimAddresses == {}

\* MetaTypes.hpp, of ZMQMESSAGE_TEXT_TYPE: "It will always be sent and received
\* in text mode, independent of current stream state."
TextTypeIsText ==
  \A i \in DOMAIN parts :
    parts[i].type = "text_type" => parts[i].bytes = text[parts[i].value]
=============================================================================
