---------------------------- MODULE MCHostTextCheck ----------------------------
(* Texts for the IPv6 reference check: up to five pieces of a small       *)
(* alphabet, enough for eight full pieces, "::" at either end or inside,  *)
(* a five-digit hex run, and a dotted quad with an octet of two digits,   *)
(* a leading zero or 256.                                                  *)
EXTENDS HostTextCheck

Ipv6Pieces ==
  {<<":">>, <<":", ":">>, <<"0">>, <<"1">>, <<".">>, <<"f","f","f","f">>,
   <<"1",".","2",".","3">>, <<"a",":","b",":","c",":","d">>, <<"2","5","6">>}


(* Texts for the IPv4 reference check: up to four pieces, enough for four *)
(* parts, a trailing dot, an empty part, hex and octal prefixes, a digit  *)
(* that is no octal digit, and the bounds 255/256, 65535/65536 and 256^3  *)
(* of the parts.                                                          *)
Ipv4Pieces ==
  {<<".">>, <<"1", ".">>, <<"0">>, <<"x">>, <<"f">>, <<"9">>, <<"2","5","5">>,
   <<"2","5","6">>, <<"6","5","5","3","6">>, <<"1","6","7","7","7","2","1","6">>}

HostTexts ==
  {FlattenSeq(w) : w \in BoundedSeq(Ipv6Pieces, 5) \cup BoundedSeq(Ipv4Pieces, 4)}
=============================================================================
