---------------------------- MODULE MCRoundTrip ----------------------------
(* Inputs for parse, serialize, parse again.                              *)
EXTENDS RoundTrip

NoneSet == {None}

HttpSlashes == <<"h","t","t","p",":","/","/">>

\* Round trips of non-special URLs with a host: x://h followed by slashes
\* and a path byte.
OtherHost == <<"x", ":", "/", "/", "h">>

RoundTripInputs ==
  {OtherHost \o FlattenSeq(w) : w \in BoundedSeq({<<"/">>, <<"a">>}, 3)}

(* Absolute http URLs, http:// followed by one of three families:       *)
(*  - authorities: several '@' and ':', an empty host, a percent sign, a *)
(*    port that may be the default one, up to five pieces;                *)
(*  - IPv6 literals: brackets around ":", "::" and a digit, and an "@"   *)
(*    and a port ":1" inside or outside them, up to five pieces;         *)
(*  - up to four authority, path, query and fragment bytes;              *)
(*  - a host and ports written with leading zeros, up to four pieces.     *)
AuthorityPieces == {<<"a">>, <<"@">>, <<":">>, <<"/">>, <<"8","0">>, <<"%">>}
BracketPieces == {<<"[">>, <<"]">>, <<":">>, <<":", ":">>, <<"1">>, <<"@">>}
ZeroPortPieces == {<<"h", ":">>, <<"0">>, <<"8","0">>}
SpecialRoundTripPieces ==
  {<<"a">>, <<"@">>, <<":">>, <<"/">>, <<".">>, <<"?">>, <<"#">>, <<"%">>}

AbsoluteHttpInputs ==
  {HttpSlashes \o FlattenSeq(w)
     : w \in BoundedSeq(AuthorityPieces, 5) \cup BoundedSeq(BracketPieces, 5)
               \cup BoundedSeq(SpecialRoundTripPieces, 4) \cup BoundedSeq(ZeroPortPieces, 4)}
=============================================================================
