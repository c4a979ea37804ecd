----------------------------- MODULE RoundTrip -----------------------------
(***************************************************************************)
(* parse, serialize, parse again: the composition the spec's round-trip  *)
(* properties P5 and P8 are about.  The parser runs to completion on an  *)
(* input (parse() is basic_parse without url or override); its record is *)
(* serialized and the parser is started again on that string, with the   *)
(* same base (an absolute string does not use it).                        *)
(***************************************************************************)
EXTENDS UrlParser

VARIABLES
  first,        \* the record of the first parse, None before it returned
  firstFailed,  \* a handler of the first parse returned fail
  round         \* 1 while the first parse runs, 2 during the second

rtVars == <<vars, first, firstFailed, round>>

RTInit == Init /\ first = None /\ firstFailed = FALSE /\ round = 1

\* The first parse returned a record: serialize it and parse the result.
Reparse ==
  /\ round = 1 /\ phase = "done"
  /\ first' = Some(url) /\ firstFailed' = failed /\ round' = 2
  /\ input' = Sanitize(Serialize(url))
  /\ validationError' = SanitizeError(Serialize(url))
  /\ url' = EmptyUrl /\ state' = "scheme_start"
  /\ it' = 0 /\ buffer' = <<>> /\ phase' = "running" /\ failed' = FALSE /\ steps' = 0
  /\ atFlag' = FALSE /\ squareBracesFlag' = FALSE /\ passwordTokenSeenFlag' = FALSE
  /\ UNCHANGED <<base, override, given>>

RTNext ==
  \/ Handlers /\ UNCHANGED <<first, firstFailed, round>>
  \/ Reparse
  \/ Done /\ (round = 2 \/ phase # "done") /\ UNCHANGED <<first, firstFailed, round>>

RTSpec == RTInit /\ [][RTNext]_rtVars

\* The record of the first parse: the one under construction, then the
\* one it returned.
FirstUrl == IF round = 1 THEN url ELSE Val(first)

RA == INSTANCE UrlAuthority WITH
        username <- FirstUrl.username, password <- FirstUrl.password,
        host <- FirstUrl.host, port <- FirstUrl.port,
        baseAuthority <- AuthorityOf(EmptyUrl)

\* The first parse of an absolute URL builds its authority as UrlAuthority
\* allows: parse_authority appends userinfo only before the host, and
\* password_token_seen_flag, kept across every '@', fixes the username
\* once a ':' has started the password; parse_hostname sets the host once
\* and parse_port the port after it.
FirstAuthorityRefines == RA!Spec

\* P5 and P8: parsing the serialization of a record parsed without a fail
\* succeeds, again without a fail, and gives back the same record.
RoundTripStable ==
  (round = 2 /\ ~firstFailed /\ Returned) => ParsedWithoutFail /\ url = Val(first)
=============================================================================
