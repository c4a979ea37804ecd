---------------------------- MODULE MCUrlParser ----------------------------
(***************************************************************************)
(* Model-checking instances of UrlParser: each run draws its inputs from *)
(* a fixed prefix followed by every string of a small alphabet up to a     *)
(* length bound, so that every order of the interesting bytes is tried.    *)
(***************************************************************************)
EXTENDS UrlParser

NoneSet == {None}

\* The strings made of at most n of the given pieces.
Words(pieces, n) == {FlattenSeq(w) : w \in BoundedSeq(pieces, n)}

HttpSlashes == <<"h","t","t","p",":","/","/">>


\* A hierarchical http base URL: http://h/b/c
BaseHttp == Some([EmptyUrl EXCEPT !.scheme = HTTP, !.host = Some(<<"h">>),
                                  !.path = <<<<"b">>, <<"c">>>>])
BaseOrNone == {None, BaseHttp}

(* Inputs that make the loop move backwards: a scheme that turns out not  *)
(* to be one (reset), a relative reference (decrement), an '@' after a    *)
(* host-like prefix (restart_from_buffer).                                 *)
RewindPieces == {<<"a">>, <<":">>, <<"/">>, <<"@">>}
RewindInputs == {p \o w : p \in {<<>>, HttpSlashes}, w \in Words(RewindPieces, 3)}

\* file:///C:/b and x://h/b, a file and a non-special hierarchical base.
BaseFile  == Some([EmptyUrl EXCEPT !.scheme = FILE, !.host = Some(<<>>),
                                   !.path = <<<<"C", ":">>, <<"b">>>>])
BaseOther == Some([EmptyUrl EXCEPT !.scheme = <<"x">>, !.host = Some(<<"h">>),
                                   !.path = <<<<"b">>>>])
PathBases == {BaseHttp, BaseFile, BaseOther}

(* Paths: dot segments in both spellings, both slashes, a drive letter,  *)
(* after nothing (a relative reference) or after an absolute scheme.       *)
PathPieces == {<<".">>, <<"/">>, <<"a">>, <<"%","2","e">>, <<"\\">>, <<"C",":">>}
PathInputs == {p \o w : p \in {<<>>, <<"x", ":">>, <<"f","i","l","e",":">>},
                        w \in Words(PathPieces, 4)}

\* http:// followed by up to two of a host byte, '@' and ':': an empty
\* host at the end, after credentials, and before a port.
HangInputs == {HttpSlashes \o w : w \in Words({<<"a">>, <<"@">>, <<":">>}, 2)}

\* Ports made of the digits of 65535: http://h:<digits>
PortInputs == {HttpSlashes \o <<"h", ":">> \o w : w \in Words({<<"6">>, <<"5">>, <<"3">>}, 5)}

\* Non-special authorities: x://<host> with upper case, a dot, digits, a
\* percent sign and an '@'.
OpaqueHostInputs ==
  {<<"x", ":", "/", "/">> \o w : w \in Words({<<"A">>, <<"1">>, <<".">>, <<"%">>, <<"@">>}, 3)}

\* Hosts of digits, dots, a hex prefix and a letter: http://<host>/
Ipv4Inputs == {HttpSlashes \o w \o <<"/">> : w \in Words({<<"1">>, <<"0">>, <<"x">>, <<"a">>, <<".">>}, 3)}
(* Relative references, queries and fragments: every base kind (http with *)
(* credentials, port and query; file with and without a drive letter;     *)
(* non-special; cannot-be-a-base) against slashes, '?', '#' and a drive.   *)
BaseHttpFull == Some([EmptyUrl EXCEPT !.scheme = HTTP, !.username = <<"u">>,
                                      !.host = Some(<<"h">>), !.port = Some(8),
                                      !.path = <<<<"b">>, <<"c">>>>, !.query = Some(<<"q">>)])
BaseFileHost == Some([EmptyUrl EXCEPT !.scheme = FILE, !.host = Some(<<"h">>),
                                      !.path = <<<<"b">>>>])
\* m:x, a cannot-be-a-base URL
BaseCbbUrl == Some([EmptyUrl EXCEPT !.scheme = <<"m">>, !.path = <<<<"x">>>>,
                                    !.cannot_be_a_base_url = TRUE])
RelativeBases == {BaseHttpFull, BaseFile, BaseFileHost, BaseOther, BaseCbbUrl}
RelativePieces == {<<"/">>, <<"\\">>, <<"?">>, <<"#">>, <<"a">>, <<"C", ":">>}
RelativeInputs == {p \o w : p \in {<<>>, <<"x", ":">>, <<"f","i","l","e",":">>,
                                   <<"h","t","t","p",":">>},
                            w \in Words(RelativePieces, 4)}

\* References resolved against a base: the path inputs and the relative
\* inputs against every base of the two.
ResolveInputs == PathInputs \cup RelativeInputs
ResolveBases == PathBases \cup RelativeBases \cup {None}

(* Setters: basic_parse entered at a state override, on a given record.   *)
OverrideTargets == {"port", "path_start", "query", "fragment", "file_host"}
\* The overrides whose early return the code leaves out.
NoReturnTargets == {"scheme_start", "hostname"}
UrlHttpFull == BaseHttpFull
UrlHttpBare == Some([EmptyUrl EXCEPT !.scheme = HTTP, !.host = Some(<<"h">>),
                                     !.path = <<<<"p">>>>])
UrlFileHost == BaseFileHost
UrlOther    == BaseOther
SetterUrls  == {UrlHttpFull, UrlHttpBare, UrlFileHost, UrlOther}
SetterOverrides == {Some(t) : t \in OverrideTargets}
NoReturnOverrides == {Some(t) : t \in NoReturnTargets}
SetterPieces == {<<"8">>, <<"a">>, <<"/">>, <<"?">>, <<"#">>, <<":">>, <<"\\">>}
SetterInputs == Words(SetterPieces, 3)
(* The scheme setter: scheme names and separators on special, non-special *)
(* and file records, one with credentials and a port, one without a host. *)
UrlFileEmpty == Some([EmptyUrl EXCEPT !.scheme = FILE, !.host = Some(<<>>),
                                      !.path = <<<<"x">>>>])
SchemeUrls == {UrlHttpFull, UrlHttpBare, UrlOther, UrlFileEmpty}
SchemePieces == {HTTP, FILE, <<"x">>, <<":">>, <<"/">>}
SchemeInputs == Words(SchemePieces, 3)
SchemeOverrides == {Some("scheme_start")}

(* The host and hostname setters, which on a file record hand over to     *)
(* parse_file_host: "localhost", an upper-case letter, a percent-encoded  *)
(* one, and the bytes that end a file host.                                *)
HostSetterOverrides == {Some("host"), Some("hostname")}
HostSetterInputs ==
  Words({LOCALHOST, <<"A">>, <<"%","4","1">>, <<"/">>, <<"\\">>, <<"?">>}, 2)

\* Every setter that parses on a record: the returning ones and the scheme
\* setter, on the inputs and records of both.
AllSetterInputs == SetterInputs \cup SchemeInputs \cup HostSetterInputs
AllSetterOverrides == SetterOverrides \cup SchemeOverrides \cup HostSetterOverrides
AllSetterUrls == SetterUrls \cup SchemeUrls

\* OverrideChangesOnlyItsComponent for the port, path_start, query,
\* fragment and file_host setters, whose handlers return success right
\* after their component (the scheme and hostname setters do not: see
\* MCUrlParser_setter_noreturn.cfg).
ReturningSetterChangesOnlyItsComponent ==
  override \in SetterOverrides => OverrideChangesOnlyItsComponent
=============================================================================
