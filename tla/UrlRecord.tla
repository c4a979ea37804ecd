----------------------------- MODULE UrlRecord -----------------------------
(***************************************************************************)
(* The URL record, the scheme registry and the serializer.                *)
(*                                                                         *)
(* An optional value of the code is a sequence of length 0 (nullopt) or 1.*)
(***************************************************************************)
EXTENDS UrlChars

None      == <<>>
Some(x)   == <<x>>
IsSome(o) == o # <<>>
Val(o)    == o[1]


FILE  == <<"f","i","l","e">>
HTTP  == <<"h","t","t","p">>
HTTPS == <<"h","t","t","p","s">>
FTP   == <<"f","t","p">>
WS    == <<"w","s">>
WSS   == <<"w","s","s">>
LOCALHOST == <<"l","o","c","a","l","h","o","s","t">>

\* url_schemes: the special schemes and their default ports.
DefaultPorts == {<<FTP, 21>>, <<HTTP, 80>>, <<HTTPS, 443>>, <<WS, 80>>, <<WSS, 443>>}
SpecialSchemes == {FTP, FILE, HTTP, HTTPS, WS, WSS}

IsSpecialScheme(s) == s \in SpecialSchemes

IsDefaultPort(s, p) == <<s, p>> \in DefaultPorts

\* url_record{}: the value a parse without a given url starts from.
EmptyUrl ==
  [scheme |-> <<>>, username |-> <<>>, password |-> <<>>, host |-> None,
   port |-> None, path |-> <<>>, query |-> None, fragment |-> None,
   cannot_be_a_base_url |-> FALSE]

IsSpecial(u) == IsSpecialScheme(u.scheme)
IncludesCredentials(u) == u.username # <<>> \/ u.password # <<>>

(***************************************************************************)
(* serialize(url): scheme ":", then "//" and the authority when there is  *)
(* a host ("//" alone for a file URL without one), the path, "?" query,   *)
(* "#" fragment.  A host holding ':' is an IPv6 address and is bracketed. *)
(***************************************************************************)
HostSerialization(h) == IF ":" \in Range(h) THEN <<"[">> \o h \o <<"]">> ELSE h

AuthorityText(u) ==
  (IF IncludesCredentials(u)
     THEN u.username \o (IF u.password # <<>> THEN <<":">> \o u.password ELSE <<>>)
            \o <<"@">>
     ELSE <<>>)
  \o HostSerialization(Val(u.host))
  \o (IF IsSome(u.port) THEN <<":">> \o DecStr(Val(u.port)) ELSE <<>>)

PathText(u) ==
  IF u.cannot_be_a_base_url THEN u.path[1]
  ELSE FoldLeft(LAMBDA acc, seg : acc \o <<"/">> \o seg, <<>>, u.path)

Serialize(u) ==
  u.scheme \o <<":">>
  \o (IF IsSome(u.host) THEN <<"/","/">> \o AuthorityText(u)
      ELSE IF u.scheme = FILE THEN <<"/","/">> ELSE <<>>)
  \o PathText(u)
  \o (IF IsSome(u.query) THEN <<"?">> \o Val(u.query) ELSE <<>>)
  \o (IF IsSome(u.fragment) THEN <<"#">> \o Val(u.fragment) ELSE <<>>)
=============================================================================
