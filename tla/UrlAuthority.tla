---------------------------- MODULE UrlAuthority ----------------------------
(***************************************************************************)
(* What one parse promises about a URL's authority (username, password,  *)
(* host and port), as a state machine of its own.                          *)
(*                                                                         *)
(* A parse starts with no credentials, no host and no port.  A relative   *)
(* reference may take the base's authority whole, and only while nothing *)
(* of its own is set.  Otherwise the credentials come first: while there *)
(* is no host both only grow, and once there is a password the username  *)
(* is final.  The host is set once.  The port comes after the host and is *)
(* set once.  The one later change of a host is the drive letter quirk of *)
(* a file path, which empties the host of a URL without credentials or    *)
(* port.                                                                   *)
(***************************************************************************)
EXTENDS UrlRecord

VARIABLES
  username, password,  \* sequences of bytes
  host,                \* None or Some(bytes)
  port,                \* None or Some(number)
  baseAuthority        \* the base's four fields as a record (fixed)

avars == <<username, password, host, port, baseAuthority>>

NoAuthority ==
  username = <<>> /\ password = <<>> /\ host = None /\ port = None

\* A relative reference takes all four fields of its base at once.
Inherit ==
  /\ NoAuthority
  /\ username' = baseAuthority.username /\ password' = baseAuthority.password
  /\ host' = baseAuthority.host /\ port' = baseAuthority.port

\* The userinfo before an '@': both parts only grow, the username only
\* until a password has begun.
Userinfo ==
  /\ host = None /\ port = None
  /\ IsPrefix(username, username') /\ IsPrefix(password, password')
  /\ password # <<>> => username' = username
  /\ UNCHANGED <<host, port>>

SetHost ==
  /\ host = None /\ host' # None
  /\ UNCHANGED <<username, password, port>>

SetPort ==
  /\ host # None /\ port = None
  /\ UNCHANGED <<username, password, host>>

\* A file path that starts with a drive letter leaves the host empty.
EmptyFileHost ==
  /\ host # None /\ host' = Some(<<>>)
  /\ username = <<>> /\ password = <<>> /\ port = None
  /\ UNCHANGED <<username, password, port>>

Init == NoAuthority

Next ==
  /\ UNCHANGED baseAuthority
  /\ \/ Inherit \/ Userinfo \/ SetHost \/ SetPort \/ EmptyFileHost
     \/ UNCHANGED <<username, password, host, port>>

Spec == Init /\ [][Next]_avars
=============================================================================
