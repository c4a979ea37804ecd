----------------------------- MODULE UrlParser -----------------------------
(***************************************************************************)
(* basic_parse: the url_parser_context state machine and its driver loop. *)
(*                                                                         *)
(* One step is one call of the handler of the current state on the byte  *)
(* under the iterator, followed by what the driver does with the handler's*)
(* result: "increment" advances the iterator (or ends the loop when it is*)
(* at the end), "continue" calls the next handler on the same byte,       *)
(* "success" and "fail" return.  The iterator it is a 0-based index into  *)
(* input; at it = Len(input) the handler sees the string's terminating    *)
(* NUL, which is the EOF the handlers test with is_eof().                  *)
(***************************************************************************)
EXTENDS UrlHost

CONSTANTS
  RawInputs,     \* the strings basic_parse may be called with
  Bases,         \* the base URLs it may be given (None or Some(record))
  Overrides,     \* the state overrides (None or Some(state))
  StartUrls,     \* the url argument (None or Some(record))
  StepSlack      \* K of the spec's bound of 4 * len(input) + K handler calls

VARIABLES
  input,            \* the sanitized input
  base, override,   \* the arguments, constant during a parse
  state,            \* url_parser_context::state
  it,               \* the iterator, an index into input
  buffer,           \* the accumulation buffer
  url,              \* the record under construction
  atFlag, squareBracesFlag, passwordTokenSeenFlag,
  validationError,
  phase,            \* "running", or how basic_parse returned
  failed,           \* a handler returned fail in this parse (history)
  steps,            \* handler calls made so far (history, for the bound)
  given             \* the url argument as passed (history, for the overrides)

vars == <<input, base, override, state, it, buffer, url, atFlag,
          squareBracesFlag, passwordTokenSeenFlag, validationError, phase, failed,
          steps, given>>

States == {"scheme_start", "scheme", "no_scheme", "special_relative_or_authority",
           "path_or_authority", "relative", "relative_slash",
           "special_authority_slashes", "special_authority_ignore_slashes",
           "authority", "host", "hostname", "port", "file", "file_slash",
           "file_host", "path_start", "path", "cannot_be_a_base_url_path",
           "query", "fragment"}

-----------------------------------------------------------------------------
(* Input sanitization, done by the url_parser_context constructor.        *)

\* The bytes remove_leading/trailing_whitespace strip: C isspace and the
\* table of is_whitespace (whose terminating NUL is part of the table).
StripSet == Spaces \cup {NUL, ESC}

RECURSIVE DropLeading(_)
DropLeading(s) == IF s # <<>> /\ s[1] \in StripSet THEN DropLeading(Tail(s)) ELSE s

RemoveLeadingWhitespace(s)  == DropLeading(s)
RemoveTrailingWhitespace(s) == Reverse(DropLeading(Reverse(s)))
RemoveTabsAndNewlines(s)    == SelectSeq(s, LAMBDA ch : ch \notin {TAB, CR, LF})

Sanitize(s) ==
  RemoveTabsAndNewlines(RemoveTrailingWhitespace(RemoveLeadingWhitespace(s)))

SanitizeError(s) ==
  LET a == RemoveLeadingWhitespace(s)
      b == RemoveTrailingWhitespace(a)
  IN a # s \/ b # a \/ RemoveTabsAndNewlines(b) # b

-----------------------------------------------------------------------------
(* Helpers of url_parser_context.                                          *)

CharAt(p) == IF p < Len(input) THEN input[p + 1] ELSE NUL
c == CharAt(it)
IsEof == it = Len(input)

\* remaining_starts_with(it, last, chars): the bytes after it are chars.
RemainingStartsWith(p, chars) == \A i \in 1..Len(chars) : CharAt(p + i) = chars[i]

IsWindowsDriveLetterStr(s) == Len(s) >= 2 /\ s[1] \in Alphas /\ s[2] \in {":", "|"}
IsWindowsDriveLetterAt(p) ==
  Len(input) - p >= 2 /\ CharAt(p) \in Alphas /\ CharAt(p + 1) \in {":", "|"}

\* Variant: the spelling "%2e" of "." is missed.
IsSingleDotPathSegmentPlain(s) == LowerStr(s) = <<".">>
IsSingleDotPathSegment(s) == LowerStr(s) \in {<<".">>, <<"%","2","e">>}
\* Variant: the mixed spellings ".%2e" and "%2e." are missed.
IsDoubleDotPathSegmentPlain(s) == LowerStr(s) \in {<<".",".">>, <<"%","2","e","%","2","e">>}

IsDoubleDotPathSegment(s) ==
  LowerStr(s) \in {<<".",".">>, <<".","%","2","e">>, <<"%","2","e",".">>,
                   <<"%","2","e","%","2","e">>}

\* Variant: a file path's lone drive letter is popped too.
ShortenPathNoDrive(scheme, path) ==
  IF path = <<>> THEN path ELSE SubSeq(path, 1, Len(path) - 1)

ShortenPath(scheme, path) ==
  IF path = <<>> \/ (scheme = FILE /\ Len(path) = 1 /\ IsWindowsDriveLetterStr(path[1]))
    THEN path ELSE SubSeq(path, 1, Len(path) - 1)

\* is_url_code_point; its table lists '/' twice and lacks ';'.
UrlCodePoints == Alnums \cup {"!", "$", "&", "'", "(", ")", "*", "+", ",", "-",
                              ".", "/", ":", "=", "?", "@", "_", "~"}

\* is_pct_encoded: the terminating NUL read past the end is no hex digit.
IsPctEncodedAt(p) == CharAt(p) = "%" /\ CharAt(p + 1) \in HexDigits
                     /\ CharAt(p + 2) \in HexDigits

\* is_valid_port: strtoul consumes all of a non-empty digit string whose
\* value is below numeric_limits<uint16_t>::max().
RECURSIVE DecValue(_)
DecValue(s) == IF s = <<>> THEN 0 ELSE DecValue(Front(s)) * 10 + HexValue(Last(s))
IsValidPort(s) == s # <<>> /\ DecValue(s) < 65535

\* Variant: the base's port is not taken.
WithAuthorityNoPort(u, b) ==
  [u EXCEPT !.username = b.username, !.password = b.password, !.host = b.host]

\* The fields a relative reference takes from its base.
WithAuthority(u, b) ==
  [u EXCEPT !.username = b.username, !.password = b.password,
            !.host = b.host, !.port = b.port]

\* The parse loop of the '@' branch of parse_authority over the buffer:
\* the first unseen ':' switches to the password, all else is encoded.
UserinfoStep(acc, ch) ==
  IF ch = ":" /\ ~acc.seen THEN [acc EXCEPT !.seen = TRUE]
  ELSE IF acc.seen THEN [acc EXCEPT !.password = @ \o PctEncode(ch, UserinfoSet)]
  ELSE [acc EXCEPT !.username = @ \o PctEncode(ch, UserinfoSet)]

-----------------------------------------------------------------------------
(* The driver's treatment of a handler's result; p is the iterator after   *)
(* the handler's own increment() / decrement() / reset() calls.            *)

\* Variant: the iterator advanced past the end before the loop test.
LoopTailPastEnd(p) == IF p = Len(input) THEN it' = p + 1 /\ phase' = "done"
                      ELSE it' = p + 1 /\ phase' = "running"

\* The tail of the loop body: return the record at the end of the input,
\* otherwise advance.
LoopTail(p) == IF p = Len(input) THEN it' = p /\ phase' = "done"
               ELSE it' = p + 1 /\ phase' = "running"

Increment(p) == LoopTail(p) /\ UNCHANGED failed
Continue(p)  == it' = p /\ phase' = "running" /\ UNCHANGED failed
Succeed      == it' = it /\ phase' = "success" /\ UNCHANGED failed

\* url_parse_action::fail.  The handlers return a plain url_parse_action,
\* so the !action test never holds, and the switch has no case for fail:
\* the loop goes on as for increment, and returns the record at the end.
Fail(p) == LoopTail(p) /\ failed' = TRUE

Flags == <<atFlag, squareBracesFlag, passwordTokenSeenFlag>>
Fixed == <<input, base, override, given>>

\* The history counter saturates one above the bound StepBound checks, so
\* that a loop that never returns is a cycle of states.
StepCap == 4 * Len(input) + StepSlack + 1

\* One iteration of the while loop of basic_parse, which calls the handler
\* parse_funcs maps the current state to (one of S).
Dispatch(S) ==
  /\ phase = "running" /\ state \in S
  /\ steps' = IF steps < StepCap THEN steps + 1 ELSE StepCap
  /\ UNCHANGED Fixed

SetState(s) == state' = s

Goto(s, p) == state' = s /\ Increment(p)

Url(b) == Val(b)     \* the record of a present optional

-----------------------------------------------------------------------------
(* parse_scheme_start                                                      *)

SchemeStart ==
  /\ Dispatch({"scheme_start"})
  /\ UNCHANGED <<url, Flags>>
  /\ \/ /\ c \in Alphas
        /\ buffer' = Append(buffer, ToLower(c))
        /\ Goto("scheme", it)
        /\ UNCHANGED validationError
     \/ /\ c \notin Alphas /\ override = None
        /\ SetState("no_scheme") /\ Continue(0)
        /\ UNCHANGED <<buffer, validationError>>
     \/ /\ c \notin Alphas /\ override # None
        /\ validationError' = TRUE /\ Fail(it)
        /\ UNCHANGED <<state, buffer>>

(* parse_scheme                                                            *)

\* Variant: the special to non-special check is left out.
OverrideRejectsToSpecialOnly(s) ==
  \/ ~IsSpecial(url) /\ IsSpecialScheme(s)
  \/ (IncludesCredentials(url) \/ IsSome(url.port)) /\ s = FILE
  \/ url.scheme = FILE /\ (url.host = None \/ Val(url.host) = <<>>)

\* The checks a scheme override makes before committing the new scheme.
OverrideRejects(s) ==
  \/ IsSpecial(url) /\ ~IsSpecialScheme(s)
  \/ ~IsSpecial(url) /\ IsSpecialScheme(s)
  \/ (IncludesCredentials(url) \/ IsSome(url.port)) /\ s = FILE
  \/ url.scheme = FILE /\ (url.host = None \/ Val(url.host) = <<>>)

\* url.scheme = buffer, then the choice of the state after the ':'.
CommitScheme(s) ==
  LET u == [url EXCEPT !.scheme = s] IN
  \/ /\ s = FILE
     /\ url' = u
     /\ validationError' = (validationError \/ ~RemainingStartsWith(it, <<"/","/">>))
     /\ Goto("file", it)
  \/ /\ s # FILE /\ IsSpecialScheme(s) /\ base # None /\ Url(base).scheme = s
     /\ url' = u /\ UNCHANGED validationError
     /\ Goto("special_relative_or_authority", it)
  \/ /\ s # FILE /\ IsSpecialScheme(s) /\ ~(base # None /\ Url(base).scheme = s)
     /\ url' = u /\ UNCHANGED validationError
     /\ Goto("special_authority_slashes", it)
  \/ /\ ~IsSpecialScheme(s) /\ RemainingStartsWith(it, <<"/">>)
     /\ url' = u /\ UNCHANGED validationError
     /\ Goto("path_or_authority", it + 1)
  \/ /\ ~IsSpecialScheme(s) /\ ~RemainingStartsWith(it, <<"/">>)
     /\ url' = [u EXCEPT !.cannot_be_a_base_url = TRUE, !.path = Append(@, <<>>)]
     /\ UNCHANGED validationError
     /\ Goto("cannot_be_a_base_url_path", it)

Scheme ==
  /\ Dispatch({"scheme"})
  /\ UNCHANGED Flags
  /\ \/ /\ c \in Alnums \cup {"+", "-", "."}
        /\ buffer' = Append(buffer, ToLower(c))
        /\ Increment(it)
        /\ UNCHANGED <<state, url, validationError>>
     \/ /\ c = ":" /\ override # None /\ OverrideRejects(buffer)
        /\ Fail(it)
        /\ UNCHANGED <<state, buffer, url, validationError>>
     \/ /\ c = ":" /\ ~(override # None /\ OverrideRejects(buffer))
        /\ buffer' = <<>>
        /\ CommitScheme(buffer)
     \/ /\ c \notin Alnums \cup {"+", "-", ".", ":"} /\ override = None
        /\ buffer' = <<>>
        /\ SetState("no_scheme") /\ Continue(0)
        /\ UNCHANGED <<url, validationError>>
     \/ /\ c \notin Alnums \cup {"+", "-", ".", ":"} /\ override # None
        /\ Increment(it)
        /\ UNCHANGED <<state, buffer, url, validationError>>

(* parse_no_scheme                                                         *)

\* The base is a cannot-be-a-base URL.
BaseCbb == base # None /\ Url(base).cannot_be_a_base_url

\* A fragment-only reference to a cannot-be-a-base base: its scheme, path
\* and query, an empty fragment, and the flag.
CopyOpaqueBase(u, b) ==
  [u EXCEPT !.scheme = b.scheme, !.path = b.path, !.query = b.query,
            !.fragment = Some(<<>>), !.cannot_be_a_base_url = TRUE]

NoScheme ==
  /\ Dispatch({"no_scheme"})
  /\ UNCHANGED <<buffer, Flags>>
  /\ \/ /\ base = None \/ (BaseCbb /\ c # "#")
        /\ validationError' = TRUE /\ Fail(it)
        /\ UNCHANGED <<state, url>>
     \/ /\ base # None /\ Url(base).cannot_be_a_base_url /\ c = "#"
        /\ url' = CopyOpaqueBase(url, Url(base))
        /\ Goto("fragment", it)
        /\ UNCHANGED validationError
     \/ /\ base # None /\ ~Url(base).cannot_be_a_base_url /\ Url(base).scheme # FILE
        /\ SetState("relative") /\ Continue(0)
        /\ UNCHANGED <<url, validationError>>
     \/ /\ base # None /\ ~Url(base).cannot_be_a_base_url /\ Url(base).scheme = FILE
        /\ SetState("file") /\ Continue(0)
        /\ UNCHANGED <<url, validationError>>

(* parse_special_relative_or_authority, parse_path_or_authority            *)

SpecialRelativeOrAuthority ==
  /\ Dispatch({"special_relative_or_authority"})
  /\ UNCHANGED <<buffer, url, Flags>>
  /\ \/ /\ c = "/" /\ RemainingStartsWith(it, <<"/">>)
        /\ Goto("special_authority_ignore_slashes", it + 1)
        /\ UNCHANGED validationError
     \/ /\ ~(c = "/" /\ RemainingStartsWith(it, <<"/">>))
        /\ validationError' = TRUE
        /\ Goto("relative", it - 1)

PathOrAuthority ==
  /\ Dispatch({"path_or_authority"})
  /\ UNCHANGED <<buffer, url, Flags, validationError>>
  /\ \/ c = "/" /\ Goto("authority", it)
     \/ c # "/" /\ Goto("path", it - 1)

(* parse_relative, parse_relative_slash                                    *)

Relative ==
  LET b == Url(base)
      u == [url EXCEPT !.scheme = b.scheme]
  IN
  /\ Dispatch({"relative"})
  /\ UNCHANGED <<buffer, Flags>>
  /\ \/ /\ IsEof
        /\ url' = [WithAuthority(u, b) EXCEPT !.path = b.path, !.query = b.query]
        /\ Increment(it)
        /\ UNCHANGED <<state, validationError>>
     \/ /\ ~IsEof /\ c = "/"
        /\ url' = u /\ Goto("relative_slash", it)
        /\ UNCHANGED validationError
     \/ /\ ~IsEof /\ c = "?"
        /\ url' = [WithAuthority(u, b) EXCEPT !.path = b.path, !.query = Some(<<>>)]
        /\ Goto("query", it)
        /\ UNCHANGED validationError
     \/ /\ ~IsEof /\ c = "#"
        /\ url' = [WithAuthority(u, b) EXCEPT !.path = b.path, !.query = b.query,
                                              !.fragment = Some(<<>>)]
        /\ Goto("fragment", it)
        /\ UNCHANGED validationError
     \/ /\ ~IsEof /\ c \notin {"/", "?", "#"} /\ IsSpecial(u) /\ c = "\\"
        /\ url' = u /\ validationError' = TRUE
        /\ Goto("relative_slash", it)
     \/ /\ ~IsEof /\ c \notin {"/", "?", "#"} /\ ~(IsSpecial(u) /\ c = "\\")
        /\ url' = [WithAuthority(u, b) EXCEPT
                     !.path = IF b.path = <<>> THEN <<>> ELSE Front(b.path)]
        /\ Goto("path", it - 1)
        /\ UNCHANGED validationError

RelativeSlash ==
  /\ Dispatch({"relative_slash"})
  /\ UNCHANGED <<buffer, Flags>>
  /\ \/ /\ IsSpecial(url) /\ c \in {"/", "\\"}
        /\ validationError' = (validationError \/ c = "\\")
        /\ Goto("special_authority_ignore_slashes", it)
        /\ UNCHANGED url
     \/ /\ ~(IsSpecial(url) /\ c \in {"/", "\\"}) /\ c = "/"
        /\ Goto("authority", it)
        /\ UNCHANGED <<url, validationError>>
     \/ /\ ~(IsSpecial(url) /\ c \in {"/", "\\"}) /\ c # "/"
        /\ url' = WithAuthority(url, Url(base))
        /\ Goto("path", it - 1)
        /\ UNCHANGED validationError

(* parse_special_authority_slashes, parse_special_authority_ignore_slashes *)

SpecialAuthoritySlashes ==
  /\ Dispatch({"special_authority_slashes"})
  /\ UNCHANGED <<buffer, url, Flags>>
  /\ \/ /\ c = "/" /\ RemainingStartsWith(it, <<"/">>)
        /\ Goto("special_authority_ignore_slashes", it + 1)
        /\ UNCHANGED validationError
     \/ /\ ~(c = "/" /\ RemainingStartsWith(it, <<"/">>))
        /\ validationError' = TRUE
        /\ Goto("special_authority_ignore_slashes", it - 1)

SpecialAuthorityIgnoreSlashes ==
  /\ Dispatch({"special_authority_ignore_slashes"})
  /\ UNCHANGED <<buffer, url, Flags>>
  /\ \/ /\ c \notin {"/", "\\"}
        /\ Goto("authority", it - 1)
        /\ UNCHANGED validationError
     \/ /\ c \in {"/", "\\"}
        /\ validationError' = TRUE
        /\ Increment(it)
        /\ UNCHANGED state

(* parse_authority                                                         *)

\* The bytes that end the authority, the host or the port.
EndsAuthority == IsEof \/ c \in {"/", "?", "#"} \/ (IsSpecial(url) /\ c = "\\")

\* Variant: the earlier '@' is not re-inserted.
AtTextNoPrefix(buf) == buf

\* The buffer of a second or later '@', behind the "%40" of the one before.
AtText(buf) == IF atFlag THEN <<"%", "4", "0">> \o buf ELSE buf

\* Variant: the password flag starts anew at every '@'.
UserinfoStartReset ==
  [username |-> url.username, password |-> url.password, seen |-> FALSE]

\* The loop over the buffer starts from the credentials so far and from
\* password_token_seen_flag, which an earlier '@' may have set.
UserinfoStart ==
  [username |-> url.username, password |-> url.password, seen |-> passwordTokenSeenFlag]

Authority ==
  /\ Dispatch({"authority"})
  /\ UNCHANGED squareBracesFlag
  /\ \/ /\ c = "@"
        /\ LET text == AtText(buffer)
               acc  == FoldLeft(UserinfoStep, UserinfoStart, text)
           IN /\ url' = [url EXCEPT !.username = acc.username, !.password = acc.password]
              /\ passwordTokenSeenFlag' = acc.seen
        /\ atFlag' = TRUE /\ validationError' = TRUE
        /\ buffer' = <<>>
        /\ Increment(it)
        /\ UNCHANGED state
     \/ /\ c # "@" /\ EndsAuthority /\ atFlag /\ buffer = <<>>
        /\ validationError' = TRUE /\ Fail(it)
        /\ UNCHANGED <<state, buffer, url, atFlag, passwordTokenSeenFlag>>
     \/ /\ c # "@" /\ EndsAuthority /\ ~(atFlag /\ buffer = <<>>)
        \* restart_from_buffer: back over the buffer and the byte before it
        /\ buffer' = <<>>
        /\ Goto("host", it - (Len(buffer) + 1))
        /\ UNCHANGED <<url, atFlag, passwordTokenSeenFlag, validationError>>
     \/ /\ c # "@" /\ ~EndsAuthority
        /\ buffer' = Append(buffer, c)
        /\ Increment(it)
        /\ UNCHANGED <<state, url, atFlag, passwordTokenSeenFlag, validationError>>

(* parse_hostname, the handler of both the host and the hostname state     *)

FileOverride == override # None /\ url.scheme = FILE

\* Variant: the hand-off to file_host does not step back.
FileHostHandOffNoRewind == it

\* A setter on a file URL hands the byte back to file_host: decrement().
FileHostHandOff == it - 1
HostColon == c = ":" /\ ~squareBracesFlag

\* Variant: an empty host is accepted for a special URL.
EmptySpecialHostAccepted == FALSE

\* A special URL whose host would be empty.
EmptySpecialHost == IsSpecial(url) /\ buffer = <<>>

Hostname ==
  LET host == ParseHost(buffer, FALSE) IN
  /\ Dispatch({"host", "hostname"})
  /\ UNCHANGED <<atFlag, passwordTokenSeenFlag>>
  /\ \/ /\ FileOverride
        /\ Goto("file_host", FileHostHandOff)
        /\ UNCHANGED <<buffer, url, squareBracesFlag, validationError>>
     \/ /\ ~FileOverride /\ HostColon /\ buffer = <<>>
        /\ validationError' = TRUE /\ Fail(it)
        /\ UNCHANGED <<state, buffer, url, squareBracesFlag>>
     \/ /\ ~FileOverride /\ HostColon /\ buffer # <<>> /\ host = None
        /\ Fail(it)
        /\ UNCHANGED <<state, buffer, url, squareBracesFlag, validationError>>
     \/ /\ ~FileOverride /\ HostColon /\ buffer # <<>> /\ host # None
        /\ url' = [url EXCEPT !.host = host]
        /\ buffer' = <<>>
        /\ SetState("port")
        /\ IF override = Some("hostname") THEN Succeed ELSE Increment(it)
        /\ UNCHANGED <<squareBracesFlag, validationError>>
     \/ /\ ~FileOverride /\ ~HostColon /\ EndsAuthority
        /\ EmptySpecialHost
        /\ validationError' = TRUE /\ Fail(it - 1)
        /\ UNCHANGED <<state, buffer, url, squareBracesFlag>>
     \/ /\ ~FileOverride /\ ~HostColon /\ EndsAuthority
        /\ ~EmptySpecialHost /\ host = None
        /\ Fail(it - 1)
        /\ UNCHANGED <<state, buffer, url, squareBracesFlag, validationError>>
     \/ /\ ~FileOverride /\ ~HostColon /\ EndsAuthority
        /\ ~EmptySpecialHost /\ host # None
        /\ url' = [url EXCEPT !.host = host]
        /\ buffer' = <<>>
        /\ Goto("path_start", it - 1)
        /\ UNCHANGED <<squareBracesFlag, validationError>>
     \/ /\ ~FileOverride /\ ~HostColon /\ ~EndsAuthority
        /\ squareBracesFlag' = CASE c = "[" -> TRUE
                                 [] c = "]" -> FALSE
                                 [] OTHER   -> squareBracesFlag
        /\ buffer' = Append(buffer, c)
        /\ Increment(it)
        /\ UNCHANGED <<state, url, validationError>>

(* parse_port                                                              *)

EndsPort == EndsAuthority \/ override # None

\* The port a valid digit string gives: none when it is the default one.
PortValue(buf) ==
  IF IsDefaultPort(url.scheme, DecValue(buf)) THEN None ELSE Some(DecValue(buf))

Port ==
  /\ Dispatch({"port"})
  /\ UNCHANGED Flags
  /\ \/ /\ c \in Digits
        /\ buffer' = Append(buffer, c)
        /\ Increment(it)
        /\ UNCHANGED <<state, url, validationError>>
     \/ /\ c \notin Digits /\ EndsPort /\ buffer # <<>> /\ ~IsValidPort(buffer)
        /\ validationError' = TRUE /\ Fail(it)
        /\ UNCHANGED <<state, buffer, url>>
     \/ /\ c \notin Digits /\ EndsPort /\ (buffer = <<>> \/ IsValidPort(buffer))
        /\ url' = IF buffer = <<>> THEN url
                  ELSE [url EXCEPT !.port = PortValue(buffer)]
        /\ buffer' = <<>>
        /\ IF override # None THEN Succeed /\ UNCHANGED state
           ELSE Goto("path_start", it - 1)
        /\ UNCHANGED validationError
     \/ /\ c \notin Digits /\ ~EndsPort
        /\ validationError' = TRUE /\ Fail(it)
        /\ UNCHANGED <<state, buffer, url>>

(* parse_file, parse_file_slash, parse_file_host                           *)

File ==
  LET b    == Url(base)
      u    == [url EXCEPT !.scheme = FILE]
      fromFileBase == base # None /\ b.scheme = FILE
  IN
  /\ Dispatch({"file"})
  /\ UNCHANGED <<buffer, Flags>>
  /\ \/ /\ c \in {"/", "\\"}
        /\ url' = u /\ validationError' = (validationError \/ c = "\\")
        /\ Goto("file_slash", it)
     \/ /\ c \notin {"/", "\\"} /\ fromFileBase /\ IsEof
        /\ url' = [u EXCEPT !.host = b.host, !.path = b.path, !.query = b.query]
        /\ Increment(it)
        /\ UNCHANGED <<state, validationError>>
     \/ /\ c \notin {"/", "\\"} /\ fromFileBase /\ ~IsEof /\ c = "?"
        /\ url' = [u EXCEPT !.host = b.host, !.path = b.path, !.query = Some(<<>>)]
        /\ Goto("query", it)
        /\ UNCHANGED validationError
     \/ /\ c \notin {"/", "\\"} /\ fromFileBase /\ ~IsEof /\ c = "#"
        /\ url' = [u EXCEPT !.host = b.host, !.path = b.path, !.query = b.query,
                            !.fragment = Some(<<>>)]
        /\ Goto("fragment", it)
        /\ UNCHANGED validationError
     \/ /\ c \notin {"/", "\\", "?", "#"} /\ fromFileBase /\ ~IsEof
        /\ ~IsWindowsDriveLetterAt(it)
        /\ url' = [u EXCEPT !.host = b.host, !.path = ShortenPath(FILE, b.path)]
        /\ Goto("path", it - 1)
        /\ UNCHANGED validationError
     \/ /\ c \notin {"/", "\\", "?", "#"} /\ fromFileBase /\ ~IsEof
        /\ IsWindowsDriveLetterAt(it)
        /\ url' = u /\ validationError' = TRUE
        /\ Goto("path", it - 1)
     \/ /\ c \notin {"/", "\\"} /\ ~fromFileBase
        /\ url' = u /\ Goto("path", it - 1)
        /\ UNCHANGED validationError

FileSlash ==
  LET b == Url(base)
      fromFileBase == base # None /\ b.scheme = FILE /\ ~IsWindowsDriveLetterAt(it)
  IN
  /\ Dispatch({"file_slash"})
  /\ UNCHANGED <<buffer, Flags>>
  /\ \/ /\ c \in {"/", "\\"}
        /\ validationError' = (validationError \/ c = "\\")
        /\ Goto("file_host", it)
        /\ UNCHANGED url
     \/ /\ c \notin {"/", "\\"} /\ fromFileBase
        /\ b.path # <<>> /\ IsWindowsDriveLetterStr(b.path[1])
        /\ url' = [url EXCEPT !.path = Append(@, b.path[1])]
        /\ Goto("path", it - 1)
        /\ UNCHANGED validationError
     \/ /\ c \notin {"/", "\\"} /\ fromFileBase
        /\ ~(b.path # <<>> /\ IsWindowsDriveLetterStr(b.path[1]))
        /\ url' = [url EXCEPT !.host = b.host]
        /\ Goto("path", it - 1)
        /\ UNCHANGED validationError
     \/ /\ c \notin {"/", "\\"} /\ ~fromFileBase
        /\ Goto("path", it - 1)
        /\ UNCHANGED <<url, validationError>>

EndsFileHost == IsEof \/ c \in {"/", "\\", "?", "#"}
DriveQuirk == override = None /\ IsWindowsDriveLetterStr(buffer)

FileHost ==
  /\ Dispatch({"file_host"})
  /\ UNCHANGED Flags
  /\ \E host \in {ParseHost(buffer, ~IsSpecial(url))} :
       LET name == IF host # None /\ Val(host) = LOCALHOST THEN <<>> ELSE Val(host)
       IN
      /\ \/ /\ EndsFileHost /\ DriveQuirk
            /\ validationError' = TRUE
            /\ Goto("path", it - 1)
            /\ UNCHANGED <<buffer, url>>
         \/ /\ EndsFileHost /\ ~DriveQuirk /\ buffer = <<>>
            /\ url' = [url EXCEPT !.host = Some(<<>>)]
            /\ IF override # None THEN Succeed /\ UNCHANGED state
               ELSE Goto("path_start", it - 1)
            /\ UNCHANGED <<buffer, validationError>>
         \/ /\ EndsFileHost /\ ~DriveQuirk /\ buffer # <<>> /\ host = None
            /\ Fail(it - 1)
            /\ UNCHANGED <<state, buffer, url, validationError>>
         \/ /\ EndsFileHost /\ ~DriveQuirk /\ buffer # <<>> /\ host # None
            /\ url' = [url EXCEPT !.host = Some(name)]
            /\ IF override # None THEN Succeed /\ UNCHANGED <<state, buffer>>
               ELSE buffer' = <<>> /\ Goto("path_start", it - 1)
            /\ UNCHANGED validationError
         \/ /\ ~EndsFileHost
            /\ buffer' = Append(buffer, c)
            /\ Increment(it)
            /\ UNCHANGED <<state, url, validationError>>

(* parse_path_start                                                        *)

\* Variant: the byte is always handed back to the path state.
SpecialPathStartNextRewind == it - 1

\* Where a special URL's path starts: a leading slash is consumed.
SpecialPathStartNext == IF c \notin {"/", "\\"} THEN it - 1 ELSE it

PathStart ==
  /\ Dispatch({"path_start"})
  /\ UNCHANGED <<Flags, buffer>>
  /\ \/ /\ IsSpecial(url)
        /\ validationError' = (validationError \/ c = "\\")
        /\ Goto("path", SpecialPathStartNext)
        /\ UNCHANGED url
     \/ /\ ~IsSpecial(url) /\ override = None /\ c = "?"
        /\ url' = [url EXCEPT !.query = Some(<<>>)]
        /\ Goto("query", it)
        /\ UNCHANGED validationError
     \/ /\ ~IsSpecial(url) /\ override = None /\ c = "#"
        /\ url' = [url EXCEPT !.fragment = Some(<<>>)]
        /\ Goto("fragment", it)
        /\ UNCHANGED validationError
     \/ /\ ~IsSpecial(url) /\ ~(override = None /\ c \in {"?", "#"}) /\ ~IsEof
        /\ c # "/"
        /\ Goto("path", it - 1)
        /\ UNCHANGED <<url, validationError>>
     \/ /\ ~IsSpecial(url) /\ ~(override = None /\ c \in {"?", "#"}) /\ ~IsEof
        /\ c = "/"
        \* url.path.push_back(buffer), with the buffer empty here
        /\ url' = [url EXCEPT !.path = Append(@, buffer)]
        /\ Goto("path", it)
        /\ UNCHANGED validationError
     \/ /\ ~IsSpecial(url) /\ ~(override = None /\ c \in {"?", "#"}) /\ IsEof
        /\ Increment(it)
        /\ UNCHANGED <<state, url, validationError>>

(* parse_path                                                              *)

\* A path segment that is a Windows drive letter opening a file path.
DriveSegment(u, buf) == u.scheme = FILE /\ u.path = <<>> /\ IsWindowsDriveLetterStr(buf)

\* What parse_path does with a finished segment; slash tells whether the
\* byte that ended it separates segments.
PushSegment(u, buf, slash) ==
  CASE IsDoubleDotPathSegment(buf) ->
         [u EXCEPT !.path = IF slash THEN ShortenPath(u.scheme, @)
                            ELSE Append(ShortenPath(u.scheme, @), <<>>)]
    [] IsSingleDotPathSegment(buf) ->
         IF slash THEN u ELSE [u EXCEPT !.path = Append(@, <<>>)]
    [] DriveSegment(u, buf) ->
         [u EXCEPT !.host = Some(<<>>), !.path = Append(@, [buf EXCEPT ![2] = ":"])]
    [] OTHER ->
         [u EXCEPT !.path = Append(@, buf)]

\* The deque loop dropping the leading empty segments of a file path.
RECURSIVE TrimLeadingEmpty(_)
TrimLeadingEmpty(path) ==
  IF Len(path) > 1 /\ path[1] = <<>> THEN TrimLeadingEmpty(Tail(path)) ELSE path

IsSlash == c = "/" \/ (IsSpecial(url) /\ c = "\\")
\* Variant: '#' is path text.
EndsSegmentNoHash == IsEof \/ IsSlash \/ (override = None /\ c = "?")

EndsSegment == IsEof \/ IsSlash \/ (override = None /\ c \in {"?", "#"})

Path ==
  LET u1    == PushSegment(url, buffer, IsSlash)
      atEnd == url.scheme = FILE /\ (IsEof \/ c \in {"?", "#"})
      u2    == IF atEnd THEN [u1 EXCEPT !.path = TrimLeadingEmpty(@)] ELSE u1
      drive == ~IsDoubleDotPathSegment(buffer) /\ ~IsSingleDotPathSegment(buffer)
               /\ DriveSegment(url, buffer)
  IN
  /\ Dispatch({"path"})
  /\ UNCHANGED Flags
  /\ \/ /\ ~EndsSegment
        /\ buffer' = buffer \o PctEncode(c, PathSet)
        /\ Increment(it)
        /\ UNCHANGED <<state, url, validationError>>
     \/ /\ EndsSegment
        /\ buffer' = <<>>
        /\ validationError' = (validationError \/ (IsSpecial(url) /\ c = "\\")
                               \/ (drive /\ url.host # Some(<<>>))
                               \/ u2.path # u1.path)
        /\ \/ c = "?" /\ url' = [u2 EXCEPT !.query = Some(<<>>)] /\ Goto("query", it)
           \/ c = "#" /\ url' = [u2 EXCEPT !.fragment = Some(<<>>)] /\ Goto("fragment", it)
           \/ c \notin {"?", "#"} /\ url' = u2 /\ Increment(it) /\ UNCHANGED state

(* parse_cannot_be_a_base_url, parse_query, parse_fragment                 *)

\* std::optional::value() of an absent query or fragment throws.
Throw == it' = it /\ phase' = "exception" /\ UNCHANGED failed

CannotBeABaseUrlPath ==
  /\ Dispatch({"cannot_be_a_base_url_path"})
  /\ UNCHANGED <<buffer, Flags>>
  /\ \/ /\ c = "?"
        /\ url' = [url EXCEPT !.query = Some(<<>>)]
        /\ Goto("query", it)
        /\ UNCHANGED validationError
     \/ /\ c = "#"
        /\ url' = [url EXCEPT !.fragment = Some(<<>>)]
        /\ Goto("fragment", it)
        /\ UNCHANGED validationError
     \/ /\ c \notin {"?", "#"} /\ ~IsEof
        /\ validationError' = (validationError \/ (c \notin UrlCodePoints /\ c # "%")
                               \/ (c = "%" /\ ~IsPctEncodedAt(it)))
        /\ url' = [url EXCEPT !.path[1] = @ \o PctEncode(c, C0Set)]
        /\ Increment(it)
        /\ UNCHANGED state
     \/ /\ c \notin {"?", "#"} /\ IsEof
        /\ Increment(it)
        /\ UNCHANGED <<state, url, validationError>>

\* Variant: '#' ends the query under an override too.
QueryEndsAtHashAlways == c = "#"

\* The '#' that ends the query; under an override it is query text.
QueryEndsAtHash == override = None /\ c = "#"

Query ==
  /\ Dispatch({"query"})
  /\ UNCHANGED <<buffer, Flags>>
  /\ \/ /\ QueryEndsAtHash
        /\ url' = [url EXCEPT !.fragment = Some(<<>>)]
        /\ Goto("fragment", it)
        /\ UNCHANGED validationError
     \/ /\ ~QueryEndsAtHash /\ ~IsEof /\ IsSome(url.query)
        /\ url' = [url EXCEPT !.query = Some(Val(@) \o PctEncode(c, QuerySet))]
        /\ Increment(it)
        /\ UNCHANGED <<state, validationError>>
     \/ /\ ~QueryEndsAtHash /\ ~IsEof /\ url.query = None
        /\ Throw
        /\ UNCHANGED <<state, url, validationError>>
     \/ /\ ~QueryEndsAtHash /\ IsEof
        /\ Increment(it)
        /\ UNCHANGED <<state, url, validationError>>

\* The terminating NUL read at the end is a NUL byte to this handler.
Fragment ==
  /\ Dispatch({"fragment"})
  /\ UNCHANGED <<state, buffer, Flags>>
  /\ \/ /\ c = NUL
        /\ validationError' = TRUE
        /\ Increment(it)
        /\ UNCHANGED url
     \/ /\ c # NUL /\ IsSome(url.fragment)
        /\ url' = [url EXCEPT !.fragment = Some(Val(@) \o PctEncode(c, FragmentSet))]
        /\ Increment(it)
        /\ UNCHANGED validationError
     \/ /\ c # NUL /\ url.fragment = None
        /\ Throw
        /\ UNCHANGED <<url, validationError>>

-----------------------------------------------------------------------------
(* basic_parse                                                             *)

\* The url_parser_context constructor: basic_parse called with raw, b, o, u.
ParseStart(raw, b, o, u) ==
  /\ input = Sanitize(raw)
  /\ validationError = SanitizeError(raw)
  /\ base = b
  /\ override = o
  /\ given = IF u = None THEN EmptyUrl ELSE Val(u)
  /\ url = given
  /\ state = IF o = None THEN "scheme_start" ELSE Val(o)
  /\ it = 0
  /\ buffer = <<>>
  /\ atFlag = FALSE /\ squareBracesFlag = FALSE /\ passwordTokenSeenFlag = FALSE
  /\ phase = "running" /\ failed = FALSE
  /\ steps = 0

Init ==
  \E raw \in RawInputs, b \in Bases, o \in Overrides, u \in StartUrls :
    ParseStart(raw, b, o, u)

\* One iteration of the while loop of basic_parse: the handler of the
\* current state (each handler action starts with Dispatch).
Handlers ==
  \/ SchemeStart \/ Scheme \/ NoScheme \/ SpecialRelativeOrAuthority
  \/ PathOrAuthority \/ Relative \/ RelativeSlash \/ SpecialAuthoritySlashes
  \/ SpecialAuthorityIgnoreSlashes \/ Authority \/ Hostname \/ Port
  \/ File \/ FileSlash \/ FileHost \/ PathStart \/ Path
  \/ CannotBeABaseUrlPath \/ Query \/ Fragment

\* basic_parse has returned: nothing changes any more.
Returned == phase \in {"done", "success", "exception"}

Done == Returned /\ UNCHANGED vars

\* basic_parse returned a record and no handler returned fail on the way:
\* the parses the spec's driver lets succeed.  The code's driver also
\* returns a record after a fail (Fail above).
ParsedWithoutFail == phase = "done" /\ ~failed

Next == Handlers \/ Done

\* The loop runs on its own thread of control until it returns, so it is
\* weakly fair.
Spec == Init /\ [][Next]_vars /\ WF_vars(Next)

-----------------------------------------------------------------------------
(* Properties                                                              *)

Strs == Seq(Chars)
\* An optional S: a sequence of at most one element of S.
IsOptOf(o, S) == o \in Seq(S) /\ Len(o) <= 1

IsUrlRecord(u) ==
  /\ DOMAIN u = DOMAIN EmptyUrl
  /\ {u.scheme, u.username, u.password} \subseteq Strs
  /\ IsOptOf(u.host, Strs) /\ IsOptOf(u.port, Nat)
  /\ u.path \in Seq(Strs)
  /\ IsOptOf(u.query, Strs) /\ IsOptOf(u.fragment, Strs)
  /\ u.cannot_be_a_base_url \in BOOLEAN

TypeOK ==
  /\ input \in Strs
  /\ state \in States
  /\ it \in -1..Len(input)
  /\ buffer \in Strs
  /\ IsUrlRecord(url)
  /\ atFlag \in BOOLEAN /\ squareBracesFlag \in BOOLEAN
  /\ passwordTokenSeenFlag \in BOOLEAN /\ validationError \in BOOLEAN
  /\ phase \in {"running", "done", "success", "exception"} /\ failed \in BOOLEAN
  /\ steps \in Nat

\* P1 of the spec: basic_parse calls at most 4 * len(input) + K handlers,
\* although reset(), restart_from_buffer() and decrement() move the
\* iterator backwards, and a fail does not end the loop: a handler that
\* calls decrement() and then fails makes the driver's increment() bring
\* it back to the byte it just failed on.
StepBound == steps <= 4 * Len(input) + StepSlack

(***************************************************************************)
(* The authority of an absolute special URL, read off the input: after   *)
(* the scheme's ':' and any run of '/' and '\', up to the first '/', '?', *)
(* '#' or '\'.  The credentials are the text before its last '@', split  *)
(* at their first ':'; the host runs from after that '@' to the first ':'*)
(* outside brackets, the port is the rest.                                 *)
(***************************************************************************)
RECURSIVE DropSlashes(_)
DropSlashes(s) == IF s # <<>> /\ s[1] \in {"/", "\\"} THEN DropSlashes(Tail(s)) ELSE s

PrefixUntil(s, stop) ==
  LET k == SelectInSeq(s, LAMBDA ch : ch \in stop)
  IN IF k = 0 THEN s ELSE SubSeq(s, 1, k - 1)

AfterFirst(s, x) ==
  LET k == SelectInSeq(s, LAMBDA ch : ch = x)
  IN IF k = 0 THEN <<>> ELSE SubSeq(s, k + 1, Len(s))

\* The index of the first ':' outside "[...]", as parse_hostname tracks it.
RECURSIVE HostColonAt(_, _, _)
HostColonAt(s, i, sq) ==
  IF i > Len(s) THEN 0
  ELSE IF s[i] = ":" /\ ~sq THEN i
  ELSE HostColonAt(s, i + 1, IF s[i] = "[" THEN TRUE ELSE IF s[i] = "]" THEN FALSE ELSE sq)

AuthorityInput ==
  PrefixUntil(DropSlashes(AfterFirst(input, ":")), {"/", "?", "#", "\\"})

\* The text before and after the last '@' of an authority.
UserinfoOf(auth) ==
  LET k == SelectLastInSeq(auth, LAMBDA ch : ch = "@")
  IN IF k = 0 THEN <<>> ELSE SubSeq(auth, 1, k - 1)
HostPortOf(auth) ==
  SubSeq(auth, SelectLastInSeq(auth, LAMBDA ch : ch = "@") + 1, Len(auth))

\* The host and the port text of host[:port].
HostOf(hp) ==
  IF HostColonAt(hp, 1, FALSE) = 0 THEN hp ELSE SubSeq(hp, 1, HostColonAt(hp, 1, FALSE) - 1)
PortOf(hp) ==
  IF HostColonAt(hp, 1, FALSE) = 0 THEN <<>>
  ELSE SubSeq(hp, HostColonAt(hp, 1, FALSE) + 1, Len(hp))

\* A parse of an absolute special, non-file URL that returned a record
\* without a fail.
AbsoluteSpecialResult ==
  ParsedWithoutFail /\ base = None /\ override = None
  /\ IsSpecial(url) /\ url.scheme # FILE

CredentialsAre(userinfo) ==
  /\ url.username = PctEncodeStr(PrefixUntil(userinfo, {":"}), UserinfoSet)
  /\ url.password = PctEncodeStr(AfterFirst(userinfo, ":"), UserinfoSet)

PortIs(portText) ==
  url.port = IF portText = <<>> \/ IsDefaultPort(url.scheme, DecValue(portText))
             THEN None ELSE Some(DecValue(portText))

\* The credentials come from the text before the last '@' of the authority
\* (every earlier '@' percent-encoded, as the "%40" prefix of parse_authority
\* makes it), split at its first ':'; host and port from the text after it.
\* This is what the rewind of restart_from_buffer, the at_flag and the
\* password_token_seen_flag, kept across several '@', must add up to.
AuthorityFromLastAt ==
  AbsoluteSpecialResult =>
    /\ CredentialsAre(UserinfoOf(AuthorityInput))
    /\ url.host = ParseHost(HostOf(HostPortOf(AuthorityInput)), FALSE)
    /\ PortIs(PortOf(HostPortOf(AuthorityInput)))

\* No hierarchical path the parser returns holds a "." or ".." segment (in
\* any of their percent-encoded spellings): parse_path drops or applies
\* every one, also after a relative reference took the base's path.
DotSegmentTexts ==
  {<<".">>, <<"%","2","e">>, <<".",".">>, <<".","%","2","e">>, <<"%","2","e",".">>,
   <<"%","2","e","%","2","e">>}

NoDotSegments ==
  (phase = "done" /\ ~url.cannot_be_a_base_url) =>
    \A i \in DOMAIN url.path : LowerStr(url.path[i]) \notin DotSegmentTexts

\* The data-model invariants of the record a parse without a fail returns: a
\* cannot-be-a-base URL has one path segment and no host; a file URL has
\* no port and no credentials; a port is never the scheme's default; a
\* special non-file URL has a non-empty host.
ResultWellFormed ==
  ParsedWithoutFail =>
    /\ url.cannot_be_a_base_url => Len(url.path) = 1 /\ url.host = None
    /\ url.scheme = FILE => url.port = None /\ ~IncludesCredentials(url)
    /\ IsSome(url.port) => ~IsDefaultPort(url.scheme, Val(url.port))
    /\ IsSpecial(url) /\ url.scheme # FILE => IsSome(url.host) /\ Val(url.host) # <<>>

(***************************************************************************)
(* A relative reference: no scheme before its first ':', and no leading  *)
(* "//" (for a special base, two of '/' and '\'), which would start an   *)
(* authority of its own.                                                   *)
(***************************************************************************)
SchemeChars == Alnums \cup {"+", "-", "."}

HasScheme(s) ==
  \E k \in 2..Len(s) : s[k] = ":" /\ s[1] \in Alphas
                       /\ \A j \in 2..(k - 1) : s[j] \in SchemeChars

StartsWithAuthority(s, special) ==
  Len(s) >= 2 /\ IF special THEN {s[1], s[2]} \subseteq {"/", "\\"}
                  ELSE s[1] = "/" /\ s[2] = "/"

\* A relative reference against a hierarchical, non-file base keeps the
\* base's scheme, credentials, host and port, whichever of the branches of
\* parse_relative and parse_relative_slash it takes.
InheritsBaseAuthority ==
  (/\ phase = "done" /\ override = None /\ base # None
   /\ ~Url(base).cannot_be_a_base_url /\ Url(base).scheme # FILE
   /\ ~HasScheme(input)
   /\ ~StartsWithAuthority(input, IsSpecialScheme(Url(base).scheme)))
    => /\ url.scheme = Url(base).scheme
       /\ url.username = Url(base).username /\ url.password = Url(base).password
       /\ url.host = Url(base).host /\ url.port = Url(base).port

\* The query of a URL parsed without a fail is the text between the first '?' and the
\* first '#' after it, the fragment the text after the first '#': every
\* state before them (scheme, authority, host, path, opaque path) hands
\* them on, and neither of the two states gives up its text.
QueryFragmentSplit ==
  LET h == SelectInSeq(input, LAMBDA ch : ch = "#")
      q == SelectInSeq(input, LAMBDA ch : ch = "?")
  IN (ParsedWithoutFail /\ override = None) =>
       /\ h > 0 => url.fragment = Some(PctEncodeStr(SubSeq(input, h + 1, Len(input)),
                                                    FragmentSet))
       /\ (q > 0 /\ (h = 0 \/ q < h)) =>
            url.query = Some(PctEncodeStr(SubSeq(input, q + 1,
                                                 IF h = 0 THEN Len(input) ELSE h - 1),
                                          QuerySet))

(***************************************************************************)
(* Path resolution of a relative reference without scheme, authority,    *)
(* query or fragment, as the WHATWG path state states it: the base's path *)
(* without its last segment (none when the reference starts with a       *)
(* slash), then each segment of the reference in turn: ".." pops, "."     *)
(* is dropped, any other is pushed, and a dot segment that ends the       *)
(* reference leaves an empty last segment.  '\' separates segments of a   *)
(* special URL.                                                            *)
(***************************************************************************)
SplitAt(s, seps) ==
  FoldLeft(LAMBDA acc, ch : IF ch \in seps THEN Append(acc, <<>>)
                            ELSE [acc EXCEPT ![Len(acc)] = Append(@, ch)],
           <<<<>>>>, s)

RefSingleDots == {<<".">>, <<"%","2","e">>}

\* One segment of the reference applied to the path so far.
RefDotStep(acc, seg, last) ==
  IF LowerStr(seg) \in DotSegmentTexts \ RefSingleDots
    THEN (IF acc = <<>> THEN acc ELSE Front(acc)) \o (IF last THEN <<<<>>>> ELSE <<>>)
  ELSE IF LowerStr(seg) \in RefSingleDots THEN acc \o (IF last THEN <<<<>>>> ELSE <<>>)
  ELSE Append(acc, seg)

RefRemoveDots(start, segs) ==
  FoldLeft(LAMBDA acc, i : RefDotStep(acc, segs[i], i = Len(segs)), start,
           [i \in 1..Len(segs) |-> i])

RefResolvedPath(bpath, ref, seps) ==
  IF ref = <<>> THEN bpath
  ELSE IF ref[1] \in seps THEN RefRemoveDots(<<>>, Tail(SplitAt(ref, seps)))
  ELSE RefRemoveDots(IF bpath = <<>> THEN <<>> ELSE Front(bpath), SplitAt(ref, seps))

\* A path-only relative reference against a hierarchical, non-file base
\* resolves to the reference path: parse_relative's copy of the base path
\* and its pop, parse_relative_slash, and parse_path's dot handling and
\* its look at the byte that ends each segment compose to it.
PathResolvesLikeReference ==
  (/\ phase = "done" /\ override = None /\ base # None
   /\ ~Url(base).cannot_be_a_base_url /\ Url(base).scheme # FILE
   /\ ~HasScheme(input) /\ ~StartsWithAuthority(input, IsSpecialScheme(Url(base).scheme))
   /\ \A i \in DOMAIN input : input[i] \notin {"?", "#"})
    => url.path = RefResolvedPath(Url(base).path, input,
                                  IF IsSpecialScheme(Url(base).scheme) THEN {"/", "\\"} ELSE {"/"})

\* The fields of the record each state override re-parses.
OverrideComponent ==
  [scheme_start |-> {"scheme"}, hostname |-> {"host"}, host |-> {"host", "port"},
   port |-> {"port"}, file_host |-> {"host"}, path_start |-> {"path"},
   query |-> {"query"}, fragment |-> {"fragment"}]

\* A setter's parse (basic_parse with a state override) that returns a
\* record has changed no field outside the component it re-parses.
OverrideChangesOnlyItsComponent ==
  (override # None /\ phase \in {"done", "success"}) =>
    \A f \in DOMAIN url \ OverrideComponent[Val(override)] : url[f] = given[f]

\* The scheme setter never moves a URL between special and non-special,
\* never makes a URL with credentials or a port a file URL, and never
\* changes the scheme of a file URL without a host: the checks parse_scheme
\* makes on an override, which must hold whatever the parse does after the
\* scheme's ':'.
SchemeSetterKeepsKind ==
  (override = Some("scheme_start") /\ phase \in {"done", "success"}) =>
    /\ IsSpecial(url) = IsSpecial(given)
    /\ url.scheme = FILE /\ given.scheme # FILE =>
         ~IncludesCredentials(given) /\ given.port = None
    /\ given.scheme = FILE /\ (given.host = None \/ Val(given.host) = <<>>) =>
         url.scheme = FILE

\* What a file URL's host setter may return for text: the record with
\* parse_host's result as its host, "localhost" becoming the empty host,
\* or with the empty host for no text.  For a text parse_host rejects it
\* returns no record (the spec's setter fails).
FileHostSetterResult(text, host) ==
  IF text = <<>> THEN phase = "success" /\ url = [given EXCEPT !.host = Some(<<>>)]
  ELSE /\ host # None
       /\ phase = "success"
       /\ url = [given EXCEPT !.host = Some(IF Val(host) = LOCALHOST THEN <<>> ELSE Val(host))]

\* The host and hostname setters on a file URL: parse_hostname hands the
\* byte it was called on back to parse_file_host (decrement() and the state
\* change), which returns success right after the host.  So a setter that
\* returns has given the record the host made of the text before the first
\* '/', '\', '?' or '#', and changed nothing else; it never returns a
\* record for a host parse_host rejects.
FileHostSetterSetsHost ==
  (override \in {Some("host"), Some("hostname")} /\ given.scheme = FILE /\ Returned)
    => FileHostSetterResult(PrefixUntil(input, {"/", "\\", "?", "#"}),
                            ParseHost(PrefixUntil(input, {"/", "\\", "?", "#"}), FALSE))

\* Spec 7: basic_parse never throws; every anomaly is a failure or a
\* validation error.
NoException == phase # "exception"

-----------------------------------------------------------------------------
(* The path as a stack: UrlParser implements PathStack.  The record's path*)
(* and its cannot-be-a-base flag are the stack and its opacity; whether   *)
(* the scheme is file and the base's path are the rest of its state.      *)

AP == INSTANCE PathStack WITH
        path <- url.path,
        opaque <- url.cannot_be_a_base_url,
        isFile <- url.scheme = FILE,
        basePath <- IF base = None THEN <<>> ELSE Url(base).path,
        baseOpaque <- base # None /\ Url(base).cannot_be_a_base_url

\* Every step of a parse changes the path only as a stack: the base's path
\* (or a prefix of it) is taken only by an empty path, every segment
\* parse_path pushes is no dot segment, ".." pops all but a file URL's
\* drive letter, the deque loop only drops leading empty segments of a file
\* path, and an opaque path only grows.  This is what the many writers of
\* url.path (parse_scheme, parse_no_scheme, parse_relative,
\* parse_relative_slash, parse_file, parse_file_slash, parse_path_start,
\* parse_path, parse_cannot_be_a_base_url) must add up to.
PathRefinesStack == AP!Spec

-----------------------------------------------------------------------------
(* The authority: UrlParser implements UrlAuthority.  The record's four   *)
(* authority fields are the abstract ones; the base's are its fixed part. *)

AuthorityOf(u) ==
  [username |-> u.username, password |-> u.password, host |-> u.host, port |-> u.port]

AA == INSTANCE UrlAuthority WITH
        username <- url.username, password <- url.password,
        host <- url.host, port <- url.port,
        baseAuthority <- AuthorityOf(IF base = None THEN EmptyUrl ELSE Url(base))

\* Every step of a parse changes the authority only as UrlAuthority allows:
\* the base's authority is copied whole and only into a record that has
\* none (parse_relative, parse_relative_slash, parse_file,
\* parse_file_slash), credentials grow only before the host
\* (parse_authority), the host is set once (parse_hostname,
\* parse_file_host) and then the port (parse_port), and parse_path's
\* drive letter quirk empties only the host of a file URL.
AuthorityRefines == AA!Spec

-----------------------------------------------------------------------------
(* What the spec says and the code does not do                             *)

\* Spec 5 (port state): port digits whose value is below 2^16 are the
\* URL's port (none when it is the scheme's default).  A parse of an
\* absolute special URL that returns a record carries the port its digits
\* give, whatever parse_port and the driver do with them.
PortKeptBelowLimit ==
  LET digits == PortOf(HostPortOf(AuthorityInput)) IN
  (/\ phase = "done" /\ base = None /\ override = None /\ IsSpecial(url)
   /\ digits # <<>> /\ DecValue(digits) < 65536)
    => PortIs(digits)

\* Spec 4.2: a dotted part with a byte that is not a digit of its radix
\* makes the host not an IPv4 address, and parse_host returns the lower-
\* cased domain.  (Hosts without '%' and brackets, whose domain is the
\* lower-cased text itself.)
HostIsDomainIfNonNumeric(host) ==
  (/\ \A i \in DOMAIN host : host[i] \notin {"%", "["}
   /\ \E part \in Range(SplitDots(LowerStr(host))) : ~IsIpv4NumberText(part))
    => url.host = Some(LowerStr(host))

\* The host of an absolute special URL parsed without a fail is the
\* domain of its text when a dotted part is not a number: std::stoul in
\* parse_ipv4_number must not read a part that only starts with digits.
NonNumericHostIsDomain ==
  AbsoluteSpecialResult => HostIsDomainIfNonNumeric(HostOf(HostPortOf(AuthorityInput)))

\* Spec 4.6.3 lists no row of the scheme state for a byte that is neither
\* a scheme byte nor ':' under an override, and spec 7 has override-mode
\* scheme conflicts fail fast (the WHATWG scheme state returns failure).
\* So a scheme setter that changes the scheme sets it to the lower-cased
\* text before the input's first ':'.  parse_scheme returns increment on
\* such a byte instead, skipping it.
SchemeSetterTakesInputScheme ==
  (override = Some("scheme_start") /\ phase \in {"done", "success"} /\ url.scheme # given.scheme)
    => url.scheme = LowerStr(PrefixUntil(input, {":"}))


\* Spec 4.4 step 2 and example S6 (foo://user:p%40ss@H/p, host H, opaque):
\* the host of a URL that is not special is the opaque host of its text,
\* kept as written, percent-encoded only in the C0 controls; the empty
\* host text of x:// included.  parse_hostname passes is_not_special =
\* false to parse_host at both its exits, so the text takes the domain
\* path (percent-decoding, lower-casing, the IPv4 parser).
NonSpecialHostIsOpaque ==
  (phase = "done" /\ base = None /\ override = None /\ ~IsSpecial(url) /\ IsSome(url.host))
    => url.host = ParseOpaqueHost(HostOf(HostPortOf(AuthorityInput)))
=============================================================================
