# TLA+ models of the URL parser

These modules model the WHATWG-style URL parser of this repository:
`src/src/url_parse.cpp` (the `basic_parse` driver and `parse`) and
`src/src/url_parser_context.cpp` (input sanitization, the twenty state
handlers of `url_parser_context`, and the host, IPv4 and IPv6 parsers).
TLC checks them. `PROJECT.json` holds the machine-readable inventory:
components, runs, mutants, the map from every definition to its source
lines, findings and hazards.

## The system

`basic_parse(input, base, url, state_override)` does the following:

- It builds a `url_parser_context`. The constructor strips leading and
  trailing C0/space bytes and removes tabs and newlines, setting
  `validation_error` when anything is removed.
- It loops. Each iteration calls the handler that `parse_funcs` maps the
  current state to, on the byte under the iterator. At the end, that byte
  is the string's terminating NUL, which the handlers test as EOF.
- A handler changes the record, the buffer, three flags and the state. It
  may move the iterator itself:
  - `increment()` moves it forward;
  - `decrement()` and `reset()` move it back;
  - `restart_from_buffer()` rewinds to the start of the authority.
- It then returns `increment`, `continue_`, `success` or `fail`.
- The driver acts on that result:
  - `increment`: stops at EOF and returns the record, otherwise advances;
  - `continue_`: calls the next handler on the same byte;
  - `success`: returns the record;
  - `fail`: is treated exactly like `increment`. The handlers return a
    plain `url_parse_action`, which the lambdas wrap as a value, so the
    driver's `if (!action)` error return (`url_parse.cpp:120-122`) never
    runs. The switch at 124-131 has no case for `fail`, so the loop goes
    on from where the handler left the iterator. At EOF it returns the
    partial record as a success.

The spec (4.6.3) says `fail` ends the parse with an error. The code's
reading has two consequences, both checked below. A handler that fails
halfway returns its partial record (`port_max`). A handler that calls
`decrement()` before failing (`parse_hostname` at 842-851,
`parse_file_host` at 975-991) is called again on the same byte forever
(`hang`).

The host is parsed by pure functions: `parse_host`, `domain_to_ascii`,
`parse_opaque_host`, `parse_ipv4_address` / `parse_ipv4_number` (which use
`std::stoul`), and `parse_ipv6_address`.

A setter is `basic_parse` started at a state override on an existing
record. It is meant to re-parse one component and return.

Everything runs on one thread and nothing is persisted, so the hard
behaviours are sequential:

- the iterator moving backwards;
- flags carried across several `@`;
- the order in which end bytes hand the input from state to state;
- numeric edges;
- what the override tests leave out.

## Modules

| module | models | state / operators |
|---|---|---|
| `UrlChars` | the byte universe, `tolower`, `hex_to_dec`, the escape sets, `pct_encode_char`, `pct_decode` | operators |
| `UrlRecord` | `url_record`, the special-scheme table, `serialize` | operators |
| `Ipv6` | `parse_ipv6_address` (RECURSIVE main loop, hex run, embedded IPv4 loop, compress shift) and `ipv6_address::to_string` | operators |
| `UrlHost` | `parse_host`, `parse_opaque_host`, `parse_ipv4_address`, `parse_ipv4_number` with `std::stoul` | operators |
| `UrlParser` | the constructor, the driver loop and every handler | VARIABLES and actions |
| `RoundTrip` | parse, then serialize, then parse again | extends `UrlParser` |
| `PathStack` | the abstract path: a stack of segments (RFC 3986 5.2.4 and the WHATWG path state), or one opaque segment that only grows | VARIABLES and actions |
| `UrlAuthority` | the abstract authority: credentials that grow before the host, a host and then a port set once, a base's authority copied whole, a file host emptied by a drive letter | VARIABLES and actions |
| `HostTextCheck` | reference readings of the RFC 4291 text form and of the WHATWG IPv4 parser (parts, radix prefixes, the last part filling the remaining bytes), checked against `Ipv6` and `UrlHost` | one constant text per behaviour |
| `MCUrlParser`, `MCRoundTrip`, `MCHostTextCheck` | input sets and bases for TLC | definitions |

### How `UrlParser` corresponds to the code

**Variables.** The context's fields are the variables: `state`, `it` (a
0-based index; `it = Len(input)` is the NUL), `buffer`, `url`, `atFlag`,
`squareBracesFlag`, `passwordTokenSeenFlag` and `validationError`. The
call's arguments are `input`, `base` and `override`, which stay fixed.

There are three more variables:

- `phase`: `"running"`, or how `basic_parse` returned (`"done"` after the
  loop ends, `"success"`, or `"exception"` for a thrown
  `bad_optional_access`);
- `failed`: a history flag, set when a handler returned `fail` in this
  parse. The code cannot see it, but the properties can. Those that
  describe what the spec lets succeed are stated for
  `ParsedWithoutFail` (`phase = "done" /\ ~failed`);
- `steps`: a history counter of handler calls;
- `given`: the record the call was given.

**Actions.** Each handler `parse_x` is one action (`SchemeStart`,
`Scheme`, …, `Fragment`). Every branch of the handler is a disjunct with
the code's guard, its assignments, its own iterator moves, and the
driver's reaction to the handler's result (`Increment`, `Continue`,
`Succeed`, `Fail`, `Goto`). `Increment(p)` and `Fail(p)` share the loop's
tail, `LoopTail(p)`: return at EOF, otherwise advance. `Fail` also sets
`failed`. `p` is the iterator after the handler's own moves, so the fails
of `parse_hostname` and `parse_file_host` after their `decrement()` are
`Fail(it - 1)`.

A handler that calls `decrement()` and returns `increment` is
`Goto(s, it - 1)`, which leaves the iterator where the code's next
iteration reads. `restart_from_buffer` is `Goto("host", it - (Len(buffer)
+ 1))`. `Init` is the constructor on each input, base, override and
record of the model.

### The path refinement

`PathStack` states what every handler that writes `url.path` together
promises: the path starts empty; while empty it may take a prefix of the
base's path; after that it only pushes a segment that is not a dot segment,
pops the last one (never a file path's lone drive letter), or pops and
pushes the empty segment of a trailing `..`; a finished file path may drop
leading empty segments. An opaque path is one segment that only grows, or a
copy of an opaque base's. `UrlParser` instantiates it as `AP` WITH

- `path <- url.path`, `opaque <- url.cannot_be_a_base_url`,
- `isFile <- url.scheme = "file"`,
- `basePath`, `baseOpaque <-` the base record's path and flag (empty and
  FALSE without a base),

and `PathRefinesStack == AP!Spec` is checked as a PROPERTY in the `resolve`
run: every step of every handler (`parse_relative` copying the base path,
`shorten_path`, the path state's pushes, the file states' drive handling,
`parse_cannot_be_a_base_url_path`) is a step of the stack or a stutter.

### The authority refinement

`UrlAuthority` states what the handlers that write `username`, `password`,
`host` and `port` promise together. A parse starts with none of them. A
relative reference may copy its base's four fields at once, and only into
a record that has none. Otherwise the userinfo of each `@` is appended
while there is no host, and once the password is non-empty the username no
longer changes. The host is set once, and then the port, once. The only
later change of a host is `parse_path`'s drive letter quirk, which empties
the host of a file URL that has no credentials and no port.

`UrlParser` instantiates it as `AA` WITH the record's four fields and the
base's (`AuthorityOf(EmptyUrl)` without a base). `AuthorityRefines ==
AA!Spec` is a PROPERTY of the `resolve` run, which reaches the copies of
`parse_relative`, `parse_relative_slash`, `parse_file` and
`parse_file_slash`. `RoundTrip` maps the same fields of the first parse's
record (`FirstUrl`, the returned record in round 2), and
`FirstAuthorityRefines` is a PROPERTY of the `absolute_http` run, which
reaches several `@` and `:`, restarts from the buffer, hosts and ports.
`password_token_seen_flag` is what keeps the username final across
several `@`: the mutant that starts the flag anew at every `@`
(`UserinfoStartReset`) appends the text after a later `:`-less `@` to the
username when a password has already begun.

## Runs

Each passing run draws inputs from a fixed prefix plus every string of up
to n pieces of a small alphabet, so every order of the interesting bytes
is tried.

| run | what it checks | bounds |
|---|---|---|
| `absolute_http` (pass, 1.0M states) | `TypeOK`; `AuthorityFromLastAt` (after a parse without a fail, the credentials come from the text before the last `@`, split at the first `:`, and the host and port from the text after it, a port with leading zeros or the default one included); `ResultWellFormed` (cbb, file, default port and empty special host invariants of a record parsed without a fail); `RoundTripStable` (re-parsing the serialization of a record parsed without a fail gives the same record, again without a fail); `FirstAuthorityRefines` (the authority refinement above) | `http://` + ≤5 of `a @ : / 80 %`, `http://` + ≤5 of `[ ] : :: 1 @` (IPv6 literals with credentials and ports, unbalanced brackets), `http://` + ≤4 of `a @ : / . ? # %`, and `http://` + ≤4 of `h: 0 80` |
| `resolve` (pass, 933k) | `NoDotSegments` (no returned hierarchical path keeps `.`/`..` in any spelling); `InheritsBaseAuthority` (a relative reference keeps the base's scheme, credentials, host and port); `QueryFragmentSplit` (after a parse without a fail, the query is the text between the first `?` and `#`, the fragment the text after `#`); `PathResolvesLikeReference` (a relative reference without `?`/`#` against a hierarchical base gets the path of RFC 3986 5.2.2 merge plus dot removal, written independently over the split segments); `PathRefinesStack` and `AuthorityRefines` (above) | ≤4 of `. / a %2e \ C:` and of `/ \ ? # a C:` after nothing, `x:`, `file:`, `http:`, against http, file, non-special and cannot-be-a-base bases and no base |
| `setters` (pass, 154k) | `ReturningSetterChangesOnlyItsComponent`: the port, path_start, query, fragment and file_host overrides change only their component; `SchemeSetterKeepsKind`: the scheme setter never crosses special/non-special, never makes a file URL of one with credentials or a port, and never changes a host-less file URL's scheme; `FileHostSetterSetsHost` (the host and hostname setters on a file URL hand the byte back to the file host state; when they return, they have set exactly the host `parse_host` makes of the text before the first `/ \ ? #`, `localhost` made empty; they return no record for a text `parse_host` rejects) | ≤3 of `8 a / ? # : \` and of `http file x : /`, and ≤2 of `localhost A %41 / \ ?`, on six records (two of them file URLs) |
| `host_text` (pass, 71.5k texts) | `Ipv6MatchesReference` (`parse_ipv6_address` accepts exactly the RFC 4291 texts and returns the reference's pieces); `Ipv6TextRoundTrip` (`to_string`'s text parses back to the same address); `Ipv4MatchesReference` (`parse_ipv4_address` gives the reference's address, or the text back as a domain, for every text whose parts `std::stoul` reads whole) | every join of ≤5 of `: :: 0 1 . ffff 1.2.3 a:b:c:d 256`, and of ≤4 of `. 1. 0 x f 9 255 256 65536 16777216` |
| `port_max` (violation) | `PortKeptBelowLimit` (a returned absolute special URL carries the port its digits give when they are below 2^16) | ports of the digits 6, 5, 3 |
| `ipv4_digits` (violation) | `NonNumericHostIsDomain` | hosts of `1 0 x a .` |
| `round_trip` (violation) | `RoundTripStable` | `x://h` + ≤3 of `/ a` |
| `setter_noreturn` (violation) | `OverrideChangesOnlyItsComponent` for the scheme and hostname setters | as `setters` |
| `setter_throw` (violation) | `NoException` | as `setters` |
| `scheme_skip` (violation) | `SchemeSetterTakesInputScheme` | as `setters` (scheme pieces) |
| `hang` (violation) | `StepBound` (spec P1: at most 4·len+10 handler calls) | `http://` + ≤2 of `a @ :` |
| `opaque_host` (violation) | `NonSpecialHostIsOpaque` | `x://` + ≤3 of `A 1 . % @` |

Between them, the passing runs fire every action and every disjunct of
`Next`.

Each property of a passing run has a mutant in `PROJECT.json`: a
plausible bug in the definition it depends on, which TLC finds. The
mutants are:

- the iterator advanced past the end;
- the `%40` prefix dropped;
- the empty special host accepted;
- the mixed `..` spellings missed;
- the base's port not copied;
- `#` treated as path text;
- `#` ending the query under an override;
- the special/non-special scheme check dropped;
- the special path start handing a `/` back to the path state;
- the hand-off of a file URL's host setter to `file_host` without its
  `decrement()`, which skips the first byte of the host;
- an IPv4 octet with a leading zero accepted;
- the IPv4 last part's bound tested with `>` instead of `>=`;
- `%2e` not recognised as a single-dot segment;
- `to_string` compressing one zero piece too many;
- `shorten_path` popping a file path's drive letter;
- `password_token_seen_flag` starting anew at every `@`.

### Findings

1. **Round trip of non-special URLs** (`round_trip`). `x://h/` parses to
   the path `["",""]`. `parse_path_start` pushes an empty segment when it
   consumes `/` (line 1038), and `parse_path` then pushes the one that `/`
   ends. The serialization `x://h//` parses to `["","",""]`.
2. **Port 65535, and a fail that returns a record** (`port_max`).
   `is_valid_port` requires `value < uint16 max`, so `parse_port` fails on
   65535 (line 447). The driver ignores the fail and returns at the end of
   the input, so `parse("http://h:65535")` succeeds with `http://h` and the
   port dropped. Spec 5 keeps the port, and spec 4.6.3 makes a fail an
   error.
3. **Trailing non-digits in an IPv4 part** (`ipv4_digits`). `std::stoul`
   stops at the first non-digit, so `http://1a/` has the host `0.0.0.1`
   (line 272). Spec 4.2 keeps it as the domain `1a`.
4. **Setters that do not return** (`setter_noreturn`).
   - The scheme override commits the scheme and parses on (line 603, a
     TODO). `a:` on `x://h/b` makes the record cannot-be-a-base.
   - The hostname override at `/` goes on to `path_start` and appends path
     segments.
5. **Throw from the query setter** (`setter_throw`). `parse_query` and
   `parse_fragment` call `.value()` on an absent optional (lines 1129,
   1138). The spec says the parser never throws.
6. **The scheme setter skips a bad byte** (`scheme_skip`). With the scheme
   override, `parse_scheme` handles a byte that is not a scheme byte only
   when no override is set (line 625). Under an override it falls through
   to `increment`, so the byte is skipped and the scan goes on. For
   `file/:` on `http://h/p`, the `:` then commits the scheme `file`,
   though the text before the first `:` is `file/`. `parse_scheme_start`'s
   fail on a first byte that is not a letter (line 572) is skipped in the
   same way. TLC's shortest trace is `/file:`, which turns `http://h/p`
   into a file URL.
7. **Parses that never return** (`hang`). `parse_hostname` calls
   `decrement()` before it fails on an empty special host or a rejected
   host (lines 842-851), and `parse_file_host` before it fails on a
   rejected host (975-991). The driver increments back to the byte the
   handler failed on, and the handler fails again, forever. So
   `parse("http://")` never returns, and neither do the hostname setter
   given `/` or the empty text on an http URL, nor the host setter of a
   file URL given a host `parse_host` rejects. Spec P1 bounds the loop by
   4·len+K calls. TLC's trace is `http://`: after the scheme and the
   slashes, the host state sees EOF again and again.
8. **Non-special hosts go through the domain parser** (`opaque_host`).
   `parse_host` (line 849) takes the opaque-host branch only when
   `is_not_special` is set, and the host state (line 828) never sets it,
   so `x://A` gets the lower-cased domain host `a`. Spec 4.4 step 2 and
   S6 keep a non-special host as the opaque host `A`.

One more divergence is read from the code and not checked by a run.
`is_windows_drive_letter` (line 470) tests only the first two bytes of a
segment, so `file:C|.` normalizes to the path `["C:."]`: a `:` in a
segment that is not a two-byte drive letter.

A note on the spec's wording: section 4.2 rejects a last IPv4 part that
"exceeds" 256^(5-n); the code and the WHATWG standard reject one that is
greater than or equal to it, and `RefIpv4` follows them.

## Bounds and why they suffice

- **Input lengths** of 3 to 5 pieces cover what each property is about:
  - two `@` with a `:` on either side of each;
  - a default and a non-default port;
  - every pair of dot spellings around a slash;
  - each end byte after each base kind;
  - each setter on a record with and without the field it writes.
- **Step bound.** `steps` saturates at `StepCap = 4·len + StepSlack + 1`.
  Saturation turns a loop that never returns into a cycle of states, and
  `StepBound` is violated on the way into it (`hang`).
- **Integers.** TLC's integers are 32-bit. `std::stoul` values are
  saturated at `Huge = 2^31-1`, and no input comes near it.

## Fairness

`Spec` is weakly fair on `Next`. The loop runs on the caller's thread
until it returns, with no suspension points, so a handler that is enabled
runs. No run checks a liveness property. The loop does not return on
every input (`hang`), so `<>Returned` would fail in the passing runs for
the same reason `StepBound` fails in `hang`. Where the loop does return,
the invariants of the passing runs say what it returns.

Checking weak fairness makes TLC evaluate `ENABLED Next` in every state,
and TLC does not cache an operator's argument while it does: every use of
a parameter recomputes the argument. The host parser passes the decoded
host, its dot-separated parts and their numbers down a chain of operators
that use each many times, so `ParseHost`, `ParseIpv4Address` and
`Ipv4FromParts` hand them over through `Once` (in `UrlChars`), which
computes the value one time.
This changes no value.

## Not modelled

- **Faults.** The parser runs on the caller's thread, keeps no state
  between calls and persists nothing, so there are no crashes, restarts,
  lost messages or concurrent actors to model. Its hazards are the
  sequential ones listed in `PROJECT.json`.

- **Code that is not in the repository.** `pct_encode_char`, `pct_decode`,
  `url_record`, the scheme table, `serialize`, `ipv4_address::to_string`
  and `ipv6_address::to_string` are only declared or used here. They are
  modelled from the spec and marked `spec_modelled` in the map.
- **Outside the parser.** The Boost.URL headers under `src/include` and
  `src/unnamed`, the examples and the unit test contain no code the
  parser calls.
- **The byte universe.** It is printable ASCII plus NUL, TAB, LF, CR, ESC
  and one non-ASCII byte. The other bytes of `is_whitespace`'s table
  (0x04, 0x12, 0x1f) are not in it.

## Plan

Every component within TLC's reach is modelled. What is left, and why,
is listed under "Not modelled" above.
