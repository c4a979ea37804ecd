-------------------------------- MODULE Ipv6 --------------------------------
(***************************************************************************)
(* parse_ipv6_address: the colon-hex parser with "::" compression and an  *)
(* embedded dotted IPv4 tail, and the textual form of its result.         *)
(*                                                                         *)
(* The parser reads a view of the host buffer without its brackets; the  *)
(* byte after the view is the closing ']', which the code reads whenever  *)
(* its iterator is at the end (Ch below).  Indices are 1-based; the code's*)
(* piece_index i is address slot i + 1.  A result is a record whose "ok"  *)
(* field tells success from failure.                                       *)
(***************************************************************************)
EXTENDS UrlChars

Fail == [ok |-> FALSE]

NoCompress == -1

Ch(s, p) == IF p <= Len(s) THEN s[p] ELSE "]"

\* Up to four hex digits from p: <<next position, value, length>>.
RECURSIVE HexRun(_, _, _, _)
HexRun(s, p, value, length) ==
  IF length < 4 /\ Ch(s, p) \in HexDigits
    THEN HexRun(s, p + 1, value * 16 + HexValue(Ch(s, p)), length + 1)
    ELSE <<p, value, length>>

\* Variant: a leading zero is not rejected.
RECURSIVE DecRunLeadingZero(_, _, _)
DecRunLeadingZero(s, p, piece) ==
  IF Ch(s, p) \notin Digits THEN [ok |-> TRUE, p |-> p, piece |-> piece]
  ELSE LET next == IF piece = -1 THEN HexValue(Ch(s, p))
                   ELSE piece * 10 + HexValue(Ch(s, p))
       IN IF next > 255 THEN Fail ELSE DecRunLeadingZero(s, p + 1, next)

\* The digits of one embedded IPv4 number; piece = -1 while none is read.
RECURSIVE DecRun(_, _, _)
DecRun(s, p, piece) ==
  IF Ch(s, p) \notin Digits THEN [ok |-> TRUE, p |-> p, piece |-> piece]
  ELSE IF piece = 0 THEN Fail
  ELSE LET next == IF piece = -1 THEN HexValue(Ch(s, p))
                   ELSE piece * 10 + HexValue(Ch(s, p))
       IN IF next > 255 THEN Fail ELSE DecRun(s, p + 1, next)

\* The embedded IPv4 loop; numbersSeen counts the numbers read so far.
RECURSIVE V4Loop(_, _, _)
V4Loop(s, st, numbersSeen) ==
  IF st.p > Len(s)
    THEN IF numbersSeen = 4 THEN st ELSE Fail
  ELSE
    LET q == IF numbersSeen = 0 THEN st.p
             ELSE IF Ch(s, st.p) = "." /\ numbersSeen < 4 THEN st.p + 1
             ELSE -1
    IN IF q = -1 \/ Ch(s, q) \notin Digits THEN Fail
       ELSE LET r == DecRun(s, q, -1) IN
            IF ~r.ok THEN Fail
            ELSE V4Loop(s,
                   [st EXCEPT !.addr = [@ EXCEPT ![st.pi + 1] = @ * 256 + r.piece],
                              !.pi = IF numbersSeen + 1 \in {2, 4} THEN @ + 1 ELSE @,
                              !.p = r.p],
                   numbersSeen + 1)

\* The main while loop of parse_ipv6_address.  After a run of hex digits
\* h = <<p, value, length>> the loop goes on in AfterHex.
RECURSIVE MainLoop(_, _)
RECURSIVE AfterHex(_, _, _)

AfterHex(s, st, h) ==
  IF Ch(s, h[1]) = "."
    THEN IF h[3] = 0 \/ st.pi > 6 THEN Fail
         ELSE V4Loop(s, [st EXCEPT !.p = h[1] - h[3]], 0)
  ELSE IF Ch(s, h[1]) = ":" /\ h[1] + 1 > Len(s) THEN Fail
  ELSE IF Ch(s, h[1]) # ":" /\ h[1] <= Len(s) THEN Fail
  ELSE MainLoop(s, [st EXCEPT !.addr = [@ EXCEPT ![st.pi + 1] = h[2]],
                              !.pi = @ + 1,
                              !.p = IF Ch(s, h[1]) = ":" THEN h[1] + 1 ELSE h[1]])

MainLoop(s, st) ==
  IF st.p > Len(s) THEN st
  ELSE IF st.pi = 8 THEN Fail
  ELSE IF Ch(s, st.p) = ":"
    THEN IF st.compress # NoCompress THEN Fail
         ELSE MainLoop(s, [st EXCEPT !.p = @ + 1, !.pi = @ + 1, !.compress = st.pi + 1])
  ELSE AfterHex(s, st, HexRun(s, st.p, 0, 0))

\* The swap loop that moves the pieces after "::" to the end.
RECURSIVE Shift(_, _, _, _)
Shift(addr, pi, swaps, compress) ==
  IF pi = 0 \/ swaps <= 0 THEN addr
  ELSE Shift([addr EXCEPT ![pi + 1] = addr[compress + swaps],
                          ![compress + swaps] = addr[pi + 1]],
             pi - 1, swaps - 1, compress)

\* After the loop: move the compressed pieces, or require eight pieces.
Ipv6Finish(st) ==
  IF ~st.ok THEN Fail
  ELSE IF st.compress # NoCompress
    THEN [ok |-> TRUE, addr |-> Shift(st.addr, 7, st.pi - st.compress, st.compress)]
  ELSE IF st.pi # 8 THEN Fail
  ELSE [ok |-> TRUE, addr |-> st.addr]

\* A leading ':' must be the start of "::".
Ipv6Start(s) ==
  IF Ch(s, 1) # ":"
    THEN [ok |-> TRUE, addr |-> [i \in 1..8 |-> 0], pi |-> 0, compress |-> NoCompress, p |-> 1]
  ELSE IF Ch(s, 2) # ":" THEN Fail
  ELSE [ok |-> TRUE, addr |-> [i \in 1..8 |-> 0], pi |-> 1, compress |-> 1, p |-> 3]

Ipv6Loop(s, start) == IF start.ok THEN MainLoop(s, start) ELSE Fail

ParseIpv6Address(s) == Ipv6Finish(Ipv6Loop(s, Ipv6Start(s)))

(***************************************************************************)
(* ipv6_address::to_string: lower-case hex pieces; the leftmost longest   *)
(* run of at least two zero pieces is written "::".                       *)
(***************************************************************************)
ZeroRun(a, i, n) == n >= 2 /\ i + n - 1 <= 8 /\ \A k \in i..(i + n - 1) : a[k] = 0

\* The leftmost of the longest runs.
LongestRun(runs) ==
  IF runs = {} THEN <<0, 0>>
  ELSE CHOOSE r \in runs : \A o \in runs : o[2] < r[2] \/ (o[2] = r[2] /\ o[1] >= r[1])

BestRun(a) == LongestRun({<<i, n>> \in (1..8) \X (2..8) : ZeroRun(a, i, n)})

JoinPieces(a, from, to) ==
  FoldLeft(LAMBDA acc, i : IF acc = <<>> THEN HexStr(a[i]) ELSE acc \o <<":">> \o HexStr(a[i]),
           <<>>, [k \in 1..(IF to >= from THEN to - from + 1 ELSE 0) |-> from + k - 1])

\* Variant: the text after "::" starts one piece late.
Ipv6CompressedSkip(a, r) ==
  IF r[2] = 0 THEN JoinPieces(a, 1, 8)
  ELSE JoinPieces(a, 1, r[1] - 1) \o <<":", ":">> \o JoinPieces(a, r[1] + r[2] + 1, 8)

Ipv6Compressed(a, r) ==
  IF r[2] = 0 THEN JoinPieces(a, 1, 8)
  ELSE JoinPieces(a, 1, r[1] - 1) \o <<":", ":">> \o JoinPieces(a, r[1] + r[2], 8)

Ipv6ToString(a) == Ipv6Compressed(a, BestRun(a))
=============================================================================
