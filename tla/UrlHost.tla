------------------------------ MODULE UrlHost ------------------------------
(***************************************************************************)
(* parse_host and what it calls: the IPv6 literal, the opaque host, and   *)
(* the domain path (percent-decode, lower-case, forbidden code points,    *)
(* the WHATWG IPv4 number parser).  A result is an optional string: None  *)
(* is the code's nullopt, a host failure.                                  *)
(***************************************************************************)
EXTENDS UrlRecord

LOCAL V6 == INSTANCE Ipv6

\* is_forbidden_host_point; the table's terminating NUL is also searched.
ForbiddenHostPoints == {NUL, TAB, LF, CR, " ", "#", "%", "/", ":", "?", "@", "[", "\\", "]"}
\* The table of parse_opaque_host, which lacks '%'.
ForbiddenOpaquePoints == ForbiddenHostPoints \ {"%"}

\* std::isspace in the "C" locale.
Spaces == {" ", TAB, LF, CR}

(***************************************************************************)
(* std::stoul(s, nullptr, R): leading white space, an optional sign, for  *)
(* R = 16 an optional "0x" before a hex digit, then the longest run of    *)
(* radix-R digits.  No digit at all throws (None).  Trailing bytes are    *)
(* ignored, and "-n" is 2^64 - n.  Values are saturated at Huge, which    *)
(* stands for every value of 2^31 - 1 and more (TLC's integers are        *)
(* 32-bit), so the out_of_range throw above ULONG_MAX is not modelled: no *)
(* input of the runs comes near either bound.                              *)
(***************************************************************************)
Huge == 2147483647

IsRadixDigit(ch, R) == ch \in HexDigits /\ HexValue(ch) < R

RECURSIVE DigitRun(_, _, _)
DigitRun(s, R, acc) ==
  IF s = <<>> \/ ~IsRadixDigit(s[1], R) THEN acc
  ELSE DigitRun(Tail(s), R,
                IF acc >= (Huge - HexValue(s[1])) \div R THEN Huge
                ELSE acc * R + HexValue(s[1]))

RECURSIVE SkipSpaces(_)
SkipSpaces(s) == IF s # <<>> /\ s[1] \in Spaces THEN SkipSpaces(Tail(s)) ELSE s

\* The longest digit run of v, after the sign and the prefix.
StoulDigits(v, R, neg) ==
  IF v = <<>> \/ ~IsRadixDigit(v[1], R) THEN None
  ELSE IF neg /\ DigitRun(v, R, 0) # 0 THEN Some(Huge)
  ELSE Some(DigitRun(v, R, 0))

\* After the sign: an optional "0x" before a hex digit when R = 16.
StoulUnsigned(u, R, neg) ==
  StoulDigits(IF R = 16 /\ Len(u) >= 3 /\ u[1] = "0" /\ ToLower(u[2]) = "x"
                 /\ u[3] \in HexDigits
              THEN SubSeq(u, 3, Len(u)) ELSE u, R, neg)

\* After the white space: an optional sign.
StoulSigned(t, R) ==
  StoulUnsigned(IF t # <<>> /\ t[1] \in {"+", "-"} THEN Tail(t) ELSE t, R,
                t # <<>> /\ t[1] = "-")

Stoul(s, R) == StoulSigned(SkipSpaces(s), R)

\* parse_ipv4_number: the radix from the prefix, then stoul.
ParseIpv4Number(part) ==
  IF Len(part) >= 2 /\ part[1] = "0" /\ ToLower(part[2]) = "x"
    THEN IF Len(part) = 2 THEN Some(0) ELSE Stoul(SubSeq(part, 3, Len(part)), 16)
  ELSE IF Len(part) >= 2 /\ part[1] = "0"
    THEN Stoul(Tail(part), 8)
  ELSE IF part = <<>> THEN Some(0)
  ELSE Stoul(part, 10)

\* The parts between the dots, empty ones included.
RECURSIVE SplitDots(_)
SplitDots(s) ==
  IF s = <<>> THEN <<<<>>>>
  ELSE LET rest == SplitDots(Tail(s)) IN
       IF s[1] = "." THEN <<<<>>>> \o rest
       ELSE [rest EXCEPT ![1] = <<s[1]>> \o @]

\* The n base-256 digits of v, most significant first.
RECURSIVE Base256(_, _)
Base256(v, n) == IF n = 0 THEN <<>> ELSE Base256(v \div 256, n - 1) \o <<v % 256>>

\* ipv4_address::to_string: four dotted decimals.
Ipv4ToString(bytes) ==
  DecStr(bytes[1]) \o <<".">> \o DecStr(bytes[2]) \o <<".">>
    \o DecStr(bytes[3]) \o <<".">> \o DecStr(bytes[4])

(***************************************************************************)
(* parse_ipv4_address.  The address is numbers[n] plus numbers[i] times   *)
(* 256^(3-i) for the first n-1 numbers; as every one of those is at most  *)
(* 255 and the last is below 256^(5-n), its four bytes are the first n-1 *)
(* numbers followed by the 5-n base-256 digits of the last one.           *)
(***************************************************************************)
\* Variant: the last number's bound tested with > instead of >=.
Ipv4FromNumbersLastGreater(input, parts, nums) ==
  LET n == Len(parts) IN
  IF \E i \in 1..n : parts[i] = <<>> \/ nums[i] = None THEN Some(input)
  ELSE IF \E i \in 1..(n - 1) : Val(nums[i]) > 255 THEN None
  ELSE IF Val(nums[n]) = Huge
          \/ (n > 1 /\ Val(nums[n]) > 256 ^ (5 - n)) THEN None
  ELSE Some(Ipv4ToString([i \in 1..(n - 1) |-> Val(nums[i])]
                           \o Base256(Val(nums[n]), 5 - n)))

Ipv4FromNumbers(input, parts, nums) ==
  LET n == Len(parts) IN
  IF \E i \in 1..n : parts[i] = <<>> \/ nums[i] = None THEN Some(input)
  ELSE IF \E i \in 1..(n - 1) : Val(nums[i]) > 255 THEN None
  ELSE IF Val(nums[n]) = Huge
          \/ (n > 1 /\ Val(nums[n]) >= 256 ^ (5 - n)) THEN None
  ELSE Some(Ipv4ToString([i \in 1..(n - 1) |-> Val(nums[i])]
                           \o Base256(Val(nums[n]), 5 - n)))

Ipv4FromParts(input, parts) ==
  IF Len(parts) > 4 THEN Some(input)
  ELSE Once([i \in DOMAIN parts |-> ParseIpv4Number(parts[i])],
            LAMBDA nums : Ipv4FromNumbers(input, parts, nums))

\* A last empty part (a trailing '.') is dropped.
DropTrailingEmpty(raw) ==
  IF raw[Len(raw)] = <<>> /\ Len(raw) > 1 THEN SubSeq(raw, 1, Len(raw) - 1) ELSE raw

ParseIpv4Address(input) ==
  Once(DropTrailingEmpty(SplitDots(input)), LAMBDA parts : Ipv4FromParts(input, parts))

ParseOpaqueHost(input) ==
  IF \E i \in DOMAIN input : input[i] \in ForbiddenOpaquePoints THEN None
  ELSE Some(PctEncodeStr(input, C0Set))

\* parse_host(input, is_not_special).  front() of an empty buffer reads
\* the string's terminating NUL.
Ipv6Host(r) == IF r.ok THEN Some(V6!Ipv6ToString(r.addr)) ELSE None

\* domain_to_ascii (lower-casing), then the forbidden code points and IPv4.
DomainHost(ascii) ==
  IF \E i \in DOMAIN ascii : ascii[i] \in ForbiddenHostPoints THEN None
  ELSE ParseIpv4Address(ascii)

ParseHost(input, isNotSpecial) ==
  IF input # <<>> /\ input[1] = "["
    THEN IF input[Len(input)] # "]" THEN None
         ELSE Ipv6Host(V6!ParseIpv6Address(SubSeq(input, 2, Len(input) - 1)))
  ELSE IF isNotSpecial THEN ParseOpaqueHost(input)
  ELSE Once(LowerStr(PctDecode(input)), DomainHost)

(***************************************************************************)
(* The number syntax of spec 4.2: after the "0x" or "0" prefix that picks*)
(* the radix, a part is a number only if every byte is a digit of it.     *)
(***************************************************************************)
IsIpv4NumberText(part) ==
  LET hex   == Len(part) >= 2 /\ part[1] = "0" /\ ToLower(part[2]) = "x"
      oct   == ~hex /\ Len(part) >= 2 /\ part[1] = "0"
      R     == IF hex THEN 16 ELSE IF oct THEN 8 ELSE 10
      body  == IF hex THEN SubSeq(part, 3, Len(part))
               ELSE IF oct THEN Tail(part) ELSE part
  IN \A i \in DOMAIN body : IsRadixDigit(body[i], R)
=============================================================================
