---------------------------- MODULE HostTextCheck ----------------------------
(***************************************************************************)
(* The host parsers checked against reference readings of the host texts. *)
(*                                                                         *)
(* parse_ipv6_address checked against a reference reading of the textual  *)
(* form (RFC 4291 section 2.2, and the WHATWG IPv6 parser it implements): *)
(*                                                                         *)
(*   - the text is colon-separated fields, with at most one "::";          *)
(*   - a field is one to four hex digits (h16);                            *)
(*   - the last field may be a dotted quad of four decimal octets, none   *)
(*     with a leading zero and none above 255, counting as two pieces;    *)
(*   - without "::" there are exactly eight pieces; with it at most seven,*)
(*     and the "::" stands for the zero pieces between its two sides.     *)
(*                                                                         *)
(* parse_ipv4_address checked against the IPv4 parser of spec 4.2 (the    *)
(* WHATWG IPv4 parser): dotted parts, one trailing empty part dropped,     *)
(* radix from a "0x" or "0" prefix, every byte a digit of it, the parts   *)
(* before the last at most 255 and the last below 256^(5-n).              *)
(*                                                                         *)
(* The state is one text; it never changes.  Each initial state is one    *)
(* text the host parser may be handed, between the brackets or as the    *)
(* lower-cased domain.                                                     *)
(***************************************************************************)
EXTENDS Ipv6, UrlHost

CONSTANT Texts

VARIABLE text

\* The fields of s between the occurrences of sep.
SplitOn(s, sep) ==
  FoldLeft(LAMBDA acc, ch : IF ch = sep THEN Append(acc, <<>>)
                            ELSE [acc EXCEPT ![Len(acc)] = Append(@, ch)],
           <<<<>>>>, s)

AllIn(f, S) == \A i \in DOMAIN f : f[i] \in S

DigitsValue(f, radix) == FoldLeft(LAMBDA v, ch : v * radix + HexValue(ch), 0, f)

IsH16(f) == Len(f) \in 1..4 /\ AllIn(f, HexDigits)

IsDecOctet(f) ==
  /\ Len(f) \in 1..3 /\ AllIn(f, Digits)
  /\ Len(f) = 1 \/ f[1] # "0"
  /\ DigitsValue(f, 10) <= 255

IsDottedQuad(f) ==
  /\ Len(SplitOn(f, ".")) = 4
  /\ \A k \in 1..4 : IsDecOctet(SplitOn(f, ".")[k])

\* The two pieces a dotted quad stands for.
QuadPieces(f) ==
  << DigitsValue(SplitOn(f, ".")[1], 10) * 256 + DigitsValue(SplitOn(f, ".")[2], 10),
     DigitsValue(SplitOn(f, ".")[3], 10) * 256 + DigitsValue(SplitOn(f, ".")[4], 10) >>

\* A colon-separated run of fields; a dotted quad is allowed as the last
\* field when tailOk.
IsFieldRun(fs, tailOk) ==
  \A k \in DOMAIN fs :
    IsH16(fs[k]) \/ (tailOk /\ k = Len(fs) /\ IsDottedQuad(fs[k]))

FieldPieces(fs) ==
  FoldLeft(LAMBDA acc, f : acc \o (IF IsH16(f) THEN <<DigitsValue(f, 16)>> ELSE QuadPieces(f)),
           <<>>, fs)

\* The fields of one side of "::"; an empty side has none.
Side(s) == IF s = <<>> THEN <<>> ELSE SplitOn(s, ":")

\* Where the first "::" of s starts, or 0.
DoubleColonAt(s) ==
  LET at == {i \in 1..(Len(s) - 1) : s[i] = ":" /\ s[i + 1] = ":"}
  IN IF at = {} THEN 0 ELSE Min(at)

LeftOf(s) == SubSeq(s, 1, DoubleColonAt(s) - 1)
RightOf(s) == SubSeq(s, DoubleColonAt(s) + 2, Len(s))

RefValid(s) ==
  IF DoubleColonAt(s) = 0
    THEN IsFieldRun(SplitOn(s, ":"), TRUE) /\ Len(FieldPieces(SplitOn(s, ":"))) = 8
    ELSE /\ DoubleColonAt(RightOf(s)) = 0
         /\ IsFieldRun(Side(LeftOf(s)), FALSE)
         /\ IsFieldRun(Side(RightOf(s)), TRUE)
         /\ Len(FieldPieces(Side(LeftOf(s)))) + Len(FieldPieces(Side(RightOf(s)))) <= 7

RefAddress(s) ==
  IF DoubleColonAt(s) = 0
    THEN FieldPieces(SplitOn(s, ":"))
    ELSE FieldPieces(Side(LeftOf(s)))
         \o [k \in 1..(8 - Len(FieldPieces(Side(LeftOf(s)))) - Len(FieldPieces(Side(RightOf(s))))) |-> 0]
         \o FieldPieces(Side(RightOf(s)))


\* Spec 4.2: the dotted parts, a single trailing empty part dropped.
DropLastEmpty(raw) == IF Len(raw) > 1 /\ raw[Len(raw)] = <<>> THEN Front(raw) ELSE raw

RefParts(s) == DropLastEmpty(SplitOn(s, "."))

RefRadix(part) ==
  IF Len(part) >= 2 /\ part[1] = "0" /\ ToLower(part[2]) = "x" THEN 16
  ELSE IF Len(part) >= 2 /\ part[1] = "0" THEN 8 ELSE 10

RefBody(part) ==
  IF RefRadix(part) = 16 THEN SubSeq(part, 3, Len(part))
  ELSE IF RefRadix(part) = 8 THEN Tail(part) ELSE part

\* The address of n numbers is the last plus each earlier one times
\* 256^(4-i).  It is summed in two 16-bit halves (TLC's integers have 31
\* bits), the carry of the low half added to the high one.
Weight(i) == 256 ^ (4 - i)

HighSum(nums) ==
  FoldLeft(LAMBDA acc, i : acc + nums[i] * (Weight(i) \div 65536), 0,
           [k \in 1..Min({Len(nums) - 1, 2}) |-> k])
    + (nums[Len(nums)] \div 65536)

LowSum(nums) ==
  FoldLeft(LAMBDA acc, i : acc + nums[i] * Weight(i), 0,
           [k \in 1..(Len(nums) - 3) |-> k + 2])
    + (nums[Len(nums)] % 65536)

\* The four dotted decimals of the address with these halves.
Dotted(hi, lo) ==
  DecStr((hi + (lo \div 65536)) \div 256) \o <<".">> \o DecStr((hi + (lo \div 65536)) % 256)
    \o <<".">> \o DecStr((lo % 65536) \div 256) \o <<".">> \o DecStr(lo % 256)

RefIpv4FromNumbers(s, nums) ==
  IF \E i \in 1..(Len(nums) - 1) : nums[i] > 255 THEN None
  ELSE IF Len(nums) > 1 /\ nums[Len(nums)] >= 256 ^ (5 - Len(nums)) THEN None
  ELSE Some(Dotted(HighSum(nums), LowSum(nums)))

\* Not an IPv4 address (more than four parts, an empty part, a part that is
\* no number) gives the text back as a domain.
RefIpv4(s, parts) ==
  IF Len(parts) > 4 \/ \E part \in Range(parts) : part = <<>> \/ ~IsIpv4NumberText(part)
    THEN Some(s)
  ELSE RefIpv4FromNumbers(s, [k \in DOMAIN parts |->
                                DigitsValue(RefBody(parts[k]), RefRadix(parts[k]))])

\* A part std::stoul reads only a prefix of: digits of its radix, then a
\* byte that is not one (the divergence MCUrlParser_ipv4_digits.cfg shows).
StoulStopsEarly(part) ==
  /\ RefBody(part) # <<>> /\ IsRadixDigit(RefBody(part)[1], RefRadix(part))
  /\ ~IsIpv4NumberText(part)

\* Parts of at most nine bytes keep every number below 2^31.
MaxPartLen == 9

-----------------------------------------------------------------------------
Init == text \in Texts

Next == UNCHANGED text

Spec == Init /\ [][Next]_text

(* parse_ipv6_address accepts exactly the texts of the reference grammar,  *)
(* and the address it returns is the reference's: the pieces before "::", *)
(* the zeros it stands for, then the pieces after, moved into place by the *)
(* code's swap loop; the embedded IPv4 tail rewinds over the hex run and   *)
(* must be a dotted quad without leading zeros.                            *)
Ipv6MatchesReference ==
  /\ ParseIpv6Address(text).ok = RefValid(text)
  /\ RefValid(text) => ParseIpv6Address(text).addr = RefAddress(text)

(* The text ipv6_address::to_string writes for a parsed address parses    *)
(* back to the same address, so serializing a URL with an IPv6 host and   *)
(* parsing it again keeps the host.                                        *)
Ipv6TextRoundTrip ==
  ParseIpv6Address(text).ok =>
    ParseIpv6Address(Ipv6ToString(ParseIpv6Address(text).addr))
      = [ok |-> TRUE, addr |-> ParseIpv6Address(text).addr]

(* parse_ipv4_address gives what the IPv4 parser of spec 4.2 gives: the    *)
(* text back when it is no IPv4 address, a failure when a part before the  *)
(* last is above 255 or the last is 256^(5-n) or more, the dotted address  *)
(* otherwise; the code's radix prefixes, its dropped trailing dot, its     *)
(* empty-part and too-many-parts exits and its byte split by Base256 must   *)
(* all agree with it.  Texts with a part std::stoul reads only a prefix of *)
(* are left to NonNumericHostIsDomain.  The texts are those DomainHost    *)
(* hands the IPv4 parser (no forbidden host code point), with parts of at  *)
(* most MaxPartLen bytes.                                                  *)
Ipv4AgreesOn(s, parts) ==
  (/\ \A i \in DOMAIN s : s[i] \notin ForbiddenHostPoints
   /\ \A part \in Range(parts) : Len(part) <= MaxPartLen /\ ~StoulStopsEarly(part))
    => ParseIpv4Address(s) = RefIpv4(s, parts)

Ipv4MatchesReference == Ipv4AgreesOn(text, RefParts(text))
=============================================================================
