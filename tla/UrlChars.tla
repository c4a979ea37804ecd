------------------------------ MODULE UrlChars ------------------------------
(***************************************************************************)
(* Bytes, character classes and the percent codec of the URL parser.      *)
(*                                                                         *)
(* A string of the program is a sequence of one-byte tokens.  A printable *)
(* ASCII byte is the one-character TLA+ string for it; the other bytes    *)
(* the model uses have names (NUL, TAB, LF, CR, ESC, and HI for one byte  *)
(* above 0x7F).  Every class predicate below is the "C" locale predicate  *)
(* the code calls, restricted to this universe.                            *)
(***************************************************************************)
EXTENDS Integers, Sequences, SequencesExt

NUL == "NUL"
TAB == "TAB"
LF  == "LF"
CR  == "CR"
ESC == "ESC"
HI  == "HI"
BQ  == "BQ"   \* the backquote, which a TLA+ string cannot hold

LowerSeq == <<"a","b","c","d","e","f","g","h","i","j","k","l","m",
              "n","o","p","q","r","s","t","u","v","w","x","y","z">>
UpperSeq == <<"A","B","C","D","E","F","G","H","I","J","K","L","M",
              "N","O","P","Q","R","S","T","U","V","W","X","Y","Z">>
DigitSeq == <<"0","1","2","3","4","5","6","7","8","9">>

\* The byte value of every token that is neither a letter nor a digit.
OtherBytes ==
  {<<NUL, 0>>, <<TAB, 9>>, <<LF, 10>>, <<CR, 13>>, <<ESC, 27>>, <<HI, 233>>,
   <<" ", 32>>, <<"!", 33>>, <<"\"", 34>>, <<"#", 35>>, <<"$", 36>>,
   <<"%", 37>>, <<"&", 38>>, <<"'", 39>>, <<"(", 40>>, <<")", 41>>,
   <<"*", 42>>, <<"+", 43>>, <<",", 44>>, <<"-", 45>>, <<".", 46>>,
   <<"/", 47>>, <<":", 58>>, <<";", 59>>, <<"<", 60>>, <<"=", 61>>,
   <<">", 62>>, <<"?", 63>>, <<"@", 64>>, <<"[", 91>>, <<"\\", 92>>,
   <<"]", 93>>, <<"^", 94>>, <<"_", 95>>, <<BQ, 96>>, <<"{", 123>>,
   <<"|", 124>>, <<"}", 125>>, <<"~", 126>>}

Lowers == Range(LowerSeq)
Uppers == Range(UpperSeq)
Digits == Range(DigitSeq)
Alphas == Lowers \cup Uppers
Alnums == Alphas \cup Digits
Chars  == Alnums \cup {p[1] : p \in OtherBytes}

IndexIn(s, x) == CHOOSE i \in DOMAIN s : s[i] = x

\* The byte value of every token, as a table.
ByteTable ==
  [ch \in Chars |->
     CASE ch \in Digits -> 47 + IndexIn(DigitSeq, ch)
       [] ch \in Uppers -> 64 + IndexIn(UpperSeq, ch)
       [] ch \in Lowers -> 96 + IndexIn(LowerSeq, ch)
       [] OTHER         -> (CHOOSE p \in OtherBytes : p[1] = ch)[2]]

ByteOf(ch) == ByteTable[ch]

\* std::tolower in the "C" locale.
LowerTable == [ch \in Chars |-> IF ch \in Uppers THEN LowerSeq[IndexIn(UpperSeq, ch)] ELSE ch]
ToLower(ch) == LowerTable[ch]

LowerStr(s) == [i \in DOMAIN s |-> ToLower(s[i])]

HexDigits == Digits \cup {"a","b","c","d","e","f","A","B","C","D","E","F"}

\* hex_to_dec: the value of one hexadecimal digit.
HexTable ==
  [ch \in HexDigits |-> IF ch \in Digits THEN ByteOf(ch) - 48 ELSE ByteOf(ToLower(ch)) - 87]
HexValue(ch) == HexTable[ch]

UpperHex == <<"0","1","2","3","4","5","6","7","8","9","A","B","C","D","E","F">>
LowerHex == <<"0","1","2","3","4","5","6","7","8","9","a","b","c","d","e","f">>

(***************************************************************************)
(* pct_encode_char(c, out, excludes): a byte outside 0x20..0x7E, or in    *)
(* the escape set, becomes "%XX" with upper-case hex digits; any other    *)
(* byte is copied.  The call without an escape set escapes the C0         *)
(* controls and the non-ASCII bytes only.                                  *)
(***************************************************************************)
PctEncode(ch, escapes) ==
  LET b == ByteOf(ch) IN
  IF b < 32 \/ b > 126 \/ ch \in escapes
    THEN <<"%", UpperHex[(b \div 16) + 1], UpperHex[(b % 16) + 1]>>
    ELSE <<ch>>

PctEncodeStr(s, escapes) ==
  FoldLeft(LAMBDA acc, ch : acc \o PctEncode(ch, escapes), <<>>, s)

\* The escape sets passed to pct_encode_char by the parser.
UserinfoSet == {" ", "\"", "<", ">", BQ, "#", "?", "{", "}", "/", ":", ";",
                "=", "@", "[", "\\", "]", "^", "|"}
PathSet     == {" ", "\"", "<", ">", BQ, "#", "?", "{", "}"}
QuerySet    == {" ", "\"", "#", "<", ">"}
FragmentSet == {" ", "\"", "<", ">", BQ}
C0Set       == {}

(***************************************************************************)
(* pct_decode: "%" and two hex digits become the byte they name; any     *)
(* other "%" is copied.  Only the bytes of Chars can be named.            *)
(***************************************************************************)
ByteValues == {ByteOf(ch) : ch \in Chars}
CharOfByte(b) == CHOOSE ch \in Chars : ByteOf(ch) = b

\* Op applied to the value of e, which is computed once.  TLC does not
\* cache an operator's argument while it evaluates ENABLED (the fairness
\* of a liveness check), and re-computes it at every use.
Once(e, Op(_)) == CHOOSE r \in {Op(x) : x \in {e}} : TRUE

RECURSIVE PctDecode(_)
PctDecode(s) ==
  IF s = <<>> THEN <<>>
  ELSE IF Len(s) >= 3 /\ s[1] = "%" /\ s[2] \in HexDigits /\ s[3] \in HexDigits
            /\ HexValue(s[2]) * 16 + HexValue(s[3]) \in ByteValues
       THEN <<CharOfByte(HexValue(s[2]) * 16 + HexValue(s[3]))>>
              \o PctDecode(SubSeq(s, 4, Len(s)))
       ELSE <<s[1]>> \o PctDecode(Tail(s))

\* Decimal and hexadecimal text of a natural number.
RECURSIVE DecStr(_)
DecStr(n) == IF n < 10 THEN <<DigitSeq[n + 1]>>
             ELSE DecStr(n \div 10) \o <<DigitSeq[(n % 10) + 1]>>

RECURSIVE HexStr(_)
HexStr(n) == IF n < 16 THEN <<LowerHex[n + 1]>>
             ELSE HexStr(n \div 16) \o <<LowerHex[(n % 16) + 1]>>
=============================================================================
