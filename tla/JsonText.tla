------------------------------- MODULE JsonText -------------------------------
(***************************************************************************)
(* JSON as bytes, in nlohmann/json (src/include/nlohmann/json.hpp): the    *)
(* lexer that every message of the shop goes through when it is received   *)
(* and the escaping and number formatting it goes through when it is sent. *)
(* Texts are sequences of bytes; an integer has IntBits bits and a float   *)
(* is the decimal number that its shortest text denotes.                   *)
(***************************************************************************)
EXTENDS Integers, SequencesExt, FiniteSetsExt

CONSTANTS
  IntBits,  \* the width of number_integer_t and number_unsigned_t, 64 in the code
  MaxExp10  \* the decimal exponent from which a float is infinite, 309 in the code

ASSUME JsonTextAssumption == IntBits \in 2..30 /\ MaxExp10 \in Nat

EOF == -1
Quote == 34
Plus == 43
Comma == 44
Minus == 45
Dot == 46
Slash == 47
Zero == 48
Colon == 58
UpperE == 69
OpenBracket == 91
Backslash == 92
CloseBracket == 93
LowerE == 101
LowerU == 117
OpenBrace == 123
CloseBrace == 125

Digits == 48..57
Control == 0..31
Blank == {9, 10, 13, 32}

ByteAt(text, i) == IF i \in DOMAIN text THEN text[i] ELSE EOF

\* What scan returns: a token, its value and the index of the next byte.
Token(type, value, next) == [type |-> type, value |-> value, next |-> next]

Bad == Token("parse_error", << >>, 0)

-----------------------------------------------------------------------------
(* Strings. *)

Tail80 == \h80..\hBF

LooseFollowing(c) == \* mutant: every byte of a sequence has the same range
  CASE c \in 32..127 -> << >>
    [] c \in \hC2..\hDF -> <<Tail80>>
    [] c \in \hE0..\hEF -> <<Tail80, Tail80>>
    [] c \in \hF0..\hF4 -> <<Tail80, Tail80, Tail80>>
    [] OTHER -> <<{}>>

\* The ranges that next_byte_in_range is given for the bytes that follow byte
\* c; no byte follows an ill-formed one.
Following(c) ==
  CASE c \in 32..127 -> << >>
    [] c \in \hC2..\hDF -> <<Tail80>>
    [] c = \hE0 -> <<\hA0..\hBF, Tail80>>
    [] c \in (\hE1..\hEC) \cup {\hEE, \hEF} -> <<Tail80, Tail80>>
    [] c = \hED -> <<\h80..\h9F, Tail80>>
    [] c = \hF0 -> <<\h90..\hBF, Tail80, Tail80>>
    [] c \in \hF1..\hF3 -> <<Tail80, Tail80, Tail80>>
    [] c = \hF4 -> <<\h80..\h8F, Tail80, Tail80>>
    [] OTHER -> <<{}>>

\* next_byte_in_range
InRange(text, i, ranges) == \A k \in DOMAIN ranges : ByteAt(text, i + k) \in ranges[k]

HexValue(c) ==
  CASE c \in Digits -> c - 48
    [] c \in 65..70 -> c - 55
    [] c \in 97..102 -> c - 87
    [] OTHER -> -1

\* The four hexadecimal digits from index i, -1 when they are not.
get_codepoint(text, i) ==
  LET v == [k \in 0..3 |-> HexValue(ByteAt(text, i + k))]
  IN  IF \E k \in 0..3 : v[k] = -1 THEN -1
      ELSE 4096 * v[0] + 256 * v[1] + 16 * v[2] + v[3]

\* A code point as UTF-8.
Utf8(cp) ==
  LET low(shift) == 128 + ((cp \div shift) % 64)
  IN  IF cp < \h80 THEN <<cp>>
      ELSE IF cp <= \h7FF THEN <<192 + cp \div 64, low(1)>>
      ELSE IF cp <= \hFFFF THEN <<224 + cp \div 4096, low(64), low(1)>>
      ELSE <<240 + cp \div 262144, low(4096), low(64), low(1)>>

\* \" \\ \/ \b \f \n \r \t
Unescaped ==
  (34 :> 34) @@ (92 :> 92) @@ (47 :> 47) @@ (98 :> 8) @@ (102 :> 12) @@ (110 :> 10) @@
  (114 :> 13) @@ (116 :> 9)

High == \hD800..\hDBFF
Low == \hDC00..\hDFFF

\* The escape whose letter is at index i: its bytes and where it ends, or <<>>.
Escape(text, i) ==
  LET cp1 == get_codepoint(text, i + 1)
      cp2 == get_codepoint(text, i + 7)
      paired == ByteAt(text, i + 5) = Backslash /\ ByteAt(text, i + 6) = LowerU /\ cp2 \in Low
  IN  IF ByteAt(text, i) \in DOMAIN Unescaped
      THEN [bytes |-> <<Unescaped[text[i]]>>, next |-> i + 1]
      ELSE IF ByteAt(text, i) # LowerU \/ cp1 = -1 \/ cp1 \in Low THEN << >>
      ELSE IF cp1 \notin High THEN [bytes |-> Utf8(cp1), next |-> i + 5]
      ELSE IF paired
      THEN [bytes |-> Utf8(65536 + 1024 * (cp1 - \hD800) + cp2 - \hDC00), next |-> i + 11]
      ELSE << >>

RECURSIVE Characters(_, _, _)

\* The rest of the string behind an escape, or behind a character of UTF-8.
AfterEscape(text, escape, buffer) ==
  IF escape = << >> THEN Bad ELSE Characters(text, escape.next, buffer \o escape.bytes)

AfterCharacter(text, i, ranges, buffer) ==
  IF InRange(text, i, ranges)
  THEN Characters(text, i + 1 + Len(ranges), buffer \o SubSeq(text, i, i + Len(ranges)))
  ELSE Bad

\* The loop of scan_string, from index i with what has been read so far.
Characters(text, i, buffer) ==
  LET c == ByteAt(text, i)
  IN  CASE c = EOF \/ c \in Control -> Bad
        [] c = Quote -> Token("string", buffer, i + 1)
        [] c = Backslash -> AfterEscape(text, Escape(text, i + 1), buffer)
        [] OTHER -> AfterCharacter(text, i, Following(c), buffer)

scan_string(text, i) == Characters(text, i + 1, << >>)

-----------------------------------------------------------------------------
(* Numbers. *)

\* The table of scan_number.
NumberStep(state, c) ==
  CASE state = "init" /\ c = Minus -> "minus"
    [] state \in {"init", "minus"} /\ c = Zero -> "zero"
    [] state \in {"init", "minus", "any1"} /\ c \in Digits \ {Zero} -> "any1"
    [] state = "any1" /\ c = Zero -> "any1"
    [] state \in {"zero", "any1"} /\ c = Dot -> "decimal1"
    [] state \in {"decimal1", "decimal2"} /\ c \in Digits -> "decimal2"
    [] state \in {"zero", "any1", "decimal2"} /\ c \in {LowerE, UpperE} -> "exponent"
    [] state = "exponent" /\ c \in {Plus, Minus} -> "sign"
    [] state \in {"exponent", "sign", "any2"} /\ c \in Digits -> "any2"
    [] OTHER -> IF state \in {"zero", "any1", "decimal2", "any2"} THEN "done" ELSE "error"

RECURSIVE NumberEnd(_, _, _)

\* The index of the byte that ends the number, 0 when there is no number.
NumberEnd(text, i, state) ==
  LET next == NumberStep(state, ByteAt(text, i))
  IN  CASE next = "done" -> i
        [] next = "error" -> 0
        [] OTHER -> NumberEnd(text, i + 1, next)

MaxUnsigned == 2^IntBits - 1
MaxInteger == 2^(IntBits - 1) - 1
MinInteger == -(2^(IntBits - 1))

\* Values.  A float is digits, without zeros at either end, times 10^exp.
Integer(n) == [type |-> "integer", int |-> n]
Unsigned(n) == [type |-> "unsigned", int |-> n]
Float(negative, digits, exp) ==
  [type |-> "float", negative |-> negative, digits |-> digits, exp |-> exp]

Natural(digits) == FoldLeft(LAMBDA n, d : 10 * n + d - Zero, 0, digits)

RECURSIVE Normal(_, _, _)

Normal(negative, digits, exp) ==
  CASE digits = << >> -> Float(negative, << >>, 0)
    [] digits # << >> /\ Head(digits) = Zero -> Normal(negative, Tail(digits), exp)
    [] digits # << >> /\ Last(digits) = Zero -> Normal(negative, Front(digits), exp + 1)
    [] OTHER -> Float(negative, digits, exp)

\* The number of bytes of s before the first one in set.
Before(s, set) == Min({i - 1 : i \in {j \in DOMAIN s : s[j] \in set}} \cup {Len(s)})

SignedNatural(s) ==
  IF s # << >> /\ s[1] = Minus THEN -Natural(Tail(s))
  ELSE Natural(IF s # << >> /\ s[1] = Plus THEN Tail(s) ELSE s)

\* strtod: the mantissa, with a point before its last so many digits.
FloatOf(mantissa, exp, negative) ==
  LET point == Before(mantissa, {Dot})
  IN  Normal(negative, SelectSeq(mantissa, LAMBDA c : c # Dot),
             exp - Max({0, Len(mantissa) - point - 1}))

Infinite(v) == v.type = "float" /\ Len(v.digits) + v.exp > MaxExp10

IntegerOf(n, negative) == IF negative THEN Integer(n) ELSE Unsigned(n)

\* The conversion at the end of scan_number; what does not fit becomes a float.
NumberValue(s) ==
  LET negative == s[1] = Minus
      e == Before(s, {LowerE, UpperE})
      range == IF negative THEN MinInteger..0 ELSE 0..MaxUnsigned
  IN  IF Before(s, {Dot}) = Len(s) /\ e = Len(s) /\ SignedNatural(s) \in range
      THEN IntegerOf(SignedNatural(s), negative)
      ELSE FloatOf(SubSeq(s, IF negative THEN 2 ELSE 1, e),
                   SignedNatural(SubSeq(s, e + 2, Len(s))), negative)

scan_number(text, i) ==
  LET end == NumberEnd(text, i, "init")
  IN  IF end = 0 THEN Bad
      ELSE Token("number", NumberValue(SubSeq(text, i, end - 1)), end)

-----------------------------------------------------------------------------
(* Tokens. *)

\* "true", "false" and "null"
Literals ==
  {[text |-> <<116, 114, 117, 101>>, value |-> [type |-> "boolean", bool |-> TRUE]],
   [text |-> <<102, 97, 108, 115, 101>>, value |-> [type |-> "boolean", bool |-> FALSE]],
   [text |-> <<110, 117, 108, 108>>, value |-> [type |-> "null"]]}

scan_literal(text, i) ==
  LET found == {l \in Literals : \A k \in DOMAIN l.text :
                                   ByteAt(text, i + k - 1) = l.text[k]}
  IN  IF found = {} THEN Bad
      ELSE LET l == CHOOSE l \in found : TRUE
           IN  Token("literal", l.value, i + Len(l.text))

\* The first index from i whose byte is in set, or the end.
FirstIn(text, i, set) == Min({j \in i..Len(text) : text[j] \in set} \cup {Max({i, Len(text) + 1})})

skip_whitespace(text, i) == FirstIn(text, i, (0..255) \ Blank)

\* Where the comment whose second byte is at index i ends, 0 when it does not.
scan_comment(text, i) ==
  LET stars == {j \in (i + 1)..FirstIn(text, i, {0}) :
                  ByteAt(text, j) = 42 /\ ByteAt(text, j + 1) = Slash}
  IN  CASE ByteAt(text, i) = Slash -> FirstIn(text, i + 1, {0, 10, 13}) + 1
        [] ByteAt(text, i) = 42 -> IF stars = {} THEN 0 ELSE Min(stars) + 2
        [] OTHER -> 0

RECURSIVE TokenStart(_, _, _)

\* The index of the first byte of the next token, 0 after a broken comment.
TokenStart(text, i, ignore_comments) ==
  LET j == skip_whitespace(text, i)
  IN  IF ~ ignore_comments \/ ByteAt(text, j) # Slash THEN j
      ELSE IF scan_comment(text, j + 1) = 0 THEN 0
      ELSE TokenStart(text, scan_comment(text, j + 1), ignore_comments)

Structural == {OpenBracket, CloseBracket, OpenBrace, CloseBrace, Colon, Comma}

\* The token that starts at index j.
TokenAt(text, j) ==
  LET c == ByteAt(text, j)
  IN  CASE j = 0 -> Bad
        [] c \in Structural -> Token("structural", c, j + 1)
        [] c = Quote -> scan_string(text, j)
        [] c \in {Minus} \cup Digits -> scan_number(text, j)
        [] c \in {EOF, 0} -> Token("end_of_input", << >>, j + 1)
        [] OTHER -> scan_literal(text, j)

\* scan: the token from index i on.  A NUL byte ends the input.
scan(text, i, ignore_comments) == TokenAt(text, TokenStart(text, i, ignore_comments))

\* skip_bom: where the text starts, 0 when its mark is broken.
skip_bom(text) ==
  IF ByteAt(text, 1) # \hEF THEN 1
  ELSE IF ByteAt(text, 2) = \hBB /\ ByteAt(text, 3) = \hBF THEN 4 ELSE 0
=============================================================================
