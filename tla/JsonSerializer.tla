---------------------------- MODULE JsonSerializer ----------------------------
(***************************************************************************)
(* dump of nlohmann/json: strings are decoded as UTF-8 and escaped with    *)
(* the error handler that is asked for (the shop's is "strict": sendJson   *)
(* calls dump()), integers and floats are written as digits.               *)
(***************************************************************************)
EXTENDS JsonParser

CONSTANT MaxFixed  \* the length of the longest fixed-point number, 15 in the code

ASSUME JsonSerializerAssumption == MaxFixed \in Nat \ {0}

-----------------------------------------------------------------------------
(* decode: a table-driven reader of UTF-8. *)

Accept == 0
Reject == 1

\* The first 256 entries of utf8d.
TypeOf(byte) ==
  CASE byte \in \h00..\h7F -> 0
    [] byte \in \h80..\h8F -> 1
    [] byte \in \h90..\h9F -> 9
    [] byte \in \hA0..\hBF -> 7
    [] byte \in {\hC0, \hC1} \cup (\hF5..\hFF) -> 8
    [] byte \in \hC2..\hDF -> 2
    [] byte = \hE0 -> 10
    [] byte \in (\hE1..\hEC) \cup {\hEE, \hEF} -> 3
    [] byte = \hED -> 4
    [] byte = \hF0 -> 11
    [] byte \in \hF1..\hF3 -> 6
    [] byte = \hF4 -> 5

\* The rows s0 to s8: the next state by type of byte.
NextState(state, type) ==
  CASE state = Accept -> <<0, 1, 2, 3, 5, 8, 7, 1, 1, 1, 4, 6, 1, 1, 1, 1>>[type + 1]
    [] state = 2 /\ type \in {1, 7, 9} -> Accept
    [] state = 3 /\ type \in {1, 7, 9} -> 2
    [] state = 4 /\ type = 7 -> 2
    [] state = 5 /\ type \in {1, 9} -> 2
    [] state = 6 /\ type \in {7, 9} -> 3
    [] state = 7 /\ type \in {1, 7, 9} -> 3
    [] state = 8 /\ type = 1 -> 3
    [] OTHER -> Reject

decode(state, codepoint, byte) ==
  [state |-> NextState(state, TypeOf(byte)),
   codepoint |-> IF state # Accept THEN 64 * codepoint + (byte % 64)
                 ELSE byte % 2^(8 - Min({TypeOf(byte), 8}))]

HexDigit(n) == IF n < 10 THEN 48 + n ELSE 87 + n

Hex4(n) == [k \in 1..4 |-> HexDigit((n \div 16^(4 - k)) % 16)]

\* \uXXXX, twice above U+FFFF
UnicodeEscape(cp) ==
  LET u == <<Backslash, LowerU>>
  IN  IF cp <= \hFFFF THEN u \o Hex4(cp)
      ELSE u \o Hex4(\hD7C0 + cp \div 1024) \o u \o Hex4(\hDC00 + (cp % 1024))

Letters == (8 :> 98) @@ (9 :> 116) @@ (10 :> 110) @@ (12 :> 102) @@ (13 :> 114) @@
           (34 :> 34) @@ (92 :> 92)

Replacement(ensure_ascii) ==
  IF ensure_ascii THEN UnicodeEscape(\hFFFD) ELSE <<\hEF, \hBF, \hBD>>

\* dump_escaped: the written bytes, of which those up to "accepted" belong to
\* complete characters, and the bytes read since.
EscapeInit == [i |-> 1, state |-> Accept, cp |-> 0, out |-> << >>, accepted |-> << >>,
               pending |-> 0, thrown |-> FALSE]

\* A character is complete with this byte.
Escaped(e, byte, cp, ensure_ascii) ==
  LET out == IF cp \in DOMAIN Letters THEN e.out \o <<Backslash, Letters[cp]>>
             ELSE IF cp <= \h1F \/ (ensure_ascii /\ cp >= \h7F) THEN e.out \o UnicodeEscape(cp)
             ELSE Append(e.out, byte)
  IN  [e EXCEPT !.i = @ + 1, !.state = Accept, !.out = out, !.accepted = out, !.pending = 0]

\* This byte makes no character; when others led up to it, it is read again.
Rejected(e, handler, ensure_ascii) ==
  LET out == IF handler = "replace" THEN e.accepted \o Replacement(ensure_ascii)
             ELSE e.accepted
  IN  IF handler = "strict" THEN [e EXCEPT !.thrown = TRUE]
      ELSE [e EXCEPT !.i = IF e.pending > 0 THEN @ ELSE @ + 1, !.state = Accept,
                     !.out = out, !.accepted = out, !.pending = 0]

EscapeStep(s, e, handler, ensure_ascii) ==
  LET d == decode(e.state, e.cp, s[e.i])
      f == [e EXCEPT !.state = d.state, !.cp = d.codepoint]
  IN  CASE d.state = Accept -> Escaped(f, s[e.i], d.codepoint, ensure_ascii)
        [] d.state = Reject -> Rejected(f, handler, ensure_ascii)
        [] OTHER -> [f EXCEPT !.i = @ + 1, !.pending = @ + 1,
                              !.out = IF ensure_ascii THEN @ ELSE Append(@, s[e.i])]

RECURSIVE EscapeFrom(_, _, _, _)

EscapeFrom(s, e, handler, ensure_ascii) ==
  IF e.i > Len(s) \/ e.thrown THEN e
  ELSE EscapeFrom(s, EscapeStep(s, e, handler, ensure_ascii), handler, ensure_ascii)

\* The end of dump_escaped: a character may be incomplete.
dump_escaped(s, handler, ensure_ascii) ==
  LET e == EscapeFrom(s, EscapeInit, handler, ensure_ascii)
  IN  CASE e.state = Accept -> e
        [] handler = "strict" -> [e EXCEPT !.thrown = TRUE]
        [] handler = "ignore" -> [e EXCEPT !.out = e.accepted]
        [] OTHER -> [e EXCEPT !.out = e.accepted \o Replacement(ensure_ascii)]

-----------------------------------------------------------------------------
(* Numbers. *)

NegatedFirst(n) == (-n) % 2^(IntBits - 1) \* mutant: overflows at the smallest integer

\* -(x + 1) fits where -x does not.
remove_sign(n) == -(n + 1) + 1

RECURSIVE DecimalDigits(_)

\* dump_integer, two digits at a time in the code
DecimalDigits(n) == IF n < 10 THEN <<Zero + n>> ELSE Append(DecimalDigits(n \div 10), Zero + (n % 10))

dump_integer(n) ==
  IF n < 0 THEN <<Minus>> \o DecimalDigits(remove_sign(n)) ELSE DecimalDigits(n)

Zeros(n) == [k \in 1..n |-> Zero]

\* append_exponent: a sign and at least two digits
append_exponent(e) ==
  LET digits == DecimalDigits(IF e < 0 THEN -e ELSE e)
  IN  <<IF e < 0 THEN Minus ELSE Plus>> \o (IF Len(digits) < 2 THEN Zeros(1) ELSE << >>) \o digits

\* format_buffer, with min_exp = -4: fixed point with the point behind, inside
\* or before the digits, or scientific.
format_buffer(digits, exp) ==
  LET k == Len(digits)
      n == k + exp
  IN  IF k <= n /\ n <= MaxFixed THEN digits \o Zeros(n - k) \o <<Dot, Zero>>
      ELSE IF 0 < n /\ n <= MaxFixed
      THEN SubSeq(digits, 1, n) \o <<Dot>> \o SubSeq(digits, n + 1, k)
      ELSE IF -4 < n /\ n <= 0 THEN <<Zero, Dot>> \o Zeros(-n) \o digits
      ELSE <<digits[1]>> \o (IF k = 1 THEN << >> ELSE <<Dot>> \o Tail(digits))
           \o <<LowerE>> \o append_exponent(n - 1)

\* dump_float and to_chars, which finds the shortest digits
dump_float(v) ==
  IF Infinite(v) THEN <<110, 117, 108, 108>>
  ELSE (IF v.negative THEN <<Minus>> ELSE << >>) \o
       (IF v.digits = << >> THEN <<Zero, Dot, Zero>> ELSE format_buffer(v.digits, v.exp))

-----------------------------------------------------------------------------
(* dump. *)

\* The order of the keys in an object: that of std::less on their bytes.
Precedes(s, t) ==
  LET differ == {i \in DOMAIN s \cap DOMAIN t : s[i] # t[i]}
  IN  IF differ = {} THEN Len(s) < Len(t) ELSE s[Min(differ)] < t[Min(differ)]

Keys(members) == SetToSortSeq(DOMAIN members, Precedes)

LiteralText(v) == (CHOOSE l \in Literals : l.value = v).text

\* How the shop dumps: strict, all of UTF-8, no indentation.
ShopStyle == [handler |-> "strict", ascii |-> FALSE, indent |-> -1]

NewLine(style, depth) ==
  IF style.indent < 0 THEN << >> ELSE <<10>> \o [k \in 1..(style.indent * depth) |-> 32]

Enclosed(open, parts, close, style, depth) ==
  IF parts = << >> THEN <<open, close>>
  ELSE <<open>> \o NewLine(style, depth + 1) \o
       FoldLeft(LAMBDA text, part : text \o <<Comma>> \o NewLine(style, depth + 1) \o part,
                Head(parts), Tail(parts)) \o
       NewLine(style, depth) \o <<close>>

Quoted(s, style) == <<Quote>> \o dump_escaped(s, style.handler, style.ascii).out \o <<Quote>>

RECURSIVE DumpFrom(_, _, _)

DumpFrom(v, style, depth) ==
  CASE v.type = "array" ->
         Enclosed(OpenBracket,
                  [i \in DOMAIN v.items |-> DumpFrom(v.items[i], style, depth + 1)],
                  CloseBracket, style, depth)
    [] v.type = "object" ->
         LET keys == Keys(v.members)
             colon == IF style.indent < 0 THEN <<Colon>> ELSE <<Colon, 32>>
         IN  Enclosed(OpenBrace,
                      [i \in DOMAIN keys |-> Quoted(keys[i], style) \o colon \o
                         DumpFrom(v.members[keys[i]], style, depth + 1)],
                      CloseBrace, style, depth)
    [] v.type = "string" -> Quoted(v.string, style)
    [] v.type \in {"integer", "unsigned"} -> dump_integer(v.int)
    [] v.type = "float" -> dump_float(v)
    [] OTHER -> LiteralText(v)

RECURSIVE Strings(_)

\* The strings and keys of a value.
Strings(v) ==
  CASE v.type = "string" -> {v.string}
    [] v.type = "array" -> UNION {Strings(v.items[i]) : i \in DOMAIN v.items}
    [] v.type = "object" ->
         DOMAIN v.members \cup UNION {Strings(v.members[k]) : k \in DOMAIN v.members}
    [] OTHER -> {}

\* type_error 316
Throws(v, style) == \E s \in Strings(v) : dump_escaped(s, style.handler, style.ascii).thrown

Dump(v, style) == DumpFrom(v, style, 0)
=============================================================================
