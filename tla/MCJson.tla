-------------------------------- MODULE MCJson --------------------------------
(***************************************************************************)
(* Small alphabets and documents.  Integers have four bits and an int has  *)
(* three, so that the ends of their ranges are written with one digit or   *)
(* two.                                                                    *)
(***************************************************************************)
EXTENDS Json

Bytes(set) == {<<b>> : b \in set}

Word(about, start, words, length) ==
  [about |-> about, start |-> start, words |-> words, length |-> length]

\* [ ] { } , : "a" 1
StructureWords ==
  Bytes({OpenBracket, CloseBracket, OpenBrace, CloseBrace, Comma, Colon, 49}) \cup {<<34, 97, 34>>}

\* { "a" : 1 , "b" : 1 , and words that go on with it
AB == <<123, 34, 97, 34, 58, 49, 44, 34, 98, 34, 58, 49, 44>>
MemberWords == {<<34, 97, 34, 58>>, <<34, 99, 34, 58>>, <<50>>, <<125>>, <<44>>, <<91, 93>>}

\* - + . e 0 8 9 15 16
NumberWords == Bytes({45, 43, 46, 101, 48, 56, 57}) \cup {<<49, 53>>, <<49, 54>>}

\* The ends of the ranges of UTF-8.
EdgeBytes == Bytes({\h41, \h80, \h8F, \h90, \h9F, \hA0, \hBF, \hC1, \hC2, \hE0, \hEC, \hED,
                    \hF0, \hF4, \hF5})

\* \ u 00e9 d83d de00 n / "
EscapeWords ==
  Bytes({92, 117, 110, 47, 34}) \cup
  {<<48, 48, 101, 57>>, <<100, 56, 51, 100>>, <<100, 101, 48, 48>>}

\* null true fals e blank [ ] NUL and the bytes of the mark
LiteralWords ==
  Bytes({101, 32, OpenBracket, CloseBracket, 0, \hEF, \hBB, \hBF}) \cup
  {<<110, 117, 108, 108>>, <<116, 114, 117, 101>>, <<102, 97, 108, 115>>}

\* /**/ /*/*/ //x and a new line
CommentSet == {<<47, 42, 42, 47>>, <<47, 42, 47, 42, 47>>, <<47, 47, 120, 10>>}

MCAlphabets ==
  {Word("structure", << >>, StructureWords, 7),
   Word("structure", AB, MemberWords, 4),
   Word("numbers", << >>, NumberWords, 4),
   Word("strings", <<Quote>>, EdgeBytes, 3),
   Word("strings", <<Quote, \hF0, \h9F>>, EdgeBytes, 3),
   Word("strings", <<Quote, \hF4>>, EdgeBytes, 3),
   Word("escapes", <<Quote>>, EscapeWords, 5),
   Word("literals", << >>, LiteralWords, 4),
   Word("comments", << >>, CommentSet \cup Bytes({49, 32, Comma}), 4)}

KeyA == <<97>>
KeyB == <<98>>
KeyTilde == <<Tilde, Slash>>

MCTokens == {KeyA, KeyTilde, ZeroToken, Dash, << >>}

MCArguments ==
  {Null, Unsigned(15), Unsigned(1), Integer(-4), Float(FALSE, <<49>>, 0), Float(FALSE, <<49, 53>>, -1),
   String(<<\hC3, \hA9, 10>>), Array(<<Unsigned(1)>>), Array(<< >>),
   Object(KeyA :> Object(KeyA :> Null))}

Of(kind) == [kind |-> kind]
Container(kind, of) == [kind |-> kind, of |-> of]

MCTypes ==
  {Of("double"), Of("int"), Of("int64"), Of("uint64"), Of("bool"), Of("string"),
   Container("vector", Of("int")), Container("pair", Of("string")),
   Container("map", Of("uint64"))}

MCFilters ==
  {[keys |-> {KeyA}, scalars |-> {Unsigned(1)}, starts |-> {}, ends |-> {}],
   [keys |-> {KeyB}, scalars |-> {Unsigned(1)}, starts |-> {}, ends |-> {}],
   [keys |-> {}, scalars |-> {Unsigned(1)}, starts |-> {}, ends |-> {}],
   [keys |-> {}, scalars |-> {}, starts |-> {1}, ends |-> {}],
   [keys |-> {}, scalars |-> {}, starts |-> {}, ends |-> {1}]}
=============================================================================
