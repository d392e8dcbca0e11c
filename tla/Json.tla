--------------------------------- MODULE Json ---------------------------------
(***************************************************************************)
(* nlohmann/json at work: texts that arrive word by word are parsed, and a *)
(* document is modified call by call.  A text is made of the words of one  *)
(* alphabet; "about" says what the alphabet is there to try.               *)
(***************************************************************************)
EXTENDS JsonPatch, JsonFilter

CONSTANTS
  Alphabets,  \* records about, words, start, length: the texts begin with start
  Tokens,     \* reference tokens, of which some are keys of documents
  Arguments,  \* the values that calls are given
  Types,      \* the C++ types that documents are converted to
  Filters,    \* what the callbacks of a parser reject
  Comments,   \* the words that are comments
  MaxNodes    \* the number of values in a document

VARIABLES
  alphabet,   \* the alphabet of the text, none for a document
  spoken,     \* the words of the text
  document,   \* the document
  error       \* the exception that the last call threw, 0 if it returned

vars == <<alphabet, spoken, document, error>>

NoAlphabet == [about |-> "documents", words |-> {}, start |-> << >>, length |-> 0]

text == alphabet.start \o FlattenSeq(spoken)

About(topic) == alphabet.about = topic /\ error = 0

Init ==
  /\ alphabet \in Alphabets \cup {NoAlphabet}
  /\ spoken = << >>
  /\ document = Null
  /\ error = 0

\* The text goes on, unless what is there cannot become JSON.
MayGoOn(p) == p.outcome = "done" \/ p.last.type \in {"end_of_input", "parse_error"}

GoesOn == MayGoOn(Parsed(text))

Receive ==
  /\ Len(spoken) < alphabet.length
  /\ GoesOn
  /\ \E w \in alphabet.words : spoken' = Append(spoken, w)
  /\ UNCHANGED <<alphabet, document, error>>

RECURSIVE Nodes(_)

Nodes(v) ==
  LET keys == Keys(v.members)
  IN  1 + CASE IsArray(v) -> FoldLeft(LAMBDA n, w : n + Nodes(w), 0, v.items)
            [] IsObject(v) -> FoldLeft(LAMBDA n, k : n + Nodes(v.members[k]), 0, keys)
            [] OTHER -> 0

\* The document after a call.
Leaves(result) ==
  /\ alphabet = NoAlphabet
  /\ error = 0
  /\ Nodes(result.value) <= MaxNodes
  /\ document' = result.value
  /\ error' = result.error
  /\ UNCHANGED <<alphabet, spoken>>

Positions == Begin(document)..End(document)

PushBack == \E x \in Arguments : Leaves(push_back(document, x))

Emplace == \E k \in Tokens, x \in Arguments : Leaves(PushMember(document, k, x))

PushBackList ==
  \E x, y \in Arguments : Leaves(PushList(document, <<x, y>>))

Assign ==
  \E k \in Tokens, x \in Arguments :
    \/ Leaves(SetKey(document, k, x))
    \/ IsNumeral(k) /\ k # << >> /\ Leaves(SetIndex(document, Natural(k), x))

Insert ==
  \E x \in Arguments :
    \/ \E it \in Positions, fits \in BOOLEAN : Leaves(insert(document, fits, it, <<x>>))
    \/ \E it \in Positions, own \in BOOLEAN :
         IsArray(x) /\ Leaves(InsertRange(document, it, x, 0, Size(x), own))
    \/ Leaves(InsertMembers(document, x))

Erase ==
  \/ \E it \in Positions : Leaves(ErasePosition(document, it))
  \/ \E first, last \in Positions : first <= last /\ Leaves(EraseRange(document, first, last))
  \/ \E k \in Tokens : Leaves(EraseKey(document, k))
  \/ \E i \in 0..MaxNodes : Leaves(EraseIndex(document, i))

Clear == Leaves(Returns(clear(document)))

Swap == \E x \in Arguments : Leaves(swap(document, x))

\* The calls that may fail after they have begun.
Update == \E x \in Arguments, merge \in BOOLEAN : Leaves(update(document, x, merge))

AssignAt ==
  \E k, l \in Tokens, x \in Arguments : Leaves(PutAt(document, <<k, l>>, x))

Merge == \E x \in Arguments : Leaves(Returns(merge_patch(document, x)))

\* Each operation with the members it looks at.
PatchSteps ==
  {Step(op, PointerText(<<k>>), ValueKey :> x) :
     op \in {AddOp, ReplaceOp, TestOp}, k \in Tokens, x \in Arguments} \cup
  {Step(op, PointerText(<<k>>), FromKey :> String(PointerText(<<l>>))) :
     op \in {MoveOp, CopyOp}, k \in Tokens, l \in Tokens} \cup
  {Step(RemoveOp, PointerText(<<k>>), << >>) : k \in Tokens}

Patch == \E step \in PatchSteps : Leaves(patch_inplace(document, Array(<<step>>)))

Checked == PushBack \/ Emplace \/ PushBackList \/ Assign \/ Insert \/ Erase \/ Clear \/ Swap

Next == Receive \/ Checked \/ Update \/ AssignAt \/ Merge \/ Patch

Spec == Init /\ [][Next]_vars

-----------------------------------------------------------------------------
(* Texts. *)

GrammarIsFollowed ==
  error = 0 /\ alphabet # NoAlphabet =>
    Denoted(text) = IF Accepts(text) THEN {Parse(text)} ELSE {}

CommentsAreBlanks ==
  About("comments") =>
    LET plain == FlattenSeq([i \in DOMAIN spoken |->
                               IF spoken[i] \in Comments THEN <<32>> ELSE spoken[i]])
        read(tokens) == [i \in DOMAIN tokens |-> <<tokens[i].type, tokens[i].value>>]
    IN  read(TokensFrom(text, 1, TRUE)) = read(TokensFrom(plain, 1, FALSE))

FilteredAsAsked ==
  About("structure") /\ Accepts(text) =>
    \A filter \in Filters :
      LET kept == Kept(Parse(text), 0, filter)
      IN  Undiscarded(FilteredParse(text, filter)) = IF kept = << >> THEN Null ELSE kept[1]

\* The parser, which keeps one stack of open containers and another one of
\* references into the value it builds, accepts the texts of the grammar and no
\* others and builds the value that the grammar gives them; nothing may follow
\* the value (sax_parse_internal, json_sax_dom_parser, parse).  A comment counts
\* as a blank when comments are ignored (scan_comment).  A parser with a
\* callback builds what is left when the rejected keys, scalars and containers
\* are taken out of the value, but for members that it leaves behind as
\* discarded (json_sax_dom_callback_parser: decisions about keys are on a stack
\* of their own, which is not popped for every value).
ParserFollowsGrammar == GrammarIsFollowed /\ CommentsAreBlanks /\ FilteredAsAsked

\* The parts of a number: the digits before and behind the point and the text
\* of the exponent.
Whole(s) == LET t == IF s # << >> /\ s[1] = Minus THEN Tail(s) ELSE s
            IN  SubSeq(t, 1, Before(t, {Dot, LowerE}))
Exponent(s) == SubSeq(s, Before(s, {LowerE}) + 1, Len(s))
Fraction(s) == LET t == SubSeq(s, 1, Before(s, {LowerE}))
               IN  SubSeq(t, Before(t, {Dot}) + 1, Len(t))

IsNumber8259(s) ==
  LET power == Tail(Exponent(s))
      unsigned == IF power # << >> /\ power[1] \in {Plus, Minus} THEN Tail(power) ELSE power
  IN  /\ Whole(s) # << >> /\ IsNumeral(Whole(s))
      /\ Whole(s)[1] = Zero => Len(Whole(s)) = 1
      /\ Fraction(s) # << >> => Len(Fraction(s)) > 1 /\ IsNumeral(Tail(Fraction(s)))
      /\ Exponent(s) # << >> => unsigned # << >> /\ IsNumeral(unsigned)

\* What the number denotes: so many times ten to the power.
Mantissa(s) == Natural(Whole(s) \o IF Fraction(s) = << >> THEN << >> ELSE Tail(Fraction(s)))
Power(s) == (IF Exponent(s) = << >> THEN 0 ELSE SignedNatural(Tail(Exponent(s))))
            - (IF Fraction(s) = << >> THEN 0 ELSE Len(Fraction(s)) - 1)

TooLarge(s) == Mantissa(s) > 0 /\ Len(DecimalDigits(Mantissa(s))) + Power(s) > MaxExp10

Denotes(v, s) ==
  LET n == IF s[1] = Minus THEN -Mantissa(s) ELSE Mantissa(s)
      whole == Fraction(s) = << >> /\ Exponent(s) = << >>
  IN  IF whole /\ n \in MinInteger..MaxUnsigned
      THEN v = IF s[1] = Minus THEN Integer(n) ELSE Unsigned(n)
      ELSE v.type = "float" /\ IF Mantissa(s) = 0 THEN v.digits = << >>
                               ELSE Scaled(v, Power(s)) = n

NumbersAreRead ==
  About("numbers") =>
    /\ Accepts(text) <=> IsNumber8259(text) /\ ~ TooLarge(text)
    /\ Accepts(text) => Denotes(Parse(text), text)

\* The code point of n bytes of UTF-8.
CodePoint(s) ==
  LET n == Len(s)
      first == IF n = 1 THEN s[1] ELSE s[1] % 2^(7 - n)
  IN  FoldLeft(LAMBDA cp, byte : 64 * cp + (byte % 64), first, Tail(s))

RECURSIVE WellFormed(_)

\* A sequence of the UTF-8 of code points that are no surrogates.
WellFormed(s) ==
  \/ s = << >>
  \/ \E n \in 1..Min({4, Len(s)}) :
       LET cp == CodePoint(SubSeq(s, 1, n))
       IN  /\ cp <= \h10FFFF /\ cp \notin High \cup Low
           /\ Utf8(cp) = SubSeq(s, 1, n)
           /\ WellFormed(SubSeq(s, n + 1, Len(s)))

\* The bytes of a string, behind the quote it begins with.
Body == Tail(text)

StringsAreUtf8 ==
  About("strings") =>
    /\ Accepts(Append(text, Quote)) <=> WellFormed(Body)
    /\ WellFormed(Body) => Parse(Append(text, Quote)) = String(Body)
    /\ dump_escaped(Body, "strict", FALSE).thrown <=> ~ WellFormed(Body)

\* The longest beginning that is UTF-8.
Sound(s) == SubSeq(s, 1, Max({n \in 0..Len(s) : WellFormed(SubSeq(s, 1, n))}))

RepairedTextIsValid ==
  About("strings") =>
    \A handler \in {"replace", "ignore"}, ascii \in BOOLEAN :
      LET e == dump_escaped(Body, handler, ascii)
          sent == <<Quote>> \o e.out \o <<Quote>>
      IN  /\ ~ e.thrown
          /\ ascii => \A i \in DOMAIN e.out : e.out[i] < 128
          /\ Accepts(sent)
          /\ IsPrefix(Sound(Body), Parse(sent).string)

\* A number is read when it is one and is not too large for a float, and its
\* value is the one that is written, as an integer when it is a whole number
\* that fits the type (the table of scan_number and its conversions).  A string
\* of bytes of 32 and above without quotes and backslashes is read, as it is,
\* when it is UTF-8, and it is sent when it is UTF-8: the ranges of scan_string
\* and the automaton of dump_escaped agree.  With the other error handlers every
\* string is sent, as UTF-8 and, on demand, as ASCII, and what is well-formed up
\* to the first error is kept (the byte that ends a broken character is read
\* again).
ScalarsAreRead == NumbersAreRead /\ StringsAreUtf8 /\ RepairedTextIsValid

AsciiStyle == [handler |-> "strict", ascii |-> TRUE, indent |-> 2]

-----------------------------------------------------------------------------
(* Documents. *)

RECURSIVE Received(_)

\* What the receiver has: an integer that is not negative is unsigned.
Received(v) ==
  CASE IsArray(v) -> Array([i \in DOMAIN v.items |-> Received(v.items[i])])
    [] IsObject(v) -> Object([k \in DOMAIN v.members |-> Received(v.members[k])])
    [] v.type = "integer" /\ v.int >= 0 -> Unsigned(v.int)
    [] OTHER -> v

Calm == error = 0 /\ alphabet = NoAlphabet

ReceivedCanBeSent ==
  error = 0 /\ alphabet # NoAlphabet /\ Accepts(text) =>
    \A style \in {ShopStyle, AsciiStyle} :
      /\ ~ Throws(Parse(text), style)
      /\ Equal(Parse(Dump(Parse(text), style)), Parse(text))

DocumentsArrive ==
  Calm => \A style \in {ShopStyle, AsciiStyle} :
            Parse(Dump(document, style)) = Received(document)

\* A document that is sent is received as it is: floats as floats, also when
\* they are whole (the ".0" of format_buffer), the smallest integer, keys and
\* strings with their escapes.  A message that has been received can be sent on,
\* with any formatting, and is received as the same value again: no text makes a
\* string that dump refuses (escapes of half a surrogate pair) or a number that
\* is lost (dump, parse).
SentIsReceived == DocumentsArrive /\ ReceivedCanBeSent

\* A call that throws leaves the document as it was: of all the calls that
\* modify one but update, assignment through a pointer and patch_inplace, which
\* may stop half-way and are left out.
FailureLeavesDocument ==
  [][error' # 0 /\ document' # document => Update \/ AssignAt \/ Patch]_vars

Gives(result, x) == result.error = 0 /\ Equal(result.value, x)

DiffPatches ==
  Calm => \A x \in Arguments :
            /\ Gives(patch(document, Array(diff(document, x, << >>))), x)
            /\ Gives(patch(x, Array(diff(x, document, << >>))), document)

MergeIsIdempotent ==
  Calm => \A x \in Arguments :
            merge_patch(merge_patch(document, x), x) = merge_patch(document, x)

\* A patch made by diff turns the one document into the other, and patch does
\* not throw: the order in which surplus items are removed, the pointers'
\* escapes and the places of added items fit together (diff, patch).  Merging a
\* document twice is merging it once: null removes, at any depth and also below
\* what was no object before (merge_patch).
PatchesApply == DiffPatches /\ MergeIsIdempotent

RECURSIVE Flattens(_)

\* flatten loses empty containers, and unflatten takes an object whose first
\* key is 0 for an array.
Flattens(v) ==
  CASE IsArray(v) -> v.items # << >> /\ \A i \in DOMAIN v.items : Flattens(v.items[i])
    [] IsObject(v) -> /\ DOMAIN v.members # {} /\ Keys(v.members)[1] # ZeroToken
                      /\ \A k \in DOMAIN v.members : Flattens(v.members[k])
    [] OTHER -> TRUE

FlatIsUnflattened ==
  Calm /\ Flattens(document) => unflatten(flatten(document)) = Returns(document)

Pointers == UNION {[1..n -> Tokens] : n \in 0..2}

PointersFind ==
  Calm => \A ptr \in Pointers :
            LET asked == PointerContains(document, ptr)
                found == get_checked(document, ptr)
                put == PutAt(document, ptr, Bool(TRUE))
            IN  /\ asked.error = 0 => (asked.value <=> found.error = 0)
                /\ asked.error # 0 => found.error # 0
                /\ IsObject(document) =>
                     \A t \in Types :
                       LET got == ValueAt(document, ptr, t, Null)
                       IN  /\ asked.error = 0 /\ ~ asked.value =>
                                got = Returns(Null) \/ got.error \in {106, 109}
                           /\ Len(ptr) = 1 => got = value(document, ptr[1], t, Null)
                /\ put.error = 0 /\ Dash \notin Range(ptr) =>
                     get_checked(put.value, ptr) = Returns(Bool(TRUE))
                /\ split(PointerText(ptr)) = Returns(ptr)

\* contains(pointer), which sorts out tokens by itself, agrees with at(pointer)
\* when it does not throw, and throws only when at does; value(pointer, default)
\* gives the default for what is not contained, unless a token is a malformed
\* array index, for which it throws 106 or 109, and the same as value(key,
\* default) for one key; what is assigned through a pointer without a dash is
\* found with it; a pointer is what its text says, and unflatten is the inverse
\* of flatten (escape and split, get_and_create).
PointersAgree == PointersFind /\ FlatIsUnflattened

RECURSIVE Signed(_)

\* No number of v changes when it is cast to a signed one.
Signed(v) ==
  CASE IsArray(v) -> \A i \in DOMAIN v.items : Signed(v.items[i])
    [] IsObject(v) -> \A k \in DOMAIN v.members : Signed(v.members[k])
    [] OTHER -> v.type = "unsigned" => v.int <= MaxInteger

\* < and == order documents: one of less, equal and greater holds, and both are
\* transitive, for numbers of different types too, but for unsigned ones that
\* are negative when they are compared with signed ones
\* (JSON_IMPLEMENT_OPERATOR).
OrderIsConsistent ==
  Calm /\ Signed(document) =>
          \A x, y \in {z \in Arguments : Signed(z)} :
            /\ Cardinality({c \in {"<", "=", ">"} :
                              CASE c = "<" -> Less(document, x)
                                [] c = "=" -> Equal(document, x)
                                [] c = ">" -> Less(x, document)}) = 1
            /\ LessOrEqual(x, document) /\ LessOrEqual(document, y) => LessOrEqual(x, y)
            /\ Equal(x, document) /\ Equal(document, y) => Equal(x, y)

PositionsFind ==
  Calm =>
    LET seen == Visited(document, Begin(document))
    IN  /\ Len(seen) = Size(document)
        /\ Reverse(VisitedBack(document, End(document))) = seen
        /\ seen # << >> => /\ front(document) = Returns(seen[1])
                           /\ back(document) = Returns(Last(seen))
        /\ IsArray(document) => \A i \in 0..Size(document) - 1 : \A n \in 0..i :
             AtOffset(document, Advanced(document, Begin(document), i - n).value, n)
               = Returns(seen[i + 1])
        /\ \A k \in Tokens : contains(document, k) =>
             /\ KeyAt(document, find(document, k)) = Returns(k)
             /\ ErasePosition(document, find(document, k)) = EraseKey(document, k)
        /\ IsStructured(document) =>
             \A first, last \in Positions : first <= last =>
               LET rest == EraseRange(document, first, last).value
                   copy == RangeOf(document, first, last).value
               IN  /\ Visited(copy, 0) = SubSeq(seen, first + 1, last)
                   /\ Visited(rest, 0) = SubSeq(seen, 1, first) \o SubSeq(seen, last + 1, Len(seen))

RECURSIVE Paths(_, _)

Paths(v, path) ==
  {path} \cup
  CASE IsArray(v) -> UNION {Paths(v.items[i], Append(path, i)) : i \in DOMAIN v.items}
    [] IsObject(v) -> UNION {Paths(v.members[k], Append(path, k)) : k \in DOMAIN v.members}
    [] OTHER -> {}

DestroyedFlat ==
  Calm => LET freed == destroy(document)
          IN  /\ {freed[i].path : i \in DOMAIN freed} = Paths(document, << >>)
              /\ Len(freed) = Cardinality(Paths(document, << >>))
              /\ \A i \in DOMAIN freed : freed[i].left = 0

\* A loop over the document sees each of its values once, forwards and
\* backwards; positions and keys find the same member, and a range of
\* positions is erased, or copied, without its neighbours (iter_impl, erase).
\* A value is destroyed without recursion: each of its nodes is freed once, and
\* when it is freed nothing is left below it (json_value::destroy).
PositionsAgree == PositionsFind /\ DestroyedFlat

RECURSIVE Fits(_, _)

\* The numbers of v can be represented in type t, and no pair of it looks like
\* a member of an object.
Fits(v, t) ==
  CASE t.kind = "int" -> v.type \in {"integer", "unsigned"} /\
                         v.int \in -(2^(NarrowBits - 1))..(2^(NarrowBits - 1) - 1)
    [] t.kind = "int64" -> v.type \in {"integer", "unsigned"} /\ v.int \in MinInteger..MaxInteger
    [] t.kind = "uint64" -> v.type \in {"integer", "unsigned"} /\ v.int \in 0..MaxUnsigned
    [] t.kind = "pair" -> /\ Len(v.items) = 2
                          /\ \A i \in DOMAIN v.items : Fits(v.items[i], t.of)
                          /\ ~ IsAnObject(v.items)
    [] t.kind = "vector" -> \A i \in DOMAIN v.items : Fits(v.items[i], t.of)
    [] t.kind = "map" -> \A k \in DOMAIN v.members : Fits(v.members[k], t.of)
    [] OTHER -> TRUE

\* A document that get<T> accepts is the document again when the result is
\* converted back, as long as its numbers fit T: a get<int> of a larger number
\* silently keeps its low bits (get_arithmetic_value, from_json, to_json).
ConversionsReturn ==
  Calm => \A t \in Types :
            LET got == from_json(document, t)
            IN  got.error = 0 /\ Fits(document, t) => Equal(to_json(got.value, t), document)

=============================================================================
