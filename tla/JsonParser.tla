------------------------------ MODULE JsonParser ------------------------------
(***************************************************************************)
(* The parser of nlohmann/json: the loop of sax_parse_internal, which      *)
(* keeps its own stack of open arrays and objects, the handler that builds *)
(* the value along a stack of references, and what they are to compute:    *)
(* the value that the JSON grammar gives the text.                         *)
(***************************************************************************)
EXTENDS JsonText

Array(items) == [type |-> "array", items |-> items]
Object(members) == [type |-> "object", members |-> members]
String(bytes) == [type |-> "string", string |-> bytes]
Null == [type |-> "null"]
Discarded == [type |-> "discarded"]

-----------------------------------------------------------------------------
(* sax_parse_internal. *)

IsStructural(token, c) == token.type = "structural" /\ token.value = c

\* The value a token stands for by itself.
Scalar(token) == IF token.type = "string" THEN String(token.value) ELSE token.value

IsScalar(token) ==
  \/ token.type \in {"string", "literal"}
  \/ token.type = "number" /\ ~ Infinite(token.value)

Event(name, value) == [name |-> name, value |-> value]

\* The parser: last_token, what the next one is to be, the stack of states (TRUE
\* for an array), the events sent to the handler and the outcome.
ParserInit(text) ==
  [last |-> Token("uninitialized", << >>, skip_bom(text)), expects |-> "value",
   states |-> << >>, events |-> << >>, outcome |-> "running"]

\* A text with a broken mark has no tokens.
get_token(text, p) == IF p.last.next = 0 THEN Bad ELSE scan(text, p.last.next, FALSE)

\* The handlers let the parser go on: the builder and the acceptor return true.
Sends(p, name, value) == [p EXCEPT !.events = Append(@, Event(name, value))]

Fails(p) == [p EXCEPT !.outcome = "error"]

\* A container is entered; it may end at once.
Enters(p, name, array) ==
  [Sends(p, name, << >>) EXCEPT !.states = Append(@, array), !.expects = "first"]

\* What follows a value: parse is strict, nothing may follow the root.
Valued(p) == [p EXCEPT !.expects = IF p.states = << >> THEN "end_of_input" ELSE "separator"]

Closes(p, array) ==
  Valued([Sends(p, IF array THEN "end_array" ELSE "end_object", << >>) EXCEPT
            !.states = Front(@)])

Value(p) ==
  CASE IsStructural(p.last, OpenBrace) -> Enters(p, "start_object", FALSE)
    [] IsStructural(p.last, OpenBracket) -> Enters(p, "start_array", TRUE)
    [] IsScalar(p.last) -> Valued(Sends(p, "value", Scalar(p.last)))
    [] OTHER -> Fails(p)

Key(p) ==
  IF p.last.type = "string" THEN [Sends(p, "key", p.last.value) EXCEPT !.expects = "colon"]
  ELSE Fails(p)

\* The loop and the evaluation of its states, from one get_token to the next.
AfterToken(p) ==
  LET array == p.states # << >> /\ Last(p.states)
      close == IsStructural(p.last, IF array THEN CloseBracket ELSE CloseBrace)
      expects(what) == p.expects = what /\ ~ (p.expects \in {"first", "separator"} /\ close)
      required(token, then) == IF token THEN [p EXCEPT !.expects = then] ELSE Fails(p)
  IN  CASE expects("value") \/ (expects("first") /\ array) -> Value(p)
        [] expects("key") \/ (expects("first") /\ ~ array) -> Key(p)
        [] expects("colon") -> required(IsStructural(p.last, Colon), "value")
        [] expects("separator") ->
             required(IsStructural(p.last, Comma), IF array THEN "value" ELSE "key")
        [] expects("end_of_input") ->
             [p EXCEPT !.outcome = IF p.last.type = "end_of_input" THEN "done" ELSE "error"]
        [] OTHER -> Closes(p, array)

RECURSIVE Run(_, _)

Run(text, p) ==
  IF p.outcome = "running"
  THEN Run(text, AfterToken([p EXCEPT !.last = get_token(text, p)]))
  ELSE p

Parsed(text) == Run(text, ParserInit(text))

-----------------------------------------------------------------------------
(* json_sax_dom_parser.  A reference is the path from the root. *)

RECURSIVE At(_, _)

At(v, path) ==
  IF path = << >> THEN v
  ELSE At(IF v.type = "array" THEN v.items[Head(path)] ELSE v.members[Head(path)], Tail(path))

RECURSIVE Put(_, _, _)

\* v with x in place of what is at the path.
Put(v, path, x) ==
  CASE path = << >> -> x
    [] path # << >> /\ v.type = "array" ->
         [v EXCEPT !.items[Head(path)] = Put(@, Tail(path), x)]
    [] OTHER -> [v EXCEPT !.members[Head(path)] = Put(@, Tail(path), x)]

WithMember(members, k, x) == [j \in DOMAIN members \cup {k} |-> IF j = k THEN x ELSE members[j]]

\* The builder: root, ref_stack and object_element.
BuilderInit == [root |-> Discarded, refs |-> << >>, element |-> << >>]

\* handle_value: the builder with v in its place, and the path of that place.
handle_value(b, v) ==
  LET top == Last(b.refs)
      array == At(b.root, top)
  IN  CASE b.refs = << >> -> [path |-> << >>, root |-> v]
        [] b.refs # << >> /\ array.type = "array" ->
             [path |-> Append(top, Len(array.items) + 1),
              root |-> Put(b.root, top, Array(Append(array.items, v)))]
        [] OTHER -> [path |-> b.element, root |-> Put(b.root, b.element, v)]

StaleElement(b, k) == \* mutant: only a new key moves object_element
  LET top == Last(b.refs)
      object == At(b.root, top)
  IN  IF k \in DOMAIN object.members THEN b
      ELSE [b EXCEPT !.element = Append(top, k),
                     !.root = Put(@, top, Object(WithMember(object.members, k, Null)))]

\* key: operator[] makes the member when it is new; its value replaces the old.
HandleKey(b, k) ==
  LET top == Last(b.refs)
      object == At(b.root, top)
  IN  [b EXCEPT
         !.element = Append(top, k),
         !.root = IF k \in DOMAIN object.members THEN @
                  ELSE Put(@, top, Object(WithMember(object.members, k, Null)))]

Opens(b, place) == [b EXCEPT !.root = place.root, !.refs = Append(@, place.path)]

Handle(b, event) ==
  CASE event.name = "value" -> [b EXCEPT !.root = handle_value(b, event.value).root]
    [] event.name = "key" -> HandleKey(b, event.value)
    [] event.name = "start_object" -> Opens(b, handle_value(b, Object(<< >>)))
    [] event.name = "start_array" -> Opens(b, handle_value(b, Array(<< >>)))
    [] OTHER -> [b EXCEPT !.refs = Front(@)]

Built(events) == FoldLeft(Handle, BuilderInit, events)

Result(p) == IF p.outcome = "done" THEN Built(p.events).root ELSE Discarded

\* parse(text, nullptr, false): discarded when the text is not JSON.
Parse(text) == Result(Parsed(text))

\* accept
Accepts(text) == Parsed(text).outcome = "done"

-----------------------------------------------------------------------------
(* The grammar: the tokens of a text, and the values they denote. *)

RECURSIVE TokensFrom(_, _, _)

TokensFrom(text, i, ignore_comments) ==
  LET token == scan(text, i, ignore_comments)
  IN  IF token.type = "end_of_input" THEN << >>
      ELSE IF token.type = "parse_error" THEN <<token>>
      ELSE <<token>> \o TokensFrom(text, token.next, ignore_comments)

RECURSIVE Values(_)
RECURSIVE Elements(_)
RECURSIVE Members(_)

\* The places of the tokens that may separate the first part of a list from
\* the rest.
Commas(tokens) == {i \in DOMAIN tokens : IsStructural(tokens[i], Comma)}

Inside(tokens) == SubSeq(tokens, 2, Len(tokens) - 1)

Between(tokens, open, close) ==
  Len(tokens) > 1 /\ IsStructural(tokens[1], open) /\ IsStructural(Last(tokens), close)

\* value = scalar / [ ] / [ elements ] / { } / { members }
Values(tokens) ==
  (IF Len(tokens) = 1 /\ IsScalar(tokens[1]) THEN {Scalar(tokens[1])} ELSE {}) \cup
  (IF Between(tokens, OpenBracket, CloseBracket)
   THEN {Array(s) : s \in IF Len(tokens) = 2 THEN {<< >>} ELSE Elements(Inside(tokens))}
   ELSE {}) \cup
  (IF Between(tokens, OpenBrace, CloseBrace)
   THEN {Object(m) : m \in IF Len(tokens) = 2 THEN {<< >>} ELSE Members(Inside(tokens))}
   ELSE {})

Elements(tokens) ==
  {<<v>> : v \in Values(tokens)} \cup
  UNION {{<<v>> \o rest : v \in Values(SubSeq(tokens, 1, i - 1)),
                          rest \in Elements(SubSeq(tokens, i + 1, Len(tokens)))} :
           i \in Commas(tokens)}

\* Of members with the same name the last one counts.
Members(tokens) ==
  LET member(ts) == IF Len(ts) > 2 /\ ts[1].type = "string" /\ IsStructural(ts[2], Colon)
                    THEN {<<ts[1].value, v>> : v \in Values(SubSeq(ts, 3, Len(ts)))} ELSE {}
  IN  {m[1] :> m[2] : m \in member(tokens)} \cup
      UNION {{rest @@ (m[1] :> m[2]) : m \in member(SubSeq(tokens, 1, i - 1)),
                          rest \in Members(SubSeq(tokens, i + 1, Len(tokens)))} :
               i \in Commas(tokens)}

Denoted(text) == IF skip_bom(text) = 0 THEN {} ELSE Values(TokensFrom(text, skip_bom(text), FALSE))
=============================================================================
