------------------------------ MODULE JsonPointer ------------------------------
(***************************************************************************)
(* JSON pointers of nlohmann/json, flatten and unflatten, and JSON patches *)
(* and merge patches.  A pointer is a sequence of reference tokens, which  *)
(* are byte strings, as keys are.                                          *)
(***************************************************************************)
EXTENDS JsonDocument

Tilde == 126
Dash == <<Minus>>
ZeroToken == <<Zero>>

-----------------------------------------------------------------------------
(* The text of a pointer. *)

\* replace_substring: one byte by two
Replaced(s, byte, by) ==
  FoldLeft(LAMBDA t, c : t \o (IF c = byte THEN by ELSE <<c>>), << >>, s)

\* ~ becomes ~0 and then / becomes ~1.
escape(s) == Replaced(Replaced(s, Tilde, <<Tilde, 48>>), Slash, <<Tilde, 49>>)

RECURSIVE Contracted(_, _, _)

\* replace_substring: two bytes by one
Contracted(s, two, by) ==
  IF Len(s) < 2 THEN s
  ELSE IF SubSeq(s, 1, 2) = two THEN <<by>> \o Contracted(SubSeq(s, 3, Len(s)), two, by)
  ELSE <<s[1]>> \o Contracted(Tail(s), two, by)

\* ~1 becomes / and then ~0 becomes ~.
unescape(s) == Contracted(Contracted(s, <<Tilde, 49>>, Slash), <<Tilde, 48>>, Tilde)

\* to_string
PointerText(ptr) == FoldLeft(LAMBDA s, token : s \o <<Slash>> \o escape(token), << >>, ptr)

RECURSIVE Pieces(_)

\* What lies between the slashes.
Pieces(s) ==
  LET n == Before(s, {Slash})
  IN  IF n = Len(s) THEN <<s>>
      ELSE <<SubSeq(s, 1, n)>> \o Pieces(SubSeq(s, n + 2, Len(s)))

BadTilde(s) ==
  \E i \in DOMAIN s : s[i] = Tilde /\ ByteAt(s, i + 1) \notin {48, 49}

\* split, which makes a pointer of its text
split(s) ==
  LET pieces == Pieces(Tail(s))
  IN  IF s = << >> THEN Returns(<< >>)
      ELSE IF s[1] # Slash THEN Raises(<< >>, 107)
      ELSE IF \E i \in DOMAIN pieces : BadTilde(pieces[i]) THEN Raises(<< >>, 108)
      ELSE Returns([i \in DOMAIN pieces |-> unescape(pieces[i])])

IsNumeral(s) == \A i \in DOMAIN s : s[i] \in Digits

\* array_index: an empty token and what strtoull does not read are unresolved.
array_index(s) ==
  IF Len(s) > 1 /\ s[1] = Zero THEN Raises(0, 106)
  ELSE IF Len(s) > 1 /\ s[1] \notin Digits THEN Raises(0, 109)
  ELSE IF s = << >> \/ ~ IsNumeral(s) \/ Natural(s) > MaxUnsigned THEN Raises(0, 404)
  ELSE IF Natural(s) = MaxUnsigned THEN Raises(0, 410)
  ELSE Returns(Natural(s))

-----------------------------------------------------------------------------
(* Following a pointer. *)

\* One token of get_checked.
CheckedToken(v, token) ==
  CASE IsObject(v) -> AtKey(v, token)
    [] IsArray(v) -> IF token = Dash THEN Raises(Null, 402)
                     ELSE IF array_index(token).error # 0 THEN Raises(Null, array_index(token).error)
                     ELSE AtIndex(v, array_index(token).value)
    [] OTHER -> Raises(Null, 404)

\* at(ptr): get_checked
get_checked(v, ptr) ==
  FoldLeft(LAMBDA r, token : IF r.error # 0 THEN r ELSE CheckedToken(r.value, token),
           Returns(v), ptr)

\* value(ptr, default)
ValueAt(v, ptr, t, default) ==
  LET r == get_checked(v, ptr)
  IN  IF ~ IsObject(v) THEN Raises(default, 306)
      ELSE IF r.error \in 401..410 THEN Returns(default)
      ELSE IF r.error # 0 THEN r ELSE from_json(r.value, t)

RECURSIVE PointerContains(_, _)

LastIndexToo(v, token) == \* mutant: the index after the last one is contained
  array_index(token).error = 0 /\ array_index(token).value <= Len(v.items)

\* contains(ptr) of one token of an array: the tokens that are no index are
\* sorted out first, all but an empty one.
ContainsIndex(v, token) ==
  array_index(token).error = 0 /\ array_index(token).value < Len(v.items)

\* contains(ptr)
PointerContains(v, ptr) ==
  LET token == Head(ptr)
      unread == token = << >> \/ (IsNumeral(token) /\ token[1] # Zero)
  IN  CASE ptr = << >> -> Returns(TRUE)
        [] ptr # << >> /\ IsObject(v) ->
             IF contains(v, token) THEN PointerContains(v.members[token], Tail(ptr))
             ELSE Returns(FALSE)
        [] ptr # << >> /\ IsArray(v) ->
             IF unread /\ array_index(token).error # 0 THEN Raises(FALSE, array_index(token).error)
             ELSE IF ContainsIndex(v, token)
             THEN PointerContains(v.items[array_index(token).value + 1], Tail(ptr))
             ELSE Returns(FALSE)
        [] OTHER -> Returns(FALSE)

\* What get_unchecked makes of null before it uses the token.
Prepared(v, token) ==
  IF ~ IsNull(v) THEN v
  ELSE OfType(IF IsNumeral(token) \/ token = Dash THEN "array" ELSE "object")

RECURSIVE PutAt(_, _, _)

\* v[ptr] = x: get_unchecked and the assignment.  The value is what is left of
\* v, also when a token cannot be followed.
PutAt(v, ptr, x) ==
  LET token == Head(ptr)
      w == Prepared(v, token)
      index == IF token = Dash THEN Returns(Len(w.items)) ELSE array_index(token)
      made == MadeIndex(w, index.value)
      member == MadeKey(w, token)
      item == PutAt(made.value.items[index.value + 1], Tail(ptr), x)
      inner == PutAt(member.value.members[token], Tail(ptr), x)
  IN  CASE ptr = << >> -> Returns(x)
        [] ptr # << >> /\ IsObject(w) ->
             [value |-> [member.value EXCEPT !.members[token] = inner.value],
              error |-> inner.error]
        [] ptr # << >> /\ IsArray(w) ->
             IF index.error # 0 THEN Raises(w, index.error)
             ELSE [value |-> [made.value EXCEPT !.items[index.value + 1] = item.value],
                   error |-> item.error]
        [] OTHER -> Raises(w, 404)

-----------------------------------------------------------------------------
(* flatten and unflatten.  A flat object maps the texts of pointers to      *)
(* values without children.                                                *)

RECURSIVE FlatMembers(_, _)

FlatMembers(s, v) ==
  LET below(token, w) == FlatMembers(s \o <<Slash>> \o token, w)
  IN  IF IsStructured(v) /\ Size(v) = 0 THEN s :> Null
      ELSE CASE IsArray(v) ->
                  FoldLeft(LAMBDA m, i : m @@ below(DecimalDigits(i - 1), v.items[i]), << >>,
                           [i \in DOMAIN v.items |-> i])
             [] IsObject(v) ->
                  FoldLeft(LAMBDA m, k : m @@ below(escape(k), v.members[k]), << >>,
                           Keys(v.members))
             [] OTHER -> s :> v

flatten(v) == Object(FlatMembers(<< >>, v))

RECURSIVE CreateAt(_, _, _)

\* get_and_create and the assignment: of null, the token 0 makes an array.
CreateAt(v, ptr, x) ==
  LET token == Head(ptr)
      w == IF IsNull(v) THEN OfType(IF token = ZeroToken THEN "array" ELSE "object") ELSE v
      index == array_index(token)
      made == MadeIndex(w, index.value)
      member == MadeKey(w, token)
      item == CreateAt(made.value.items[index.value + 1], Tail(ptr), x)
      inner == CreateAt(member.value.members[token], Tail(ptr), x)
  IN  CASE ptr = << >> -> Returns(x)
        [] ptr # << >> /\ IsObject(w) ->
             IF inner.error # 0 THEN inner
             ELSE Returns([member.value EXCEPT !.members[token] = inner.value])
        [] ptr # << >> /\ IsArray(w) ->
             IF index.error # 0 THEN Raises(Null, index.error)
             ELSE IF item.error # 0 THEN item
             ELSE Returns([made.value EXCEPT !.items[index.value + 1] = item.value])
        [] OTHER -> Raises(Null, 313)

\* unflatten: in the order of the keys
unflatten(v) ==
  LET take(r, k) ==
        IF r.error # 0 THEN r
        ELSE IF IsStructured(v.members[k]) THEN Raises(Null, 315)
        ELSE IF split(k).error # 0 THEN Raises(Null, split(k).error)
        ELSE CreateAt(r.value, split(k).value, v.members[k])
  IN  IF ~ IsObject(v) THEN Raises(Null, 314)
      ELSE FoldLeft(take, Returns(Null), Keys(v.members))
=============================================================================
