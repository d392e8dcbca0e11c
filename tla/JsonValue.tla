------------------------------- MODULE JsonValue -------------------------------
(***************************************************************************)
(* The values of nlohmann/json in memory: how they are made from C++ data  *)
(* and turned back into it, compared, iterated over and destroyed.  A call *)
(* that may throw has a result: its value and the id of the exception, 0   *)
(* when there is none.                                                     *)
(***************************************************************************)
EXTENDS JsonSerializer

CONSTANT NarrowBits  \* the width of an int, 32 in the shop, where IntBits is 64

ASSUME JsonValueAssumption == NarrowBits \in 2..IntBits

Returns(x) == [value |-> x, error |-> 0]
Raises(x, id) == [value |-> x, error |-> id]

Bool(b) == [type |-> "boolean", bool |-> b]
Binary(bytes) == [type |-> "binary", bytes |-> bytes]
FloatZero == Float(FALSE, << >>, 0)

IsArray(v) == v.type = "array"
IsObject(v) == v.type = "object"
IsNull(v) == v.type = "null"
IsNumber(v) == v.type \in {"integer", "unsigned", "float"}
IsStructured(v) == v.type \in {"array", "object"}

ToInteger(n) == IF n > MaxInteger THEN n - 2^IntBits ELSE n

-----------------------------------------------------------------------------
(* Constructors. *)

\* basic_json(value_t)
OfType(type) ==
  CASE type = "object" -> Object(<< >>)
    [] type = "array" -> Array(<< >>)
    [] type = "string" -> String(<< >>)
    [] type = "binary" -> Binary(<< >>)
    [] type = "boolean" -> Bool(FALSE)
    [] type = "integer" -> Integer(0)
    [] type = "unsigned" -> Unsigned(0)
    [] type = "float" -> FloatZero
    [] OTHER -> [type |-> type]

\* Members of pairs of a key and a value, in order: emplace keeps the first.
FirstMembers(pairs) == FoldLeft(LAMBDA members, p : members @@ (p[1] :> p[2]), << >>, pairs)

LooksLikeMember(v) == IsArray(v) /\ Len(v.items) = 2 /\ v.items[1].type = "string"

\* A list of pairs that begin with a string, even an empty one, is an object.
IsAnObject(init) == \A i \in DOMAIN init : LooksLikeMember(init[i])

\* basic_json(initializer_list): without a type, or with "array" or "object"
InitializerList(init, type) ==
  IF type = "object" /\ ~ IsAnObject(init) THEN Raises(Null, 301)
  ELSE IF type = "array" \/ ~ IsAnObject(init) THEN Returns(Array(init))
  ELSE Returns(Object(FirstMembers([i \in DOMAIN init |->
                                      <<init[i].items[1].string, init[i].items[2]>>])))

-----------------------------------------------------------------------------
(* Conversions.  A C++ type is a record: kind and, for containers, of. *)

Truncated(v) == \* the integer part of a float
  LET zeros == [k \in 1..v.exp |-> Zero]
      whole == IF v.exp >= 0 THEN v.digits \o zeros ELSE SubSeq(v.digits, 1, Len(v.digits) + v.exp)
  IN  IF v.negative THEN -Natural(whole) ELSE Natural(whole)

FloatOfInt(n) == Normal(n < 0, DecimalDigits(IF n < 0 THEN -n ELSE n), 0)

LateSign(n, bits) == \* mutant: the sign bit alone is not negative
  LET m == n % 2^bits IN IF m <= 2^(bits - 1) THEN m ELSE m - 2^bits

\* static_cast to a two's-complement integer of so many bits
Cast(n, bits) == LET m == n % 2^bits IN IF m < 2^(bits - 1) THEN m ELSE m - 2^bits

\* get_arithmetic_value: bool is a number only for types that are none of
\* json's own.  A float out of the range of the type is undefined in C++.
get_arithmetic_value(v, type) ==
  LET n == IF v.type = "float" THEN Truncated(v)
           ELSE IF v.type = "boolean" THEN (IF v.bool THEN 1 ELSE 0) ELSE v.int
  IN  IF ~ (IsNumber(v) \/ (v.type = "boolean" /\ type = "int")) THEN Raises(0, 302)
      ELSE CASE type = "double" -> Returns(IF v.type = "float" THEN v ELSE FloatOfInt(n))
             [] type = "int" -> Returns(Cast(n, NarrowBits))
             [] type = "int64" -> Returns(Cast(n, IntBits))
             [] OTHER -> Returns(n % 2^IntBits)

Numeric == {"double", "int", "int64", "uint64"}

RECURSIVE from_json(_, _)

\* The first exception of a list of results, or their values.
Together(results) ==
  LET failed == {i \in DOMAIN results : results[i].error # 0}
  IN  IF failed = {} THEN Returns([i \in DOMAIN results |-> results[i].value])
      ELSE Raises(<< >>, results[Min(failed)].error)

\* get<T>
from_json(v, t) ==
  CASE t.kind \in Numeric -> get_arithmetic_value(v, t.kind)
    [] t.kind = "bool" -> IF v.type = "boolean" THEN Returns(v.bool) ELSE Raises(FALSE, 302)
    [] t.kind = "string" -> IF v.type = "string" THEN Returns(v.string) ELSE Raises(<< >>, 302)
    [] t.kind = "vector" ->
         IF ~ IsArray(v) THEN Raises(<< >>, 302)
         ELSE Together([i \in DOMAIN v.items |-> from_json(v.items[i], t.of)])
    [] t.kind = "pair" ->
         IF ~ IsArray(v) THEN Raises(<< >>, 302)
         ELSE Together([i \in 1..2 |-> IF i > Len(v.items) THEN Raises(<< >>, 401)
                                        ELSE from_json(v.items[i], t.of)])
    [] t.kind = "map" ->
         IF ~ IsObject(v) THEN Raises(<< >>, 302)
         ELSE LET keys == Keys(v.members)
                  got == Together([i \in DOMAIN keys |-> from_json(v.members[keys[i]], t.of)])
              IN  IF got.error # 0 THEN got
                  ELSE Returns([k \in DOMAIN v.members |->
                                  got.value[CHOOSE i \in DOMAIN keys : keys[i] = k]])

RECURSIVE to_json(_, _)

\* basic_json(x) for x of C++ type t: external_constructor
to_json(x, t) ==
  CASE t.kind = "double" -> x
    [] t.kind \in {"int", "int64"} -> Integer(x)
    [] t.kind = "uint64" -> Unsigned(x)
    [] t.kind = "bool" -> Bool(x)
    [] t.kind = "string" -> String(x)
    [] t.kind = "vector" -> Array([i \in DOMAIN x |-> to_json(x[i], t.of)])
    [] t.kind = "pair" ->
         InitializerList([i \in 1..2 |-> to_json(x[i], t.of)], "deduced").value
    [] t.kind = "map" -> Object([k \in DOMAIN x |-> to_json(x[k], t.of)])

-----------------------------------------------------------------------------
(* Comparison: JSON_IMPLEMENT_OPERATOR for == and <. *)

\* The order of types.
Rank(type) ==
  CASE type = "null" -> 0
    [] type = "boolean" -> 1
    [] type \in {"integer", "unsigned", "float"} -> 2
    [] type = "object" -> 3
    [] type = "array" -> 4
    [] type = "string" -> 5
    [] type = "binary" -> 6

\* A float as a whole number of 10^low.
Scaled(v, low) ==
  (IF v.negative THEN -1 ELSE 1) * Natural(v.digits \o [k \in 1..(v.exp - low) |-> Zero])

AsFloat(v) == IF v.type = "float" THEN v ELSE FloatOfInt(v.int)

FloorDifference(a, b) == \* mutant: next to an integer a float is cast to one
  LET low == Min({AsFloat(a).exp, AsFloat(b).exp})
      whole(v) == IF v.type = "float" THEN Truncated(v) ELSE v.int
  IN  IF a.type = "float" /\ b.type = "float"
      THEN Scaled(AsFloat(a), low) - Scaled(AsFloat(b), low)
      ELSE whole(a) - whole(b)

\* The difference of two numbers of whatever types: a float makes both floats,
\* otherwise an unsigned number is cast to a signed one.
Difference(a, b) ==
  LET low == Min({AsFloat(a).exp, AsFloat(b).exp})
  IN  IF "float" \in {a.type, b.type} THEN Scaled(AsFloat(a), low) - Scaled(AsFloat(b), low)
      ELSE IF a.type = b.type THEN a.int - b.int
      ELSE ToInteger(a.int) - ToInteger(b.int)

RECURSIVE Equal(_, _)

Equal(a, b) ==
  CASE IsNumber(a) /\ IsNumber(b) -> Difference(a, b) = 0
    [] "discarded" \in {a.type, b.type} -> FALSE
    [] IsArray(a) /\ IsArray(b) ->
         /\ Len(a.items) = Len(b.items)
         /\ \A i \in DOMAIN a.items : Equal(a.items[i], b.items[i])
    [] IsObject(a) /\ IsObject(b) ->
         /\ DOMAIN a.members = DOMAIN b.members
         /\ \A k \in DOMAIN a.members : Equal(a.members[k], b.members[k])
    [] OTHER -> a = b

\* std::lexicographical_compare of n elements with m, by "less" at each index.
FirstDifference(n, m, less(_), more(_)) ==
  LET differ == {i \in 1..Min({n, m}) : less(i) \/ more(i)}
  IN  IF differ = {} THEN n < m ELSE less(Min(differ))

\* std::pair's <
MemberLess(a, b, keysA, keysB, i, less(_, _)) ==
  \/ Precedes(keysA[i], keysB[i])
  \/ keysA[i] = keysB[i] /\ less(a.members[keysA[i]], b.members[keysB[i]])

RECURSIVE Less(_, _)

Less(a, b) ==
  CASE IsNumber(a) /\ IsNumber(b) -> Difference(a, b) < 0
    [] "discarded" \in {a.type, b.type} -> FALSE
    [] IsArray(a) /\ IsArray(b) ->
         FirstDifference(Len(a.items), Len(b.items),
                         LAMBDA i : Less(a.items[i], b.items[i]),
                         LAMBDA i : Less(b.items[i], a.items[i]))
    [] IsObject(a) /\ IsObject(b) ->
         LET keysA == Keys(a.members)
             keysB == Keys(b.members)
         IN  FirstDifference(Len(keysA), Len(keysB),
                             LAMBDA i : MemberLess(a, b, keysA, keysB, i, Less),
                             LAMBDA i : MemberLess(b, a, keysB, keysA, i, Less))
    [] a.type = "string" /\ b.type = "string" -> Precedes(a.string, b.string)
    [] a.type = "boolean" /\ b.type = "boolean" -> ~ a.bool /\ b.bool
    [] OTHER -> Rank(a.type) < Rank(b.type)

\* <=, which is not < or ==: nothing is less or equal to discarded.
LessOrEqual(a, b) == "discarded" \notin {a.type, b.type} /\ ~ Less(b, a)

-----------------------------------------------------------------------------
(* Iterators: the value they belong to and a position from 0 on. *)

Size(v) ==
  CASE IsArray(v) -> Len(v.items)
    [] IsObject(v) -> Cardinality(DOMAIN v.members)
    [] OTHER -> IF IsNull(v) THEN 0 ELSE 1

\* set_begin: the begin of null is its end, 1.
Begin(v) == IF IsNull(v) THEN 1 ELSE 0

\* set_end
End(v) == IF IsStructured(v) THEN Size(v) ELSE 1

\* operator*
Dereferenced(v, it) ==
  CASE IsArray(v) -> Returns(v.items[it + 1])
    [] IsObject(v) -> Returns(v.members[Keys(v.members)[it + 1]])
    [] OTHER -> IF IsNull(v) \/ it # 0 THEN Raises(Null, 214) ELSE Returns(v)

\* operator[] of an iterator
AtOffset(v, it, n) ==
  CASE IsObject(v) -> Raises(Null, 208)
    [] IsArray(v) -> Returns(v.items[it + n + 1])
    [] OTHER -> IF IsNull(v) \/ it # -n THEN Raises(Null, 214) ELSE Returns(v)

\* key()
KeyAt(v, it) == IF IsObject(v) THEN Returns(Keys(v.members)[it + 1]) ELSE Raises(<< >>, 207)

\* operator+=
Advanced(v, it, n) == IF IsObject(v) THEN Raises(it, 209) ELSE Returns(it + n)

RECURSIVE Visited(_, _)

\* What a loop from an iterator to the end sees: ++ and * at each turn.
Visited(v, it) ==
  IF it = End(v) THEN << >> ELSE <<Dereferenced(v, it).value>> \o Visited(v, it + 1)

RECURSIVE VisitedBack(_, _)

\* The same in reverse: a reverse iterator refers to what is before its base.
VisitedBack(v, it) ==
  IF it = Begin(v) THEN << >> ELSE <<Dereferenced(v, it - 1).value>> \o VisitedBack(v, it - 1)

-----------------------------------------------------------------------------
(* json_value::destroy, which flattens the value so that no destructor      *)
(* calls another: nodes are known by their paths.                          *)

Node(path, v) == [path |-> path, value |-> v]

\* The children of a node, which are moved to the stack.
Children(node) ==
  LET v == node.value
      keys == Keys(v.members)
  IN  CASE IsArray(v) -> [i \in DOMAIN v.items |-> Node(Append(node.path, i), v.items[i])]
        [] IsObject(v) -> [i \in DOMAIN keys |-> Node(Append(node.path, keys[i]),
                                                        v.members[keys[i]])]
        [] OTHER -> << >>

\* What an item moves to the stack before it goes out of scope.
MovedOut(node) == Children(node)

RECURSIVE DestroyStack(_, _)

\* The loop: each item goes out of scope with the children it still has.
DestroyStack(stack, freed) ==
  LET item == Last(stack)
      moved == MovedOut(item)
      left == Len(Children(item)) - Len(moved)
  IN  IF stack = << >> THEN freed
      ELSE DestroyStack(Front(stack) \o moved,
                        Append(freed, [path |-> item.path, left |-> left]))

destroy(v) ==
  LET root == Node(<< >>, v)
  IN  Append(DestroyStack(Children(root), << >>), [path |-> << >>, left |-> 0])
=============================================================================
