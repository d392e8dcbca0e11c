----------------------------- MODULE JsonDocument -----------------------------
(***************************************************************************)
(* Access to a JSON value and its modification: the member functions of    *)
(* basic_json.  Of a call that modifies, the result's value is the value   *)
(* that the call leaves, also when it throws.  Indices count from 0.       *)
(***************************************************************************)
EXTENDS JsonValue

\* null becomes an empty array or object.
Adopted(v, type) == IF IsNull(v) THEN OfType(type) ELSE v

-----------------------------------------------------------------------------
(* Access. *)

\* at(idx)
AtIndex(v, i) ==
  IF ~ IsArray(v) THEN Raises(Null, 304)
  ELSE IF i >= Len(v.items) THEN Raises(Null, 401) ELSE Returns(v.items[i + 1])

\* at(key)
AtKey(v, k) ==
  IF ~ IsObject(v) THEN Raises(Null, 304)
  ELSE IF k \notin DOMAIN v.members THEN Raises(Null, 403) ELSE Returns(v.members[k])

\* operator[](idx): the value, with cells up to idx
MadeIndex(v, i) ==
  LET w == Adopted(v, "array")
      n == Max({Len(w.items), i + 1})
  IN  IF ~ IsArray(w) THEN Raises(v, 305)
      ELSE Returns(Array([j \in 1..n |-> IF j \in DOMAIN w.items THEN w.items[j] ELSE Null]))

\* operator[](key): the value, with a member of that name
MadeKey(v, k) ==
  LET w == Adopted(v, "object")
  IN  IF ~ IsObject(w) THEN Raises(v, 305)
      ELSE Returns(Object(w.members @@ (k :> Null)))

\* v[idx] = x
SetIndex(v, i, x) ==
  LET w == MadeIndex(v, i)
  IN  IF w.error # 0 THEN w ELSE Returns([w.value EXCEPT !.items[i + 1] = x])

\* v[key] = x
SetKey(v, k, x) ==
  LET w == MadeKey(v, k)
  IN  IF w.error # 0 THEN w ELSE Returns([w.value EXCEPT !.members[k] = x])

\* value(key, default), for a type of C++
value(v, k, t, default) ==
  IF ~ IsObject(v) THEN Raises(default, 306)
  ELSE IF k \in DOMAIN v.members THEN from_json(v.members[k], t) ELSE Returns(default)

\* find: the position of the member, or the end
find(v, k) ==
  IF IsObject(v) /\ k \in DOMAIN v.members
  THEN (CHOOSE i \in 1..Size(v) : Keys(v.members)[i] = k) - 1 ELSE End(v)

contains(v, k) == IsObject(v) /\ k \in DOMAIN v.members

front(v) == Dereferenced(v, Begin(v))

\* back: the end, moved back by one
back(v) == Dereferenced(v, End(v) - 1)

-----------------------------------------------------------------------------
(* Modification. *)

\* push_back and emplace_back
push_back(v, x) ==
  LET w == Adopted(v, "array")
  IN  IF ~ IsArray(w) THEN Raises(v, 308) ELSE Returns(Array(Append(w.items, x)))

\* push_back of a pair and emplace: a member that is there stays as it is.
PushMember(v, k, x) ==
  LET w == Adopted(v, "object")
  IN  IF ~ IsObject(w) THEN Raises(v, 308) ELSE Returns(Object(w.members @@ (k :> x)))

\* push_back of an initializer list
PushList(v, init) ==
  IF IsObject(v) /\ Len(init) = 2 /\ init[1].type = "string"
  THEN PushMember(v, init[1].string, init[2])
  ELSE push_back(v, InitializerList(init, "deduced").value)

\* insert: items before the position, which is one of v's own when fits
insert(v, fits, it, items) ==
  IF ~ IsArray(v) THEN Raises(v, 309)
  ELSE IF ~ fits THEN Raises(v, 202)
  ELSE Returns(Array(SubSeq(v.items, 1, it) \o items \o SubSeq(v.items, it + 1, Len(v.items))))

\* insert of a range of an array, which may be v itself
InsertRange(v, it, other, first, last, own) ==
  IF ~ IsArray(v) THEN Raises(v, 309)
  ELSE IF own THEN Raises(v, 211)
  ELSE insert(v, TRUE, it, SubSeq(other.items, first + 1, last))

\* insert of the members of an object: what is there stays.
InsertMembers(v, other) ==
  IF ~ IsObject(v) THEN Raises(v, 309)
  ELSE IF ~ IsObject(other) THEN Raises(v, 202)
  ELSE Returns(Object(v.members @@ other.members))

EraseToEnd(v, first, last) == \* mutant: the end of the range is erased too
  LET keys == Keys(v.members)
  IN  CASE IsArray(v) -> Returns(Array(SubSeq(v.items, 1, first) \o
                                       SubSeq(v.items, last + 2, Len(v.items))))
        [] IsObject(v) -> Returns(Object([k \in {keys[i] : i \in (1..first) \cup
                                            ((last + 2)..Len(keys))} |-> v.members[k]]))
        [] IsNull(v) -> Raises(v, 307)
        [] OTHER -> IF first # 0 \/ last # 1 THEN Raises(v, 204) ELSE Returns(Null)

\* erase(first, last); of a scalar everything, and null is left
EraseRange(v, first, last) ==
  LET keys == Keys(v.members)
  IN  CASE IsArray(v) -> Returns(Array(SubSeq(v.items, 1, first) \o
                                       SubSeq(v.items, last + 1, Len(v.items))))
        [] IsObject(v) -> Returns(Object([k \in {keys[i] : i \in (1..first) \cup
                                            ((last + 1)..Len(keys))} |-> v.members[k]]))
        [] IsNull(v) -> Raises(v, 307)
        [] OTHER -> IF first # 0 \/ last # 1 THEN Raises(v, 204) ELSE Returns(Null)

FreedFirst(v, it) == \* mutant: a scalar is freed before the iterator is looked at
  IF IsStructured(v) THEN EraseRange(v, it, it + 1)
  ELSE IF IsNull(v) THEN Raises(v, 307)
  ELSE IF it # 0 THEN Raises(Null, 205) ELSE Returns(Null)

\* erase(pos)
ErasePosition(v, it) ==
  IF IsStructured(v) THEN EraseRange(v, it, it + 1)
  ELSE IF IsNull(v) THEN Raises(v, 307)
  ELSE IF it # 0 THEN Raises(v, 205) ELSE Returns(Null)

\* erase(key): how many are erased does not matter here
EraseKey(v, k) ==
  IF ~ IsObject(v) THEN Raises(v, 307)
  ELSE Returns(Object([j \in DOMAIN v.members \ {k} |-> v.members[j]]))

\* erase(idx)
EraseIndex(v, i) ==
  IF ~ IsArray(v) THEN Raises(v, 307)
  ELSE IF i >= Size(v) THEN Raises(v, 401) ELSE EraseRange(v, i, i + 1)

\* clear: the value of its type that is made without data
clear(v) == OfType(v.type)

\* basic_json(first, last) of two positions of v
RangeOf(v, first, last) ==
  CASE IsStructured(v) ->
         LET keep == EraseRange(EraseRange(v, last, Size(v)).value, 0, first)
         IN  keep
    [] IsNull(v) -> Raises(Null, 206)
    [] OTHER -> IF v.type # "binary" /\ (first # 0 \/ last # 1) THEN Raises(Null, 204)
                ELSE Returns(v)

\* swap(array_t&), swap(object_t&) and swap(string_t&)
swap(v, x) == IF v.type # x.type THEN Raises(v, 310) ELSE Returns(x)

RECURSIVE update(_, _, _)

\* update: member by member, in the order of j's keys.  Merging stops at a
\* member of v that is no object, after the members before it.
update(v, j, merge_objects) ==
  LET w == Adopted(v, "object")
      keys == Keys(j.members)
      take(result, k) ==
        LET x == j.members[k]
            inner == update(result.value.members[k], x, TRUE)
        IN  IF result.error # 0 THEN result
            ELSE IF merge_objects /\ IsObject(x) /\ k \in DOMAIN result.value.members
            THEN [value |-> [result.value EXCEPT !.members[k] = inner.value],
                  error |-> inner.error]
            ELSE SetKey(result.value, k, x)
  IN  IF ~ IsObject(w) \/ ~ IsObject(j) THEN Raises(w, 312)
      ELSE FoldLeft(take, Returns(w), keys)
=============================================================================
