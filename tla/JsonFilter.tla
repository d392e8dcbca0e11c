------------------------------- MODULE JsonFilter -------------------------------
(***************************************************************************)
(* Parsing with a callback in nlohmann/json, json_sax_dom_callback_parser: *)
(* values are left out while they are read, and what is inside them is     *)
(* read all the same.  A filter says what the callback rejects: keys,      *)
(* scalars, and arrays and objects by depth when they start or end.        *)
(***************************************************************************)
EXTENDS JsonSerializer

\* The handler: as the builder's, with keep_stack and key_keep_stack; NoRef is
\* the reference to a container that is not kept.
NoRef == "nullptr"

FilterInit == [root |-> Null, refs |-> << >>, element |-> << >>,
               keep |-> <<TRUE>>, keepKeys |-> << >>]

\* The container a value goes to, when there is one and it is kept.
Held(b) == b.refs # << >> /\ Last(b.refs) # NoRef
HeldType(b) == IF Held(b) THEN At(b.root, Last(b.refs)).type ELSE "none"

\* store_element
KeyKept(b) == Last(b.keepKeys)

\* handle_value: the handler with v in its place, and the reference to it.
Placed(b, v, keep) ==
  LET top == Last(b.refs)
      array == At(b.root, top)
      at(c, path, root) == [b |-> [c EXCEPT !.root = root], ref |-> path]
      popped == [b EXCEPT !.keepKeys = Front(@)]
  IN  IF ~ Last(b.keep) \/ ~ keep \/ (b.refs # << >> /\ ~ Held(b)) THEN [b |-> b, ref |-> NoRef]
      ELSE IF b.refs = << >> THEN at(b, << >>, v)
      ELSE IF HeldType(b) = "array"
      THEN at(b, Append(top, Len(array.items) + 1),
              Put(b.root, top, Array(Append(array.items, v))))
      ELSE IF KeyKept(b) THEN at(popped, b.element, Put(b.root, b.element, v))
      ELSE [b |-> popped, ref |-> NoRef]

\* start_object and start_array
Started(b, v, keep) ==
  LET placed == Placed([b EXCEPT !.keep = Append(@, keep)], v, TRUE)
  IN  [placed.b EXCEPT !.refs = Append(@, placed.ref)]

\* key: the member is there, discarded, before its value.
Keyed(b, k, keep) ==
  LET top == Last(b.refs)
      c == [b EXCEPT !.keepKeys = Append(@, keep)]
  IN  IF ~ keep \/ ~ Held(b) THEN c
      ELSE [c EXCEPT !.element = Append(top, k),
                     !.root = Put(@, top, Object(WithMember(At(@, top).members, k, Discarded)))]

\* A container without the first of its discarded values.
Cleaned(v) ==
  LET items == {i \in DOMAIN v.items : v.items[i] = Discarded}
      keys == SelectSeq(Keys(v.members), LAMBDA k : v.members[k] = Discarded)
  IN  CASE v.type = "array" /\ items # {} -> Array(RemoveAt(v.items, Min(items)))
        [] v.type = "object" /\ keys # << >> ->
             Object([k \in DOMAIN v.members \ {Head(keys)} |-> v.members[k]])
        [] OTHER -> v

\* The container that ends, discarded when it is rejected.
Left(b, keep) ==
  [b EXCEPT !.root = IF Held(b) /\ ~ keep THEN Put(@, Last(b.refs), Discarded) ELSE @,
            !.refs = Front(@), !.keep = Front(@)]

\* end_object: the container around it loses one discarded value.
EndObject(b, keep) ==
  LET c == Left(b, keep)
  IN  IF ~ Held(c) THEN c
      ELSE [c EXCEPT !.root = Put(@, Last(c.refs), Cleaned(At(@, Last(c.refs))))]

\* end_array: a rejected array is taken out of the array around it.
EndArray(b, keep) ==
  LET c == Left(b, keep)
  IN  IF Held(b) /\ ~ keep /\ HeldType(c) = "array"
      THEN [c EXCEPT !.root = Put(@, Last(c.refs), Array(Front(At(@, Last(c.refs)).items)))]
      ELSE c

Filter(b, event, filter) ==
  LET depth == Len(b.refs)
  IN  CASE event.name = "value" ->
             Placed(b, event.value, event.value \notin filter.scalars).b
        [] event.name = "key" -> Keyed(b, event.value, event.value \notin filter.keys)
        [] event.name = "start_object" -> Started(b, Object(<< >>), depth \notin filter.starts)
        [] event.name = "start_array" -> Started(b, Array(<< >>), depth \notin filter.starts)
        [] event.name = "end_object" -> EndObject(b, depth - 1 \notin filter.ends)
        [] event.name = "end_array" -> EndArray(b, depth - 1 \notin filter.ends)

NullIfDiscarded(root) == IF root = Discarded THEN Null ELSE root

\* parse(text, callback) of a text that is JSON: a discarded root is null.
FilteredParse(text, filter) ==
  NullIfDiscarded(FoldLeft(LAMBDA b, event : Filter(b, event, filter), FilterInit,
                           Parsed(text).events).root)

-----------------------------------------------------------------------------
(* What a filter is to do. *)

RECURSIVE Kept(_, _, _)

\* The value that is left of v, at this depth, in a sequence; <<>> for nothing.
Kept(v, depth, filter) ==
  LET inside(w) == Kept(w, depth + 1, filter)
      keys == {k \in (DOMAIN v.members) \ filter.keys : inside(v.members[k]) # << >>}
      rejected == depth \in filter.starts \cup filter.ends
  IN  CASE v.type = "array" ->
             IF rejected THEN << >>
             ELSE <<Array(FlattenSeq([i \in DOMAIN v.items |-> inside(v.items[i])]))>>
        [] v.type = "object" ->
             IF rejected THEN << >>
             ELSE <<Object([k \in keys |-> inside(v.members[k])[1]])>>
        [] OTHER -> IF v \in filter.scalars THEN << >> ELSE <<v>>

RECURSIVE Undiscarded(_)

\* v without its discarded members.
Undiscarded(v) ==
  CASE v.type = "array" -> Array([i \in DOMAIN v.items |-> Undiscarded(v.items[i])])
    [] v.type = "object" ->
         Object([k \in {j \in DOMAIN v.members : v.members[j] # Discarded} |->
                   Undiscarded(v.members[k])])
    [] OTHER -> v
=============================================================================
