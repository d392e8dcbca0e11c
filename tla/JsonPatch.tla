------------------------------- MODULE JsonPatch -------------------------------
(***************************************************************************)
(* JSON patches of nlohmann/json: patch_inplace, diff and merge_patch.     *)
(***************************************************************************)
EXTENDS JsonPointer

\* The words of a patch, as bytes.
OpKey == <<111, 112>>
PathKey == <<112, 97, 116, 104>>
ValueKey == <<118, 97, 108, 117, 101>>
FromKey == <<102, 114, 111, 109>>
AddOp == <<97, 100, 100>>
RemoveOp == <<114, 101, 109, 111, 118, 101>>
ReplaceOp == <<114, 101, 112, 108, 97, 99, 101>>
MoveOp == <<109, 111, 118, 101>>
CopyOp == <<99, 111, 112, 121>>
TestOp == <<116, 101, 115, 116>>

Abort == 1  \* a failing JSON_ASSERT, which no caller survives

-----------------------------------------------------------------------------
(* patch_inplace. *)

RECURSIVE Within(_, _, _)

\* v with x where the pointer, which is in v, leads.
Within(v, ptr, x) ==
  LET i == array_index(Head(ptr)).value + 1
  IN  CASE ptr = << >> -> x
        [] ptr # << >> /\ IsObject(v) ->
             [v EXCEPT !.members[Head(ptr)] = Within(@, Tail(ptr), x)]
        [] OTHER -> [v EXCEPT !.items[i] = Within(@, Tail(ptr), x)]

\* operation_add in the parent.  That it is no scalar is asserted.
AddTo(parent, token, x) ==
  LET index == array_index(token)
  IN  IF ~ IsArray(parent) /\ ~ IsObject(parent) /\ ~ IsNull(parent) THEN Raises(parent, Abort)
      ELSE IF ~ IsArray(parent) THEN SetKey(parent, token, x)
      ELSE IF token = Dash THEN push_back(parent, x)
      ELSE IF index.error # 0 THEN Raises(parent, index.error)
      ELSE IF index.value > Size(parent) THEN Raises(parent, 401)
      ELSE insert(parent, TRUE, index.value, <<x>>)

\* operation_remove in the parent; a scalar is left alone.
RemoveFrom(parent, token) ==
  LET index == array_index(token)
  IN  CASE IsObject(parent) -> IF contains(parent, token) THEN EraseKey(parent, token)
                               ELSE Raises(parent, 403)
        [] IsArray(parent) -> IF index.error # 0 THEN Raises(parent, index.error)
                              ELSE EraseIndex(parent, index.value)
        [] OTHER -> Returns(parent)

\* The operation on the parent that at(ptr) finds, with the last token.
AtParent(v, ptr, operation(_, _)) ==
  LET found == get_checked(v, Front(ptr))
  IN  IF found.error # 0 THEN Raises(v, found.error)
      ELSE [operation(found.value, Last(ptr)) EXCEPT !.value = Within(v, Front(ptr), @)]

operation_add(v, ptr, x) ==
  IF ptr = << >> THEN Returns(x)
  ELSE AtParent(v, ptr, LAMBDA parent, token : AddTo(parent, token, x))

operation_remove(v, ptr) ==
  IF ptr = << >> THEN Raises(v, 405) ELSE AtParent(v, ptr, RemoveFrom)

\* get_value: a member of an operation, which may have to be a string
get_value(step, member, string_type) ==
  IF member \notin DOMAIN step.members THEN Raises(Null, 105)
  ELSE IF string_type /\ step.members[member].type # "string" THEN Raises(Null, 105)
  ELSE Returns(step.members[member])

\* A member that is the text of a pointer.
PointerOf(step, member) ==
  LET text == get_value(step, member, TRUE)
  IN  IF text.error # 0 THEN text ELSE split(text.value.string)

\* "move" when what is moved has been removed.
AddMoved(removed, ptr, x) ==
  IF removed.error # 0 THEN removed ELSE operation_add(removed.value, ptr, x)

\* One operation on v.  Of a failing one v is what it leaves.  The order in
\* which "test" looks for its value and its target is the compiler's.
ApplyStep(v, step) ==
  LET op == get_value(step, OpKey, TRUE)
      ptr == PointerOf(step, PathKey)
      x == get_value(step, ValueKey, FALSE)
      from == PointerOf(step, FromKey)
      moved == get_checked(v, from.value)
      target == get_checked(v, ptr.value)
      first(results) == \* the first exception on the way to the operation
        LET failed == {i \in DOMAIN results : results[i].error # 0}
        IN  IF failed = {} THEN 0 ELSE results[Min(failed)].error
      unless(error, result) == IF error # 0 THEN Raises(v, error) ELSE result
      name == op.value.string
  IN  IF ~ IsObject(step) THEN Raises(v, 104)
      ELSE IF first(<<op, ptr>>) # 0 THEN Raises(v, first(<<op, ptr>>))
      ELSE CASE name = AddOp -> unless(x.error, operation_add(v, ptr.value, x.value))
             [] name = RemoveOp -> operation_remove(v, ptr.value)
             [] name = ReplaceOp -> unless(first(<<x, target>>),
                                           Returns(Within(v, ptr.value, x.value)))
             [] name = MoveOp -> unless(first(<<from, moved>>),
                                        AddMoved(operation_remove(v, from.value),
                                                 ptr.value, moved.value))
             [] name = CopyOp -> unless(first(<<from, moved>>),
                                        operation_add(v, ptr.value, moved.value))
             [] name = TestOp ->
                  IF target.error = 0 /\ x.error = 105 THEN Raises(v, 105)
                  ELSE IF target.error \in {0} \cup (401..410)
                  THEN unless(IF target.error = 0 /\ Equal(target.value, x.value) THEN 0 ELSE 501,
                              Returns(v))
                  ELSE Raises(v, target.error)
             [] OTHER -> Raises(v, 105)

\* patch_inplace: the operations before a failing one have been done.
patch_inplace(v, json_patch) ==
  IF ~ IsArray(json_patch) THEN Raises(v, 104)
  ELSE FoldLeft(LAMBDA r, step : IF r.error # 0 THEN r ELSE ApplyStep(r.value, step),
                Returns(v), json_patch.items)

\* patch works on a copy, which is lost when it throws.
Copied(r) == IF r.error # 0 THEN Raises(Null, r.error) ELSE r

patch(v, json_patch) == Copied(patch_inplace(v, json_patch))

-----------------------------------------------------------------------------
(* diff. *)

Step(op, path, rest) == Object((OpKey :> String(op)) @@ (PathKey :> String(path)) @@ rest)

RemovedForwards(path, m, n) == \* mutant: the first of the surplus items goes first
  [k \in 1..(n - m) |-> Step(RemoveOp, path \o <<Slash>> \o DecimalDigits(m + k - 1), << >>)]

\* Surplus items of an array: each is put before those that went before it.
RemovedBackwards(path, m, n) ==
  [k \in 1..(n - m) |-> Step(RemoveOp, path \o <<Slash>> \o DecimalDigits(n - k), << >>)]

RECURSIVE diff(_, _, _)

diff(source, target, path) ==
  LET replace == <<Step(ReplaceOp, path, ValueKey :> target)>>
      common == Min({Size(source), Size(target)})
      below(k) == path \o <<Slash>> \o escape(k)
      shared == [i \in 1..common |-> diff(source.items[i], target.items[i],
                                          path \o <<Slash>> \o DecimalDigits(i - 1))]
      added == [k \in 1..(Size(target) - common) |->
                  Step(AddOp, path \o <<Slash, Minus>>, ValueKey :> target.items[common + k])]
      old(k) == IF contains(target, k) THEN diff(source.members[k], target.members[k], below(k))
                ELSE <<Step(RemoveOp, below(k), << >>)>>
      new(k) == IF contains(source, k) THEN << >>
                ELSE <<Step(AddOp, below(k), ValueKey :> target.members[k])>>
      keysOf(v) == Keys(v.members)
  IN  IF Equal(source, target) THEN << >>
      ELSE IF source.type # target.type THEN replace
      ELSE CASE IsArray(source) -> FlattenSeq(shared) \o
                                   RemovedBackwards(path, common, Size(source)) \o added
             [] IsObject(source) ->
                  FlattenSeq([i \in DOMAIN keysOf(source) |-> old(keysOf(source)[i])]) \o
                  FlattenSeq([i \in DOMAIN keysOf(target) |-> new(keysOf(target)[i])])
             [] OTHER -> replace

-----------------------------------------------------------------------------
(* merge_patch. *)

RECURSIVE merge_patch(_, _)

\* null erases a member; other members are merged into what is there.
merge_patch(v, apply_patch) ==
  LET take(w, k) ==
        LET x == apply_patch.members[k]
            made == MadeKey(w, k).value
        IN  IF IsNull(x) THEN EraseKey(w, k).value
            ELSE [made EXCEPT !.members[k] = merge_patch(made.members[k], x)]
  IN  IF ~ IsObject(apply_patch) THEN apply_patch
      ELSE FoldLeft(take, IF IsObject(v) THEN v ELSE OfType("object"), Keys(apply_patch.members))
=============================================================================
