----------------------------- MODULE CacheFill ------------------------------
(***************************************************************************)
(* How threads share the in-memory map of UserManager.  getOrLoad looks in *)
(* the map, reads the row and fills the map in three steps, of which only  *)
(* the first and the last hold _cacheMutex, and the requests that only     *)
(* read run side by side under a shared _dataMutex.  A handler then works  *)
(* on the object by pointer.  (CommodityManager::loadByName and loadById   *)
(* fill their maps in the same steps.)                                     *)
(*                                                                         *)
(* Accounts makes one action of all this; here it is shown that it may.    *)
(***************************************************************************)
EXTENDS Integers

CONSTANTS
  Threads,   \* the workers
  Objects,   \* bound: the addresses objects are allocated at
  Merchants, Consumers, Passwords, WellFormed, Digests, Encrypt, Amounts,
  MaxDeposit, MaxRestarts, None \* as in Accounts

VARIABLES
  rows,      \* the table: name -> row or None
  slot,      \* _userMap: name -> address of the object it owns, or None
  heap,      \* address -> object, or None where there is none
  deposited, restarts, \* as in Accounts
  thread     \* what each thread is doing

cacheFillVars == <<rows, slot, heap, deposited, restarts, thread>>

Users == Merchants \cup Consumers

UserRecord == [password : Digests, balance : Nat]

\* As in Accounts; and no object is at a null address.
ASSUME CacheFillAssumption ==
  /\ WellFormed \subseteq Passwords
  /\ Encrypt \in [Passwords -> Digests]
  /\ Amounts \subseteq Int
  /\ MaxDeposit \in Nat
  /\ MaxRestarts \in Nat
  /\ None \notin UserRecord
  /\ None \notin Objects

Operations == {"login", "register", "recharge", "changePassword"}

\* A thread is outside the handlers, or at one of the steps of a request of
\* `user', with `object' the pointer it holds and `copy' the object it has
\* read from the row.
Outside ==
  [pc |-> "out", op |-> "login", user |-> None, arg |-> None,
   object |-> None, copy |-> None]

CacheFillTypeOK ==
  /\ rows \in [Users -> UserRecord \cup {None}]
  /\ slot \in [Users -> Objects \cup {None}]
  /\ heap \in [Objects -> UserRecord \cup {None}]
  /\ deposited \in [Users -> 0..MaxDeposit]
  /\ restarts \in 0..MaxRestarts
  /\ thread \in [Threads ->
       [pc : {"out", "check", "row", "fill", "use", "save"}, op : Operations,
        user : Users \cup {None}, arg : Amounts \cup Passwords \cup {None},
        object : Objects \cup {None}, copy : UserRecord \cup {None}]]

CacheFillInit ==
  /\ rows = [u \in Users |-> None]
  /\ slot = [u \in Users |-> None]
  /\ heap = [a \in Objects |-> None]
  /\ deposited = [u \in Users |-> 0]
  /\ restarts = 0
  /\ thread = [t \in Threads |-> Outside]

-----------------------------------------------------------------------------
(* Entering and leaving a handler, with _dataMutex. *)

Inside == {t \in Threads : thread[t].pc # "out"}

RechargesShare(op) == \* mutant: isReadOnly names recharges too
  \A t \in Inside : op \in {"login", "recharge"} /\ thread[t].op = op

\* login is the one of these requests that isReadOnly names.
MayEnter(op) ==
  \A t \in Inside : op = "login" /\ thread[t].op = "login"

Enter(t, op, u, arg) ==
  /\ thread[t].pc = "out"
  /\ MayEnter(op)
  /\ thread' = [thread EXCEPT ![t] =
       [pc |-> "check", op |-> op, user |-> u, arg |-> arg,
        object |-> None, copy |-> None]]
  /\ UNCHANGED <<rows, slot, heap, deposited, restarts>>

Leaves(t) == thread' = [thread EXCEPT ![t] = Outside]

-----------------------------------------------------------------------------
(* getOrLoad and registerUser. *)

\* The look in the map, under _cacheMutex; a registration stops at a hit.
Hit(t) ==
  LET u == thread[t].user
  IN  /\ thread[t].pc = "check" /\ slot[u] # None
      /\ IF thread[t].op = "register"
         THEN Leaves(t)
         ELSE thread' = [thread EXCEPT ![t].pc = "use", ![t].object = slot[u]]
      /\ UNCHANGED <<rows, slot, heap, deposited, restarts>>

Miss(t) ==
  /\ thread[t].pc = "check" /\ slot[thread[t].user] = None
  /\ thread' = [thread EXCEPT ![t].pc = "row"]
  /\ UNCHANGED <<rows, slot, heap, deposited, restarts>>

\* SELECT.
Select(t) ==
  LET u == thread[t].user
  IN  /\ thread[t].pc = "row" /\ thread[t].op # "register"
      /\ IF rows[u] = None
         THEN Leaves(t)
         ELSE thread' = [thread EXCEPT ![t].pc = "fill", ![t].copy = rows[u]]
      /\ UNCHANGED <<rows, slot, heap, deposited, restarts>>

\* INSERT, which the UNIQUE constraint may refuse.
Insert(t) ==
  LET u == thread[t].user
      new == [password |-> Encrypt[thread[t].arg], balance |-> 0]
  IN  /\ thread[t].pc = "row" /\ thread[t].op = "register"
      /\ IF rows[u] # None \/ thread[t].arg \notin WellFormed
         THEN Leaves(t) /\ UNCHANGED rows
         ELSE /\ rows' = [rows EXCEPT ![u] = new]
              /\ thread' = [thread EXCEPT ![t].pc = "fill", ![t].copy = new]
      /\ UNCHANGED <<slot, heap, deposited, restarts>>

SlotNeverTaken(t) == FALSE \* mutant: no second look in the map

\* The second look of getOrLoad; registerUser has none.
SlotTaken(t) == thread[t].op # "register" /\ slot[thread[t].user] # None

\* Filling the map, under _cacheMutex; what the slot owned before is freed.
Fill(t) ==
  LET u == thread[t].user
  IN  /\ thread[t].pc = "fill"
      /\ \/ /\ SlotTaken(t)
            /\ thread' = [thread EXCEPT ![t].pc = "use", ![t].object = slot[u]]
            /\ UNCHANGED <<slot, heap>>
         \/ /\ ~ SlotTaken(t)
            /\ \E a \in Objects :
                 /\ heap[a] = None
                 /\ slot' = [slot EXCEPT ![u] = a]
                 /\ heap' = [b \in Objects |-> IF b = a THEN thread[t].copy
                                               ELSE IF b = slot[u] THEN None
                                               ELSE heap[b]]
                 /\ IF thread[t].op = "register"
                    THEN Leaves(t)
                    ELSE thread' = [thread EXCEPT ![t].pc = "use", ![t].object = a]
      /\ UNCHANGED <<rows, deposited, restarts>>

-----------------------------------------------------------------------------
(* What the handlers do with the pointer. *)

Accepted(t) ==
  \/ thread[t].op = "recharge" /\ thread[t].arg > 0
  \/ thread[t].op = "changePassword" /\ thread[t].arg \in WellFormed

\* addBalance and setPassword.
Changed(t, object) ==
  IF thread[t].op = "recharge" THEN [object EXCEPT !.balance = @ + thread[t].arg]
  ELSE [object EXCEPT !.password = Encrypt[thread[t].arg]]

\* checkPassword only reads; the others change the object.
Use(t) ==
  LET a == thread[t].object
  IN  /\ thread[t].pc = "use"
      /\ IF Accepted(t)
         THEN /\ heap' = [heap EXCEPT ![a] = Changed(t, heap[a])]
              /\ thread' = [thread EXCEPT ![t].pc = "save"]
         ELSE Leaves(t) /\ UNCHANGED heap
      /\ UNCHANGED <<rows, slot, deposited, restarts>>

\* updateBalance, updatePassword.
Save(t) ==
  LET u == thread[t].user
      object == heap[thread[t].object]
  IN  /\ thread[t].pc = "save"
      /\ IF thread[t].op = "recharge"
         THEN /\ rows' = [rows EXCEPT ![u].balance = object.balance]
              /\ deposited' = [deposited EXCEPT ![u] = @ + thread[t].arg]
         ELSE /\ rows' = [rows EXCEPT ![u].password = object.password]
              /\ UNCHANGED deposited
      /\ Leaves(t)
      /\ UNCHANGED <<slot, heap, restarts>>

\* The process ends, wherever its threads are, and starts again.
Restart ==
  /\ restarts < MaxRestarts
  /\ restarts' = restarts + 1
  /\ slot' = [u \in Users |-> None]
  /\ heap' = [a \in Objects |-> None]
  /\ thread' = [t \in Threads |-> Outside]
  /\ UNCHANGED <<rows, deposited>>

Arrive(t) ==
  \E u \in Users :
    \/ Enter(t, "login", u, None)
    \/ \E p \in Passwords : Enter(t, "register", u, p) \/ Enter(t, "changePassword", u, p)
    \/ \E a \in Amounts :
         deposited[u] + a <= MaxDeposit /\ Enter(t, "recharge", u, a)

CacheFillNext ==
  \/ \E t \in Threads :
       \/ Arrive(t) \/ Hit(t) \/ Miss(t) \/ Select(t) \/ Insert(t) \/ Fill(t)
       \/ Use(t) \/ Save(t)
  \/ Restart

CacheFillSpec == CacheFillInit /\ [][CacheFillNext]_cacheFillVars

-----------------------------------------------------------------------------
(* Correctness. *)

\* The pointer a handler works with is to the object the map owns: no other
\* thread that loads the same name replaces, and so frees, it ("double check
\* against overwriting", User.cpp:100).
PointersLive ==
  \A t \in Threads :
    thread[t].object # None => /\ slot[thread[t].user] = thread[t].object
                               /\ heap[thread[t].object] # None

\* What a handler is about to write is written when the row has it.
Writing(u) ==
  \E t \in Threads : thread[t].user = u /\ thread[t].pc = "save"

\* A registration is made when the table has it.
Registering(u) ==
  \E t \in Threads :
    thread[t].user = u /\ thread[t].op = "register" /\ thread[t].pc = "fill"

\* The map as the requests that have taken effect left it.
Cached ==
  [u \in Users |-> IF Writing(u) \/ Registering(u) THEN rows[u]
                   ELSE IF slot[u] = None THEN None
                   ELSE heap[slot[u]]]

Atomic == INSTANCE Accounts WITH users <- rows, userCache <- Cached

\* Whatever the threads do in between, and wherever a restart interrupts them,
\* the requests take effect one at a time, as Accounts says.
RequestsAreAtomic == Atomic!AccountsSpec

=============================================================================
