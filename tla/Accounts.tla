------------------------------ MODULE Accounts ------------------------------
(***************************************************************************)
(* UserManager and User (src/src/User.cpp) with the request handlers of    *)
(* Server.cpp that use nothing else: register, login, balance, recharge    *)
(* and password change.                                                    *)
(*                                                                         *)
(* A user lives twice: as a row of the SQLite table `users' and, once a    *)
(* request has named it, as an object in the in-memory map _userMap.  The  *)
(* object is read by every later request and is written back to the row;   *)
(* nothing ever leaves the map while the process runs.  Every handler runs *)
(* to its end under _dataMutex, so a handler is one action.                *)
(***************************************************************************)
EXTENDS Integers

CONSTANTS
  Merchants, Consumers, \* the user names, by the type they register with
  Passwords,            \* the passwords users type
  WellFormed,           \* those of length 6..16
  Digests,              \* the stored form of a password
  Encrypt,              \* User::encryptPassword
  Amounts,              \* the sums users ask to recharge
  MaxDeposit,           \* bound: the most one user recharges in all
  MaxRestarts,          \* bound: the number of restarts of the server
  None                  \* no such row; no such object

Users == Merchants \cup Consumers

UserRecord == [password : Digests, balance : Nat]

ASSUME AccountsAssumption ==
  /\ Merchants \cap Consumers = {}
  /\ WellFormed \subseteq Passwords
  /\ Encrypt \in [Passwords -> Digests]
  /\ Amounts \subseteq Int
  /\ MaxDeposit \in Nat
  /\ MaxRestarts \in Nat
  /\ None \notin UserRecord

VARIABLES
  users,      \* the table: name -> row or None
  userCache,  \* _userMap: name -> object or None
  deposited,  \* history: what each user has recharged so far
  restarts    \* how often the server process has been started again

accountVars == <<users, userCache, deposited, restarts>>

AccountsTypeOK ==
  /\ users \in [Users -> UserRecord \cup {None}]
  /\ userCache \in [Users -> UserRecord \cup {None}]
  /\ deposited \in [Users -> 0..MaxDeposit]
  /\ restarts \in 0..MaxRestarts

\* An empty database and a process that has served no request.
AccountsInit ==
  /\ users = [u \in Users |-> None]
  /\ userCache = [u \in Users |-> None]
  /\ deposited = [u \in Users |-> 0]
  /\ restarts = 0

-----------------------------------------------------------------------------
(* What the manager's methods compute. *)

\* getOrLoad, getUserByUsername, getUserById: the object if the map has it,
\* the row otherwise.
Known(u) == IF userCache[u] # None THEN userCache[u] ELSE users[u]

\* The map once every user of S has been looked up.
CacheWithUsers(S) ==
  [u \in Users |-> IF u \in S THEN Known(u) ELSE userCache[u]]

NameTakenInMap(u) == userCache[u] # None \* mutant: no UNIQUE constraint

\* A registration looks in the map only; for a name that is not there the
\* UNIQUE constraint of the table refuses the INSERT.
NameTaken(u) == userCache[u] # None \/ users[u] # None

\* User::addBalance refuses what is not positive.
AddsToBalance(a) == a > 0

\* updateBalance writes the object's balance into the row and updatePassword its
\* digest; the other fields of the two are equal when they are called
\* (UserCacheCoherent), so the row becomes the whole object.
RowsSaved(S, cache) ==
  [u \in Users |-> IF u \in S THEN cache[u] ELSE users[u]]

-----------------------------------------------------------------------------
(* The handlers. *)

Register(u, p) ==
  /\ ~ NameTaken(u)
  /\ p \in WellFormed
  /\ LET new == [password |-> Encrypt[p], balance |-> 0]
     IN  /\ users' = [users EXCEPT ![u] = new]
         /\ userCache' = [userCache EXCEPT ![u] = new]
  /\ UNCHANGED <<deposited, restarts>>

\* A login, right or wrong, and every request that is answered without
\* changing anything: the named user is looked up and stays in the map.
LookUpUser(u) ==
  /\ userCache' = CacheWithUsers({u})
  /\ UNCHANGED <<users, deposited, restarts>>

Recharge(u, a) ==
  /\ Known(u) # None
  /\ AddsToBalance(a)
  /\ deposited[u] + a <= MaxDeposit
  /\ userCache' = [CacheWithUsers({u}) EXCEPT ![u].balance = @ + a]
  /\ users' = RowsSaved({u}, userCache')
  /\ deposited' = [deposited EXCEPT ![u] = @ + a]
  /\ UNCHANGED restarts

ChangePassword(u, p) ==
  /\ Known(u) # None
  /\ p \in WellFormed
  /\ userCache' = [CacheWithUsers({u}) EXCEPT ![u].password = Encrypt[p]]
  /\ users' = RowsSaved({u}, userCache')
  /\ UNCHANGED <<deposited, restarts>>

\* The process ends, by a crash or a kill, and starts again: rows stay,
\* objects are gone.
RestartAccounts ==
  /\ restarts < MaxRestarts
  /\ restarts' = restarts + 1
  /\ userCache' = [u \in Users |-> None]
  /\ UNCHANGED <<users, deposited>>

AccountsNext ==
  \/ \E u \in Users, p \in Passwords : Register(u, p) \/ ChangePassword(u, p)
  \/ \E u \in Users, a \in Amounts : Recharge(u, a)
  \/ \E u \in Users : LookUpUser(u)
  \/ RestartAccounts

AccountsSpec == AccountsInit /\ [][AccountsNext]_accountVars

-----------------------------------------------------------------------------
(* Correctness. *)

\* An object in the map never differs from its row: what a request reads is
\* what a restart would read (the comments "writes memory only, UserManager
\* persists" of User.h:36 and the write-back calls of Server.cpp).
UserCacheCoherent ==
  \A u \in Users : userCache[u] # None => userCache[u] = users[u]

\* A registered name keeps its account: no sequence of registrations,
\* restarts and look-ups takes the row away or lowers its balance, although
\* registerUser itself looks only in the map, which a restart empties.
AccountsKept ==
  [][\A u \in Users : users[u] # None =>
       users'[u] # None /\ users'[u].balance >= users[u].balance]_accountVars

=============================================================================
