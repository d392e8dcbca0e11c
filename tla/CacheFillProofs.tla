-------------------------- MODULE CacheFillProofs --------------------------
(***************************************************************************)
(* The pointer that getOrLoad returns stays valid while the handler works  *)
(* with it, for any number of threads, users and restarts: no fill of the  *)
(* map frees an object that another thread is using.  And the requests     *)
(* take effect as if each were one step of Accounts.                       *)
(***************************************************************************)
EXTENDS CacheFill, TLAPS

\* What a thread holds at each step of its request.
ThreadFits(t) ==
  LET j == thread[t]
  IN  /\ j.pc # "out" => j.user \in Users
      /\ j.object # None <=> j.pc \in {"use", "save"}
      /\ j.pc = "fill" => j.copy # None
      /\ j.pc \in {"fill", "use", "save"} => rows[j.user] # None
      /\ j.pc # "out" /\ j.op = "register" => j.arg \in Passwords
      /\ j.pc # "out" /\ j.op = "recharge" =>
           j.arg \in Amounts /\ deposited[j.user] + j.arg <= MaxDeposit
      /\ j.pc = "save" => Accepted(t)

\* Threads that are inside together only log users in.
Sharing ==
  \A s, t \in Inside : s # t => thread[s].op = "login" /\ thread[t].op = "login"

\* The map owns its objects, one for a user, and each has a row.
SlotsOwn ==
  /\ \A u \in Users : slot[u] # None => heap[slot[u]] # None /\ rows[u] # None
  /\ \A u, v \in Users : slot[u] # None /\ slot[u] = slot[v] => u = v

CacheFillInv ==
  /\ CacheFillTypeOK
  /\ \A t \in Threads : ThreadFits(t)
  /\ Sharing
  /\ SlotsOwn
  /\ PointersLive

USE DEF Inside

Job ==
  [pc : {"out", "check", "row", "fill", "use", "save"}, op : Operations,
   user : Users \cup {None}, arg : Amounts \cup Passwords \cup {None},
   object : Objects \cup {None}, copy : UserRecord \cup {None}]

-----------------------------------------------------------------------------

LEMMA InitEstablishes == CacheFillInit => CacheFillInv
BY CacheFillAssumption
   DEF CacheFillInit, CacheFillInv, CacheFillTypeOK, ThreadFits, Sharing, SlotsOwn,
       PointersLive, Outside, Operations, Accepted

LEMMA ThreadIsAtJob ==
  ASSUME CacheFillTypeOK, NEW t \in Threads
  PROVE  thread[t] \in Job
BY DEF CacheFillTypeOK, Job

\* A thread goes on with an object that it has read, or with a pointer.
LEMMA JobWithCopy ==
  ASSUME NEW j \in Job, NEW x \in UserRecord
  PROVE  [j EXCEPT !.pc = "fill", !.copy = x] \in Job
BY DEF Job

LEMMA JobWithObject ==
  ASSUME NEW j \in Job, NEW a \in Objects
  PROVE  [j EXCEPT !.pc = "use", !.object = a] \in Job
BY DEF Job

LEMMA PositiveAmount ==
  ASSUME NEW a \in Amounts, a > 0
  PROVE  a \in Nat
<1>1. a \in Int
  BY CacheFillAssumption
<1> QED BY <1>1

\* A thread is given a new job.
LEMMA NewJob ==
  ASSUME CacheFillTypeOK, NEW t \in Threads, NEW j \in Job,
         thread' = [thread EXCEPT ![t] = j]
  PROVE  /\ thread'[t] = j
         /\ \A s \in Threads \ {t} : thread'[s] = thread[s]
         /\ thread' \in [Threads -> Job]
BY DEF CacheFillTypeOK, Job

\* The types when only threads have changed.
LEMMA OnlyThreadsTyped ==
  ASSUME CacheFillTypeOK, UNCHANGED <<rows, slot, heap, deposited, restarts>>,
         thread' \in [Threads -> Job]
  PROVE  CacheFillTypeOK'
BY DEF CacheFillTypeOK, Job

\* A step of thread t that changes neither rows nor map nor heap, and after
\* which t is inside only if it was or if it may enter.
LEMMA QuietStep ==
  ASSUME CacheFillInv, NEW t \in Threads,
         UNCHANGED <<rows, slot, heap, deposited, restarts>>,
         CacheFillTypeOK',
         \A s \in Threads \ {t} : thread'[s] = thread[s],
         ThreadFits(t)',
         thread'[t].pc # "out" =>
           \/ thread[t].pc # "out" /\ thread'[t].op = thread[t].op
           \/ MayEnter(thread'[t].op),
         thread'[t].object # None =>
           slot[thread'[t].user] = thread'[t].object /\ heap[thread'[t].object] # None
  PROVE  CacheFillInv'
<1>1. \A s \in Threads : ThreadFits(s)'
  BY DEF CacheFillInv, ThreadFits, Accepted
<1>2. Sharing'
  BY DEF CacheFillInv, Sharing, MayEnter
<1>3. SlotsOwn' /\ PointersLive'
  BY DEF CacheFillInv, SlotsOwn, PointersLive
<1> QED BY <1>1, <1>2, <1>3 DEF CacheFillInv

\* A thread that leaves takes nothing with it.
LEMMA LeavingIsQuiet ==
  ASSUME CacheFillInv, NEW t \in Threads, Leaves(t),
         UNCHANGED <<rows, slot, heap, deposited, restarts>>
  PROVE  CacheFillInv'
<1>1. /\ thread'[t] = Outside
      /\ \A s \in Threads \ {t} : thread'[s] = thread[s]
      /\ CacheFillTypeOK'
  BY DEF CacheFillInv, CacheFillTypeOK, Leaves, Outside, Operations
<1>2. ThreadFits(t)' /\ thread'[t].pc = "out" /\ thread'[t].object = None
  BY <1>1 DEF ThreadFits, Outside
<1> QED BY <1>1, <1>2, QuietStep

LEMMA EnterKeepsInv ==
  ASSUME CacheFillInv, NEW t \in Threads, NEW u \in Users, NEW op \in Operations,
         NEW arg \in Amounts \cup Passwords \cup {None}, Enter(t, op, u, arg),
         op = "register" => arg \in Passwords,
         op = "recharge" => arg \in Amounts /\ deposited[u] + arg <= MaxDeposit
  PROVE  CacheFillInv'
<1> DEFINE j == [pc |-> "check", op |-> op, user |-> u, arg |-> arg,
                 object |-> None, copy |-> None]
<1>1. /\ thread' = [thread EXCEPT ![t] = j]
      /\ UNCHANGED <<rows, slot, heap, deposited, restarts>>
      /\ MayEnter(op)
  BY DEF Enter
<1>2. /\ thread'[t] = j
      /\ \A s \in Threads \ {t} : thread'[s] = thread[s]
      /\ CacheFillTypeOK'
  BY <1>1 DEF CacheFillInv, CacheFillTypeOK
<1>3. ThreadFits(t)'
  BY <1>1, <1>2 DEF ThreadFits
<1> QED BY <1>1, <1>2, <1>3, QuietStep

LEMMA ArriveKeepsInv ==
  ASSUME CacheFillInv, NEW t \in Threads, Arrive(t)
  PROVE  CacheFillInv'
<1>1. ASSUME NEW u \in Users, Enter(t, "login", u, None)  PROVE CacheFillInv'
  BY <1>1, EnterKeepsInv DEF Operations
<1>2. ASSUME NEW u \in Users, NEW p \in Passwords, Enter(t, "register", u, p)
      PROVE  CacheFillInv'
  BY <1>2, EnterKeepsInv DEF Operations
<1>3. ASSUME NEW u \in Users, NEW p \in Passwords, Enter(t, "changePassword", u, p)
      PROVE  CacheFillInv'
  BY <1>3, EnterKeepsInv DEF Operations
<1>4. ASSUME NEW u \in Users, NEW a \in Amounts, deposited[u] + a <= MaxDeposit,
             Enter(t, "recharge", u, a)
      PROVE  CacheFillInv'
  BY <1>4, EnterKeepsInv DEF Operations
<1> QED BY <1>1, <1>2, <1>3, <1>4 DEF Arrive

LEMMA HitKeepsInv ==
  ASSUME CacheFillInv, NEW t \in Threads, Hit(t)
  PROVE  CacheFillInv'
<1> DEFINE u == thread[t].user
<1>1. /\ thread[t].pc = "check" /\ slot[u] # None /\ u \in Users
      /\ UNCHANGED <<rows, slot, heap, deposited, restarts>>
  BY DEF Hit, CacheFillInv, ThreadFits
<1>2. CASE thread[t].op = "register"
  BY <1>1, <1>2, LeavingIsQuiet DEF Hit
<1>3. CASE thread[t].op # "register"
  <2>1. thread' = [thread EXCEPT ![t].pc = "use", ![t].object = slot[u]]
    BY <1>3 DEF Hit
  <2>2. /\ thread'[t] = [thread[t] EXCEPT !.pc = "use", !.object = slot[u]]
        /\ \A s \in Threads \ {t} : thread'[s] = thread[s]
        /\ CacheFillTypeOK'
    <3> DEFINE j == [thread[t] EXCEPT !.pc = "use", !.object = slot[u]]
    <3>1. j \in Job
      BY <1>1 DEF CacheFillInv, CacheFillTypeOK, Job
    <3>2. thread' = [thread EXCEPT ![t] = j]
      BY <2>1 DEF CacheFillInv, CacheFillTypeOK
    <3> QED BY <1>1, <2>1, <3>1, <3>2, NewJob, OnlyThreadsTyped DEF CacheFillInv
  <2>3. ThreadFits(t)'
    BY <1>1, <1>3, <2>2 DEF CacheFillInv, CacheFillTypeOK, ThreadFits, SlotsOwn
  <2>4. heap[slot[u]] # None
    BY <1>1 DEF CacheFillInv, SlotsOwn
  <2>5. /\ thread'[t].op = thread[t].op /\ thread[t].pc # "out"
        /\ thread'[t].user = u /\ thread'[t].object = slot[u]
    BY <1>1, <2>2 DEF CacheFillInv, CacheFillTypeOK
  <2> QED BY <1>1, <2>2, <2>3, <2>4, <2>5, QuietStep
<1> QED BY <1>2, <1>3

LEMMA MissKeepsInv ==
  ASSUME CacheFillInv, NEW t \in Threads, Miss(t)
  PROVE  CacheFillInv'
<1>1. /\ thread[t].pc = "check"
      /\ thread' = [thread EXCEPT ![t].pc = "row"]
      /\ UNCHANGED <<rows, slot, heap, deposited, restarts>>
  BY DEF Miss
<1>2. /\ thread'[t] = [thread[t] EXCEPT !.pc = "row"]
      /\ \A s \in Threads \ {t} : thread'[s] = thread[s]
      /\ CacheFillTypeOK'
  BY <1>1 DEF CacheFillInv, CacheFillTypeOK
<1>3. /\ thread'[t].op = thread[t].op /\ thread[t].pc # "out"
      /\ thread'[t].object = thread[t].object /\ thread[t].object = None
  BY <1>1, <1>2 DEF CacheFillInv, CacheFillTypeOK, ThreadFits
<1>4. ThreadFits(t)'
  BY <1>1, <1>2 DEF CacheFillInv, CacheFillTypeOK, ThreadFits
<1> QED BY <1>1, <1>2, <1>3, <1>4, QuietStep

LEMMA SelectKeepsInv ==
  ASSUME CacheFillInv, NEW t \in Threads, Select(t)
  PROVE  CacheFillInv'
<1> DEFINE u == thread[t].user
<1>1. /\ thread[t].pc = "row" /\ u \in Users /\ thread[t].object = None
      /\ UNCHANGED <<rows, slot, heap, deposited, restarts>>
  BY DEF Select, CacheFillInv, CacheFillTypeOK, ThreadFits
<1>2. CASE rows[u] = None
  BY <1>1, <1>2, LeavingIsQuiet DEF Select
<1>3. CASE rows[u] # None
  <2>1. thread' = [thread EXCEPT ![t].pc = "fill", ![t].copy = rows[u]]
    BY <1>3 DEF Select
  <2>2. /\ thread'[t] = [thread[t] EXCEPT !.pc = "fill", !.copy = rows[u]]
        /\ \A s \in Threads \ {t} : thread'[s] = thread[s]
        /\ CacheFillTypeOK'
    <3> DEFINE j == [thread[t] EXCEPT !.pc = "fill", !.copy = rows[u]]
    <3>1. rows[u] \in UserRecord
      BY <1>1, <1>3 DEF CacheFillInv, CacheFillTypeOK
    <3>2. j \in Job
      BY <3>1, ThreadIsAtJob, JobWithCopy DEF CacheFillInv
    <3>3. thread' = [thread EXCEPT ![t] = j]
      BY <2>1 DEF CacheFillInv, CacheFillTypeOK
    <3> QED BY <1>1, <3>2, <3>3, NewJob, OnlyThreadsTyped DEF CacheFillInv
  <2>3. /\ thread'[t].op = thread[t].op /\ thread[t].pc # "out"
        /\ thread'[t].object = None
    BY <1>1, <2>2 DEF CacheFillInv, CacheFillTypeOK
  <2>4. ThreadFits(t)'
    BY <1>1, <1>3, <2>2 DEF CacheFillInv, CacheFillTypeOK, ThreadFits
  <2> QED BY <1>1, <2>2, <2>3, <2>4, QuietStep
<1> QED BY <1>2, <1>3

-----------------------------------------------------------------------------
(* The steps that change rows, map or heap. *)

\* A registration is alone.
LEMMA InsertKeepsInv ==
  ASSUME CacheFillInv, NEW t \in Threads, Insert(t)
  PROVE  CacheFillInv'
<1> DEFINE u == thread[t].user
           new == [password |-> Encrypt[thread[t].arg], balance |-> 0]
<1>1. /\ thread[t].pc = "row" /\ thread[t].op = "register" /\ u \in Users
      /\ thread[t].arg \in Passwords /\ thread[t].object = None
      /\ UNCHANGED <<slot, heap, deposited, restarts>>
  BY DEF Insert, CacheFillInv, CacheFillTypeOK, ThreadFits
<1>2. CASE rows[u] # None \/ thread[t].arg \notin WellFormed
  BY <1>1, <1>2, LeavingIsQuiet DEF Insert
<1>3. CASE ~ (rows[u] # None \/ thread[t].arg \notin WellFormed)
  <2>1. /\ rows' = [rows EXCEPT ![u] = new]
        /\ thread' = [thread EXCEPT ![t].pc = "fill", ![t].copy = new]
    BY <1>3 DEF Insert
  <2>2. new \in UserRecord /\ new # None
    BY <1>1, CacheFillAssumption DEF UserRecord
  <2>3. /\ thread'[t] = [thread[t] EXCEPT !.pc = "fill", !.copy = new]
        /\ \A s \in Threads \ {t} : thread'[s] = thread[s]
        /\ CacheFillTypeOK'
    <3> DEFINE j == [thread[t] EXCEPT !.pc = "fill", !.copy = new]
    <3>1. j \in Job
      BY <2>2 DEF CacheFillInv, CacheFillTypeOK, Job
    <3>2. thread' = [thread EXCEPT ![t] = j]
      BY <2>1 DEF CacheFillInv, CacheFillTypeOK
    <3>3. /\ thread'[t] = j
          /\ \A s \in Threads \ {t} : thread'[s] = thread[s]
          /\ thread' \in [Threads -> Job]
      BY <3>1, <3>2, NewJob DEF CacheFillInv
    <3>4. rows' \in [Users -> UserRecord \cup {None}]
      BY <1>1, <2>1, <2>2 DEF CacheFillInv, CacheFillTypeOK
    <3> QED BY <1>1, <3>3, <3>4 DEF CacheFillInv, CacheFillTypeOK, Job
  <2>4. /\ rows'[u] = new
        /\ \A v \in Users : rows[v] # None => rows'[v] # None
    BY <1>1, <2>1, <2>2 DEF CacheFillInv, CacheFillTypeOK
  <2>5. ThreadFits(t)'
    BY <1>1, <2>2, <2>3, <2>4 DEF CacheFillInv, CacheFillTypeOK, ThreadFits
  <2>6. ASSUME NEW s \in Threads \ {t}  PROVE ThreadFits(s)'
    BY <1>1, <2>3, <2>4 DEF CacheFillInv, CacheFillTypeOK, ThreadFits, Accepted
  <2>7. Sharing'
    BY <1>1, <2>3 DEF CacheFillInv, CacheFillTypeOK, Sharing
  <2>8. SlotsOwn'
    BY <1>1, <2>4 DEF CacheFillInv, SlotsOwn
  <2>9. PointersLive'
    <3>1. thread'[t].object = None
      BY <1>1, <2>3 DEF CacheFillInv, CacheFillTypeOK
    <3> QED BY <1>1, <2>3, <3>1 DEF CacheFillInv, PointersLive
  <2> QED BY <2>3, <2>5, <2>6, <2>7, <2>8, <2>9 DEF CacheFillInv
<1> QED BY <1>2, <1>3

\* The new object is at a free address, and a slot that another thread's
\* pointer goes through is not overwritten: a login finds it taken, and a
\* registration is alone.
LEMMA FillKeepsInv ==
  ASSUME CacheFillInv, NEW t \in Threads, Fill(t)
  PROVE  CacheFillInv'
<1> DEFINE u == thread[t].user
<1>1. /\ thread[t].pc = "fill" /\ u \in Users /\ thread[t].object = None
      /\ thread[t].copy # None /\ rows[u] # None
      /\ UNCHANGED <<rows, deposited, restarts>>
  BY DEF Fill, CacheFillInv, CacheFillTypeOK, ThreadFits
<1>2. CASE SlotTaken(t)
  <2>1. /\ thread' = [thread EXCEPT ![t].pc = "use", ![t].object = slot[u]]
        /\ UNCHANGED <<slot, heap>>
        /\ slot[u] # None /\ thread[t].op # "register"
    BY <1>2 DEF Fill, SlotTaken
  <2>2. /\ thread'[t] = [thread[t] EXCEPT !.pc = "use", !.object = slot[u]]
        /\ \A s \in Threads \ {t} : thread'[s] = thread[s]
        /\ CacheFillTypeOK'
    <3> DEFINE j == [thread[t] EXCEPT !.pc = "use", !.object = slot[u]]
    <3>1. slot[u] \in Objects
      BY <1>1, <2>1 DEF CacheFillInv, CacheFillTypeOK
    <3>2. j \in Job
      BY <3>1, ThreadIsAtJob, JobWithObject DEF CacheFillInv
    <3>3. thread' = [thread EXCEPT ![t] = j]
      BY <2>1 DEF CacheFillInv, CacheFillTypeOK
    <3> QED BY <1>1, <2>1, <3>2, <3>3, NewJob, OnlyThreadsTyped DEF CacheFillInv
  <2>3. ThreadFits(t)'
    BY <1>1, <2>1, <2>2 DEF CacheFillInv, CacheFillTypeOK, ThreadFits
  <2>4. heap[slot[u]] # None
    BY <1>1, <2>1 DEF CacheFillInv, SlotsOwn
  <2>5. /\ thread'[t].op = thread[t].op /\ thread[t].pc # "out"
        /\ thread'[t].user = u /\ thread'[t].object = slot[u]
    BY <1>1, <2>2 DEF CacheFillInv, CacheFillTypeOK
  <2> QED BY <1>1, <2>1, <2>2, <2>3, <2>4, <2>5, QuietStep
<1>3. CASE ~ SlotTaken(t)
  <2>1. PICK a \in Objects :
          /\ heap[a] = None
          /\ slot' = [slot EXCEPT ![u] = a]
          /\ heap' = [b \in Objects |-> IF b = a THEN thread[t].copy
                                        ELSE IF b = slot[u] THEN None ELSE heap[b]]
          /\ IF thread[t].op = "register" THEN Leaves(t)
             ELSE thread' = [thread EXCEPT ![t].pc = "use", ![t].object = a]
    BY <1>3 DEF Fill
  <2>2. /\ slot'[u] = a /\ heap'[a] # None /\ a # None
        /\ \A v \in Users \ {u} : slot'[v] = slot[v]
        /\ \A s \in Threads \ {t} : thread'[s] = thread[s]
    BY <1>1, <2>1, CacheFillAssumption DEF CacheFillInv, CacheFillTypeOK, Leaves
  <2>3. CacheFillTypeOK'
    BY <1>1, <2>1 DEF CacheFillInv, CacheFillTypeOK, Leaves, Outside, Operations
  <2>4. ASSUME NEW v \in Users \ {u}, slot[v] # None
        PROVE  slot[v] # a /\ heap'[slot[v]] # None
    <3>1. slot[v] \in Objects /\ heap[slot[v]] # None /\ slot[v] # slot[u]
      BY <1>1, <2>4 DEF CacheFillInv, CacheFillTypeOK, SlotsOwn
    <3> QED BY <2>1, <3>1
  <2>5. SlotsOwn'
    BY <1>1, <2>2, <2>4 DEF CacheFillInv, SlotsOwn
  <2>6. \/ thread'[t] = Outside
        \/ /\ thread'[t] = [thread[t] EXCEPT !.pc = "use", !.object = a]
           /\ thread[t].op # "register"
           /\ thread'[t].pc = "use" /\ thread'[t].object = a
           /\ thread'[t].user = u /\ thread'[t].op = thread[t].op
           /\ thread'[t].arg = thread[t].arg
    <3>1. CASE thread[t].op = "register"
      BY <2>1, <3>1 DEF CacheFillInv, CacheFillTypeOK, Leaves
    <3>2. CASE thread[t].op # "register"
      <4>1. thread' = [thread EXCEPT ![t].pc = "use", ![t].object = a]
        BY <2>1, <3>2
      <4>2. thread[t] \in Job
        BY DEF CacheFillInv, CacheFillTypeOK, Job
      <4>3. thread'[t] = [thread[t] EXCEPT !.pc = "use", !.object = a]
        BY <4>1 DEF CacheFillInv, CacheFillTypeOK
      <4> QED BY <3>2, <4>2, <4>3 DEF Job
    <3> QED BY <3>1, <3>2
  <2>7. \A s \in Threads : ThreadFits(s)'
    <3>1. ThreadFits(t)'
      <4>1. CASE thread'[t] = Outside
        BY <4>1 DEF ThreadFits, Outside
      <4>2. CASE thread'[t] # Outside
        BY <1>1, <2>2, <2>6, <4>2 DEF CacheFillInv, ThreadFits
      <4> QED BY <4>1, <4>2
    <3>2. ASSUME NEW s \in Threads \ {t}  PROVE ThreadFits(s)'
      BY <1>1, <2>2 DEF CacheFillInv, ThreadFits, Accepted
    <3> QED BY <3>1, <3>2
  <2>8. Sharing'
    <3>1. thread'[t].pc = "out" \/ thread'[t].op = thread[t].op
      BY <2>6 DEF Outside
    <3> QED BY <1>1, <2>2, <3>1 DEF CacheFillInv, Sharing
  <2>9. PointersLive'
    <3>1. ASSUME NEW s \in Threads \ {t}, thread[s].object # None
          PROVE  /\ slot'[thread[s].user] = thread[s].object
                 /\ heap'[thread[s].object] # None
      <4>1. /\ thread[s].user \in Users /\ thread[s].pc # "out"
            /\ slot[thread[s].user] = thread[s].object
        BY <3>1 DEF CacheFillInv, ThreadFits, PointersLive
      <4>2. thread[t].op = "login"
        BY <1>1, <4>1 DEF CacheFillInv, Sharing
      <4>3. slot[u] = None
        BY <1>3, <4>2 DEF SlotTaken
      <4> QED BY <2>2, <2>4, <3>1, <4>1, <4>3
    <3>2. thread'[t].object # None => thread'[t].object = a /\ thread'[t].user = u
      BY <2>6 DEF Outside
    <3> QED BY <2>2, <3>1, <3>2 DEF PointersLive
  <2> QED BY <2>3, <2>5, <2>7, <2>8, <2>9 DEF CacheFillInv
<1> QED BY <1>2, <1>3

\* The object stays where it is.
LEMMA UseKeepsInv ==
  ASSUME CacheFillInv, NEW t \in Threads, Use(t)
  PROVE  CacheFillInv'
<1> DEFINE a == thread[t].object
           x == Changed(t, heap[a])
<1>1. /\ thread[t].pc = "use" /\ thread[t].user \in Users
      /\ UNCHANGED <<rows, slot, deposited, restarts>>
      /\ a # None /\ a \in Objects /\ heap[a] # None /\ slot[thread[t].user] = a
  BY DEF Use, CacheFillInv, CacheFillTypeOK, ThreadFits, PointersLive
<1>2. CASE ~ Accepted(t)
  BY <1>1, <1>2, LeavingIsQuiet DEF Use
<1>3. CASE Accepted(t)
  <2>1. heap' = [heap EXCEPT ![a] = x] /\ thread' = [thread EXCEPT ![t].pc = "save"]
    BY <1>3 DEF Use
  <2>2. x \in UserRecord /\ x # None
    <3>1. heap[a] \in UserRecord
      BY <1>1 DEF CacheFillInv, CacheFillTypeOK
    <3>2. CASE thread[t].op = "recharge"
      <4>1. thread[t].arg \in Nat
        <5>1. thread[t].arg \in Amounts
          BY <1>1, <3>2 DEF CacheFillInv, ThreadFits
        <5>2. thread[t].arg > 0
          BY <1>3, <3>2 DEF Accepted
        <5> QED BY <5>1, <5>2, PositiveAmount
      <4>2. heap[a].balance + thread[t].arg \in Nat
        BY <3>1, <4>1 DEF UserRecord
      <4>3. x = [heap[a] EXCEPT !.balance = heap[a].balance + thread[t].arg]
        BY <3>2 DEF Changed
      <4>4. x \in UserRecord
        BY <3>1, <4>2, <4>3 DEF UserRecord
      <4> QED BY <4>4, CacheFillAssumption
    <3>3. CASE thread[t].op # "recharge"
      <4>1. Encrypt[thread[t].arg] \in Digests
        BY <1>3, <3>3, CacheFillAssumption DEF Accepted
      <4>2. x = [heap[a] EXCEPT !.password = Encrypt[thread[t].arg]]
        BY <3>3 DEF Changed
      <4>3. x \in UserRecord
        BY <3>1, <4>1, <4>2 DEF UserRecord
      <4> QED BY <4>3, CacheFillAssumption
    <3> QED BY <3>2, <3>3
  <2>3. /\ thread'[t] = [thread[t] EXCEPT !.pc = "save"]
        /\ \A s \in Threads \ {t} : thread'[s] = thread[s]
        /\ \A b \in Objects : heap[b] # None => heap'[b] # None
        /\ CacheFillTypeOK'
    BY <1>1, <2>1, <2>2 DEF CacheFillInv, CacheFillTypeOK
  <2>4. \A s \in Threads : ThreadFits(s)'
    BY <1>1, <1>3, <2>3 DEF CacheFillInv, CacheFillTypeOK, ThreadFits, Accepted
  <2>5. Sharing'
    BY <1>1, <2>3 DEF CacheFillInv, CacheFillTypeOK, Sharing
  <2>6. SlotsOwn'
    BY <1>1, <2>3 DEF CacheFillInv, CacheFillTypeOK, SlotsOwn
  <2>7. PointersLive'
    BY <1>1, <2>3 DEF CacheFillInv, CacheFillTypeOK, PointersLive
  <2> QED BY <2>3, <2>4, <2>5, <2>6, <2>7 DEF CacheFillInv
<1> QED BY <1>2, <1>3

\* The row has the object's value; the thread leaves, and it was alone.
LEMMA SaveKeepsInv ==
  ASSUME CacheFillInv, NEW t \in Threads, Save(t)
  PROVE  CacheFillInv'
<1> DEFINE u == thread[t].user
           object == heap[thread[t].object]
<1>1. /\ thread[t].pc = "save" /\ u \in Users /\ rows[u] \in UserRecord
      /\ UNCHANGED <<slot, heap, restarts>>
      /\ Leaves(t) /\ object \in UserRecord
      /\ Accepted(t) /\ thread[t].op # "login"
  BY DEF Save, CacheFillInv, CacheFillTypeOK, ThreadFits, PointersLive, Accepted
<1>2. /\ thread'[t] = Outside
      /\ \A s \in Threads \ {t} : thread'[s] = thread[s] /\ thread[s].pc = "out"
  BY <1>1 DEF Leaves, CacheFillInv, CacheFillTypeOK, Sharing
<1>3. /\ rows' \in [Users -> UserRecord \cup {None}]
      /\ \A v \in Users : rows[v] # None => rows'[v] # None
  <2>1. CASE thread[t].op = "recharge"
    <3>1. rows' = [rows EXCEPT ![u].balance = object.balance]
      BY <2>1 DEF Save
    <3>2. [rows[u] EXCEPT !.balance = object.balance] \in UserRecord
      BY <1>1 DEF UserRecord
    <3> QED BY <1>1, <3>1, <3>2, CacheFillAssumption DEF CacheFillInv, CacheFillTypeOK
  <2>2. CASE thread[t].op # "recharge"
    <3>1. rows' = [rows EXCEPT ![u].password = object.password]
      BY <2>2 DEF Save
    <3>2. [rows[u] EXCEPT !.password = object.password] \in UserRecord
      BY <1>1 DEF UserRecord
    <3> QED BY <1>1, <3>1, <3>2, CacheFillAssumption DEF CacheFillInv, CacheFillTypeOK
  <2> QED BY <2>1, <2>2
<1>4. deposited' \in [Users -> 0..MaxDeposit]
  <2>1. CASE thread[t].op = "recharge"
    <3>1. /\ thread[t].arg \in Nat /\ deposited[u] + thread[t].arg <= MaxDeposit
          /\ deposited[u] \in 0..MaxDeposit
      <4>1. /\ thread[t].arg \in Amounts
            /\ deposited[u] + thread[t].arg <= MaxDeposit
        BY <1>1, <2>1 DEF CacheFillInv, ThreadFits
      <4>2. thread[t].arg > 0
        BY <1>1, <2>1 DEF Accepted
      <4>3. deposited[u] \in 0..MaxDeposit
        BY <1>1 DEF CacheFillInv, CacheFillTypeOK
      <4> QED BY <4>1, <4>2, <4>3, PositiveAmount
    <3>2. deposited[u] + thread[t].arg \in 0..MaxDeposit
      BY <3>1, CacheFillAssumption
    <3>3. deposited' = [deposited EXCEPT ![u] = @ + thread[t].arg]
      BY <2>1 DEF Save
    <3> QED BY <3>2, <3>3 DEF CacheFillInv, CacheFillTypeOK
  <2>2. CASE thread[t].op # "recharge"
    BY <2>2 DEF Save, CacheFillInv, CacheFillTypeOK
  <2> QED BY <2>1, <2>2
<1>5. CacheFillTypeOK'
  BY <1>1, <1>3, <1>4 DEF CacheFillInv, CacheFillTypeOK, Leaves, Outside, Operations
<1>6. \A s \in Threads : thread'[s].pc = "out" /\ thread'[s].object = None
  BY <1>2 DEF Outside, CacheFillInv, ThreadFits
<1>7. (\A s \in Threads : ThreadFits(s)') /\ Sharing' /\ PointersLive'
  BY <1>6 DEF ThreadFits, Sharing, PointersLive
<1>8. SlotsOwn'
  BY <1>1, <1>3 DEF CacheFillInv, SlotsOwn
<1> QED BY <1>5, <1>7, <1>8 DEF CacheFillInv

LEMMA RestartKeepsInv ==
  ASSUME CacheFillInv, Restart
  PROVE  CacheFillInv'
<1>1. CacheFillTypeOK'
  BY CacheFillAssumption
     DEF CacheFillInv, CacheFillTypeOK, Restart, Outside, Operations
<1>2. \A t \in Threads : thread'[t] = Outside
  BY DEF Restart
<1>3. (\A t \in Threads : ThreadFits(t)') /\ Sharing' /\ PointersLive'
  BY <1>2 DEF ThreadFits, Sharing, PointersLive, Outside
<1>4. SlotsOwn'
  BY DEF Restart, SlotsOwn
<1> QED BY <1>1, <1>3, <1>4 DEF CacheFillInv

LEMMA StepKeepsInv ==
  CacheFillInv /\ [CacheFillNext]_cacheFillVars => CacheFillInv'
<1> SUFFICES ASSUME CacheFillInv, [CacheFillNext]_cacheFillVars  PROVE CacheFillInv'
  OBVIOUS
<1>1. ASSUME NEW t \in Threads,
             \/ Arrive(t) \/ Hit(t) \/ Miss(t) \/ Select(t) \/ Insert(t) \/ Fill(t)
             \/ Use(t) \/ Save(t)
      PROVE  CacheFillInv'
  BY <1>1, ArriveKeepsInv, HitKeepsInv, MissKeepsInv, SelectKeepsInv, InsertKeepsInv,
     FillKeepsInv, UseKeepsInv, SaveKeepsInv
<1>2. CASE Restart
  BY <1>2, RestartKeepsInv
<1>3. CASE UNCHANGED cacheFillVars
  BY <1>3 DEF cacheFillVars, CacheFillInv, CacheFillTypeOK, ThreadFits, Accepted,
     Sharing, SlotsOwn, PointersLive
<1> QED BY <1>1, <1>2, <1>3 DEF CacheFillNext

-----------------------------------------------------------------------------
\* Rows, map, objects and threads keep their types: no step reads through a
\* null pointer or a row that is not there.
THEOREM CacheFillTyped == CacheFillSpec => []CacheFillTypeOK
<1>1. CacheFillInv => CacheFillTypeOK
  BY DEF CacheFillInv
<1> QED BY <1>1, InitEstablishes, StepKeepsInv, PTL DEF CacheFillSpec

\* The pointer a handler works with is to the object the map owns, whatever
\* other threads load, for any number of them (the second look of getOrLoad,
\* User.cpp:100).
THEOREM PointersStayLive == CacheFillSpec => []PointersLive
<1>1. CacheFillInv => PointersLive
  BY DEF CacheFillInv
<1> QED BY <1>1, InitEstablishes, StepKeepsInv, PTL DEF CacheFillSpec

-----------------------------------------------------------------------------
(* The requests that threads serve step by step, side by side, take effect   *)
(* as if each were one step: CacheFill implements Accounts.                  *)


\* The map agrees with the rows, but for the object that is being written; and
\* what a thread has read, or is about to write, is of the row as it is.
Agreement ==
  /\ \A u \in Users : slot[u] # None /\ ~ Writing(u) => heap[slot[u]] = rows[u]
  /\ \A t \in Threads :
       thread[t].pc = "fill" => thread[t].copy = rows[thread[t].user]
  /\ \A t \in Threads :
       thread[t].pc = "save" =>
         heap[thread[t].object] = Changed(t, rows[thread[t].user])

Stutters == UNCHANGED <<rows, Cached, deposited, restarts>>

\* A step, seen as one of Accounts.
Served == Agreement' /\ (Atomic!AccountsNext \/ Stutters)

-----------------------------------------------------------------------------
(* The steps of Accounts. *)

LEMMA LookUpServes ==
  ASSUME NEW u \in Users, Cached[u] = None, Cached' = [Cached EXCEPT ![u] = rows[u]],
         UNCHANGED <<rows, deposited, restarts>>
  PROVE  Atomic!AccountsNext
<1>1. Cached' = Atomic!CacheWithUsers({u})
  BY DEF Atomic!CacheWithUsers, Atomic!Known, Atomic!Users, Cached, Users
<1> QED BY <1>1 DEF Atomic!AccountsNext, Atomic!LookUpUser, Atomic!Users, Users

LEMMA RegisterServes ==
  ASSUME NEW u \in Users, NEW p \in WellFormed, Cached[u] = None, rows[u] = None,
         Cached' = [Cached EXCEPT ![u] = [password |-> Encrypt[p], balance |-> 0]],
         rows' = [rows EXCEPT ![u] = [password |-> Encrypt[p], balance |-> 0]],
         UNCHANGED <<deposited, restarts>>
  PROVE  Atomic!AccountsNext
<1>1. p \in Passwords
  BY CacheFillAssumption
<1>2. Atomic!Register(u, p)
  BY DEF Atomic!Register, Atomic!NameTaken
<1> QED BY <1>1, <1>2 DEF Atomic!AccountsNext, Atomic!Users, Users

\* A request on a known user, whose object becomes x.
LEMMA KnownIsCached ==
  ASSUME NEW u \in Users, Cached[u] # None
  PROVE  Atomic!Known(u) = Cached[u] /\ Atomic!CacheWithUsers({u}) = Cached
BY DEF Atomic!CacheWithUsers, Atomic!Known, Atomic!Users, Cached, Users

LEMMA RowIsSaved ==
  ASSUME CacheFillTypeOK, NEW u \in Users, rows' = [rows EXCEPT ![u] = Cached'[u]]
  PROVE  rows' = Atomic!RowsSaved({u}, Cached')
BY DEF Atomic!RowsSaved, Atomic!Users, Users, CacheFillTypeOK

LEMMA RechargeServes ==
  ASSUME CacheFillTypeOK, NEW u \in Users, NEW a \in Amounts, Cached[u] # None, a > 0,
         deposited[u] + a <= MaxDeposit,
         Cached' = [Cached EXCEPT ![u].balance = @ + a],
         rows' = [rows EXCEPT ![u] = Cached'[u]],
         deposited' = [deposited EXCEPT ![u] = @ + a],
         UNCHANGED restarts
  PROVE  Atomic!AccountsNext
<1>1. rows' = Atomic!RowsSaved({u}, Cached')
  BY RowIsSaved
<1>2. Atomic!Recharge(u, a)
  BY <1>1, KnownIsCached DEF Atomic!Recharge, Atomic!AddsToBalance
<1> QED BY <1>2 DEF Atomic!AccountsNext, Atomic!Users, Users

LEMMA ChangePasswordServes ==
  ASSUME CacheFillTypeOK, NEW u \in Users, NEW p \in WellFormed, Cached[u] # None,
         Cached' = [Cached EXCEPT ![u].password = Encrypt[p]],
         rows' = [rows EXCEPT ![u] = Cached'[u]],
         UNCHANGED <<deposited, restarts>>
  PROVE  Atomic!AccountsNext
<1>1. p \in Passwords
  BY CacheFillAssumption
<1>2. rows' = Atomic!RowsSaved({u}, Cached')
  BY RowIsSaved
<1>3. Atomic!ChangePassword(u, p)
  BY <1>2, KnownIsCached DEF Atomic!ChangePassword
<1> QED BY <1>1, <1>3 DEF Atomic!AccountsNext, Atomic!Users, Users

-----------------------------------------------------------------------------
(* The steps that change neither rows nor map nor heap. *)

LEMMA QuietStutters ==
  ASSUME Agreement, NEW t \in Threads,
         UNCHANGED <<rows, slot, heap, deposited, restarts>>,
         \A s \in Threads \ {t} : thread'[s] = thread[s],
         thread[t].pc # "save", thread'[t].pc # "save",
         ~ (thread[t].op = "register" /\ thread[t].pc = "fill"),
         ~ (thread'[t].op = "register" /\ thread'[t].pc = "fill"),
         thread'[t].pc = "fill" => thread'[t].copy = rows[thread'[t].user]
  PROVE  Served
<1>1. \A u \in Users : /\ Writing(u)' <=> Writing(u)
                       /\ Registering(u)' <=> Registering(u)
  BY DEF Writing, Registering
<1>2. Cached' = Cached
  BY <1>1 DEF Cached
<1>3. ASSUME NEW s \in Threads, thread'[s].pc = "save"
      PROVE  heap'[thread'[s].object] = Changed(s, rows[thread[s].user])'
  <2>1. s # t /\ thread'[s] = thread[s]
    BY <1>3
  <2> QED BY <1>3, <2>1 DEF Agreement, Changed
<1>4. Agreement'
  BY <1>1, <1>3 DEF Agreement
<1> QED BY <1>2, <1>4 DEF Served, Stutters

LEMMA LeavingStutters ==
  ASSUME CacheFillInv, Agreement, NEW t \in Threads, Leaves(t),
         UNCHANGED <<rows, slot, heap, deposited, restarts>>,
         thread[t].pc # "save", ~ (thread[t].op = "register" /\ thread[t].pc = "fill")
  PROVE  Served
<1>1. /\ thread'[t] = Outside
      /\ \A s \in Threads \ {t} : thread'[s] = thread[s]
  BY DEF Leaves, CacheFillInv, CacheFillTypeOK
<1>2. thread'[t].pc = "out"
  BY <1>1 DEF Outside
<1> QED BY <1>1, <1>2, QuietStutters

LEMMA EnterStutters ==
  ASSUME CacheFillInv, Agreement, NEW t \in Threads, NEW op, NEW u, NEW arg,
         Enter(t, op, u, arg)
  PROVE  Served
<1>1. /\ thread[t].pc = "out"
      /\ UNCHANGED <<rows, slot, heap, deposited, restarts>>
      /\ thread'[t] = [pc |-> "check", op |-> op, user |-> u, arg |-> arg,
                       object |-> None, copy |-> None]
      /\ \A s \in Threads \ {t} : thread'[s] = thread[s]
  BY DEF Enter, CacheFillInv, CacheFillTypeOK
<1>2. thread'[t].pc = "check"
  BY <1>1
<1> QED BY <1>1, <1>2, QuietStutters

\* A thread goes on to another step of its request.
LEMMA GoingOnStutters ==
  ASSUME CacheFillInv, Agreement, NEW t \in Threads, NEW j \in Job,
         thread' = [thread EXCEPT ![t] = j],
         UNCHANGED <<rows, slot, heap, deposited, restarts>>,
         thread[t].pc # "save", ~ (thread[t].op = "register" /\ thread[t].pc = "fill"),
         j.pc # "save",
         j.pc = "fill" => j.op # "register" /\ j.copy = rows[j.user]
  PROVE  Served
<1>1. thread'[t] = j /\ \A s \in Threads \ {t} : thread'[s] = thread[s]
  BY NewJob DEF CacheFillInv
<1> QED BY <1>1, QuietStutters

LEMMA HitServes ==
  ASSUME CacheFillInv, Agreement, NEW t \in Threads, Hit(t)
  PROVE  Served
<1> DEFINE j == [thread[t] EXCEPT !.pc = "use", !.object = slot[thread[t].user]]
<1>1. thread[t].pc = "check" /\ UNCHANGED <<rows, slot, heap, deposited, restarts>>
  BY DEF Hit
<1>2. CASE thread[t].op = "register"
  BY <1>1, <1>2, LeavingStutters DEF Hit
<1>3. CASE thread[t].op # "register"
  <2>1. slot[thread[t].user] \in Objects
    BY <1>1 DEF Hit, CacheFillInv, CacheFillTypeOK, ThreadFits
  <2>2. j \in Job
    BY <2>1, ThreadIsAtJob, JobWithObject DEF CacheFillInv
  <2>3. j.pc = "use"
    BY ThreadIsAtJob DEF CacheFillInv, Job
  <2>4. thread' = [thread EXCEPT ![t] = j]
    BY <1>3 DEF Hit, CacheFillInv, CacheFillTypeOK
  <2> QED BY <1>1, <2>2, <2>3, <2>4, GoingOnStutters
<1> QED BY <1>2, <1>3

LEMMA MissServes ==
  ASSUME CacheFillInv, Agreement, NEW t \in Threads, Miss(t)
  PROVE  Served
<1> DEFINE j == [thread[t] EXCEPT !.pc = "row"]
<1>1. thread[t].pc = "check" /\ UNCHANGED <<rows, slot, heap, deposited, restarts>>
  BY DEF Miss
<1>2. j \in Job /\ j.pc = "row"
  BY ThreadIsAtJob DEF CacheFillInv, Job
<1>3. thread' = [thread EXCEPT ![t] = j]
  BY DEF Miss, CacheFillInv, CacheFillTypeOK
<1> QED BY <1>1, <1>2, <1>3, GoingOnStutters

LEMMA SelectServes ==
  ASSUME CacheFillInv, Agreement, NEW t \in Threads, Select(t)
  PROVE  Served
<1> DEFINE u == thread[t].user
           j == [thread[t] EXCEPT !.pc = "fill", !.copy = rows[u]]
<1>1. /\ thread[t].pc = "row" /\ thread[t].op # "register" /\ u \in Users
      /\ UNCHANGED <<rows, slot, heap, deposited, restarts>>
  BY DEF Select, CacheFillInv, ThreadFits
<1>2. CASE rows[u] = None
  BY <1>1, <1>2, LeavingStutters DEF Select
<1>3. CASE rows[u] # None
  <2>1. rows[u] \in UserRecord
    BY <1>1, <1>3 DEF CacheFillInv, CacheFillTypeOK
  <2>2. j \in Job
    BY <2>1, ThreadIsAtJob, JobWithCopy DEF CacheFillInv
  <2>3. j.op = thread[t].op /\ j.user = u /\ j.copy = rows[u] /\ j.pc = "fill"
    BY ThreadIsAtJob DEF CacheFillInv, Job
  <2>4. thread' = [thread EXCEPT ![t] = j]
    BY <1>3 DEF Select, CacheFillInv, CacheFillTypeOK
  <2> QED BY <1>1, <2>2, <2>3, <2>4, GoingOnStutters
<1> QED BY <1>2, <1>3

-----------------------------------------------------------------------------
(* The steps that change rows, map or heap. *)

\* A request that is not a login is alone; beside a login nothing is written.
LEMMA Alone ==
  ASSUME CacheFillInv, NEW t \in Threads, thread[t].pc # "out",
         NEW s \in Threads \ {t}
  PROVE  /\ thread[t].op # "login" => thread[s].pc = "out"
         /\ thread[s].pc # "save" /\ ~ (thread[s].op = "register" /\ thread[s].pc = "fill")
<1>1. thread[s].pc # "out" => thread[s].op = "login" /\ thread[t].op = "login"
  BY DEF CacheFillInv, Sharing, Inside
<1>2. thread[s].pc = "save" => Accepted(s)
  BY DEF CacheFillInv, ThreadFits
<1> QED BY <1>1, <1>2 DEF Accepted

LEMMA InsertServes ==
  ASSUME CacheFillInv, Agreement, NEW t \in Threads, Insert(t)
  PROVE  Served
<1> DEFINE u == thread[t].user
           new == [password |-> Encrypt[thread[t].arg], balance |-> 0]
           j == [thread[t] EXCEPT !.pc = "fill", !.copy = new]
<1>1. /\ thread[t].pc = "row" /\ thread[t].op = "register" /\ u \in Users
      /\ UNCHANGED <<slot, heap, deposited, restarts>>
  BY DEF Insert, CacheFillInv, ThreadFits
<1>2. CASE rows[u] # None \/ thread[t].arg \notin WellFormed
  BY <1>1, <1>2, LeavingStutters DEF Insert
<1>3. CASE ~ (rows[u] # None \/ thread[t].arg \notin WellFormed)
  <2>1. rows' = [rows EXCEPT ![u] = new] /\ thread' = [thread EXCEPT ![t] = j]
    BY <1>3 DEF Insert, CacheFillInv, CacheFillTypeOK
  <2>2. /\ thread'[t].pc = "fill" /\ thread'[t].op = "register"
        /\ thread'[t].user = u /\ thread'[t].copy = new
        /\ \A s \in Threads \ {t} : thread'[s] = thread[s] /\ thread[s].pc = "out"
    BY <1>1, <2>1, Alone DEF CacheFillInv, CacheFillTypeOK
  <2>3. rows[u] = None /\ slot[u] = None /\ rows'[u] = new
        /\ \A v \in Users \ {u} : rows'[v] = rows[v]
    BY <1>1, <1>3, <2>1 DEF CacheFillInv, CacheFillTypeOK, SlotsOwn
  <2>4. \A v \in Users : /\ ~ Writing(v) /\ ~ Registering(v) /\ ~ Writing(v)'
                         /\ Registering(v)' <=> v = u
    BY <1>1, <2>2 DEF Writing, Registering
  <2>5. Cached[u] = None /\ Cached' = [Cached EXCEPT ![u] = new]
    BY <1>1, <2>3, <2>4 DEF Cached
  <2>6. Atomic!AccountsNext
    BY <1>1, <1>3, <2>1, <2>3, <2>5, RegisterServes
  <2>7. Agreement'
    BY <1>1, <2>2, <2>3, <2>4 DEF Agreement
  <2> QED BY <2>6, <2>7 DEF Served
<1> QED BY <1>2, <1>3

LEMMA FillServes ==
  ASSUME CacheFillInv, Agreement, NEW t \in Threads, Fill(t)
  PROVE  Served
<1> DEFINE u == thread[t].user
<1>1. /\ thread[t].pc = "fill" /\ u \in Users /\ thread[t].copy = rows[u]
      /\ UNCHANGED <<rows, deposited, restarts>>
  BY DEF Fill, CacheFillInv, ThreadFits, Agreement
<1>2. CASE SlotTaken(t)
  <2> DEFINE j == [thread[t] EXCEPT !.pc = "use", !.object = slot[u]]
  <2>1. /\ thread' = [thread EXCEPT ![t] = j] /\ UNCHANGED <<slot, heap>>
        /\ slot[u] \in Objects /\ thread[t].op # "register"
    BY <1>1, <1>2 DEF Fill, SlotTaken, CacheFillInv, CacheFillTypeOK
  <2>2. j \in Job
    BY <2>1, ThreadIsAtJob, JobWithObject DEF CacheFillInv
  <2>3. j.pc = "use"
    BY ThreadIsAtJob DEF CacheFillInv, Job
  <2> QED BY <1>1, <2>1, <2>2, <2>3, GoingOnStutters
<1>3. CASE ~ SlotTaken(t)
  <2>1. PICK a \in Objects :
          /\ heap[a] = None
          /\ slot' = [slot EXCEPT ![u] = a]
          /\ heap' = [b \in Objects |-> IF b = a THEN thread[t].copy
                                        ELSE IF b = slot[u] THEN None ELSE heap[b]]
          /\ IF thread[t].op = "register" THEN Leaves(t)
             ELSE thread' = [thread EXCEPT ![t].pc = "use", ![t].object = a]
    BY <1>3 DEF Fill
  <2>2. /\ slot'[u] = a /\ heap'[a] = rows[u] /\ a # None
        /\ \A v \in Users \ {u} : slot'[v] = slot[v]
        /\ \A s \in Threads \ {t} : thread'[s] = thread[s]
    BY <1>1, <2>1, CacheFillAssumption DEF CacheFillInv, CacheFillTypeOK, Leaves
  <2>3. \/ thread'[t].pc = "out"
        \/ thread'[t].pc = "use" /\ thread'[t].op # "register"
    BY <2>1 DEF Leaves, Outside, CacheFillInv, CacheFillTypeOK
  <2>4. \A v \in Users : /\ ~ Writing(v) /\ ~ Writing(v)' /\ ~ Registering(v)'
                         /\ Registering(v) <=> v = u /\ thread[t].op = "register"
    BY <1>1, <2>2, <2>3, Alone DEF Writing, Registering
  <2>5. ASSUME NEW v \in Users \ {u}, slot[v] # None
        PROVE  heap'[slot[v]] = heap[slot[v]]
    <3>1. slot[v] \in Objects /\ slot[v] # a /\ slot[v] # slot[u]
      BY <1>1, <2>1, <2>5 DEF CacheFillInv, CacheFillTypeOK, SlotsOwn
    <3> QED BY <2>1, <3>1
  <2>6. Cached' = [Cached EXCEPT ![u] = rows[u]]
    BY ZenonT(60), <1>1, <2>2, <2>4, <2>5 DEF Cached
  <2>7. Agreement'
    <3>1. ASSUME NEW v \in Users, slot'[v] # None  PROVE heap'[slot'[v]] = rows'[v]
      BY <1>1, <2>2, <2>4, <2>5, <3>1 DEF Agreement
    <3>2. ASSUME NEW s \in Threads, thread'[s].pc = "fill"
          PROVE  thread'[s].copy = rows'[thread'[s].user]
      BY <1>1, <2>2, <2>3, <3>2 DEF Agreement
    <3>3. ASSUME NEW s \in Threads PROVE thread'[s].pc # "save"
      BY <1>1, <2>2, <2>3, Alone
    <3> QED BY <3>1, <3>2, <3>3 DEF Agreement
  <2>8. CASE thread[t].op = "register"
    <3>1. Cached[u] = rows[u]
      BY <1>1, <2>4, <2>8 DEF Cached
    <3>2. Cached' = Cached
      BY <2>6, <3>1 DEF Cached
    <3> QED BY <1>1, <2>7, <3>2 DEF Served, Stutters
  <2>9. CASE thread[t].op # "register"
    <3>1. Cached[u] = None
      BY <1>1, <1>3, <2>4, <2>9 DEF Cached, SlotTaken
    <3> QED BY <1>1, <2>6, <2>7, <3>1, LookUpServes DEF Served
  <2> QED BY <2>8, <2>9
<1> QED BY <1>2, <1>3

\* Nobody sees the object between the change and the write-back.
LEMMA UseServes ==
  ASSUME CacheFillInv, Agreement, NEW t \in Threads, Use(t)
  PROVE  Served
<1> DEFINE u == thread[t].user
           a == thread[t].object
<1>1. /\ thread[t].pc = "use" /\ u \in Users
      /\ UNCHANGED <<rows, slot, deposited, restarts>>
      /\ a # None /\ a \in Objects /\ slot[u] = a
  BY DEF Use, CacheFillInv, CacheFillTypeOK, ThreadFits, PointersLive
<1>2. CASE ~ Accepted(t)
  BY <1>1, <1>2, LeavingStutters DEF Use
<1>3. CASE Accepted(t)
  <2>1. /\ heap' = [heap EXCEPT ![a] = Changed(t, heap[a])]
        /\ thread' = [thread EXCEPT ![t].pc = "save"]
        /\ thread[t].op # "login"
    BY <1>3 DEF Use, Accepted
  <2>2. /\ thread'[t] = [thread[t] EXCEPT !.pc = "save"]
        /\ \A s \in Threads \ {t} : thread'[s] = thread[s] /\ thread[s].pc = "out"
        /\ heap'[a] = Changed(t, heap[a])
        /\ \A b \in Objects \ {a} : heap'[b] = heap[b]
    BY <1>1, <2>1, Alone DEF CacheFillInv, CacheFillTypeOK
  <2>3. /\ thread'[t].pc = "save" /\ thread'[t].user = u /\ thread'[t].object = a
        /\ thread'[t].op = thread[t].op /\ thread'[t].arg = thread[t].arg
    BY <2>2, ThreadIsAtJob DEF CacheFillInv, Job
  <2>4. \A v \in Users : /\ ~ Writing(v) /\ ~ Registering(v) /\ ~ Registering(v)'
                         /\ Writing(v)' <=> v = u
    BY <1>1, <2>2, <2>3 DEF Writing, Registering
  <2>5. ASSUME NEW v \in Users \ {u}, slot[v] # None
        PROVE  heap'[slot[v]] = heap[slot[v]]
    <3>1. slot[v] \in Objects /\ slot[v] # a
      BY <1>1, <2>5 DEF CacheFillInv, CacheFillTypeOK, SlotsOwn
    <3> QED BY <2>2, <3>1
  <2>6. heap[a] = rows[u]
    BY <1>1, <2>4 DEF Agreement
  <2>7. Cached' = Cached
    BY <1>1, <2>4, <2>5, <2>6 DEF Cached
  <2>8. Agreement'
    <3>1. ASSUME NEW v \in Users, slot'[v] # None, ~ Writing(v)'
          PROVE  heap'[slot'[v]] = rows'[v]
      BY <1>1, <2>4, <2>5, <3>1 DEF Agreement
    <3>2. ASSUME NEW s \in Threads, thread'[s].pc \in {"fill", "save"}  PROVE s = t
      BY <2>2, <3>2
    <3>3. heap'[a] = Changed(t, rows[u])'
      BY <1>1, <2>2, <2>3, <2>6 DEF Changed
    <3> QED BY <2>3, <3>1, <3>2, <3>3 DEF Agreement
  <2> QED BY <1>1, <2>7, <2>8 DEF Served, Stutters
<1> QED BY <1>2, <1>3

LEMMA SaveServes ==
  ASSUME CacheFillInv, Agreement, NEW t \in Threads, Save(t)
  PROVE  Served
<1> DEFINE u == thread[t].user
           x == heap[thread[t].object]
<1>1. /\ thread[t].pc = "save" /\ u \in Users /\ rows[u] \in UserRecord
      /\ UNCHANGED <<slot, heap, restarts>>
      /\ Leaves(t) /\ x \in UserRecord /\ thread[t].object # None
      /\ slot[u] = thread[t].object
      /\ Accepted(t) /\ thread[t].op # "login"
  BY DEF Save, CacheFillInv, CacheFillTypeOK, ThreadFits, PointersLive, Accepted
<1>2. /\ thread'[t] = Outside
      /\ \A s \in Threads \ {t} : thread'[s] = thread[s] /\ thread[s].pc = "out"
  BY <1>1, Alone DEF Leaves, CacheFillInv, CacheFillTypeOK
<1>3. \A s \in Threads : thread'[s].pc = "out"
  BY <1>2 DEF Outside
<1>4. \A v \in Users : /\ ~ Registering(v) /\ ~ Registering(v)' /\ ~ Writing(v)'
                       /\ Writing(v) <=> v = u
  BY <1>1, <1>2, <1>3 DEF Writing, Registering
<1>5. x = Changed(t, rows[u])
  BY <1>1 DEF Agreement
<1>6. Cached[u] = rows[u] /\ rows[u] # None
  BY <1>1, <1>4, CacheFillAssumption DEF Cached
<1>7. ASSUME rows' = [rows EXCEPT ![u] = x]
      PROVE  Agreement' /\ Cached' = [Cached EXCEPT ![u] = x] /\ Cached'[u] = x
  <2>1. rows'[u] = x /\ \A v \in Users \ {u} : rows'[v] = rows[v]
    BY <1>1, <1>7 DEF CacheFillInv, CacheFillTypeOK
  <2>2. Agreement'
    BY <1>1, <1>3, <1>4, <2>1 DEF Agreement
  <2>3. Cached' = [Cached EXCEPT ![u] = x] /\ Cached'[u] = x
    BY <1>1, <1>4, <2>1 DEF Cached
  <2> QED BY <2>2, <2>3
<1>8. CASE thread[t].op = "recharge"
  <2> DEFINE d == thread[t].arg
  <2>1. x = [rows[u] EXCEPT !.balance = @ + d]
    BY <1>5, <1>8 DEF Changed
  <2>2. /\ rows' = [rows EXCEPT ![u].balance = x.balance]
        /\ deposited' = [deposited EXCEPT ![u] = @ + d]
    BY <1>8 DEF Save
  <2>3. [rows[u] EXCEPT !.balance = x.balance] = x
    BY <1>1, <2>1 DEF UserRecord
  <2>4. rows' = [rows EXCEPT ![u] = x]
    BY <2>2, <2>3
  <2>5. d \in Amounts /\ d > 0 /\ deposited[u] + d <= MaxDeposit
    BY <1>1, <1>8 DEF Accepted, CacheFillInv, ThreadFits
  <2>6. Cached' = [Cached EXCEPT ![u].balance = @ + d]
    BY <1>6, <1>7, <2>1, <2>4
  <2>7. Atomic!AccountsNext
    BY <1>1, <1>6, <1>7, <2>2, <2>4, <2>5, <2>6, RechargeServes DEF CacheFillInv
  <2> QED BY <1>7, <2>4, <2>7 DEF Served
<1>9. CASE thread[t].op # "recharge"
  <2> DEFINE p == thread[t].arg
  <2>1. x = [rows[u] EXCEPT !.password = Encrypt[p]]
    BY <1>5, <1>9 DEF Changed
  <2>2. rows' = [rows EXCEPT ![u].password = x.password] /\ UNCHANGED deposited
    BY <1>9 DEF Save
  <2>3. [rows[u] EXCEPT !.password = x.password] = x
    BY <1>1, <2>1 DEF UserRecord
  <2>4. rows' = [rows EXCEPT ![u] = x]
    BY <2>2, <2>3
  <2>5. p \in WellFormed
    BY <1>1, <1>9 DEF Accepted
  <2>6. Cached' = [Cached EXCEPT ![u].password = Encrypt[p]]
    BY <1>6, <1>7, <2>1, <2>4
  <2>7. Atomic!AccountsNext
    BY <1>1, <1>6, <1>7, <2>2, <2>4, <2>5, <2>6, ChangePasswordServes DEF CacheFillInv
  <2> QED BY <1>7, <2>4, <2>7 DEF Served
<1> QED BY <1>8, <1>9

LEMMA RestartServes ==
  ASSUME Restart
  PROVE  Served
<1>1. \A t \in Threads : thread'[t].pc = "out"
  BY DEF Restart, Outside
<1>2. \A v \in Users : ~ Writing(v)' /\ ~ Registering(v)'
  BY <1>1 DEF Writing, Registering
<1>3. Cached' = [u \in Users |-> None]
  BY <1>2 DEF Restart, Cached
<1>4. Atomic!RestartAccounts
  BY <1>3 DEF Restart, Atomic!RestartAccounts, Atomic!Users, Users
<1>5. Agreement'
  BY <1>1 DEF Restart, Agreement
<1> QED BY <1>4, <1>5 DEF Served, Atomic!AccountsNext

-----------------------------------------------------------------------------

LEMMA InitAgrees == CacheFillInit => Agreement /\ Atomic!AccountsInit
<1> SUFFICES ASSUME CacheFillInit  PROVE Agreement /\ Atomic!AccountsInit
  OBVIOUS
<1>1. \A t \in Threads : thread[t].pc = "out"
  BY DEF CacheFillInit, Outside
<1>2. Cached = [u \in Users |-> None]
  BY <1>1 DEF CacheFillInit, Cached, Writing, Registering
<1> QED BY <1>1, <1>2 DEF CacheFillInit, Agreement, Atomic!AccountsInit, Atomic!Users, Users

LEMMA ArriveServes ==
  ASSUME CacheFillInv, Agreement, NEW t \in Threads, Arrive(t)
  PROVE  Served
<1>1. PICK op, u, arg : Enter(t, op, u, arg)
  BY DEF Arrive
<1> QED BY <1>1, EnterStutters

LEMMA StepServes ==
  CacheFillInv /\ Agreement /\ [CacheFillNext]_cacheFillVars =>
    Agreement' /\ [Atomic!AccountsNext]_(Atomic!accountVars)
<1> SUFFICES ASSUME CacheFillInv, Agreement, [CacheFillNext]_cacheFillVars
             PROVE  Served
  BY DEF Served, Stutters, Atomic!accountVars
<1>1. ASSUME NEW t \in Threads,
             \/ Arrive(t) \/ Hit(t) \/ Miss(t) \/ Select(t) \/ Insert(t) \/ Fill(t)
             \/ Use(t) \/ Save(t)
      PROVE  Served
  BY <1>1, ArriveServes, HitServes, MissServes, SelectServes, InsertServes, FillServes,
     UseServes, SaveServes
<1>2. CASE Restart
  BY <1>2, RestartServes
<1>3. CASE UNCHANGED cacheFillVars
  BY <1>3 DEF cacheFillVars, Served, Stutters, Agreement, Writing, Registering, Cached,
     Changed
<1> QED BY <1>1, <1>2, <1>3 DEF CacheFillNext

\* The steps of getOrLoad, registerUser and the handlers on them, by any number
\* of threads and with restarts between any two of them, implement the handlers
\* that are one step each: the locks of runEpoll (Server.cpp:187) and the second
\* look of getOrLoad (User.cpp:100) are enough.
THEOREM CacheFillImplementsAccounts == CacheFillSpec => RequestsAreAtomic
<1> QED BY InitEstablishes, StepKeepsInv, InitAgrees, StepServes, PTL
        DEF CacheFillSpec, RequestsAreAtomic, Atomic!AccountsSpec

=============================================================================
