---------------------------- MODULE ReactorProofs ----------------------------
(***************************************************************************)
(* Every connection is in one place at a time and in no place forgotten,   *)
(* a handler that writes runs alone, and over a connection come the        *)
(* responses to its own requests, for any number of connections,           *)
(* descriptors, workers and requests.                                      *)
(***************************************************************************)
EXTENDS Reactor, TLAPS

\* A worker has a descriptor from the moment it takes a task until it rearms
\* or closes it, and a request once it has read one.
JobsFit ==
  \A w \in Workers :
    /\ job[w].fd = None <=> job[w].pc \in {"look", "asleep"}
    /\ job[w].pc \in {"lock", "run", "send", "rearm"} => job[w].request # None

Hands == armed \cup (events \ {Listener}) \cup Queued \cup Served

\* Nothing is waited for, queued or served but open descriptors.
HandsOpen == \A f \in Hands : peer[f] # None

HandsInv == OneHandAtATime /\ NoneForgotten /\ HandsOpen

ConnectionInv == ReactorTypeOK /\ JobsFit /\ HandsInv

-----------------------------------------------------------------------------
(* The queue as a set. *)

Elems(s) == {s[i] : i \in DOMAIN s}

Distinct(s) == \A i, j \in DOMAIN s : s[i] = s[j] => i = j

LEMMA AppendElems ==
  ASSUME NEW S, NEW s \in Seq(S), NEW x \in S
  PROVE  /\ Append(s, x) \in Seq(S)
         /\ Elems(Append(s, x)) = Elems(s) \cup {x}
         /\ Distinct(s) /\ x \notin Elems(s) => Distinct(Append(s, x))
<1>1. /\ Append(s, x) \in Seq(S)
      /\ DOMAIN Append(s, x) = 1..(Len(s) + 1)
      /\ DOMAIN s = 1..Len(s)
      /\ \A i \in DOMAIN s : Append(s, x)[i] = s[i]
      /\ Append(s, x)[Len(s) + 1] = x
      /\ Len(s) \in Nat
  OBVIOUS
<1>2. DOMAIN Append(s, x) = DOMAIN s \cup {Len(s) + 1}
  BY <1>1
<1>3. Elems(Append(s, x)) = Elems(s) \cup {x}
  BY <1>1, <1>2 DEF Elems
<1>4. Distinct(s) /\ x \notin Elems(s) => Distinct(Append(s, x))
  BY <1>1, <1>2 DEF Elems, Distinct
<1> QED BY <1>1, <1>3, <1>4

LEMMA TailElems ==
  ASSUME NEW S, NEW s \in Seq(S), s # << >>
  PROVE  /\ Tail(s) \in Seq(S) /\ Head(s) \in S
         /\ Elems(s) = {Head(s)} \cup Elems(Tail(s))
         /\ Distinct(s) => Distinct(Tail(s)) /\ Head(s) \notin Elems(Tail(s))
<1>1. /\ Tail(s) \in Seq(S) /\ Head(s) \in S /\ Head(s) = s[1]
      /\ Len(s) \in Nat \ {0}
      /\ DOMAIN s = 1..Len(s)
      /\ DOMAIN Tail(s) = 1..(Len(s) - 1)
      /\ \A i \in DOMAIN Tail(s) : Tail(s)[i] = s[i + 1]
  OBVIOUS
<1>2. \A i \in DOMAIN s : i = 1 \/ (i - 1 \in DOMAIN Tail(s) /\ s[i] = Tail(s)[i - 1])
  BY <1>1
<1>3. Elems(s) = {Head(s)} \cup Elems(Tail(s))
  <2>1. Elems(s) \subseteq {Head(s)} \cup Elems(Tail(s))
    <3>1. ASSUME NEW i \in DOMAIN s
          PROVE  s[i] = Head(s) \/ s[i] \in Elems(Tail(s))
      BY <1>1, <1>2 DEF Elems
    <3> QED BY <3>1 DEF Elems
  <2>2. Elems(Tail(s)) \subseteq Elems(s)
    BY <1>1 DEF Elems
  <2>3. Head(s) \in Elems(s)
    BY <1>1 DEF Elems
  <2> QED BY <2>1, <2>2, <2>3
<1>4. Distinct(s) => Distinct(Tail(s)) /\ Head(s) \notin Elems(Tail(s))
  <2>1. \A i \in DOMAIN Tail(s) : i + 1 \in DOMAIN s /\ 1 \in DOMAIN s /\ i + 1 # 1
    BY <1>1
  <2>2. \A i, j \in DOMAIN Tail(s) : i + 1 = j + 1 => i = j
    BY <1>1
  <2> QED BY <1>1, <2>1, <2>2 DEF Elems, Distinct
<1> QED BY <1>1, <1>3, <1>4

-----------------------------------------------------------------------------
(* Connections in one place. *)

LEMMA ReactorInitConnections == ReactorInit => ConnectionInv
<1> SUFFICES ASSUME ReactorInit PROVE ConnectionInv
  OBVIOUS
<1>1. ReactorTypeOK
  <2>1. << >> \in Seq(Requests) /\ << >> \in Seq(Fds)
    OBVIOUS
  <2>2. Looking \in Job
    BY DEF Looking, Job
  <2> QED BY <2>1, <2>2 DEF ReactorInit, ReactorTypeOK
<1>2. JobsFit
  BY DEF ReactorInit, JobsFit, Looking
<1>3. Queued = {} /\ Served = {}
  BY DEF ReactorInit, Queued, Served, Looking
<1>4. HandsInv
  BY <1>3 DEF ReactorInit, HandsInv, OneHandAtATime, NoneForgotten, HandsOpen, Hands, Looking
<1> QED BY <1>1, <1>2, <1>4 DEF ConnectionInv

\* A step that moves no descriptor from one place to another.
LEMMA HandsStay ==
  ASSUME ConnectionInv, UNCHANGED epollVars,
         job' \in [Workers -> Job], \A w \in Workers : job'[w].fd = job[w].fd
  PROVE  HandsInv'
<1>1. Served' = Served /\ Queued' = Queued
  BY DEF Served, Queued, epollVars
<1> QED BY <1>1 DEF epollVars, ConnectionInv, HandsInv, OneHandAtATime, NoneForgotten,
                   HandsOpen, Hands

LEMMA ClientKeepsConnections ==
  ASSUME ConnectionInv, NEW c \in Connections, Client(c)
  PROVE  ConnectionInv'
<1>1. UNCHANGED <<epollVars, job, expiry>>
  BY DEF Client, Connect, Leave, Ask
<1>2. job' \in [Workers -> Job] /\ \A w \in Workers : job'[w].fd = job[w].fd
  BY <1>1 DEF ConnectionInv, ReactorTypeOK
<1>3. HandsInv'
  BY <1>1, <1>2, HandsStay
<1>4. ReactorTypeOK'
  <2>1. CASE Connect(c)
    BY <1>1, <2>1 DEF ConnectionInv, ReactorTypeOK, Connect, epollVars
  <2>2. CASE Leave(c)
    BY <1>1, <2>2 DEF ConnectionInv, ReactorTypeOK, Leave, epollVars
  <2>3. ASSUME NEW r \in Requests, Ask(c, r)
        PROVE  ReactorTypeOK'
    <3>1. asked' \in [Connections -> Seq(Requests)]
      BY <2>3 DEF ConnectionInv, ReactorTypeOK, Ask
    <3> QED BY <1>1, <2>3, <3>1 DEF ConnectionInv, ReactorTypeOK, Ask, epollVars
  <2> QED BY <2>1, <2>2, <2>3 DEF Client
<1>5. JobsFit'
  BY <1>1 DEF ConnectionInv, JobsFit
<1> QED BY <1>3, <1>4, <1>5 DEF ConnectionInv

-----------------------------------------------------------------------------
(* The main thread. *)

LEMMA PlacesAreFds ==
  ASSUME ConnectionInv
  PROVE  Queued \subseteq Fds /\ Served \subseteq Fds
<1>1. Queued \subseteq Fds
  BY DEF ConnectionInv, ReactorTypeOK, Queued
<1>2. Served \subseteq Fds
  BY DEF ConnectionInv, ReactorTypeOK, Served, Job
<1> QED BY <1>1, <1>2

LEMMA EpollWaitKeepsConnections ==
  ASSUME ConnectionInv, EpollWait
  PROVE  ConnectionInv'
<1>1. /\ events' = Ready /\ armed' = armed \ Ready /\ events = {}
      /\ UNCHANGED <<clientVars, peer, tasks, notifying, job, expiry>>
  BY DEF EpollWait, Disarmed
<1>2. Ready \subseteq Fds \cup {Listener} /\ Ready \ {Listener} \subseteq armed
  BY DEF Ready, ConnectionInv, ReactorTypeOK
<1>3. ReactorTypeOK'
  BY <1>1, <1>2 DEF ConnectionInv, ReactorTypeOK, clientVars
<1>4. Queued' = Queued /\ Served' = Served
  BY <1>1 DEF Queued, Served
<1>5. Listener \notin Queued \cup Served
  BY PlacesAreFds, ReactorAssumption
<1>6. OneHandAtATime'
  BY <1>1, <1>2, <1>4, <1>5 DEF ConnectionInv, HandsInv, OneHandAtATime
<1>7. Hands' \subseteq Hands
  BY <1>1, <1>2, <1>4 DEF Hands
<1>8. HandsOpen' /\ NoneForgotten'
  BY <1>1, <1>4, <1>7 DEF ConnectionInv, HandsInv, HandsOpen, NoneForgotten
<1>9. JobsFit'
  BY <1>1 DEF ConnectionInv, JobsFit
<1> QED BY <1>3, <1>6, <1>8, <1>9 DEF ConnectionInv, HandsInv

LEMMA AcceptKeepsConnections ==
  ASSUME ConnectionInv, NEW c \in Connections, NEW f \in Fds, Accept(c, f)
  PROVE  ConnectionInv'
<1>1. /\ peer[f] = None /\ f # Listener
      /\ peer' = [peer EXCEPT ![f] = c]
      /\ armed' = armed \cup {f}
      /\ events' = events \ {Listener}
      /\ UNCHANGED <<gone, asked, taken, answered, tasks, notifying, job, expiry>>
  BY ReactorAssumption DEF Accept
<1>2. ReactorTypeOK'
  BY <1>1 DEF ConnectionInv, ReactorTypeOK, Accept
<1>3. Queued' = Queued /\ Served' = Served
  BY <1>1 DEF Queued, Served
<1>4. f \notin Hands
  BY <1>1 DEF ConnectionInv, HandsInv, HandsOpen
<1>5. OneHandAtATime'
  BY <1>1, <1>3, <1>4 DEF ConnectionInv, HandsInv, OneHandAtATime, Hands
<1>6. Hands' = Hands \cup {f}
  BY <1>1, <1>3 DEF Hands
<1>7. peer'[f] # None /\ \A g \in Fds : g # f => peer'[g] = peer[g]
  BY <1>1, ReactorAssumption DEF ConnectionInv, ReactorTypeOK
<1>8. HandsOpen'
  <2>1. Hands \subseteq Fds
    BY PlacesAreFds DEF Hands, ConnectionInv, ReactorTypeOK
  <2> QED BY <1>6, <1>7, <2>1 DEF ConnectionInv, HandsInv, HandsOpen
<1>9. NoneForgotten'
  BY <1>1, <1>3, <1>7, ReactorAssumption DEF ConnectionInv, HandsInv, NoneForgotten
<1>10. JobsFit'
  BY <1>1 DEF ConnectionInv, JobsFit
<1> QED BY <1>2, <1>5, <1>8, <1>9, <1>10 DEF ConnectionInv, HandsInv

LEMMA AcceptFailsKeepsConnections ==
  ASSUME ConnectionInv, AcceptFails
  PROVE  ConnectionInv'
<1>1. /\ events' = events \ {Listener}
      /\ UNCHANGED <<clientVars, peer, armed, tasks, notifying, job, expiry>>
  BY DEF AcceptFails
<1>2. ReactorTypeOK' /\ JobsFit'
  BY <1>1 DEF ConnectionInv, ReactorTypeOK, JobsFit, clientVars
<1>3. Queued' = Queued /\ Served' = Served
  BY <1>1 DEF Queued, Served
<1>4. HandsInv'
  BY <1>1, <1>3, ReactorAssumption
     DEF ConnectionInv, HandsInv, OneHandAtATime, NoneForgotten, HandsOpen, Hands
<1> QED BY <1>2, <1>4 DEF ConnectionInv

LEMMA DispatchKeepsConnections ==
  ASSUME ConnectionInv, NEW f \in Fds, Dispatch(f)
  PROVE  ConnectionInv'
<1>1. /\ f \in events /\ f # Listener
      /\ events' = events \ {f}
      /\ tasks' = Append(tasks, f)
      /\ notifying' = TRUE
      /\ UNCHANGED <<clientVars, peer, armed, job, expiry>>
  BY DEF Dispatch
<1>2. tasks \in Seq(Fds)
  BY DEF ConnectionInv, ReactorTypeOK
<1>3. /\ Queued = Elems(tasks) /\ Queued' = Elems(tasks')
      /\ Distinct(tasks) /\ Served' = Served
  BY <1>1 DEF Queued, Elems, Distinct, Served, ConnectionInv, HandsInv, OneHandAtATime
<1>4. f \notin Queued
  BY <1>1 DEF ConnectionInv, HandsInv, OneHandAtATime
<1>5. tasks' \in Seq(Fds) /\ Queued' = Queued \cup {f} /\ Distinct(tasks')
  BY <1>1, <1>2, <1>3, <1>4, AppendElems
<1>6. ReactorTypeOK' /\ JobsFit'
  BY <1>1, <1>5 DEF ConnectionInv, ReactorTypeOK, JobsFit, clientVars
<1>7. OneHandAtATime'
  BY <1>1, <1>3, <1>5 DEF ConnectionInv, HandsInv, OneHandAtATime, Distinct
<1>8. Hands' = Hands
  BY <1>1, <1>3, <1>5 DEF Hands
<1>9. HandsOpen' /\ NoneForgotten'
  BY <1>1, <1>3, <1>5, <1>8 DEF ConnectionInv, HandsInv, HandsOpen, NoneForgotten
<1> QED BY <1>6, <1>7, <1>9 DEF ConnectionInv, HandsInv

LEMMA NotifyKeepsConnections ==
  ASSUME ConnectionInv, Notify
  PROVE  ConnectionInv'
<1>1. /\ notifying' = FALSE
      /\ UNCHANGED <<clientVars, peer, armed, events, tasks, expiry>>
  BY DEF Notify
<1>2. /\ job' \in [Workers -> Job]
      /\ \A w \in Workers : job'[w].fd = job[w].fd
      /\ JobsFit'
  <2>1. CASE job' = job
    BY <2>1 DEF ConnectionInv, ReactorTypeOK, JobsFit
  <2>2. ASSUME NEW w \in Asleep, job' = [job EXCEPT ![w] = Looking]
        PROVE  /\ job' \in [Workers -> Job]
               /\ \A v \in Workers : job'[v].fd = job[v].fd
               /\ JobsFit'
    <3>1. Looking \in Job /\ Looking.fd = None /\ Looking.pc = "look"
      BY DEF Looking, Job
    <3>2. w \in Workers /\ job[w].fd = None
      BY <2>2 DEF Asleep, ConnectionInv, JobsFit
    <3>3. job'[w] = Looking /\ \A v \in Workers : v # w => job'[v] = job[v]
      BY <2>2, <3>2 DEF ConnectionInv, ReactorTypeOK
    <3> QED BY <2>2, <3>1, <3>2, <3>3 DEF ConnectionInv, ReactorTypeOK, JobsFit
  <2> QED BY <2>1, <2>2 DEF Notify, Woken
<1>3. Queued' = Queued /\ Served' = Served
  BY <1>1, <1>2 DEF Queued, Served
<1>4. HandsInv'
  BY <1>1, <1>2, <1>3
     DEF ConnectionInv, HandsInv, OneHandAtATime, NoneForgotten, HandsOpen, Hands
<1>5. ReactorTypeOK'
  BY <1>1, <1>2 DEF ConnectionInv, ReactorTypeOK, clientVars
<1> QED BY <1>2, <1>4, <1>5 DEF ConnectionInv

-----------------------------------------------------------------------------
(* The workers. *)

\* A step that moves a worker and none of the descriptors.
LEMMA GoingKeepsConnections ==
  ASSUME ConnectionInv, NEW w \in Workers, NEW next \in Job,
         next.fd = job[w].fd, next.fd = None <=> next.pc \in {"look", "asleep"},
         next.pc \in {"lock", "run", "send", "rearm"} => next.request # None,
         job' = [job EXCEPT ![w] = next],
         taken' \in [Connections -> Nat], answered' \in [Connections -> Seq(Requests)],
         UNCHANGED <<link, gone, asked, epollVars, expiry>>
  PROVE  ConnectionInv'
<1>1. /\ job' \in [Workers -> Job] /\ job'[w] = next
      /\ \A v \in Workers : v # w => job'[v] = job[v]
  BY DEF ConnectionInv, ReactorTypeOK
<1>2. \A v \in Workers : job'[v].fd = job[v].fd
  BY <1>1
<1>3. HandsInv'
  BY <1>1, <1>2, HandsStay
<1>4. ReactorTypeOK'
  BY <1>1 DEF ConnectionInv, ReactorTypeOK, epollVars
<1>5. JobsFit'
  BY <1>1 DEF ConnectionInv, JobsFit
<1> QED BY <1>3, <1>4, <1>5 DEF ConnectionInv

LEMMA JobFields ==
  ASSUME ConnectionInv, NEW w \in Workers
  PROVE  /\ job[w] \in Job
         /\ job[w].fd \in Fds \cup {None} /\ job[w].request \in Requests \cup {None}
         /\ job[w].pc \notin {"look", "asleep"} => job[w].fd \in Fds
         /\ job[w].pc \in {"lock", "run", "send", "rearm"} => job[w].request \in Requests
BY DEF ConnectionInv, ReactorTypeOK, JobsFit, Job

\* The steps that only move the program counter.
LEMMA PlainStepsKeepConnections ==
  ASSUME ConnectionInv, NEW w \in Workers,
         Sleep(w) \/ ReceiveFails(w) \/ Enter(w) \/ Finish(w) \/ SendFails(w)
  PROVE  ConnectionInv'
<1>1. /\ UNCHANGED <<clientVars, epollVars, expiry>>
      /\ \E pc \in {"asleep", "close", "run", "send"} :
           /\ Goes(w, pc)
           /\ pc = "asleep" <=> job[w].pc = "look"
           /\ pc \in {"run", "send"} => job[w].pc \in {"lock", "run"}
           /\ pc # "asleep" => job[w].pc \in {"recv", "lock", "run", "send"}
  BY DEF Sleep, ReceiveFails, Enter, Finish, SendFails
<1>2. PICK pc \in {"asleep", "close", "run", "send"} :
           /\ Goes(w, pc)
           /\ pc = "asleep" <=> job[w].pc = "look"
           /\ pc \in {"run", "send"} => job[w].pc \in {"lock", "run"}
           /\ pc # "asleep" => job[w].pc \in {"recv", "lock", "run", "send"}
  BY <1>1
<1>3. PICK next : next = [job[w] EXCEPT !.pc = pc]
  OBVIOUS
<1>4. /\ next \in Job /\ next.pc = pc
      /\ next.fd = job[w].fd /\ next.request = job[w].request
  BY <1>3, JobFields DEF Job
<1>5. job' = [job EXCEPT ![w] = next]
  BY <1>2, <1>3 DEF Goes
<1>6. /\ next.fd = None <=> next.pc \in {"look", "asleep"}
      /\ next.pc \in {"lock", "run", "send", "rearm"} => next.request # None
  BY <1>2, <1>4 DEF ConnectionInv, JobsFit
<1>7. taken' \in [Connections -> Nat] /\ answered' \in [Connections -> Seq(Requests)]
  BY <1>1 DEF clientVars, ConnectionInv, ReactorTypeOK
<1> QED BY <1>1, <1>4, <1>5, <1>6, <1>7, GoingKeepsConnections DEF clientVars

LEMMA ReceiveKeepsConnections ==
  ASSUME ConnectionInv, NEW w \in Workers, Receive(w)
  PROVE  ConnectionInv'
<1> DEFINE f == job[w].fd
           c == peer[f]
           r == asked[c][taken[c] + 1]
<1>1. job[w].pc = "recv" /\ f \in Fds /\ c \in Connections
  BY JobFields DEF Receive, ConnectionInv, ReactorTypeOK
<1>2. r \in Requests
  <2>1. /\ asked[c] \in Seq(Requests) /\ taken[c] \in Nat /\ taken[c] < Len(asked[c])
    BY <1>1 DEF Receive, Unread, ConnectionInv, ReactorTypeOK
  <2> QED BY <2>1
<1>3. PICK next : next = AfterReceipt(r)
  OBVIOUS
<1>4. taken' \in [Connections -> Nat]
  BY <1>1 DEF Receive, ConnectionInv, ReactorTypeOK
<1>5. PICK new : new = [pc |-> next, fd |-> f, request |-> r]
  OBVIOUS
<1>6. /\ new \in Job /\ new.fd = job[w].fd /\ new.fd # None
      /\ new.pc \notin {"look", "asleep"} /\ new.request # None
  <2>1. next \in {"close", "lock", "send"}
    BY <1>3 DEF AfterReceipt
  <2> QED BY <1>1, <1>2, <1>5, <2>1, ReactorAssumption DEF Job
<1>7. /\ UNCHANGED <<link, gone, asked, epollVars, expiry>>
      /\ answered' \in [Connections -> Seq(Requests)]
  BY DEF Receive, ConnectionInv, ReactorTypeOK
<1>8. job' = [job EXCEPT ![w] = new]
  BY <1>3, <1>5 DEF Receive
<1> QED BY <1>4, <1>6, <1>7, <1>8, GoingKeepsConnections

LEMMA SendKeepsConnections ==
  ASSUME ConnectionInv, NEW w \in Workers, Send(w)
  PROVE  ConnectionInv'
<1>1. job[w].pc = "send" /\ job[w].request \in Requests /\ job[w].fd \in Fds
  BY JobFields DEF Send
<1>2. answered' \in [Connections -> Seq(Requests)]
  <2>1. PICK c \in Connections : answered' = [answered EXCEPT ![c] = Append(@, job[w].request)]
    BY <1>1 DEF Send, ConnectionInv, ReactorTypeOK
  <2> QED BY <1>1, <2>1 DEF ConnectionInv, ReactorTypeOK
<1>3. PICK next : next = [job[w] EXCEPT !.pc = "rearm"]
  OBVIOUS
<1>4. /\ next \in Job /\ next.pc = "rearm"
      /\ next.fd = job[w].fd /\ next.request = job[w].request
  BY <1>3, JobFields DEF Job
<1>5. job' = [job EXCEPT ![w] = next]
  BY <1>3 DEF Send, Goes
<1>6. next.fd # None /\ next.request # None
  BY <1>1, <1>4, ReactorAssumption
<1>7. UNCHANGED <<link, gone, asked, epollVars, expiry>> /\ taken' \in [Connections -> Nat]
  BY DEF Send, ConnectionInv, ReactorTypeOK
<1> QED BY <1>2, <1>4, <1>5, <1>6, <1>7, GoingKeepsConnections

LEMMA TakeKeepsConnections ==
  ASSUME ConnectionInv, NEW w \in Workers, Take(w)
  PROVE  ConnectionInv'
<1> DEFINE f == Head(tasks)
<1>1. /\ tasks # << >> /\ tasks' = Tail(tasks) /\ tasks \in Seq(Fds)
      /\ job[w].pc = "look"
      /\ UNCHANGED <<clientVars, peer, armed, events, notifying, expiry>>
  BY DEF Take, ConnectionInv, ReactorTypeOK
<1>2. /\ Queued = Elems(tasks) /\ Queued' = Elems(tasks') /\ Distinct(tasks)
  BY DEF Queued, Elems, Distinct, ConnectionInv, HandsInv, OneHandAtATime
<1>3. /\ tasks' \in Seq(Fds) /\ f \in Fds /\ Distinct(tasks')
      /\ Queued = {f} \cup Queued' /\ f \notin Queued'
  BY <1>1, <1>2, TailElems
<1>4. PICK next : next = [pc |-> "recv", fd |-> f, request |-> None]
  OBVIOUS
<1>5. next \in Job /\ next.fd = f /\ next.pc = "recv" /\ f # None
  BY <1>3, <1>4, ReactorAssumption DEF Job
<1>6. /\ job' \in [Workers -> Job] /\ job'[w] = next
      /\ \A v \in Workers : v # w => job'[v] = job[v]
  BY <1>4, <1>5 DEF Take, ConnectionInv, ReactorTypeOK
<1>7. job[w].fd = None
  BY <1>1 DEF ConnectionInv, JobsFit
<1>8. Served' = Served \cup {f} /\ f \notin Served
  <2>1. f \notin Served
    BY <1>3 DEF ConnectionInv, HandsInv, OneHandAtATime
  <2>2. Served' = Served \cup {f}
    BY <1>5, <1>6, <1>7 DEF Served
  <2> QED BY <2>1, <2>2
<1>9. ReactorTypeOK'
  BY <1>1, <1>3, <1>6 DEF ConnectionInv, ReactorTypeOK, clientVars
<1>10. JobsFit'
  BY <1>5, <1>6 DEF ConnectionInv, JobsFit
<1>11. OneHandAtATime'
  <2>1. \A v \in Workers : job[v].fd # None => job[v].fd # f
    BY <1>8 DEF Served
  <2>2. \A u, v \in Workers : job'[u].fd = job'[v].fd /\ job'[u].fd # None => u = v
    BY <1>5, <1>6, <2>1 DEF ConnectionInv, HandsInv, OneHandAtATime
  <2> QED BY <1>1, <1>3, <1>8, <2>2 DEF ConnectionInv, HandsInv, OneHandAtATime, Distinct
<1>12. Hands' = Hands
  BY <1>1, <1>3, <1>8 DEF Hands
<1>13. HandsOpen' /\ NoneForgotten'
  BY <1>1, <1>3, <1>8, <1>12 DEF ConnectionInv, HandsInv, HandsOpen, NoneForgotten
<1> QED BY <1>9, <1>10, <1>11, <1>13 DEF ConnectionInv, HandsInv

\* A worker that lets go of its descriptor: nobody else has it.
LEMMA LettingGo ==
  ASSUME ConnectionInv, NEW w \in Workers, job[w].fd \in Fds,
         job' = [job EXCEPT ![w] = Looking]
  PROVE  /\ job' \in [Workers -> Job] /\ job'[w] = Looking
         /\ \A v \in Workers : v # w => job'[v] = job[v]
         /\ Served' = Served \ {job[w].fd} /\ job[w].fd \in Served
         /\ \A u, v \in Workers : job'[u].fd = job'[v].fd /\ job'[u].fd # None => u = v
         /\ JobsFit'
<1>1. Looking \in Job /\ Looking.fd = None /\ Looking.pc = "look"
  BY DEF Looking, Job
<1>2. /\ job' \in [Workers -> Job] /\ job'[w] = Looking
      /\ \A v \in Workers : v # w => job'[v] = job[v]
  BY <1>1 DEF ConnectionInv, ReactorTypeOK
<1>3. \A u, v \in Workers : job[u].fd = job[v].fd /\ job[u].fd # None => u = v
  BY DEF ConnectionInv, HandsInv, OneHandAtATime
<1>4. job[w].fd \in Served /\ job[w].fd # None
  BY ReactorAssumption DEF Served
<1>5. Served' = Served \ {job[w].fd}
  <2>1. \A x \in Served' : x \in Served /\ x # job[w].fd
    BY <1>1, <1>2, <1>3, <1>4 DEF Served
  <2>2. \A x \in Served : x # job[w].fd => x \in Served'
    BY <1>2 DEF Served
  <2> QED BY <1>4, <2>1, <2>2
<1>6. \A u, v \in Workers : job'[u].fd = job'[v].fd /\ job'[u].fd # None => u = v
  BY <1>1, <1>2, <1>3
<1>7. JobsFit'
  BY <1>1, <1>2 DEF ConnectionInv, JobsFit
<1> QED BY <1>2, <1>4, <1>5, <1>6, <1>7

LEMMA RearmKeepsConnections ==
  ASSUME ConnectionInv, NEW w \in Workers, Rearm(w)
  PROVE  ConnectionInv'
<1> DEFINE f == job[w].fd
<1>1. /\ job[w].pc = "rearm" /\ f \in Fds
      /\ armed' = armed \cup {f}
      /\ job' = [job EXCEPT ![w] = Looking]
      /\ UNCHANGED <<clientVars, peer, events, tasks, notifying, expiry>>
  BY JobFields DEF Rearm, Rearmed
<1>2. /\ job' \in [Workers -> Job] /\ JobsFit'
      /\ Served' = Served \ {f} /\ f \in Served
      /\ \A u, v \in Workers : job'[u].fd = job'[v].fd /\ job'[u].fd # None => u = v
  BY <1>1, LettingGo
<1>3. Queued' = Queued
  BY <1>1 DEF Queued
<1>4. ReactorTypeOK'
  BY <1>1, <1>2 DEF ConnectionInv, ReactorTypeOK, clientVars
<1>5. OneHandAtATime'
  BY <1>1, <1>2, <1>3 DEF ConnectionInv, HandsInv, OneHandAtATime
<1>6. Hands' = Hands
  BY <1>1, <1>2, <1>3 DEF Hands
<1>7. HandsOpen' /\ NoneForgotten'
  BY <1>1, <1>2, <1>3, <1>6 DEF ConnectionInv, HandsInv, HandsOpen, NoneForgotten
<1> QED BY <1>2, <1>4, <1>5, <1>7 DEF ConnectionInv, HandsInv

LEMMA CloseKeepsConnections ==
  ASSUME ConnectionInv, NEW w \in Workers, Close(w)
  PROVE  ConnectionInv'
<1> DEFINE f == job[w].fd
<1>1. /\ job[w].pc = "close" /\ f \in Fds /\ f # None
      /\ peer' = [peer EXCEPT ![f] = None]
      /\ armed' = armed \ {f}
      /\ job' = [job EXCEPT ![w] = Looking]
      /\ UNCHANGED <<gone, asked, taken, answered, events, tasks, notifying, expiry>>
  BY JobFields, ReactorAssumption DEF Close
<1>2. /\ job' \in [Workers -> Job] /\ JobsFit'
      /\ Served' = Served \ {f} /\ f \in Served
      /\ \A u, v \in Workers : job'[u].fd = job'[v].fd /\ job'[u].fd # None => u = v
  BY <1>1, LettingGo
<1>3. Queued' = Queued
  BY <1>1 DEF Queued
<1>4. f \notin armed /\ f \notin events /\ f \notin Queued
  BY <1>2 DEF ConnectionInv, HandsInv, OneHandAtATime
<1>5. link' \in [Connections -> {"new", "pending", "open", "closed"}]
  <2>1. \A d \in Connections : link[d] \in {"new", "pending", "open", "closed"}
    BY DEF ConnectionInv, ReactorTypeOK
  <2> QED BY <2>1 DEF Close
<1>6. ReactorTypeOK'
  BY <1>1, <1>2, <1>5 DEF ConnectionInv, ReactorTypeOK
<1>7. OneHandAtATime'
  BY <1>1, <1>2, <1>3 DEF ConnectionInv, HandsInv, OneHandAtATime
<1>8. Hands' = Hands \ {f}
  BY <1>1, <1>2, <1>3, <1>4 DEF Hands
<1>9. \A g \in Fds : peer'[g] = IF g = f THEN None ELSE peer[g]
  BY <1>1 DEF ConnectionInv, ReactorTypeOK
<1>10. HandsOpen'
  <2>1. Hands \subseteq Fds
    BY PlacesAreFds DEF Hands, ConnectionInv, ReactorTypeOK
  <2> QED BY <1>8, <1>9, <2>1 DEF ConnectionInv, HandsInv, HandsOpen
<1>11. NoneForgotten'
  BY <1>1, <1>2, <1>3, <1>9 DEF ConnectionInv, HandsInv, NoneForgotten
<1> QED BY <1>2, <1>6, <1>7, <1>10, <1>11 DEF ConnectionInv, HandsInv

LEMMA ExpiryKeepsConnections ==
  ASSUME ConnectionInv, ExpiryThread
  PROVE  ConnectionInv'
<1>1. UNCHANGED <<clientVars, epollVars, job>> /\ expiry' \in {"sleep", "lock", "run"}
  BY DEF ExpiryThread
<1>2. HandsInv'
  <2>1. job' \in [Workers -> Job] /\ \A w \in Workers : job'[w].fd = job[w].fd
    BY <1>1 DEF ConnectionInv, ReactorTypeOK
  <2> QED BY <1>1, <2>1, HandsStay
<1>3. ReactorTypeOK' /\ JobsFit'
  BY <1>1 DEF ConnectionInv, ReactorTypeOK, JobsFit, clientVars, epollVars
<1> QED BY <1>2, <1>3 DEF ConnectionInv

LEMMA StepKeepsConnections == ConnectionInv /\ [ReactorNext]_reactorVars => ConnectionInv'
<1> SUFFICES ASSUME ConnectionInv, [ReactorNext]_reactorVars PROVE ConnectionInv'
  OBVIOUS
<1>1. ASSUME NEW c \in Connections, Client(c) PROVE ConnectionInv'
  BY <1>1, ClientKeepsConnections
<1>2. CASE MainThread
  BY <1>2, EpollWaitKeepsConnections, AcceptKeepsConnections, AcceptFailsKeepsConnections,
     DispatchKeepsConnections, NotifyKeepsConnections DEF MainThread
<1>3. ASSUME NEW w \in Workers, Worker(w) PROVE ConnectionInv'
  BY <1>3, PlainStepsKeepConnections, ReceiveKeepsConnections, SendKeepsConnections,
     TakeKeepsConnections, RearmKeepsConnections, CloseKeepsConnections DEF Worker
<1>4. CASE ExpiryThread
  BY <1>4, ExpiryKeepsConnections
<1>5. CASE UNCHANGED reactorVars
  <2>1. UNCHANGED <<epollVars, job, expiry, link, gone, asked, taken, answered>>
    BY <1>5 DEF reactorVars, clientVars
  <2>2. job' \in [Workers -> Job] /\ \A w \in Workers : job'[w].fd = job[w].fd
    BY <2>1 DEF ConnectionInv, ReactorTypeOK
  <2>3. HandsInv'
    BY <2>1, <2>2, HandsStay
  <2>4. ReactorTypeOK' /\ JobsFit'
    BY <2>1 DEF ConnectionInv, ReactorTypeOK, JobsFit, epollVars
  <2> QED BY <2>3, <2>4 DEF ConnectionInv
<1> QED BY <1>1, <1>2, <1>3, <1>4, <1>5 DEF ReactorNext

LEMMA ConnectionsSafe == ReactorSpec => []ConnectionInv
BY ReactorInitConnections, StepKeepsConnections, PTL DEF ReactorSpec

\* The event loop, the queue and the workers stay within their types, whatever
\* clients do and whichever descriptors are reused.
THEOREM ReactorTyped == ReactorSpec => []ReactorTypeOK
<1>1. ConnectionInv => ReactorTypeOK
  BY DEF ConnectionInv
<1> QED BY ConnectionsSafe, <1>1, PTL

\* EPOLLONESHOT, the batch of the main thread, the queue and the workers hand
\* a connection from one to the next and no two of them ever have it together
\* (Server.cpp:139-215): no request is read by two workers.
THEOREM ConnectionsInOneHand == ReactorSpec => []OneHandAtATime
<1>1. ConnectionInv => OneHandAtATime
  BY DEF ConnectionInv, HandsInv
<1> QED BY ConnectionsSafe, <1>1, PTL

\* None of them drops a connection before it is closed, on the failure paths
\* too (Server.cpp:198-208): no descriptor leaks, and no client is ignored.
THEOREM ConnectionsAreKept == ReactorSpec => []NoneForgotten
<1>1. ConnectionInv => NoneForgotten
  BY DEF ConnectionInv, HandsInv
<1> QED BY ConnectionsSafe, <1>1, PTL

-----------------------------------------------------------------------------
(* Handlers that write run alone. *)

\* What _dataMutex keeps: handlers that run together are all read-only, and
\* none runs beside a pass of the expiry thread.
LockInv ==
  /\ \A v, w \in Running :
       v # w => IsReadOnly(job[v].request) /\ IsReadOnly(job[w].request)
  /\ expiry = "run" => Running = {}

\* isReadOnly lets no request through that writes.
LEMMA ReadersDoNotWrite == \A r \in Requests : IsReadOnly(r) => ~ Writes(r)
<1> SUFFICES ASSUME NEW r \in Requests, IsReadOnly(r), Writes(r) PROVE FALSE
  OBVIOUS
<1>1. r.operation \in Int
  BY ReactorAssumption
<1>2. CASE r.action = "merchantOperation"
  BY <1>1, <1>2 DEF IsReadOnly, Writes
<1>3. CASE r.action = "consumerOperation"
  BY <1>1, <1>3 DEF IsReadOnly, Writes
<1>4. CASE r.action = "cartOperation"
  BY <1>1, <1>4 DEF IsReadOnly, Writes
<1>5. CASE r.action = "orderOperation"
  BY <1>1, <1>5 DEF IsReadOnly, Writes
<1>6. CASE r.action = "register"
  BY <1>6 DEF IsReadOnly
<1> QED BY <1>2, <1>3, <1>4, <1>5, <1>6 DEF Writes

\* A step after which the same workers run the same requests, or fewer do.
LEMMA FewerRunners ==
  ASSUME LockInv, Running' \subseteq Running,
         \A v \in Running' : job'[v].request = job[v].request,
         expiry' = "run" => expiry = "run" \/ Running = {}
  PROVE  LockInv'
BY DEF LockInv, IsReadOnly

LEMMA StepKeepsLock ==
  ConnectionInv /\ LockInv /\ [ReactorNext]_reactorVars => LockInv'
<1> SUFFICES ASSUME ConnectionInv, LockInv, [ReactorNext]_reactorVars PROVE LockInv'
  OBVIOUS
<1> USE DEF Running
<1>1. CASE UNCHANGED <<job, expiry>>
  BY <1>1, FewerRunners
<1>2. ASSUME NEW c \in Connections, Client(c) PROVE LockInv'
  BY <1>1, <1>2 DEF Client, Connect, Ask, Leave
<1>3. CASE MainThread
  <2>1. CASE Notify
    <3>1. CASE job' = job
      BY <1>1, <2>1, <3>1 DEF Notify
    <3>2. ASSUME NEW w \in Asleep, job' = [job EXCEPT ![w] = Looking] PROVE LockInv'
      <4>1. \A v \in Workers : v # w => job'[v] = job[v]
        BY <3>2 DEF Asleep, ConnectionInv, ReactorTypeOK
      <4>2. job'[w].pc # "run"
        BY <3>2 DEF Asleep, ConnectionInv, ReactorTypeOK, Looking
      <4>3. expiry' = expiry
        BY <2>1 DEF Notify
      <4> QED BY <4>1, <4>2, <4>3, FewerRunners
    <3> QED BY <2>1, <3>1, <3>2 DEF Notify, Woken
  <2>2. CASE ~ Notify
    BY <1>1, <1>3, <2>2 DEF MainThread, EpollWait, Accept, AcceptFails, Dispatch
  <2> QED BY <2>1, <2>2
<1>4. ASSUME NEW w \in Workers, Worker(w) PROVE LockInv'
  <2>1. /\ expiry' = expiry /\ \A v \in Workers : v # w => job'[v] = job[v]
    BY <1>4 DEF Worker, Sleep, Take, Receive, ReceiveFails, Enter, Finish, Send, SendFails,
                Rearm, Close, Goes, ConnectionInv, ReactorTypeOK
  <2>2. CASE Enter(w)
    <3>1. /\ MayEnter(job[w].request) /\ w \notin Running
          /\ job'[w].request = job[w].request
      BY <2>2 DEF Enter, Goes, ConnectionInv, ReactorTypeOK
    <3>2. Running' \subseteq Running \cup {w}
      BY <2>1
    <3>3. \A v \in Running' : v # w => v \in Running /\ job'[v].request = job[v].request
      BY <2>1
    <3> QED BY <2>1, <3>1, <3>2, <3>3 DEF LockInv, MayEnter, IsReadOnly
  <2>3. CASE ~ Enter(w)
    <3>1. job'[w].pc # "run"
      <4>1. job \in [Workers -> Job]
        BY DEF ConnectionInv, ReactorTypeOK
      <4>2. CASE Receive(w)
        <5>1. PICK r : job'[w].pc = AfterReceipt(r)
          BY <4>1, <4>2 DEF Receive
        <5> QED BY <5>1 DEF AfterReceipt
      <4>3. CASE Take(w)
        BY <4>1, <4>3 DEF Take
      <4>4. CASE Sleep(w) \/ ReceiveFails(w) \/ SendFails(w) \/ Send(w)
        BY <4>1, <4>4 DEF Sleep, ReceiveFails, SendFails, Send, Goes, Job
      <4>5. CASE Finish(w)
        BY <4>1, <4>5 DEF Finish, Goes, Job
      <4>6. CASE Rearm(w) \/ Close(w)
        BY <4>1, <4>6 DEF Rearm, Close, Looking
      <4> QED BY <1>4, <2>3, <4>2, <4>3, <4>4, <4>5, <4>6 DEF Worker
    <3> QED BY <2>1, <3>1, FewerRunners
  <2> QED BY <2>2, <2>3
<1>5. CASE ExpiryThread
  <2>1. job' = job /\ (expiry' = "run" => Running = {})
    BY <1>5 DEF ExpiryThread
  <2> QED BY <2>1, FewerRunners
<1>6. CASE UNCHANGED reactorVars
  BY <1>1, <1>6 DEF reactorVars
<1> QED BY <1>2, <1>3, <1>4, <1>5, <1>6 DEF ReactorNext

\* A handler that writes runs while no other handler and no pass of the expiry
\* thread does: the table of isReadOnly is right, whatever requests are sent.
THEOREM WritersAlone == ReactorSpec => []WritesRunAlone
<1>1. ReactorInit => LockInv
  BY DEF ReactorInit, LockInv, Running, Looking
<1>2. ConnectionInv /\ LockInv => WritesRunAlone
  <2> SUFFICES ASSUME ConnectionInv, LockInv, NEW w \in Running, Writes(job[w].request)
               PROVE  Running = {w} /\ expiry # "run"
    BY DEF WritesRunAlone
  <2>1. job[w].request \in Requests
    BY JobFields DEF Running
  <2>2. ~ IsReadOnly(job[w].request)
    BY <2>1, ReadersDoNotWrite
  <2> QED BY <2>2 DEF LockInv
<1> QED BY ConnectionsSafe, StepKeepsLock, <1>1, <1>2, PTL DEF ReactorSpec

-----------------------------------------------------------------------------
(* Responses follow requests. *)

\* What is known of a connection while its requests are read and answered: the
\* responses are the first of the requests, and of those that were read at
\* most the last is unanswered, namely the one a worker has on its hands.
Answering(w) == job[w].pc \in {"lock", "run", "send"}

Answered(c) ==
  /\ Len(answered[c]) <= taken[c] /\ taken[c] <= Len(asked[c])
  /\ \A i \in 1..Len(answered[c]) : answered[c][i] = asked[c][i]

Untouched(c) == taken[c] = 0 /\ answered[c] = << >>

\* The worker that answers has read the last request that was read.
HasTheLast(w, c) ==
  /\ taken[c] = Len(answered[c]) + 1
  /\ job[w].request = asked[c][taken[c]]

\* Nobody has a request of descriptor f on his hands.
Quiet(f) == \A w \in Workers : job[w].fd = f => job[w].pc \in {"recv", "rearm"}

PeersInv ==
  /\ \A f \in Fds : peer[f] # None => link[peer[f]] = "open"
  /\ \A f, g \in Fds : peer[f] = peer[g] /\ peer[f] # None => f = g

FlowInv ==
  /\ \A c \in Connections : Answered(c)
  /\ \A c \in Connections : link[c] \in {"new", "pending"} => Untouched(c)
  /\ \A w \in Workers : Answering(w) => HasTheLast(w, peer[job[w].fd])
  /\ \A f \in Fds : peer[f] # None /\ Quiet(f) =>
       Len(answered[peer[f]]) = taken[peer[f]]

AnswersInv == PeersInv /\ FlowInv

LEMMA InitAnswers == ReactorInit => AnswersInv
<1> SUFFICES ASSUME ReactorInit PROVE AnswersInv
  OBVIOUS
<1>1. PeersInv
  BY DEF ReactorInit, PeersInv
<1>2. FlowInv
  BY DEF ReactorInit, FlowInv, Answered, Untouched, Answering, Looking
<1> QED BY <1>1, <1>2 DEF AnswersInv

\* A worker that serves a descriptor is the only one, and the descriptor is
\* open.
LEMMA ServedAlone ==
  ASSUME ConnectionInv, NEW w \in Workers, job[w].fd \in Fds
  PROVE  /\ \A v \in Workers : job[v].fd = job[w].fd => v = w
         /\ peer[job[w].fd] # None /\ peer[job[w].fd] \in Connections
<1>1. job[w].fd # None /\ job[w].fd \in Served
  BY ReactorAssumption DEF Served
<1> QED BY <1>1 DEF ConnectionInv, HandsInv, OneHandAtATime, HandsOpen, Hands, ReactorTypeOK

\* A step that reads and sends nothing: no worker starts to answer, and none
\* that did forgets it.
LEMMA SilentStep ==
  ASSUME AnswersInv, UNCHANGED <<link, asked, taken, answered, peer>>,
         \A w \in Workers : Answering(w)' =>
           /\ Answering(w)
           /\ job'[w].fd = job[w].fd /\ job'[w].request = job[w].request,
         \A w \in Workers : job[w].fd \in Fds =>
           \/ job[w].pc \in {"recv", "rearm"}
           \/ job'[w].fd = job[w].fd /\ job'[w].pc \notin {"recv", "rearm"}
  PROVE  AnswersInv'
<1>1. PeersInv'
  BY DEF AnswersInv, PeersInv
<1>2. \A f \in Fds : Quiet(f)' => Quiet(f)
  BY DEF Quiet
<1>3. \A c \in Connections : /\ Answered(c)' <=> Answered(c)
                             /\ Untouched(c)' <=> Untouched(c)
  BY DEF Answered, Untouched
<1>4. \A w \in Workers : Answering(w)' => HasTheLast(w, peer[job[w].fd])'
  <2> SUFFICES ASSUME NEW w \in Workers, Answering(w)'
               PROVE  HasTheLast(w, peer[job[w].fd])'
    OBVIOUS
  <2>1. HasTheLast(w, peer[job[w].fd])
    BY DEF AnswersInv, FlowInv
  <2> QED BY <2>1 DEF HasTheLast
<1>5. FlowInv'
  BY <1>2, <1>3, <1>4 DEF AnswersInv, FlowInv
<1> QED BY <1>1, <1>5 DEF AnswersInv

LEMMA ClientKeepsAnswers ==
  ASSUME ConnectionInv, AnswersInv, NEW c \in Connections, Client(c)
  PROVE  AnswersInv'
<1>1. UNCHANGED <<taken, answered, peer, job>>
  BY DEF Client, Connect, Leave, Ask, epollVars
<1>2. \A w \in Workers : Answering(w) => job[w].fd \in Fds
  BY JobFields DEF Answering
<1>3. CASE Leave(c)
  BY <1>1, <1>3, SilentStep DEF Leave, Answering, HasTheLast, AnswersInv, FlowInv,
     PeersInv, Answered, Untouched, Quiet
<1>4. CASE Connect(c)
  <2>1. /\ link[c] = "new" /\ asked' = asked
        /\ \A d \in Connections : link'[d] = IF d = c THEN "pending" ELSE link[d]
    BY <1>4 DEF Connect, ConnectionInv, ReactorTypeOK
  <2>2. \A f \in Fds : peer[f] # None => peer[f] \in Connections /\ peer[f] # c
    BY <2>1 DEF AnswersInv, PeersInv, ConnectionInv, ReactorTypeOK
  <2>3. PeersInv'
    BY <1>1, <2>1, <2>2 DEF AnswersInv, PeersInv
  <2>4. FlowInv'
    BY <1>1, <2>1 DEF AnswersInv, FlowInv, Answered, Untouched, Answering, HasTheLast, Quiet
  <2> QED BY <2>3, <2>4 DEF AnswersInv
<1>5. ASSUME NEW r \in Requests, Ask(c, r) PROVE AnswersInv'
  <2>1. link' = link /\ asked' = [asked EXCEPT ![c] = Append(@, r)]
    BY <1>5 DEF Ask
  <2>2. \A d \in Connections :
          /\ Len(asked[d]) \in Nat /\ Len(asked'[d]) \in Nat
          /\ Len(asked[d]) <= Len(asked'[d])
          /\ \A i \in 1..Len(asked[d]) : asked'[d][i] = asked[d][i]
          /\ taken[d] \in Nat /\ Len(answered[d]) \in Nat
    BY <2>1 DEF ConnectionInv, ReactorTypeOK
  <2>3. PeersInv'
    BY <1>1, <2>1 DEF AnswersInv, PeersInv
  <2>4. \A d \in Connections : Answered(d)'
    BY <1>1, <2>2 DEF AnswersInv, FlowInv, Answered
  <2>5. ASSUME NEW w \in Workers, Answering(w)'
        PROVE  HasTheLast(w, peer[job[w].fd])'
    <3> DEFINE d == peer[job[w].fd]
    <3>1. Answering(w) /\ d \in Connections
      BY <1>1, <1>2, <2>5, ServedAlone DEF Answering
    <3>2. HasTheLast(w, d) /\ Answered(d)
      BY <3>1 DEF AnswersInv, FlowInv
    <3>3. taken[d] \in 1..Len(asked[d])
      BY <2>2, <3>1, <3>2 DEF HasTheLast, Answered
    <3> QED BY <1>1, <2>2, <3>1, <3>2, <3>3 DEF HasTheLast
  <2>6. FlowInv'
    BY <1>1, <2>1, <2>4, <2>5 DEF AnswersInv, FlowInv, Untouched, Quiet
  <2> QED BY <2>3, <2>6 DEF AnswersInv
<1> QED BY <1>3, <1>4, <1>5 DEF Client

LEMMA AcceptKeepsAnswers ==
  ASSUME ConnectionInv, AnswersInv, NEW c \in Connections, NEW f \in Fds, Accept(c, f)
  PROVE  AnswersInv'
<1>1. /\ link[c] = "pending" /\ peer[f] = None /\ c # None
      /\ UNCHANGED <<asked, taken, answered, job>>
      /\ \A d \in Connections : link'[d] = IF d = c THEN "open" ELSE link[d]
      /\ \A g \in Fds : peer'[g] = IF g = f THEN c ELSE peer[g]
      /\ \A g \in Fds : peer[g] \in Connections \cup {None}
  BY ReactorAssumption DEF Accept, ConnectionInv, ReactorTypeOK
<1>2. \A g \in Fds : peer[g] # c
  BY <1>1 DEF AnswersInv, PeersInv
<1>3. PeersInv'
  BY <1>1, <1>2 DEF AnswersInv, PeersInv
<1>4. Len(answered[c]) = taken[c]
  BY <1>1 DEF AnswersInv, FlowInv, Untouched
<1>5. \A d \in Connections : Answered(d)'
  BY <1>1 DEF AnswersInv, FlowInv, Answered
<1>6. ASSUME NEW w \in Workers, Answering(w)'
      PROVE  HasTheLast(w, peer[job[w].fd])'
  <2>1. Answering(w)
    BY <1>1, <1>6 DEF Answering
  <2>2. job[w].fd \in Fds
    BY <2>1, JobFields DEF Answering
  <2>3. job[w].fd # f
    BY <1>1, <2>2, ServedAlone
  <2>4. HasTheLast(w, peer[job[w].fd])
    BY <2>1 DEF AnswersInv, FlowInv
  <2> QED BY <1>1, <2>2, <2>3, <2>4 DEF HasTheLast
<1>7. \A g \in Fds : Quiet(g)' => Quiet(g)
  BY <1>1 DEF Quiet
<1>8. FlowInv'
  BY <1>1, <1>4, <1>5, <1>6, <1>7 DEF AnswersInv, FlowInv, Untouched
<1> QED BY <1>3, <1>8 DEF AnswersInv

LEMMA MainThreadKeepsAnswers ==
  ASSUME ConnectionInv, AnswersInv, MainThread
  PROVE  AnswersInv'
<1>1. CASE EpollWait \/ AcceptFails \/ \E f \in Fds : Dispatch(f)
  <2>1. UNCHANGED <<link, asked, taken, answered, peer, job>>
    BY <1>1 DEF EpollWait, AcceptFails, Dispatch, clientVars
  <2> QED BY <2>1 DEF AnswersInv, PeersInv, FlowInv, Answered, Untouched, Answering,
                      HasTheLast, Quiet
<1>2. CASE Notify
  <2>1. UNCHANGED <<link, asked, taken, answered, peer>>
    BY <1>2 DEF Notify, clientVars
  <2>2. CASE job' = job
    BY <2>1, <2>2 DEF AnswersInv, PeersInv, FlowInv, Answered, Untouched, Answering,
                      HasTheLast, Quiet
  <2>3. ASSUME NEW w \in Asleep, job' = [job EXCEPT ![w] = Looking] PROVE AnswersInv'
    <3>1. /\ w \in Workers /\ job[w].fd = None
          /\ job'[w].pc = "look"
          /\ \A v \in Workers : v # w => job'[v] = job[v]
      BY <2>3 DEF Asleep, ConnectionInv, ReactorTypeOK, JobsFit, Looking
    <3>2. job[w].fd \notin Fds
      BY <3>1, ReactorAssumption
    <3>3. \A v \in Workers : Answering(v)' =>
            /\ Answering(v) /\ job'[v].fd = job[v].fd /\ job'[v].request = job[v].request
      BY <3>1 DEF Answering
    <3>4. \A v \in Workers : job[v].fd \in Fds =>
            \/ job[v].pc \in {"recv", "rearm"}
            \/ job'[v].fd = job[v].fd /\ job'[v].pc \notin {"recv", "rearm"}
      BY <3>1, <3>2
    <3> QED BY <2>1, <3>3, <3>4, SilentStep
  <2> QED BY <1>2, <2>2, <2>3 DEF Notify, Woken
<1> QED BY <1>1, <1>2, AcceptKeepsAnswers DEF MainThread

\* The steps of a worker that neither read, send nor close.
LEMMA SilentWorkerKeepsAnswers ==
  ASSUME ConnectionInv, AnswersInv, NEW w \in Workers,
         \/ Sleep(w) \/ Take(w) \/ ReceiveFails(w) \/ Enter(w) \/ Finish(w)
         \/ SendFails(w) \/ Rearm(w)
  PROVE  AnswersInv'
<1>1. UNCHANGED <<link, asked, taken, answered, peer>>
  BY DEF Sleep, Take, ReceiveFails, Enter, Finish, SendFails, Rearm, clientVars, epollVars
<1>2. /\ \A v \in Workers : v # w => job'[v] = job[v]
      /\ Answering(w)' => Answering(w) /\ job'[w].fd = job[w].fd
                                       /\ job'[w].request = job[w].request
      /\ \/ job[w].pc \in {"look", "recv", "rearm"}
         \/ job'[w].fd = job[w].fd /\ job'[w].pc \notin {"recv", "rearm"}
  BY JobFields DEF Sleep, Take, ReceiveFails, Enter, Finish, SendFails, Rearm, Goes,
     Answering, ConnectionInv, ReactorTypeOK, Job, Looking
<1>3. job[w].pc = "look" => job[w].fd \notin Fds
  BY ReactorAssumption DEF ConnectionInv, JobsFit
<1>4. \A v \in Workers : Answering(v)' =>
        /\ Answering(v) /\ job'[v].fd = job[v].fd /\ job'[v].request = job[v].request
  BY <1>2 DEF Answering
<1>5. \A v \in Workers : job[v].fd \in Fds =>
        \/ job[v].pc \in {"recv", "rearm"}
        \/ job'[v].fd = job[v].fd /\ job'[v].pc \notin {"recv", "rearm"}
  <2> SUFFICES ASSUME NEW v \in Workers, job[v].fd \in Fds,
                      job[v].pc \notin {"recv", "rearm"}
               PROVE  job'[v].fd = job[v].fd /\ job'[v].pc \notin {"recv", "rearm"}
    OBVIOUS
  <2> QED BY <1>2, <1>3
<1> QED BY <1>1, <1>4, <1>5, SilentStep

LEMMA ReceiveKeepsAnswers ==
  ASSUME ConnectionInv, AnswersInv, NEW w \in Workers, Receive(w)
  PROVE  AnswersInv'
<1> DEFINE f == job[w].fd
           c == peer[f]
           r == asked[c][taken[c] + 1]
<1>1. /\ job[w].pc = "recv" /\ f \in Fds /\ c \in Connections /\ c # None
      /\ taken[c] < Len(asked[c])
      /\ UNCHANGED <<link, asked, answered, peer>>
      /\ \A d \in Connections : taken'[d] = IF d = c THEN taken[c] + 1 ELSE taken[d]
      /\ \A v \in Workers : v # w => job'[v] = job[v]
      /\ job'[w].fd = f /\ job'[w].request = r /\ job'[w].pc # "recv" /\ job'[w].pc # "rearm"
  BY JobFields, ServedAlone
     DEF Receive, Unread, AfterReceipt, epollVars, ConnectionInv, ReactorTypeOK
<1>2. \A v \in Workers : job[v].fd = f => v = w
  BY <1>1, ServedAlone
<1>3. \A d \in Connections :
        taken[d] \in Nat /\ Len(answered[d]) \in Nat /\ Len(asked[d]) \in Nat
  BY DEF ConnectionInv, ReactorTypeOK
<1>4. Quiet(f)
  BY <1>1, <1>2 DEF Quiet
<1>5. Len(answered[c]) = taken[c]
  BY <1>1, <1>4 DEF AnswersInv, FlowInv
<1>6. link[c] = "open" /\ \A g \in Fds : g # f => peer[g] # c
  BY <1>1 DEF AnswersInv, PeersInv
<1>7. PeersInv'
  BY <1>1 DEF AnswersInv, PeersInv
<1>8. \A d \in Connections : Answered(d)'
  BY <1>1, <1>3 DEF AnswersInv, FlowInv, Answered
<1>9. \A d \in Connections : link'[d] \in {"new", "pending"} => Untouched(d)'
  BY <1>1, <1>6 DEF AnswersInv, FlowInv, Untouched
<1>10. ASSUME NEW v \in Workers, Answering(v)'
       PROVE  HasTheLast(v, peer[job[v].fd])'
  <2>1. CASE v = w
    BY <1>1, <1>5, <2>1 DEF HasTheLast
  <2>2. CASE v # w
    <3>1. Answering(v) /\ job'[v] = job[v]
      BY <1>1, <1>10, <2>2 DEF Answering
    <3>2. job[v].fd \in Fds /\ job[v].fd # f
      BY <1>2, <2>2, <3>1, JobFields DEF Answering
    <3>3. peer[job[v].fd] # c /\ peer[job[v].fd] \in Connections
      BY <1>6, <3>2, ServedAlone
    <3>4. HasTheLast(v, peer[job[v].fd])
      BY <3>1 DEF AnswersInv, FlowInv
    <3> QED BY <1>1, <3>1, <3>3, <3>4 DEF HasTheLast
  <2> QED BY <2>1, <2>2
<1>11. ASSUME NEW g \in Fds, peer'[g] # None, Quiet(g)'
       PROVE  Len(answered'[peer'[g]]) = taken'[peer'[g]]
  <2>1. g # f
    BY <1>1, <1>11 DEF Quiet
  <2>2. Quiet(g)
    BY <1>1, <1>11, <2>1 DEF Quiet
  <2>3. peer[g] # c /\ peer[g] \in Connections
    BY <1>1, <1>6, <1>11, <2>1 DEF ConnectionInv, ReactorTypeOK
  <2> QED BY <1>1, <1>11, <2>2, <2>3 DEF AnswersInv, FlowInv
<1>12. FlowInv'
  BY <1>8, <1>9, <1>10, <1>11 DEF FlowInv
<1> QED BY <1>7, <1>12 DEF AnswersInv

LEMMA SendKeepsAnswers ==
  ASSUME ConnectionInv, AnswersInv, NEW w \in Workers, Send(w)
  PROVE  AnswersInv'
<1> DEFINE f == job[w].fd
           c == peer[f]
<1>1. /\ job[w].pc = "send" /\ f \in Fds /\ c \in Connections
      /\ job[w].request \in Requests
      /\ UNCHANGED <<link, asked, taken, peer>>
      /\ answered' = [answered EXCEPT ![c] = Append(@, job[w].request)]
      /\ \A v \in Workers : v # w => job'[v] = job[v]
      /\ job'[w].fd = f /\ job'[w].pc = "rearm"
  BY JobFields, ServedAlone DEF Send, Goes, epollVars, ConnectionInv, ReactorTypeOK, Job
<1>2. \A d \in Connections :
        /\ taken[d] \in Nat /\ Len(answered[d]) \in Nat /\ Len(asked[d]) \in Nat
        /\ answered[d] \in Seq(Requests)
  BY DEF ConnectionInv, ReactorTypeOK
<1>3. /\ Len(answered'[c]) = Len(answered[c]) + 1
      /\ \A i \in 1..Len(answered[c]) : answered'[c][i] = answered[c][i]
      /\ answered'[c][Len(answered[c]) + 1] = job[w].request
      /\ \A d \in Connections : d # c => answered'[d] = answered[d]
  BY <1>1, <1>2 DEF ConnectionInv, ReactorTypeOK
<1>4. HasTheLast(w, c) /\ Answered(c)
  BY <1>1 DEF AnswersInv, FlowInv, Answering
<1>5. link[c] = "open" /\ \A g \in Fds : g # f => peer[g] # c
  BY <1>1, ReactorAssumption DEF AnswersInv, PeersInv
<1>6. PeersInv'
  BY <1>1 DEF AnswersInv, PeersInv
<1>7. \A d \in Connections : d = c => Answered(d)'
  <2>1. \A i \in 1..(Len(answered[c]) + 1) : i \in 1..Len(answered[c]) \/ i = taken[c]
    BY <1>1, <1>2, <1>4 DEF HasTheLast
  <2>2. \A i \in 1..Len(answered'[c]) : answered'[c][i] = asked[c][i]
    BY <1>1, <1>2, <1>3, <1>4, <2>1 DEF HasTheLast, Answered
  <2>3. Len(answered'[c]) = taken[c] /\ taken[c] <= Len(asked[c])
    <3>1. taken[c] = Len(answered[c]) + 1 /\ taken[c] <= Len(asked[c])
      BY <1>4 DEF HasTheLast, Answered
    <3> QED BY <1>3, <3>1
  <2> QED BY SMTT(60), <1>1, <1>2, <2>2, <2>3 DEF Answered
<1>8. \A d \in Connections : Answered(d)'
  <2> SUFFICES ASSUME NEW d \in Connections, d # c PROVE Answered(d)'
    BY <1>7
  <2>1. answered'[d] = answered[d] /\ Answered(d)
    BY <1>3 DEF AnswersInv, FlowInv
  <2> QED BY <1>1, <2>1 DEF Answered
<1>9. \A d \in Connections : link'[d] \in {"new", "pending"} => Untouched(d)'
  BY <1>1, <1>3, <1>5 DEF AnswersInv, FlowInv, Untouched
<1>10. ASSUME NEW v \in Workers, Answering(v)'
       PROVE  HasTheLast(v, peer[job[v].fd])'
  <2>1. v # w
    BY <1>1, <1>10 DEF Answering
  <2>2. Answering(v) /\ job'[v] = job[v]
    BY <1>1, <1>10, <2>1 DEF Answering
  <2>3. job[v].fd \in Fds /\ job[v].fd # f
    BY <1>1, <2>1, <2>2, JobFields, ServedAlone DEF Answering
  <2>4. peer[job[v].fd] # c /\ peer[job[v].fd] \in Connections
    BY <1>5, <2>3, ServedAlone
  <2>5. HasTheLast(v, peer[job[v].fd])
    BY <2>2 DEF AnswersInv, FlowInv
  <2> QED BY <1>1, <1>3, <2>2, <2>4, <2>5 DEF HasTheLast
<1>11. ASSUME NEW g \in Fds, peer'[g] # None, Quiet(g)'
       PROVE  Len(answered'[peer'[g]]) = taken'[peer'[g]]
  <2>1. CASE g = f
    BY <1>1, <1>3, <1>4, <2>1 DEF HasTheLast
  <2>2. CASE g # f
    <3>1. Quiet(g)
      BY <1>1, <1>11, <2>2 DEF Quiet
    <3>2. peer[g] # c /\ peer[g] \in Connections
      BY <1>1, <1>5, <1>11, <2>2 DEF ConnectionInv, ReactorTypeOK
    <3> QED BY <1>1, <1>3, <1>11, <3>1, <3>2 DEF AnswersInv, FlowInv
  <2> QED BY <2>1, <2>2
<1>12. FlowInv'
  BY <1>8, <1>9, <1>10, <1>11 DEF FlowInv
<1> QED BY <1>6, <1>12 DEF AnswersInv

LEMMA CloseKeepsAnswers ==
  ASSUME ConnectionInv, AnswersInv, NEW w \in Workers, Close(w)
  PROVE  AnswersInv'
<1> DEFINE f == job[w].fd
           c == peer[f]
<1>1. /\ job[w].pc = "close" /\ f \in Fds /\ c \in Connections
      /\ UNCHANGED <<asked, taken, answered>>
      /\ \A d \in Connections : link'[d] = IF d = c THEN "closed" ELSE link[d]
      /\ \A g \in Fds : peer'[g] = IF g = f THEN None ELSE peer[g]
      /\ \A v \in Workers : v # w => job'[v] = job[v]
      /\ job'[w] = Looking
  BY JobFields, ServedAlone DEF Close, ConnectionInv, ReactorTypeOK
<1>2. \A v \in Workers : job[v].fd = f => v = w
  BY <1>1, ServedAlone
<1>3. \A g \in Fds : g # f => peer[g] # c
  BY <1>1, ReactorAssumption DEF AnswersInv, PeersInv
<1>4. PeersInv'
  BY <1>1, <1>3 DEF AnswersInv, PeersInv, ConnectionInv, ReactorTypeOK
<1>5. \A d \in Connections : Answered(d)'
  BY <1>1 DEF AnswersInv, FlowInv, Answered
<1>6. \A d \in Connections : link'[d] \in {"new", "pending"} => Untouched(d)'
  BY <1>1 DEF AnswersInv, FlowInv, Untouched
<1>7. ASSUME NEW v \in Workers, Answering(v)'
      PROVE  HasTheLast(v, peer[job[v].fd])'
  <2>1. v # w
    BY <1>1, <1>7 DEF Answering, Looking
  <2>2. Answering(v) /\ job'[v] = job[v]
    BY <1>1, <1>7, <2>1 DEF Answering
  <2>3. job[v].fd \in Fds /\ job[v].fd # f
    BY <1>2, <2>1, <2>2, JobFields DEF Answering
  <2>4. HasTheLast(v, peer[job[v].fd])
    BY <2>2 DEF AnswersInv, FlowInv
  <2> QED BY SMTT(60), <1>1, <2>2, <2>3, <2>4 DEF HasTheLast
<1>8. ASSUME NEW g \in Fds, peer'[g] # None, Quiet(g)'
      PROVE  Len(answered'[peer'[g]]) = taken'[peer'[g]]
  <2>1. g # f
    BY <1>1, <1>8
  <2>2. Quiet(g)
    BY <1>1, <1>8, <2>1 DEF Quiet
  <2> QED BY <1>1, <1>8, <2>1, <2>2 DEF AnswersInv, FlowInv
<1>9. FlowInv'
  BY <1>5, <1>6, <1>7, <1>8 DEF FlowInv
<1> QED BY <1>4, <1>9 DEF AnswersInv

LEMMA StepKeepsAnswers ==
  ConnectionInv /\ AnswersInv /\ [ReactorNext]_reactorVars => AnswersInv'
<1> SUFFICES ASSUME ConnectionInv, AnswersInv, [ReactorNext]_reactorVars PROVE AnswersInv'
  OBVIOUS
<1>1. ASSUME NEW c \in Connections, Client(c) PROVE AnswersInv'
  BY <1>1, ClientKeepsAnswers
<1>2. CASE MainThread
  BY <1>2, MainThreadKeepsAnswers
<1>3. ASSUME NEW w \in Workers, Worker(w) PROVE AnswersInv'
  BY <1>3, SilentWorkerKeepsAnswers, ReceiveKeepsAnswers, SendKeepsAnswers,
     CloseKeepsAnswers DEF Worker
<1>4. CASE UNCHANGED <<link, asked, taken, answered, peer, job>>
  BY <1>4 DEF AnswersInv, PeersInv, FlowInv, Answered, Untouched, Answering, HasTheLast,
              Quiet
<1>5. CASE ExpiryThread \/ UNCHANGED reactorVars
  BY <1>4, <1>5 DEF ExpiryThread, reactorVars, clientVars, epollVars
<1> QED BY <1>1, <1>2, <1>3, <1>5 DEF ReactorNext

\* Over each connection come the responses to its own requests, in order, also
\* when the client gives up while its request is being served and the
\* descriptor is given to another.
THEOREM AnswersInOrder == ReactorSpec => []AnswersFollowRequests
<1>1. ConnectionInv /\ AnswersInv => AnswersFollowRequests
  <2> SUFFICES ASSUME ConnectionInv, AnswersInv, NEW c \in Connections
               PROVE  IsPrefix(answered[c], asked[c])
    BY DEF AnswersFollowRequests
  <2>1. answered[c] \in Seq(Requests) /\ asked[c] \in Seq(Requests) /\ taken[c] \in Nat
    BY DEF ConnectionInv, ReactorTypeOK
  <2>2. /\ Len(answered[c]) <= Len(asked[c])
        /\ \A i \in 1..Len(answered[c]) : answered[c][i] = asked[c][i]
    BY <2>1 DEF AnswersInv, FlowInv, Answered
  <2> QED BY <2>1, <2>2 DEF IsPrefix
<1> QED BY ConnectionsSafe, InitAnswers, StepKeepsAnswers, <1>1, PTL DEF ReactorSpec

=============================================================================
