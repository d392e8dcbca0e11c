------------------------------ MODULE Reactor -------------------------------
(***************************************************************************)
(* How requests reach the handlers: the epoll loop, the task queue, the    *)
(* thread pool, _dataMutex and the expiry thread of src/src/Server.cpp,    *)
(* with the clients and the kernel's side of their connections.            *)
(*                                                                         *)
(* What a handler does is the business of Accounts, Catalog and Shop; here *)
(* it is the state "run" of the thread that runs it.  Those modules make   *)
(* one action of a handler, which is right because of WritesRunAlone.      *)
(***************************************************************************)
EXTENDS Integers, SequencesExt

CONSTANTS
  Connections, \* the TCP connections that are ever made
  Fds,         \* bound: the descriptors the server can have open for clients
  Workers,     \* the thread pool
  Requests,    \* the requests clients send
  MaxRequests, \* bound: the requests made, over all connections
  Listener,    \* _serverFd
  None         \* no connection, no descriptor, no request

Actions ==
  {"login", "register", "searchCommodities", "cartOperation", "orderOperation",
   "merchantOperation", "consumerOperation"}

ASSUME ReactorAssumption ==
  /\ Requests \subseteq [action : STRING, operation : Int,
                         form : {"complete", "incomplete", "broken"}]
  /\ MaxRequests \in Nat
  /\ Listener \notin Fds
  /\ None \notin Fds /\ None \notin Connections /\ None \notin Requests

VARIABLES
  link,      \* connection -> "new", "pending", "open" or "closed", for the server
  gone,      \* the connections their client has closed
  asked,     \* connection -> the requests sent over it
  taken,     \* connection -> how many of them the server has read
  answered,  \* connection -> the requests whose responses were sent over it
  peer,      \* descriptor -> the connection it stands for, or None
  armed,     \* the descriptors epoll will report
  events,    \* what epoll_wait has returned and runEpoll has not looked at yet
  tasks,     \* _tasks
  notifying, \* a task has been queued and notify_one is still to come
  job,       \* worker -> where it is, on which descriptor, with which request
  expiry     \* where the expiry thread is

clientVars == <<link, gone, asked, taken, answered>>
epollVars == <<peer, armed, events, tasks, notifying>>
reactorVars == <<clientVars, epollVars, job, expiry>>

Job ==
  [pc : {"look", "asleep", "recv", "lock", "run", "send", "rearm", "close"},
   fd : Fds \cup {None}, request : Requests \cup {None}]

Looking == [pc |-> "look", fd |-> None, request |-> None]

ReactorTypeOK ==
  /\ link \in [Connections -> {"new", "pending", "open", "closed"}]
  /\ gone \subseteq Connections
  /\ asked \in [Connections -> Seq(Requests)]
  /\ taken \in [Connections -> Nat]
  /\ answered \in [Connections -> Seq(Requests)]
  /\ peer \in [Fds -> Connections \cup {None}]
  /\ armed \subseteq Fds
  /\ events \subseteq Fds \cup {Listener}
  /\ tasks \in Seq(Fds)
  /\ notifying \in BOOLEAN
  /\ job \in [Workers -> Job]
  /\ expiry \in {"sleep", "lock", "run"}

ReactorInit ==
  /\ link = [c \in Connections |-> "new"]
  /\ gone = {}
  /\ asked = [c \in Connections |-> << >>]
  /\ taken = [c \in Connections |-> 0]
  /\ answered = [c \in Connections |-> << >>]
  /\ peer = [f \in Fds |-> None]
  /\ armed = {}
  /\ events = {}
  /\ tasks = << >>
  /\ notifying = FALSE
  /\ job = [w \in Workers |-> Looking]
  /\ expiry = "sleep"

-----------------------------------------------------------------------------
(* What the server knows of a request. *)

IsReadOnlyByAction(r) == \* mutant: the operation is not looked at for carts
  r.action \in {"searchCommodities", "login", "cartOperation"}

IsReadOnly(r) ==
  \/ r.action \in {"searchCommodities", "login"}
  \/ r.action = "merchantOperation" /\ r.operation \in {1, 40}
  \/ r.action = "consumerOperation" /\ r.operation \in {1, 3, 4}
  \/ r.action = "cartOperation" /\ r.operation = 1
  \/ r.action = "orderOperation" /\ r.operation = 0

\* The requests whose handlers write a row or change an object.  The
\* operations 6 and 7 of a consumer are handed on with the same number, which
\* names nothing there.
Writes(r) ==
  \/ r.action = "register"
  \/ r.action = "merchantOperation" /\ r.operation \in {2, 3, 5} \cup (41..44)
  \/ r.action = "consumerOperation" /\ r.operation \in {2, 5}
  \/ r.action = "cartOperation" /\ r.operation \in 2..5
  \/ r.action = "orderOperation" /\ r.operation \in {1, 2}

Running == {w \in Workers : job[w].pc = "run"}

\* shared_lock for a request that is read-only, unique_lock for the others.
MayEnter(r) ==
  /\ expiry # "run"
  /\ \A w \in Running : IsReadOnly(r) /\ IsReadOnly(job[w].request)

-----------------------------------------------------------------------------
(* The clients: sendRequest sends one request and waits for its response; it *)
(* closes the socket when that takes too long, and a client may just end.    *)

Connect(c) ==
  /\ link[c] = "new"
  /\ link' = [link EXCEPT ![c] = "pending"]
  /\ UNCHANGED <<gone, asked, taken, answered, epollVars, job, expiry>>

AtServer(c) == link[c] \in {"pending", "open"}

SumOfAsked == MapThenSumSet(LAMBDA c : Len(asked[c]), Connections)

Ask(c, r) ==
  /\ AtServer(c) /\ c \notin gone
  /\ Len(asked[c]) = Len(answered[c])
  /\ SumOfAsked < MaxRequests
  /\ asked' = [asked EXCEPT ![c] = Append(@, r)]
  /\ UNCHANGED <<link, gone, taken, answered, epollVars, job, expiry>>

Leave(c) ==
  /\ AtServer(c) /\ c \notin gone
  /\ gone' = gone \cup {c}
  /\ UNCHANGED <<link, asked, taken, answered, epollVars, job, expiry>>

Client(c) == Connect(c) \/ Leave(c) \/ \E r \in Requests : Ask(c, r)

-----------------------------------------------------------------------------
(* runEpoll, on the main thread. *)

Unread(c) == taken[c] < Len(asked[c])

Readable(f) == peer[f] # None /\ (Unread(peer[f]) \/ peer[f] \in gone)

Ready ==
  {f \in armed : Readable(f)} \cup
  (IF \E c \in Connections : link[c] = "pending" THEN {Listener} ELSE {})

StillArmed(S) == armed \* mutant: EPOLLIN without EPOLLONESHOT

\* What EPOLLONESHOT leaves armed of the descriptors reported.
Disarmed(S) == armed \ S

EpollWait ==
  /\ ~ notifying /\ events = {} /\ Ready # {}
  /\ events' = Ready
  /\ armed' = Disarmed(Ready)
  /\ UNCHANGED <<clientVars, peer, tasks, notifying, job, expiry>>

Accept(c, f) ==
  /\ ~ notifying /\ Listener \in events
  /\ link[c] = "pending" /\ peer[f] = None
  /\ link' = [link EXCEPT ![c] = "open"]
  /\ peer' = [peer EXCEPT ![f] = c]
  /\ armed' = armed \cup {f}
  /\ events' = events \ {Listener}
  /\ UNCHANGED <<gone, asked, taken, answered, tasks, notifying, job, expiry>>

\* accept fails, for want of a descriptor or of memory: the loop goes on.
AcceptFails ==
  /\ ~ notifying /\ Listener \in events
  /\ events' = events \ {Listener}
  /\ UNCHANGED <<clientVars, peer, armed, tasks, notifying, job, expiry>>

Dispatch(f) ==
  /\ ~ notifying /\ f \in events \ {Listener}
  /\ events' = events \ {f}
  /\ tasks' = Append(tasks, f)
  /\ notifying' = TRUE
  /\ UNCHANGED <<clientVars, peer, armed, job, expiry>>

Asleep == {w \in Workers : job[w].pc = "asleep"}

\* notify_one wakes one of the workers that sleep, if any does.
Woken ==
  IF Asleep = {} THEN {job} ELSE {[job EXCEPT ![w] = Looking] : w \in Asleep}

Notify ==
  /\ notifying
  /\ notifying' = FALSE
  /\ job' \in Woken
  /\ UNCHANGED <<clientVars, peer, armed, events, tasks, expiry>>

MainThread ==
  \/ EpollWait
  \/ \E c \in Connections, f \in Fds : Accept(c, f)
  \/ AcceptFails
  \/ \E f \in Fds : Dispatch(f)
  \/ Notify

-----------------------------------------------------------------------------
(* The workers. *)

Goes(w, pc) == job' = [job EXCEPT ![w].pc = pc]

\* The wait's predicate is evaluated under _queueMutex.
Sleep(w) ==
  /\ job[w].pc = "look" /\ tasks = << >>
  /\ Goes(w, "asleep")
  /\ UNCHANGED <<clientVars, epollVars, expiry>>

Take(w) ==
  /\ job[w].pc = "look" /\ tasks # << >>
  /\ job' = [job EXCEPT ![w] = [pc |-> "recv", fd |-> Head(tasks), request |-> None]]
  /\ tasks' = Tail(tasks)
  /\ UNCHANGED <<clientVars, peer, armed, events, notifying, expiry>>

\* What comes after recvJson and the look-up of the action.  An unknown action
\* is answered without the lock.
AfterReceipt(r) ==
  IF r.form = "broken" THEN "close" ELSE IF r.action \in Actions THEN "lock" ELSE "send"

Receive(w) ==
  LET f == job[w].fd
      c == peer[f]
      r == asked[c][taken[c] + 1]
  IN  /\ job[w].pc = "recv" /\ c # None
      /\ Unread(c)
      /\ taken' = [taken EXCEPT ![c] = @ + 1]
      /\ job' = [job EXCEPT ![w] = [pc |-> AfterReceipt(r), fd |-> f, request |-> r]]
      /\ UNCHANGED <<link, gone, asked, answered, epollVars, expiry>>

\* The client has closed its end, or the descriptor is not open.
ReceiveFails(w) ==
  LET c == peer[job[w].fd]
  IN  /\ job[w].pc = "recv"
      /\ c # None => c \in gone /\ ~ Unread(c)
      /\ Goes(w, "close")
      /\ UNCHANGED <<clientVars, epollVars, expiry>>

Enter(w) ==
  /\ job[w].pc = "lock"
  /\ MayEnter(job[w].request)
  /\ Goes(w, "run")
  /\ UNCHANGED <<clientVars, epollVars, expiry>>

\* The handler returns, or throws when a field is missing; the lock is
\* released either way.
Finish(w) ==
  /\ job[w].pc = "run"
  /\ Goes(w, IF job[w].request.form = "complete" THEN "send" ELSE "close")
  /\ UNCHANGED <<clientVars, epollVars, expiry>>

Send(w) ==
  LET c == peer[job[w].fd]
  IN  /\ job[w].pc = "send" /\ c # None
      /\ answered' = [answered EXCEPT ![c] = Append(@, job[w].request)]
      /\ Goes(w, "rearm")
      /\ UNCHANGED <<link, gone, asked, taken, epollVars, expiry>>

SendFails(w) ==
  LET c == peer[job[w].fd]
  IN  /\ job[w].pc = "send"
      /\ c # None => c \in gone
      /\ Goes(w, "close")
      /\ UNCHANGED <<clientVars, epollVars, expiry>>

NotRearmed(f) == armed \* mutant: no EPOLL_CTL_MOD

Rearmed(f) == armed \cup {f}

Rearm(w) ==
  /\ job[w].pc = "rearm"
  /\ armed' = Rearmed(job[w].fd)
  /\ job' = [job EXCEPT ![w] = Looking]
  /\ UNCHANGED <<clientVars, peer, events, tasks, notifying, expiry>>

\* close(clientFd), which also takes the descriptor out of epoll.
Close(w) ==
  LET f == job[w].fd
      c == peer[f]
  IN  /\ job[w].pc = "close"
      /\ link' = [d \in Connections |-> IF d = c THEN "closed" ELSE link[d]]
      /\ peer' = [peer EXCEPT ![f] = None]
      /\ armed' = armed \ {f}
      /\ job' = [job EXCEPT ![w] = Looking]
      /\ UNCHANGED <<gone, asked, taken, answered, events, tasks, notifying, expiry>>

Worker(w) ==
  \/ Sleep(w) \/ Take(w) \/ Receive(w) \/ ReceiveFails(w) \/ Enter(w)
  \/ Finish(w) \/ Send(w) \/ SendFails(w) \/ Rearm(w) \/ Close(w)

-----------------------------------------------------------------------------
(* expiryCheckLoop. *)

ExpiryThread ==
  /\ \/ expiry = "sleep" /\ expiry' = "lock"
     \/ expiry = "lock" /\ Running = {} /\ expiry' = "run"
     \/ expiry = "run" /\ expiry' = "sleep"
  /\ UNCHANGED <<clientVars, epollVars, job>>

ReactorNext ==
  \/ \E c \in Connections : Client(c)
  \/ MainThread
  \/ \E w \in Workers : Worker(w)
  \/ ExpiryThread

ReactorSpec == ReactorInit /\ [][ReactorNext]_reactorVars

\* Threads that can run do.  A thread that waits for _dataMutex gets it if
\* it is free again and again: the handlers and the passes of the expiry
\* thread are short, and the latter are a minute apart.  accept does not fail
\* for ever while there are descriptors.
FairReactorSpec ==
  /\ ReactorSpec
  /\ WF_reactorVars(MainThread)
  /\ SF_reactorVars(\E c \in Connections, f \in Fds : Accept(c, f))
  /\ WF_reactorVars(ExpiryThread /\ expiry = "run")
  /\ \A w \in Workers : WF_reactorVars(Worker(w)) /\ SF_reactorVars(Enter(w))

-----------------------------------------------------------------------------
(* Correctness. *)

\* A handler that writes runs while nothing else does: isReadOnly, which looks
\* at the action and the number of the operation, agrees with what the
\* handlers and those they hand on to do.
WritesRunAlone ==
  \A w \in Running : Writes(job[w].request) => Running = {w} /\ expiry # "run"

Queued == {tasks[i] : i \in DOMAIN tasks}

Served == {job[w].fd : w \in Workers} \ {None}

\* A connection is in the hands of one thread at a time: it waits in epoll, or
\* in the batch of the main thread, or in the queue, or in one worker, and in
\* no two of them (EPOLLONESHOT, Server.cpp:164 and 202).
OneHandAtATime ==
  /\ armed \cap (events \cup Queued \cup Served) = {}
  /\ events \cap (Queued \cup Served) = {}
  /\ Queued \cap Served = {}
  /\ \A i, j \in DOMAIN tasks : tasks[i] = tasks[j] => i = j
  /\ \A v, w \in Workers : job[v].fd = job[w].fd /\ job[v].fd # None => v = w

\* No connection that has been accepted is forgotten: until it is closed it is
\* in one of those places.
NoneForgotten ==
  \A f \in Fds : peer[f] # None => f \in armed \cup events \cup Queued \cup Served

\* Over each connection come the responses to its own requests, in order, also
\* when the client gives up while its request is being served and the
\* descriptor is given to another.
AnswersFollowRequests ==
  \A c \in Connections : IsPrefix(answered[c], asked[c])

Waits(c) == Len(answered[c]) < Len(asked[c])

\* Every request is answered, the later ones of a connection too, unless the
\* connection ends: a worker that has answered arms the descriptor again
\* (Server.cpp:200-204).
RequestsAnswered ==
  \A c \in Connections :
    Waits(c) ~> ~ Waits(c) \/ link[c] = "closed" \/ c \in gone

=============================================================================
