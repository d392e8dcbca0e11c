------------------------------- MODULE Framing -------------------------------
(***************************************************************************)
(* Messages over a stream of bytes (src/include/Protocol.h): sendJson and  *)
(* recvJson with the loops of sendAll and recvAll, as sendRequest of the   *)
(* client and the task of a worker use them.  A send or recv moves any     *)
(* part of the bytes that are left, waits when the kernel's buffer is full *)
(* or empty, and may fail at any time.  A text is a sequence of bytes; the *)
(* texts that json::parse accepts are the set Texts.                       *)
(***************************************************************************)
EXTENDS SequencesExt, Integers

CONSTANTS
  Connections,
  Requests,
  Replies,
  Texts,          \* what json::parse accepts
  Base,           \* the values of a byte, 256 in the code
  MaxMessageSize, \* MAX_MESSAGE_SIZE, 2^20 in the code
  Capacity,       \* the bytes the kernel keeps of one direction of a connection
  MaxRequests,    \* bound: the requests made over all connections
  None

Byte == 0..Base - 1

\* A text that dump makes is never empty.  Messages are JSON objects, and a
\* proper beginning of the text of an object is not JSON.
ASSUME FramingAssumption ==
  /\ Base \in Nat \ {0, 1}
  /\ {MaxMessageSize, MaxRequests} \subseteq Nat
  /\ Capacity \in Nat \ {0}
  /\ None \notin Connections
  /\ Requests \cup Replies \subseteq Seq(Byte) \ {<< >>}
  /\ \A m \in Requests \cup Replies : \A n \in 1..Len(m) - 1 : SubSeq(m, 1, n) \notin Texts

VARIABLES
  socket, \* _sock, None for -1
  client, \* where sendRequest is
  server, \* connection -> where the worker that serves it is
  up,     \* connection -> the bytes on their way to the server
  down,   \* connection -> the bytes on their way to the client
  asked,  \* history: connection -> the requests the client has made over it
  heard,  \* history: connection -> the requests handed to the handlers
  said,   \* history: connection -> the responses they made
  told    \* history: connection -> the responses sendRequest has returned

wires == <<up, down>>
history == <<asked, heard, said, told>>
framingVars == <<socket, client, server, wires, history>>

-----------------------------------------------------------------------------
(* One end of a connection. *)

Sends == {"sendLength", "sendBody"}
Recvs == {"recvLength", "recvBody"}

\* left: what sendAll has still to send; next: what the second sendAll of
\* sendJson sends; got and size: what recvAll has received, and its len.
End ==
  [at : {"idle", "run", "closed"} \cup Sends \cup Recvs,
   left : Seq(Byte), next : Seq(Byte), got : Seq(Byte), size : Nat]

Sender(at, left, next) == [at |-> at, left |-> left, next |-> next, got |-> << >>, size |-> 0]

Receiver(at, got, size) == [at |-> at, left |-> << >>, next |-> << >>, got |-> got, size |-> size]

Resting(at) == Sender(at, << >>, << >>)

\* htonl(static_cast<uint32_t>(n)), byte by byte
Prefix(n) ==
  LET n1 == n \div Base
      n2 == n1 \div Base
      n3 == n2 \div Base
  IN  <<n3 % Base, n2 % Base, n1 % Base, n % Base>>

\* ntohl
Number(b) == ((b[1] * Base + b[2]) * Base + b[3]) * Base + b[4]

\* The beginning of sendJson and of recvJson.
Sending(text) == Sender("sendLength", Prefix(Len(text)), text)

Receiving == Receiver("recvLength", << >>, 4)

\* After a send of k bytes; done is where the end of sendJson leads to.
AfterSend(s, k, done) ==
  LET rest == SubSeq(s.left, k + 1, Len(s.left))
  IN  CASE rest # << >> -> Sender(s.at, rest, s.next)
        [] rest = << >> /\ s.at = "sendLength" -> Sender("sendBody", s.next, << >>)
        [] OTHER -> done

LimitOff(got) == Number(got) \in 1..MaxMessageSize + 1 \* mutant: one byte too many is allowed

\* The length is looked at before a buffer of that size is made.
ValidLength(got) == Number(got) \in 1..MaxMessageSize

\* After a recv of some bytes; done is where the end of recvJson leads to, and
\* "closed" stands for an exception.
AfterRecv(s, bytes, done) ==
  LET got == s.got \o bytes
  IN  CASE Len(got) < s.size -> Receiver(s.at, got, s.size)
        [] Len(got) >= s.size /\ s.at = "recvLength" ->
             IF ValidLength(got)
             THEN Receiver("recvBody", << >>, Number(got))
             ELSE Resting("closed")
        [] OTHER -> IF got \in Texts THEN done ELSE Resting("closed")

\* How many bytes a send and a recv may move.
Room(s, wire) == 1..Min({Len(s.left), Capacity - Len(wire)})
Available(s, wire) == 1..Min({s.size - Len(s.got), Len(wire)})

Unread(wire, k) == SubSeq(wire, k + 1, Len(wire))

-----------------------------------------------------------------------------
FramingTypeOK ==
  /\ socket \in Connections \cup {None}
  /\ client \in End
  /\ server \in [Connections -> End]
  /\ {up, down} \subseteq [Connections -> Seq(Byte)]
  /\ {asked, heard} \subseteq [Connections -> Seq(Requests)]
  /\ {said, told} \subseteq [Connections -> Seq(Replies)]

FramingInit ==
  /\ socket = None
  /\ client = Resting("idle")
  /\ server = [c \in Connections |-> Resting("idle")]
  /\ up = [c \in Connections |-> << >>]
  /\ down = [c \in Connections |-> << >>]
  /\ asked = [c \in Connections |-> << >>]
  /\ heard = [c \in Connections |-> << >>]
  /\ said = [c \in Connections |-> << >>]
  /\ told = [c \in Connections |-> << >>]

-----------------------------------------------------------------------------
(* The client. *)

Made == UNION {{c} \X DOMAIN asked[c] : c \in Connections}

\* sendRequest connects when it has no socket, and begins to send.
Call(c, r) ==
  /\ client.at = "idle"
  /\ socket = c \/ (socket = None /\ asked[c] = << >>)
  /\ Cardinality(Made) < MaxRequests
  /\ socket' = c
  /\ client' = Sending(r)
  /\ asked' = [asked EXCEPT ![c] = Append(@, r)]
  /\ UNCHANGED <<server, wires, heard, said, told>>

\* What is sent to an end that is closed is lost.
ClientSends(c) ==
  /\ socket = c /\ client.at \in Sends
  /\ \E k \in Room(client, up[c]) :
       /\ up' = IF server[c].at = "closed" THEN up
                ELSE [up EXCEPT ![c] = @ \o SubSeq(client.left, 1, k)]
       /\ client' = AfterSend(client, k, Receiving)
  /\ UNCHANGED <<socket, server, down, history>>

KeptOpen(c, at) == c \* mutant: the socket is used again after an exception

\* When sendRequest throws it has closed the socket.
Thrown(c, at) == IF at = "closed" THEN None ELSE c

ClientReceives(c) ==
  /\ socket = c /\ client.at \in Recvs
  /\ \E k \in Available(client, down[c]) :
       LET after == AfterRecv(client, SubSeq(down[c], 1, k), Resting("idle"))
       IN  /\ client' = IF after.at = "closed" THEN Resting("idle") ELSE after
           /\ socket' = Thrown(c, after.at)
           /\ told' = IF after.at = "idle"
                      THEN [told EXCEPT ![c] = Append(@, client.got \o SubSeq(down[c], 1, k))]
                      ELSE told
           /\ down' = [down EXCEPT ![c] = IF after.at = "closed" THEN << >> ELSE Unread(@, k)]
  /\ UNCHANGED <<server, up, asked, heard, said>>

\* A send or recv fails, for whatever reason: also dump may throw.
ClientFails(c) ==
  /\ socket = c /\ client.at # "idle"
  /\ client' = Resting("idle")
  /\ socket' = Thrown(c, "closed")
  /\ down' = [down EXCEPT ![c] = IF socket' = None THEN << >> ELSE @]
  /\ UNCHANGED <<server, up, history>>

-----------------------------------------------------------------------------
(* The server. *)

HungUp(c) == asked[c] # << >> /\ socket # c

\* epoll reports what can be read, and the end of the stream.
Wakes(c) ==
  /\ server[c].at = "idle"
  /\ up[c] # << >> \/ HungUp(c)
  /\ server' = [server EXCEPT ![c] = Receiving]
  /\ UNCHANGED <<socket, client, wires, history>>

ServerReceives(c) ==
  /\ server[c].at \in Recvs
  /\ \E k \in Available(server[c], up[c]) :
       LET after == AfterRecv(server[c], SubSeq(up[c], 1, k), Resting("run"))
       IN  /\ server' = [server EXCEPT ![c] = after]
           /\ heard' = IF after.at = "run"
                       THEN [heard EXCEPT ![c] = Append(@, server[c].got \o SubSeq(up[c], 1, k))]
                       ELSE heard
           /\ up' = [up EXCEPT ![c] = IF after.at = "closed" THEN << >> ELSE Unread(@, k)]
  /\ UNCHANGED <<socket, client, down, asked, said, told>>

\* The handler, and the beginning of its response.
Responds(c, a) ==
  /\ server[c].at = "run"
  /\ server' = [server EXCEPT ![c] = Sending(a)]
  /\ said' = [said EXCEPT ![c] = Append(@, a)]
  /\ UNCHANGED <<socket, client, wires, asked, heard, told>>

ServerSends(c) ==
  /\ server[c].at \in Sends
  /\ \E k \in Room(server[c], down[c]) :
       /\ down' = IF HungUp(c) THEN down
                  ELSE [down EXCEPT ![c] = @ \o SubSeq(server[c].left, 1, k)]
       /\ server' = [server EXCEPT ![c] = AfterSend(server[c], k, Resting("idle"))]
  /\ UNCHANGED <<socket, client, up, history>>

\* A send or recv fails, or the handler or dump throws: the task closes the
\* connection.
ServerFails(c) ==
  /\ server[c].at \notin {"idle", "closed"}
  /\ server' = [server EXCEPT ![c] = Resting("closed")]
  /\ up' = [up EXCEPT ![c] = << >>]
  /\ UNCHANGED <<socket, client, down, history>>

-----------------------------------------------------------------------------
ClientStep(c) ==
  \/ \E r \in Requests : Call(c, r)
  \/ ClientSends(c)
  \/ ClientReceives(c)
  \/ ClientFails(c)

ServerStep(c) ==
  \/ Wakes(c)
  \/ ServerReceives(c)
  \/ \E a \in Replies : Responds(c, a)
  \/ ServerSends(c)
  \/ ServerFails(c)

FramingNext == \E c \in Connections : ClientStep(c) \/ ServerStep(c)

FramingSpec == FramingInit /\ [][FramingNext]_framingVars

PatientClient(c) == \* mutant: no SO_RCVTIMEO, and no end of the stream
  client.at \in Sends /\ server[c].at = "closed" /\ ClientFails(c)

PatientServer(c) == \* mutant: the end of the stream is no error
  server[c].at \in Sends /\ HungUp(c) /\ ServerFails(c)

\* A recv gives up when nothing comes (SO_RCVTIMEO) or the other end is closed,
\* and a send when the other end is closed.
ClientGivesUp(c) ==
  /\ client.at \in Recvs => down[c] = << >>
  /\ client.at \in Sends => server[c].at = "closed"
  /\ ClientFails(c)

ServerGivesUp(c) ==
  /\ server[c].at \in Recvs => up[c] = << >>
  /\ server[c].at \in Sends => HungUp(c)
  /\ server[c].at # "run"
  /\ ServerFails(c)

\* Each loop goes on as long as the kernel lets it, a worker takes what epoll
\* reports, and a handler comes to an end.
FairFramingSpec ==
  /\ FramingSpec
  /\ \A c \in Connections :
       /\ WF_framingVars(ClientSends(c)) /\ WF_framingVars(ClientReceives(c))
       /\ WF_framingVars(ClientGivesUp(c))
       /\ WF_framingVars(Wakes(c)) /\ WF_framingVars(ServerReceives(c))
       /\ WF_framingVars(\E a \in Replies : Responds(c, a))
       /\ WF_framingVars(ServerSends(c)) /\ WF_framingVars(ServerGivesUp(c))

-----------------------------------------------------------------------------
(* Properties. *)

Whole == INSTANCE Exchange

\* The loops of sendAll and recvAll, the length before the text, its limit and
\* json::parse make messages of a stream of bytes: whatever a send or a recv
\* moves at a time and wherever it fails, what the handlers and sendRequest
\* receive is what was sent, whole and in order, and no message of more than
\* MAX_MESSAGE_SIZE bytes (Protocol.h:62-113, Client.cpp:47-57).
FramesArriveWhole == Whole!ExchangeSpec

\* When sendRequest has returned and kept its socket, no byte of a message is
\* left in the connection, and the server waits for the next request or has
\* closed: the next length is read where the next length is written.  Only an
\* exception leaves a message half-way, and it closes the socket.
QuietBetweenCalls ==
  client.at = "idle" =>
    \A c \in Connections :
      socket = c =>
        /\ up[c] = << >> /\ down[c] = << >>
        /\ server[c].at \in {"idle", "closed"}
        /\ Len(told[c]) = Len(asked[c])

\* A call returns or throws, also when the server has refused the message that
\* is being sent, or ends in the middle of its response.
CallsReturn == client.at # "idle" ~> client.at = "idle"

\* A worker is done with each request, though its sends have no timeout
\* (Server.cpp:198): sendRequest reads what it waits for, or closes.
WorkersReturn ==
  \A c \in Connections :
    server[c].at \notin {"idle", "closed"} ~> server[c].at \in {"idle", "closed"}
=============================================================================
