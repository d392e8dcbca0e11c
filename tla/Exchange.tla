------------------------------ MODULE Exchange ------------------------------
(***************************************************************************)
(* What a connection promises to the programs at its ends: a message that  *)
(* arrives is one that was sent, whole, in order and once; a call returns  *)
(* the response to the request it made, or nothing.  Reactor and           *)
(* ClientSession are written in these terms.  Framing implements them with *)
(* a stream of bytes.                                                      *)
(***************************************************************************)
EXTENDS Sequences, Integers

CONSTANTS
  Connections,    \* the connections that are ever made
  Requests,       \* what the client sends, as the bytes of its text
  Replies,        \* what the server sends
  MaxMessageSize, \* MAX_MESSAGE_SIZE
  None            \* no connection

VARIABLES
  socket, \* the connection the client holds, or None
  asked,  \* connection -> the requests the client has made over it
  heard,  \* connection -> the requests the server has received
  said,   \* connection -> the responses the server has made
  told    \* connection -> the responses that calls have returned

exchangeVars == <<socket, asked, heard, said, told>>

ExchangeInit ==
  /\ socket = None
  /\ asked = [c \in Connections |-> << >>]
  /\ heard = [c \in Connections |-> << >>]
  /\ said = [c \in Connections |-> << >>]
  /\ told = [c \in Connections |-> << >>]

\* A message that a receiver takes.
Fits(m) == Len(m) \in 1..MaxMessageSize

\* The client asks on the connection it has, when it has been answered, or on
\* a new one.
Usable(c) ==
  \/ socket = c /\ Len(told[c]) = Len(asked[c])
  \/ socket = None /\ asked[c] = << >>

Ask(c, r) ==
  /\ Usable(c)
  /\ asked' = [asked EXCEPT ![c] = Append(@, r)]
  /\ socket' = c
  /\ UNCHANGED <<heard, said, told>>

Hear(c) ==
  /\ Len(heard[c]) < Len(asked[c])
  /\ LET r == asked[c][Len(heard[c]) + 1]
     IN  Fits(r) /\ heard' = [heard EXCEPT ![c] = Append(@, r)]
  /\ UNCHANGED <<socket, asked, said, told>>

Say(c, a) ==
  /\ Len(said[c]) < Len(heard[c])
  /\ said' = [said EXCEPT ![c] = Append(@, a)]
  /\ UNCHANGED <<socket, asked, heard, told>>

Tell(c) ==
  /\ socket = c
  /\ Len(told[c]) < Len(said[c])
  /\ LET a == said[c][Len(told[c]) + 1]
     IN  Fits(a) /\ told' = [told EXCEPT ![c] = Append(@, a)]
  /\ UNCHANGED <<socket, asked, heard, said>>

\* After an error the connection is never used again.
HangUp ==
  /\ socket' = None
  /\ UNCHANGED <<asked, heard, said, told>>

ExchangeNext ==
  \/ \E c \in Connections :
       \/ \E r \in Requests : Ask(c, r)
       \/ Hear(c)
       \/ \E a \in Replies : Say(c, a)
       \/ Tell(c)
  \/ HangUp

ExchangeSpec == ExchangeInit /\ [][ExchangeNext]_exchangeVars
=============================================================================
