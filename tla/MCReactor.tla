----------------------------- MODULE MCReactor ------------------------------
(* Instances of Reactor for TLC. *)
EXTENDS Reactor, TLC

Req(action, operation, form) ==
  [action |-> action, operation |-> operation, form |-> form]

\* A cart that is read, a cart that is written, and requests that end
\* otherwise: the handler throws, or the message is malformed.
MCRequests ==
  {Req("cartOperation", 1, "complete"), Req("cartOperation", 2, "complete"),
   Req("cartOperation", 2, "incomplete")}
=============================================================================
