------------------------------ MODULE MCFraming ------------------------------
(* Bytes of one bit: a length of four bytes is less than 16. *)
EXTENDS Framing, TLC

Zeros(n) == [i \in 1..n |-> 0]
Text(n) == Append(Zeros(n - 1), 1)

MCRequests == {Text(n) : n \in {1, 18}}
MCReplies == {Text(n) : n \in {3, 4}}

\* Besides the messages some texts that bytes out of step could be taken for.
MCTexts == MCRequests \cup MCReplies \cup {<<1, 0>>, <<1, 1>>, <<0, 1, 0>>, <<1, 0, 0>>}
=============================================================================
