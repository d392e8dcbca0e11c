---------------------------- MODULE MCCacheFill -----------------------------
(* Instance of CacheFill for TLC. *)
EXTENDS CacheFill, TLC

MCDigests == {<<"digest", p>> : p \in Passwords}
MCEncrypt == [p \in Passwords |-> <<"digest", p>>]

MCAmounts == {-1, 1}

Perms == Permutations(Threads) \cup Permutations(Objects)
=============================================================================
