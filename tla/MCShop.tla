------------------------------- MODULE MCShop -------------------------------
(* Instances of Shop for TLC. *)
EXTENDS Shop, TLC

MCDigests == {<<"digest", p>> : p \in Passwords}
MCEncrypt == [p \in Passwords |-> <<"digest", p>>]

MCPrices == {-1, 2}
MCStocks == {-1, 1}

Perms == Permutations(Commodities) \cup Permutations(Consumers)
           \cup Permutations(Merchants)
=============================================================================
