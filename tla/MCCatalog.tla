----------------------------- MODULE MCCatalog -----------------------------
(* Instance of Catalog for TLC, with inputs the server refuses and with      *)
(* negative ones that addCommodity takes.                                    *)
EXTENDS Catalog, TLC

MCDigests == {<<"digest", p>> : p \in Passwords}
MCEncrypt == [p \in Passwords |-> <<"digest", p>>]
MCStocks == {-1, 1}
MCPrices == {-1, 1}
MCDiscounts == {-1, 0, 2, 3}

Perms == Permutations(Commodities) \cup Permutations(Merchants)
=============================================================================
