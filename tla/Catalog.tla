------------------------------ MODULE Catalog ------------------------------
(***************************************************************************)
(* CommodityManager (src/src/Commodity.cpp) with the handlers of           *)
(* Server.cpp that use it and UserManager only: searching, listing, adding *)
(* a commodity, changing its price, stock or discount.                     *)
(*                                                                         *)
(* Like a user, a commodity is a row of the table `commodities' and, once  *)
(* loaded, an object in _nameMap and _idMap (one object under two keys,    *)
(* written together, hence one variable).                                  *)
(*                                                                         *)
(* A discount is a whole number of parts of FullPrice, and money is        *)
(* counted in those parts, so that base_price * discount is exact.         *)
(***************************************************************************)
EXTENDS Accounts

CONSTANTS
  Commodities, \* the commodity names
  Types,       \* the categories of the CHECK constraint and of addCommodity
  Prices,      \* the base prices in merchants' requests
  Stocks,      \* the stock counts in merchants' requests
  Discounts,   \* the discounts in merchants' requests
  FullPrice    \* the discount 1.0

\* addCommodity stores any price and any stock; only the changes are checked.
CommodityRecord ==
  [merchant : Merchants, type : Types, basePrice : Int,
   discount : 0..FullPrice, storage : Int]

ASSUME CatalogAssumption ==
  /\ Prices \subseteq Int
  /\ Stocks \subseteq Int
  /\ Discounts \subseteq Int
  /\ FullPrice \in Nat \ {0}
  /\ None \notin CommodityRecord

VARIABLES
  commodities,    \* the table: name -> row or None
  commodityCache, \* _nameMap and _idMap: name -> object or None
  supplied        \* history: the units each merchant has put on sale, net

goodsVars == <<commodities, commodityCache, supplied>>
catalogVars == <<accountVars, goodsVars>>

CatalogTypeOK ==
  /\ commodities \in [Commodities -> CommodityRecord \cup {None}]
  /\ commodityCache \in [Commodities -> CommodityRecord \cup {None}]
  /\ supplied \in [Commodities -> Int]

CatalogInit ==
  /\ AccountsInit
  /\ commodities = [c \in Commodities |-> None]
  /\ commodityCache = [c \in Commodities |-> None]
  /\ supplied = [c \in Commodities |-> 0]

-----------------------------------------------------------------------------
(* What the manager's methods compute. *)

\* getCommodityByName and getCommodityById.
Found(c) == IF commodityCache[c] # None THEN commodityCache[c] ELSE commodities[c]

\* The maps once every commodity of S has been looked up or read by a search:
\* cacheCommodity keeps an object that is already there.
CacheWithGoods(S) ==
  [c \in Commodities |-> IF c \in S THEN Found(c) ELSE commodityCache[c]]

ListedInMap(c) == commodityCache[c] # None \* mutant: no UNIQUE constraint

\* addCommodity looks in the map only; the UNIQUE constraint does the rest.
Listed(c) == commodityCache[c] # None \/ commodities[c] # None

OwnedBy(m) ==
  {c \in Commodities : commodities[c] # None /\ commodities[c].merchant = m}

\* The rows of `UPDATE ... WHERE merchant = ? AND type = ?'.
Batch(m, t) == {c \in OwnedBy(m) : commodities[c].type = t}

CachedOfType(m, t) == \* mutant: the merchant is not compared
  {c \in Commodities : commodityCache[c] # None /\ commodityCache[c].type = t}

\* The objects of the loop over _nameMap, chosen by their own fields.
CachedBatch(m, t) ==
  {c \in Commodities :
     /\ commodityCache[c] # None
     /\ commodityCache[c].merchant = m
     /\ commodityCache[c].type = t}

AllowedStock(n) == n >= 0

AllowedDiscount(d) == d >= 0 /\ d <= FullPrice

\* The rows, or the objects, of S with the new discount.
Discounted(rows, S, d) ==
  [c \in Commodities |->
     IF c \in S /\ rows[c] # None THEN [rows[c] EXCEPT !.discount = d]
                                  ELSE rows[c]]

-----------------------------------------------------------------------------
(* The handlers. *)

\* The opening of handleMerchantOperation: the user is loaded and must be a
\* registered merchant.
MerchantRequest(m) ==
  /\ m \in Merchants
  /\ Known(m) # None
  /\ LookUpUser(m)

\* The server looks at the type and the name only.  It is the client's menu
\* that breaks off at a price that is not positive or a negative stock
\* (Client.cpp:229 and 241); a request with such values is stored as it is.
AddCommodity(m, c, t, price, stock) ==
  /\ MerchantRequest(m)
  /\ ~ Listed(c)
  /\ LET new == [merchant |-> m, type |-> t, basePrice |-> price,
                 discount |-> FullPrice, storage |-> stock]
     IN  /\ commodities' = [commodities EXCEPT ![c] = new]
         /\ commodityCache' = [commodityCache EXCEPT ![c] = new]
  /\ supplied' = [supplied EXCEPT ![c] = @ + stock]

\* A search, by name or for everything: the rows found are loaded.
SearchCommodities(S) ==
  /\ commodityCache' = CacheWithGoods(S)
  /\ UNCHANGED <<commodities, supplied, accountVars>>

ListMyCommodities(m) ==
  /\ MerchantRequest(m)
  /\ commodityCache' = CacheWithGoods(OwnedBy(m))
  /\ UNCHANGED <<commodities, supplied>>

\* A request about a commodity that is turned down once both have been
\* looked up: it is not the merchant's, the value is out of range, the stock
\* does not suffice.
RefusedRequest(u, c) ==
  /\ LookUpUser(u)
  /\ commodityCache' = CacheWithGoods({c})
  /\ UNCHANGED <<commodities, supplied>>

AnyCommodity(m, c) == MerchantRequest(m) /\ Found(c) # None \* mutant: no owner check

\* What ModifyPrice, ModifyStock and ModifyDiscount share.
OwnCommodity(m, c) ==
  /\ MerchantRequest(m)
  /\ Found(c) # None
  /\ Found(c).merchant = m

ModifyPrice(m, c, price) ==
  /\ OwnCommodity(m, c)
  /\ price >= 0
  /\ commodities' = [commodities EXCEPT ![c].basePrice = price]
  /\ commodityCache' = [CacheWithGoods({c}) EXCEPT ![c].basePrice = price]
  /\ UNCHANGED supplied

ModifyStock(m, c, stock) ==
  /\ OwnCommodity(m, c)
  /\ AllowedStock(stock)
  /\ commodities' = [commodities EXCEPT ![c].storage = stock]
  /\ commodityCache' = [CacheWithGoods({c}) EXCEPT ![c].storage = stock]
  /\ supplied' = [supplied EXCEPT ![c] = @ + (stock - commodities[c].storage)]

ModifyDiscount(m, c, d) ==
  /\ OwnCommodity(m, c)
  /\ AllowedDiscount(d)
  /\ commodities' = [commodities EXCEPT ![c].discount = d]
  /\ commodityCache' = [CacheWithGoods({c}) EXCEPT ![c].discount = d]
  /\ UNCHANGED supplied

BatchModifyDiscount(m, t, d) ==
  /\ MerchantRequest(m)
  /\ AllowedDiscount(d)
  /\ commodities' = Discounted(commodities, Batch(m, t), d)
  /\ commodityCache' = Discounted(commodityCache, CachedBatch(m, t), d)
  /\ UNCHANGED supplied

RestartCatalog ==
  /\ RestartAccounts
  /\ commodityCache' = [c \in Commodities |-> None]
  /\ UNCHANGED <<commodities, supplied>>

MerchantStep(m) ==
  \/ ListMyCommodities(m)
  \/ \E c \in Commodities :
       \/ \E t \in Types, price \in Prices, stock \in Stocks :
            AddCommodity(m, c, t, price, stock)
       \/ \E price \in Prices : ModifyPrice(m, c, price)
       \/ \E stock \in Stocks : ModifyStock(m, c, stock)
       \/ \E d \in Discounts : ModifyDiscount(m, c, d)
  \/ \E t \in Types, d \in Discounts : BatchModifyDiscount(m, t, d)

AccountStep ==
  /\ \/ \E u \in Users, p \in Passwords : Register(u, p) \/ ChangePassword(u, p)
     \/ \E u \in Users, a \in Amounts : Recharge(u, a)
     \/ \E u \in Users : LookUpUser(u)
  /\ UNCHANGED goodsVars

GoodsStep ==
  \/ \E m \in Merchants : MerchantStep(m)
  \/ \E S \in SUBSET Commodities : SearchCommodities(S)
  \/ \E u \in Users, c \in Commodities : RefusedRequest(u, c)

CatalogNext == AccountStep \/ GoodsStep \/ RestartCatalog

CatalogSpec == CatalogInit /\ [][CatalogNext]_catalogVars

-----------------------------------------------------------------------------
(* Correctness. *)

\* Whatever mix of single, batch and cached updates has run, an object in the
\* maps carries the price, the discount and the owner of its row: the price
\* list a client sees (from objects) is the price checkout charges (from
\* rows).
PricingCoherent ==
  \A c \in Commodities :
    commodityCache[c] # None =>
      /\ commodities[c] # None
      /\ \A f \in {"merchant", "type", "basePrice", "discount"} :
           commodityCache[c][f] = commodities[c][f]

\* A name that has been listed keeps its row, its merchant and its type:
\* adding a commodity of the same name again, also after a restart has
\* emptied the maps addCommodity looks in, never replaces it.
ListingsKept ==
  [][\A c \in Commodities : commodities[c] # None =>
       /\ commodities'[c] # None
       /\ commodities'[c].merchant = commodities[c].merchant
       /\ commodities'[c].type = commodities[c].type]_catalogVars

\* A merchant's request, single or batch, changes that merchant's goods only:
\* no row of another merchant, and no object that was in the maps for one.
\* The single changes compare the owner of the object and write the row, the
\* batch picks rows by SQL and objects by a loop of its own.
OwnGoodsOnly ==
  [][\A m \in Merchants : MerchantStep(m) =>
       \A c \in Commodities :
         /\ commodities[c] # None /\ commodities'[c] # commodities[c]
              => commodities[c].merchant = m
         /\ commodityCache[c] # None /\ commodityCache'[c] # commodityCache[c]
              => commodityCache[c].merchant = m]_catalogVars

=============================================================================
