----------------------------- MODULE ShopProofs -----------------------------
(***************************************************************************)
(* No balance falls below zero, an object agrees with its row in           *)
(* everything but the stock, and, as long as the process has not been      *)
(* restarted, never promises more stock than the row has.  No unit is      *)
(* lost, and until the first restart every unit is in the row or in one    *)
(* order.  Every balance is explained by deposits and paid orders, and the *)
(* shop implements the market of Marketplace.  Stocks and prices are any   *)
(* integers, as they are for the server.                                   *)
(***************************************************************************)
EXTENDS Shop, CatalogProofs, SumsProofs

OrdersTypeOK ==
  /\ cartItems \in [Consumers -> Bundle]
  /\ orders \in Seq(OrderRecord)
  /\ aged \in 0..Len(orders)

\* What an order names is listed.
OrdersListed ==
  \A i \in 1..Len(orders), c \in Commodities :
    orders[i].items[c] > 0 => commodities[c] # None

OrdersBounded == \A i \in 1..Len(orders) : Bounded(orders[i])

\* Every row has an object, and the object no more stock than the row.
Covered(rows, cache) ==
  \A c \in Commodities :
    rows[c] # None => cache[c] # None /\ cache[c].storage <= rows[c].storage

CoverInv == restarts = 0 => Covered(commodities, commodityCache)

OrdersInv == OrdersTypeOK /\ OrdersListed /\ OrdersBounded

ShopInv == CatalogInv /\ OrdersInv /\ CoverInv

-----------------------------------------------------------------------------
(* Amounts. *)

\* The shares of an order stay what they are as long as its goods keep their
\* merchants.
LEMMA SameShares ==
  ASSUME NEW o, NEW p, p.items = o.items, p.price = o.price, NEW m,
         \A c \in Contents(o.items) : commodities'[c].merchant = commodities[c].merchant
  PROVE  Share(p, m)' = Share(o, m)
<1> DEFINE f == [c \in Contents(o.items) |->
                   IF commodities[c].merchant = m THEN Charged(o, c) * o.items[c] ELSE 0]
           g == [c \in Contents(p.items) |->
                   IF commodities'[c].merchant = m THEN Charged(p, c) * p.items[c] ELSE 0]
<1>1. Contents(p.items) = Contents(o.items)
  BY DEF Contents
<1>2. f = g
  BY <1>1 DEF Charged
<1>3. Share(o, m) = SumOf(f)
  BY DEF Share
<1>4. Share(p, m)' = SumOf(g)
  BY DEF Share
<1> QED BY <1>2, <1>3, <1>4

\* An order that was within the bounds and keeps its items, prices and
\* merchants stays within them.
LEMMA StaysBounded ==
  ASSUME NEW o, NEW p, p.items = o.items, p.price = o.price, Bounded(o),
         \A c \in Contents(o.items) : commodities'[c].merchant = commodities[c].merchant
  PROVE  Bounded(p)'
<1>1. \A m \in Merchants : Share(p, m)' = Share(o, m)
  BY SameShares
<1> QED BY <1>1 DEF Bounded

\* The orders, when a step leaves them alone and every row keeps its merchant.
LEMMA OrdersStay ==
  ASSUME OrdersInv, CatalogInv, KeptListed, UNCHANGED <<cartItems, orders, aged>>
  PROVE  OrdersInv'
<1>1. OrdersTypeOK'
  BY DEF OrdersInv, OrdersTypeOK
<1>2. OrdersListed'
  BY DEF OrdersInv, OrdersListed, KeptListed
<1>3. OrdersBounded'
  <2> SUFFICES ASSUME NEW i \in 1..Len(orders)
               PROVE  Bounded(orders[i])'
    BY DEF OrdersBounded
  <2>1. PICK o : o = orders[i]
    OBVIOUS
  <2>2. Bounded(o)
    BY <2>1 DEF OrdersInv, OrdersBounded
  <2>3. \A c \in Contents(o.items) : commodities'[c].merchant = commodities[c].merchant
    BY <2>1 DEF OrdersInv, OrdersListed, KeptListed, Contents
  <2>4. Bounded(o)'
    BY <2>2, <2>3, StaysBounded
  <2>5. orders'[i] = o
    BY <2>1
  <2> QED BY <2>4, <2>5 DEF Bounded, Share, Charged, Contents
<1> QED BY <1>1, <1>2, <1>3 DEF OrdersInv

LEMMA OrdersStayListed ==
  ASSUME OrdersInv, CatalogInv, UNCHANGED <<commodities, cartItems, orders, aged>>
  PROVE  OrdersInv'
<1>1. KeptListed
  BY DEF KeptListed
<1> QED BY <1>1, OrdersStay

-----------------------------------------------------------------------------
(* The stock of objects and rows. *)

\* Where every row has an object, a look-up changes nothing.
LEMMA CoveredMeansLoaded ==
  ASSUME GoodsInv, Covered(commodities, commodityCache)
  PROVE  /\ \A c \in Commodities : Found(c) = commodityCache[c]
         /\ \A S \in SUBSET Commodities : CacheWithGoods(S) = commodityCache
<1>1. \A c \in Commodities : Found(c) = commodityCache[c]
  BY DEF GoodsInv, Priced, Covered, Found
<1> QED BY <1>1 DEF GoodsInv, Priced, CacheWithGoods

\* A row and its object that are given the same stock, or keep theirs.
LEMMA UpdateKeepsCover ==
  ASSUME GoodsInv, Covered(commodities, commodityCache), NEW c \in Commodities,
         NEW row \in CommodityRecord, NEW object \in CommodityRecord,
         object.storage <= row.storage,
         commodities' = [commodities EXCEPT ![c] = row],
         commodityCache' = [commodityCache EXCEPT ![c] = object]
  PROVE  Covered(commodities', commodityCache')
<1>1. /\ commodities'[c] = row
      /\ commodityCache'[c] = object
      /\ object # None
  BY CatalogAssumption DEF GoodsInv, Priced
<1>2. ASSUME NEW d \in Commodities, d # c
      PROVE  commodities'[d] = commodities[d] /\ commodityCache'[d] = commodityCache[d]
  BY <1>2 DEF GoodsInv, Priced
<1> QED BY <1>1, <1>2 DEF Covered

LEMMA MerchantStepKeepsCover ==
  ASSUME GoodsInv, Covered(commodities, commodityCache),
         NEW m \in Merchants, MerchantStep(m)
  PROVE  Covered(commodities', commodityCache')
<1>1. ASSUME ListMyCommodities(m)
      PROVE  Covered(commodities', commodityCache')
  BY <1>1, CoveredMeansLoaded, OwnedBy(m) \in SUBSET Commodities DEF ListMyCommodities, OwnedBy
<1>2. ASSUME NEW c \in Commodities, NEW t \in Types, NEW price \in Prices,
             NEW stock \in Stocks, AddCommodity(m, c, t, price, stock)
      PROVE  Covered(commodities', commodityCache')
  <2>1. PICK new : new = [merchant |-> m, type |-> t, basePrice |-> price,
                          discount |-> FullPrice, storage |-> stock]
    OBVIOUS
  <2>2. new \in CommodityRecord /\ new.storage <= new.storage
    BY <1>2, <2>1, CatalogAssumption DEF AddCommodity, CommodityRecord
  <2>3. /\ commodities' = [commodities EXCEPT ![c] = new]
        /\ commodityCache' = [commodityCache EXCEPT ![c] = new]
    BY <1>2, <2>1 DEF AddCommodity
  <2> QED BY <2>2, <2>3, UpdateKeepsCover
<1>3. ASSUME NEW c \in Commodities, OwnCommodity(m, c),
             NEW row \in CommodityRecord, NEW object \in CommodityRecord,
             object.storage <= row.storage,
             commodities' = [commodities EXCEPT ![c] = row],
             commodityCache' = [commodityCache EXCEPT ![c] = object]
      PROVE  Covered(commodities', commodityCache')
  BY <1>3, UpdateKeepsCover
<1>4. ASSUME NEW c \in Commodities, OwnCommodity(m, c)
      PROVE  /\ commodities[c] \in CommodityRecord
             /\ commodityCache[c] \in CommodityRecord
             /\ CacheWithGoods({c}) = commodityCache
             /\ commodityCache[c].storage <= commodities[c].storage
  <2>1. /\ Found(c) \in CommodityRecord
        /\ commodities[c] \in CommodityRecord
    BY <1>4, OwnCommodityIsListed
  <2>2. Found(c) = commodityCache[c] /\ CacheWithGoods({c}) = commodityCache
    BY CoveredMeansLoaded
  <2> QED BY <2>1, <2>2, CatalogAssumption DEF Covered
<1>5. ASSUME NEW c \in Commodities, NEW price \in Prices, ModifyPrice(m, c, price)
      PROVE  Covered(commodities', commodityCache')
  <2>1. OwnCommodity(m, c) /\ price \in Nat
    BY <1>5, CatalogAssumption DEF ModifyPrice
  <2>2. PICK row, object : /\ row = [commodities[c] EXCEPT !.basePrice = price]
                           /\ object = [commodityCache[c] EXCEPT !.basePrice = price]
    OBVIOUS
  <2>3. /\ row \in CommodityRecord /\ object \in CommodityRecord
        /\ object.storage <= row.storage
    <3>1. /\ commodities[c] \in CommodityRecord /\ commodityCache[c] \in CommodityRecord
          /\ commodityCache[c].storage <= commodities[c].storage
      BY <1>4, <2>1
    <3> QED BY <2>1, <2>2, <3>1 DEF CommodityRecord
  <2>4. commodities' = [commodities EXCEPT ![c] = row]
    BY <1>5, <2>2 DEF ModifyPrice, GoodsInv, Priced
  <2>5. commodityCache' = [commodityCache EXCEPT ![c] = object]
    BY <1>4, <1>5, <2>1, <2>2 DEF ModifyPrice, GoodsInv, Priced
  <2> QED BY <1>3, <2>1, <2>3, <2>4, <2>5
<1>6. ASSUME NEW c \in Commodities, NEW stock \in Stocks, ModifyStock(m, c, stock)
      PROVE  Covered(commodities', commodityCache')
  <2>1. OwnCommodity(m, c) /\ stock \in Nat
    BY <1>6, CatalogAssumption DEF ModifyStock, AllowedStock
  <2>2. PICK row, object : /\ row = [commodities[c] EXCEPT !.storage = stock]
                           /\ object = [commodityCache[c] EXCEPT !.storage = stock]
    OBVIOUS
  <2>3. /\ row \in CommodityRecord /\ object \in CommodityRecord
        /\ object.storage <= row.storage
    <3>1. /\ commodities[c] \in CommodityRecord /\ commodityCache[c] \in CommodityRecord
          /\ commodityCache[c].storage <= commodities[c].storage
      BY <1>4, <2>1
    <3> QED BY <2>1, <2>2, <3>1 DEF CommodityRecord
  <2>4. commodities' = [commodities EXCEPT ![c] = row]
    BY <1>6, <2>2 DEF ModifyStock, GoodsInv, Priced
  <2>5. commodityCache' = [commodityCache EXCEPT ![c] = object]
    BY <1>4, <1>6, <2>1, <2>2 DEF ModifyStock, GoodsInv, Priced
  <2> QED BY <1>3, <2>1, <2>3, <2>4, <2>5
<1>7. ASSUME NEW c \in Commodities, NEW d \in Discounts, ModifyDiscount(m, c, d)
      PROVE  Covered(commodities', commodityCache')
  <2>1. OwnCommodity(m, c) /\ d \in 0..FullPrice
    BY <1>7, CatalogAssumption DEF ModifyDiscount, AllowedDiscount
  <2>2. PICK row, object : /\ row = [commodities[c] EXCEPT !.discount = d]
                           /\ object = [commodityCache[c] EXCEPT !.discount = d]
    OBVIOUS
  <2>3. /\ row \in CommodityRecord /\ object \in CommodityRecord
        /\ object.storage <= row.storage
    <3>1. /\ commodities[c] \in CommodityRecord /\ commodityCache[c] \in CommodityRecord
          /\ commodityCache[c].storage <= commodities[c].storage
      BY <1>4, <2>1
    <3> QED BY <2>1, <2>2, <3>1 DEF CommodityRecord
  <2>4. commodities' = [commodities EXCEPT ![c] = row]
    BY <1>7, <2>2 DEF ModifyDiscount, GoodsInv, Priced
  <2>5. commodityCache' = [commodityCache EXCEPT ![c] = object]
    BY <1>4, <1>7, <2>1, <2>2 DEF ModifyDiscount, GoodsInv, Priced
  <2> QED BY <1>3, <2>1, <2>3, <2>4, <2>5
<1>8. ASSUME NEW t \in Types, NEW d \in Discounts, BatchModifyDiscount(m, t, d)
      PROVE  Covered(commodities', commodityCache')
  <2>1. /\ commodities' = Discounted(commodities, Batch(m, t), d)
        /\ commodityCache' = Discounted(commodityCache, Batch(m, t), d)
    BY <1>8, BatchesAgree DEF BatchModifyDiscount
  <2>2. ASSUME NEW c \in Commodities, commodities'[c] # None
        PROVE  commodityCache'[c] # None
               /\ commodityCache'[c].storage <= commodities'[c].storage
    <3>1. commodities[c] # None
      BY <2>1, <2>2 DEF Discounted
    <3>2. /\ commodities[c] \in CommodityRecord /\ commodityCache[c] \in CommodityRecord
          /\ commodityCache[c].storage <= commodities[c].storage
      BY <3>1 DEF GoodsInv, Priced, Covered
    <3>3. d \in 0..FullPrice
      BY <1>8, CatalogAssumption DEF BatchModifyDiscount, AllowedDiscount
    <3>4. \A x \in CommodityRecord :
            /\ [x EXCEPT !.discount = d] \in CommodityRecord
            /\ [x EXCEPT !.discount = d].storage = x.storage
      BY <3>3 DEF CommodityRecord
    <3>5. CASE c \in Batch(m, t)
      <4>1. /\ commodities'[c] = [commodities[c] EXCEPT !.discount = d]
            /\ commodityCache'[c] = [commodityCache[c] EXCEPT !.discount = d]
        BY <2>1, <3>2, <3>5, CatalogAssumption DEF Discounted
      <4> QED BY <3>2, <3>4, <4>1, CatalogAssumption
    <3>6. CASE c \notin Batch(m, t)
      BY <2>1, <3>2, <3>6, CatalogAssumption DEF Discounted
    <3> QED BY <3>5, <3>6
  <2> QED BY <2>2 DEF Covered
<1> QED BY <1>1, <1>2, <1>5, <1>6, <1>7, <1>8 DEF MerchantStep

LEMMA GoodsStepKeepsCover ==
  ASSUME GoodsInv, Covered(commodities, commodityCache), GoodsStep
  PROVE  Covered(commodities', commodityCache')
<1>1. ASSUME NEW m \in Merchants, MerchantStep(m)
      PROVE  Covered(commodities', commodityCache')
  BY <1>1, MerchantStepKeepsCover
<1>2. ASSUME NEW S \in SUBSET Commodities, SearchCommodities(S)
      PROVE  Covered(commodities', commodityCache')
  BY <1>2, CoveredMeansLoaded DEF SearchCommodities
<1>3. ASSUME NEW u \in Users, NEW c \in Commodities, RefusedRequest(u, c)
      PROVE  Covered(commodities', commodityCache')
  BY <1>3, CoveredMeansLoaded DEF RefusedRequest
<1> QED BY <1>1, <1>2, <1>3 DEF GoodsStep

-----------------------------------------------------------------------------
(* The cart. *)

LEMMA ConsumerRequestKeepsInv ==
  ASSUME AccountsInv, NEW u \in Consumers, ConsumerRequest(u)
  PROVE  AccountsInv'
BY LookUpUserKeepsInv DEF ConsumerRequest, Users

\* A step of a consumer that loads objects and changes a cart.
LEMMA CartStepKeepsInv ==
  ASSUME ShopInv, NEW u \in Consumers, ConsumerRequest(u),
         NEW S \in SUBSET Commodities, commodityCache' = CacheWithGoods(S),
         UNCHANGED <<commodities, supplied, orders, aged>>,
         cartItems' \in [Consumers -> Bundle]
  PROVE  ShopInv'
<1>1. CatalogInv'
  BY ConsumerRequestKeepsInv, LoadingKeepsInv DEF ShopInv, CatalogInv
<1>2. OrdersInv'
  <2>1. OrdersTypeOK'
    BY DEF ShopInv, OrdersInv, OrdersTypeOK
  <2>2. OrdersListed'
    BY DEF ShopInv, OrdersInv, OrdersListed
  <2>3. OrdersBounded'
    BY DEF ShopInv, OrdersInv, OrdersBounded, Bounded, Share, Charged, Contents
  <2> QED BY <2>1, <2>2, <2>3 DEF OrdersInv
<1>3. CoverInv'
  <2>1. restarts' = restarts
    BY DEF ConsumerRequest, LookUpUser
  <2> QED BY <2>1, CoveredMeansLoaded DEF ShopInv, CatalogInv, CoverInv
<1> QED BY <1>1, <1>2, <1>3 DEF ShopInv

LEMMA AddItemKeepsInv ==
  ASSUME ShopInv, NEW u \in Consumers, NEW c \in Commodities, NEW n \in Quantities,
         AddItem(u, c, n)
  PROVE  ShopInv'
<1>1. n \in Nat
  BY ShopAssumption DEF AddItem
<1>2. cartItems' \in [Consumers -> Bundle]
  BY <1>1 DEF AddItem, ShopInv, OrdersInv, OrdersTypeOK, Bundle
<1>3. /\ ConsumerRequest(u) /\ commodityCache' = CacheWithGoods({c})
      /\ UNCHANGED <<commodities, supplied, orders, aged>>
  BY DEF AddItem, CartRequest
<1> QED BY <1>2, <1>3, CartStepKeepsInv, {c} \in SUBSET Commodities

LEMMA RemoveItemKeepsInv ==
  ASSUME ShopInv, NEW u \in Consumers, NEW c \in Commodities, RemoveItem(u, c)
  PROVE  ShopInv'
<1>1. cartItems' \in [Consumers -> Bundle]
  BY DEF RemoveItem, ShopInv, OrdersInv, OrdersTypeOK, Bundle
<1>2. /\ ConsumerRequest(u) /\ commodityCache' = CacheWithGoods({c})
      /\ UNCHANGED <<commodities, supplied, orders, aged>>
  BY DEF RemoveItem, CartRequest
<1> QED BY <1>1, <1>2, CartStepKeepsInv, {c} \in SUBSET Commodities

LEMMA UpdateQuantityKeepsInv ==
  ASSUME ShopInv, NEW u \in Consumers, NEW c \in Commodities, NEW n \in Quantities,
         UpdateQuantity(u, c, n)
  PROVE  ShopInv'
<1>1. n \in Nat
  BY ShopAssumption DEF UpdateQuantity
<1>2. cartItems' \in [Consumers -> Bundle]
  BY <1>1 DEF UpdateQuantity, ShopInv, OrdersInv, OrdersTypeOK, Bundle
<1>3. /\ ConsumerRequest(u) /\ commodityCache' = CacheWithGoods({c})
      /\ UNCHANGED <<commodities, supplied, orders, aged>>
  BY DEF UpdateQuantity, CartRequest
<1> QED BY <1>2, <1>3, CartStepKeepsInv, {c} \in SUBSET Commodities

LEMMA CheckoutRefusedKeepsInv ==
  ASSUME ShopInv, NEW u \in Consumers, CheckoutRefused(u)
  PROVE  ShopInv'
<1>1. PICK S \in SUBSET Contents(cartItems[u]) : commodityCache' = CacheWithGoods(S)
  BY DEF CheckoutRefused
<1>2. S \in SUBSET Commodities
  BY <1>1 DEF Contents
<1>3. ConsumerRequest(u) /\ UNCHANGED <<commodities, supplied, cartItems, orders, aged>>
  BY DEF CheckoutRefused, orderVars
<1>4. cartItems' \in [Consumers -> Bundle]
  BY <1>3 DEF ShopInv, OrdersInv, OrdersTypeOK
<1> QED BY <1>1, <1>2, <1>3, <1>4, CartStepKeepsInv

-----------------------------------------------------------------------------
(* Checkout. *)

\* What a checkout that passes the stock check finds.
LEMMA CheckoutFinds ==
  ASSUME ShopInv, NEW u \in Consumers, CanCheckout(u), NEW c \in Commodities,
         cartItems[u][c] > 0
  PROVE  /\ commodities[c] \in CommodityRecord
         /\ Found(c) \in CommodityRecord
         /\ SamePricing(Found(c), commodities[c])
         /\ cartItems[u][c] \in Nat
         /\ cartItems[u][c] <= Found(c).storage
<1>1. Found(c) # None /\ cartItems[u][c] <= Found(c).storage
  BY DEF CanCheckout, InStock, Contents
<1>2. cartItems[u][c] \in Nat
  BY DEF ShopInv, OrdersInv, OrdersTypeOK, Bundle
<1> QED BY <1>1, <1>2, FoundIsPriced DEF ShopInv, CatalogInv, GoodsInv, Priced

LEMMA IntTimesInt == \A x, y \in Int : x * y \in Int
BY SMT

LEMMA OrderFromCartTyped ==
  ASSUME ShopInv, NEW u \in Consumers, CanCheckout(u),
         NEW status \in {"PENDING", "PAID"}
  PROVE  OrderFromCart(u, status) \in OrderRecord
<1>1. ASSUME NEW c \in Commodities, cartItems[u][c] > 0
      PROVE  PriceNow(c) \in Int
  <2>1. commodities[c].basePrice \in Int /\ commodities[c].discount \in Int
    BY <1>1, CheckoutFinds, CatalogAssumption DEF CommodityRecord
  <2> QED BY <2>1, IntTimesInt DEF PriceNow
<1>2. cartItems[u] \in Bundle
  BY DEF ShopInv, OrdersInv, OrdersTypeOK
<1>3. [c \in Commodities |-> IF cartItems[u][c] > 0 THEN PriceNow(c) ELSE 0]
        \in [Commodities -> Int]
  BY <1>1
<1> QED BY <1>2, <1>3 DEF OrderFromCart, OrderRecord

\* An object that gives up stock keeps its pricing.
LEMMA TakenObject ==
  ASSUME NEW x \in CommodityRecord, NEW n \in Nat
  PROVE  /\ [x EXCEPT !.storage = @ - n] \in CommodityRecord
         /\ [x EXCEPT !.storage = @ - n].storage = x.storage - n
         /\ SamePricing([x EXCEPT !.storage = @ - n], x)
BY DEF CommodityRecord, SamePricing

LEMMA CacheTakenAt ==
  ASSUME ShopInv, NEW u \in Consumers, CanCheckout(u), NEW c \in Commodities,
         cartItems[u][c] > 0
  PROVE  /\ CacheTaken(cartItems[u])[c] \in CommodityRecord
         /\ CacheTaken(cartItems[u])[c].storage = Found(c).storage - cartItems[u][c]
         /\ SamePricing(CacheTaken(cartItems[u])[c], commodities[c])
<1>1. CacheTaken(cartItems[u])[c] = [Found(c) EXCEPT !.storage = @ - cartItems[u][c]]
  BY DEF CacheTaken
<1>2. PICK x \in CommodityRecord, n \in Nat : x = Found(c) /\ n = cartItems[u][c]
  BY CheckoutFinds
<1>3. SamePricing(x, commodities[c])
  BY <1>2, CheckoutFinds
<1> QED BY <1>1, <1>2, <1>3, TakenObject DEF SamePricing

LEMMA RowsTakenAt ==
  ASSUME ShopInv, NEW u \in Consumers, CanCheckout(u), NEW c \in Commodities,
         cartItems[u][c] > 0
  PROVE  /\ RowsTaken(cartItems[u])[c] \in CommodityRecord
         /\ RowsTaken(cartItems[u])[c].storage =
              IF cartItems[u][c] <= commodities[c].storage
              THEN commodities[c].storage - cartItems[u][c]
              ELSE commodities[c].storage
         /\ SamePricing(RowsTaken(cartItems[u])[c], commodities[c])
<1>1. PICK x \in CommodityRecord, n \in Nat : x = commodities[c] /\ n = cartItems[u][c]
  BY CheckoutFinds
<1>2. x.storage \in Int
  BY DEF CommodityRecord
<1>3. CASE n <= x.storage
  <2>1. RowsTaken(cartItems[u])[c] = [x EXCEPT !.storage = @ - n]
    BY <1>1, <1>2, <1>3 DEF RowsTaken
  <2> QED BY <1>1, <1>3, <2>1, TakenObject
<1>4. CASE ~ (n <= x.storage)
  <2>1. RowsTaken(cartItems[u])[c] = x
    BY <1>1, <1>2, <1>4 DEF RowsTaken
  <2> QED BY <1>1, <1>4, <2>1 DEF SamePricing
<1> QED BY <1>3, <1>4

LEMMA CacheTakenIsPriced ==
  ASSUME ShopInv, NEW u \in Consumers, CanCheckout(u)
  PROVE  /\ Priced(commodities, CacheTaken(cartItems[u]))
         /\ Priced(RowsTaken(cartItems[u]), CacheTaken(cartItems[u]))
<1> DEFINE rows == RowsTaken(cartItems[u])
           cache == CacheTaken(cartItems[u])
<1>1. None \notin CommodityRecord
  BY CatalogAssumption
<1>2. Priced(commodities, commodityCache)
  BY DEF ShopInv, CatalogInv, GoodsInv
<1>3. ASSUME NEW c \in Commodities, cartItems[u][c] > 0
      PROVE  /\ commodities[c] \in CommodityRecord
             /\ rows[c] \in CommodityRecord /\ cache[c] \in CommodityRecord
             /\ SamePricing(cache[c], commodities[c])
             /\ SamePricing(cache[c], rows[c])
  BY <1>3, CacheTakenAt, RowsTakenAt, CheckoutFinds DEF SamePricing
<1>4. ASSUME NEW c \in Commodities, ~ (cartItems[u][c] > 0)
      PROVE  rows[c] = commodities[c] /\ cache[c] = commodityCache[c]
  BY <1>4 DEF RowsTaken, CacheTaken
<1>5. rows = [c \in Commodities |-> rows[c]] /\ cache = [c \in Commodities |-> cache[c]]
  BY DEF RowsTaken, CacheTaken
<1> HIDE DEF rows, cache
<1>6. /\ rows \in [Commodities -> CommodityRecord \cup {None}]
      /\ cache \in [Commodities -> CommodityRecord \cup {None}]
  BY <1>2, <1>3, <1>4, <1>5 DEF Priced
<1>7. Priced(commodities, cache)
  BY <1>1, <1>2, <1>3, <1>4, <1>6 DEF Priced
<1>8. Priced(rows, cache)
  BY <1>1, <1>2, <1>3, <1>4, <1>6 DEF Priced
<1> QED BY <1>7, <1>8 DEF rows, cache

\* The check on the object vouches for the row: both give up the same units.
LEMMA CheckoutKeepsCover ==
  ASSUME ShopInv, NEW u \in Consumers, CanCheckout(u),
         Covered(commodities, commodityCache)
  PROVE  /\ Covered(commodities, CacheTaken(cartItems[u]))
         /\ Covered(RowsTaken(cartItems[u]), CacheTaken(cartItems[u]))
<1> DEFINE rows == RowsTaken(cartItems[u])
           cache == CacheTaken(cartItems[u])
<1>1. None \notin CommodityRecord
  BY CatalogAssumption
<1>2. ASSUME NEW c \in Commodities, cartItems[u][c] > 0
      PROVE  /\ cache[c] # None /\ rows[c] # None
             /\ cache[c].storage <= commodities[c].storage
             /\ cache[c].storage <= rows[c].storage
  <2>1. /\ commodities[c] \in CommodityRecord /\ Found(c) \in CommodityRecord
        /\ cartItems[u][c] \in Nat
        /\ cartItems[u][c] <= Found(c).storage
    BY <1>2, CheckoutFinds
  <2>2. Found(c).storage <= commodities[c].storage
    <3>1. Found(c) = commodityCache[c]
      BY CoveredMeansLoaded DEF ShopInv, CatalogInv
    <3> QED BY <1>1, <2>1, <3>1 DEF Covered
  <2>3. Found(c).storage \in Int /\ commodities[c].storage \in Int
    BY <2>1 DEF CommodityRecord
  <2>4. cache[c].storage = Found(c).storage - cartItems[u][c]
        /\ cache[c] \in CommodityRecord
    BY <1>2, CacheTakenAt
  <2>5. rows[c].storage = commodities[c].storage - cartItems[u][c]
        /\ rows[c] \in CommodityRecord
    BY <1>2, <2>1, <2>2, <2>3, RowsTakenAt
  <2> QED BY <1>1, <2>1, <2>2, <2>3, <2>4, <2>5
<1>3. ASSUME NEW c \in Commodities, ~ (cartItems[u][c] > 0)
      PROVE  rows[c] = commodities[c] /\ cache[c] = commodityCache[c]
  BY <1>3 DEF RowsTaken, CacheTaken
<1> HIDE DEF rows, cache
<1>4. Covered(commodities, cache) /\ Covered(rows, cache)
  BY <1>2, <1>3 DEF Covered
<1> QED BY <1>4 DEF rows, cache

LEMMA RowsTakenKeepListings ==
  ASSUME ShopInv, NEW u \in Consumers, CanCheckout(u),
         commodities' = RowsTaken(cartItems[u])
  PROVE  KeptListed
<1>1. ASSUME NEW c \in Commodities, commodities[c] # None
      PROVE  /\ commodities'[c] # None
             /\ commodities'[c].merchant = commodities[c].merchant
             /\ commodities'[c].type = commodities[c].type
  <2>1. CASE cartItems[u][c] > 0
    BY <2>1, RowsTakenAt, CatalogAssumption DEF SamePricing
  <2>2. CASE ~ (cartItems[u][c] > 0)
    BY <1>1, <2>2 DEF RowsTaken
  <2> QED BY <2>1, <2>2
<1> QED BY <1>1 DEF KeptListed

\* An order keeps its bounds while a step keeps its goods listed.
LEMMA OrderStaysBounded ==
  ASSUME OrdersInv, KeptListed, NEW i \in 1..Len(orders), NEW p,
         p.items = orders[i].items, p.price = orders[i].price
  PROVE  Bounded(p)'
<1>1. PICK o : o = orders[i]
  OBVIOUS
<1>2. Bounded(o)
  BY <1>1 DEF OrdersInv, OrdersBounded
<1>3. \A c \in Contents(o.items) : commodities'[c].merchant = commodities[c].merchant
  BY <1>1 DEF OrdersInv, OrdersListed, KeptListed, Contents
<1> QED BY <1>1, <1>2, <1>3, StaysBounded

LEMMA OrderCreatedKeepsInv ==
  ASSUME ShopInv, NEW u \in Consumers, CanCheckout(u),
         NEW status \in {"PENDING", "PAID"}, OrderCreated(u, status)
  PROVE  GoodsInv' /\ OrdersInv'
<1>1. PICK new \in OrderRecord : new = OrderFromCart(u, status)
  BY OrderFromCartTyped
<1>2. /\ orders' = Append(orders, new)
      /\ commodities' = RowsTaken(cartItems[u])
      /\ commodityCache' = CacheTaken(cartItems[u])
      /\ cartItems' = [cartItems EXCEPT ![u] = EmptyCart]
      /\ UNCHANGED <<supplied, aged>>
      /\ Bounded(new)
  BY <1>1 DEF OrderCreated
<1>3. orders \in Seq(OrderRecord) /\ orders' \in Seq(OrderRecord)
      /\ Len(orders') = Len(orders) + 1
      /\ \A i \in 1..Len(orders') :
           orders'[i] = IF i \in 1..Len(orders) THEN orders[i] ELSE new
  BY <1>2 DEF ShopInv, OrdersInv, OrdersTypeOK
<1>4. KeptListed
  BY <1>2, RowsTakenKeepListings
<1>5. GoodsInv'
  <2>1. Priced(commodities', commodityCache')
    BY <1>2, CacheTakenIsPriced
  <2>2. supplied' \in [Commodities -> Int]
    BY <1>2 DEF ShopInv, CatalogInv, GoodsInv
  <2> QED BY <2>1, <2>2, GoodsInvMeansPrimed
<1>6. OrdersTypeOK'
  <2>1. EmptyCart \in Bundle
    BY DEF EmptyCart, Bundle
  <2>2. cartItems' \in [Consumers -> Bundle]
    BY <1>2, <2>1 DEF ShopInv, OrdersInv, OrdersTypeOK
  <2>3. Len(orders) \in Nat
    BY <1>3
  <2>4. aged' \in 0..Len(orders')
    BY <1>2, <1>3, <2>3 DEF ShopInv, OrdersInv, OrdersTypeOK
  <2> QED BY <1>3, <2>2, <2>4 DEF OrdersTypeOK
<1>7. OrdersListed'
  <2> SUFFICES ASSUME NEW i \in 1..Len(orders'), NEW c \in Commodities,
                      orders'[i].items[c] > 0
               PROVE  commodities'[c] # None
    BY DEF OrdersListed
  <2>1. CASE i \in 1..Len(orders)
    BY <1>3, <1>4, <2>1 DEF ShopInv, OrdersInv, OrdersListed, KeptListed
  <2>2. CASE i \notin 1..Len(orders)
    <3>1. cartItems[u][c] > 0
      BY <1>1, <1>3, <2>2 DEF OrderFromCart
    <3>2. commodities[c] # None
      BY <3>1, CheckoutFinds, CatalogAssumption
    <3> QED BY <1>4, <3>2 DEF KeptListed
  <2> QED BY <2>1, <2>2
<1>8. OrdersBounded'
  <2> SUFFICES ASSUME NEW i \in 1..Len(orders')
               PROVE  Bounded(orders[i])'
    BY DEF OrdersBounded
  <2>1. PICK p : p = orders'[i]
    OBVIOUS
  <2>2. Bounded(p)'
    <3>1. CASE i \in 1..Len(orders)
      BY <1>3, <1>4, <2>1, <3>1, OrderStaysBounded DEF ShopInv
    <3>2. CASE i \notin 1..Len(orders)
      <4>1. p = new
        BY <1>3, <2>1, <3>2
      <4>2. \A c \in Contents(new.items) : commodities[c] # None
        BY <1>1, CheckoutFinds, CatalogAssumption DEF Contents, OrderFromCart
      <4>3. \A c \in Contents(new.items) :
              commodities'[c].merchant = commodities[c].merchant
        BY <1>4, <4>2 DEF KeptListed, Contents
      <4> QED BY <1>2, <4>1, <4>3, StaysBounded
    <3> QED BY <3>1, <3>2
  <2> QED BY <2>1, <2>2 DEF Bounded, Share, Charged, Contents
<1> QED BY <1>5, <1>6, <1>7, <1>8 DEF OrdersInv

LEMMA PlaceOrderKeepsInv ==
  ASSUME ShopInv, NEW u \in Consumers, PlaceOrder(u)
  PROVE  ShopInv'
<1>1. CanCheckout(u) /\ OrderCreated(u, "PENDING") /\ LookUpUser(u)
  BY DEF PlaceOrder
<1>2. AccountsInv'
  BY <1>1, LookUpUserKeepsInv DEF ShopInv, CatalogInv, Users
<1>3. GoodsInv' /\ OrdersInv'
  BY <1>1, OrderCreatedKeepsInv
<1>4. CoverInv'
  <2>1. restarts' = restarts
    BY <1>1 DEF LookUpUser
  <2> QED BY <1>1, <2>1, CheckoutKeepsCover DEF ShopInv, CoverInv, OrderCreated
<1> QED BY <1>2, <1>3, <1>4 DEF ShopInv, CatalogInv

LEMMA PayNowRefusedKeepsInv ==
  ASSUME ShopInv, NEW u \in Consumers, PayNowRefused(u)
  PROVE  ShopInv'
<1>1. /\ CanCheckout(u) /\ LookUpUser(u)
      /\ commodityCache' = CacheTaken(cartItems[u])
      /\ UNCHANGED <<commodities, supplied, cartItems, orders, aged>>
  BY DEF PayNowRefused, orderVars
<1>2. AccountsInv'
  BY <1>1, LookUpUserKeepsInv DEF ShopInv, CatalogInv, Users
<1>3. GoodsInv'
  <2>1. Priced(commodities', commodityCache')
    BY <1>1, CacheTakenIsPriced
  <2> QED BY <1>1, <2>1, GoodsInvMeansPrimed DEF ShopInv, CatalogInv, GoodsInv
<1>4. OrdersInv'
  BY <1>1, OrdersStayListed DEF ShopInv
<1>5. CoverInv'
  <2>1. restarts' = restarts
    BY <1>1 DEF LookUpUser
  <2> QED BY <1>1, <2>1, CheckoutKeepsCover DEF ShopInv, CoverInv
<1> QED BY <1>2, <1>3, <1>4, <1>5 DEF ShopInv, CatalogInv

-----------------------------------------------------------------------------
(* Payment. *)

\* What the items of an order cost.
LEMMA ContentsFinite ==
  ASSUME NEW o \in OrderRecord
  PROVE  /\ IsFiniteSet(Contents(o.items))
         /\ Contents(o.items) \in SUBSET Commodities
         /\ \A c \in Contents(o.items) : Charged(o, c) * o.items[c] \in Int
<1>1. Contents(o.items) \in SUBSET Commodities
  BY DEF Contents
<1>2. IsFiniteSet(Contents(o.items))
  BY <1>1, ShopAssumption, FS_Subset
<1>3. o.items \in [Commodities -> Nat] /\ o.price \in [Commodities -> Int]
  BY DEF OrderRecord, Bundle
<1>4. \A c \in Contents(o.items) : Charged(o, c) \in Int /\ o.items[c] \in Int
  BY <1>1, <1>3 DEF Charged
<1> QED BY <1>1, <1>2, <1>4, IntTimesInt

LEMMA AmountsAreIntegers ==
  ASSUME NEW o \in OrderRecord
  PROVE  Total(o) \in Int /\ \A m : Share(o, m) \in Int
<1> DEFINE S == Contents(o.items)
           f == [c \in S |-> Charged(o, c) * o.items[c]]
<1>1. IsFiniteSet(S) /\ f \in [S -> Int] /\ Total(o) = SumOf(f)
  BY ContentsFinite DEF Total
<1>2. ASSUME NEW m
      PROVE  Share(o, m) \in Int
  <2> DEFINE g == [c \in S |->
                     IF commodities[c].merchant = m THEN Charged(o, c) * o.items[c] ELSE 0]
  <2>1. g \in [S -> Int] /\ Share(o, m) = SumOf(g)
    BY ContentsFinite DEF Share
  <2> HIDE DEF S, f, g
  <2> QED BY <1>1, <2>1, SumIsInteger
<1> HIDE DEF S, f
<1> QED BY <1>1, <1>2, SumIsInteger

\* What a merchant gets for an order: no loss, at least the share, and the
\* share exactly if no item has a negative price.
Gains(o, gain) ==
  \A m \in Merchants :
    /\ gain[m] \in Nat
    /\ gain[m] >= Share(o, m)
    /\ Regular(o) => gain[m] = Share(o, m)

\* addBalance for every item.
LEMMA GainsNow ==
  ASSUME NEW o \in OrderRecord
  PROVE  Gains(o, [m \in Merchants |-> GainNow(o, m)])
<1> SUFFICES ASSUME NEW m \in Merchants
             PROVE  /\ GainNow(o, m) \in Nat
                    /\ GainNow(o, m) >= Share(o, m)
                    /\ Regular(o) => GainNow(o, m) = Share(o, m)
  BY DEF Gains
<1> DEFINE S == Contents(o.items)
           cost(c) == Charged(o, c) * o.items[c]
           f == [c \in S |-> IF commodities[c].merchant = m THEN cost(c) ELSE 0]
           g == [c \in S |-> IF commodities[c].merchant = m THEN Credit(cost(c)) ELSE 0]
<1>1. IsFiniteSet(S) /\ \A c \in S : cost(c) \in Int
  BY ContentsFinite
<1>2. GainNow(o, m) = SumOf(g) /\ Share(o, m) = SumOf(f)
  BY DEF GainNow, Share
<1>3. ASSUME NEW n \in Int
      PROVE  Credit(n) \in Nat /\ Credit(n) >= n /\ (n >= 0 => Credit(n) = n)
  BY DEF Credit, AddsToBalance
<1>4. ASSUME Regular(o), NEW c \in S
      PROVE  cost(c) >= 0
  <2>1. o.price[c] \in Nat /\ o.items[c] \in Nat
    BY <1>4 DEF Regular, Contents, OrderRecord, Bundle
  <2>2. \A x, y \in Nat : x * y >= 0
    OBVIOUS
  <2> QED BY <2>1, <2>2 DEF Charged
<1> HIDE DEF cost
<1>5. f \in [S -> Int] /\ g \in [S -> Nat] /\ \A c \in S : g[c] >= f[c]
  BY <1>1, <1>3
<1>6. Regular(o) => g = f
  BY <1>1, <1>3, <1>4
<1> HIDE DEF S, f, g
<1> QED BY <1>1, <1>2, <1>5, <1>6, SumIsNatural, SumAtLeast

\* addBalance once for every merchant.
LEMMA GainsLater ==
  ASSUME NEW o \in OrderRecord
  PROVE  Gains(o, [m \in Merchants |-> GainLater(o, m)])
<1> SUFFICES ASSUME NEW m \in Merchants
             PROVE  /\ GainLater(o, m) \in Nat
                    /\ GainLater(o, m) >= Share(o, m)
                    /\ Regular(o) => GainLater(o, m) = Share(o, m)
  BY DEF Gains
<1>1. Share(o, m) \in Int
  BY AmountsAreIntegers
<1>2. ASSUME Regular(o)
      PROVE  Share(o, m) >= 0
  BY <1>1, <1>2, GainsNow DEF Gains
<1> QED BY <1>1, <1>2 DEF GainLater, Credit, AddsToBalance

\* The consumer's object and the merchants' objects get new balances, and each
\* of their rows the balance of its object.
LEMMA SettleKeepsInv ==
  ASSUME AccountsInv, NEW o \in OrderRecord, NEW gain, Gains(o, gain), Settle(o, gain)
  PROVE  /\ AccountsInv'
         /\ \A u \in Users : users[u] # None => users'[u] # None
<1>1. o.user \in Consumers /\ Total(o) \in Int
  BY AmountsAreIntegers DEF OrderRecord
<1>2. /\ Known(o.user) # None
      /\ Total(o) > 0 /\ Total(o) <= Known(o.user).balance
      /\ userCache' = Settled(o, gain)
      /\ users' = RowsSaved(Parties(o), userCache')
      /\ UNCHANGED <<deposited, restarts>>
  BY DEF Settle, CanPay
<1>3. \A w \in Users : Known(w) \in UserRecord \cup {None}
  BY KnownIsTheRow DEF AccountsInv, AccountsTypeOK
<1>4. PICK S : S = Parties(o)
  OBVIOUS
<1>5. S \in SUBSET Users
  BY <1>1, <1>4 DEF Parties, Payees, Users
<1>6. ASSUME NEW w \in S
      PROVE  userCache'[w] \in UserRecord
  <2>1. PICK x \in UserRecord : x = Known(w)
    BY <1>2, <1>3, <1>4, <1>5, <1>6 DEF Parties, Payees
  <2>2. CASE w = o.user
    <3>1. userCache'[w] = [x EXCEPT !.balance = @ - Total(o)]
      BY <1>2, <1>5, <2>1, <2>2 DEF Settled
    <3>2. x.balance \in Nat /\ Total(o) <= x.balance
      BY <1>2, <2>1, <2>2 DEF UserRecord
    <3>3. x.balance - Total(o) \in Nat
      BY <1>1, <1>2, <3>2
    <3> QED BY <3>1, <3>3 DEF UserRecord
  <2>3. CASE w # o.user
    <3>1. w \in Merchants /\ w \in Payees(o)
      BY <1>4, <2>3 DEF Parties, Payees
    <3>2. userCache'[w] = [x EXCEPT !.balance = @ + gain[w]]
      BY <1>2, <1>5, <2>1, <2>3, <3>1 DEF Settled
    <3>3. x.balance + gain[w] \in Nat
      BY <3>1 DEF UserRecord, Gains
    <3> QED BY <3>2, <3>3 DEF UserRecord
  <2> QED BY <2>2, <2>3
<1>7. ASSUME NEW w \in Users \ S
      PROVE  userCache'[w] = userCache[w]
  BY <1>2, <1>4 DEF Settled, Parties
<1>8. userCache' \in [Users -> UserRecord \cup {None}]
  <2>1. userCache' = [w \in Users |-> userCache'[w]]
    BY <1>2 DEF Settled
  <2>2. \A w \in Users : userCache'[w] \in UserRecord \cup {None}
    BY <1>6, <1>7 DEF AccountsInv, AccountsTypeOK
  <2> QED BY <2>1, <2>2
<1>9. \A w \in S : userCache'[w] # None
  BY <1>6, AccountsAssumption
<1>10. users' = RowsSaved(S, userCache')
  BY <1>2, <1>4
<1>11. deposited' \in [Users -> 0..MaxDeposit] /\ UNCHANGED restarts
  BY <1>2 DEF AccountsInv, AccountsTypeOK
<1>12. \A u \in Users : users[u] # None => users'[u] # None
  BY <1>5, <1>9, <1>10 DEF RowsSaved
<1> QED BY <1>5, <1>7, <1>8, <1>9, <1>10, <1>11, <1>12, SavingIsCoherent

LEMMA PayNowKeepsInv ==
  ASSUME ShopInv, NEW u \in Consumers, PayNow(u)
  PROVE  ShopInv'
<1>1. PICK o, gain :
        /\ o \in OrderRecord
        /\ o = OrderFromCart(u, "PAID") /\ gain = [m \in Merchants |-> GainNow(o, m)]
        /\ CanCheckout(u) /\ OrderCreated(u, "PAID") /\ Settle(o, gain)
  BY OrderFromCartTyped DEF PayNow
<1>2. AccountsInv'
  BY <1>1, GainsNow, SettleKeepsInv DEF ShopInv, CatalogInv
<1>3. GoodsInv' /\ OrdersInv'
  BY <1>1, OrderCreatedKeepsInv
<1>4. CoverInv'
  <2>1. restarts' = restarts
    BY <1>1 DEF Settle
  <2> QED BY <1>1, <2>1, CheckoutKeepsCover DEF ShopInv, CoverInv, OrderCreated
<1> QED BY <1>2, <1>3, <1>4 DEF ShopInv, CatalogInv

\* A step that changes no more than the status of orders.
LEMMA StatusStepKeepsInv ==
  ASSUME OrdersInv, KeptListed, UNCHANGED <<cartItems, aged>>,
         orders' \in Seq(OrderRecord), Len(orders') = Len(orders),
         \A i \in 1..Len(orders) :
           orders'[i].items = orders[i].items /\ orders'[i].price = orders[i].price
  PROVE  OrdersInv'
<1>1. OrdersTypeOK'
  BY DEF OrdersInv, OrdersTypeOK
<1>2. OrdersListed'
  BY DEF OrdersInv, OrdersListed, KeptListed
<1>3. OrdersBounded'
  <2> SUFFICES ASSUME NEW i \in 1..Len(orders)
               PROVE  Bounded(orders[i])'
    BY DEF OrdersBounded
  <2>1. PICK p : p = orders'[i]
    OBVIOUS
  <2>2. Bounded(p)'
    BY <2>1, OrderStaysBounded
  <2> QED BY <2>1, <2>2 DEF Bounded, Share, Charged, Contents
<1> QED BY <1>1, <1>2, <1>3 DEF OrdersInv

LEMMA PayOrderKeepsInv ==
  ASSUME ShopInv, NEW u \in Consumers, NEW i \in 1..Len(orders), PayOrder(u, i)
  PROVE  ShopInv'
<1>1. orders \in Seq(OrderRecord)
  BY DEF ShopInv, OrdersInv, OrdersTypeOK
<1>2. PICK o, gain :
        /\ o \in OrderRecord
        /\ o = orders[i] /\ gain = [m \in Merchants |-> GainLater(o, m)]
        /\ Settle(o, gain)
  BY <1>1 DEF PayOrder
<1>3. /\ orders' = [orders EXCEPT ![i].status = "PAID"]
      /\ UNCHANGED <<commodities, commodityCache, supplied, cartItems, aged>>
  BY DEF PayOrder, goodsVars
<1>4. AccountsInv'
  BY <1>2, GainsLater, SettleKeepsInv DEF ShopInv, CatalogInv
<1>5. GoodsInv'
  BY <1>3 DEF ShopInv, CatalogInv, GoodsInv
<1>6. OrdersInv'
  <2>1. KeptListed
    BY <1>3 DEF KeptListed
  <2>2. orders' = [orders EXCEPT ![i] = [orders[i] EXCEPT !.status = "PAID"]]
    BY <1>3, <1>1
  <2>3. orders' \in Seq(OrderRecord) /\ Len(orders') = Len(orders)
    <3>1. [orders[i] EXCEPT !.status = "PAID"] \in OrderRecord
      <4>1. orders[i] \in OrderRecord
        BY <1>1
      <4> QED BY <4>1 DEF OrderRecord
    <3> QED BY <1>1, <2>2, <3>1
  <2>4. \A j \in 1..Len(orders) :
          orders'[j].items = orders[j].items /\ orders'[j].price = orders[j].price
    <3>1. \A j \in 1..Len(orders) : orders[j] \in OrderRecord
      BY <1>1
    <3> QED BY <1>1, <2>2, <3>1 DEF OrderRecord
  <2> QED BY <1>3, <2>1, <2>3, <2>4, StatusStepKeepsInv DEF ShopInv
<1>7. CoverInv'
  <2>1. restarts' = restarts
    BY <1>2 DEF Settle
  <2> QED BY <1>3, <2>1 DEF ShopInv, CoverInv
<1> QED BY <1>4, <1>5, <1>6, <1>7 DEF ShopInv, CatalogInv

-----------------------------------------------------------------------------
(* Cancellation. *)

LEMMA SmallestOf ==
  ASSUME NEW S \in SUBSET Nat, S # {}
  PROVE  Min(S) \in S
<1> DEFINE R == {ss \in Nat \X Nat : ss[1] < ss[2]}
<1>1. IsWellFoundedOn(R, Nat)
  BY NatLessThanWellFounded DEF OpToRel
<1> HIDE DEF R
<1>2. PICK x \in S : \A y \in S : ~ (<<y, x>> \in R)
  BY <1>1, WFMin
<1>3. ASSUME NEW y \in S
      PROVE  x <= y
  <2>1. x \in Nat /\ y \in Nat
    OBVIOUS
  <2>2. y < x => <<y, x>> \in R
    BY <2>1 DEF R
  <2> QED BY <1>2, <2>1, <2>2
<1> QED BY <1>3 DEF Min

\* What a cancelled order holds is listed and counted.
LEMMA HoldingMeans ==
  ASSUME ShopInv, NEW S \in SUBSET (1..Len(orders)), NEW c \in Commodities,
         Holding(S, c) # {}
  PROVE  /\ commodities[c] \in CommodityRecord
         /\ Found(c) \in CommodityRecord
         /\ SamePricing(Found(c), commodities[c])
         /\ orders[Min(Holding(S, c))].items[c] \in Nat
<1>1. orders \in Seq(OrderRecord)
  BY DEF ShopInv, OrdersInv, OrdersTypeOK
<1>2. PICK i \in S : orders[i].items[c] > 0
  BY DEF Holding
<1>3. commodities[c] # None
  BY <1>2 DEF ShopInv, OrdersInv, OrdersListed
<1>4. PICK H : H = Holding(S, c)
  OBVIOUS
<1>5. H \in SUBSET (1..Len(orders)) /\ H # {}
  BY <1>4 DEF Holding
<1>6. Min(H) \in 1..Len(orders)
  <2>1. H \in SUBSET Nat
    BY <1>1, <1>5
  <2> QED BY <1>5, <2>1, SmallestOf
<1>7. orders[Min(H)].items[c] \in Nat
  <2>1. PICK o \in OrderRecord : o = orders[Min(H)]
    BY <1>1, <1>6
  <2>2. o.items \in [Commodities -> Nat]
    BY DEF OrderRecord, Bundle
  <2> QED BY <2>1, <2>2
<1> QED BY <1>3, <1>4, <1>7, FoundIsPriced
        DEF ShopInv, CatalogInv, GoodsInv, Priced

\* A record that is given more stock keeps its pricing.
LEMMA RestockedRecord ==
  ASSUME NEW x \in CommodityRecord, NEW n \in Nat
  PROVE  /\ [x EXCEPT !.storage = @ + n] \in CommodityRecord
         /\ [x EXCEPT !.storage = @ + n].storage = x.storage + n
         /\ SamePricing([x EXCEPT !.storage = @ + n], x)
BY DEF CommodityRecord, SamePricing

LEMMA ReturnedAt ==
  ASSUME ShopInv, NEW S \in SUBSET (1..Len(orders)), NEW c \in Commodities,
         Holding(S, c) # {}, Returned(S, c) \in Nat
  PROVE  /\ RowsReturned(S)[c] \in CommodityRecord
         /\ RowsReturned(S)[c].storage = commodities[c].storage + Returned(S, c)
         /\ SamePricing(RowsReturned(S)[c], commodities[c])
         /\ CacheReturned(S)[c] \in CommodityRecord
         /\ commodityCache[c] # None =>
              CacheReturned(S)[c].storage = commodityCache[c].storage + Returned(S, c)
         /\ SamePricing(CacheReturned(S)[c], Found(c))
<1>1. PICK x \in CommodityRecord, y \in CommodityRecord, n \in Nat, k \in Nat :
        /\ x = commodities[c] /\ y = Found(c) /\ n = Returned(S, c)
        /\ k = IF commodityCache[c] = None
               THEN orders[Min(Holding(S, c))].items[c] ELSE 0
  BY HoldingMeans
<1>2. RowsReturned(S)[c] = [x EXCEPT !.storage = @ + n]
  BY <1>1 DEF RowsReturned
<1>3. CacheReturned(S)[c] = [y EXCEPT !.storage = @ + (n + k)]
  <2>1. CacheReturned(S)[c] = [y EXCEPT !.storage = @ + n + k]
    BY <1>1 DEF CacheReturned
  <2>2. y.storage + n + k = y.storage + (n + k)
    BY <1>1 DEF CommodityRecord
  <2> QED BY <2>1, <2>2
<1>4. n + k \in Nat /\ y.storage \in Int
  BY DEF CommodityRecord
<1>5. commodityCache[c] # None => y = commodityCache[c] /\ k = 0
  BY <1>1 DEF Found
<1> QED BY <1>1, <1>2, <1>3, <1>4, <1>5, RestockedRecord

LEMMA CancelOrdersKeepsInv ==
  ASSUME ShopInv, NEW S \in SUBSET (1..Len(orders)), CancelOrders(S)
  PROVE  /\ GoodsInv'
         /\ OrdersInv'
         /\ Covered(commodities, commodityCache) => Covered(commodities', commodityCache')
<1>1. /\ \A c \in Commodities : Returned(S, c) \in Nat
      /\ orders' = [i \in 1..Len(orders) |->
                      IF i \in S THEN [orders[i] EXCEPT !.status = "CANCELLED"]
                                 ELSE orders[i]]
      /\ commodities' = RowsReturned(S)
      /\ commodityCache' = CacheReturned(S)
      /\ UNCHANGED <<supplied, cartItems, aged>>
  BY ShopAssumption DEF CancelOrders
<1>2. None \notin CommodityRecord /\ Priced(commodities, commodityCache)
  BY CatalogAssumption DEF ShopInv, CatalogInv, GoodsInv
<1>3. ASSUME NEW c \in Commodities, Holding(S, c) # {}
      PROVE  /\ commodities[c] \in CommodityRecord
             /\ commodities'[c] \in CommodityRecord
             /\ commodityCache'[c] \in CommodityRecord
             /\ SamePricing(commodities'[c], commodities[c])
             /\ SamePricing(commodityCache'[c], commodities'[c])
             /\ commodities'[c].storage = commodities[c].storage + Returned(S, c)
             /\ commodityCache[c] # None =>
                  commodityCache'[c].storage = commodityCache[c].storage + Returned(S, c)
  BY <1>1, <1>3, ReturnedAt, HoldingMeans DEF SamePricing
<1>4. ASSUME NEW c \in Commodities, Holding(S, c) = {}
      PROVE  commodities'[c] = commodities[c] /\ commodityCache'[c] = commodityCache[c]
  BY <1>1, <1>4 DEF RowsReturned, CacheReturned
<1>5. /\ commodities' = [c \in Commodities |-> commodities'[c]]
      /\ commodityCache' = [c \in Commodities |-> commodityCache'[c]]
  BY <1>1 DEF RowsReturned, CacheReturned
<1>6. GoodsInv'
  <2>1. /\ commodities' \in [Commodities -> CommodityRecord \cup {None}]
        /\ commodityCache' \in [Commodities -> CommodityRecord \cup {None}]
    BY <1>2, <1>3, <1>4, <1>5 DEF Priced
  <2>2. Priced(commodities', commodityCache')
    BY <1>2, <1>3, <1>4, <2>1 DEF Priced
  <2>3. supplied' \in [Commodities -> Int]
    BY <1>1 DEF ShopInv, CatalogInv, GoodsInv
  <2> QED BY <2>2, <2>3, GoodsInvMeansPrimed
<1>7. KeptListed
  BY <1>2, <1>3, <1>4 DEF KeptListed, SamePricing
<1>8. OrdersInv'
  <2>1. orders \in Seq(OrderRecord)
    BY DEF ShopInv, OrdersInv, OrdersTypeOK
  <2>2. \A i \in 1..Len(orders) :
          /\ orders'[i] \in OrderRecord
          /\ orders'[i].items = orders[i].items
          /\ orders'[i].price = orders[i].price
    <3> SUFFICES ASSUME NEW i \in 1..Len(orders)
                 PROVE  /\ orders'[i] \in OrderRecord
                        /\ orders'[i].items = orders[i].items
                        /\ orders'[i].price = orders[i].price
      OBVIOUS
    <3>1. PICK o \in OrderRecord : o = orders[i]
      BY <2>1
    <3>2. orders'[i] \in {o, [o EXCEPT !.status = "CANCELLED"]}
      BY <1>1, <3>1
    <3> QED BY <3>1, <3>2 DEF OrderRecord
  <2>3. orders' \in Seq(OrderRecord) /\ Len(orders') = Len(orders)
    BY <1>1, <2>1, <2>2
  <2> QED BY <1>1, <1>7, <2>2, <2>3, StatusStepKeepsInv DEF ShopInv
<1>9. ASSUME Covered(commodities, commodityCache)
      PROVE  Covered(commodities', commodityCache')
  <2> SUFFICES ASSUME NEW c \in Commodities, commodities'[c] # None
               PROVE  commodityCache'[c] # None
                      /\ commodityCache'[c].storage <= commodities'[c].storage
    BY DEF Covered
  <2>1. CASE Holding(S, c) # {}
    <3>1. commodityCache[c] # None
          /\ commodityCache[c].storage <= commodities[c].storage
      BY <1>2, <1>3, <1>9, <2>1 DEF Covered
    <3>2. commodities[c].storage \in Int /\ commodityCache[c].storage \in Int
      BY <1>2, <1>3, <2>1, <3>1 DEF Priced, CommodityRecord
    <3> QED BY <1>1, <1>2, <1>3, <2>1, <3>1, <3>2
  <2>2. CASE Holding(S, c) = {}
    BY <1>4, <1>9, <2>2 DEF Covered
  <2> QED BY <2>1, <2>2
<1> QED BY <1>6, <1>8, <1>9

LEMMA CancelOrderKeepsInv ==
  ASSUME ShopInv, NEW u \in Consumers, NEW i \in 1..Len(orders), CancelOrder(u, i)
  PROVE  ShopInv'
<1>1. ConsumerRequest(u) /\ CancelOrders({i})
  BY DEF CancelOrder
<1>2. AccountsInv'
  BY <1>1, ConsumerRequestKeepsInv DEF ShopInv, CatalogInv
<1>3. restarts' = restarts
  BY <1>1 DEF ConsumerRequest, LookUpUser
<1> QED BY <1>1, <1>2, <1>3, CancelOrdersKeepsInv, {i} \in SUBSET (1..Len(orders))
        DEF ShopInv, CatalogInv, CoverInv

LEMMA CancelExpiredOrdersKeepsInv ==
  ASSUME ShopInv, CancelExpiredOrders
  PROVE  ShopInv'
<1>1. PICK S : S = Overdue
  OBVIOUS
<1>2. S \in SUBSET (1..Len(orders))
  BY <1>1 DEF Overdue, ShopInv, OrdersInv, OrdersTypeOK
<1>3. CancelOrders(S) /\ UNCHANGED accountVars
  BY <1>1 DEF CancelExpiredOrders
<1>4. AccountsInv' /\ restarts' = restarts
  BY <1>3, AccountsNextKeepsInv DEF ShopInv, CatalogInv, accountVars
<1> QED BY <1>2, <1>3, <1>4, CancelOrdersKeepsInv DEF ShopInv, CatalogInv, CoverInv

-----------------------------------------------------------------------------

LEMMA ShopInitInv == ShopInit => ShopInv
<1> SUFFICES ASSUME ShopInit PROVE ShopInv
  OBVIOUS
<1>1. CatalogInv
  BY CatalogInitInv DEF ShopInit
<1>2. OrdersInv
  BY DEF ShopInit, OrdersInv, OrdersTypeOK, OrdersListed, OrdersBounded, EmptyCart, Bundle
<1>3. CoverInv
  BY DEF ShopInit, CatalogInit, CoverInv, Covered
<1> QED BY <1>1, <1>2, <1>3 DEF ShopInv

LEMMA CatalogStepKeepsInv ==
  ASSUME ShopInv, AccountStep \/ GoodsStep, UNCHANGED orderVars
  PROVE  ShopInv'
<1>1. CatalogInv'
  BY AccountStepKeepsInv, GoodsStepKeepsInv DEF ShopInv
<1>2. KeptListed /\ restarts' = restarts
      /\ (Covered(commodities, commodityCache) => Covered(commodities', commodityCache'))
  <2>1. CASE AccountStep
    BY <2>1 DEF AccountStep, goodsVars, KeptListed, Register, ChangePassword,
                Recharge, LookUpUser
  <2>2. CASE GoodsStep
    <3>1. KeptListed
      BY <2>2, GoodsStepKeepsListings DEF ShopInv, CatalogInv
    <3>2. Covered(commodities, commodityCache) => Covered(commodities', commodityCache')
      BY <2>2, GoodsStepKeepsCover DEF ShopInv, CatalogInv
    <3>3. restarts' = restarts
      <4>1. ASSUME NEW m \in Merchants, MerchantStep(m)
            PROVE  restarts' = restarts
        <5>1. MerchantRequest(m)
          BY <4>1 DEF MerchantStep, ListMyCommodities, AddCommodity, ModifyPrice,
                      ModifyStock, ModifyDiscount, OwnCommodity, BatchModifyDiscount
        <5> QED BY <5>1 DEF MerchantRequest, LookUpUser
      <4>2. ASSUME NEW S \in SUBSET Commodities, SearchCommodities(S)
            PROVE  restarts' = restarts
        BY <4>2 DEF SearchCommodities, accountVars
      <4>3. ASSUME NEW u \in Users, NEW c \in Commodities, RefusedRequest(u, c)
            PROVE  restarts' = restarts
        BY <4>3 DEF RefusedRequest, LookUpUser
      <4> QED BY <2>2, <4>1, <4>2, <4>3 DEF GoodsStep
    <3> QED BY <3>1, <3>2, <3>3
  <2> QED BY <2>1, <2>2
<1>3. OrdersInv'
  BY <1>2, OrdersStay DEF ShopInv, orderVars
<1> QED BY <1>1, <1>2, <1>3 DEF ShopInv, CoverInv

LEMMA AgeKeepsInv ==
  ASSUME ShopInv, Age
  PROVE  ShopInv'
<1>1. UNCHANGED <<catalogVars, cartItems, orders>> /\ aged' \in 0..Len(orders)
  BY DEF Age, ShopInv, OrdersInv, OrdersTypeOK
<1>2. CatalogInv'
  BY <1>1, CatalogStutters DEF ShopInv
<1>3. OrdersInv'
  <2>1. OrdersTypeOK' /\ OrdersListed'
    BY <1>1 DEF ShopInv, OrdersInv, OrdersTypeOK, OrdersListed, catalogVars, goodsVars
  <2>2. OrdersBounded'
    BY <1>1 DEF ShopInv, OrdersInv, OrdersBounded, Bounded, Share, Charged,
                Contents, catalogVars, goodsVars
  <2> QED BY <2>1, <2>2 DEF OrdersInv
<1>4. CoverInv'
  BY <1>1 DEF ShopInv, CoverInv, catalogVars, accountVars, goodsVars
<1> QED BY <1>2, <1>3, <1>4 DEF ShopInv

LEMMA RestartShopKeepsInv ==
  ASSUME ShopInv, RestartShop
  PROVE  ShopInv'
<1>1. CatalogInv'
  BY RestartCatalogKeepsInv DEF ShopInv, RestartShop
<1>2. OrdersInv'
  BY OrdersStayListed DEF ShopInv, RestartShop, RestartCatalog, orderVars
<1>3. restarts' # 0
  BY AccountsAssumption
     DEF RestartShop, RestartCatalog, RestartAccounts, ShopInv, CatalogInv,
         AccountsInv, AccountsTypeOK
<1> QED BY <1>1, <1>2, <1>3 DEF ShopInv, CoverInv

LEMMA ShopStutters ==
  ASSUME ShopInv, UNCHANGED shopVars
  PROVE  ShopInv'
<1>1. UNCHANGED catalogVars /\ UNCHANGED <<cartItems, orders, aged>>
  BY DEF shopVars, orderVars
<1>2. CatalogInv'
  BY <1>1, CatalogStutters DEF ShopInv
<1>3. OrdersInv'
  BY <1>1, OrdersStayListed DEF ShopInv, catalogVars, goodsVars
<1>4. CoverInv'
  BY <1>1 DEF ShopInv, CoverInv, catalogVars, accountVars, goodsVars
<1> QED BY <1>2, <1>3, <1>4 DEF ShopInv

LEMMA ShopNextKeepsInv ==
  ASSUME ShopInv, [ShopNext]_shopVars
  PROVE  ShopInv'
<1>1. ASSUME NEW u \in Consumers, CartStep(u)
      PROVE  ShopInv'
  <2>1. ASSUME NEW c \in Commodities, RemoveItem(u, c)
        PROVE  ShopInv'
    BY <2>1, RemoveItemKeepsInv
  <2>2. ASSUME NEW c \in Commodities, NEW n \in Quantities, AddItem(u, c, n)
        PROVE  ShopInv'
    BY <2>2, AddItemKeepsInv
  <2>3. ASSUME NEW c \in Commodities, NEW n \in Quantities, UpdateQuantity(u, c, n)
        PROVE  ShopInv'
    BY <2>3, UpdateQuantityKeepsInv
  <2> QED BY <1>1, <2>1, <2>2, <2>3, CheckoutRefusedKeepsInv, PlaceOrderKeepsInv,
             PayNowKeepsInv, PayNowRefusedKeepsInv DEF CartStep
<1>2. ASSUME NEW u \in Consumers, OrderStep(u)
      PROVE  ShopInv'
  BY <1>2, PayOrderKeepsInv, CancelOrderKeepsInv DEF OrderStep
<1> QED BY <1>1, <1>2, CatalogStepKeepsInv, CancelExpiredOrdersKeepsInv, AgeKeepsInv,
           RestartShopKeepsInv, ShopStutters DEF ShopNext

LEMMA ShopAlwaysInv == ShopSpec => []ShopInv
BY ShopInitInv, ShopNextKeepsInv, PTL DEF ShopSpec

\* No balance, of a row or of an object, is ever negative, and every quantity
\* in a cart or an order is a natural number, whatever requests, expiries and
\* restarts come, and whatever stocks and prices the merchants send.
THEOREM ShopTyped == ShopSpec => []ShopTypeOK
<1>1. ShopInv => ShopTypeOK
  BY GoodsInvMeans DEF ShopInv, CatalogInv, AccountsInv, OrdersInv, OrdersTypeOK, ShopTypeOK
<1> QED BY <1>1, ShopAlwaysInv, PTL

\* Payments, which move money between three and more objects and rows, leave
\* every user's object equal to the row.
THEOREM ShopUsersCoherent == ShopSpec => []UserCacheCoherent
<1>1. ShopInv => UserCacheCoherent
  BY DEF ShopInv, CatalogInv, AccountsInv
<1> QED BY <1>1, ShopAlwaysInv, PTL

\* The price list and the prices checkout charges agree, also beside carts,
\* orders and cold objects.
THEOREM ShopPricesCoherent == ShopSpec => []PricingCoherent
<1>1. ShopInv => PricingCoherent
  BY GoodsInvMeans DEF ShopInv, CatalogInv
<1> QED BY <1>1, ShopAlwaysInv, PTL

\* Until the first restart an object never promises more stock than the row
\* has: a checkout that passes the check always deducts from the row.
THEOREM ShopStockCovered == ShopSpec => []StockCover
<1>1. ShopInv => StockCover
  <2> SUFFICES ASSUME ShopInv, restarts = 0, NEW c \in Commodities,
                      commodityCache[c] # None
               PROVE  commodityCache[c].storage <= commodities[c].storage
    BY DEF StockCover
  <2>1. commodities[c] # None
    BY DEF ShopInv, CatalogInv, GoodsInv, Priced
  <2> QED BY <2>1 DEF ShopInv, CoverInv, Covered
<1> QED BY <1>1, ShopAlwaysInv, PTL

-----------------------------------------------------------------------------
(* Stock. *)

\* What each order holds of c: nothing once it is cancelled.
Hold(os, c) ==
  [i \in 1..Len(os) |-> IF os[i].status = "CANCELLED" THEN 0 ELSE os[i].items[c]]

LEMMA OrderFields ==
  ASSUME NEW os \in Seq(OrderRecord), NEW i \in 1..Len(os)
  PROVE  /\ os[i].user \in Consumers
         /\ os[i].status \in {"PENDING", "PAID", "CANCELLED"}
         /\ os[i].items \in [Commodities -> Nat]
         /\ os[i].price \in [Commodities -> Int]
<1>1. PICK o \in OrderRecord : o = os[i]
  OBVIOUS
<1>2. /\ o.user \in Consumers /\ o.status \in {"PENDING", "PAID", "CANCELLED"}
      /\ o.items \in [Commodities -> Nat] /\ o.price \in [Commodities -> Int]
  BY DEF OrderRecord, Bundle
<1> QED BY <1>1, <1>2

LEMMA HoldTyped ==
  ASSUME NEW os \in Seq(OrderRecord), NEW c \in Commodities
  PROVE  /\ Hold(os, c) \in [1..Len(os) -> Nat]
         /\ Hold(os, c) \in [1..Len(os) -> Int]
         /\ IsFiniteSet(1..Len(os))
         /\ SumOf(Hold(os, c)) \in Nat
<1>1. Hold(os, c) \in [1..Len(os) -> Nat]
  BY OrderFields DEF Hold
<1>2. IsFiniteSet(1..Len(os))
  BY FS_Interval
<1> QED BY <1>1, <1>2, SumIsNatural

LEMMA OrderedIsHeld ==
  ASSUME OrdersTypeOK, NEW c \in Commodities
  PROVE  Ordered(c) = SumOf(Hold(orders, c))
<1> DEFINE D == 1..Len(orders)
           T == OrdersWith("PENDING") \cup OrdersWith("PAID")
           f == [i \in D |-> orders[i].items[c]]
           h == Hold(orders, c)
<1>1. orders \in Seq(OrderRecord)
  BY DEF OrdersTypeOK
<1>2. f \in [D -> Int]
  BY <1>1, OrderFields
<1>3. T \in SUBSET D /\ \A i \in D : i \in T <=> orders[i].status # "CANCELLED"
  BY <1>1, OrderFields DEF OrdersWith
<1>4. /\ IsFiniteSet(D) /\ h \in [D -> Int]
      /\ \A i \in T : h[i] = f[i]
      /\ \A i \in D \ T : h[i] = 0
  BY <1>1, <1>3, HoldTyped DEF Hold
<1>5. Ordered(c) = SumOf(Restrict(f, T))
  BY <1>3 DEF Ordered, Restrict
<1> HIDE DEF D, T, f, h
<1>6. SumOf(h) = SumOf(Restrict(f, T))
  BY <1>2, <1>3, <1>4, SumFiltered
<1> QED BY <1>5, <1>6 DEF h

\* The units in the row and in the orders, against those supplied.
StockInv ==
  \A c \in Commodities :
    /\ Stocked(c) + SumOf(Hold(orders, c)) >= supplied[c]
    /\ restarts = 0 => Stocked(c) + SumOf(Hold(orders, c)) = supplied[c]

LEMMA StockedIsInteger ==
  ASSUME GoodsInv, NEW c \in Commodities
  PROVE  Stocked(c) \in Int
BY DEF GoodsInv, Priced, CommodityRecord, Stocked

\* A step that leaves what is stocked, held and supplied alone, and does not
\* undo a restart.
LEMMA QuietStock ==
  ASSUME StockInv, restarts' = 0 => restarts = 0, UNCHANGED supplied,
         \A c \in Commodities : Stocked(c)' = Stocked(c),
         \A c \in Commodities : SumOf(Hold(orders', c)) = SumOf(Hold(orders, c))
  PROVE  StockInv'
BY DEF StockInv

LEMMA RestartsGrow ==
  ASSUME AccountsInv, restarts' \in {restarts, restarts + 1}
  PROVE  restarts' = 0 => restarts = 0
BY AccountsAssumption DEF AccountsInv, AccountsTypeOK


\* A step that changes the row and the supply of one commodity by the same
\* number of units.
LEMMA SuppliedStock ==
  ASSUME StockInv, GoodsInv, OrdersTypeOK, NEW c \in Commodities, NEW row \in CommodityRecord,
         commodities' = [commodities EXCEPT ![c] = row],
         supplied' = [supplied EXCEPT ![c] = @ + (row.storage - Stocked(c))],
         UNCHANGED <<orders, restarts>>
  PROVE  StockInv'
<1> SUFFICES ASSUME NEW d \in Commodities
             PROVE  /\ (Stocked(d) + SumOf(Hold(orders, d)) >= supplied[d])'
                    /\ (restarts = 0 => Stocked(d) + SumOf(Hold(orders, d)) = supplied[d])'
  BY DEF StockInv
<1>1. None \notin CommodityRecord /\ row.storage \in Int
  BY CatalogAssumption DEF CommodityRecord
<1>2. /\ Stocked(d) \in Int /\ supplied[d] \in Int
      /\ SumOf(Hold(orders, d)) \in Nat
  BY StockedIsInteger, HoldTyped DEF GoodsInv, OrdersTypeOK
<1>3. SumOf(Hold(orders, d))' = SumOf(Hold(orders, d))
  OBVIOUS
<1>4. CASE d = c
  <2>1. Stocked(d)' = row.storage
    BY <1>1, <1>4 DEF Stocked, GoodsInv, Priced
  <2>2. supplied'[d] = supplied[d] + (row.storage - Stocked(d))
    BY <1>4 DEF GoodsInv
  <2> QED BY <1>1, <1>2, <1>3, <2>1, <2>2 DEF StockInv
<1>5. CASE d # c
  <2>1. Stocked(d)' = Stocked(d) /\ supplied'[d] = supplied[d]
    BY <1>5 DEF Stocked, GoodsInv, Priced
  <2> QED BY <1>3, <2>1 DEF StockInv
<1> QED BY <1>4, <1>5

\* A row that is changed but for its stock.
LEMMA RepricedStock ==
  ASSUME GoodsInv, NEW c \in Commodities, NEW row, row # None,
         commodities[c] # None, row.storage = commodities[c].storage,
         commodities' = [commodities EXCEPT ![c] = row]
  PROVE  \A d \in Commodities : Stocked(d)' = Stocked(d)
BY DEF Stocked, GoodsInv, Priced

LEMMA MerchantStepKeepsStock ==
  ASSUME StockInv, GoodsInv, OrdersTypeOK, NEW m \in Merchants, MerchantStep(m),
         UNCHANGED orders
  PROVE  StockInv'
<1>1. None \notin CommodityRecord
  BY CatalogAssumption
<1>2. restarts' = restarts
  <2>1. MerchantRequest(m)
    BY DEF MerchantStep, ListMyCommodities, AddCommodity, ModifyPrice,
           ModifyStock, ModifyDiscount, OwnCommodity, BatchModifyDiscount
  <2> QED BY <2>1 DEF MerchantRequest, LookUpUser
<1>3. ASSUME UNCHANGED supplied, \A d \in Commodities : Stocked(d)' = Stocked(d)
      PROVE  StockInv'
  BY <1>2, <1>3, QuietStock
<1>4. CASE ListMyCommodities(m)
  BY <1>3, <1>4 DEF ListMyCommodities, Stocked
<1>5. ASSUME NEW c \in Commodities, NEW t \in Types, NEW price \in Prices,
             NEW stock \in Stocks, AddCommodity(m, c, t, price, stock)
      PROVE  StockInv'
  <2>1. PICK new : new = [merchant |-> m, type |-> t, basePrice |-> price,
                          discount |-> FullPrice, storage |-> stock]
    OBVIOUS
  <2>2. new \in CommodityRecord /\ new.storage = stock /\ stock \in Int
    BY <1>5, <2>1, CatalogAssumption DEF AddCommodity, CommodityRecord
  <2>3. commodities' = [commodities EXCEPT ![c] = new] /\ Stocked(c) = 0
    BY <1>5, <2>1 DEF AddCommodity, Listed, Stocked
  <2>4. supplied' = [supplied EXCEPT ![c] = @ + (new.storage - Stocked(c))]
    BY <1>5, <2>2, <2>3 DEF AddCommodity
  <2> QED BY <1>2, <2>2, <2>3, <2>4, SuppliedStock
<1>6. ASSUME NEW c \in Commodities, NEW price \in Prices, ModifyPrice(m, c, price)
      PROVE  StockInv'
  <2>1. commodities[c] \in CommodityRecord
    BY <1>6, OwnCommodityIsListed DEF ModifyPrice
  <2>2. PICK row : row = [commodities[c] EXCEPT !.basePrice = price]
    OBVIOUS
  <2>3. row # None /\ row.storage = commodities[c].storage
    <3>1. row \in CommodityRecord
      BY <1>6, <2>1, <2>2, CatalogAssumption DEF ModifyPrice, CommodityRecord
    <3> QED BY <1>1, <2>1, <2>2, <3>1 DEF CommodityRecord
  <2>4. commodities' = [commodities EXCEPT ![c] = row] /\ UNCHANGED supplied
    BY <1>6, <2>2 DEF ModifyPrice
  <2> QED BY <1>1, <1>3, <2>1, <2>3, <2>4, RepricedStock
<1>7. ASSUME NEW c \in Commodities, NEW stock \in Stocks, ModifyStock(m, c, stock)
      PROVE  StockInv'
  <2>1. commodities[c] \in CommodityRecord
    BY <1>7, OwnCommodityIsListed DEF ModifyStock
  <2>2. PICK row : row = [commodities[c] EXCEPT !.storage = stock]
    OBVIOUS
  <2>3. row \in CommodityRecord /\ row.storage = stock
    BY <1>7, <2>1, <2>2, CatalogAssumption DEF ModifyStock, AllowedStock, CommodityRecord
  <2>4. commodities' = [commodities EXCEPT ![c] = row]
    BY <1>7, <2>2 DEF ModifyStock
  <2>5. Stocked(c) = commodities[c].storage
    BY <1>1, <2>1 DEF Stocked
  <2>6. supplied' = [supplied EXCEPT ![c] = @ + (row.storage - Stocked(c))]
    BY <1>7, <2>3, <2>5 DEF ModifyStock
  <2> QED BY <1>2, <2>3, <2>4, <2>6, SuppliedStock
<1>8. ASSUME NEW c \in Commodities, NEW d \in Discounts, ModifyDiscount(m, c, d)
      PROVE  StockInv'
  <2>1. commodities[c] \in CommodityRecord
    BY <1>8, OwnCommodityIsListed DEF ModifyDiscount
  <2>2. PICK row : row = [commodities[c] EXCEPT !.discount = d]
    OBVIOUS
  <2>3. row # None /\ row.storage = commodities[c].storage
    <3>1. row \in CommodityRecord
      BY <1>8, <2>1, <2>2, CatalogAssumption
         DEF ModifyDiscount, AllowedDiscount, CommodityRecord
    <3> QED BY <1>1, <2>1, <2>2, <3>1 DEF CommodityRecord
  <2>4. commodities' = [commodities EXCEPT ![c] = row] /\ UNCHANGED supplied
    BY <1>8, <2>2 DEF ModifyDiscount
  <2> QED BY <1>1, <1>3, <2>1, <2>3, <2>4, RepricedStock
<1>9. ASSUME NEW t \in Types, NEW d \in Discounts, BatchModifyDiscount(m, t, d)
      PROVE  StockInv'
  <2>1. commodities' = Discounted(commodities, Batch(m, t), d) /\ UNCHANGED supplied
    BY <1>9 DEF BatchModifyDiscount
  <2>2. d \in 0..FullPrice
    BY <1>9, CatalogAssumption DEF BatchModifyDiscount, AllowedDiscount
  <2>3. \A x \in CommodityRecord :
          /\ [x EXCEPT !.discount = d] \in CommodityRecord
          /\ [x EXCEPT !.discount = d].storage = x.storage
    BY <2>2 DEF CommodityRecord
  <2>4. ASSUME NEW c \in Commodities
        PROVE  Stocked(c)' = Stocked(c)
    <3>1. CASE commodities[c] = None
      BY <2>1, <3>1 DEF Discounted, Stocked
    <3>2. CASE commodities[c] # None
      <4>1. PICK x \in CommodityRecord : x = commodities[c]
        BY <3>2 DEF GoodsInv, Priced
      <4>2. commodities'[c] \in {x, [x EXCEPT !.discount = d]}
        BY <2>1, <3>2, <4>1 DEF Discounted
      <4>3. commodities'[c] # None /\ commodities'[c].storage = x.storage
        BY <1>1, <2>3, <4>2
      <4> QED BY <3>2, <4>1, <4>3 DEF Stocked
    <3> QED BY <3>1, <3>2
  <2> QED BY <1>3, <2>1, <2>4
<1> QED BY <1>4, <1>5, <1>6, <1>7, <1>8, <1>9 DEF MerchantStep


\* A new order holds what was in the cart.
LEMMA HoldGrows ==
  ASSUME NEW os \in Seq(OrderRecord), NEW new \in OrderRecord, NEW c \in Commodities,
         new.status # "CANCELLED"
  PROVE  SumOf(Hold(Append(os, new), c)) = SumOf(Hold(os, c)) + new.items[c]
<1> DEFINE more == Append(os, new)
           n == Len(os)
           f == Hold(os, c)
           g == Hold(more, c)
<1>1. /\ n \in Nat /\ more \in Seq(OrderRecord) /\ Len(more) = n + 1
      /\ more[n + 1] = new /\ \A i \in 1..n : more[i] = os[i]
  OBVIOUS
<1>2. f \in [1..n -> Int] /\ g \in [1..(n + 1) -> Int]
  BY <1>1, HoldTyped
<1>3. g[n + 1] = new.items[c] /\ \A i \in 1..n : g[i] = f[i]
  BY <1>1 DEF Hold
<1> HIDE DEF f, g, more, n
<1>4. SumOf(g) = SumOf(f) + g[n + 1]
  BY <1>1, <1>2, <1>3, SumAppended
<1> QED BY <1>3, <1>4 DEF f, g, more

LEMMA OrderCreatedKeepsStock ==
  ASSUME StockInv, ShopInv, NEW u \in Consumers, CanCheckout(u),
         NEW status \in {"PENDING", "PAID"}, OrderCreated(u, status),
         UNCHANGED restarts
  PROVE  StockInv'
<1>1. PICK new \in OrderRecord : new = OrderFromCart(u, status)
  BY OrderFromCartTyped
<1>2. /\ orders' = Append(orders, new)
      /\ commodities' = RowsTaken(cartItems[u])
      /\ UNCHANGED supplied
  BY <1>1 DEF OrderCreated
<1>3. new.items = cartItems[u] /\ new.status = status
  BY <1>1 DEF OrderFromCart
<1> SUFFICES ASSUME NEW c \in Commodities
             PROVE  /\ (Stocked(c) + SumOf(Hold(orders, c)) >= supplied[c])'
                    /\ (restarts = 0 => Stocked(c) + SumOf(Hold(orders, c)) = supplied[c])'
  BY DEF StockInv
<1>4. SumOf(Hold(orders', c)) = SumOf(Hold(orders, c)) + cartItems[u][c]
  BY <1>2, <1>3, HoldGrows DEF ShopInv, OrdersInv, OrdersTypeOK
<1>5. /\ Stocked(c) \in Int /\ supplied[c] \in Int /\ SumOf(Hold(orders, c)) \in Nat
      /\ cartItems[u][c] \in Nat
  BY StockedIsInteger, HoldTyped
     DEF ShopInv, CatalogInv, GoodsInv, OrdersInv, OrdersTypeOK, Bundle
<1>6. None \notin CommodityRecord
  BY CatalogAssumption
<1>7. CASE cartItems[u][c] > 0
  <2>1. commodities[c] \in CommodityRecord /\ Stocked(c) = commodities[c].storage
    BY <1>6, <1>7, CheckoutFinds DEF Stocked
  <2>2. Stocked(c)' = IF cartItems[u][c] <= Stocked(c)
                      THEN Stocked(c) - cartItems[u][c] ELSE Stocked(c)
    BY <1>2, <1>6, <1>7, <2>1, RowsTakenAt DEF Stocked
  <2>3. restarts = 0 => cartItems[u][c] <= Stocked(c)
    <3>1. SUFFICES ASSUME restarts = 0 PROVE cartItems[u][c] <= Stocked(c)
      OBVIOUS
    <3>2. Covered(commodities, commodityCache)
      BY <3>1 DEF ShopInv, CoverInv
    <3>3. Found(c) = commodityCache[c] /\ commodityCache[c].storage <= commodities[c].storage
      BY <1>6, <2>1, <3>2, CoveredMeansLoaded DEF ShopInv, CatalogInv, Covered
    <3>4. cartItems[u][c] <= Found(c).storage /\ Found(c).storage \in Nat
      BY <1>7, CheckoutFinds DEF CommodityRecord
    <3> QED BY <1>5, <2>1, <3>3, <3>4
  <2> QED BY <1>2, <1>4, <1>5, <2>2, <2>3 DEF StockInv
<1>8. CASE ~ (cartItems[u][c] > 0)
  <2>1. Stocked(c)' = Stocked(c)
    BY <1>2, <1>8 DEF Stocked, RowsTaken
  <2>2. cartItems[u][c] = 0
    BY <1>5, <1>8
  <2> QED BY <1>2, <1>4, <1>5, <2>1, <2>2 DEF StockInv
<1> QED BY <1>7, <1>8

\* A payment leaves what orders hold alone.
LEMMA PayOrderKeepsStock ==
  ASSUME StockInv, ShopInv, NEW u \in Consumers, NEW i \in 1..Len(orders), PayOrder(u, i)
  PROVE  StockInv'
<1>1. /\ orders' = [orders EXCEPT ![i].status = "PAID"]
      /\ orders[i].status = "PENDING"
      /\ UNCHANGED <<commodities, supplied, restarts>>
  BY DEF PayOrder, Open, Settle, goodsVars
<1>2. orders \in Seq(OrderRecord)
  BY DEF ShopInv, OrdersInv, OrdersTypeOK
<1>3. \A j \in 1..Len(orders) :
        /\ orders'[j].items = orders[j].items
        /\ orders'[j].status = IF j = i THEN "PAID" ELSE orders[j].status
  <2>1. \A j \in 1..Len(orders) : orders[j] \in OrderRecord
    BY <1>2
  <2> QED BY <1>1, <1>2, <2>1 DEF OrderRecord
<1>4. Len(orders') = Len(orders)
  BY <1>1, <1>2
<1>5. ASSUME NEW c \in Commodities
      PROVE  Hold(orders', c) = Hold(orders, c)
  BY <1>1, <1>3, <1>4 DEF Hold
<1>6. \A c \in Commodities : Stocked(c)' = Stocked(c)
  BY <1>1 DEF Stocked
<1> QED BY <1>1, <1>5, <1>6, QuietStock

\* What cancelled orders held is what is returned.
LEMMA HoldShrinks ==
  ASSUME NEW os \in Seq(OrderRecord), NEW more \in Seq(OrderRecord),
         Len(more) = Len(os), NEW c \in Commodities, NEW S \in SUBSET (1..Len(os)),
         \A i \in S : os[i].status = "PENDING" /\ more[i].status = "CANCELLED",
         \A i \in (1..Len(os)) \ S : more[i] = os[i]
  PROVE  SumOf(Hold(os, c)) = SumOf(Hold(more, c)) + SumOf([i \in S |-> os[i].items[c]])
<1> DEFINE D == 1..Len(os)
           f == Hold(os, c)
           g == Hold(more, c)
           r == [i \in S |-> os[i].items[c]]
<1>1. f \in [D -> Int] /\ g \in [D -> Int] /\ IsFiniteSet(D)
  BY HoldTyped
<1>2. Restrict(f, S) = r /\ S \in SUBSET D
  BY DEF Hold, Restrict
<1>3. Restrict(f, D \ S) = Restrict(g, D \ S)
  BY DEF Hold, Restrict
<1>4. \A i \in D \ S : g[i] = f[i]
  BY DEF Hold
<1>5. \A i \in S : g[i] = 0
  BY DEF Hold
<1> HIDE DEF D, f, g, r
<1>6. SumOf(f) = SumOf(Restrict(f, S)) + SumOf(Restrict(f, D \ S))
  BY <1>1, <1>2, SumSplit
<1>7. SumOf(g) = SumOf(Restrict(f, D \ S))
  <2> DEFINE T == D \ S
  <2>1. T \in SUBSET D /\ D \ T = S
    BY <1>2
  <2>2. /\ \A i \in T : g[i] = f[i]
        /\ \A i \in D \ T : g[i] = 0
    BY <1>4, <1>5, <2>1
  <2> HIDE DEF T
  <2>3. SumOf(g) = SumOf(Restrict(f, T))
    BY <1>1, <2>1, <2>2, SumFiltered
  <2> QED BY <2>3 DEF T
<1>8. SumOf(Restrict(f, S)) \in Int /\ SumOf(Restrict(f, D \ S)) \in Int
  BY <1>1, <1>2, PartIsInteger
<1>9. SumOf(f) = SumOf(g) + SumOf(r)
  BY <1>2, <1>6, <1>7, <1>8
<1> QED BY <1>9 DEF f, g, r


LEMMA CancelOrdersKeepsStock ==
  ASSUME StockInv, ShopInv, NEW S \in SUBSET (1..Len(orders)), CancelOrders(S),
         \A i \in S : Open(i), UNCHANGED restarts
  PROVE  StockInv'
<1>1. /\ \A c \in Commodities : Returned(S, c) \in Nat
      /\ orders' = [i \in 1..Len(orders) |->
                      IF i \in S THEN [orders[i] EXCEPT !.status = "CANCELLED"]
                                 ELSE orders[i]]
      /\ commodities' = RowsReturned(S)
      /\ UNCHANGED supplied
  BY ShopAssumption DEF CancelOrders
<1>2. orders \in Seq(OrderRecord) /\ orders' \in Seq(OrderRecord)
  BY CancelOrdersKeepsInv DEF ShopInv, OrdersInv, OrdersTypeOK
<1>3. Len(orders') = Len(orders)
  BY <1>1, <1>2
<1>4. \A i \in S : orders[i].status = "PENDING" /\ orders'[i].status = "CANCELLED"
  <2> SUFFICES ASSUME NEW i \in S
               PROVE  orders[i].status = "PENDING" /\ orders'[i].status = "CANCELLED"
    OBVIOUS
  <2>1. orders[i] \in OrderRecord
    BY <1>2
  <2>2. orders'[i] = [orders[i] EXCEPT !.status = "CANCELLED"]
    BY <1>1
  <2> QED BY <2>1, <2>2 DEF OrderRecord, Open
<1>5. \A i \in (1..Len(orders)) \ S : orders'[i] = orders[i]
  BY <1>1
<1> SUFFICES ASSUME NEW c \in Commodities
             PROVE  /\ (Stocked(c) + SumOf(Hold(orders, c)) >= supplied[c])'
                    /\ (restarts = 0 => Stocked(c) + SumOf(Hold(orders, c)) = supplied[c])'
  BY DEF StockInv
<1>6. SumOf(Hold(orders, c)) = SumOf(Hold(orders', c)) + Returned(S, c)
  <2>1. PICK more \in Seq(OrderRecord) : more = orders'
    BY <1>2
  <2>2. /\ Len(more) = Len(orders)
        /\ \A i \in S : orders[i].status = "PENDING" /\ more[i].status = "CANCELLED"
        /\ \A i \in (1..Len(orders)) \ S : more[i] = orders[i]
    BY <1>3, <1>4, <1>5, <2>1
  <2>3. SumOf(Hold(orders, c)) =
          SumOf(Hold(more, c)) + SumOf([i \in S |-> orders[i].items[c]])
    BY ZenonT(60), <1>2, <2>2, HoldShrinks
  <2> QED BY <2>1, <2>3 DEF Returned
<1>7. /\ Stocked(c) \in Int /\ supplied[c] \in Int /\ SumOf(Hold(orders', c)) \in Nat
      /\ Returned(S, c) \in Nat
  BY <1>1, <1>2, StockedIsInteger, HoldTyped DEF ShopInv, CatalogInv, GoodsInv
<1>8. None \notin CommodityRecord
  BY CatalogAssumption
<1>9. Stocked(c)' = Stocked(c) + Returned(S, c)
  <2>1. CASE Holding(S, c) # {}
    <3>1. commodities[c] \in CommodityRecord /\ commodities'[c] \in CommodityRecord
          /\ commodities'[c].storage = commodities[c].storage + Returned(S, c)
      BY <1>1, <2>1, HoldingMeans, ReturnedAt
    <3> QED BY <1>8, <3>1 DEF Stocked
  <2>2. CASE Holding(S, c) = {}
    <3> DEFINE r == [i \in S |-> orders[i].items[c]]
    <3>1. commodities'[c] = commodities[c]
      BY <1>1, <2>2 DEF RowsReturned
    <3>2. IsFiniteSet(S) /\ r \in [S -> Int] /\ \A i \in S : r[i] = 0
      <4>1. \A i \in S : orders[i].items[c] \in Nat /\ ~ (orders[i].items[c] > 0)
        BY <1>2, <2>2, OrderFields DEF Holding
      <4>2. IsFiniteSet(S)
        BY <1>2, HoldTyped, FS_Subset
      <4> QED BY <4>1, <4>2
    <3>3. Returned(S, c) = SumOf(r)
      BY DEF Returned
    <3> HIDE DEF r
    <3>4. SumOf(r) = 0
      BY <3>2, SumOfZeros
    <3> QED BY <1>7, <3>1, <3>3, <3>4 DEF Stocked
  <2> QED BY <2>1, <2>2
<1> QED BY <1>1, <1>6, <1>7, <1>9 DEF StockInv

LEMMA CatalogStepKeepsStock ==
  ASSUME StockInv, ShopInv, AccountStep \/ GoodsStep, UNCHANGED orderVars
  PROVE  StockInv'
<1>1. UNCHANGED orders
  BY DEF orderVars
<1>2. ASSUME UNCHANGED <<commodities, supplied, restarts>>
      PROVE  StockInv'
  BY <1>1, <1>2, QuietStock DEF Stocked
<1>3. CASE AccountStep
  BY <1>2, <1>3 DEF AccountStep, goodsVars, Register, ChangePassword, Recharge, LookUpUser
<1>4. ASSUME NEW m \in Merchants, MerchantStep(m)
      PROVE  StockInv'
  BY <1>1, <1>4, MerchantStepKeepsStock DEF ShopInv, CatalogInv, OrdersInv
<1>5. ASSUME NEW S \in SUBSET Commodities, SearchCommodities(S)
      PROVE  StockInv'
  BY <1>2, <1>5 DEF SearchCommodities, accountVars
<1>6. ASSUME NEW u \in Users, NEW c \in Commodities, RefusedRequest(u, c)
      PROVE  StockInv'
  BY <1>2, <1>6 DEF RefusedRequest, LookUpUser
<1> QED BY <1>3, <1>4, <1>5, <1>6 DEF GoodsStep

LEMMA ShopNextKeepsStock ==
  ASSUME StockInv, ShopInv, [ShopNext]_shopVars
  PROVE  StockInv'
<1>1. ASSUME UNCHANGED <<commodities, supplied, orders>>,
             restarts' \in {restarts, restarts + 1}
      PROVE  StockInv'
  <2>1. restarts' = 0 => restarts = 0
    BY <1>1, RestartsGrow DEF ShopInv, CatalogInv
  <2> QED BY <1>1, <2>1, QuietStock DEF Stocked
<1>2. ASSUME NEW u \in Consumers, CartStep(u)
      PROVE  StockInv'
  <2>1. ASSUME NEW c \in Commodities, NEW n \in Quantities,
               RemoveItem(u, c) \/ AddItem(u, c, n) \/ UpdateQuantity(u, c, n)
        PROVE  StockInv'
    BY <1>1, <2>1 DEF RemoveItem, AddItem, UpdateQuantity, CartRequest, ConsumerRequest,
                      LookUpUser
  <2>2. ASSUME NEW c \in Commodities, RemoveItem(u, c)
        PROVE  StockInv'
    BY <1>1, <2>2 DEF RemoveItem, CartRequest, ConsumerRequest, LookUpUser
  <2>3. ASSUME CheckoutRefused(u) \/ PayNowRefused(u)
        PROVE  StockInv'
    BY <1>1, <2>3 DEF CheckoutRefused, PayNowRefused, ConsumerRequest, LookUpUser, orderVars
  <2>4. CASE PlaceOrder(u)
    BY <2>4, OrderCreatedKeepsStock DEF PlaceOrder, LookUpUser
  <2>5. CASE PayNow(u)
    BY <2>5, OrderCreatedKeepsStock DEF PayNow, Settle
  <2> QED BY <1>2, <2>1, <2>2, <2>3, <2>4, <2>5 DEF CartStep
<1>3. ASSUME NEW u \in Consumers, NEW i \in 1..Len(orders), CancelOrder(u, i)
      PROVE  StockInv'
  <2>1. CancelOrders({i}) /\ Open(i) /\ UNCHANGED restarts
    BY <1>3 DEF CancelOrder, ConsumerRequest, LookUpUser
  <2>2. {i} \in SUBSET (1..Len(orders)) /\ \A j \in {i} : Open(j)
    BY <2>1
  <2> QED BY <2>1, <2>2, CancelOrdersKeepsStock
<1>4. CASE CancelExpiredOrders
  <2>1. PICK S : S = Overdue
    OBVIOUS
  <2>2. S \in SUBSET (1..Len(orders)) /\ \A i \in S : Open(i)
    BY <2>1 DEF Overdue, ShopInv, OrdersInv, OrdersTypeOK
  <2>3. CancelOrders(S) /\ UNCHANGED restarts
    BY <1>4, <2>1 DEF CancelExpiredOrders, accountVars
  <2> QED BY <2>2, <2>3, CancelOrdersKeepsStock
<1>5. CASE Age \/ RestartShop \/ UNCHANGED shopVars
  BY <1>1, <1>5 DEF Age, RestartShop, RestartCatalog, RestartAccounts, orderVars,
                    shopVars, catalogVars, accountVars, goodsVars
<1> QED BY <1>2, <1>3, <1>4, <1>5, PayOrderKeepsStock, CatalogStepKeepsStock
        DEF ShopNext, OrderStep

LEMMA ShopInitStock == ShopInit => StockInv
<1> SUFFICES ASSUME ShopInit, NEW c \in Commodities
             PROVE  /\ Stocked(c) + SumOf(Hold(orders, c)) >= supplied[c]
                    /\ restarts = 0 => Stocked(c) + SumOf(Hold(orders, c)) = supplied[c]
  BY DEF StockInv
<1>1. Stocked(c) = 0 /\ supplied[c] = 0 /\ orders = << >>
  BY DEF ShopInit, CatalogInit, Stocked
<1>2. DOMAIN Hold(orders, c) = {}
  BY <1>1 DEF Hold
<1>3. SumOf(Hold(orders, c)) = 0
  BY <1>2, SumOfNothing
<1> QED BY <1>1, <1>3

LEMMA ShopAlwaysStock == ShopSpec => [](ShopInv /\ StockInv)
<1>1. ShopInit => ShopInv /\ StockInv
  BY ShopInitInv, ShopInitStock
<1>2. (ShopInv /\ StockInv) /\ [ShopNext]_shopVars => (ShopInv /\ StockInv)'
  BY ShopNextKeepsInv, ShopNextKeepsStock
<1> QED BY <1>1, <1>2, PTL DEF ShopSpec

\* No unit disappears: not in a cancelled order, not by an expiry, not by a
\* refused payment, not over a restart.
THEOREM ShopStockNeverLost == ShopSpec => []StockNeverLost
<1>1. ShopInv /\ StockInv => StockNeverLost
  BY OrderedIsHeld DEF StockNeverLost, StockInv, ShopInv, OrdersInv
<1> QED BY <1>1, ShopAlwaysStock, PTL

\* Until the first restart every unit is in the row or in one order, once.
THEOREM ShopStockConserved == ShopSpec => []StockConserved
<1>1. ShopInv /\ StockInv => StockConserved
  BY OrderedIsHeld DEF StockConserved, StockInv, ShopInv, OrdersInv
<1> QED BY <1>1, ShopAlwaysStock, PTL

-----------------------------------------------------------------------------
(* Money. *)

BillRecord ==
  [buyer : Consumers, due : [Merchants -> -MaxAmount..MaxAmount], regular : BOOLEAN,
   status : {"PENDING", "PAID", "CANCELLED"}]

\* Who has goods on sale has an account.
SellersKnown ==
  \A c \in Commodities : commodities[c] # None => users[commodities[c].merchant] # None

\* A seller gets what is due, or at least that, and loses nothing.
Received(b, m) ==
  /\ Balances'[m] >= Balances[m]
  /\ Balances'[m] >= Balances[m] + b.due[m]
  /\ b.regular => Balances'[m] = Balances[m] + b.due[m]

\* A bill is paid: its buyer pays the sum, every seller gets what is due.
Moved(b) ==
  /\ SumOf(b.due) \in 1..Balances[b.buyer]
  /\ \A m \in Merchants : Received(b, m)
  /\ Balances' = [u \in Users |->
                    IF u = b.buyer THEN Balances[u] - SumOf(b.due)
                    ELSE IF u \in Merchants THEN Balances'[u]
                    ELSE Balances[u]]
  /\ UNCHANGED deposited

\* The ways in which a step of the shop changes money and bills.
PaidIn(u, a) ==
  /\ a > 0
  /\ Balances' = [Balances EXCEPT ![u] = @ + a]
  /\ deposited' = [deposited EXCEPT ![u] = @ + a]
  /\ UNCHANGED Bills

Billed(b) ==
  /\ Bills' = Append(Bills, b)
  /\ \/ b.status = "PENDING" /\ UNCHANGED <<Balances, deposited>>
     \/ b.status = "PAID" /\ Moved(b)

BillPaid(i) ==
  /\ Bills[i].status = "PENDING"
  /\ Bills' = [Bills EXCEPT ![i].status = "PAID"]
  /\ Moved(Bills[i])

BillsCancelled(S) ==
  /\ \A i \in S : Bills[i].status = "PENDING"
  /\ Bills' = [i \in 1..Len(Bills) |->
                 IF i \in S THEN [Bills[i] EXCEPT !.status = "CANCELLED"] ELSE Bills[i]]
  /\ UNCHANGED <<Balances, deposited>>

MoneyStep ==
  \/ UNCHANGED <<Balances, deposited, Bills>>
  \/ \E u \in Users, a \in Int : PaidIn(u, a)
  \/ \E b \in BillRecord : Billed(b)
  \/ \E i \in 1..Len(Bills) : BillPaid(i)
  \/ \E S \in SUBSET (1..Len(Bills)) : BillsCancelled(S)

\* A seller without goods in an order has no share of it.
LEMMA NoShare ==
  ASSUME NEW o \in OrderRecord, NEW m,
         \A c \in Contents(o.items) : commodities[c].merchant # m
  PROVE  Share(o, m) = 0
<1> DEFINE S == Contents(o.items)
           f == [c \in S |->
                   IF commodities[c].merchant = m THEN Charged(o, c) * o.items[c] ELSE 0]
<1>1. IsFiniteSet(S) /\ f \in [S -> Int] /\ \A c \in S : f[c] = 0
  BY ContentsFinite
<1>2. Share(o, m) = SumOf(f)
  BY DEF Share
<1> HIDE DEF S, f
<1> QED BY <1>1, <1>2, SumOfZeros

\* What the buyer pays is what the sellers get.
LEMMA TotalIsShared ==
  ASSUME NEW o \in OrderRecord,
         \A c \in Contents(o.items) : commodities[c].merchant \in Merchants
  PROVE  Total(o) = SumOf([m \in Merchants |-> Share(o, m)])
<1> DEFINE S == Contents(o.items)
           f == [c \in S |-> Charged(o, c) * o.items[c]]
           owner == [c \in S |-> commodities[c].merchant]
<1>1. IsFiniteSet(S) /\ f \in [S -> Int] /\ owner \in [S -> Merchants]
  BY ContentsFinite
<1>2. IsFiniteSet(Merchants)
  BY ShopAssumption
<1>3. Total(o) = SumOf(f)
  BY DEF Total
<1>4. \A m \in Merchants : Share(o, m) = SumOf(Belonging(f, owner, m))
  <2> TAKE m \in Merchants
  <2>1. Belonging(f, owner, m) =
          [c \in S |->
             IF commodities[c].merchant = m THEN Charged(o, c) * o.items[c] ELSE 0]
    BY DEF Belonging
  <2> QED BY <2>1 DEF Share
<1> HIDE DEF S, f, owner
<1>5. SumOf(f) = SumOf([m \in Merchants |-> SumOf(Belonging(f, owner, m))])
  BY <1>1, <1>2, SumGrouped
<1> QED BY <1>3, <1>4, <1>5

\* What an order names belongs to a seller.
LEMMA GoodsHaveSellers ==
  ASSUME ShopInv, NEW c \in Commodities, commodities[c] # None
  PROVE  commodities[c].merchant \in Merchants
<1>1. commodities[c] \in CommodityRecord
  BY DEF ShopInv, CatalogInv, GoodsInv, Priced
<1> QED BY <1>1 DEF CommodityRecord

LEMMA OrderedGoodsHaveSellers ==
  ASSUME ShopInv, NEW i \in 1..Len(orders)
  PROVE  \A c \in Contents(orders[i].items) :
           commodities[c] # None /\ commodities[c].merchant \in Merchants
BY GoodsHaveSellers DEF Contents, ShopInv, OrdersInv, OrdersListed

LEMMA BalanceIsNatural ==
  ASSUME AccountsInv, NEW u \in Users
  PROVE  Balance(u) \in Nat
BY DEF AccountsInv, AccountsTypeOK, UserRecord, Balance

LEMMA BillStatus ==
  \A o : /\ Bill(o).status = o.status /\ Bill(o).buyer = o.user
         /\ Bill(o).regular = Regular(o)
BY DEF Bill

\* The bill of an order within the bounds.
LEMMA BillTyped ==
  ASSUME NEW o \in OrderRecord, Bounded(o)
  PROVE  Bill(o) \in BillRecord
BY DEF Bill, BillRecord, Bounded, OrderRecord, Regular

LEMMA BillsTyped ==
  ASSUME ShopInv
  PROVE  /\ Bills \in Seq(BillRecord) /\ Len(Bills) = Len(orders)
         /\ \A i \in 1..Len(orders) : Bills[i] = Bill(orders[i])
<1>1. orders \in Seq(OrderRecord) /\ Len(orders) \in Nat
  BY DEF ShopInv, OrdersInv, OrdersTypeOK
<1>2. ASSUME NEW i \in 1..Len(orders)
      PROVE  Bill(orders[i]) \in BillRecord
  <2>1. PICK o \in OrderRecord : o = orders[i]
    BY <1>1
  <2>2. Bounded(o)
    BY <2>1 DEF ShopInv, OrdersInv, OrdersBounded
  <2> QED BY <2>1, <2>2, BillTyped
<1>3. Bills \in [1..Len(orders) -> BillRecord]
  BY <1>2 DEF Bills
<1> QED BY <1>1, <1>3 DEF Bills

\* A bill with the status it has.
LEMMA SameBill == \A o : Bill(o) = [Bill(o) EXCEPT !.status = o.status]
<1> TAKE o
<1>1. PICK d, r : d = [m \in Merchants |-> Share(o, m)] /\ r = Regular(o)
  OBVIOUS
<1>2. Bill(o) = [buyer |-> o.user, due |-> d, regular |-> r, status |-> o.status]
  BY <1>1 DEF Bill
<1> QED BY <1>2

\* While its goods stay listed, a bill stays what it was but for its status.
LEMMA BillStays ==
  ASSUME ShopInv, KeptListed, NEW i \in 1..Len(orders), NEW p,
         p.items = orders[i].items, p.price = orders[i].price, p.user = orders[i].user
  PROVE  Bill(p)' = [Bill(orders[i]) EXCEPT !.status = p.status]
<1>1. PICK o : o = orders[i]
  OBVIOUS
<1>2. \A c \in Contents(o.items) : commodities'[c].merchant = commodities[c].merchant
  BY <1>1 DEF ShopInv, OrdersInv, OrdersListed, KeptListed, Contents
<1>3. \A m \in Merchants : Share(p, m)' = Share(o, m)
  BY <1>1, <1>2, SameShares
<1>4. [m \in Merchants |-> Share(p, m)'] = Bill(o).due
  BY <1>3 DEF Bill
<1>5. Bill(p)' = [buyer |-> p.user, due |-> [m \in Merchants |-> Share(p, m)'],
                  regular |-> Regular(p), status |-> p.status]
  BY DEF Bill, Regular, Contents
<1>6. Regular(p) = Regular(o)
  BY <1>1 DEF Regular, Contents
<1>7. Bill(o) = [buyer |-> o.user, due |-> Bill(o).due, regular |-> Regular(o),
                 status |-> o.status]
  BY DEF Bill
<1> QED BY <1>1, <1>4, <1>5, <1>6, <1>7

\* The bills, while the orders stay and their goods stay listed.
LEMMA BillsStay ==
  ASSUME ShopInv, KeptListed, UNCHANGED orders
  PROVE  UNCHANGED Bills
<1>1. orders \in Seq(OrderRecord)
  BY DEF ShopInv, OrdersInv, OrdersTypeOK
<1>2. ASSUME NEW i \in 1..Len(orders)
      PROVE  Bill(orders[i])' = Bill(orders[i])
  <2>1. PICK o : o = orders[i]
    OBVIOUS
  <2>2. Bill(o)' = [Bill(o) EXCEPT !.status = o.status]
    BY <2>1, BillStays
  <2>3. Bill(o) = [Bill(o) EXCEPT !.status = o.status]
    BY SameBill
  <2>4. Bill(orders[i])' = Bill(o)'
    BY <2>1 DEF Bill, Regular, Share, Charged, Contents
  <2> QED BY <2>1, <2>2, <2>3, <2>4
<1>3. Bills' = [i \in 1..Len(orders) |-> Bill(orders[i])']
  BY DEF Bills
<1> QED BY <1>2, <1>3 DEF Bills

\* The balances, while no row changes its balance.
LEMMA BalancesStay ==
  ASSUME \A u \in Users : Balance(u)' = Balance(u)
  PROVE  UNCHANGED Balances
BY DEF Balances

\* A settlement pays the bill of its order.
LEMMA SettleMoves ==
  ASSUME AccountsInv, SellersKnown, NEW o \in OrderRecord, NEW gain, Gains(o, gain),
         Settle(o, gain),
         \A c \in Contents(o.items) :
           commodities[c] # None /\ commodities[c].merchant \in Merchants
  PROVE  Moved(Bill(o))
<1>1. /\ Known(o.user) # None
      /\ Total(o) > 0 /\ Total(o) <= Known(o.user).balance
      /\ userCache' = Settled(o, gain)
      /\ users' = RowsSaved(Parties(o), userCache')
      /\ UNCHANGED <<deposited, restarts>>
  BY DEF Settle, CanPay
<1>2. /\ Bill(o).buyer = o.user
      /\ Bill(o).due = [m \in Merchants |-> Share(o, m)]
  BY DEF Bill
<1>3. Total(o) = SumOf(Bill(o).due)
  BY <1>2, TotalIsShared
<1>4. o.user \in Consumers /\ o.user \in Users
  BY DEF OrderRecord, Users
<1>5. ASSUME NEW u \in Users, users[u] # None
      PROVE  Known(u) = users[u] /\ Balance(u) = users[u].balance
             /\ users[u] \in UserRecord
  BY <1>5, KnownIsTheRow DEF Balance, AccountsInv, AccountsTypeOK
<1>6. users[o.user] # None
  BY <1>1, <1>4, KnownIsTheRow
<1>7. \A u \in Users : Balance(u) \in Nat
  BY BalanceIsNatural
<1>8. \A m \in Merchants : Share(o, m) \in Int /\ gain[m] \in Nat
  BY AmountsAreIntegers DEF Gains
<1>9. ASSUME NEW m \in Merchants, m \notin Payees(o)
      PROVE  Share(o, m) = 0
  <2>1. \A c \in Contents(o.items) : commodities[c].merchant # m
    BY <1>5, <1>9 DEF Payees, SellersKnown, Contents, Users
  <2> QED BY <2>1, NoShare
<1>10. SumOf(Bill(o).due) \in 1..Balances[o.user]
  <2>1. Total(o) <= Balance(o.user) /\ Balance(o.user) \in Nat
    BY <1>1, <1>4, <1>5, <1>6, <1>7
  <2>2. Total(o) \in Int
    BY AmountsAreIntegers
  <2> QED BY <1>1, <1>3, <1>4, <2>1, <2>2 DEF Balances
<1>11. ASSUME NEW u \in Users
       PROVE  Balance(u)' = IF u = o.user THEN Balance(u) - Total(o)
                            ELSE IF u \in Payees(o) THEN Balance(u) + gain[u]
                            ELSE Balance(u)
  <2>1. None \notin UserRecord
    BY AccountsAssumption
  <2>2. CASE u = o.user
    <3>1. PICK x \in UserRecord : x = users[u]
      BY <1>5, <1>6, <2>2
    <3>2. users'[u] = [x EXCEPT !.balance = @ - Total(o)]
      BY <1>1, <1>5, <1>6, <2>2, <3>1 DEF Settled, RowsSaved, Parties
    <3>3. users'[u] # None /\ users'[u].balance = x.balance - Total(o)
      <4>1. x.balance - Total(o) \in Nat
        <5>1. Balances[o.user] = x.balance
          BY <1>4, <1>5, <1>6, <2>2, <3>1 DEF Balances
        <5>2. x.balance \in Nat
          BY DEF UserRecord
        <5>3. Total(o) \in 1..x.balance
          BY <1>3, <1>10, <5>1
        <5> QED BY <5>2, <5>3
      <4>2. [x EXCEPT !.balance = @ - Total(o)] \in UserRecord
        BY <4>1 DEF UserRecord
      <4> QED BY <2>1, <3>2, <4>2 DEF UserRecord
    <3> QED BY <1>5, <1>6, <2>2, <3>1, <3>3 DEF Balance
  <2>3. CASE u # o.user /\ u \in Payees(o)
    <3>1. u \in Merchants /\ users[u] # None
      BY <2>3, KnownIsTheRow DEF Payees
    <3>2. PICK x \in UserRecord : x = users[u]
      BY <1>5, <3>1
    <3>3. users'[u] = [x EXCEPT !.balance = @ + gain[u]]
      BY <1>1, <1>5, <2>3, <3>1, <3>2 DEF Settled, RowsSaved, Parties
    <3>4. users'[u] # None /\ users'[u].balance = x.balance + gain[u]
      <4>1. x.balance + gain[u] \in Nat
        BY <1>8, <3>1 DEF UserRecord
      <4>2. [x EXCEPT !.balance = @ + gain[u]] \in UserRecord
        BY <4>1 DEF UserRecord
      <4> QED BY <2>1, <3>3, <4>2 DEF UserRecord
    <3> QED BY <1>5, <2>3, <3>1, <3>2, <3>4 DEF Balance
  <2>4. CASE u # o.user /\ u \notin Payees(o)
    <3>1. users'[u] = users[u]
      BY <1>1, <2>4 DEF RowsSaved, Parties
    <3>2. Balance(u)' = Balance(u)
      BY <3>1 DEF Balance
    <3> QED BY <2>4, <3>2
  <2> QED BY <2>2, <2>3, <2>4
<1>12. \A u \in Users : u \notin Merchants => u \notin Payees(o)
  BY DEF Payees
<1>13. Balances' = [u \in Users |->
                      IF u = Bill(o).buyer THEN Balances[u] - SumOf(Bill(o).due)
                      ELSE IF u \in Merchants THEN Balances'[u]
                      ELSE Balances[u]]
  BY <1>2, <1>3, <1>11, <1>12 DEF Balances
<1>14. ASSUME NEW m \in Merchants
       PROVE  Received(Bill(o), m)
  <2>1. /\ m \in Users /\ m # o.user
        /\ Balances[m] = Balance(m) /\ Balances'[m] = Balance(m)'
        /\ Bill(o).due[m] = Share(o, m) /\ Bill(o).regular = Regular(o)
    BY <1>4, AccountsAssumption DEF Users, Balances, Bill
  <2>2. Share(o, m) \in Int /\ gain[m] \in Nat /\ Balance(m) \in Nat
    BY <1>7, <1>8, <2>1
  <2>3. CASE m \in Payees(o)
    <3>1. Balance(m)' = Balance(m) + gain[m]
      BY <1>11, <2>1, <2>3
    <3>2. gain[m] >= Share(o, m) /\ (Regular(o) => gain[m] = Share(o, m))
      BY DEF Gains
    <3> QED BY <2>1, <2>2, <3>1, <3>2 DEF Received
  <2>4. CASE m \notin Payees(o)
    <3>1. Balance(m)' = Balance(m) /\ Share(o, m) = 0
      BY <1>9, <1>11, <2>1, <2>4
    <3> QED BY <2>1, <2>2, <3>1 DEF Received
  <2> QED BY <2>3, <2>4
<1> QED BY <1>1, <1>2, <1>10, <1>13, <1>14 DEF Moved

\* A step of the accounts: somebody recharges, or no balance changes.
LEMMA AccountStepMoney ==
  ASSUME ShopInv, AccountStep, UNCHANGED orderVars
  PROVE  MoneyStep
<1>1. None \notin UserRecord
  BY AccountsAssumption
<1>2. UNCHANGED Bills
  <2>1. KeptListed /\ UNCHANGED orders
    BY DEF AccountStep, goodsVars, KeptListed, orderVars
  <2> QED BY <2>1, BillsStay
<1>3. ASSUME \A u \in Users : Balance(u)' = Balance(u), UNCHANGED deposited
      PROVE  MoneyStep
  BY <1>2, <1>3, BalancesStay DEF MoneyStep
<1>4. ASSUME NEW u \in Users, LookUpUser(u)
      PROVE  MoneyStep
  BY <1>3, <1>4 DEF LookUpUser, Balance
<1>5. ASSUME NEW u \in Users, NEW p \in Passwords, Register(u, p)
      PROVE  MoneyStep
  <2>1. PICK new : new = [password |-> Encrypt[p], balance |-> 0]
    OBVIOUS
  <2>2. new \in UserRecord /\ new.balance = 0
    BY <2>1, AccountsAssumption DEF UserRecord
  <2>3. users' = [users EXCEPT ![u] = new] /\ users[u] = None /\ UNCHANGED deposited
    BY <1>5, <2>1 DEF Register, NameTaken
  <2>4. \A w \in Users : Balance(w)' = Balance(w)
    BY <1>1, <2>2, <2>3 DEF Balance, ShopInv, CatalogInv, AccountsInv, AccountsTypeOK
  <2> QED BY <1>3, <2>3, <2>4
<1>6. ASSUME NEW u \in Users, NEW p \in Passwords, ChangePassword(u, p)
      PROVE  MoneyStep
  <2>1. PICK x \in UserRecord : x = Known(u) /\ x = users[u]
    BY <1>6, KnownIsTheRow
       DEF ChangePassword, ShopInv, CatalogInv, AccountsInv, AccountsTypeOK
  <2>2. users'[u] = [x EXCEPT !.password = Encrypt[p]]
    BY <1>6, <2>1 DEF ChangePassword, RowsSaved, CacheWithUsers
  <2>3. users'[u].balance = x.balance /\ users'[u] # None
    BY <1>1, <1>6, <2>2, AccountsAssumption DEF UserRecord
  <2>4. \A w \in Users : Balance(w)' = Balance(w)
    BY <1>1, <1>6, <2>1, <2>3 DEF Balance, ChangePassword, RowsSaved
  <2> QED BY <1>3, <1>6, <2>4 DEF ChangePassword
<1>7. ASSUME NEW u \in Users, NEW a \in Amounts, Recharge(u, a)
      PROVE  MoneyStep
  <2>1. PICK x \in UserRecord : x = Known(u) /\ x = users[u]
    BY <1>7, KnownIsTheRow
       DEF Recharge, ShopInv, CatalogInv, AccountsInv, AccountsTypeOK
  <2>2. a \in Nat /\ a > 0
    BY <1>7, AccountsAssumption DEF Recharge, AddsToBalance
  <2>3. users'[u] = [x EXCEPT !.balance = @ + a]
    BY <1>7, <2>1 DEF Recharge, RowsSaved, CacheWithUsers
  <2>4. users'[u].balance = x.balance + a /\ users'[u] # None
    <3>1. x.balance + a \in Nat
      BY <2>2 DEF UserRecord
    <3>2. [x EXCEPT !.balance = @ + a] \in UserRecord
      BY <3>1 DEF UserRecord
    <3> QED BY <1>1, <2>3, <3>2 DEF UserRecord
  <2>5. \A w \in Users : Balance(w)' = IF w = u THEN Balance(w) + a ELSE Balance(w)
    BY <1>1, <1>7, <2>1, <2>4 DEF Balance, Recharge, RowsSaved
  <2>6. Balances' = [Balances EXCEPT ![u] = @ + a]
    BY <2>5 DEF Balances
  <2>7. PaidIn(u, a)
    BY <1>2, <1>7, <2>2, <2>6 DEF PaidIn, Recharge
  <2> QED BY <2>2, <2>7 DEF MoneyStep
<1> QED BY <1>4, <1>5, <1>6, <1>7 DEF AccountStep

\* A step that changes no row of a user and keeps goods listed.
LEMMA QuietMoney ==
  ASSUME ShopInv, KeptListed, UNCHANGED <<users, deposited, orders>>
  PROVE  MoneyStep
BY BillsStay, BalancesStay DEF MoneyStep, Balance

LEMMA GoodsStepKeepsUsers ==
  ASSUME GoodsStep
  PROVE  UNCHANGED <<users, deposited>>
<1>1. ASSUME NEW m \in Merchants, MerchantStep(m)
      PROVE  UNCHANGED <<users, deposited>>
  <2>1. MerchantRequest(m)
    BY <1>1 DEF MerchantStep, ListMyCommodities, AddCommodity, ModifyPrice,
                ModifyStock, ModifyDiscount, OwnCommodity, BatchModifyDiscount
  <2> QED BY <2>1 DEF MerchantRequest, LookUpUser
<1>2. ASSUME NEW S \in SUBSET Commodities, SearchCommodities(S)
      PROVE  UNCHANGED <<users, deposited>>
  BY <1>2 DEF SearchCommodities, accountVars
<1>3. ASSUME NEW u \in Users, NEW c \in Commodities, RefusedRequest(u, c)
      PROVE  UNCHANGED <<users, deposited>>
  BY <1>3 DEF RefusedRequest, LookUpUser
<1> QED BY <1>1, <1>2, <1>3 DEF GoodsStep

LEMMA AppendAsFunction ==
  ASSUME NEW S, NEW s \in Seq(S), NEW x \in S, NEW n \in Nat, n = Len(s)
  PROVE  Append(s, x) = [i \in 1..(n + 1) |-> IF i = n + 1 THEN x ELSE s[i]]
<1> DEFINE t == Append(s, x)
<1>1. t \in Seq(S) /\ Len(t) = n + 1
  OBVIOUS
<1>2. \A i \in 1..(n + 1) : t[i] = IF i = n + 1 THEN x ELSE s[i]
  OBVIOUS
<1> HIDE DEF t
<1>3. DOMAIN t = 1..(n+1)
  BY <1>1
<1>4. t = [i \in DOMAIN t |-> t[i]]
  BY <1>1
<1>5. t = [i \in 1..(n + 1) |-> t[i]]
  BY <1>3, <1>4
<1> QED BY <1>2, <1>5 DEF t

\* A checkout appends the bill of the new order.
LEMMA OrderCreatedBills ==
  ASSUME ShopInv, NEW u \in Consumers, CanCheckout(u),
         NEW status \in {"PENDING", "PAID"}, OrderCreated(u, status)
  PROVE  /\ OrderFromCart(u, status) \in OrderRecord
         /\ Bill(OrderFromCart(u, status)) \in BillRecord
         /\ Bill(OrderFromCart(u, status)).status = status
         /\ Bills' = Append(Bills, Bill(OrderFromCart(u, status)))
         /\ \A c \in Contents(OrderFromCart(u, status).items) :
              commodities[c] # None /\ commodities[c].merchant \in Merchants
<1>1. PICK new \in OrderRecord : new = OrderFromCart(u, status)
  BY OrderFromCartTyped
<1>2. /\ orders' = Append(orders, new) /\ Bounded(new)
      /\ commodities' = RowsTaken(cartItems[u])
      /\ new.items = cartItems[u] /\ new.status = status
  BY <1>1 DEF OrderCreated, OrderFromCart
<1>3. orders \in Seq(OrderRecord) /\ Len(orders) \in Nat
      /\ Len(orders') = Len(orders) + 1 /\ orders'[Len(orders) + 1] = new
      /\ \A i \in 1..Len(orders) : orders'[i] = orders[i]
  BY <1>2 DEF ShopInv, OrdersInv, OrdersTypeOK
<1>4. KeptListed
  BY <1>2, RowsTakenKeepListings
<1>5. \A c \in Contents(new.items) :
        commodities[c] # None /\ commodities[c].merchant \in Merchants
  BY <1>2, CheckoutFinds, CatalogAssumption, GoodsHaveSellers DEF Contents
<1>6. ASSUME NEW i \in 1..Len(orders)
      PROVE  Bill(orders[i])' = Bill(orders[i])
  <2>1. PICK o : o = orders[i]
    OBVIOUS
  <2>2. Bill(o)' = [Bill(o) EXCEPT !.status = o.status]
    BY <1>4, <2>1, BillStays
  <2>3. Bill(o) = [Bill(o) EXCEPT !.status = o.status]
    BY SameBill
  <2>4. orders'[i] = o
    BY <1>3, <2>1
  <2>5. Bill(orders[i])' = Bill(o)'
    BY <2>4 DEF Bill, Regular, Share, Charged, Contents
  <2> QED BY <2>1, <2>2, <2>3, <2>5
<1>7. Bill(new)' = Bill(new)
  <2>1. \A c \in Contents(new.items) : commodities'[c].merchant = commodities[c].merchant
    BY <1>4, <1>5 DEF KeptListed, Contents
  <2>2. \A m \in Merchants : Share(new, m)' = Share(new, m)
    BY <2>1, SameShares
  <2> QED BY <2>2 DEF Bill, Regular, Contents
<1>8. PICK n \in Nat : n = Len(orders)
  BY <1>3
<1>9. Bill(new) \in BillRecord
  BY <1>2, BillTyped
<1>10. Bills' = Append(Bills, Bill(new))
  <2>1. Bills \in Seq(BillRecord) /\ Len(Bills) = n
        /\ \A i \in 1..n : Bills[i] = Bill(orders[i])
    BY <1>8, BillsTyped
  <2>2. Append(Bills, Bill(new)) =
          [i \in 1..(n + 1) |-> IF i = n + 1 THEN Bill(new) ELSE Bills[i]]
    BY <1>8, <1>9, <2>1, AppendAsFunction
  <2>3. Bills' = [i \in 1..(n + 1) |-> Bill(orders[i])']
    BY <1>3, <1>8 DEF Bills
  <2>4. Bill(orders[n + 1])' = Bill(new)
    BY <1>3, <1>7, <1>8 DEF Bill, Regular, Share, Charged, Contents
  <2>5. \A i \in 1..n : Bill(orders[i])' = Bills[i]
    BY <1>6, <1>8, <2>1
  <2> QED BY <2>2, <2>3, <2>4, <2>5
<1>11. Bill(new).status = status
  BY <1>2 DEF Bill
<1> QED BY <1>1, <1>5, <1>9, <1>10, <1>11

LEMMA PayOrderPaysBill ==
  ASSUME ShopInv, SellersKnown, NEW u \in Consumers, NEW i \in 1..Len(orders),
         PayOrder(u, i)
  PROVE  MoneyStep
<1>1. /\ Open(i)
      /\ orders' = [orders EXCEPT ![i].status = "PAID"]
      /\ UNCHANGED commodities
  BY DEF PayOrder, goodsVars
<1>2. orders \in Seq(OrderRecord) /\ Len(orders) \in Nat
  BY DEF ShopInv, OrdersInv, OrdersTypeOK
<1>3. Bills \in Seq(BillRecord) /\ Len(Bills) = Len(orders)
      /\ \A j \in 1..Len(orders) : Bills[j] = Bill(orders[j])
  BY BillsTyped
<1>4. PICK o, gain :
        /\ o \in OrderRecord
        /\ o = orders[i] /\ gain = [m \in Merchants |-> GainLater(o, m)]
        /\ Settle(o, gain)
  BY <1>2 DEF PayOrder
<1>5. Moved(Bills[i])
  <2>1. Moved(Bill(o))
    BY <1>4, GainsLater, OrderedGoodsHaveSellers, SettleMoves DEF ShopInv, CatalogInv
  <2> QED BY <1>3, <1>4, <2>1
<1>6. Bills[i].status = "PENDING"
  BY <1>1, <1>3, BillStatus DEF Open
<1>7. KeptListed
  BY <1>1 DEF KeptListed
<1>8. orders' \in Seq(OrderRecord) /\ Len(orders') = Len(orders)
      /\ \A j \in 1..Len(orders) :
           orders'[j] = IF j = i THEN [o EXCEPT !.status = "PAID"] ELSE orders[j]
  <2>1. orders' = [orders EXCEPT ![i] = [o EXCEPT !.status = "PAID"]]
    BY <1>1, <1>2, <1>4
  <2>2. [o EXCEPT !.status = "PAID"] \in OrderRecord
    BY <1>4 DEF OrderRecord
  <2> QED BY <1>2, <2>1, <2>2
<1>9. ASSUME NEW j \in 1..Len(orders)
      PROVE  Bill(orders[j])' = IF j = i THEN [Bills[i] EXCEPT !.status = "PAID"] ELSE Bills[j]
  <2>1. PICK p : p = orders'[j]
    OBVIOUS
  <2>2. /\ p.items = orders[j].items /\ p.price = orders[j].price
        /\ p.user = orders[j].user
        /\ p.status = IF j = i THEN "PAID" ELSE orders[j].status
    BY <1>4, <1>8, <2>1 DEF OrderRecord
  <2>3. Bill(p)' = [Bill(orders[j]) EXCEPT !.status = p.status]
    BY <1>7, <2>2, BillStays
  <2>4. Bill(orders[j])' = Bill(p)'
    BY <2>1 DEF Bill, Regular, Share, Charged, Contents
  <2>5. Bill(orders[j]) = [Bill(orders[j]) EXCEPT !.status = orders[j].status]
    BY SameBill
  <2>6. Bills[j] = Bill(orders[j])
    BY <1>3
  <2> QED BY <2>2, <2>3, <2>4, <2>5, <2>6
<1>10. Bills' = [Bills EXCEPT ![i].status = "PAID"]
  <2>1. Bills' = [j \in 1..Len(orders) |-> Bill(orders[j])']
    BY <1>8 DEF Bills
  <2>2. Bills' = [Bills EXCEPT ![i] = [Bills[i] EXCEPT !.status = "PAID"]]
    <3>1. Bills \in [1..Len(orders) -> BillRecord]
      BY <1>3
    <3> QED BY <1>9, <2>1, <3>1
  <2> QED BY <2>2
<1>11. BillPaid(i) /\ i \in 1..Len(Bills)
  BY <1>3, <1>5, <1>6, <1>10 DEF BillPaid
<1> QED BY <1>11 DEF MoneyStep

LEMMA CancelOrdersKeepListings ==
  ASSUME ShopInv, NEW S \in SUBSET (1..Len(orders)), CancelOrders(S)
  PROVE  /\ KeptListed
         /\ \A c \in Commodities : commodities'[c] # None => commodities[c] # None
<1>1. /\ \A c \in Commodities : Returned(S, c) \in Nat
      /\ commodities' = RowsReturned(S)
  BY ShopAssumption DEF CancelOrders
<1>2. None \notin CommodityRecord
  BY CatalogAssumption
<1>3. ASSUME NEW c \in Commodities, Holding(S, c) # {}
      PROVE  /\ commodities[c] # None /\ commodities'[c] # None
             /\ SamePricing(commodities'[c], commodities[c])
  BY <1>1, <1>2, <1>3, ReturnedAt, HoldingMeans
<1>4. ASSUME NEW c \in Commodities, Holding(S, c) = {}
      PROVE  commodities'[c] = commodities[c]
  BY <1>1, <1>4 DEF RowsReturned
<1> QED BY <1>3, <1>4 DEF KeptListed, SamePricing

LEMMA CancelOrdersCancelsBills ==
  ASSUME ShopInv, NEW S \in SUBSET (1..Len(orders)), CancelOrders(S),
         \A i \in S : Open(i), UNCHANGED <<users, deposited>>
  PROVE  MoneyStep
<1>1. orders' = [i \in 1..Len(orders) |->
                   IF i \in S THEN [orders[i] EXCEPT !.status = "CANCELLED"]
                              ELSE orders[i]]
  BY DEF CancelOrders
<1>2. orders \in Seq(OrderRecord) /\ Len(orders) \in Nat
  BY DEF ShopInv, OrdersInv, OrdersTypeOK
<1>3. Bills \in Seq(BillRecord) /\ Len(Bills) = Len(orders)
      /\ \A j \in 1..Len(orders) : Bills[j] = Bill(orders[j])
  BY BillsTyped
<1>4. KeptListed
  BY CancelOrdersKeepListings
<1>5. ASSUME NEW j \in 1..Len(orders)
      PROVE  Bill(orders[j])' = IF j \in S THEN [Bills[j] EXCEPT !.status = "CANCELLED"]
                                ELSE Bills[j]
  <2>1. PICK o \in OrderRecord : o = orders[j]
    BY <1>2
  <2>2. PICK p : p = orders'[j]
    OBVIOUS
  <2>3. /\ p.items = o.items /\ p.price = o.price
        /\ p.user = o.user
        /\ p.status = IF j \in S THEN "CANCELLED" ELSE o.status
    <3>1. p = IF j \in S THEN [o EXCEPT !.status = "CANCELLED"] ELSE o
      BY <1>1, <2>1, <2>2
    <3> QED BY <3>1 DEF OrderRecord
  <2>4. Bill(p)' = [Bill(o) EXCEPT !.status = p.status]
    BY <1>4, <2>1, <2>3, BillStays
  <2>5. Bill(orders[j])' = Bill(p)'
    BY <2>2 DEF Bill, Regular, Share, Charged, Contents
  <2>6. Bill(o) = [Bill(o) EXCEPT !.status = o.status]
    BY SameBill
  <2>7. Bills[j] = Bill(o)
    BY <1>3, <2>1
  <2> QED BY <2>3, <2>4, <2>5, <2>6, <2>7
<1>6. Bills' = [j \in 1..Len(Bills) |->
                  IF j \in S THEN [Bills[j] EXCEPT !.status = "CANCELLED"] ELSE Bills[j]]
  <2>1. Len(orders') = Len(orders)
    BY <1>1, <1>2
  <2>2. Bills' = [j \in 1..Len(orders) |-> Bill(orders[j])']
    BY <2>1 DEF Bills
  <2> QED BY <1>3, <1>5, <2>2
<1>7. \A i \in S : Bills[i].status = "PENDING"
  BY <1>3, BillStatus DEF Open
<1>8. UNCHANGED <<Balances, deposited>>
  BY BalancesStay DEF Balance
<1>9. BillsCancelled(S) /\ S \in SUBSET (1..Len(Bills))
  BY <1>3, <1>6, <1>7, <1>8 DEF BillsCancelled
<1> QED BY <1>9 DEF MoneyStep

LEMMA PlacedBills ==
  ASSUME ShopInv, SellersKnown, NEW u \in Consumers
  PROVE  /\ PlaceOrder(u) => MoneyStep
         /\ PayNow(u) => MoneyStep
<1>1. ASSUME PlaceOrder(u) PROVE MoneyStep
  <2>1. CanCheckout(u) /\ OrderCreated(u, "PENDING") /\ UNCHANGED <<users, deposited>>
    BY <1>1 DEF PlaceOrder, LookUpUser
  <2>2. PICK b \in BillRecord : b.status = "PENDING" /\ Bills' = Append(Bills, b)
    BY <2>1, OrderCreatedBills
  <2>3. UNCHANGED Balances
    BY <2>1, BalancesStay DEF Balance
  <2>4. Billed(b)
    BY <2>1, <2>2, <2>3 DEF Billed
  <2> QED BY <2>4 DEF MoneyStep
<1>2. ASSUME PayNow(u) PROVE MoneyStep
  <2>1. CanCheckout(u) /\ OrderCreated(u, "PAID")
    BY <1>2 DEF PayNow
  <2>2. PICK o, gain :
          /\ o \in OrderRecord
          /\ o = OrderFromCart(u, "PAID") /\ gain = [m \in Merchants |-> GainNow(o, m)]
          /\ Settle(o, gain)
    BY <1>2, <2>1, OrderCreatedBills DEF PayNow
  <2>3. /\ Bill(o) \in BillRecord /\ Bill(o).status = "PAID"
        /\ Bills' = Append(Bills, Bill(o))
        /\ \A c \in Contents(o.items) :
             commodities[c] # None /\ commodities[c].merchant \in Merchants
    BY <2>1, <2>2, OrderCreatedBills
  <2>4. Moved(Bill(o))
    BY <2>2, <2>3, GainsNow, SettleMoves DEF ShopInv, CatalogInv
  <2>5. Billed(Bill(o))
    BY <2>3, <2>4 DEF Billed
  <2> QED BY <2>3, <2>5 DEF MoneyStep
<1> QED BY <1>1, <1>2

\* Every step of the shop is one of the kinds above.
LEMMA ShopNextMoney ==
  ASSUME ShopInv, SellersKnown, [ShopNext]_shopVars
  PROVE  MoneyStep
<1>1. ASSUME UNCHANGED <<users, deposited, commodities, orders>>
      PROVE  MoneyStep
  BY <1>1, QuietMoney DEF KeptListed
<1>2. CASE (AccountStep \/ GoodsStep) /\ UNCHANGED orderVars
  <2>1. CASE AccountStep
    BY <1>2, <2>1, AccountStepMoney
  <2>2. CASE GoodsStep
    <3>1. KeptListed
      BY <2>2, GoodsStepKeepsListings DEF ShopInv, CatalogInv
    <3>2. UNCHANGED <<users, deposited, orders>>
      BY <1>2, <2>2, GoodsStepKeepsUsers DEF orderVars
    <3> QED BY <3>1, <3>2, QuietMoney
  <2> QED BY <1>2, <2>1, <2>2
<1>3. ASSUME NEW u \in Consumers, CartStep(u)
      PROVE  MoneyStep
  <2>1. ASSUME NEW c \in Commodities, NEW n \in Quantities,
               AddItem(u, c, n) \/ UpdateQuantity(u, c, n)
        PROVE  MoneyStep
    BY <1>1, <2>1 DEF AddItem, UpdateQuantity, CartRequest, ConsumerRequest, LookUpUser
  <2>2. ASSUME NEW c \in Commodities, RemoveItem(u, c)
        PROVE  MoneyStep
    BY <1>1, <2>2 DEF RemoveItem, CartRequest, ConsumerRequest, LookUpUser
  <2>3. ASSUME CheckoutRefused(u) \/ PayNowRefused(u)
        PROVE  MoneyStep
    BY <1>1, <2>3 DEF CheckoutRefused, PayNowRefused, ConsumerRequest, LookUpUser, orderVars
  <2> QED BY <1>3, <2>1, <2>2, <2>3, PlacedBills DEF CartStep
<1>4. ASSUME NEW u \in Consumers, NEW i \in 1..Len(orders), CancelOrder(u, i)
      PROVE  MoneyStep
  <2>1. CancelOrders({i}) /\ Open(i) /\ UNCHANGED <<users, deposited>>
    BY <1>4 DEF CancelOrder, ConsumerRequest, LookUpUser
  <2>2. {i} \in SUBSET (1..Len(orders)) /\ \A j \in {i} : Open(j)
    BY <2>1
  <2> QED BY <2>1, <2>2, CancelOrdersCancelsBills
<1>5. CASE CancelExpiredOrders
  <2>1. PICK S : S = Overdue
    OBVIOUS
  <2>2. S \in SUBSET (1..Len(orders)) /\ \A i \in S : Open(i)
    BY <2>1 DEF Overdue, ShopInv, OrdersInv, OrdersTypeOK
  <2>3. CancelOrders(S) /\ UNCHANGED <<users, deposited>>
    BY <1>5, <2>1 DEF CancelExpiredOrders, accountVars
  <2> QED BY <2>2, <2>3, CancelOrdersCancelsBills
<1>6. CASE Age \/ RestartShop \/ UNCHANGED shopVars
  BY <1>1, <1>6 DEF Age, RestartShop, RestartCatalog, RestartAccounts, orderVars,
                    shopVars, catalogVars, accountVars, goodsVars
<1> QED BY <1>2, <1>3, <1>4, <1>5, <1>6, PayOrderPaysBill DEF ShopNext, OrderStep

-----------------------------------------------------------------------------
(* Sellers keep their accounts. *)

LEMMA SellersStayKnown ==
  ASSUME ShopInv, SellersKnown, KeptListed,
         \A u \in Users : users[u] # None => users'[u] # None,
         \A c \in Commodities :
           commodities[c] = None /\ commodities'[c] # None =>
             users'[commodities'[c].merchant] # None
  PROVE  SellersKnown'
<1>1. ASSUME NEW c \in Commodities, commodities[c] # None
      PROVE  users'[commodities'[c].merchant] # None
  BY <1>1, GoodsHaveSellers DEF SellersKnown, KeptListed, Users
<1> QED BY <1>1 DEF SellersKnown

LEMMA MerchantStepKeepsSellers ==
  ASSUME ShopInv, SellersKnown, NEW m \in Merchants, MerchantStep(m), KeptListed
  PROVE  SellersKnown'
<1>1. None \notin CommodityRecord
  BY CatalogAssumption
<1>2. Known(m) # None /\ users' = users
  <2>1. MerchantRequest(m)
    BY DEF MerchantStep, ListMyCommodities, AddCommodity, ModifyPrice,
           ModifyStock, ModifyDiscount, OwnCommodity, BatchModifyDiscount
  <2> QED BY <2>1 DEF MerchantRequest, LookUpUser
<1>3. users[m] # None
  BY <1>2, KnownIsTheRow DEF ShopInv, CatalogInv, Users
<1>4. ASSUME \A c \in Commodities :
               commodities[c] = None /\ commodities'[c] # None => commodities'[c].merchant = m
      PROVE  SellersKnown'
  BY <1>2, <1>3, <1>4, SellersStayKnown
<1>5. ASSUME NEW c \in Commodities, NEW t \in Types, NEW price \in Prices,
             NEW stock \in Stocks, AddCommodity(m, c, t, price, stock)
      PROVE  SellersKnown'
  <2>1. PICK new : new = [merchant |-> m, type |-> t, basePrice |-> price,
                          discount |-> FullPrice, storage |-> stock]
    OBVIOUS
  <2>2. commodities' = [commodities EXCEPT ![c] = new] /\ new.merchant = m
    BY <1>5, <2>1 DEF AddCommodity
  <2>3. \A d \in Commodities : d # c => commodities'[d] = commodities[d]
    BY <2>2 DEF ShopInv, CatalogInv, GoodsInv, Priced
  <2>4. commodities'[c] = new
    BY <2>2 DEF ShopInv, CatalogInv, GoodsInv, Priced
  <2> QED BY <1>4, <2>2, <2>3, <2>4
<1>6. ASSUME NEW c \in Commodities, NEW row, OwnCommodity(m, c),
             commodities' = [commodities EXCEPT ![c] = row]
      PROVE  SellersKnown'
  <2>1. commodities[c] # None
    BY <1>1, <1>6, OwnCommodityIsListed DEF ShopInv, CatalogInv
  <2>2. \A d \in Commodities : d # c => commodities'[d] = commodities[d]
    BY <1>6 DEF ShopInv, CatalogInv, GoodsInv, Priced
  <2> QED BY <1>4, <2>1, <2>2
<1>7. ASSUME NEW c \in Commodities, NEW price \in Prices, ModifyPrice(m, c, price)
      PROVE  SellersKnown'
  BY <1>6, <1>7 DEF ModifyPrice
<1>8. ASSUME NEW c \in Commodities, NEW stock \in Stocks, ModifyStock(m, c, stock)
      PROVE  SellersKnown'
  BY <1>6, <1>8 DEF ModifyStock
<1>9. ASSUME NEW c \in Commodities, NEW d \in Discounts, ModifyDiscount(m, c, d)
      PROVE  SellersKnown'
  BY <1>6, <1>9 DEF ModifyDiscount
<1>10. ASSUME NEW t \in Types, NEW d \in Discounts, BatchModifyDiscount(m, t, d)
      PROVE  SellersKnown'
  <2>1. \A c \in Commodities : commodities[c] = None => commodities'[c] = None
    BY <1>10 DEF BatchModifyDiscount, Discounted
  <2> QED BY <1>4, <2>1
<1>11. CASE ListMyCommodities(m)
  BY <1>4, <1>11 DEF ListMyCommodities
<1> QED BY <1>5, <1>7, <1>8, <1>9, <1>10, <1>11 DEF MerchantStep

LEMMA ShopNextKeepsSellers ==
  ASSUME ShopInv, SellersKnown, [ShopNext]_shopVars
  PROVE  SellersKnown'
<1>1. AccountsInv
  BY DEF ShopInv, CatalogInv
<1>2. ASSUME UNCHANGED <<users, commodities>>
      PROVE  SellersKnown'
  BY <1>2 DEF SellersKnown
<1>3. ASSUME Kept, UNCHANGED commodities
      PROVE  SellersKnown'
  BY <1>3, SellersStayKnown DEF Kept, KeptListed
<1>4. CASE AccountStep
  <2>1. ASSUME NEW u \in Users, NEW p \in Passwords, Register(u, p) \/ ChangePassword(u, p)
        PROVE  Kept
    BY <1>1, <2>1, RegisterKeeps, ChangePasswordKeeps
  <2>2. ASSUME NEW u \in Users, NEW a \in Amounts, Recharge(u, a)
        PROVE  Kept
    BY <1>1, <2>2, RechargeKeeps
  <2>3. ASSUME NEW u \in Users, LookUpUser(u)
        PROVE  Kept
    BY <1>1, <2>3, UnchangedKeeps DEF LookUpUser
  <2> QED BY <1>3, <1>4, <2>1, <2>2, <2>3 DEF AccountStep, goodsVars
<1>5. CASE GoodsStep
  <2>1. KeptListed
    BY <1>5, GoodsStepKeepsListings DEF ShopInv, CatalogInv
  <2>2. ASSUME NEW m \in Merchants, MerchantStep(m)
        PROVE  SellersKnown'
    BY <2>1, <2>2, MerchantStepKeepsSellers
  <2>3. ASSUME NEW S \in SUBSET Commodities, SearchCommodities(S)
        PROVE  SellersKnown'
    BY <1>2, <2>3 DEF SearchCommodities, accountVars
  <2>4. ASSUME NEW u \in Users, NEW c \in Commodities, RefusedRequest(u, c)
        PROVE  SellersKnown'
    BY <1>2, <2>4 DEF RefusedRequest, LookUpUser
  <2> QED BY <1>5, <2>2, <2>3, <2>4 DEF GoodsStep
<1>6. ASSUME NEW u \in Consumers, PlaceOrder(u) \/ PayNow(u)
      PROVE  SellersKnown'
  <2>1. \A w \in Users : users[w] # None => users'[w] # None
    <3>1. CASE PlaceOrder(u)
      BY <3>1 DEF PlaceOrder, LookUpUser
    <3>2. CASE PayNow(u)
      <4>1. PICK o, gain :
              /\ o \in OrderRecord
              /\ gain = [m \in Merchants |-> GainNow(o, m)] /\ Settle(o, gain)
        BY <3>2, OrderFromCartTyped DEF PayNow
      <4> QED BY <1>1, <4>1, GainsNow, SettleKeepsInv
    <3> QED BY <1>6, <3>1, <3>2
  <2>2. CanCheckout(u) /\ commodities' = RowsTaken(cartItems[u])
    BY <1>6 DEF PlaceOrder, PayNow, OrderCreated
  <2>3. KeptListed
    BY <2>2, RowsTakenKeepListings
  <2>4. ASSUME NEW c \in Commodities, commodities[c] = None
        PROVE  commodities'[c] = None
    <3>1. ~ (cartItems[u][c] > 0)
      BY <2>2, <2>4, CheckoutFinds, CatalogAssumption
    <3> QED BY <2>2, <2>4, <3>1 DEF RowsTaken
  <2> QED BY <2>1, <2>3, <2>4, SellersStayKnown
<1>7. ASSUME NEW u \in Consumers, CartStep(u)
      PROVE  SellersKnown'
  <2>1. ASSUME NEW c \in Commodities, NEW n \in Quantities,
               AddItem(u, c, n) \/ UpdateQuantity(u, c, n)
        PROVE  SellersKnown'
    BY <1>2, <2>1 DEF AddItem, UpdateQuantity, CartRequest, ConsumerRequest, LookUpUser
  <2>2. ASSUME NEW c \in Commodities, RemoveItem(u, c)
        PROVE  SellersKnown'
    BY <1>2, <2>2 DEF RemoveItem, CartRequest, ConsumerRequest, LookUpUser
  <2>3. ASSUME CheckoutRefused(u) \/ PayNowRefused(u)
        PROVE  SellersKnown'
    BY <1>2, <2>3 DEF CheckoutRefused, PayNowRefused, ConsumerRequest, LookUpUser
  <2> QED BY <1>6, <1>7, <2>1, <2>2, <2>3 DEF CartStep
<1>8. ASSUME NEW u \in Consumers, NEW i \in 1..Len(orders), PayOrder(u, i)
      PROVE  SellersKnown'
  <2>1. orders[i] \in OrderRecord
    BY DEF ShopInv, OrdersInv, OrdersTypeOK
  <2>2. PICK o, gain :
          /\ o \in OrderRecord
          /\ gain = [m \in Merchants |-> GainLater(o, m)] /\ Settle(o, gain)
    BY <1>8, <2>1 DEF PayOrder
  <2>3. \A w \in Users : users[w] # None => users'[w] # None
    BY <1>1, <2>2, GainsLater, SettleKeepsInv
  <2>4. UNCHANGED commodities
    BY <1>8 DEF PayOrder, goodsVars
  <2> QED BY <2>3, <2>4, SellersStayKnown DEF KeptListed
<1>9. ASSUME NEW S \in SUBSET (1..Len(orders)), CancelOrders(S), UNCHANGED users
      PROVE  SellersKnown'
  BY <1>9, CancelOrdersKeepListings, SellersStayKnown
<1>10. ASSUME NEW u \in Consumers, NEW i \in 1..Len(orders), CancelOrder(u, i)
      PROVE  SellersKnown'
  <2>1. CancelOrders({i}) /\ UNCHANGED users /\ {i} \in SUBSET (1..Len(orders))
    BY <1>10 DEF CancelOrder, ConsumerRequest, LookUpUser
  <2> QED BY <1>9, <2>1
<1>11. CASE CancelExpiredOrders
  <2>1. PICK S : S = Overdue
    OBVIOUS
  <2>2. S \in SUBSET (1..Len(orders)) /\ CancelOrders(S) /\ UNCHANGED users
    BY <1>11, <2>1 DEF Overdue, CancelExpiredOrders, accountVars,
                       ShopInv, OrdersInv, OrdersTypeOK
  <2> QED BY <1>9, <2>2
<1>12. CASE Age \/ RestartShop \/ UNCHANGED shopVars
  BY <1>2, <1>12 DEF Age, RestartShop, RestartCatalog, RestartAccounts,
                     shopVars, catalogVars, accountVars, goodsVars
<1> QED BY <1>4, <1>5, <1>7, <1>8, <1>10, <1>11, <1>12 DEF ShopNext, OrderStep

-----------------------------------------------------------------------------
(* Balances. *)

\* What each bill has taken from u, and what it has brought u.
SpentOn(bills, u) ==
  [i \in 1..Len(bills) |->
     IF bills[i].status = "PAID" /\ bills[i].buyer = u THEN SumOf(bills[i].due) ELSE 0]

EarnedBy(bills, u) ==
  [i \in 1..Len(bills) |->
     IF bills[i].status = "PAID" /\ u \in Merchants THEN bills[i].due[u] ELSE 0]

\* What u should have.
Owned(u) == deposited[u] - SumOf(SpentOn(Bills, u)) + SumOf(EarnedBy(Bills, u))

AllRegular(bills) ==
  \A i \in 1..Len(bills) : bills[i].status = "PAID" => bills[i].regular

\* The balances, explained by the bills.
MoneyInv ==
  \A u \in Users :
    Balances[u] >= Owned(u) /\ (AllRegular(Bills) => Balances[u] = Owned(u))

MoneyTyped ==
  /\ Balances \in [Users -> Nat]
  /\ deposited \in [Users -> Int]
  /\ Bills \in Seq(BillRecord)

LEMMA BillCosts ==
  ASSUME NEW b \in BillRecord
  PROVE  /\ SumOf(b.due) \in Int /\ b.buyer \in Consumers
         /\ \A m \in Merchants : b.due[m] \in Int
         /\ b.status \in {"PENDING", "PAID", "CANCELLED"}
<1>1. b.due \in [Merchants -> Int]
  BY ShopAssumption DEF BillRecord
<1>2. SumOf(b.due) \in Int
  BY <1>1, ShopAssumption, SumIsInteger
<1> QED BY <1>1, <1>2 DEF BillRecord

LEMMA MoneySums ==
  ASSUME NEW bills \in Seq(BillRecord), NEW u \in Users
  PROVE  /\ SpentOn(bills, u) \in [1..Len(bills) -> Int]
         /\ EarnedBy(bills, u) \in [1..Len(bills) -> Int]
         /\ IsFiniteSet(1..Len(bills)) /\ Len(bills) \in Nat
         /\ SumOf(SpentOn(bills, u)) \in Int
         /\ SumOf(EarnedBy(bills, u)) \in Int
<1>1. Len(bills) \in Nat
  OBVIOUS
<1>2. IsFiniteSet(1..Len(bills))
  BY <1>1, FS_Interval
<1>3. ASSUME NEW i \in 1..Len(bills)
      PROVE  SumOf(bills[i].due) \in Int /\ \A m \in Merchants : bills[i].due[m] \in Int
  <2>1. PICK b \in BillRecord : b = bills[i]
    OBVIOUS
  <2> QED BY <2>1, BillCosts
<1>4. SpentOn(bills, u) \in [1..Len(bills) -> Int]
  BY <1>3 DEF SpentOn
<1>5. EarnedBy(bills, u) \in [1..Len(bills) -> Int]
  BY <1>3 DEF EarnedBy
<1> QED BY <1>1, <1>2, <1>4, <1>5, SumIsInteger

\* A step that leaves what every user should have, and the regular bills.
LEMMA QuietBills ==
  ASSUME MoneyInv, UNCHANGED Balances, \A u \in Users : Owned(u)' = Owned(u),
         AllRegular(Bills') => AllRegular(Bills)
  PROVE  MoneyInv'
BY DEF MoneyInv, AllRegular

\* What the payment of b adds to the two sums of u.
Explained(bills, more, b, u) ==
  /\ SumOf(SpentOn(more, u)) =
       SumOf(SpentOn(bills, u)) + IF b.buyer = u THEN SumOf(b.due) ELSE 0
  /\ SumOf(EarnedBy(more, u)) =
       SumOf(EarnedBy(bills, u)) + IF u \in Merchants THEN b.due[u] ELSE 0

\* A bill that is paid changes the two sums of every user as it changes the
\* balance.
LEMMA PaymentIsExplained ==
  ASSUME MoneyTyped, MoneyInv, NEW b \in BillRecord, Moved(b), MoneyTyped',
         \A u \in Users : Explained(Bills, Bills', b, u),
         AllRegular(Bills') => b.regular /\ AllRegular(Bills)
  PROVE  MoneyInv'
<1> SUFFICES ASSUME NEW u \in Users
             PROVE  /\ Balances'[u] >= Owned(u)'
                    /\ AllRegular(Bills') => Balances'[u] = Owned(u)'
  BY DEF MoneyInv, AllRegular
<1>1. /\ SumOf(SpentOn(Bills, u)) \in Int /\ SumOf(EarnedBy(Bills, u)) \in Int
      /\ deposited[u] \in Int /\ Balances[u] \in Nat /\ Balances'[u] \in Nat
  BY MoneySums DEF MoneyTyped
<1>2. /\ SumOf(b.due) \in Int /\ b.buyer \in Consumers
      /\ \A m \in Merchants : b.due[m] \in Int
  BY BillCosts
<1>3. /\ Balances[u] >= Owned(u)
      /\ AllRegular(Bills) => Balances[u] = Owned(u)
      /\ Owned(u) \in Int
  BY <1>1 DEF MoneyInv, Owned
<1>4. deposited' = deposited
  BY DEF Moved
<1>5. Owned(u)' = Owned(u) - (IF b.buyer = u THEN SumOf(b.due) ELSE 0)
                           + (IF u \in Merchants THEN b.due[u] ELSE 0)
  <2>1. PICK x, y \in Int :
          /\ x = IF b.buyer = u THEN SumOf(b.due) ELSE 0
          /\ y = IF u \in Merchants THEN b.due[u] ELSE 0
    BY <1>2
  <2>2. /\ SumOf(SpentOn(Bills', u)) = SumOf(SpentOn(Bills, u)) + x
        /\ SumOf(EarnedBy(Bills', u)) = SumOf(EarnedBy(Bills, u)) + y
    BY <2>1 DEF Explained
  <2>3. Owned(u)' = deposited[u] - SumOf(SpentOn(Bills', u)) + SumOf(EarnedBy(Bills', u))
    BY <1>4 DEF Owned
  <2>4. Owned(u)' = Owned(u) - x + y
    BY <1>1, <2>2, <2>3 DEF Owned
  <2> QED BY <2>1, <2>4
<1>6. CASE u = b.buyer
  <2>1. u \notin Merchants
    BY <1>2, <1>6, AccountsAssumption
  <2>2. Balances'[u] = Balances[u] - SumOf(b.due)
    BY <1>6 DEF Moved
  <2>3. Owned(u)' = Owned(u) - SumOf(b.due)
    BY <1>2, <1>3, <1>5, <1>6, <2>1
  <2> QED BY <1>1, <1>2, <1>3, <2>2, <2>3
<1>7. CASE u # b.buyer /\ u \in Merchants
  <2>1. /\ Balances'[u] >= Balances[u] + b.due[u]
        /\ b.regular => Balances'[u] = Balances[u] + b.due[u]
    BY <1>7 DEF Moved, Received
  <2>2. Owned(u)' = Owned(u) + b.due[u]
    BY <1>2, <1>3, <1>5, <1>7
  <2> QED BY <1>1, <1>2, <1>3, <1>7, <2>1, <2>2
<1>8. CASE u # b.buyer /\ u \notin Merchants
  <2>1. Balances'[u] = Balances[u]
    BY <1>8 DEF Moved
  <2>2. Owned(u)' = Owned(u)
    BY <1>3, <1>5, <1>8
  <2> QED BY <1>3, <2>1, <2>2
<1> QED BY <1>6, <1>7, <1>8

\* The sums, when a bill is added and when one changes its status.
LEMMA AddedBill ==
  ASSUME NEW bills \in Seq(BillRecord), NEW b \in BillRecord, NEW u \in Users,
         NEW more, more = Append(bills, b)
  PROVE  /\ b.status = "PAID" => Explained(bills, more, b, u)
         /\ b.status # "PAID" => /\ SumOf(SpentOn(more, u)) = SumOf(SpentOn(bills, u))
                                 /\ SumOf(EarnedBy(more, u)) = SumOf(EarnedBy(bills, u))
<1> DEFINE n == Len(bills)
           f == SpentOn(bills, u)
           g == SpentOn(more, u)
           h == EarnedBy(bills, u)
           k == EarnedBy(more, u)
<1>1. /\ n \in Nat /\ more \in Seq(BillRecord) /\ Len(more) = n + 1
      /\ more[n + 1] = b /\ \A i \in 1..n : more[i] = bills[i]
  OBVIOUS
<1>2. /\ f \in [1..n -> Int] /\ g \in [1..(n + 1) -> Int]
      /\ h \in [1..n -> Int] /\ k \in [1..(n + 1) -> Int]
  BY <1>1, MoneySums
<1>3. /\ g[n + 1] = IF b.status = "PAID" /\ b.buyer = u THEN SumOf(b.due) ELSE 0
      /\ \A i \in 1..n : g[i] = f[i]
  BY <1>1 DEF SpentOn
<1>4. /\ k[n + 1] = IF b.status = "PAID" /\ u \in Merchants THEN b.due[u] ELSE 0
      /\ \A i \in 1..n : k[i] = h[i]
  <2>1. n + 1 \in 1..Len(more)
    BY <1>1
  <2>2. k[n + 1] = IF more[n + 1].status = "PAID" /\ u \in Merchants
                   THEN more[n + 1].due[u] ELSE 0
    BY <2>1 DEF EarnedBy
  <2>3. \A i \in 1..n : k[i] = h[i]
    BY <1>1 DEF EarnedBy
  <2> QED BY <1>1, <2>2, <2>3
<1> HIDE DEF f, g, h, k, n
<1>5. SumOf(g) = SumOf(f) + g[n + 1]
  BY <1>1, <1>2, <1>3, SumAppended
<1>6. SumOf(k) = SumOf(h) + k[n + 1]
  BY <1>1, <1>2, <1>4, SumAppended
<1>7. SumOf(f) \in Int /\ SumOf(h) \in Int
  BY MoneySums DEF f, h
<1>8. CASE b.status = "PAID"
  BY <1>3, <1>4, <1>5, <1>6, <1>8 DEF f, g, h, k, Explained
<1>9. CASE b.status # "PAID"
  <2>1. SumOf(g) = SumOf(f) /\ SumOf(k) = SumOf(h)
    BY <1>3, <1>4, <1>5, <1>6, <1>7, <1>9
  <2> QED BY <1>9, <2>1 DEF f, g, h, k
<1> QED BY <1>8, <1>9

LEMMA AddedRegular ==
  ASSUME NEW bills \in Seq(BillRecord), NEW b \in BillRecord,
         AllRegular(Append(bills, b))
  PROVE  AllRegular(bills) /\ (b.status = "PAID" => b.regular)
<1> DEFINE more == Append(bills, b)
<1>1. /\ Len(more) = Len(bills) + 1 /\ Len(bills) \in Nat
      /\ more[Len(bills) + 1] = b /\ \A i \in 1..Len(bills) : more[i] = bills[i]
  OBVIOUS
<1>2. AllRegular(more)
  OBVIOUS
<1> HIDE DEF more
<1>3. Len(bills) + 1 \in 1..Len(more) /\ 1..Len(bills) \subseteq 1..Len(more)
  BY <1>1
<1> QED BY <1>1, <1>2, <1>3 DEF AllRegular

LEMMA PaidBill ==
  ASSUME NEW bills \in Seq(BillRecord), NEW i \in 1..Len(bills), NEW u \in Users,
         bills[i].status = "PENDING",
         NEW more, more = [bills EXCEPT ![i].status = "PAID"]
  PROVE  /\ more \in Seq(BillRecord)
         /\ Explained(bills, more, bills[i], u)
         /\ AllRegular(more) => bills[i].regular /\ AllRegular(bills)
<1> DEFINE D == 1..Len(bills)
           f == SpentOn(bills, u)
           g == SpentOn(more, u)
           h == EarnedBy(bills, u)
           k == EarnedBy(more, u)
<1>1. PICK b \in BillRecord : b = bills[i]
  OBVIOUS
<1>2. more = [bills EXCEPT ![i] = [b EXCEPT !.status = "PAID"]]
  BY <1>1
<1>3. [b EXCEPT !.status = "PAID"] \in BillRecord
  BY DEF BillRecord
<1>4. /\ more \in Seq(BillRecord) /\ Len(more) = Len(bills)
      /\ more[i] = [b EXCEPT !.status = "PAID"]
      /\ \A j \in D \ {i} : more[j] = bills[j]
  BY <1>2, <1>3
<1>5. /\ more[i].status = "PAID" /\ more[i].buyer = b.buyer /\ more[i].due = b.due
      /\ more[i].regular = b.regular
  BY ZenonT(60), <1>4 DEF BillRecord
<1>6. /\ f \in [D -> Int] /\ g \in [D -> Int] /\ h \in [D -> Int] /\ k \in [D -> Int]
      /\ IsFiniteSet(D) /\ i \in D
      /\ SumOf(f) \in Int /\ SumOf(h) \in Int
  BY <1>4, MoneySums
<1>7. /\ f[i] = 0 /\ g[i] = IF b.buyer = u THEN SumOf(b.due) ELSE 0
      /\ \A j \in D \ {i} : g[j] = f[j]
  BY <1>4, <1>5 DEF SpentOn
<1>8. /\ h[i] = 0 /\ k[i] = IF u \in Merchants THEN b.due[u] ELSE 0
      /\ \A j \in D \ {i} : k[j] = h[j]
  BY <1>4, <1>5 DEF EarnedBy
<1>9. AllRegular(more) => b.regular /\ AllRegular(bills)
  BY <1>1, <1>4, <1>5 DEF AllRegular
<1> HIDE DEF D, f, g, h, k
<1>10. SumOf(g) = SumOf(f) - f[i] + g[i]
  BY ZenonT(60), <1>6, <1>7, SumChanged
<1>11. SumOf(k) = SumOf(h) - h[i] + k[i]
  BY ZenonT(60), <1>6, <1>8, SumChanged
<1>12. g[i] \in Int /\ k[i] \in Int
  BY <1>6
<1>13. SumOf(g) = SumOf(f) + g[i] /\ SumOf(k) = SumOf(h) + k[i]
  BY <1>6, <1>7, <1>8, <1>10, <1>11, <1>12
<1> QED BY <1>1, <1>4, <1>7, <1>8, <1>13, <1>9 DEF f, g, h, k, Explained

LEMMA MoneyStepKeepsInv ==
  ASSUME MoneyTyped, MoneyInv, MoneyStep, MoneyTyped'
  PROVE  MoneyInv'
<1>1. CASE UNCHANGED <<Balances, deposited, Bills>>
  BY <1>1, QuietBills DEF Owned
<1>2. ASSUME NEW w \in Users, NEW a \in Int, PaidIn(w, a)
      PROVE  MoneyInv'
  <2> SUFFICES ASSUME NEW u \in Users
               PROVE  /\ Balances'[u] >= Owned(u)'
                      /\ AllRegular(Bills') => Balances'[u] = Owned(u)'
    BY DEF MoneyInv, AllRegular
  <2>1. /\ SumOf(SpentOn(Bills, u)) \in Int /\ SumOf(EarnedBy(Bills, u)) \in Int
        /\ deposited[u] \in Int /\ Balances[u] \in Nat
    BY MoneySums DEF MoneyTyped
  <2>2. Bills' = Bills
    BY <1>2 DEF PaidIn
  <2>3. /\ Balances'[u] = IF u = w THEN Balances[u] + a ELSE Balances[u]
        /\ deposited'[u] = IF u = w THEN deposited[u] + a ELSE deposited[u]
    BY <1>2 DEF PaidIn, MoneyTyped
  <2>4. /\ Balances[u] >= Owned(u) /\ (AllRegular(Bills) => Balances[u] = Owned(u))
        /\ Owned(u) \in Int
    BY <2>1 DEF MoneyInv, Owned
  <2>5. Owned(u)' = IF u = w THEN Owned(u) + a ELSE Owned(u)
    <3>1. Owned(u)' = deposited'[u] - SumOf(SpentOn(Bills, u)) + SumOf(EarnedBy(Bills, u))
      BY <2>2 DEF Owned
    <3> QED BY <2>1, <2>3, <3>1 DEF Owned
  <2> QED BY <1>2, <2>1, <2>2, <2>3, <2>4, <2>5
<1>3. ASSUME NEW b \in BillRecord, Billed(b)
      PROVE  MoneyInv'
  <2>1. Bills' = Append(Bills, b) /\ Bills \in Seq(BillRecord)
    BY <1>3 DEF Billed, MoneyTyped
  <2>2. CASE b.status = "PAID" /\ Moved(b)
    <3>1. \A u \in Users : Explained(Bills, Bills', b, u)
      BY <2>1, <2>2, AddedBill
    <3>2. AllRegular(Bills') => b.regular /\ AllRegular(Bills)
      <4>1. ASSUME AllRegular(Append(Bills, b))
            PROVE  b.regular /\ AllRegular(Bills)
        BY <2>1, <2>2, <4>1, AddedRegular
      <4> QED BY <2>1, <4>1 DEF AllRegular
    <3> QED BY <2>2, <3>1, <3>2, PaymentIsExplained
  <2>3. CASE b.status = "PENDING" /\ UNCHANGED <<Balances, deposited>>
    <3>1. ASSUME NEW u \in Users
          PROVE  Owned(u)' = Owned(u)
      <4>1. /\ SumOf(SpentOn(Bills', u)) = SumOf(SpentOn(Bills, u))
            /\ SumOf(EarnedBy(Bills', u)) = SumOf(EarnedBy(Bills, u))
        BY <2>1, <2>3, AddedBill
      <4> QED BY <2>3, <4>1 DEF Owned
    <3>2. AllRegular(Bills') => AllRegular(Bills)
      BY <2>1, AddedRegular
    <3> QED BY <2>3, <3>1, <3>2, QuietBills
  <2> QED BY <1>3, <2>2, <2>3 DEF Billed
<1>4. ASSUME NEW i \in 1..Len(Bills), BillPaid(i)
      PROVE  MoneyInv'
  <2>1. /\ Bills' = [Bills EXCEPT ![i].status = "PAID"] /\ Bills \in Seq(BillRecord)
        /\ Bills[i].status = "PENDING" /\ Moved(Bills[i])
    BY <1>4 DEF BillPaid, MoneyTyped
  <2>2. PICK b \in BillRecord : b = Bills[i]
    BY <2>1
  <2>3. \A u \in Users : Explained(Bills, Bills', b, u)
    BY <2>1, <2>2, PaidBill
  <2>4. AllRegular(Bills') => b.regular /\ AllRegular(Bills)
    <3>1. b.buyer \in Users
      BY BillCosts DEF Users
    <3>2. \A more : more = [Bills EXCEPT ![i].status = "PAID"] =>
            (AllRegular(more) => Bills[i].regular /\ AllRegular(Bills))
      BY <2>1, <3>1, PaidBill
    <3> QED BY <2>1, <2>2, <3>2 DEF AllRegular
  <2> QED BY <2>1, <2>2, <2>3, <2>4, PaymentIsExplained
<1>5. ASSUME NEW S \in SUBSET (1..Len(Bills)), BillsCancelled(S)
      PROVE  MoneyInv'
  <2>1. /\ Bills' = [i \in 1..Len(Bills) |->
                       IF i \in S THEN [Bills[i] EXCEPT !.status = "CANCELLED"]
                                  ELSE Bills[i]]
        /\ \A i \in S : Bills[i].status = "PENDING"
        /\ UNCHANGED <<Balances, deposited>> /\ Bills \in Seq(BillRecord)
    BY <1>5 DEF BillsCancelled, MoneyTyped
  <2>2. Len(Bills') = Len(Bills)
    BY <2>1
  <2>3. ASSUME NEW i \in 1..Len(Bills)
        PROVE  /\ Bills'[i].status = "PAID" <=> Bills[i].status = "PAID"
               /\ Bills'[i].buyer = Bills[i].buyer
               /\ Bills'[i].due = Bills[i].due
               /\ Bills'[i].regular = Bills[i].regular
    <3>1. PICK b \in BillRecord : b = Bills[i]
      BY <2>1
    <3>2. Bills'[i] = IF i \in S THEN [b EXCEPT !.status = "CANCELLED"] ELSE b
      BY <2>1, <3>1
    <3>3. i \in S => b.status = "PENDING"
      BY <2>1, <3>1
    <3> QED BY <3>1, <3>2, <3>3 DEF BillRecord
  <2>4. ASSUME NEW u \in Users
        PROVE  SpentOn(Bills', u) = SpentOn(Bills, u) /\ EarnedBy(Bills', u) = EarnedBy(Bills, u)
    BY <2>2, <2>3 DEF SpentOn, EarnedBy
  <2>5. \A u \in Users : Owned(u)' = Owned(u)
    BY <2>1, <2>4 DEF Owned
  <2>6. AllRegular(Bills') => AllRegular(Bills)
    BY <2>2, <2>3 DEF AllRegular
  <2> QED BY <2>1, <2>5, <2>6, QuietBills
<1> QED BY <1>1, <1>2, <1>3, <1>4, <1>5 DEF MoneyStep

LEMMA MoneyIsTyped ==
  ASSUME ShopInv
  PROVE  MoneyTyped
<1>1. Balances \in [Users -> Nat]
  BY BalanceIsNatural DEF Balances, ShopInv, CatalogInv
<1>2. deposited \in [Users -> Int]
  BY AccountsAssumption DEF ShopInv, CatalogInv, AccountsInv, AccountsTypeOK
<1> QED BY <1>1, <1>2, BillsTyped DEF MoneyTyped

LEMMA ShopInitMoney == ShopInit => SellersKnown /\ MoneyInv
<1> SUFFICES ASSUME ShopInit PROVE SellersKnown /\ MoneyInv
  OBVIOUS
<1>1. /\ orders = << >>
      /\ users = [u \in Users |-> None] /\ deposited = [u \in Users |-> 0]
      /\ commodities = [c \in Commodities |-> None]
  BY DEF ShopInit, CatalogInit, AccountsInit
<1>2. SellersKnown
  BY <1>1 DEF SellersKnown
<1>3. ASSUME NEW u \in Users
      PROVE  Balances[u] = 0 /\ Owned(u) = 0
  <2>1. Len(Bills) = 0
    BY <1>1 DEF Bills
  <2>2. DOMAIN SpentOn(Bills, u) = {} /\ DOMAIN EarnedBy(Bills, u) = {}
    BY <2>1 DEF SpentOn, EarnedBy
  <2>3. SumOf(SpentOn(Bills, u)) = 0 /\ SumOf(EarnedBy(Bills, u)) = 0
    BY <2>2, SumOfNothing
  <2>4. Balances[u] = 0 /\ deposited[u] = 0
    BY <1>1 DEF Balances, Balance
  <2> QED BY <2>3, <2>4 DEF Owned
<1> QED BY <1>2, <1>3 DEF MoneyInv

LEMMA ShopAlwaysMoney == ShopSpec => [](ShopInv /\ SellersKnown /\ MoneyInv)
<1>1. ShopInit => ShopInv /\ SellersKnown /\ MoneyInv
  BY ShopInitInv, ShopInitMoney
<1>2. (ShopInv /\ SellersKnown /\ MoneyInv) /\ [ShopNext]_shopVars
        => (ShopInv /\ SellersKnown /\ MoneyInv)'
  <2> SUFFICES ASSUME ShopInv, SellersKnown, MoneyInv, [ShopNext]_shopVars
               PROVE  (ShopInv /\ SellersKnown /\ MoneyInv)'
    OBVIOUS
  <2>1. ShopInv' /\ SellersKnown'
    BY ShopNextKeepsInv, ShopNextKeepsSellers
  <2>2. ShopInv' => MoneyTyped'
    BY MoneyIsTyped, PTL
  <2>3. MoneyInv'
    BY <2>1, <2>2, ShopNextMoney, MoneyIsTyped, MoneyStepKeepsInv
  <2> QED BY <2>1, <2>3
<1> QED BY <1>1, <1>2, PTL DEF ShopSpec

\* The sums of the property are the sums over the bills.
LEMMA ExplainedByBills ==
  ASSUME ShopInv, NEW u \in Users
  PROVE  /\ Spent(u) = SumOf(SpentOn(Bills, u))
         /\ Earned(u) = SumOf(EarnedBy(Bills, u))
         /\ (\A i \in OrdersWith("PAID") : Regular(orders[i])) => AllRegular(Bills)
<1> DEFINE D == 1..Len(orders)
           P == OrdersWith("PAID")
           T == {j \in P : orders[j].user = u}
           f == [i \in D |-> Total(orders[i])]
           h == [i \in D |-> Share(orders[i], u)]
           g == SpentOn(Bills, u)
           k == EarnedBy(Bills, u)
<1>1. /\ orders \in Seq(OrderRecord)
      /\ Bills \in Seq(BillRecord) /\ Len(Bills) = Len(orders)
      /\ \A i \in D : Bills[i] = Bill(orders[i])
  BY BillsTyped DEF ShopInv, OrdersInv, OrdersTypeOK
<1>2. ASSUME NEW i \in D
      PROVE  /\ Total(orders[i]) = SumOf(Bills[i].due)
             /\ Bills[i].buyer = orders[i].user /\ Bills[i].status = orders[i].status
             /\ u \in Merchants => Bills[i].due[u] = Share(orders[i], u)
             /\ u \notin Merchants => Share(orders[i], u) = 0
             /\ Total(orders[i]) \in Int /\ Share(orders[i], u) \in Int
  <2>1. PICK o \in OrderRecord : o = orders[i]
    BY <1>1
  <2>2. \A c \in Contents(o.items) : commodities[c].merchant \in Merchants
    BY <2>1, OrderedGoodsHaveSellers
  <2>3. Bill(o).due = [m \in Merchants |-> Share(o, m)]
    BY DEF Bill
  <2>4. Total(o) = SumOf(Bill(o).due)
    BY <2>2, <2>3, TotalIsShared
  <2>5. Bill(o) \in BillRecord /\ Bill(o) = Bills[i]
    BY <1>1, <2>1
  <2>6. SumOf(Bill(o).due) \in Int /\ \A m \in Merchants : Bill(o).due[m] \in Int
    BY <2>5, BillCosts
  <2>7. u \notin Merchants => Share(o, u) = 0
    BY <2>2, NoShare
  <2>8. u \in Merchants => Bill(o).due[u] = Share(o, u)
    BY <2>3
  <2>9. Total(o) \in Int /\ Share(o, u) \in Int
    BY <2>4, <2>6, <2>7, <2>8
  <2> QED BY <2>1, <2>4, <2>5, <2>7, <2>8, <2>9, BillStatus
<1>3. /\ f \in [D -> Int] /\ h \in [D -> Int] /\ g \in [D -> Int] /\ k \in [D -> Int]
      /\ IsFiniteSet(D)
  BY <1>1, <1>2, MoneySums
<1>4. P \in SUBSET D /\ T \in SUBSET D
  BY DEF OrdersWith
<1>5. /\ \A i \in T : g[i] = f[i]
      /\ \A i \in D \ T : g[i] = 0
  BY <1>1, <1>2 DEF SpentOn, OrdersWith
<1>6. /\ \A i \in P : k[i] = h[i]
      /\ \A i \in D \ P : k[i] = 0
  BY <1>1, <1>2 DEF EarnedBy, OrdersWith
<1>7. Spent(u) = SumOf(Restrict(f, T)) /\ Earned(u) = SumOf(Restrict(h, P))
  <2>1. Restrict(f, T) = [i \in T |-> Total(orders[i])]
    BY <1>4 DEF Restrict
  <2>2. Restrict(h, P) = [i \in P |-> Share(orders[i], u)]
    BY <1>4 DEF Restrict
  <2> QED BY <2>1, <2>2 DEF Spent, Earned
<1>8. (\A i \in OrdersWith("PAID") : Regular(orders[i])) => AllRegular(Bills)
  <2>1. \A i \in D : Bills[i].regular = Regular(orders[i])
    BY <1>1, BillStatus
  <2> QED BY <1>1, <1>2, <2>1 DEF AllRegular, OrdersWith
<1> HIDE DEF D, P, T, f, g, h, k
<1>9. SumOf(g) = SumOf(Restrict(f, T))
  BY <1>3, <1>4, <1>5, SumFiltered
<1>10. SumOf(k) = SumOf(Restrict(h, P))
  BY <1>3, <1>4, <1>6, SumFiltered
<1> QED BY <1>7, <1>9, <1>10, <1>8 DEF g, k

\* Every balance is explained by deposits and paid orders: nothing is settled
\* twice, in part, or settled and then cancelled, whatever prices, also
\* negative ones, are listed.
THEOREM ShopBalancesExplained == ShopSpec => []BalancesExplained
<1>1. ShopInv /\ MoneyInv => BalancesExplained
  <2> SUFFICES ASSUME ShopInv, MoneyInv, NEW u \in Users
               PROVE  LET due == deposited[u] - Spent(u) + Earned(u)
                      IN  /\ Balance(u) >= due
                          /\ (\A i \in OrdersWith("PAID") : Regular(orders[i]))
                               => Balance(u) = due
    BY DEF BalancesExplained
  <2>1. Owned(u) = deposited[u] - Spent(u) + Earned(u) /\ Balances[u] = Balance(u)
    BY ExplainedByBills DEF Owned, Balances
  <2> QED BY <2>1, ExplainedByBills DEF MoneyInv
<1> QED BY <1>1, ShopAlwaysMoney, PTL

-----------------------------------------------------------------------------
(* The refinement of the market. *)

LEMMA MarketCost == \A due : Market!Cost(due) = SumOf(due)
BY DEF Market!Cost, Market!SumOf, SumOf, Market!MapThenSumSet, MapThenSumSet,
       Market!MapThenFoldSet, MapThenFoldSet

\* People, orders and payments mean the same here and there.
LEMMA MarketTerms ==
  /\ Market!People = Users
  /\ Market!Order = BillRecord
  /\ \A b : Moved(b) => Market!Transfer(b)
<1>1. Market!People = Users
  BY DEF Market!People, Users
<1>2. Market!Order = BillRecord
  BY DEF Market!Order, BillRecord
<1>3. ASSUME NEW b, Moved(b)
      PROVE  Market!Transfer(b)
  <2>1. Market!Cost(b.due) \in 1..Balances[b.buyer]
    BY <1>3, MarketCost DEF Moved
  <2>2. Balances' = [y \in Market!People |->
                       IF y = b.buyer THEN Balances[y] - Market!Cost(b.due)
                       ELSE IF y \in Merchants THEN Balances'[y]
                       ELSE Balances[y]]
    BY <1>1, <1>3, MarketCost DEF Moved
  <2>3. \A y \in Merchants : Market!Receives(y, b)
    BY <1>3 DEF Moved, Received, Market!Receives
  <2> QED BY <2>1, <2>2, <2>3 DEF Market!Transfer
<1> QED BY <1>1, <1>2, <1>3

LEMMA MarketDeposits ==
  ASSUME MoneyTyped, NEW u \in Users, NEW a \in Int, PaidIn(u, a)
  PROVE  Market!MarketNext
<1>1. Bills' = Bills /\ Balances' = [Balances EXCEPT ![u] = Balances[u] + a] /\ a > 0
  BY DEF PaidIn
<1>2. Balances'[u] = Balances[u] + a /\ Balances'[u] > Balances[u]
  BY <1>1 DEF MoneyTyped
<1>3. Balances' = [Balances EXCEPT ![u] = Balances'[u]]
  BY <1>1, <1>2
<1>4. Market!Deposit(u)
  BY <1>1, <1>2, <1>3 DEF Market!Deposit
<1> QED BY <1>1, <1>4, MarketTerms DEF Market!MarketNext

LEMMA MarketPlaces ==
  ASSUME MoneyTyped, NEW b \in BillRecord, Billed(b)
  PROVE  Market!MarketNext
<1>1. Bills' = Append(Bills, b) /\ Bills \in Seq(BillRecord)
  BY DEF Billed, MoneyTyped
<1>2. Len(Bills') = Len(Bills) + 1 /\ Bills'[Len(Bills')] = b /\ Len(Bills) \in Nat
  BY <1>1
<1>3. Market!Place(b) \/ Market!PlaceAndPay(b)
  BY MarketTerms DEF Billed, Market!Place, Market!PlaceAndPay
<1>4. b \in Market!Order
  BY MarketTerms
<1>5. Len(Bills') > Len(Bills)
  BY <1>2
<1> QED BY <1>1, <1>2, <1>3, <1>4, <1>5 DEF Market!MarketNext

LEMMA MarketPays ==
  ASSUME MoneyTyped, NEW i \in 1..Len(Bills), BillPaid(i)
  PROVE  Market!MarketNext
<1>1. /\ Bills' = [Bills EXCEPT ![i].status = "PAID"] /\ Bills \in Seq(BillRecord)
      /\ Bills[i].status = "PENDING" /\ Moved(Bills[i])
  BY DEF BillPaid, MoneyTyped
<1>2. Len(Bills') = Len(Bills)
  BY <1>1, PaidBill
<1>3. Market!Pay(i)
  BY <1>1, MarketTerms DEF Market!Pay
<1> QED BY <1>2, <1>3 DEF Market!MarketNext

LEMMA MarketCancels ==
  ASSUME MoneyTyped, NEW S \in SUBSET (1..Len(Bills)), BillsCancelled(S)
  PROVE  Market!MarketNext
<1>1. /\ Bills' = [i \in 1..Len(Bills) |->
                     IF i \in S THEN [Bills[i] EXCEPT !.status = "CANCELLED"] ELSE Bills[i]]
      /\ \A i \in S : Bills[i].status = "PENDING"
      /\ UNCHANGED Balances /\ Bills \in Seq(BillRecord)
  BY DEF BillsCancelled, MoneyTyped
<1>2. Len(Bills') = Len(Bills)
  BY <1>1
<1>3. ASSUME NEW i \in 1..Len(Bills)
      PROVE  Bills'[i] = IF Bills'[i] # Bills[i] /\ Bills[i].status = "PENDING"
                         THEN [Bills[i] EXCEPT !.status = "CANCELLED"] ELSE Bills[i]
  BY <1>1
<1>4. Bills' = [i \in 1..Len(Bills) |->
                  IF Bills'[i] # Bills[i] /\ Bills[i].status = "PENDING"
                  THEN [Bills[i] EXCEPT !.status = "CANCELLED"] ELSE Bills[i]]
  <2>1. Bills' = [i \in 1..Len(Bills) |-> Bills'[i]]
    BY <1>1
  <2> QED BY <1>3, <2>1
<1>5. Market!Cancel
  BY <1>1, <1>4 DEF Market!Cancel
<1> QED BY <1>2, <1>5 DEF Market!MarketNext

LEMMA MoneyStepIsMarketStep ==
  ASSUME MoneyTyped, MoneyStep
  PROVE  [Market!MarketNext]_Market!marketVars
BY MarketDeposits, MarketPlaces, MarketPays, MarketCancels
   DEF MoneyStep, Market!marketVars

LEMMA ShopInitIsMarketInit == ShopInit => Market!MarketInit
<1> SUFFICES ASSUME ShopInit PROVE Market!MarketInit
  OBVIOUS
<1>1. orders = << >> /\ users = [u \in Users |-> None]
  BY DEF ShopInit, CatalogInit, AccountsInit
<1>2. Bills = << >>
  BY <1>1 DEF Bills
<1>3. Balances = [u \in Users |-> 0]
  BY <1>1 DEF Balances, Balance
<1> QED BY <1>2, <1>3, MarketTerms DEF Market!MarketInit

\* The shop, with its stock, its objects and its restarts, implements the
\* market: an order fixes what is owed, and is settled at most once, in full.
THEOREM ShopImplementsMarket == ShopSpec => MarketSpec
<1>1. ShopInit => Market!MarketInit
  BY ShopInitIsMarketInit
<1>2. ShopInv /\ SellersKnown /\ [ShopNext]_shopVars => [Market!MarketNext]_Market!marketVars
  BY MoneyIsTyped, ShopNextMoney, MoneyStepIsMarketStep
<1> QED BY <1>1, <1>2, ShopAlwaysMoney, PTL DEF ShopSpec, MarketSpec, Market!MarketSpec

=============================================================================
