-------------------------------- MODULE Shop --------------------------------
(***************************************************************************)
(* OrderManager (src/src/OrderManager.cpp), the cart and order handlers of *)
(* Server.cpp and the expiry thread, on top of the accounts and the        *)
(* catalogue: the whole data side of the server.                           *)
(*                                                                         *)
(* Carts and orders exist as rows only; stock and balances exist as rows   *)
(* and as objects.  A request holds _dataMutex from its first read to its  *)
(* last write and so does a pass of the expiry thread, hence each is one   *)
(* action here; an SQL statement that fails is not modelled.  The error    *)
(* paths kept are those a client can cause: goods out of stock, a balance  *)
(* too low.                                                                *)
(***************************************************************************)
EXTENDS Catalog, Sequences, Sums

CONSTANTS
  Quantities, \* the quantities consumers type
  MaxOrders,  \* bound: the number of orders
  MaxAmount,  \* bound: what one order brings, or costs, one merchant
  MaxUnits    \* bound: the units of a commodity cancelled at once

\* A name comes in a message of at most 1 MB: there are finitely many.
ASSUME ShopAssumption ==
  /\ IsFiniteSet(Merchants)
  /\ IsFiniteSet(Commodities)
  /\ Quantities \subseteq Int
  /\ MaxOrders \in Nat
  /\ MaxAmount \in Nat
  /\ MaxUnits \in Nat

VARIABLES
  cartItems, \* the table: consumer -> commodity -> quantity, 0 without a row
  orders,    \* the tables orders and order_items, by order id
  aged       \* orders 1..aged were created more than 30 minutes ago

orderVars == <<cartItems, orders, aged>>
shopVars == <<catalogVars, orderVars>>

Bundle == [Commodities -> Nat]

OrderRecord ==
  [user : Consumers, status : {"PENDING", "PAID", "CANCELLED"},
   items : Bundle, price : [Commodities -> Int]]

ShopTypeOK ==
  /\ AccountsTypeOK
  /\ CatalogTypeOK
  /\ cartItems \in [Consumers -> Bundle]
  /\ orders \in Seq(OrderRecord)
  /\ aged \in 0..Len(orders)

EmptyCart == [c \in Commodities |-> 0]

ShopInit ==
  /\ CatalogInit
  /\ cartItems = [u \in Consumers |-> EmptyCart]
  /\ orders = << >>
  /\ aged = 0

-----------------------------------------------------------------------------
(* What the tables say of a cart or an order. *)

Contents(bundle) == {c \in Commodities : bundle[c] > 0}

\* base_price * discount, as getCartItems reads them from the row.
PriceNow(c) == commodities[c].basePrice * commodities[c].discount

OrderFromCart(u, status) ==
  [user |-> u, status |-> status, items |-> cartItems[u],
   price |-> [c \in Commodities |->
                IF cartItems[u][c] > 0 THEN PriceNow(c) ELSE 0]]

ChargedNow(o, c) == PriceNow(c) \* mutant: the price of today, not of checkout

\* order_items.unit_price.
Charged(o, c) == o.price[c]

Total(o) == SumOf([c \in Contents(o.items) |-> Charged(o, c) * o.items[c]])

\* merchantAmounts of payOrder.
Share(o, m) ==
  SumOf([c \in Contents(o.items) |->
           IF commodities[c].merchant = m THEN Charged(o, c) * o.items[c] ELSE 0])

\* The bound on amounts.
Bounded(o) == \A m \in Merchants : Share(o, m) \in -MaxAmount..MaxAmount

Payees(o) ==
  {m \in Merchants :
     Known(m) # None /\ \E c \in Contents(o.items) : commodities[c].merchant = m}

-----------------------------------------------------------------------------
(* The cart. *)

\* The opening of handleCartOperation and handleOrderOperation.
ConsumerRequest(u) ==
  /\ u \in Consumers
  /\ Known(u) # None
  /\ LookUpUser(u)

\* The stock checks of the cart and of checkout read the object.
InStock(c, n) == Found(c) # None /\ n <= Found(c).storage

\* What the cart operations leave alone, and the commodity they look up.
CartRequest(u, c) ==
  /\ ConsumerRequest(u)
  /\ commodityCache' = CacheWithGoods({c})
  /\ UNCHANGED <<commodities, supplied, orders, aged>>

AddItem(u, c, n) ==
  /\ CartRequest(u, c)
  /\ n > 0
  /\ InStock(c, cartItems[u][c] + n)
  /\ cartItems' = [cartItems EXCEPT ![u][c] = @ + n]

RemoveItem(u, c) ==
  /\ CartRequest(u, c)
  /\ Found(c) # None
  /\ cartItems' = [cartItems EXCEPT ![u][c] = 0]

\* The UPDATE matches no row when the commodity is not in the cart.
UpdateQuantity(u, c, n) ==
  /\ CartRequest(u, c)
  /\ n > 0
  /\ InStock(c, n)
  /\ cartItems' = [cartItems EXCEPT ![u][c] = IF @ > 0 THEN n ELSE 0]

-----------------------------------------------------------------------------
(* Checkout. *)

CanCheckout(u) ==
  /\ Known(u) # None
  /\ Contents(cartItems[u]) # {}
  /\ \A c \in Contents(cartItems[u]) : InStock(c, cartItems[u][c])

\* Refused for want of stock: the items read before the one that falls short
\* have been looked up.
CheckoutRefused(u) ==
  /\ ConsumerRequest(u)
  /\ \E S \in SUBSET Contents(cartItems[u]), c \in Commodities :
       /\ c \in S
       /\ ~ InStock(c, cartItems[u][c])
       /\ \A d \in S \ {c} : InStock(d, cartItems[u][d])
       /\ commodityCache' = CacheWithGoods(S)
  /\ UNCHANGED <<commodities, supplied, orderVars>>

RowsNotTaken(bundle) == commodities \* mutant: no UPDATE

\* UPDATE ... WHERE id = ? AND storage >= ?; nobody asks how many rows it
\* changed.
RowsTaken(bundle) ==
  [c \in Commodities |->
     IF bundle[c] > 0 /\ commodities[c].storage >= bundle[c]
     THEN [commodities[c] EXCEPT !.storage = @ - bundle[c]]
     ELSE commodities[c]]

CacheNotTaken(bundle) == CacheWithGoods(Contents(bundle)) \* mutant: no setStorage

\* setStorage(getStorage() - quantity), whatever the UPDATE did.
CacheTaken(bundle) ==
  [c \in Commodities |->
     IF bundle[c] > 0 THEN [Found(c) EXCEPT !.storage = @ - bundle[c]]
                      ELSE commodityCache[c]]

\* The effects of a checkout that commits.
OrderCreated(u, status) ==
  /\ Len(orders) < MaxOrders
  /\ Bounded(OrderFromCart(u, status))
  /\ orders' = Append(orders, OrderFromCart(u, status))
  /\ commodities' = RowsTaken(cartItems[u])
  /\ commodityCache' = CacheTaken(cartItems[u])
  /\ cartItems' = [cartItems EXCEPT ![u] = EmptyCart]
  /\ UNCHANGED <<supplied, aged>>

PlaceOrder(u) ==
  /\ CanCheckout(u)
  /\ LookUpUser(u)
  /\ OrderCreated(u, "PENDING")

PositiveOnly(o) == Total(o) > 0 \* mutant: the balance is not compared

\* subtractBalance refuses an amount that is not positive or not covered.
CanPay(o) == Total(o) > 0 /\ Total(o) <= Known(o.user).balance

\* What addBalance adds: nothing if the amount is not positive, and nobody
\* looks at its result.
Credit(n) == IF AddsToBalance(n) THEN n ELSE 0

\* addBalance by checkout, which goes through the items.
GainNow(o, m) ==
  SumOf([c \in Contents(o.items) |->
           IF commodities[c].merchant = m THEN Credit(Charged(o, c) * o.items[c])
                                          ELSE 0])

\* addBalance by payOrder, once for each merchant.
GainLater(o, m) == Credit(Share(o, m))

\* subtractBalance for the consumer, addBalance for every merchant.
Settled(o, gain) ==
  [u \in Users |->
     IF u = o.user THEN [Known(u) EXCEPT !.balance = @ - Total(o)]
     ELSE IF u \in Payees(o) THEN [Known(u) EXCEPT !.balance = @ + gain[u]]
     ELSE userCache[u]]

ConsumerOnly(o) == {o.user} \* mutant: the merchants' rows are not written

\* Whom updateBalance is called for.
Parties(o) == {o.user} \cup Payees(o)

Settle(o, gain) ==
  /\ Known(o.user) # None
  /\ CanPay(o)
  /\ userCache' = Settled(o, gain)
  /\ users' = RowsSaved(Parties(o), userCache')
  /\ UNCHANGED <<deposited, restarts>>

\* Checkout with immediatePayment.
PayNow(u) ==
  /\ CanCheckout(u)
  /\ LET o == OrderFromCart(u, "PAID")
     IN  Settle(o, [m \in Merchants |-> GainNow(o, m)])
  /\ OrderCreated(u, "PAID")

\* The transaction is rolled back: the rows are as before, but the objects
\* have been given the stock of an order that does not exist.
PayNowRefused(u) ==
  /\ CanCheckout(u)
  /\ ~ CanPay(OrderFromCart(u, "PAID"))
  /\ LookUpUser(u)
  /\ commodityCache' = CacheTaken(cartItems[u])
  /\ UNCHANGED <<commodities, supplied, orderVars>>

-----------------------------------------------------------------------------
(* Orders. *)

CanCancelAny(i) == TRUE \* mutant: the status is not read

Open(i) == orders[i].status = "PENDING"

PayOrder(u, i) ==
  /\ orders[i].user = u
  /\ Open(i)
  /\ Settle(orders[i], [m \in Merchants |-> GainLater(orders[i], m)])
  /\ orders' = [orders EXCEPT ![i].status = "PAID"]
  /\ UNCHANGED <<goodsVars, cartItems, aged>>

\* What cancelling the orders of S brings back of c.
Returned(S, c) == SumOf([i \in S |-> orders[i].items[c]])

Holding(S, c) == {i \in S : orders[i].items[c] > 0}

RowsNotReturned(S) == commodities \* mutant: no UPDATE

RowsReturned(S) ==
  [c \in Commodities |->
     IF Holding(S, c) # {} THEN [commodities[c] EXCEPT !.storage = @ + Returned(S, c)]
                           ELSE commodities[c]]

\* getCommodityById comes after the UPDATE: an object that is loaded there has
\* the units of the first order already, and is given them again.
CacheReturned(S) ==
  [c \in Commodities |->
     IF Holding(S, c) = {} THEN commodityCache[c]
     ELSE [Found(c) EXCEPT !.storage =
             @ + Returned(S, c) +
             IF commodityCache[c] = None
             THEN orders[Min(Holding(S, c))].items[c] ELSE 0]]

\* cancelOrderInternal for every order of S, in one transaction.
CancelOrders(S) ==
  /\ \A c \in Commodities : Returned(S, c) \in 0..MaxUnits
  /\ orders' = [i \in 1..Len(orders) |->
                  IF i \in S THEN [orders[i] EXCEPT !.status = "CANCELLED"]
                             ELSE orders[i]]
  /\ commodities' = RowsReturned(S)
  /\ commodityCache' = CacheReturned(S)
  /\ UNCHANGED <<supplied, cartItems, aged>>

CancelOrder(u, i) ==
  /\ orders[i].user = u
  /\ Open(i)
  /\ ConsumerRequest(u)
  /\ CancelOrders({i})

OverdueButLast == \* mutant: an off-by-one
  {i \in 1..(aged - 1) : Open(i)}

Overdue == {i \in 1..aged : Open(i)}

CancelExpiredOrders ==
  /\ Overdue # {}
  /\ CancelOrders(Overdue)
  /\ UNCHANGED accountVars

\* The clock: one more order is older than 30 minutes.
Age ==
  /\ aged < Len(orders)
  /\ aged' = aged + 1
  /\ UNCHANGED <<catalogVars, cartItems, orders>>

RestartShop == RestartCatalog /\ UNCHANGED orderVars

-----------------------------------------------------------------------------

CartStep(u) ==
  \/ \E c \in Commodities :
       \/ RemoveItem(u, c)
       \/ \E n \in Quantities : AddItem(u, c, n) \/ UpdateQuantity(u, c, n)
  \/ CheckoutRefused(u)
  \/ PlaceOrder(u)
  \/ PayNow(u)
  \/ PayNowRefused(u)

OrderStep(u) ==
  \E i \in 1..Len(orders) : PayOrder(u, i) \/ CancelOrder(u, i)

ShopNext ==
  \/ (AccountStep \/ GoodsStep) /\ UNCHANGED orderVars
  \/ \E u \in Consumers : CartStep(u) \/ OrderStep(u)
  \/ CancelExpiredOrders
  \/ Age
  \/ RestartShop

ShopSpec == ShopInit /\ [][ShopNext]_shopVars

\* The expiry thread makes a pass every 60 seconds for as long as the server
\* runs.
FairShopSpec == ShopSpec /\ WF_shopVars(CancelExpiredOrders)

-----------------------------------------------------------------------------
(* Correctness: money. *)

Balance(u) == IF users[u] = None THEN 0 ELSE users[u].balance

OrdersWith(status) == {i \in 1..Len(orders) : orders[i].status = status}

Spent(u) ==
  SumOf([i \in {j \in OrdersWith("PAID") : orders[j].user = u} |-> Total(orders[i])])

Earned(u) == SumOf([i \in OrdersWith("PAID") |-> Share(orders[i], u)])

\* No item has a negative price, which only a request that no client menu
\* makes can list (Server.cpp:365-381 passes any price on).
Regular(o) == \A c \in Contents(o.items) : o.price[c] >= 0

\* Every balance in the database is explained by its owner's deposits, the
\* orders the owner has paid and the shares of the orders paid to the owner:
\* no order is settled twice, settled in part, or settled and then cancelled,
\* whichever of checkout, payOrder, cancelOrder, cancelExpiredOrders and a
\* restart come in which order.  A negative share is not taken from a
\* merchant, since addBalance refuses it: where a paid order has a negative
\* price there may be more money than that, never less.
BalancesExplained ==
  \A u \in Users :
    LET due == deposited[u] - Spent(u) + Earned(u)
    IN  /\ Balance(u) >= due
        /\ (\A i \in OrdersWith("PAID") : Regular(orders[i])) => Balance(u) = due

\* What the market sees of the accounts and of the orders.
Balances == [u \in Users |-> Balance(u)]

Bill(o) ==
  [buyer |-> o.user, due |-> [m \in Merchants |-> Share(o, m)],
   regular |-> Regular(o), status |-> o.status]

Bills == [i \in 1..Len(orders) |-> Bill(orders[i])]

Market == INSTANCE Marketplace WITH
  Buyers <- Consumers,
  Sellers <- Merchants,
  Dues <- [Merchants -> -MaxAmount..MaxAmount],
  balance <- Balances,
  book <- Bills

\* The shop implements the market: payOrder charges what checkout fixed,
\* whatever the merchants have done to their prices in between.
MarketSpec == Market!MarketSpec

(* Correctness: stock. *)

\* The units of c that pending and paid orders hold.
Ordered(c) ==
  SumOf([i \in OrdersWith("PENDING") \cup OrdersWith("PAID") |-> orders[i].items[c]])

Stocked(c) == IF commodities[c] = None THEN 0 ELSE commodities[c].storage

\* Every unit a merchant has put on sale is in the row or in an order, once,
\* as long as the process that took the orders still runs (the comments
\* "insert the items and deduct the stock" and "restore the stock" of
\* OrderManager.cpp:180 and 462).
StockConserved ==
  restarts = 0 => \A c \in Commodities : Stocked(c) + Ordered(c) = supplied[c]

\* The object never promises more units than the row has, so a checkout that
\* passes the check on the object deducts from the row.
StockCover ==
  restarts = 0 =>
    \A c \in Commodities :
      commodityCache[c] # None => commodityCache[c].storage <= commodities[c].storage

\* No unit is lost by any sequence of orders, refusals, cancellations,
\* expiries and restarts: what is neither in the row nor in an order was never
\* supplied.
StockNeverLost ==
  \A c \in Commodities : Stocked(c) + Ordered(c) >= supplied[c]

(* Correctness: expiry. *)

\* An order that is 30 minutes old does not stay pending: README.md:28.
OverdueOrdersClose ==
  \A i \in 1..MaxOrders :
    (i <= aged /\ Open(i)) ~> (i <= aged /\ ~ Open(i))

(* What comments of the code say, and the code does not do. *)

\* OrderManager.cpp:180, "insert the items and deduct the stock": no unit is
\* sold twice.
NothingSoldTwice ==
  \A c \in Commodities : Stocked(c) + Ordered(c) <= supplied[c]

=============================================================================
