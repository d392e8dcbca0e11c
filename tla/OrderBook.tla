------------------------------ MODULE OrderBook ------------------------------
(***************************************************************************)
(* What the tables of balances, stock, carts and orders go through when    *)
(* every operation of OrderManager happens at once: the atomicity that     *)
(* README.md:18 promises for the key operations.  The rows of Shop change  *)
(* by these steps.  OrderTx, where the same operations are transactions of *)
(* several statements, is shown to implement it.                           *)
(*                                                                         *)
(* One thing the code does not promise: a checkout whose COMMIT fails may  *)
(* be there for the requests that follow and not on disk, until a payment, *)
(* a cancellation or the end of the process decides; or it is undone, and  *)
(* the objects of those it would have moved money between keep the         *)
(* balances it would have left.                                            *)
(*                                                                         *)
(* A unit of any commodity costs 1: prices are the matter of Catalog and   *)
(* Shop.                                                                   *)
(***************************************************************************)
EXTENDS Sequences, Sums

CONSTANTS
  Consumers,
  Merchants,
  Commodities,
  Owner,      \* commodity -> the merchant who sells it
  Supply,     \* commodity -> the units on sale in the beginning
  Amounts     \* what users recharge

ASSUME OrderBookAssumption ==
  /\ Consumers \cap Merchants = {}
  /\ Owner \in [Commodities -> Merchants]
  /\ Supply \in [Commodities -> Nat]
  /\ Amounts \subseteq Nat \ {0}
  /\ IsFiniteSet(Commodities) \* a name comes in a message of at most 1 MB

VARIABLES
  book,  \* the rows on disk: balance, storage, cart and orders
  seen,  \* the rows as the requests of the running server find them
  astray \* the users whose objects do not agree with their rows

bookVars == <<book, seen, astray>>

Users == Consumers \cup Merchants

Bundle == [Commodities -> Nat]

OrderRow ==
  [user : Consumers, status : {"PENDING", "PAID", "CANCELLED"}, items : Bundle]

Rows ==
  [balance : [Users -> Nat],
   storage : Bundle,
   cart : [Consumers -> Bundle],
   orders : Seq(OrderRow)]

NoItems == [c \in Commodities |-> 0]

EmptyBook ==
  [balance |-> [u \in Users |-> 0],
   storage |-> Supply,
   cart |-> [u \in Consumers |-> NoItems],
   orders |-> << >>]

Contents(items) == {c \in Commodities : items[c] > 0}

Total(items) == SumOf(items)

\* What a merchant gets of a bundle.
Share(items, m) ==
  SumOf([c \in {d \in Commodities : Owner[d] = m} |-> items[c]])

\* The balances after a payment of items by u.
Settled(balance, u, items) ==
  [v \in Users |->
     IF v = u THEN balance[v] - Total(items)
     ELSE IF v \in Merchants THEN balance[v] + Share(items, v)
     ELSE balance[v]]

\* UPDATE ... WHERE storage >= ? takes the units or matches no row.
Taken(storage, items) ==
  [c \in Commodities |->
     IF storage[c] >= items[c] THEN storage[c] - items[c] ELSE storage[c]]

-----------------------------------------------------------------------------

BookInit == book = EmptyBook /\ seen = EmptyBook /\ astray = {}

\* Requests find these rows from now on, but for the balances of users astray,
\* which come from their objects.
Becomes(rows) ==
  /\ seen' = [rows EXCEPT !.balance = seen'.balance]
  /\ seen'.balance \in [Users -> Nat]
  /\ \A u \in Users \ astray : seen'.balance[u] = rows.balance[u]
  /\ UNCHANGED astray

\* The disk has what requests find, or keeps what it had.
Written == book' = seen'

Waits == UNCHANGED book

\* A request of one statement: on disk at once, unless a checkout waits.
WrittenInTurn == IF book = seen THEN Written ELSE Waits

AddItem(u, c) ==
  /\ Becomes([seen EXCEPT !.cart[u][c] = @ + 1])
  /\ WrittenInTurn

Recharge(u, n) ==
  /\ Becomes([seen EXCEPT !.balance[u] = @ + n])
  /\ WrittenInTurn

\* Whoever is astray may seem to have any amount.
Covers(u, amount) == amount > 0 /\ (u \notin astray => amount <= seen.balance[u])

Placed(u, status) ==
  [seen EXCEPT
     !.orders = Append(@, [user |-> u, status |-> status, items |-> seen.cart[u]]),
     !.storage = Taken(@, seen.cart[u]),
     !.cart = [@ EXCEPT ![u] = NoItems]]

\* While a checkout waits no other can begin.
Place(u) ==
  /\ book = seen
  /\ Contents(seen.cart[u]) # {}
  /\ Becomes(Placed(u, "PENDING"))
  /\ Written \/ Waits

PlacePaid(u) ==
  /\ book = seen
  /\ Covers(u, Total(seen.cart[u]))
  /\ Becomes([Placed(u, "PAID") EXCEPT !.balance = Settled(@, u, seen.cart[u])])
  /\ Written \/ Waits

\* A checkout that pays at once is undone and its objects are not.
PlaceUndone(u) ==
  /\ book = seen
  /\ Covers(u, Total(seen.cart[u]))
  /\ astray' = astray \cup {u} \cup {Owner[c] : c \in Contents(seen.cart[u])}
  /\ UNCHANGED <<book, seen>>

Pay(i) ==
  LET o == seen.orders[i]
  IN  /\ o.status = "PENDING"
      /\ Covers(o.user, Total(o.items))
      /\ Becomes([seen EXCEPT !.orders[i].status = "PAID",
                              !.balance = Settled(@, o.user, o.items)])
      /\ Written

\* cancelOrder for one order, cancelExpiredOrders for several.
Cancel(S) ==
  /\ S # {}
  /\ \A i \in S : seen.orders[i].status = "PENDING"
  /\ Becomes([seen EXCEPT
                !.orders = [i \in DOMAIN @ |->
                              IF i \in S THEN [@[i] EXCEPT !.status = "CANCELLED"]
                                         ELSE @[i]],
                !.storage = [c \in Commodities |->
                               @[c] + SumOf([i \in S |-> seen.orders[i].items[c]])]])
  /\ Written

\* The process ends: what waits is lost, and the objects are loaded anew.
Restart == UNCHANGED book /\ seen' = book /\ astray' = {}

BookNext ==
  \/ \E u \in Users, n \in Amounts : Recharge(u, n)
  \/ \E u \in Consumers :
       \/ \E c \in Commodities : AddItem(u, c)
       \/ Place(u)
       \/ PlacePaid(u)
       \/ PlaceUndone(u)
  \/ \E i \in DOMAIN seen.orders : Pay(i)
  \/ \E S \in SUBSET DOMAIN seen.orders : Cancel(S)
  \/ Restart

BookSpec == BookInit /\ [][BookNext]_bookVars

=============================================================================
