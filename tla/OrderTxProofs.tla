---------------------------- MODULE OrderTxProofs ----------------------------
(***************************************************************************)
(* Proofs about OrderTx: its types, that no transaction is left open, that *)
(* what a client was told stays true, that the objects of users have the   *)
(* balances of their rows, and that the committed rows go through the      *)
(* steps of OrderBook, whatever the goods, users and orders.               *)
(*                                                                         *)
(* The invariant says of every step of every operation what the connection *)
(* has written so far: db is book with the part of the operation that is   *)
(* behind.  At COMMIT that part is the whole, which is one step of         *)
(* OrderBook.                                                              *)
(***************************************************************************)
EXTENDS OrderTx, SumsProofs, TLAPS

Order(u, status, items) == [user |-> u, status |-> status, items |-> items]

-----------------------------------------------------------------------------
(* Between operations. *)

OpenInv == open <=> held \/ op.at \notin {"none", "begin"}

IdleInv ==
  op.kind = "none" => op = Idle /\ db = seen

\* What requests find is on disk, but for the order of a checkout whose COMMIT
\* failed; while that transaction is open no other checkout gets past BEGIN.
HeldInv ==
  /\ held => /\ Len(seen.orders) = Len(book.orders) + 1
             /\ \A i \in DOMAIN book.orders : seen.orders[i] = book.orders[i]
  /\ ~ held => seen = book
  /\ held /\ op.kind = "checkout" => op.at = "begin"

-----------------------------------------------------------------------------
(* checkout. *)

Early == {"begin", "order"}                      \* nothing is written
Entering == {"item", "stock"}                    \* the loop over the items
CartIsFull == Early \cup Entering \cup {"clear"}
Paying == {"credit", "status", "save"}           \* the buyer is debited

\* checkout has paid the order, or is doing so.
PaysNow == op.at \in Paying \/ (op.at = "commit" /\ op.now)

CheckoutControl ==
  /\ op.at \in CartIsFull \cup {"debit"} \cup Paying \cup {"commit"}
  /\ op.at \in {"debit"} \cup Paying => op.now
  /\ op.user \in Consumers
  /\ op.items = seen.cart[op.user]
  /\ Contents(op.items) # {}
  /\ op.rest \subseteq Contents(op.items)
  /\ op.rest # {} <=> op.at \in Entering \cup {"credit"}
  /\ op.at \notin Early => op.order = Len(seen.orders) + 1
  /\ op.at \in CartIsFull =>
       \A c \in Contents(op.items) : stock[c] # None /\ op.items[c] <= stock[c]
  /\ PaysNow => Covers(op.user, Total(op.items))

\* The goods of the order that have no row yet.
Missing ==
  IF op.at = "item" THEN op.rest
  ELSE IF op.at = "stock" THEN op.rest \ {Current}
  ELSE {}

ItemsSoFar == [c \in Commodities |-> IF c \in Missing THEN 0 ELSE op.items[c]]

StatusSoFar ==
  IF op.at = "save" \/ (op.at = "commit" /\ op.now) THEN "PAID" ELSE "PENDING"

\* What the goods that have been gone through bring a merchant.
PartOfShare(rest, m) ==
  SumOf([c \in {d \in Commodities : Owner[d] = m /\ d \notin rest} |-> op.items[c]])

CheckoutRows ==
  /\ db.cart = IF op.at \in CartIsFull THEN seen.cart
               ELSE [seen.cart EXCEPT ![op.user] = NoItems]
  /\ db.orders = IF op.at \in Early THEN seen.orders
                 ELSE Append(seen.orders, Order(op.user, StatusSoFar, ItemsSoFar))
  /\ db.storage = [c \in Commodities |->
                     IF op.at \in Early \/ (op.at \in Entering /\ c \in op.rest)
                     THEN seen.storage[c] ELSE Taken(seen.storage, op.items)[c]]
  /\ ~ PaysNow => db.balance = seen.balance
  /\ PaysNow => \A v \in Users \ astray :
       db.balance[v] = IF v \in Merchants
                         THEN seen.balance[v] + PartOfShare(op.rest, v)
                       ELSE IF v = op.user /\ op.at = "commit"
                         THEN seen.balance[v] - Total(op.items)
                       ELSE seen.balance[v]

CheckoutInv == op.kind = "checkout" => CheckoutControl /\ CheckoutRows

-----------------------------------------------------------------------------
(* payOrder. *)

PayControl ==
  /\ op.at \in {"begin"} \cup Paying \cup {"commit"}
  /\ op.user \in Consumers
  /\ op.order \in DOMAIN seen.orders
  /\ seen.orders[op.order] = Order(op.user, "PENDING", op.items)
  /\ op.rest \subseteq Merchants
  /\ op.at \in {"status", "save", "commit"} => op.rest = {}
  /\ Covers(op.user, Total(op.items))

PayRows ==
  /\ db.cart = seen.cart
  /\ db.orders = IF op.at \in {"save", "commit"}
                 THEN [seen.orders EXCEPT
                         ![op.order] = Order(op.user, "PAID", op.items)]
                 ELSE seen.orders
  /\ db.storage = seen.storage
  /\ \A v \in Users \ astray :
       db.balance[v] = IF v \in Merchants \ op.rest
                         THEN seen.balance[v] + Share(op.items, v)
                       ELSE IF v = op.user /\ op.at = "commit"
                         THEN seen.balance[v] - Total(op.items)
                       ELSE seen.balance[v]

PayInv == op.kind = "pay" => PayControl /\ PayRows

-----------------------------------------------------------------------------
(* cancelOrder and cancelExpiredOrders. *)

\* The orders that are cancelled already, and those that can be.
Done == {i \in DOMAIN seen.orders : db.orders[i] # seen.orders[i]}

Waiting == {i \in DOMAIN seen.orders : seen.orders[i].status = "PENDING"} \ Done

CancelControl ==
  /\ op.at \in {"begin", "restore", "status", "commit"}
  /\ op.left \subseteq Waiting
  /\ op.at = "begin" => op.left # {}
  /\ op.at \in {"restore", "status"} =>
       /\ op.order \in Waiting \ op.left
       /\ op.items = seen.orders[op.order].items
       /\ op.rest \subseteq Contents(op.items)
  /\ op.at = "status" => op.rest = {}
  /\ op.at = "commit" => op.order \in Done

\* The units of c that the orders in D hold.
Held(D, c) == SumOf([i \in D |-> seen.orders[i].items[c]])

\* The units of c that have come back.
Returned(c) ==
  Held(Done, c) +
  (IF op.at \in {"restore", "status"} /\ c \notin op.rest THEN op.items[c] ELSE 0)

CancelRows ==
  /\ db.cart = seen.cart
  /\ Len(db.orders) = Len(seen.orders)
  /\ \A i \in Done :
       /\ seen.orders[i].status = "PENDING"
       /\ db.orders[i] =
            Order(seen.orders[i].user, "CANCELLED", seen.orders[i].items)
  /\ db.storage = [c \in Commodities |-> seen.storage[c] + Returned(c)]
  /\ db.balance = seen.balance

CancelInv == op.kind \in {"cancel", "expire"} => CancelControl /\ CancelRows

-----------------------------------------------------------------------------
(* The objects of the users. *)

\* The buyer's object is debited and the row is not.
Debit ==
  \/ op.kind = "pay" /\ op.at # "commit"
  \/ op.kind = "checkout" /\ op.at \in Paying

WalletInv ==
  /\ Debit => wallet[op.user] \in Nat
  /\ \A v \in Users \ astray :
       IF Debit /\ v = op.user
       THEN wallet[v] = seen.balance[v] - Total(op.items)
       ELSE wallet[v] \in {None, db.balance[v]}

TxInv ==
  /\ OrderTxTypeOK
  /\ OpenInv
  /\ IdleInv
  /\ HeldInv
  /\ CheckoutInv
  /\ PayInv
  /\ CancelInv
  /\ WalletInv

-----------------------------------------------------------------------------
(* Rows, bundles of goods and operations. *)

LEMMA RowsHave ==
  ASSUME NEW r \in Rows
  PROVE  /\ r.balance \in [Users -> Nat]
         /\ r.storage \in [Commodities -> Nat]
         /\ r.cart \in [Consumers -> Bundle]
         /\ r.orders \in Seq(OrderRow)
  BY DEF Rows, Bundle

LEMMA SameRows ==
  ASSUME NEW r \in Rows, NEW s \in Rows,
         r.balance = s.balance, r.storage = s.storage,
         r.cart = s.cart, r.orders = s.orders
  PROVE  r = s
  BY DEF Rows

LEMMA BalanceWritten ==
  ASSUME NEW r \in Rows, NEW v \in Users, NEW n \in Nat
  PROVE  LET s == [r EXCEPT !.balance[v] = n]
         IN  /\ s \in Rows
             /\ s.balance = [r.balance EXCEPT ![v] = n]
             /\ s.storage = r.storage /\ s.cart = r.cart /\ s.orders = r.orders
  BY DEF Rows

LEMMA StorageWritten ==
  ASSUME NEW r \in Rows, NEW c \in Commodities, NEW n \in Nat
  PROVE  LET s == [r EXCEPT !.storage[c] = n]
         IN  /\ s \in Rows
             /\ s.storage = [r.storage EXCEPT ![c] = n]
             /\ s.balance = r.balance /\ s.cart = r.cart /\ s.orders = r.orders
  BY DEF Rows, Bundle

LEMMA CartWritten ==
  ASSUME NEW r \in Rows, NEW u \in Consumers, NEW items \in Bundle
  PROVE  LET s == [r EXCEPT !.cart[u] = items]
         IN  /\ s \in Rows
             /\ s.cart = [r.cart EXCEPT ![u] = items]
             /\ s.balance = r.balance /\ s.storage = r.storage
             /\ s.orders = r.orders
  BY DEF Rows

LEMMA OrdersWritten ==
  ASSUME NEW r \in Rows, NEW orders \in Seq(OrderRow)
  PROVE  LET s == [r EXCEPT !.orders = orders]
         IN  /\ s \in Rows
             /\ s.orders = orders
             /\ s.balance = r.balance /\ s.storage = r.storage /\ s.cart = r.cart
  BY DEF Rows

\* The row of the i-th order becomes p.
OrderWritten(i, p) ==
  /\ db' \in Rows
  /\ db'.orders = [db.orders EXCEPT ![i] = p]
  /\ db'.balance = db.balance /\ db'.storage = db.storage
  /\ db'.cart = db.cart

LEMMA StatusWritten ==
  ASSUME db \in Rows, NEW i \in DOMAIN db.orders,
         NEW status \in {"PENDING", "PAID", "CANCELLED"},
         Executes(WithStatus(i, status)),
         NEW p, p = Order(db.orders[i].user, status, db.orders[i].items)
  PROVE  OrderWritten(i, p)
  <1> DEFINE o == db.orders[i]
             written == [db.orders EXCEPT ![i] = p]
  <1>1. db.orders \in Seq(OrderRow)
    BY RowsHave
  <1>2. o \in OrderRow
    BY <1>1
  <1>3. [o EXCEPT !.status = status] = p
    BY <1>2 DEF OrderRow, Order
  <1>4. p \in OrderRow
    BY <1>2 DEF OrderRow, Order
  <1>5. written \in Seq(OrderRow)
    BY <1>1, <1>4
  <1>6. db' = [db EXCEPT !.orders = written]
    BY <1>3 DEF Rows, Executes, WithStatus
  <1>7. written = [db.orders EXCEPT ![i] = p]
    OBVIOUS
  <1> HIDE DEF written
  <1>8. /\ db' \in Rows /\ db'.orders = written
        /\ db'.balance = db.balance /\ db'.storage = db.storage
        /\ db'.cart = db.cart
    BY <1>5, <1>6, OrdersWritten
  <1> QED
    BY <1>7, <1>8 DEF OrderWritten

LEMMA BundleSums ==
  ASSUME NEW items \in Bundle
  PROVE  /\ Total(items) \in Nat
         /\ \A m : Share(items, m) \in Nat
  <1>1. IsFiniteSet(Commodities) /\ items \in [Commodities -> Nat]
    BY OrderBookAssumption DEF Bundle
  <1>2. Total(items) \in Nat
    BY <1>1, SumIsNatural DEF Total
  <1>3. ASSUME NEW m PROVE Share(items, m) \in Nat
    <2> DEFINE S == {d \in Commodities : Owner[d] = m}
    <2>1. IsFiniteSet(S)
      BY <1>1, FS_Subset
    <2>2. [c \in S |-> items[c]] \in [S -> Nat]
      BY <1>1
    <2>3. Share(items, m) = SumOf([c \in S |-> items[c]])
      BY DEF Share
    <2> HIDE DEF S
    <2> QED
      BY <2>1, <2>2, <2>3, SumIsNatural
  <1> QED
    BY <1>2, <1>3

LEMMA OperationHas ==
  ASSUME op \in Operation
  PROVE  /\ op.user \in Consumers \cup {None}
         /\ op.now \in BOOLEAN
         /\ op.order \in Nat
         /\ op.items \in Bundle
         /\ op.items \in [Commodities -> Nat]
         /\ op.left \subseteq Nat
  BY DEF Operation, Bundle

LEMMA IdleIs ==
  /\ Idle \in Operation
  /\ Idle.kind = "none" /\ Idle.at = "none"
  BY DEF Idle, Operation, NoItems, Bundle


-----------------------------------------------------------------------------
(* What a step may do. *)

LEMMA NoFault ==
  ASSUME FaultsChecked,
         \/ op.kind # "checkout"
         \/ op.at \notin {"begin", "order", "item", "stock", "commit"}
  PROVE  /\ ~ MayFail
         /\ \A rows : Attempted(rows) => Executes(rows)
  <1>1. ~ MayFail
    BY DEF FaultsChecked, MayFail
  <1> QED
    BY <1>1 DEF Attempted, Fails

\* Nothing has happened to the rows.
LEMMA SameRowsAsSeen ==
  ASSUME TxInv, op = Idle
  PROVE  /\ (open <=> held) /\ db = seen
         /\ \A v \in Users \ astray : wallet[v] \in {None, db.balance[v]}
  BY IdleIs DEF TxInv, OpenInv, IdleInv, WalletInv, Debit

\* Neither the other requests nor the clients see a step inside an operation.
Unseen == UNCHANGED <<book, seen, astray, confirmed>>

\* What the histories make of such a step.
LEMMA Inside ==
  ASSUME TxInv, History, crashes' = crashes, op.at # "commit",
         op'.kind # "none", open => open'
  PROVE  UNCHANGED <<seen, held, astray, crashes>>
  BY IdleIs DEF TxInv, OpenInv, HeldInv, OrderTxTypeOK, History

LEMMA HeldStays ==
  ASSUME HeldInv, UNCHANGED <<book, seen, held>>,
         op'.kind = "checkout" /\ held => op'.at = "begin"
  PROVE  HeldInv'
  BY DEF HeldInv

LEMMA StartCheckoutKeepsInv ==
  ASSUME TxInv, History, NEW u \in Consumers, NEW now \in BOOLEAN,
         StartCheckout(u, now)
  PROVE  TxInv' /\ Unseen
  <1> DEFINE items == db.cart[u]
  <1>1. /\ op = Idle /\ (open <=> held) /\ db = seen /\ seen \in Rows
        /\ UNCHANGED <<book, db, open, wallet, confirmed, crashes>>
        /\ Contents(items) # {}
        /\ \A c \in Contents(items) : items[c] <= Stock(c)
        /\ stock' = [c \in Commodities |->
                       IF items[c] > 0 THEN Stock(c) ELSE stock[c]]
    BY SameRowsAsSeen
       DEF StartCheckout, TxInv, OrderTxTypeOK, rowVars, counters
  <1>2. /\ items \in Bundle /\ items \in [Commodities -> Nat]
        /\ \A c \in Commodities : Stock(c) \in Nat
    BY <1>1 DEF TxInv, OrderTxTypeOK, Rows, Bundle, Stock
  <1>3. /\ op' \in Operation
        /\ op'.kind = "checkout" /\ op'.at = "begin" /\ op'.user = u
        /\ op'.now = now /\ op'.items = items /\ op'.rest = {}
    BY <1>2 DEF StartCheckout, Idle, Operation
  <1> HIDE DEF items
  <1>4. UNCHANGED <<seen, held, astray, crashes>>
    BY <1>1, <1>3, IdleIs, Inside
  <1>5. OrderTxTypeOK'
    BY <1>1, <1>2, <1>3, <1>4 DEF TxInv, OrderTxTypeOK
  <1>6. OpenInv' /\ IdleInv' /\ HeldInv' /\ PayInv' /\ CancelInv'
    BY <1>1, <1>3, <1>4, HeldStays DEF TxInv, OpenInv, IdleInv, PayInv, CancelInv
  <1>7. CheckoutControl'
    <2>1. \A c \in Contents(items) : stock'[c] # None /\ items[c] <= stock'[c]
      BY <1>1, <1>2, OrderTxAssumption DEF Contents
    <2> QED
      BY <1>1, <1>3, <1>4, <2>1
         DEF CheckoutControl, CartIsFull, Early, Entering, Paying, PaysNow,
             Contents, items
  <1>8. CheckoutRows'
    <2>1. seen.storage = [c \in Commodities |-> seen.storage[c]]
      BY <1>1, RowsHave
    <2> QED
      BY <1>1, <1>3, <1>4, <2>1
         DEF CheckoutRows, CartIsFull, Early, Entering, Paying, PaysNow
  <1>9. WalletInv'
    BY <1>1, <1>3, <1>4, SameRowsAsSeen DEF WalletInv, Debit, Paying
  <1> QED
    BY <1>1, <1>4, <1>5, <1>6, <1>7, <1>8, <1>9 DEF TxInv, CheckoutInv, Unseen


LEMMA AbandonedKeepsInv ==
  ASSUME TxInv, History, Abandoned, op.kind = "checkout",
         op.at \in CartIsFull \cup {"debit"}, ~ held,
         UNCHANGED <<wallet, confirmed, crashes>>,
         stock' \in [Commodities -> Nat \cup {None}]
  PROVE  TxInv' /\ Unseen
  <1>1. op' = Idle /\ open' = FALSE /\ db' = book /\ book' = book /\ book = seen
    BY DEF Abandoned, RolledBack, TxInv, HeldInv
  <1>2. UNCHANGED <<seen, held, astray>>
    BY <1>1 DEF History, CartIsFull, Early, Entering, TxInv, OrderTxTypeOK
  <1>3. OrderTxTypeOK'
    <2>1. /\ wallet \in [Users -> Nat \cup {None}] /\ book \in Rows
          /\ confirmed \subseteq {"placed", "paid", "cancelled"} \X Nat
          /\ astray \subseteq Users /\ crashes \in Nat /\ held \in BOOLEAN
      BY DEF TxInv, OrderTxTypeOK
    <2>2. open' \in BOOLEAN /\ op' \in Operation
      BY <1>1, IdleIs
    <2> QED
      BY <1>1, <1>2, <2>1, <2>2 DEF OrderTxTypeOK
  <1>4. OpenInv' /\ IdleInv' /\ HeldInv'
    BY <1>1, <1>2, IdleIs DEF OpenInv, IdleInv, HeldInv
  <1>5. CheckoutInv' /\ PayInv' /\ CancelInv'
    BY <1>1, IdleIs DEF CheckoutInv, PayInv, CancelInv
  <1>6. WalletInv'
    <2>1. ~ PaysNow /\ ~ Debit
      BY DEF PaysNow, Debit, CartIsFull, Early, Entering, Paying
    <2>2. db.balance = seen.balance
      BY <2>1 DEF TxInv, CheckoutInv, CheckoutRows
    <2>3. \A v \in Users \ astray : wallet[v] \in {None, seen.balance[v]}
      BY <2>1, <2>2 DEF TxInv, WalletInv
    <2> QED
      BY <1>1, <1>2, <2>3, IdleIs DEF WalletInv, Debit
  <1> QED
    BY <1>1, <1>2, <1>3, <1>4, <1>5, <1>6 DEF TxInv, Unseen

\* Before its first statement a checkout has changed nothing.
LEMMA NothingYet ==
  ASSUME TxInv, op.kind = "checkout", op.at = "begin"
  PROVE  db = seen
  <1>1. CheckoutRows /\ db \in Rows /\ seen \in Rows
    BY DEF TxInv, CheckoutInv, OrderTxTypeOK
  <1>2. seen.storage = [c \in Commodities |-> seen.storage[c]]
    BY <1>1, RowsHave
  <1>3. /\ db.balance = seen.balance /\ db.storage = seen.storage
        /\ db.cart = seen.cart /\ db.orders = seen.orders
    BY <1>1, <1>2 DEF CheckoutRows, PaysNow, Paying, CartIsFull, Early
  <1> QED
    BY <1>1, <1>3, SameRows

LEMMA BeginCheckoutKeepsInv ==
  ASSUME TxInv, History, BeginCheckout
  PROVE  TxInv' /\ Unseen
  <1>1. /\ op.kind = "checkout" /\ op.at = "begin"
        /\ UNCHANGED <<book, db, wallet, stock, confirmed, crashes>>
        /\ op \in Operation
    BY DEF BeginCheckout, objectVars, TxInv, OrderTxTypeOK
  <1>2. (open <=> held) /\ CheckoutControl /\ CheckoutRows /\ db = seen
    BY <1>1, NothingYet DEF TxInv, OpenInv, OrderTxTypeOK, CheckoutInv
  <1>3. CASE ~ open /\ open' = TRUE /\ Goes("order")
    <2>1. op' = [op EXCEPT !.at = "order"] /\ op' \in Operation
      BY <1>1, <1>3 DEF Goes, Operation
    <2>2. op'.at = "order" /\ op'.kind = "checkout"
      BY <1>1, <2>1 DEF Operation
    <2>3. UNCHANGED <<seen, held, astray, crashes>>
      BY <1>1, <1>3, <2>2, Inside
    <2>4. OrderTxTypeOK'
      BY <1>1, <1>3, <2>1, <2>3 DEF TxInv, OrderTxTypeOK
    <2>5. OpenInv' /\ IdleInv' /\ HeldInv' /\ PayInv' /\ CancelInv'
      BY <1>1, <1>2, <1>3, <2>2, <2>3, HeldStays
         DEF TxInv, OpenInv, IdleInv, PayInv, CancelInv
    <2>6. CheckoutControl'
      BY <1>1, <1>2, <2>1, <2>3
         DEF CheckoutControl, CartIsFull, Early, Entering, Paying, PaysNow,
             Operation
    <2>7. CheckoutRows'
      BY <1>1, <1>2, <2>1, <2>3
         DEF CheckoutRows, CartIsFull, Early, Entering, Paying, PaysNow,
             Operation
    <2>8. WalletInv'
      BY <1>1, <2>2, <2>3 DEF TxInv, WalletInv, Debit, Paying
    <2> QED
      BY <1>1, <2>3, <2>4, <2>5, <2>6, <2>7, <2>8 DEF TxInv, CheckoutInv, Unseen
  <1>4. CASE op' = Idle /\ open' = open
    <2>1. UNCHANGED <<seen, held, astray>>
      BY <1>1, <1>2, <1>4 DEF History, TxInv, OrderTxTypeOK
    <2>2. OrderTxTypeOK'
      BY <1>1, <1>4, <2>1, IdleIs DEF TxInv, OrderTxTypeOK
    <2>3. OpenInv' /\ IdleInv' /\ HeldInv'
      BY <1>1, <1>2, <1>4, <2>1, IdleIs DEF TxInv, OpenInv, IdleInv, HeldInv
    <2>4. CheckoutInv' /\ PayInv' /\ CancelInv'
      BY <1>4, IdleIs DEF CheckoutInv, PayInv, CancelInv
    <2>5. WalletInv'
      BY <1>1, <1>4, <2>1, IdleIs DEF TxInv, WalletInv, Debit, Paying
    <2> QED
      BY <1>1, <2>1, <2>2, <2>3, <2>4, <2>5 DEF TxInv, Unseen
  <1> QED
    BY <1>2, <1>3, <1>4 DEF BeginCheckout

LEMMA InsertOrderKeepsInv ==
  ASSUME TxInv, History, InsertOrder
  PROVE  TxInv' /\ Unseen
  <1>1. /\ op.at = "order"
        /\ UNCHANGED <<wallet, stock, confirmed, crashes>>
        /\ op \in Operation /\ db \in Rows /\ seen \in Rows /\ book \in Rows
    BY DEF InsertOrder, objectVars, TxInv, OrderTxTypeOK
  <1>2. op.kind = "checkout"
    BY <1>1, IdleIs
       DEF TxInv, Operation, IdleInv, PayInv, PayControl, CancelInv,
           CancelControl, Paying
  <1>3. open /\ ~ held /\ CheckoutControl /\ CheckoutRows
    BY <1>1, <1>2 DEF TxInv, OpenInv, HeldInv, OrderTxTypeOK, CheckoutInv
  <1>4. /\ op.user \in Consumers /\ op.items \in [Commodities -> Nat]
        /\ op.items \in Bundle
    BY <1>1, <1>3, OperationHas DEF CheckoutControl
  <1>5. CASE Abandoned
    BY <1>1, <1>2, <1>3, <1>5, AbandonedKeepsInv
       DEF CartIsFull, Early, TxInv, OrderTxTypeOK
  <1>6. CASE /\ Executes([db EXCEPT !.orders =
                    Append(@, [user |-> op.user, status |-> "PENDING",
                               items |-> NoItems])])
             /\ op' = [op EXCEPT !.at = "item", !.order = Len(db.orders) + 1,
                                 !.rest = Contents(op.items)]
    <2> DEFINE row == Order(op.user, "PENDING", NoItems)
    <2>1. row \in OrderRow
      BY <1>4 DEF Order, OrderRow, NoItems, Bundle
    <2>2. db.orders \in Seq(OrderRow)
      BY <1>1, RowsHave
    <2>3. Append(db.orders, row) \in Seq(OrderRow)
      BY <2>1, <2>2
    <2>4. /\ db' = [db EXCEPT !.orders = Append(db.orders, row)]
          /\ book' = book /\ open' = open
      BY <1>3, <1>6 DEF Executes, Order
    <2> HIDE DEF row
    <2>5. /\ db' \in Rows /\ db'.orders = Append(db.orders, row)
          /\ db'.balance = db.balance /\ db'.storage = db.storage
          /\ db'.cart = db.cart
      BY <1>1, <2>3, <2>4, OrdersWritten
    <2>6. /\ op' \in Operation
          /\ op'.kind = "checkout" /\ op'.at = "item" /\ op'.user = op.user
          /\ op'.now = op.now /\ op'.items = op.items
          /\ op'.order = Len(db.orders) + 1 /\ op'.rest = Contents(op.items)
      <3>1. /\ Len(db.orders) + 1 \in Nat
            /\ Contents(op.items) \in SUBSET (Commodities \cup Merchants)
        BY <2>2 DEF Contents
      <3> QED
        BY <1>1, <1>2, <1>6, <3>1 DEF Operation
    <2>7. UNCHANGED <<seen, held, astray, crashes>>
      BY <1>1, <2>4, <2>6, Inside
    <2>8. OrderTxTypeOK'
      BY <1>1, <1>3, <2>4, <2>5, <2>6, <2>7 DEF TxInv, OrderTxTypeOK
    <2>9. OpenInv' /\ IdleInv' /\ HeldInv' /\ PayInv' /\ CancelInv'
      BY <1>3, <2>4, <2>6, <2>7, HeldStays DEF TxInv, OpenInv, IdleInv, PayInv, CancelInv
    <2>10. db.orders = seen.orders
      BY <1>1, <1>3 DEF CheckoutRows, Early
    <2>11. CheckoutControl'
      BY <1>1, <1>3, <2>4, <2>6, <2>7, <2>10
         DEF CheckoutControl, CartIsFull, Early, Entering, Paying, PaysNow
    <2>12. CheckoutRows'
      <3>1. ItemsSoFar' = NoItems
        BY <1>4, <2>6 DEF ItemsSoFar, Missing, NoItems, Contents
      <3>2. StatusSoFar' = "PENDING"
        BY <2>6 DEF StatusSoFar
      <3>3. db'.orders = Append(seen'.orders, Order(op'.user, StatusSoFar', ItemsSoFar'))
        BY <2>5, <2>6, <2>7, <2>10, <3>1, <3>2 DEF row
      <3>4. db'.storage = [c \in Commodities |->
                  IF c \in op'.rest THEN seen.storage[c]
                                    ELSE Taken(seen.storage, op.items)[c]]
        <4>1. db.storage = [c \in Commodities |-> seen.storage[c]]
          BY <1>1, <1>3 DEF CheckoutRows, Early
        <4>2. ASSUME NEW c \in Commodities, c \notin op'.rest
              PROVE  Taken(seen.storage, op.items)[c] = seen.storage[c]
          <5>1. op.items[c] = 0 /\ seen.storage[c] \in Nat
            BY <1>1, <1>4, <2>6, <4>2, RowsHave DEF Contents
          <5> QED
            BY <5>1 DEF Taken
        <4> QED
          BY <2>5, <4>1, <4>2
      <3>5. db.balance = seen.balance /\ db.cart = seen.cart
        BY <1>1, <1>3 DEF CheckoutRows, PaysNow, Early, CartIsFull, Paying
      <3> QED
        BY <2>4, <2>5, <2>6, <2>7, <3>3, <3>4, <3>5
           DEF CheckoutRows, CartIsFull, Early, Entering, Paying, PaysNow
    <2>13. WalletInv'
      BY <1>1, <1>2, <2>5, <2>6, <2>7 DEF TxInv, WalletInv, Debit, Paying
    <2> QED
      BY <1>1, <2>4, <2>6, <2>7, <2>9, <2>11, <2>12, <2>8, <2>13
         DEF TxInv, CheckoutInv, Unseen
  <1> QED
    BY <1>5, <1>6 DEF InsertOrder


LEMMA SeqIsFunction ==
  ASSUME NEW S, NEW s \in Seq(S), NEW n, n = Len(s)
  PROVE  s = [i \in 1..n |-> s[i]]
  OBVIOUS

LEMMA LastReplaced ==
  ASSUME NEW S, NEW s \in Seq(S), NEW a \in S, NEW b \in S,
         NEW n, n = Len(s) + 1, NEW t, t = Append(s, a)
  PROVE  /\ n \in DOMAIN t /\ t[n] = a
         /\ [t EXCEPT ![n] = b] = Append(s, b)
  <1> DEFINE r == Append(s, b)
  <1>1. /\ Len(s) \in Nat
        /\ DOMAIN t = 1..n /\ t[n] = a
        /\ DOMAIN r = 1..n /\ r[n] = b
        /\ \A i \in 1..Len(s) : t[i] = s[i] /\ r[i] = s[i]
    OBVIOUS
  <1>2. t \in Seq(S) /\ Len(t) = n /\ r \in Seq(S) /\ Len(r) = n
    OBVIOUS
  <1> HIDE DEF r
  <1>3. n \in Nat /\ \A i \in 1..n : i = n \/ i \in 1..Len(s)
    BY <1>1
  <1>4. [t EXCEPT ![n] = b] = r
    <2>1. t = [i \in 1..n |-> t[i]]
      BY <1>2, SeqIsFunction
    <2>2. r = [i \in 1..n |-> r[i]]
      BY <1>2, SeqIsFunction
    <2> QED
      BY <1>1, <1>3, <2>1, <2>2
  <1> QED
    BY <1>1, <1>4 DEF r

\* What checkout does between its first row and the end of its loop.
LEMMA EnteringHas ==
  ASSUME TxInv, op.at \in Entering
  PROVE  /\ op.kind = "checkout" /\ open /\ ~ held
         /\ CheckoutControl /\ CheckoutRows
         /\ op.items \in Bundle
         /\ Current \in op.rest /\ Current \in Contents(op.items)
         /\ Current \in Commodities /\ op.items[Current] \in Nat
         /\ op.order = Len(seen.orders) + 1
         /\ ItemsSoFar \in Bundle
         /\ db.orders = Append(seen.orders, Order(op.user, "PENDING", ItemsSoFar))
         /\ Order(op.user, "PENDING", ItemsSoFar) \in OrderRow
  <1>1. op.kind = "checkout"
    BY IdleIs
       DEF TxInv, OrderTxTypeOK, Operation, IdleInv, PayInv, PayControl,
           CancelInv, CancelControl, Paying, Entering
  <1>2. open /\ ~ held /\ CheckoutControl /\ CheckoutRows
    BY <1>1 DEF TxInv, OpenInv, HeldInv, OrderTxTypeOK, CheckoutInv, Entering
  <1>3. op.items \in Bundle /\ op.user \in Consumers
    BY <1>2, OperationHas DEF TxInv, OrderTxTypeOK, CheckoutControl
  <1>4. op.rest # {} /\ op.rest \subseteq Contents(op.items)
    BY <1>2 DEF CheckoutControl
  <1>5. Current \in op.rest
    BY <1>4 DEF Current
  <1>6. Current \in Commodities /\ op.items[Current] \in Nat
    BY <1>3, <1>4, <1>5 DEF Contents, Bundle
  <1>7. ItemsSoFar \in Bundle
    BY <1>3 DEF ItemsSoFar, Bundle
  <1>8. StatusSoFar = "PENDING" /\ op.at \notin Early
    BY DEF StatusSoFar, Entering, Early
  <1>9. Order(op.user, "PENDING", ItemsSoFar) \in OrderRow
    BY <1>3, <1>7 DEF Order, OrderRow
  <1> QED
    BY <1>1, <1>2, <1>3, <1>4, <1>5, <1>6, <1>7, <1>8, <1>9
       DEF CheckoutControl, CheckoutRows

LEMMA InsertItemKeepsInv ==
  ASSUME TxInv, History, InsertItem
  PROVE  TxInv' /\ Unseen
  <1>1. /\ op.at = "item"
        /\ UNCHANGED <<wallet, stock, confirmed, crashes>>
        /\ op \in Operation /\ db \in Rows /\ seen \in Rows /\ book \in Rows
    BY DEF InsertItem, objectVars, TxInv, OrderTxTypeOK
  <1>2. op.at \in Entering
    BY <1>1 DEF Entering
  <1>3. CASE Abandoned
    BY <1>1, <1>2, <1>3, EnteringHas, AbandonedKeepsInv
       DEF CartIsFull, TxInv, OrderTxTypeOK
  <1>4. CASE /\ Executes([db EXCEPT !.orders[op.order].items[Current] =
                                      op.items[Current]])
             /\ Goes("stock")
    <2> DEFINE row == Order(op.user, "PENDING", ItemsSoFar)
               n == op.items[Current]
               next == Order(op.user, "PENDING", [ItemsSoFar EXCEPT ![Current] = n])
    <2>1. /\ row.user = op.user /\ row.status = "PENDING"
          /\ row.items = ItemsSoFar
      BY DEF Order
    <2>2. next \in OrderRow
      BY <1>2, EnteringHas DEF Order, OrderRow, Bundle
    <2>3. seen.orders \in Seq(OrderRow)
      BY <1>1, RowsHave
    <2>4. /\ op.order \in DOMAIN db.orders /\ db.orders[op.order] = row
          /\ [db.orders EXCEPT ![op.order] = next] = Append(seen.orders, next)
      <3> HIDE DEF next
      <3> QED
        BY <1>2, <2>2, <2>3, EnteringHas, LastReplaced
    <2>5. /\ db' = [db EXCEPT !.orders[op.order].items[Current] = n]
          /\ book' = book /\ open' = open
      BY <1>2, <1>4, EnteringHas DEF Executes
    <2> HIDE DEF n
    <2>6. /\ db' \in Rows
          /\ db'.orders = [db.orders EXCEPT ![op.order] =
               Order(row.user, row.status, [row.items EXCEPT ![Current] = n])]
          /\ db'.balance = db.balance /\ db'.storage = db.storage
          /\ db'.cart = db.cart
      <3>1. Current \in Commodities /\ n \in Nat
        BY <1>2, EnteringHas DEF n
      <3>2. PICK p : p = [row EXCEPT !.items[Current] = n]
        OBVIOUS
      <3>3. db' = [db EXCEPT !.orders[op.order] = p]
        BY <1>1, <2>4, <2>5, <3>2 DEF Rows
      <3>4. p = Order(row.user, row.status, [row.items EXCEPT ![Current] = n])
        BY <3>2 DEF Order
      <3>5. p = next
        BY <2>1, <3>4
      <3> HIDE DEF next
      <3> DEFINE written == [db.orders EXCEPT ![op.order] = p]
      <3>6. written \in Seq(OrderRow)
        BY <1>1, <2>2, <2>4, <3>5, RowsHave
      <3>7. db' = [db EXCEPT !.orders = written]
        BY <3>3 DEF Rows
      <3> HIDE DEF written
      <3>8. /\ db' \in Rows /\ db'.orders = written
            /\ db'.balance = db.balance /\ db'.storage = db.storage
            /\ db'.cart = db.cart
        BY <1>1, <3>6, <3>7, OrdersWritten
      <3> QED
        BY <3>4, <3>8 DEF written
    <2>7. db'.orders = Append(seen.orders, next)
      BY <2>1, <2>4, <2>6
    <2>8. /\ op' \in Operation
          /\ op'.kind = "checkout" /\ op'.at = "stock" /\ op'.user = op.user
          /\ op'.now = op.now /\ op'.items = op.items
          /\ op'.order = op.order /\ op'.rest = op.rest
      BY <1>1, <1>2, <1>4, EnteringHas DEF Operation, Goes
    <2>9. UNCHANGED <<seen, held, astray, crashes>>
      BY <1>1, <2>5, <2>8, Inside
    <2>10. OrderTxTypeOK'
      BY <1>1, <1>2, <2>5, <2>6, <2>8, <2>9, EnteringHas DEF TxInv, OrderTxTypeOK
    <2>11. OpenInv' /\ IdleInv' /\ HeldInv' /\ PayInv' /\ CancelInv'
      BY <1>2, <2>5, <2>8, <2>9, EnteringHas, HeldStays DEF TxInv, OpenInv, IdleInv, PayInv, CancelInv
    <2>12. CheckoutControl'
      BY <1>1, <1>2, <2>5, <2>8, <2>9, EnteringHas
         DEF CheckoutControl, CartIsFull, Early, Entering, Paying, PaysNow
    <2>13. CheckoutRows'
      <3>1. Current' = Current
        BY <2>8 DEF Current
      <3>2. ItemsSoFar' = [ItemsSoFar EXCEPT ![Current] = n]
        <4>1. Missing = op.rest /\ Missing' = op.rest \ {Current}
          BY <1>1, <2>8, <3>1 DEF Missing
        <4> QED
          BY <1>2, <2>8, <4>1, EnteringHas DEF ItemsSoFar, n
      <3>3. StatusSoFar' = "PENDING"
        BY <2>8 DEF StatusSoFar
      <3>4. /\ db.storage = [c \in Commodities |->
                  IF c \in op.rest THEN seen.storage[c]
                                   ELSE Taken(seen.storage, op.items)[c]]
            /\ db.balance = seen.balance
            /\ db.cart = seen.cart
        BY <1>1, <1>2, EnteringHas
           DEF CheckoutRows, Early, Entering, PaysNow, Paying, CartIsFull
      <3> QED
        BY <2>5, <2>6, <2>7, <2>8, <2>9, <3>2, <3>3, <3>4
           DEF CheckoutRows, CartIsFull, Early, Entering, Paying, PaysNow
    <2>14. WalletInv'
      BY <1>1, <1>2, <2>6, <2>8, <2>9, EnteringHas DEF TxInv, WalletInv, Debit, Paying
    <2> QED
      BY <1>1, <2>5, <2>8, <2>10, <2>11, <2>12, <2>13, <2>14, <2>9
         DEF TxInv, CheckoutInv, Unseen
  <1> QED
    BY <1>3, <1>4 DEF InsertItem

LEMMA DeductStockKeepsInv ==
  ASSUME TxInv, History, DeductStock
  PROVE  TxInv' /\ Unseen
  <1>1. /\ op.at = "stock"
        /\ UNCHANGED <<wallet, stock, confirmed, crashes>>
        /\ op \in Operation /\ db \in Rows /\ seen \in Rows /\ book \in Rows
    BY DEF DeductStock, objectVars, TxInv, OrderTxTypeOK
  <1>2. op.at \in Entering
    BY <1>1 DEF Entering
  <1>3. CASE Abandoned
    BY <1>1, <1>2, <1>3, EnteringHas, AbandonedKeepsInv
       DEF CartIsFull, TxInv, OrderTxTypeOK
  <1>4. CASE /\ Executes([db EXCEPT !.storage[Current] =
                   IF @ >= op.items[Current] THEN @ - op.items[Current] ELSE @])
             /\ op' = [op EXCEPT
                         !.at = IF op.rest = {Current} THEN "clear" ELSE "item",
                         !.rest = @ \ {Current}]
    <2> DEFINE n == IF db.storage[Current] >= op.items[Current]
                    THEN db.storage[Current] - op.items[Current]
                    ELSE db.storage[Current]
    <2>1. n \in Nat
      BY <1>1, <1>2, EnteringHas, RowsHave
    <2>2. /\ db' = [db EXCEPT !.storage[Current] = n]
          /\ book' = book /\ open' = open
      BY <1>1, <1>2, <1>4, EnteringHas DEF Executes, Rows
    <2> HIDE DEF n
    <2>3. /\ db' \in Rows /\ db'.storage = [db.storage EXCEPT ![Current] = n]
          /\ db'.balance = db.balance /\ db'.orders = db.orders
          /\ db'.cart = db.cart
      BY <1>1, <1>2, <2>1, <2>2, EnteringHas, StorageWritten
    <2>4. /\ op' \in Operation
          /\ op'.kind = "checkout"
          /\ op'.at = IF op'.rest = {} THEN "clear" ELSE "item"
          /\ op'.user = op.user
          /\ op'.now = op.now /\ op'.items = op.items
          /\ op'.order = op.order /\ op'.rest = op.rest \ {Current}
      BY <1>1, <1>2, <1>4, EnteringHas DEF Operation
    <2>5. UNCHANGED <<seen, held, astray, crashes>>
      BY <1>1, <1>2, <2>2, <2>4, Inside
    <2>6. OrderTxTypeOK'
      BY <1>1, <1>2, <2>2, <2>3, <2>4, <2>5, EnteringHas DEF TxInv, OrderTxTypeOK
    <2>7. OpenInv' /\ IdleInv' /\ HeldInv' /\ PayInv' /\ CancelInv'
      BY <1>2, <2>2, <2>4, <2>5, EnteringHas, HeldStays DEF TxInv, OpenInv, IdleInv, PayInv, CancelInv
    <2>8. CheckoutControl'
      BY <1>1, <1>2, <2>2, <2>4, <2>5, EnteringHas
         DEF CheckoutControl, CartIsFull, Early, Entering, Paying, PaysNow
    <2>9. CheckoutRows'
      <3>1. ItemsSoFar' = ItemsSoFar
        BY <1>1, <2>4 DEF ItemsSoFar, Missing
      <3>2. StatusSoFar' = "PENDING"
        BY <2>4 DEF StatusSoFar
      <3>3. /\ db.storage = [c \in Commodities |->
                  IF c \in op.rest THEN seen.storage[c]
                                   ELSE Taken(seen.storage, op.items)[c]]
            /\ db.balance = seen.balance
            /\ db.cart = seen.cart
        BY <1>1, <1>2, EnteringHas
           DEF CheckoutRows, Early, Entering, PaysNow, Paying, CartIsFull
      <3>4. n = Taken(seen.storage, op.items)[Current]
        BY <1>2, <3>3, EnteringHas DEF n, Taken
      <3>5. db'.storage = [c \in Commodities |->
                  IF c \in op'.rest THEN seen.storage[c]
                                    ELSE Taken(seen.storage, op.items)[c]]
        BY <1>2, <2>3, <2>4, <3>3, <3>4, EnteringHas
      <3> QED
        BY <1>2, <2>2, <2>3, <2>4, <2>5, <3>1, <3>2, <3>3, <3>5, EnteringHas
           DEF CheckoutRows, CartIsFull, Early, Entering, Paying, PaysNow
    <2>10. WalletInv'
      BY <1>1, <1>2, <2>3, <2>4, <2>5, EnteringHas DEF TxInv, WalletInv, Debit, Paying
    <2> QED
      BY <1>1, <2>2, <2>4, <2>6, <2>7, <2>8, <2>9, <2>10, <2>5
         DEF TxInv, CheckoutInv, Unseen
  <1> QED
    BY <1>3, <1>4 DEF DeductStock


LEMMA ClearCartKeepsInv ==
  ASSUME FaultsChecked, TxInv, History, ClearCart
  PROVE  TxInv' /\ Unseen
  <1>1. /\ op.at = "clear"
        /\ UNCHANGED <<wallet, confirmed, crashes>>
        /\ op \in Operation /\ db \in Rows /\ seen \in Rows /\ book \in Rows
        /\ stock \in [Commodities -> Nat \cup {None}]
    BY DEF ClearCart, TxInv, OrderTxTypeOK
  <1>2. op.kind = "checkout"
    BY <1>1, IdleIs
       DEF TxInv, Operation, IdleInv, PayInv, PayControl, CancelInv,
           CancelControl, Paying
  <1>3. open /\ ~ held /\ CheckoutControl /\ CheckoutRows
    BY <1>1, <1>2 DEF TxInv, OpenInv, HeldInv, OrderTxTypeOK, CheckoutInv
  <1>4. op.user \in Consumers /\ op.items \in [Commodities -> Nat]
    BY <1>1, <1>3, OperationHas DEF CheckoutControl
  <1>5. /\ db' = [db EXCEPT !.cart[op.user] = NoItems]
        /\ book' = book /\ open' = open
    BY <1>1, <1>3, NoFault DEF ClearCart, Executes
  <1>6. /\ db' \in Rows /\ db'.cart = [db.cart EXCEPT ![op.user] = NoItems]
        /\ db'.balance = db.balance /\ db'.storage = db.storage
        /\ db'.orders = db.orders
    BY <1>1, <1>4, <1>5, CartWritten DEF NoItems, Bundle
  <1>7. /\ op' \in Operation
        /\ op'.kind = "checkout"
        /\ op'.at = IF op.now THEN "debit" ELSE "commit"
        /\ op'.user = op.user
        /\ op'.now = op.now /\ op'.items = op.items
        /\ op'.order = op.order /\ op'.rest = op.rest
    BY <1>1, <1>2 DEF ClearCart, Goes, Operation
  <1>8. stock' \in [Commodities -> Nat \cup {None}]
    <2>1. ASSUME NEW c \in Commodities, op.items[c] > 0
          PROVE  Stock(c) - op.items[c] \in Nat
      <3>1. stock[c] \in Nat /\ op.items[c] <= stock[c]
        BY <1>1, <1>3, <2>1 DEF CheckoutControl, CartIsFull, Contents
      <3>2. Stock(c) = stock[c]
        BY <3>1, OrderTxAssumption DEF Stock
      <3> QED
        BY <1>4, <3>1, <3>2
    <2> QED
      BY <1>1, <2>1 DEF ClearCart
  <1>9. UNCHANGED <<seen, held, astray, crashes>>
    BY <1>1, <1>5, <1>7, Inside
  <1>10. OrderTxTypeOK'
    BY <1>1, <1>3, <1>5, <1>6, <1>7, <1>8, <1>9 DEF TxInv, OrderTxTypeOK
  <1>11. OpenInv' /\ IdleInv' /\ HeldInv' /\ PayInv' /\ CancelInv'
    BY <1>3, <1>5, <1>7, <1>9, HeldStays DEF TxInv, OpenInv, IdleInv, PayInv, CancelInv
  <1>12. CheckoutControl'
    BY <1>1, <1>3, <1>5, <1>7, <1>9
       DEF CheckoutControl, CartIsFull, Early, Entering, Paying, PaysNow
  <1>13. CheckoutRows'
    <2>1. /\ ItemsSoFar' = ItemsSoFar
          /\ StatusSoFar = "PENDING" /\ StatusSoFar' = "PENDING"
      BY <1>1, <1>7 DEF ItemsSoFar, Missing, StatusSoFar
    <2>2. /\ db.orders = Append(seen.orders, Order(op.user, "PENDING", ItemsSoFar))
          /\ db.storage = [c \in Commodities |-> Taken(seen.storage, op.items)[c]]
          /\ db.balance = seen.balance
          /\ db.cart = seen.cart
      BY <1>1, <1>3, <2>1
         DEF CheckoutRows, Early, Entering, PaysNow, Paying, CartIsFull
    <2> QED
      BY <1>5, <1>6, <1>7, <1>9, <2>1, <2>2
         DEF CheckoutRows, CartIsFull, Early, Entering, Paying, PaysNow
  <1>14. WalletInv'
    BY <1>1, <1>2, <1>6, <1>7, <1>9 DEF TxInv, WalletInv, Debit, Paying
  <1> QED
    BY <1>1, <1>5, <1>7, <1>10, <1>11, <1>12, <1>13, <1>14, <1>9
       DEF TxInv, CheckoutInv, Unseen

LEMMA DebitBuyerKeepsInv ==
  ASSUME TxInv, History, DebitBuyer
  PROVE  TxInv' /\ Unseen
  <1>1. /\ op.at = "debit"
        /\ UNCHANGED <<stock, confirmed, crashes>>
        /\ op \in Operation /\ db \in Rows /\ seen \in Rows /\ book \in Rows
        /\ wallet \in [Users -> Nat \cup {None}]
        /\ stock \in [Commodities -> Nat \cup {None}]
    BY DEF DebitBuyer, counters, TxInv, OrderTxTypeOK
  <1>2. op.kind = "checkout"
    BY <1>1, IdleIs
       DEF TxInv, Operation, IdleInv, PayInv, PayControl, CancelInv,
           CancelControl, Paying
  <1>3. open /\ ~ held /\ CheckoutControl /\ CheckoutRows
    BY <1>1, <1>2 DEF TxInv, OpenInv, HeldInv, OrderTxTypeOK, CheckoutInv
  <1>4. /\ op.user \in Consumers /\ op.user \in Users
        /\ op.items \in [Commodities -> Nat] /\ op.items \in Bundle
    BY <1>1, <1>3, OperationHas DEF CheckoutControl, Users
  <1>5. CASE Abandoned /\ UNCHANGED wallet
    BY <1>1, <1>2, <1>3, <1>5, AbandonedKeepsInv
  <1>6. CASE /\ CanPay(op.user, Total(op.items))
             /\ Debited(op.user, Total(op.items))
             /\ op' = [op EXCEPT !.at = "credit", !.rest = Contents(op.items)]
             /\ UNCHANGED rowVars
    <2>1. UNCHANGED <<book, db, open>>
      BY <1>6 DEF rowVars
    <2>2. /\ op' \in Operation
          /\ op'.kind = "checkout" /\ op'.at = "credit"
          /\ op'.user = op.user
          /\ op'.now = op.now /\ op'.items = op.items
          /\ op'.order = op.order /\ op'.rest = Contents(op.items)
      <3>1. Contents(op.items) \in SUBSET (Commodities \cup Merchants)
        BY DEF Contents
      <3> QED
        BY <1>1, <1>2, <1>6, <3>1 DEF Operation
    <2>3. db.balance = seen.balance
      BY <1>1, <1>3 DEF CheckoutRows, PaysNow, Paying
    <2>4. /\ Balance(op.user) \in Nat
          /\ op.user \notin astray => Balance(op.user) = seen.balance[op.user]
      BY <1>1, <1>2, <1>4, <2>3, RowsHave
         DEF Balance, TxInv, WalletInv, Debit, Paying
    <2>5. /\ Covers(op.user, Total(op.items))
          /\ Balance(op.user) - Total(op.items) \in Nat
          /\ wallet' = [wallet EXCEPT
                          ![op.user] = Balance(op.user) - Total(op.items)]
      BY <1>6, <2>4 DEF CanPay, Debited, Covers
    <2>6. UNCHANGED <<seen, held, astray, crashes>>
      BY <1>1, <2>1, <2>2, Inside
    <2>7. OrderTxTypeOK'
      <3>1. wallet' \in [Users -> Nat \cup {None}]
        BY <1>1, <2>5
      <3> QED
        BY <1>1, <2>1, <2>2, <2>6, <3>1 DEF TxInv, OrderTxTypeOK
    <2>8. OpenInv' /\ IdleInv' /\ HeldInv' /\ PayInv' /\ CancelInv'
      BY <1>3, <2>1, <2>2, <2>6, HeldStays DEF TxInv, OpenInv, IdleInv, PayInv, CancelInv
    <2>9. CheckoutControl'
      BY <1>1, <1>3, <2>1, <2>2, <2>5, <2>6
         DEF CheckoutControl, CartIsFull, Early, Entering, Paying, PaysNow, Covers
    <2>10. CheckoutRows'
      <3>1. /\ ItemsSoFar' = ItemsSoFar
            /\ StatusSoFar = "PENDING" /\ StatusSoFar' = "PENDING"
        BY <1>1, <2>2 DEF ItemsSoFar, Missing, StatusSoFar
      <3>2. /\ db.orders = Append(seen.orders, Order(op.user, "PENDING", ItemsSoFar))
            /\ db.storage = [c \in Commodities |-> Taken(seen.storage, op.items)[c]]
            /\ db.cart = [seen.cart EXCEPT ![op.user] = NoItems]
        BY <1>1, <1>3, <3>1
           DEF CheckoutRows, Early, Entering, CartIsFull
      <3>3. \A m \in Merchants : PartOfShare(Contents(op.items), m) = 0
        <4> TAKE m \in Merchants
        <4> DEFINE S == {d \in Commodities :
                           Owner[d] = m /\ d \notin Contents(op.items)}
                   f == [c \in S |-> op.items[c]]
        <4>1. IsFiniteSet(S)
          BY OrderBookAssumption, FS_Subset
        <4>2. f \in [S -> Int] /\ \A c \in S : f[c] = 0
          BY <1>4 DEF Contents
        <4>3. PartOfShare(Contents(op.items), m) = SumOf(f)
          BY DEF PartOfShare
        <4> HIDE DEF S, f
        <4> QED
          BY <4>1, <4>2, <4>3, SumOfZeros
      <3>4. \A v \in Users : db'.balance[v] =
              IF v \in Merchants
              THEN seen.balance[v] + PartOfShare(Contents(op.items), v)
              ELSE seen.balance[v]
        BY <1>1, <2>1, <2>3, <3>3, RowsHave
      <3>5. \A v : PartOfShare(op.rest, v)' = PartOfShare(Contents(op.items), v)
        BY <2>2 DEF PartOfShare
      <3> QED
        BY <2>1, <2>2, <2>6, <3>1, <3>2, <3>4, <3>5
           DEF CheckoutRows, CartIsFull, Early, Entering, Paying, PaysNow
    <2>11. WalletInv'
      BY <1>1, <1>2, <1>4, <2>1, <2>2, <2>4, <2>5, <2>6 DEF TxInv, WalletInv, Debit, Paying
    <2> QED
      BY <1>1, <2>1, <2>2, <2>7, <2>8, <2>9, <2>10, <2>11, <2>6
         DEF TxInv, CheckoutInv, Unseen
  <1> QED
    BY <1>5, <1>6 DEF DebitBuyer


-----------------------------------------------------------------------------
(* The steps of a payment. *)

LEMMA NoShare ==
  ASSUME NEW items \in Bundle, NEW m,
         m \notin {Owner[c] : c \in Contents(items)}
  PROVE  Share(items, m) = 0
  <1> DEFINE S == {d \in Commodities : Owner[d] = m}
             f == [c \in S |-> items[c]]
  <1>1. IsFiniteSet(S)
    BY OrderBookAssumption, FS_Subset
  <1>2. f \in [S -> Int] /\ \A c \in S : f[c] = 0
    BY DEF Bundle, Contents
  <1>3. Share(items, m) = SumOf(f)
    BY DEF Share
  <1> HIDE DEF S, f
  <1> QED
    BY <1>1, <1>2, <1>3, SumOfZeros

LEMMA PartGrows ==
  ASSUME op.items \in Bundle, NEW rest, NEW x \in rest, x \in Commodities, NEW m
  PROVE  /\ PartOfShare(rest, m) \in Int
         /\ PartOfShare(rest \ {x}, m) =
              PartOfShare(rest, m) + (IF m = Owner[x] THEN op.items[x] ELSE 0)
  <1> DEFINE S == {d \in Commodities : Owner[d] = m /\ d \notin rest}
             T == {d \in Commodities : Owner[d] = m /\ d \notin rest \ {x}}
             f == [c \in S |-> op.items[c]]
             g == [c \in T |-> op.items[c]]
  <1>1. IsFiniteSet(S)
    BY OrderBookAssumption, FS_Subset
  <1>2. f \in [S -> Int] /\ g \in [T -> Int]
    BY DEF Bundle
  <1>3. PartOfShare(rest, m) = SumOf(f) /\ PartOfShare(rest \ {x}, m) = SumOf(g)
    BY DEF PartOfShare
  <1>4. CASE m = Owner[x]
    <2>1. x \notin S /\ T = S \cup {x} /\ g[x] = op.items[x]
      BY <1>4
    <2>2. \A y \in S : g[y] = f[y]
      OBVIOUS
    <2> HIDE DEF S, T, f, g
    <2>3. SumOf(g) = SumOf(f) + g[x]
      BY <1>1, <1>2, <2>1, <2>2, SumExtended
    <2> QED
      BY <1>1, <1>2, <1>3, <1>4, <2>1, <2>3, SumIsInteger
  <1>5. CASE m # Owner[x]
    <2>1. f = g
      BY <1>5
    <2> HIDE DEF S, T, f, g
    <2> QED
      BY <1>1, <1>2, <1>3, <1>5, <2>1, SumIsInteger
  <1> QED
    BY <1>4, <1>5

LEMMA StartPayKeepsInv ==
  ASSUME TxInv, History, NEW u \in Consumers, NEW i \in DOMAIN db.orders, StartPay(u, i)
  PROVE  TxInv' /\ Unseen
  <1> DEFINE o == db.orders[i]
             bought == {Owner[c] : c \in Contents(o.items)}
  <1>1. /\ op = Idle /\ (open <=> held) /\ db = seen /\ seen \in Rows
        /\ UNCHANGED <<book, db, open, stock, confirmed, crashes>>
        /\ o.user = u /\ o.status = "PENDING"
        /\ CanPay(u, Total(o.items)) /\ Debited(u, Total(o.items))
        /\ wallet \in [Users -> Nat \cup {None}]
    BY SameRowsAsSeen DEF StartPay, TxInv, OrderTxTypeOK, rowVars, counters
  <1>2. /\ i \in DOMAIN seen.orders /\ o \in OrderRow /\ i \in Nat
        /\ o = seen.orders[i]
    BY <1>1, RowsHave
  <1>3. o.items \in Bundle /\ o = Order(u, "PENDING", o.items)
    BY <1>1, <1>2 DEF OrderRow, Order
  <1>4. bought \in SUBSET Merchants /\ u \in Users
    BY OrderBookAssumption DEF Contents, Users
  <1>5. /\ op' \in Operation
        /\ op'.kind = "pay" /\ op'.at = "begin" /\ op'.user = u
        /\ op'.order = i /\ op'.items = o.items /\ op'.rest = bought
    BY <1>2, <1>3, <1>4 DEF StartPay, Idle, Operation
  <1> HIDE DEF o, bought
  <1>6. /\ Balance(u) \in Nat
        /\ u \notin astray => Balance(u) = seen.balance[u]
    BY <1>1, <1>4, SameRowsAsSeen, RowsHave DEF Balance
  <1>7. /\ Covers(u, Total(o.items)) /\ Balance(u) - Total(o.items) \in Nat
        /\ wallet' = [wallet EXCEPT ![u] = Balance(u) - Total(o.items)]
    BY <1>1, <1>6 DEF CanPay, Debited, Covers
  <1>8. UNCHANGED <<seen, held, astray, crashes>>
    BY <1>1, <1>5, IdleIs, Inside
  <1>9. OrderTxTypeOK'
    <2>1. wallet' \in [Users -> Nat \cup {None}]
      BY <1>1, <1>7
    <2> QED
      BY <1>1, <1>5, <1>8, <2>1 DEF TxInv, OrderTxTypeOK
  <1>10. OpenInv' /\ IdleInv' /\ HeldInv' /\ CheckoutInv' /\ CancelInv'
    BY <1>1, <1>5, <1>8, HeldStays
       DEF TxInv, OpenInv, IdleInv, CheckoutInv, CancelInv
  <1>11. PayControl'
    BY <1>1, <1>2, <1>3, <1>4, <1>5, <1>7, <1>8 DEF PayControl, Covers
  <1>12. PayRows'
    <2>1. ASSUME NEW m \in Merchants \ bought PROVE Share(o.items, m) = 0
      BY <1>3, NoShare DEF bought
    <2>2. \A v \in Users : seen.balance[v] =
            IF v \in Merchants \ bought
            THEN seen.balance[v] + Share(o.items, v) ELSE seen.balance[v]
      BY <1>1, <2>1, RowsHave
    <2> QED
      BY <1>1, <1>5, <1>8, <2>2 DEF PayRows
  <1>13. WalletInv'
    BY <1>1, <1>4, <1>5, <1>6, <1>7, <1>8, SameRowsAsSeen DEF WalletInv, Debit
  <1> QED
    BY <1>1, <1>5, <1>9, <1>10, <1>11, <1>12, <1>13, <1>8
       DEF TxInv, PayInv, Unseen

LEMMA BeginPayKeepsInv ==
  ASSUME FaultsChecked, TxInv, History, BeginPay
  PROVE  TxInv' /\ Unseen
  <1>1. /\ op.kind = "pay" /\ op.at = "begin"
        /\ UNCHANGED <<book, db, wallet, stock, confirmed, crashes>>
        /\ op \in Operation
    BY DEF BeginPay, objectVars, TxInv, OrderTxTypeOK
  <1>2. (open <=> held) /\ PayControl /\ PayRows
    BY <1>1 DEF TxInv, OpenInv, OrderTxTypeOK, PayInv
  <1>3. open' = TRUE
    BY <1>1, <1>2, NoFault DEF BeginPay, Begun
  <1>4. /\ op' \in Operation /\ op'.kind = "pay" /\ op'.at = "credit"
        /\ op'.user = op.user /\ op'.order = op.order
        /\ op'.items = op.items /\ op'.rest = op.rest
    BY <1>1 DEF BeginPay, Goes, Operation
  <1>5. UNCHANGED <<seen, held, astray, crashes>>
    BY <1>1, <1>3, <1>4, Inside
  <1>6. OrderTxTypeOK'
    BY <1>1, <1>3, <1>4, <1>5 DEF TxInv, OrderTxTypeOK
  <1>7. OpenInv' /\ IdleInv' /\ HeldInv' /\ CheckoutInv' /\ CancelInv'
    BY <1>1, <1>3, <1>4, <1>5, HeldStays
       DEF TxInv, OpenInv, IdleInv, CheckoutInv, CancelInv
  <1>8. PayControl' /\ PayRows'
    BY <1>1, <1>2, <1>4, <1>5 DEF PayControl, PayRows, Paying, Covers
  <1>9. WalletInv'
    BY <1>1, <1>4, <1>5 DEF TxInv, WalletInv, Debit
  <1> QED
    BY <1>1, <1>5, <1>6, <1>7, <1>8, <1>9 DEF TxInv, PayInv, Unseen


\* The merchant's row and object get the same, unless they did not agree.
Credits(x, m, n, amount) ==
  /\ UNCHANGED <<book, open, stock, confirmed, seen, held, astray, crashes>>
  /\ db' \in Rows /\ amount \in Nat
  /\ m \notin astray => amount = db.balance[m] + n
  /\ db'.balance = [db.balance EXCEPT ![m] = amount]
  /\ db'.storage = db.storage /\ db'.cart = db.cart
  /\ db'.orders = db.orders
  /\ wallet' = [wallet EXCEPT ![m] = amount]
  /\ wallet' \in [Users -> Nat \cup {None}]
  /\ op' \in Operation /\ op'.kind = op.kind
  /\ op'.at = IF op'.rest = {} THEN "status" ELSE "credit"
  /\ op'.user = op.user /\ op'.now = op.now
  /\ op'.order = op.order /\ op'.items = op.items
  /\ op'.rest = op.rest \ {x}

LEMMA CreditIs ==
  ASSUME FaultsChecked, TxInv, History, NEW x, CreditMerchant(x),
         op.kind \in {"checkout", "pay"},
         NEW m \in Merchants, m = Payee(x), NEW n \in Nat, n = Due(x),
         open, m # op.user
  PROVE  Credits(x, m, n, Balance(m) + n)
  <1> DEFINE amount == Balance(m) + n
  <1>1. /\ op.at = "credit" /\ x \in op.rest
        /\ wallet' = [wallet EXCEPT ![m] = amount]
        /\ Attempted([db EXCEPT !.balance[m] = amount])
        /\ op' = [op EXCEPT !.rest = @ \ {x},
                            !.at = IF op.rest = {x} THEN "status" ELSE "credit"]
        /\ UNCHANGED <<stock, confirmed, crashes>>
    BY DEF CreditMerchant
  <1>2. /\ op \in Operation /\ db \in Rows /\ m \in Users
        /\ wallet \in [Users -> Nat \cup {None}]
    BY DEF TxInv, OrderTxTypeOK, Users
  <1>3. /\ Balance(m) \in Nat
        /\ m \notin astray => Balance(m) = db.balance[m]
    BY <1>2, RowsHave DEF Balance, TxInv, WalletInv
  <1>4. amount \in Nat /\ (m \notin astray => amount = db.balance[m] + n)
    BY <1>3
  <1>5. amount = Balance(m) + n
    OBVIOUS
  <1> HIDE DEF amount
  <1>6. /\ db' = [db EXCEPT !.balance[m] = amount]
        /\ book' = book /\ open' = open
    BY <1>1, NoFault DEF Executes
  <1>7. /\ db' \in Rows /\ db'.balance = [db.balance EXCEPT ![m] = amount]
        /\ db'.storage = db.storage /\ db'.cart = db.cart
        /\ db'.orders = db.orders
    BY <1>2, <1>4, <1>6, BalanceWritten
  <1>8. wallet' \in [Users -> Nat \cup {None}]
    BY <1>1, <1>2, <1>4
  <1>9. /\ op' \in Operation /\ op'.kind = op.kind
        /\ op'.at = IF op'.rest = {} THEN "status" ELSE "credit"
        /\ op'.user = op.user /\ op'.now = op.now
        /\ op'.order = op.order /\ op'.items = op.items
        /\ op'.rest = op.rest \ {x}
    BY <1>1, <1>2 DEF Operation
  <1>10. UNCHANGED <<seen, held, astray, crashes>>
    BY <1>1, <1>6, <1>9, Inside
  <1> QED
    BY <1>1, <1>4, <1>6, <1>7, <1>8, <1>9, <1>10, <1>5 DEF Credits

LEMMA CreditInCheckoutKeepsInv ==
  ASSUME FaultsChecked, TxInv, History, NEW x, CreditMerchant(x), op.kind = "checkout"
  PROVE  TxInv' /\ Unseen
  <1> DEFINE m == Owner[x]
             n == op.items[x]
             amount == Balance(m) + n
  <1>1. /\ op.at = "credit" /\ x \in op.rest
        /\ CheckoutControl /\ CheckoutRows
        /\ op \in Operation
    BY DEF CreditMerchant, TxInv, OrderTxTypeOK, CheckoutInv
  <1>2. /\ op.user \in Consumers /\ op.items \in Bundle
        /\ x \in Contents(op.items) /\ open
    BY <1>1, OperationHas DEF CheckoutControl, TxInv, OpenInv, OrderTxTypeOK
  <1>3. /\ x \in Commodities /\ m \in Merchants /\ n \in Nat /\ m # op.user
        /\ m = Payee(x) /\ n = Due(x)
    BY <1>2, OrderBookAssumption DEF Contents, Bundle, Payee, Due
  <1> HIDE DEF m, n, amount
  <1>4. /\ UNCHANGED <<book, open, stock, confirmed, seen, held, astray, crashes>>
        /\ db' \in Rows /\ amount \in Nat
        /\ m \notin astray => amount = db.balance[m] + n
        /\ db'.balance = [db.balance EXCEPT ![m] = amount]
        /\ db'.storage = db.storage /\ db'.cart = db.cart
        /\ db'.orders = db.orders
        /\ wallet' = [wallet EXCEPT ![m] = amount]
        /\ wallet' \in [Users -> Nat \cup {None}]
        /\ op' \in Operation /\ op'.kind = "checkout"
        /\ op'.at = IF op'.rest = {} THEN "status" ELSE "credit"
        /\ op'.user = op.user /\ op'.now = op.now
        /\ op'.order = op.order /\ op'.items = op.items
        /\ op'.rest = op.rest \ {x}
    <2>1. Credits(x, m, n, amount)
      BY <1>2, <1>3, CreditIs DEF amount
    <2> QED
      BY <2>1 DEF Credits
  <1>5. OrderTxTypeOK'
    BY <1>2, <1>4 DEF TxInv, OrderTxTypeOK
  <1>6. OpenInv' /\ IdleInv' /\ HeldInv' /\ PayInv' /\ CancelInv'
    BY <1>1, <1>2, <1>4, HeldStays DEF TxInv, HeldInv, OpenInv, IdleInv, PayInv, CancelInv
  <1>7. CheckoutControl'
    BY <1>1, <1>4
       DEF CheckoutControl, CartIsFull, Early, Entering, Paying, PaysNow, Covers
  <1>8. CheckoutRows'
    <2>1. /\ ItemsSoFar' = ItemsSoFar
          /\ StatusSoFar = "PENDING" /\ StatusSoFar' = "PENDING"
      BY <1>1, <1>4 DEF ItemsSoFar, Missing, StatusSoFar
    <2>2. /\ db.orders = Append(seen.orders, Order(op.user, "PENDING", ItemsSoFar))
          /\ db.storage = [c \in Commodities |-> Taken(seen.storage, op.items)[c]]
          /\ db.cart = [seen.cart EXCEPT ![op.user] = NoItems]
          /\ \A v \in Users \ astray : db.balance[v] =
               IF v \in Merchants
               THEN seen.balance[v] + PartOfShare(op.rest, v)
               ELSE seen.balance[v]
      BY <1>1, <2>1
         DEF CheckoutRows, Early, Entering, CartIsFull, PaysNow, Paying
    <2>3. \A v : PartOfShare(op.rest, v)' = PartOfShare(op.rest \ {x}, v)
      BY <1>4 DEF PartOfShare
    <2>4. \A v : /\ PartOfShare(op.rest, v) \in Int
                 /\ PartOfShare(op.rest \ {x}, v) =
                      PartOfShare(op.rest, v) + (IF v = m THEN n ELSE 0)
      BY <1>1, <1>2, <1>3, PartGrows DEF m, n
    <2>5. \A v \in Users : seen.balance[v] \in Nat
      BY RowsHave DEF TxInv, OrderTxTypeOK
    <2>6. \A v \in Users \ astray : db'.balance[v] =
               IF v \in Merchants
               THEN seen.balance[v] + PartOfShare(op.rest, v)'
               ELSE seen.balance[v]
      <3>1. db'.balance \in [Users -> Nat] /\ db.balance \in [Users -> Nat]
        BY <1>4, RowsHave DEF TxInv, OrderTxTypeOK
      <3>2. ASSUME NEW v \in Merchants \ astray
            PROVE  db'.balance[v] = seen.balance[v] + PartOfShare(op.rest, v)'
        <4>1. /\ v \in Users /\ seen.balance[v] \in Nat
              /\ db.balance[v] = seen.balance[v] + PartOfShare(op.rest, v)
              /\ PartOfShare(op.rest, v) \in Int
          BY <2>2, <2>4, <2>5 DEF Users
        <4>2. PartOfShare(op.rest, v)' =
                PartOfShare(op.rest, v) + (IF v = m THEN n ELSE 0)
          BY <2>3, <2>4
        <4>3. db'.balance[v] = db.balance[v] + (IF v = m THEN n ELSE 0)
          BY <1>3, <1>4, <3>1, <4>1
        <4> QED
          BY <1>3, <4>1, <4>2, <4>3
      <3>3. ASSUME NEW v \in Users \ astray, v \notin Merchants
            PROVE  db'.balance[v] = seen.balance[v]
        BY <1>3, <1>4, <2>2, <3>1, <3>3
      <3> QED
        BY <3>1, <3>2, <3>3
    <2>7. op'.at \in {"credit", "status"}
      BY <1>4
    <2> QED
      BY <1>4, <2>1, <2>2, <2>6, <2>7
         DEF CheckoutRows, CartIsFull, Early, Entering, Paying, PaysNow
  <1>9. WalletInv'
    <2>1. op.at \in Paying /\ op'.at \in Paying
      BY <1>1, <1>4 DEF Paying
    <2>2. \A v \in Users : db'.balance[v] =
                             IF v = m THEN amount ELSE db.balance[v]
      BY <1>3, <1>4, RowsHave DEF TxInv, OrderTxTypeOK
    <2>3. \A v \in Users : wallet'[v] =
                             IF v = m THEN amount ELSE wallet[v]
      BY <1>3, <1>4 DEF TxInv, OrderTxTypeOK
    <2> QED
      BY <1>3, <1>4, <2>1, <2>2, <2>3 DEF TxInv, WalletInv, Debit
  <1> QED
    BY <1>4, <1>5, <1>6, <1>7, <1>8, <1>9 DEF TxInv, CheckoutInv, Unseen

LEMMA CreditInPayKeepsInv ==
  ASSUME FaultsChecked, TxInv, History, NEW x, CreditMerchant(x), op.kind = "pay"
  PROVE  TxInv' /\ Unseen
  <1> DEFINE n == Share(op.items, x)
             amount == Balance(x) + n
  <1>1. /\ op.at = "credit" /\ x \in op.rest
        /\ PayControl /\ PayRows
        /\ op \in Operation
    BY DEF CreditMerchant, TxInv, OrderTxTypeOK, PayInv
  <1>2. op.user \in Consumers /\ op.items \in Bundle /\ open
    BY <1>1, OperationHas DEF PayControl, TxInv, OpenInv, OrderTxTypeOK
  <1>3. /\ x \in Merchants /\ n \in Nat /\ x # op.user
        /\ x = Payee(x) /\ n = Due(x)
    BY <1>1, <1>2, OrderBookAssumption, BundleSums DEF PayControl, Payee, Due
  <1> HIDE DEF n, amount
  <1>4. /\ UNCHANGED <<book, open, stock, confirmed, seen, held, astray, crashes>>
        /\ db' \in Rows /\ amount \in Nat
        /\ x \notin astray => amount = db.balance[x] + n
        /\ db'.balance = [db.balance EXCEPT ![x] = amount]
        /\ db'.storage = db.storage /\ db'.cart = db.cart
        /\ db'.orders = db.orders
        /\ wallet' = [wallet EXCEPT ![x] = amount]
        /\ wallet' \in [Users -> Nat \cup {None}]
        /\ op' \in Operation /\ op'.kind = "pay"
        /\ op'.at = IF op'.rest = {} THEN "status" ELSE "credit"
        /\ op'.user = op.user
        /\ op'.order = op.order /\ op'.items = op.items
        /\ op'.rest = op.rest \ {x}
    <2>1. Credits(x, x, n, amount)
      BY <1>2, <1>3, CreditIs DEF amount
    <2> QED
      BY <2>1 DEF Credits
  <1>5. OrderTxTypeOK'
    BY <1>2, <1>4 DEF TxInv, OrderTxTypeOK
  <1>6. OpenInv' /\ IdleInv' /\ HeldInv' /\ CheckoutInv' /\ CancelInv'
    BY <1>2, <1>4, HeldStays DEF TxInv, OpenInv, IdleInv, CheckoutInv, CancelInv
  <1>7. PayControl'
    BY <1>1, <1>4 DEF PayControl, Paying, Covers
  <1>8. PayRows'
    <2>1. /\ db.orders = seen.orders
          /\ \A v \in Users \ astray : db.balance[v] =
               IF v \in Merchants \ op.rest
               THEN seen.balance[v] + Share(op.items, v)
               ELSE seen.balance[v]
      BY <1>1 DEF PayRows
    <2>2. \A v \in Users \ astray : db'.balance[v] =
               IF v \in Merchants \ (op.rest \ {x})
               THEN seen.balance[v] + Share(op.items, v)
               ELSE seen.balance[v]
      <3>1. db'.balance \in [Users -> Nat] /\ db.balance \in [Users -> Nat]
        BY <1>4, RowsHave DEF TxInv, OrderTxTypeOK
      <3>2. x \in Users /\ (x \notin astray => db.balance[x] = seen.balance[x])
        BY <1>1, <1>3, <2>1 DEF Users
      <3>3. x \notin astray =>
              db'.balance[x] = seen.balance[x] + Share(op.items, x)
        BY <1>4, <3>1, <3>2 DEF n
      <3>4. \A v \in Users \ {x} : db'.balance[v] = db.balance[v]
        BY <1>4, <3>1
      <3> QED
        BY <1>3, <2>1, <3>1, <3>2, <3>3, <3>4
    <2> QED
      BY <1>1, <1>4, <2>1, <2>2 DEF PayRows
  <1>9. WalletInv'
    <2>1. \A v \in Users : db'.balance[v] =
                             IF v = x THEN amount ELSE db.balance[v]
      BY <1>3, <1>4, RowsHave DEF TxInv, OrderTxTypeOK
    <2>2. \A v \in Users : wallet'[v] =
                             IF v = x THEN amount ELSE wallet[v]
      BY <1>3, <1>4 DEF TxInv, OrderTxTypeOK
    <2>3. op.at # "commit" /\ op'.at # "commit"
      BY <1>1, <1>4
    <2> QED
      BY <1>3, <1>4, <2>1, <2>2, <2>3 DEF TxInv, WalletInv, Debit
  <1> QED
    BY <1>4, <1>5, <1>6, <1>7, <1>8, <1>9 DEF TxInv, PayInv, Unseen


LEMMA MarkPaidInCheckoutKeepsInv ==
  ASSUME FaultsChecked, TxInv, History, MarkPaid, op.kind = "checkout"
  PROVE  TxInv' /\ Unseen
  <1> DEFINE row == Order(op.user, "PENDING", ItemsSoFar)
             next == Order(op.user, "PAID", ItemsSoFar)
  <1>1. /\ op.at = "status" /\ UNCHANGED <<wallet, stock, confirmed, crashes>>
        /\ CheckoutControl /\ CheckoutRows
        /\ op \in Operation /\ db \in Rows /\ seen \in Rows /\ book \in Rows
    BY DEF MarkPaid, objectVars, TxInv, OrderTxTypeOK, CheckoutInv
  <1>2. /\ open /\ op.user \in Consumers /\ op.items \in Bundle
        /\ op.order = Len(seen.orders) + 1
    BY <1>1, OperationHas DEF CheckoutControl, TxInv, OpenInv, OrderTxTypeOK, Early
  <1>3. /\ row \in OrderRow /\ next \in OrderRow /\ seen.orders \in Seq(OrderRow)
        /\ row.user = op.user /\ row.items = ItemsSoFar
    BY <1>1, <1>2, RowsHave DEF ItemsSoFar, Order, OrderRow, Bundle
  <1>4. db.orders = Append(seen.orders, row)
    BY <1>1 DEF CheckoutRows, StatusSoFar, Early
  <1> HIDE DEF row, next
  <1>5. /\ op.order \in DOMAIN db.orders /\ db.orders[op.order] = row
        /\ [db.orders EXCEPT ![op.order] = next] = Append(seen.orders, next)
    BY <1>2, <1>3, <1>4, LastReplaced
  <1>6. /\ Executes(WithStatus(op.order, "PAID"))
        /\ book' = book /\ open' = open
    BY <1>1, <1>2, NoFault DEF MarkPaid, Executes
  <1>7. /\ db' \in Rows
        /\ db'.orders = [db.orders EXCEPT ![op.order] = next]
        /\ db'.balance = db.balance /\ db'.storage = db.storage
        /\ db'.cart = db.cart
    <2>1. next = Order(db.orders[op.order].user, "PAID", db.orders[op.order].items)
      BY <1>3, <1>5 DEF next
    <2> QED
      BY <1>1, <1>5, <1>6, <2>1, StatusWritten DEF OrderWritten
  <1>8. db'.orders = Append(seen.orders, next)
    BY <1>5, <1>7
  <1>9. /\ op' \in Operation /\ op'.kind = "checkout" /\ op'.at = "save"
        /\ op'.user = op.user /\ op'.now = op.now
        /\ op'.order = op.order /\ op'.items = op.items
        /\ op'.rest = op.rest
    BY <1>1 DEF MarkPaid, Goes, Operation
  <1>10. UNCHANGED <<seen, held, astray, crashes>>
    BY <1>1, <1>6, <1>9, Inside
  <1>11. OrderTxTypeOK'
    BY <1>1, <1>2, <1>6, <1>7, <1>9, <1>10 DEF TxInv, OrderTxTypeOK
  <1>12. OpenInv' /\ IdleInv' /\ HeldInv' /\ PayInv' /\ CancelInv'
    BY <1>1, <1>2, <1>6, <1>9, <1>10, HeldStays DEF TxInv, HeldInv, OpenInv, IdleInv, PayInv, CancelInv
  <1>13. CheckoutControl'
    BY <1>1, <1>6, <1>9, <1>10
       DEF CheckoutControl, CartIsFull, Early, Entering, Paying, PaysNow, Covers
  <1>14. CheckoutRows'
    <2>1. ItemsSoFar' = ItemsSoFar /\ StatusSoFar' = "PAID"
      BY <1>1, <1>9 DEF ItemsSoFar, Missing, StatusSoFar
    <2>2. \A v : PartOfShare(op.rest, v)' = PartOfShare(op.rest, v)
      BY <1>9 DEF PartOfShare
    <2>3. /\ db.storage = [c \in Commodities |-> Taken(seen.storage, op.items)[c]]
          /\ db.cart = [seen.cart EXCEPT ![op.user] = NoItems]
          /\ \A v \in Users \ astray : db.balance[v] =
               IF v \in Merchants
               THEN seen.balance[v] + PartOfShare(op.rest, v)
               ELSE seen.balance[v]
      BY <1>1 DEF CheckoutRows, Early, Entering, CartIsFull, PaysNow, Paying
    <2> QED
      BY <1>6, <1>7, <1>8, <1>9, <1>10, <2>1, <2>2, <2>3
         DEF CheckoutRows, CartIsFull, Early, Entering, Paying, PaysNow, next
  <1>15. WalletInv'
    BY <1>1, <1>6, <1>7, <1>9, <1>10 DEF TxInv, WalletInv, Debit, Paying
  <1> QED
    BY <1>1, <1>6, <1>9, <1>11, <1>12, <1>13, <1>14, <1>15, <1>10
       DEF TxInv, CheckoutInv, Unseen

LEMMA MarkPaidInPayKeepsInv ==
  ASSUME FaultsChecked, TxInv, History, MarkPaid, op.kind = "pay"
  PROVE  TxInv' /\ Unseen
  <1> DEFINE row == seen.orders[op.order]
  <1>1. /\ op.at = "status" /\ UNCHANGED <<wallet, stock, confirmed, crashes>>
        /\ PayControl /\ PayRows
        /\ op \in Operation /\ db \in Rows /\ seen \in Rows /\ book \in Rows
    BY DEF MarkPaid, objectVars, TxInv, OrderTxTypeOK, PayInv
  <1>2. /\ open /\ row = Order(op.user, "PENDING", op.items)
        /\ db.orders = seen.orders
        /\ op.order \in DOMAIN db.orders
    BY <1>1 DEF PayControl, PayRows, TxInv, OpenInv, OrderTxTypeOK
  <1>3. row.user = op.user /\ row.items = op.items /\ row = db.orders[op.order]
    BY <1>2 DEF Order
  <1> HIDE DEF row
  <1>4. /\ Executes(WithStatus(op.order, "PAID"))
        /\ book' = book /\ open' = open
    BY <1>1, <1>2, NoFault DEF MarkPaid, Executes
  <1>5. /\ db' \in Rows
        /\ db'.orders = [db.orders EXCEPT
                           ![op.order] = Order(op.user, "PAID", op.items)]
        /\ db'.balance = db.balance /\ db'.storage = db.storage
        /\ db'.cart = db.cart
    <2> DEFINE next == Order(op.user, "PAID", op.items)
    <2>1. next = Order(db.orders[op.order].user, "PAID", db.orders[op.order].items)
      BY <1>3
    <2>2. next = Order(op.user, "PAID", op.items)
      OBVIOUS
    <2> HIDE DEF next
    <2> QED
      BY <1>1, <1>2, <1>4, <2>1, <2>2, StatusWritten DEF OrderWritten
  <1>6. /\ op' \in Operation /\ op'.kind = "pay" /\ op'.at = "save"
        /\ op'.user = op.user /\ op'.order = op.order /\ op'.items = op.items
        /\ op'.rest = op.rest
    BY <1>1 DEF MarkPaid, Goes, Operation
  <1>7. UNCHANGED <<seen, held, astray, crashes>>
    BY <1>1, <1>4, <1>6, Inside
  <1>8. OrderTxTypeOK'
    BY <1>1, <1>2, <1>4, <1>5, <1>6, <1>7 DEF TxInv, OrderTxTypeOK
  <1>9. OpenInv' /\ IdleInv' /\ HeldInv' /\ CheckoutInv' /\ CancelInv'
    BY <1>2, <1>4, <1>6, <1>7, HeldStays DEF TxInv, OpenInv, IdleInv, CheckoutInv, CancelInv
  <1>10. PayControl' /\ PayRows'
    BY <1>1, <1>2, <1>3, <1>4, <1>5, <1>6, <1>7
       DEF PayControl, PayRows, Paying, Covers
  <1>11. WalletInv'
    BY <1>1, <1>4, <1>5, <1>6, <1>7 DEF TxInv, WalletInv, Debit
  <1> QED
    BY <1>1, <1>4, <1>6, <1>8, <1>9, <1>10, <1>11, <1>7 DEF TxInv, PayInv, Unseen

LEMMA SaveBuyerKeepsInv ==
  ASSUME FaultsChecked, TxInv, History, SaveBuyer
  PROVE  TxInv' /\ Unseen
  <1> DEFINE n == wallet[op.user]
  <1>1. /\ op.at = "save" /\ UNCHANGED <<wallet, stock, confirmed, crashes>>
        /\ op \in Operation /\ db \in Rows /\ seen \in Rows /\ book \in Rows
    BY DEF SaveBuyer, objectVars, TxInv, OrderTxTypeOK
  <1>2. op.kind \in {"checkout", "pay"} /\ open
    BY <1>1, IdleIs
       DEF TxInv, OrderTxTypeOK, Operation, OpenInv, IdleInv, CancelInv,
           CancelControl
  <1>3. /\ op.user \in Consumers /\ op.user \in Users \ Merchants
        /\ op.user \notin astray => n = seen.balance[op.user] - Total(op.items)
        /\ Covers(op.user, Total(op.items)) /\ n \in Nat
    BY <1>1, <1>2, OrderBookAssumption
       DEF TxInv, CheckoutInv, PayInv, CheckoutControl, PayControl, WalletInv,
           Debit, Paying, PaysNow, Users
  <1> HIDE DEF n
  <1>4. /\ db' = [db EXCEPT !.balance[op.user] = n]
        /\ book' = book /\ open' = open
    BY <1>1, <1>2, NoFault DEF SaveBuyer, Executes, BuyerSaved, n
  <1>5. /\ db' \in Rows /\ db'.balance = [db.balance EXCEPT ![op.user] = n]
        /\ db'.storage = db.storage /\ db'.cart = db.cart
        /\ db'.orders = db.orders
    BY <1>1, <1>3, <1>4, BalanceWritten
  <1>6. /\ op' \in Operation /\ op'.kind = op.kind /\ op'.at = "commit"
        /\ op'.user = op.user /\ op'.now = op.now
        /\ op'.order = op.order /\ op'.items = op.items
        /\ op'.rest = op.rest
    BY <1>1 DEF SaveBuyer, Goes, Operation
  <1>7. UNCHANGED <<seen, held, astray, crashes>>
    BY <1>1, <1>2, <1>4, <1>6, Inside
  <1>8. OrderTxTypeOK'
    BY <1>1, <1>2, <1>7, <1>4, <1>5, <1>6 DEF TxInv, OrderTxTypeOK
  <1>9. OpenInv' /\ IdleInv' /\ HeldInv' /\ CancelInv'
    BY <1>1, <1>2, <1>7, <1>4, <1>6, HeldStays DEF TxInv, HeldInv, OpenInv, IdleInv, CancelInv
  <1>10. WalletInv'
    <2>1. ~ Debit'
      BY <1>6 DEF Debit, Paying
    <2>2. n = wallet[op.user]
      BY DEF n
    <2>3. \A v \in Users : db'.balance[v] =
                             IF v = op.user THEN n ELSE db.balance[v]
      BY <1>1, <1>3, <1>5, RowsHave
    <2> QED
      BY <1>1, <1>7, <2>1, <2>2, <2>3 DEF TxInv, WalletInv
  <1>11. ASSUME op.kind = "checkout" PROVE CheckoutControl' /\ CheckoutRows'
    <2>1. CheckoutControl /\ CheckoutRows
      BY <1>11 DEF TxInv, CheckoutInv
    <2>2. CheckoutControl'
      BY <1>1, <1>7, <1>4, <1>6, <2>1
         DEF CheckoutControl, CartIsFull, Early, Entering, Paying, PaysNow, Covers
    <2>3. /\ ItemsSoFar' = ItemsSoFar
          /\ StatusSoFar = "PAID" /\ StatusSoFar' = "PAID"
      BY <1>1, <1>6, <2>1 DEF ItemsSoFar, Missing, StatusSoFar, CheckoutControl,
         Paying
    <2>4. \A v : PartOfShare(op.rest, v)' = PartOfShare(op.rest, v)
      BY <1>6 DEF PartOfShare
    <2>5. /\ db.storage = [c \in Commodities |-> Taken(seen.storage, op.items)[c]]
          /\ db.cart = [seen.cart EXCEPT ![op.user] = NoItems]
          /\ db.orders = Append(seen.orders, Order(op.user, "PAID", ItemsSoFar))
          /\ \A v \in Users \ astray : db.balance[v] =
               IF v \in Merchants
               THEN seen.balance[v] + PartOfShare(op.rest, v)
               ELSE seen.balance[v]
      BY <1>1, <2>1, <2>3
         DEF CheckoutRows, Early, Entering, CartIsFull, PaysNow, Paying
    <2>6. \A v \in Users \ astray : db'.balance[v] =
               IF v \in Merchants
               THEN seen.balance[v] + PartOfShare(op.rest, v)
               ELSE IF v = op.user THEN seen.balance[v] - Total(op.items)
               ELSE seen.balance[v]
      BY <1>1, <1>3, <1>5, <2>5, RowsHave
    <2>7. PaysNow'
      BY <1>1, <1>6, <2>1 DEF PaysNow, CheckoutControl, Paying
    <2>8. CheckoutRows'
      BY <1>7, <1>4, <1>5, <1>6, <2>3, <2>4, <2>5, <2>6, <2>7
         DEF CheckoutRows, CartIsFull, Early, Entering
    <2> QED
      BY <2>2, <2>8
  <1>12. ASSUME op.kind = "pay" PROVE PayControl' /\ PayRows'
    <2>1. PayControl /\ PayRows
      BY <1>12 DEF TxInv, PayInv
    <2>2. \A v \in Users \ astray : db.balance[v] =
               IF v \in Merchants \ op.rest
               THEN seen.balance[v] + Share(op.items, v)
               ELSE seen.balance[v]
      BY <1>1, <2>1 DEF PayRows
    <2>3. \A v \in Users \ astray : db'.balance[v] =
               IF v \in Merchants \ op.rest
               THEN seen.balance[v] + Share(op.items, v)
               ELSE IF v = op.user THEN seen.balance[v] - Total(op.items)
               ELSE seen.balance[v]
      BY <1>1, <1>3, <1>5, <2>2, RowsHave
    <2> QED
      BY <1>1, <1>7, <1>4, <1>5, <1>6, <2>1, <2>3
         DEF PayControl, PayRows, Paying, Covers
  <1> QED
    BY <1>1, <1>2, <1>7, <1>4, <1>6, <1>8, <1>9, <1>10, <1>11, <1>12
       DEF TxInv, CheckoutInv, PayInv, Unseen


-----------------------------------------------------------------------------
(* The steps of a cancellation. *)

LEMMA LeastIsMember ==
  ASSUME NEW S \in SUBSET Nat, S # {}
  PROVE  Min(S) \in S
  <1>1. PICK x \in S : \A y \in S : x <= y
    <2> DEFINE R == OpToRel(<, Nat)
    <2>1. IsWellFoundedOn(R, Nat)
      BY NatLessThanWellFounded
    <2>2. \A x, y \in Nat : y < x => <<y, x>> \in R
      BY DEF OpToRel
    <2> HIDE DEF R
    <2>3. S \subseteq Nat
      OBVIOUS
    <2>4. PICK x \in S : \A y \in S : ~ (<<y, x>> \in R)
      BY <2>1, <2>3, WFMin
    <2>5. ASSUME NEW y \in S PROVE x <= y
      <3>1. x \in Nat /\ y \in Nat /\ ~ (<<y, x>> \in R)
        BY <2>3, <2>4
      <3>2. ~ (y < x)
        BY <2>2, <3>1
      <3> QED
        BY <3>1, <3>2
    <2> QED
      BY <2>5
  <1> QED
    BY <1>1 DEF Min

LEMMA HeldIs ==
  ASSUME seen \in Rows, NEW c \in Commodities
  PROVE  /\ Held({}, c) = 0
         /\ \A D \in SUBSET DOMAIN seen.orders :
              /\ Held(D, c) \in Nat
              /\ \A i \in DOMAIN seen.orders \ D :
                   Held(D \cup {i}, c) = Held(D, c) + seen.orders[i].items[c]
  <1>1. Held({}, c) = 0
    BY SumOfNothing DEF Held
  <1> SUFFICES ASSUME NEW D \in SUBSET DOMAIN seen.orders
               PROVE  /\ Held(D, c) \in Nat
                      /\ \A i \in DOMAIN seen.orders \ D :
                           Held(D \cup {i}, c) =
                             Held(D, c) + seen.orders[i].items[c]
    BY <1>1
  <1> DEFINE f == [i \in D |-> seen.orders[i].items[c]]
  <1>2. /\ seen.orders \in Seq(OrderRow)
        /\ DOMAIN seen.orders = 1..Len(seen.orders)
        /\ Len(seen.orders) \in Nat
    BY RowsHave
  <1>3. IsFiniteSet(DOMAIN seen.orders)
    BY <1>2, FS_Interval
  <1>4. IsFiniteSet(D)
    BY <1>3, FS_Subset
  <1>5. \A i \in DOMAIN seen.orders : seen.orders[i].items[c] \in Nat
    <2>1. \A i \in DOMAIN seen.orders : seen.orders[i] \in OrderRow
      BY <1>2
    <2> QED
      BY <2>1 DEF OrderRow, Bundle
  <1>6. f \in [D -> Nat] /\ f \in [D -> Int] /\ Held(D, c) = SumOf(f)
    BY <1>5 DEF Held
  <1>7. ASSUME NEW i \in DOMAIN seen.orders \ D
        PROVE  Held(D \cup {i}, c) = Held(D, c) + seen.orders[i].items[c]
    <2> DEFINE T == D \cup {i}
               g == [j \in T |-> seen.orders[j].items[c]]
    <2>1. /\ g \in [T -> Int] /\ i \notin D /\ T = D \cup {i}
          /\ \A j \in D : g[j] = f[j]
          /\ g[i] = seen.orders[i].items[c]
      BY <1>5
    <2>2. Held(T, c) = SumOf(g)
      BY DEF Held
    <2> HIDE DEF T, g, f
    <2>3. SumOf(g) = SumOf(f) + g[i]
      BY <1>4, <1>6, <2>1, SumExtended
    <2> QED
      BY <1>6, <2>1, <2>2, <2>3
  <1> HIDE DEF f
  <1>8. Held(D, c) \in Nat
    BY <1>4, <1>6, SumIsNatural
  <1> QED
    BY <1>7, <1>8

\* cancelOrder and cancelExpiredOrders begin with the orders in S.
Starts(kind, u, i, S) ==
  op' = [kind |-> kind, at |-> "begin", user |-> u, now |-> FALSE, order |-> i,
         items |-> NoItems, left |-> S, rest |-> {}]

LEMMA StartCancelling ==
  ASSUME TxInv, History, op = Idle,
         UNCHANGED <<book, db, open, wallet, stock, confirmed, crashes>>,
         NEW kind \in {"cancel", "expire"}, NEW u \in Consumers \cup {None},
         NEW i \in Nat, NEW S, S # {},
         S \subseteq {j \in DOMAIN seen.orders : seen.orders[j].status = "PENDING"},
         Starts(kind, u, i, S)
  PROVE  TxInv' /\ Unseen
  <1>1. (open <=> held) /\ db = seen /\ seen \in Rows
    BY SameRowsAsSeen DEF TxInv, OrderTxTypeOK
  <1>2. S \in SUBSET Nat
    BY <1>1, RowsHave
  <1>3. /\ op' \in Operation /\ op'.kind = kind /\ op'.at = "begin"
        /\ op'.left = S
    BY <1>2, IdleIs DEF Starts, Idle, Operation
  <1>4. UNCHANGED <<seen, held, astray, crashes>>
    BY <1>1, <1>3, IdleIs, Inside
  <1>5. OrderTxTypeOK'
    BY <1>1, <1>3, <1>4 DEF TxInv, OrderTxTypeOK
  <1>6. OpenInv' /\ IdleInv' /\ HeldInv' /\ CheckoutInv' /\ PayInv'
    BY <1>1, <1>3, <1>4, HeldStays DEF TxInv, OpenInv, IdleInv, CheckoutInv, PayInv
  <1>7. Done' = {} /\ S \subseteq Waiting'
    BY <1>1, <1>4 DEF Done, Waiting
  <1>8. CancelControl'
    BY <1>3, <1>7, <1>4 DEF CancelControl
  <1>9. CancelRows'
    <2>1. \A c \in Commodities : Returned(c)' = 0
      <3> TAKE c \in Commodities
      <3>1. Held(Done, c)' = Held({}, c)
        BY <1>7, <1>4 DEF Held
      <3> QED
        BY <1>1, <1>3, <3>1, HeldIs DEF Returned
    <2>2. seen.storage = [c \in Commodities |-> seen.storage[c] + Returned(c)']
      BY <1>1, <2>1, RowsHave
    <2> QED
      BY <1>1, <1>3, <1>7, <1>4, <2>2 DEF CancelRows
  <1>10. WalletInv'
    BY <1>1, <1>3, <1>4, SameRowsAsSeen DEF WalletInv, Debit
  <1> QED
    BY <1>3, <1>5, <1>6, <1>8, <1>9, <1>10, <1>4 DEF TxInv, CancelInv, Unseen

LEMMA StartCancelKeepsInv ==
  ASSUME TxInv, History, NEW u \in Consumers, NEW i \in DOMAIN db.orders,
         StartCancel(u, i)
  PROVE  TxInv' /\ Unseen
  <1>1. /\ op = Idle /\ db = seen /\ i \in Nat
        /\ {i} \subseteq {j \in DOMAIN seen.orders :
                            seen.orders[j].status = "PENDING"}
    BY SameRowsAsSeen, RowsHave DEF StartCancel, TxInv, OrderTxTypeOK
  <1>2. UNCHANGED <<book, db, open, wallet, stock, confirmed, crashes>>
    BY DEF StartCancel, rowVars, objectVars, counters
  <1>3. op' = [Idle EXCEPT !.kind = "cancel", !.at = "begin", !.user = u,
                           !.order = i, !.left = {i}]
    BY DEF StartCancel
  <1>4. Starts("cancel", u, i, {i})
    BY <1>3 DEF Starts, Idle
  <1> QED
    BY <1>1, <1>2, <1>4, StartCancelling

LEMMA StartExpireKeepsInv ==
  ASSUME TxInv, History, NEW n \in DOMAIN db.orders, StartExpire(n)
  PROVE  TxInv' /\ Unseen
  <1> DEFINE S == {i \in 1..n : db.orders[i].status = "PENDING"}
  <1>1. /\ op = Idle /\ db = seen /\ S # {}
        /\ op' = [Idle EXCEPT !.kind = "expire", !.at = "begin", !.left = S]
    BY SameRowsAsSeen DEF StartExpire
  <1>2. S \subseteq {j \in DOMAIN seen.orders : seen.orders[j].status = "PENDING"}
    BY <1>1, RowsHave DEF TxInv, OrderTxTypeOK
  <1>3. UNCHANGED <<book, db, open, wallet, stock, confirmed, crashes>>
    BY DEF StartExpire, rowVars, objectVars, counters
  <1> HIDE DEF S
  <1>4. Starts("expire", None, 0, S)
    BY <1>1 DEF Idle, Starts
  <1> QED
    BY <1>1, <1>2, <1>3, <1>4, StartCancelling

\* The loop goes on with the next order, or ends.
LEMMA CancellingIs ==
  ASSUME TxInv, op.kind \in {"cancel", "expire"}, op' = Cancelling(op.left)
  PROVE  /\ op' \in Operation /\ op'.kind = op.kind
         /\ op.left = {} => /\ op'.at = "commit" /\ op'.order = op.order
                            /\ op'.left = {} /\ op'.rest = op.rest
         /\ op.left # {} => /\ op'.at = "restore" /\ op'.order \in op.left
                            /\ op'.left = op.left \ {op'.order}
                            /\ op'.items = seen.orders[op'.order].items
                            /\ op'.items \in Bundle
                            /\ op'.rest = Contents(op'.items)
  <1>1. op \in Operation /\ seen \in Rows /\ op.left \in SUBSET Nat
    BY DEF TxInv, OrderTxTypeOK, Operation
  <1>2. op.left \subseteq Waiting
    BY DEF TxInv, CancelInv, CancelControl
  <1>3. CASE op.left = {}
    <2>1. op' = [op EXCEPT !.at = "commit"]
      BY <1>3 DEF Cancelling
    <2> QED
      BY <1>1, <1>3, <2>1 DEF Operation
  <1>4. CASE op.left # {}
    <2> DEFINE i == Min(op.left)
               items == seen.orders[i].items
    <2>1. i \in op.left
      BY <1>1, <1>4, LeastIsMember
    <2>2. i \in DOMAIN seen.orders /\ db.orders[i] = seen.orders[i] /\ i \in Nat
      BY <1>1, <1>2, <2>1 DEF Waiting, Done
    <2>3. items \in Bundle
      <3>1. seen.orders[i] \in OrderRow
        BY <1>1, <2>2, RowsHave
      <3> QED
        BY <3>1 DEF OrderRow
    <2>4. Contents(items) \in SUBSET (Commodities \cup Merchants)
      BY DEF Contents
    <2>5. op' = [op EXCEPT !.at = "restore", !.order = i, !.items = items,
                           !.left = op.left \ {i}, !.rest = Contents(items)]
      BY <1>4, <2>2 DEF Cancelling
    <2> HIDE DEF i, items
    <2>6. /\ op'.at = "restore" /\ op'.order = i /\ op'.items = items
          /\ op'.left = op.left \ {i} /\ op'.rest = Contents(items)
          /\ op'.kind = op.kind
      BY <1>1, <2>5 DEF Operation
    <2>7. op' \in Operation
      BY <1>1, <2>2, <2>3, <2>4, <2>5 DEF Operation
    <2> QED
      BY <1>4, <2>1, <2>3, <2>6, <2>7 DEF items
  <1> QED
    BY <1>3, <1>4

LEMMA BeginCancelKeepsInv ==
  ASSUME FaultsChecked, TxInv, History, BeginCancel
  PROVE  TxInv' /\ Unseen
  <1>1. /\ op.kind \in {"cancel", "expire"} /\ op.at = "begin"
        /\ UNCHANGED <<book, db, wallet, stock, confirmed, crashes>>
        /\ op' = Cancelling(op.left)
        /\ op \in Operation /\ seen \in Rows /\ book \in Rows
    BY DEF BeginCancel, objectVars, TxInv, OrderTxTypeOK
  <1>2. (open <=> held) /\ CancelControl /\ CancelRows
    BY <1>1 DEF TxInv, OpenInv, OrderTxTypeOK, CancelInv
  <1>3. open' = TRUE
    BY <1>1, <1>2, NoFault DEF BeginCancel, Begun
  <1>4. op.left # {} /\ op.left \subseteq Waiting
    BY <1>1, <1>2 DEF CancelControl
  <1>5. /\ op' \in Operation /\ op'.kind = op.kind
        /\ op'.at = "restore" /\ op'.order \in op.left
        /\ op'.left = op.left \ {op'.order}
        /\ op'.items = seen.orders[op'.order].items
        /\ op'.items \in Bundle
        /\ op'.rest = Contents(op'.items)
    BY <1>1, <1>4, CancellingIs
  <1>6. UNCHANGED <<seen, held, astray, crashes>>
    BY <1>1, <1>3, <1>5, Inside
  <1>7. OrderTxTypeOK'
    BY <1>1, <1>3, <1>5, <1>6 DEF TxInv, OrderTxTypeOK
  <1>8. OpenInv' /\ IdleInv' /\ HeldInv' /\ CheckoutInv' /\ PayInv'
    BY <1>1, <1>3, <1>5, <1>6, HeldStays DEF TxInv, OpenInv, IdleInv, CheckoutInv, PayInv
  <1>9. Done' = Done /\ Waiting' = Waiting
    BY <1>1, <1>6 DEF Done, Waiting
  <1>10. CancelControl'
    BY <1>1, <1>4, <1>5, <1>9, <1>6 DEF CancelControl
  <1>11. CancelRows'
    <2>1. ASSUME NEW c \in Commodities PROVE Returned(c)' = Returned(c)
      <3>1. Held(Done, c)' = Held(Done, c)
        BY <1>1, <1>9, <1>6 DEF Held
      <3>2. c \notin op'.rest => op'.items[c] = 0
        BY <1>5 DEF Contents, Bundle
      <3> QED
        BY <1>1, <1>5, <3>1, <3>2 DEF Returned
    <2> QED
      BY <1>1, <1>2, <1>9, <1>6, <2>1 DEF CancelRows
  <1>12. WalletInv'
    BY <1>1, <1>5, <1>6 DEF TxInv, WalletInv, Debit
  <1> QED
    BY <1>1, <1>5, <1>7, <1>8, <1>10, <1>11, <1>12, <1>6
       DEF TxInv, CancelInv, Unseen

LEMMA RestoreStockKeepsInv ==
  ASSUME FaultsChecked, TxInv, History, NEW c \in Commodities, RestoreStock(c)
  PROVE  TxInv' /\ Unseen
  <1> DEFINE n == db.storage[c] + op.items[c]
  <1>1. /\ op.at = "restore" /\ c \in op.rest
        /\ UNCHANGED <<wallet, confirmed, crashes>>
        /\ op \in Operation /\ db \in Rows /\ seen \in Rows /\ book \in Rows
        /\ stock \in [Commodities -> Nat \cup {None}]
        /\ op.items \in [Commodities -> Nat]
    BY OperationHas DEF RestoreStock, TxInv, OrderTxTypeOK
  <1>2. op.kind \in {"cancel", "expire"} /\ open
    BY <1>1, IdleIs
       DEF TxInv, OrderTxTypeOK, OpenInv, Operation, IdleInv, CheckoutInv,
           CheckoutControl, CartIsFull, Early, Entering, Paying, PayInv, PayControl
  <1>3. CancelControl /\ CancelRows
    BY <1>2 DEF TxInv, CancelInv
  <1>4. n \in Nat
    BY <1>1, RowsHave
  <1>5. /\ db' = [db EXCEPT !.storage[c] = n]
        /\ book' = book /\ open' = open
    BY <1>1, <1>2, NoFault DEF RestoreStock, Executes, Rows
  <1> HIDE DEF n
  <1>6. /\ db' \in Rows /\ db'.storage = [db.storage EXCEPT ![c] = n]
        /\ db'.balance = db.balance /\ db'.orders = db.orders
        /\ db'.cart = db.cart
    BY <1>1, <1>4, <1>5, StorageWritten
  <1>7. stock' \in [Commodities -> Nat \cup {None}]
    <2>1. db'.storage[c] \in Nat
      BY <1>6, RowsHave
    <2>2. stock' = [stock EXCEPT ![c] = op.items[c] +
                      IF stock[c] = None THEN db'.storage[c] ELSE stock[c]]
      BY <1>1 DEF RestoreStock
    <2>3. op.items[c] + (IF stock[c] = None THEN db'.storage[c] ELSE stock[c]) \in Nat
      BY <1>1, <2>1
    <2> QED
      BY <1>1, <2>2, <2>3
  <1>8. /\ op' \in Operation /\ op'.kind = op.kind
        /\ op'.at = IF op'.rest = {} THEN "status" ELSE "restore"
        /\ op'.left = op.left /\ op'.order = op.order /\ op'.items = op.items
        /\ op'.rest = op.rest \ {c}
    BY <1>1 DEF RestoreStock, Operation
  <1>9. UNCHANGED <<seen, held, astray, crashes>>
    BY <1>1, <1>2, <1>5, <1>8, Inside
  <1>10. OrderTxTypeOK'
    BY <1>1, <1>2, <1>5, <1>6, <1>7, <1>8, <1>9 DEF TxInv, OrderTxTypeOK
  <1>11. OpenInv' /\ IdleInv' /\ HeldInv' /\ CheckoutInv' /\ PayInv'
    BY <1>2, <1>5, <1>8, <1>9, HeldStays DEF TxInv, OpenInv, IdleInv, CheckoutInv, PayInv
  <1>12. Done' = Done /\ Waiting' = Waiting
    BY <1>5, <1>6, <1>9 DEF Done, Waiting
  <1>13. CancelControl'
    BY <1>1, <1>3, <1>5, <1>8, <1>12, <1>9 DEF CancelControl
  <1>14. CancelRows'
    <2>1. \A d \in Commodities :
            /\ Held(Done, d)' = Held(Done, d) /\ Held(Done, d) \in Nat
            /\ db.storage[d] \in Nat /\ seen.storage[d] \in Nat
            /\ op.items[d] \in Nat
      BY <1>1, <1>5, <1>12, <1>9, HeldIs, RowsHave DEF Held, Done
    <2>2. \A d \in Commodities : db.storage[d] = seen.storage[d] + Returned(d)
      BY <1>3 DEF CancelRows
    <2>3. \A d \in Commodities :
            Returned(d)' = Returned(d) + (IF d = c THEN op.items[c] ELSE 0)
      BY <1>1, <1>8, <2>1 DEF Returned
    <2>4. \A d \in Commodities : Returned(d) \in Nat
      BY <2>1 DEF Returned
    <2>5. \A d \in Commodities : db'.storage[d] = seen.storage[d] + Returned(d)'
      <3> TAKE d \in Commodities
      <3>1. CASE d = c
        <4>1. db'.storage[c] = n
          BY <1>1, <1>6, RowsHave
        <4> QED
          BY <2>1, <2>2, <2>3, <2>4, <3>1, <4>1 DEF n
      <3>2. CASE d # c
        <4>1. db'.storage[d] = db.storage[d]
          BY <1>1, <1>6, <3>2, RowsHave
        <4> QED
          BY <2>1, <2>2, <2>3, <2>4, <3>2, <4>1
      <3> QED
        BY <3>1, <3>2
    <2>6. db'.storage = [d \in Commodities |-> seen.storage[d] + Returned(d)']
      BY <1>6, <2>5, RowsHave
    <2> QED
      BY <1>3, <1>5, <1>6, <1>12, <1>9, <2>6 DEF CancelRows
  <1>15. WalletInv'
    BY <1>1, <1>2, <1>5, <1>6, <1>8, <1>9 DEF TxInv, WalletInv, Debit
  <1> QED
    BY <1>1, <1>2, <1>5, <1>8, <1>10, <1>11, <1>13, <1>14, <1>15, <1>9
       DEF TxInv, CancelInv, Unseen

LEMMA MarkCancelledKeepsInv ==
  ASSUME FaultsChecked, TxInv, History, MarkCancelled
  PROVE  TxInv' /\ Unseen
  <1> DEFINE i == op.order
             row == seen.orders[i]
             next == Order(row.user, "CANCELLED", row.items)
  <1>1. /\ op.kind \in {"cancel", "expire"} /\ op.at = "status"
        /\ UNCHANGED <<wallet, stock, confirmed, crashes>>
        /\ op' = Cancelling(op.left)
        /\ op \in Operation /\ db \in Rows /\ seen \in Rows /\ book \in Rows
    BY DEF MarkCancelled, objectVars, TxInv, OrderTxTypeOK
  <1>2. open /\ CancelControl /\ CancelRows
    BY <1>1 DEF TxInv, OpenInv, OrderTxTypeOK, CancelInv
  <1>3. /\ i \in Waiting \ op.left /\ op.left \subseteq Waiting
        /\ op.items = row.items /\ op.rest = {}
    BY <1>1, <1>2 DEF CancelControl
  <1>4. /\ i \in DOMAIN seen.orders /\ i \notin Done
        /\ DOMAIN db.orders = DOMAIN seen.orders /\ i \in DOMAIN db.orders
        /\ db.orders[i] = row /\ row.status = "PENDING"
        /\ row \in OrderRow
    BY <1>1, <1>2, <1>3, RowsHave DEF Waiting, Done, CancelRows
  <1>5. /\ Executes(WithStatus(i, "CANCELLED"))
        /\ book' = book /\ open' = open
    BY <1>1, <1>2, NoFault DEF MarkCancelled, Executes
  <1>6. /\ next = Order(db.orders[i].user, "CANCELLED", db.orders[i].items)
        /\ next.status = "CANCELLED" /\ next # row
    BY <1>4 DEF Order
  <1>7. next = Order(row.user, "CANCELLED", row.items)
    OBVIOUS
  <1> HIDE DEF i, row, next
  <1>8. /\ db' \in Rows
        /\ db'.orders = [db.orders EXCEPT ![i] = next]
        /\ db'.balance = db.balance /\ db'.storage = db.storage
        /\ db'.cart = db.cart
    BY <1>1, <1>4, <1>5, <1>6, StatusWritten DEF OrderWritten
  <1>9. /\ op' \in Operation /\ op'.kind = op.kind
        /\ op.left = {} => /\ op'.at = "commit" /\ op'.order = op.order
                           /\ op'.left = {} /\ op'.rest = op.rest
        /\ op.left # {} => /\ op'.at = "restore" /\ op'.order \in op.left
                           /\ op'.left = op.left \ {op'.order}
                           /\ op'.items = seen.orders[op'.order].items
                           /\ op'.items \in Bundle
                           /\ op'.rest = Contents(op'.items)
    BY <1>1, CancellingIs
  <1>10. UNCHANGED <<seen, held, astray, crashes>>
    BY <1>1, <1>5, <1>9, Inside
  <1>11. OrderTxTypeOK'
    BY <1>1, <1>2, <1>5, <1>8, <1>9, <1>10 DEF TxInv, OrderTxTypeOK
  <1>12. OpenInv' /\ IdleInv' /\ HeldInv' /\ CheckoutInv' /\ PayInv'
    BY <1>1, <1>2, <1>5, <1>9, <1>10, HeldStays DEF TxInv, OpenInv, IdleInv, CheckoutInv, PayInv
  <1>13. /\ DOMAIN db'.orders = DOMAIN seen.orders
         /\ Len(db'.orders) = Len(db.orders)
         /\ db'.orders[i] = next
         /\ \A j \in DOMAIN seen.orders \ {i} : db'.orders[j] = db.orders[j]
    BY <1>1, <1>4, <1>8, RowsHave
  <1>14. Done' = Done \cup {i}
    BY <1>4, <1>5, <1>6, <1>13, <1>10 DEF Done
  <1>15. Waiting' = Waiting \ {i}
    BY <1>5, <1>14, <1>10 DEF Waiting
  <1>16. CancelControl'
    BY <1>3, <1>5, <1>9, <1>14, <1>15, <1>10 DEF CancelControl, i
  <1>17. CancelRows'
    <2>1. ASSUME NEW c \in Commodities PROVE Returned(c)' = Returned(c)
      <3>1. /\ Held(Done \cup {i}, c) = Held(Done, c) + seen.orders[i].items[c]
            /\ Held(Done, c) \in Nat
        BY <1>1, <1>4, HeldIs DEF Done
      <3>2. Held(Done, c)' = Held(Done \cup {i}, c)
        BY <1>5, <1>14, <1>10 DEF Held
      <3>3. Returned(c) = Held(Done, c) + seen.orders[i].items[c]
        BY <1>1, <1>3 DEF Returned, row
      <3>4. seen.orders[i].items[c] \in Nat
        BY <1>4 DEF row, OrderRow, Bundle
      <3>5. op'.at = "restore" /\ c \notin op'.rest => op'.items[c] = 0
        BY <1>9 DEF Contents, Bundle
      <3> QED
        BY <1>9, <3>1, <3>2, <3>3, <3>4, <3>5 DEF Returned
    <2>2. \A j \in Done \cup {i} :
            /\ seen.orders[j].status = "PENDING"
            /\ db'.orders[j] =
                 Order(seen.orders[j].user, "CANCELLED", seen.orders[j].items)
      BY <1>2, <1>4, <1>7, <1>13 DEF CancelRows, row, Done
    <2> QED
      BY <1>2, <1>5, <1>8, <1>13, <1>14, <1>10, <2>1, <2>2 DEF CancelRows
  <1>18. WalletInv'
    BY <1>1, <1>5, <1>8, <1>9, <1>10 DEF TxInv, WalletInv, Debit
  <1> QED
    BY <1>1, <1>5, <1>9, <1>11, <1>12, <1>16, <1>17, <1>18, <1>10
       DEF TxInv, CancelInv, Unseen


-----------------------------------------------------------------------------
(* The other requests, COMMIT and the end of the process. *)

\* A request of one statement, which changes no order.
LEMMA RequestIs ==
  ASSUME TxInv, History, op = Idle, UNCHANGED <<op, confirmed, crashes>>,
         NEW rows \in Rows, rows.orders = seen.orders, Executes(rows),
         wallet' \in [Users -> Nat \cup {None}],
         stock' \in [Commodities -> Nat \cup {None}],
         \A v \in Users \ astray : wallet'[v] \in {None, rows.balance[v]}
  PROVE  /\ TxInv'
         /\ seen' = rows /\ UNCHANGED <<astray, confirmed>>
         /\ WrittenInTurn
  <1>1. /\ db' = rows /\ open' = open /\ op' = Idle
        /\ book' = IF open THEN book ELSE rows
    BY DEF Executes
  <1>2. (open <=> held) /\ db = seen /\ op.at = "none"
    BY IdleIs, SameRowsAsSeen
  <1>3. seen' = rows /\ UNCHANGED <<held, astray>>
    BY <1>1, <1>2 DEF History, TxInv, OrderTxTypeOK
  <1>4. OrderTxTypeOK'
    BY <1>1, <1>3, IdleIs DEF TxInv, OrderTxTypeOK
  <1>5. OpenInv' /\ IdleInv' /\ CheckoutInv' /\ PayInv' /\ CancelInv'
    BY <1>1, <1>2, <1>3, IdleIs
       DEF OpenInv, IdleInv, CheckoutInv, PayInv, CancelInv
  <1>6. HeldInv'
    BY <1>1, <1>2, <1>3, IdleIs DEF TxInv, HeldInv
  <1>7. WalletInv'
    BY <1>1, <1>3, IdleIs DEF WalletInv, Debit
  <1>8. held <=> book # seen
    <2>1. Len(book.orders) \in Nat
      BY RowsHave DEF TxInv, OrderTxTypeOK
    <2> QED
      BY <2>1 DEF TxInv, HeldInv
  <1>9. WrittenInTurn
    BY <1>1, <1>2, <1>3, <1>8 DEF WrittenInTurn, Written, Waits
  <1> QED
    BY <1>3, <1>4, <1>5, <1>6, <1>7, <1>9 DEF TxInv

LEMMA BecomesThese ==
  ASSUME seen' \in Rows, UNCHANGED astray,
         NEW rows, NEW balance,
         rows = [balance |-> balance, storage |-> seen'.storage,
                 cart |-> seen'.cart, orders |-> seen'.orders],
         \A v \in Users \ astray : seen'.balance[v] = balance[v]
  PROVE  Becomes(rows)
  <1>1. seen' = [balance |-> seen'.balance, storage |-> seen'.storage,
                 cart |-> seen'.cart, orders |-> seen'.orders]
    BY DEF Rows
  <1>2. seen' = [rows EXCEPT !.balance = seen'.balance]
    BY <1>1
  <1>3. seen'.balance \in [Users -> Nat] /\ rows.balance = balance
    BY RowsHave
  <1> QED
    BY <1>2, <1>3 DEF Becomes

LEMMA BalanceReplaced ==
  ASSUME NEW r \in Rows, NEW balance, NEW s, s = [r EXCEPT !.balance = balance]
  PROVE  s = [balance |-> balance, storage |-> r.storage, cart |-> r.cart,
              orders |-> r.orders]
  BY DEF Rows

LEMMA PutInCartKeepsInv ==
  ASSUME TxInv, History, NEW u \in Consumers, NEW c \in Commodities,
         PutInCart(u, c)
  PROVE  /\ TxInv'
         /\ AddItem(u, c) /\ UNCHANGED confirmed
  <1> DEFINE items == [seen.cart[u] EXCEPT ![c] = @ + 1]
             rows == [seen EXCEPT !.cart[u][c] = @ + 1]
  <1>1. /\ op = Idle /\ db = seen /\ seen \in Rows
        /\ UNCHANGED <<wallet, confirmed, op, crashes>>
        /\ Executes(rows)
        /\ stock' = [stock EXCEPT ![c] = Stock(c)]
        /\ stock \in [Commodities -> Nat \cup {None}]
        /\ wallet \in [Users -> Nat \cup {None}]
    BY SameRowsAsSeen DEF PutInCart, TxInv, OrderTxTypeOK
  <1>2. items \in Bundle
    BY <1>1, RowsHave DEF Bundle
  <1>3. rows = [seen EXCEPT !.cart[u] = items]
    BY <1>1 DEF Rows
  <1>4. rows = [seen EXCEPT !.cart[u][c] = @ + 1]
    OBVIOUS
  <1> HIDE DEF items, rows
  <1>5. /\ rows \in Rows /\ rows.balance = seen.balance
        /\ rows.orders = seen.orders
    BY <1>1, <1>2, <1>3, CartWritten
  <1>6. stock' \in [Commodities -> Nat \cup {None}]
    BY <1>1, RowsHave DEF Stock
  <1>7. \A v \in Users \ astray : wallet'[v] \in {None, rows.balance[v]}
    BY <1>1, <1>5, SameRowsAsSeen
  <1>8. TxInv' /\ seen' = rows /\ UNCHANGED <<astray, confirmed>> /\ WrittenInTurn
    BY <1>1, <1>5, <1>6, <1>7, RequestIs
  <1>9. rows = [balance |-> rows.balance, storage |-> rows.storage,
                cart |-> rows.cart, orders |-> rows.orders]
    BY <1>5 DEF Rows
  <1>10. Becomes(rows)
    BY <1>5, <1>8, <1>9, BecomesThese
  <1> QED
    BY <1>4, <1>8, <1>10 DEF AddItem

LEMMA TopUpKeepsInv ==
  ASSUME TxInv, History, NEW u \in Consumers, NEW n \in Amounts, TopUp(u, n)
  PROVE  /\ TxInv'
         /\ Recharge(u, n) /\ UNCHANGED confirmed
  <1> DEFINE k == Balance(u) + n
             rows == [seen EXCEPT !.balance[u] = k]
  <1>1. /\ op = Idle /\ db = seen /\ seen \in Rows
        /\ UNCHANGED <<stock, confirmed, op, crashes>>
        /\ Executes(rows)
        /\ wallet' = [wallet EXCEPT ![u] = k]
        /\ wallet \in [Users -> Nat \cup {None}]
        /\ stock \in [Commodities -> Nat \cup {None}]
    BY SameRowsAsSeen DEF TopUp, TxInv, OrderTxTypeOK
  <1>2. /\ u \in Users /\ n \in Nat /\ k \in Nat
        /\ u \notin astray => k = seen.balance[u] + n
    BY <1>1, SameRowsAsSeen, RowsHave, OrderBookAssumption DEF Balance, Users
  <1> HIDE DEF k
  <1>3. /\ rows \in Rows /\ rows.balance = [seen.balance EXCEPT ![u] = k]
        /\ rows.storage = seen.storage /\ rows.cart = seen.cart
        /\ rows.orders = seen.orders
    BY <1>1, <1>2, BalanceWritten
  <1> HIDE DEF rows
  <1>4. wallet' \in [Users -> Nat \cup {None}]
    BY <1>1, <1>2
  <1>5. \A v \in Users \ astray : wallet'[v] \in {None, rows.balance[v]}
    BY <1>1, <1>2, <1>3, SameRowsAsSeen, RowsHave
  <1>6. TxInv' /\ seen' = rows /\ UNCHANGED <<astray, confirmed>> /\ WrittenInTurn
    BY <1>1, <1>3, <1>4, <1>5, RequestIs
  <1>7. PICK balance : balance = [seen.balance EXCEPT ![u] = seen.balance[u] + n]
    OBVIOUS
  <1>8. PICK charged : charged = [seen EXCEPT !.balance[u] = @ + n]
    OBVIOUS
  <1>9. charged = [seen EXCEPT !.balance = balance]
    BY <1>7, <1>8
  <1>10. charged = [balance |-> balance, storage |-> seen.storage,
                    cart |-> seen.cart, orders |-> seen.orders]
    BY <1>1, <1>9, BalanceReplaced
  <1>11. ASSUME NEW v \in Users \ astray PROVE rows.balance[v] = balance[v]
    <2>1. seen.balance \in [Users -> Nat]
      BY <1>1, RowsHave
    <2>2. CASE v = u
      BY <1>2, <1>3, <1>7, <2>1, <2>2
    <2>3. CASE v # u
      BY <1>3, <1>7, <2>1, <2>3
    <2> QED
      BY <2>2, <2>3
  <1>12. Becomes(charged)
    <2>1. seen' \in Rows /\ UNCHANGED astray
      BY <1>3, <1>6
    <2>2. charged = [balance |-> balance, storage |-> seen'.storage,
                     cart |-> seen'.cart, orders |-> seen'.orders]
      BY <1>3, <1>6, <1>10
    <2>3. \A v \in Users \ astray : seen'.balance[v] = balance[v]
      BY <1>6, <1>11
    <2> QED
      BY <2>1, <2>2, <2>3, BecomesThese
  <1> QED
    BY <1>6, <1>8, <1>12 DEF Recharge

\* COMMIT writes the rows; or it fails in a checkout, whose transaction stays
\* open or is undone.
WritesAll ==
  /\ open' = FALSE /\ book' = db /\ db' = db /\ seen' = db /\ held' = FALSE
  /\ astray' = astray /\ confirmed' = confirmed \cup Claims

StaysOpen ==
  /\ op.kind = "checkout"
  /\ open' = TRUE /\ book' = book /\ db' = db /\ seen' = db /\ held' = TRUE
  /\ UNCHANGED <<astray, confirmed>>

IsUndone ==
  /\ op.kind = "checkout"
  /\ open' = FALSE /\ book' = book /\ db' = book /\ seen' = book /\ held' = FALSE
  /\ astray' = IF op.now
               THEN astray \cup {op.user} \cup {Owner[c] : c \in Contents(op.items)}
               ELSE astray
  /\ UNCHANGED confirmed

\* A checkout that is at its COMMIT.
LEMMA ReadyHas ==
  ASSUME TxInv, op.kind = "checkout", op.at = "commit"
  PROVE  /\ CheckoutControl /\ CheckoutRows
         /\ ~ held /\ open /\ seen = book
         /\ op.user \in Consumers /\ op.user \notin Merchants
         /\ op.items = seen.cart[op.user] /\ op.items \in Bundle
         /\ op.items \in [Commodities -> Nat]
         /\ Contents(op.items) # {} /\ op.rest = {}
         /\ ItemsSoFar = op.items
         /\ Order(op.user, StatusSoFar, op.items) \in OrderRow
         /\ db.orders = Append(book.orders, Order(op.user, StatusSoFar, op.items))
         /\ op.order = Len(book.orders) + 1
         /\ Len(db.orders) = Len(book.orders) + 1
         /\ \A i \in DOMAIN book.orders : db.orders[i] = book.orders[i]
  <1>1. /\ CheckoutControl /\ CheckoutRows /\ ~ held /\ open /\ seen = book
        /\ op \in Operation /\ book \in Rows
    BY DEF TxInv, CheckoutInv, HeldInv, OpenInv, OrderTxTypeOK
  <1>2. /\ op.user \in Consumers /\ op.user \notin Merchants
        /\ op.items = seen.cart[op.user] /\ op.items \in Bundle
        /\ op.items \in [Commodities -> Nat]
        /\ Contents(op.items) # {} /\ op.rest = {}
        /\ op.order = Len(book.orders) + 1
    BY <1>1, OperationHas, OrderBookAssumption DEF CheckoutControl, Entering, Early
  <1>3. ItemsSoFar = op.items
    BY <1>2 DEF ItemsSoFar, Missing
  <1>4. StatusSoFar \in {"PENDING", "PAID"}
    BY DEF StatusSoFar
  <1> DEFINE row == Order(op.user, StatusSoFar, op.items)
  <1>5. row \in OrderRow
    BY <1>2, <1>4 DEF Order, OrderRow
  <1>6. db.orders = Append(book.orders, row)
    BY <1>1, <1>3 DEF CheckoutRows, Early
  <1> HIDE DEF row
  <1>7. /\ Len(db.orders) = Len(book.orders) + 1
        /\ \A i \in DOMAIN book.orders : db.orders[i] = book.orders[i]
    <2>1. book.orders \in Seq(OrderRow)
      BY <1>1, RowsHave
    <2> QED
      BY <1>5, <1>6, <2>1
  <1> QED
    BY <1>1, <1>2, <1>3, <1>5, <1>6, <1>7 DEF row

LEMMA CommitIs ==
  ASSUME FaultsChecked, TxInv, History, Commit
  PROVE  /\ op.kind \in {"checkout", "pay", "cancel", "expire"}
         /\ op.at = "commit" /\ op' = Idle
         /\ UNCHANGED <<wallet, stock, crashes>>
         /\ WritesAll \/ StaysOpen \/ IsUndone
  <1>1. /\ op.kind \in {"checkout", "pay", "cancel", "expire"} /\ open
        /\ op.at = "commit" /\ op' = Idle
        /\ UNCHANGED <<wallet, stock, crashes>>
    BY IdleIs
       DEF Commit, TxInv, OrderTxTypeOK, OpenInv, Operation, IdleInv, objectVars
  <1>2. seen' = db'
    BY <1>1 DEF History
  <1>3. CASE Committed /\ confirmed' = confirmed \cup Claims
    BY <1>1, <1>2, <1>3 DEF Committed, History, WritesAll
  <1>4. CASE NotCommitted /\ ~ (Committed /\ confirmed' = confirmed \cup Claims)
    <2>1. Fails
      BY <1>1, <1>4 DEF NotCommitted
    <2>2. op.kind = "checkout"
      BY <1>1, <2>1, NoFault DEF Fails
    <2>3. confirmed' = confirmed
      BY <1>4, <2>2 DEF Commit
    <2>4. CASE UNCHANGED rowVars
      BY <1>1, <1>2, <2>2, <2>3, <2>4 DEF rowVars, History, StaysOpen
    <2>5. CASE open' = FALSE /\ db' = book /\ UNCHANGED book
      <3>1. db' # db
        <4>1. Len(db.orders) = Len(book.orders) + 1 /\ Len(book.orders) \in Nat
          BY <1>1, <2>2, ReadyHas, RowsHave DEF TxInv, OrderTxTypeOK
        <4> QED
          BY <2>5, <4>1
      <3> QED
        BY <1>1, <1>2, <2>2, <2>3, <2>5, <3>1 DEF History, IsUndone
    <2> QED
      BY <2>1, <2>4, <2>5 DEF Fails
  <1> QED
    BY <1>1, <1>3, <1>4 DEF Commit

\* What is undone was the balance of none but the buyer and the sellers.
LEMMA OthersAsBefore ==
  ASSUME TxInv, op.kind = "checkout", op.at = "commit",
         NEW v \in Users \ astray,
         op.now => v # op.user /\ v \notin {Owner[c] : c \in Contents(op.items)}
  PROVE  db.balance[v] = book.balance[v]
  <1>1. CASE ~ op.now
    <2>1. ~ PaysNow
      BY <1>1 DEF PaysNow, Paying
    <2> QED
      BY <2>1, ReadyHas DEF CheckoutRows
  <1>2. CASE op.now
    <2>1. PaysNow
      BY <1>2 DEF PaysNow
    <2>2. PartOfShare(op.rest, v) = 0
      <3>1. PartOfShare({}, v) = Share(op.items, v)
        <4>1. {d \in Commodities : Owner[d] = v /\ d \notin {}} =
              {d \in Commodities : Owner[d] = v}
          OBVIOUS
        <4> QED
          BY <4>1 DEF PartOfShare, Share
      <3>2. Share(op.items, v) = 0
        BY <1>2, ReadyHas, NoShare
      <3> QED
        BY <3>1, <3>2, ReadyHas
    <2>3. book.balance[v] \in Nat
      BY RowsHave DEF TxInv, OrderTxTypeOK
    <2> QED
      BY <1>2, <2>1, <2>2, <2>3, ReadyHas DEF CheckoutRows
  <1> QED
    BY <1>1, <1>2, OperationHas DEF TxInv, OrderTxTypeOK

LEMMA CommitKeepsInv ==
  ASSUME FaultsChecked, TxInv, History, Commit
  PROVE  TxInv'
  <1>1. /\ op.at = "commit" /\ op' = Idle
        /\ UNCHANGED <<wallet, stock, crashes>>
        /\ WritesAll \/ StaysOpen \/ IsUndone
    BY CommitIs
  <1>2. Claims \subseteq {"placed", "paid", "cancelled"} \X Nat
    <2>1. op.order \in Nat /\ op.kind \in {"checkout", "pay", "cancel", "expire"}
      BY CommitIs, OperationHas DEF TxInv, OrderTxTypeOK
    <2>2. Claims \subseteq {"placed", "paid", "cancelled"} \X {op.order}
      <3>1. CASE op.kind = "checkout"
        BY <3>1 DEF Claims
      <3>2. CASE op.kind = "pay"
        BY <3>2 DEF Claims
      <3>3. CASE op.kind = "cancel"
        BY <3>3 DEF Claims
      <3>4. CASE op.kind = "expire"
        BY <3>4 DEF Claims
      <3> QED
        BY <2>1, <3>1, <3>2, <3>3, <3>4
    <2> QED
      BY <2>1, <2>2
  <1>3. OrderTxTypeOK'
    <2>1. CASE WritesAll
      BY <1>1, <1>2, <2>1, IdleIs DEF TxInv, OrderTxTypeOK, WritesAll
    <2>2. CASE StaysOpen
      BY <1>1, <2>2, IdleIs DEF TxInv, OrderTxTypeOK, StaysOpen
    <2>3. CASE IsUndone
      <3>1. astray' \subseteq Users
        <4>1. op.user \in Users
          BY <1>1, <2>3, ReadyHas DEF IsUndone, Users
        <4>2. {Owner[c] : c \in Contents(op.items)} \subseteq Users
          BY OrderBookAssumption DEF Contents, Users
        <4> QED
          BY <2>3, <4>1, <4>2 DEF IsUndone, TxInv, OrderTxTypeOK
      <3> QED
        BY <1>1, <2>3, <3>1, IdleIs DEF TxInv, OrderTxTypeOK, IsUndone
    <2> QED
      BY <1>1, <2>1, <2>2, <2>3
  <1>4. CheckoutInv' /\ PayInv' /\ CancelInv'
    BY <1>1, IdleIs DEF CheckoutInv, PayInv, CancelInv
  <1>5. OpenInv' /\ IdleInv'
    BY <1>1, IdleIs
       DEF OpenInv, IdleInv, WritesAll, StaysOpen, IsUndone
  <1>6. HeldInv'
    BY <1>1, IdleIs, ReadyHas
       DEF HeldInv, WritesAll, StaysOpen, IsUndone
  <1>7. WalletInv'
    <2>1. \A v \in Users \ astray : wallet[v] \in {None, db.balance[v]}
      BY <1>1 DEF TxInv, WalletInv, Debit, Paying
    <2>2. ASSUME NEW v \in Users \ astray' PROVE wallet[v] \in {None, db'.balance[v]}
      <3>1. CASE WritesAll \/ StaysOpen
        BY <2>1, <3>1 DEF WritesAll, StaysOpen
      <3>2. CASE IsUndone
        <4>1. v \in Users \ astray
          BY <3>2 DEF IsUndone
        <4>2. op.now => v # op.user /\ v \notin {Owner[c] : c \in Contents(op.items)}
          BY <3>2 DEF IsUndone
        <4>3. db.balance[v] = book.balance[v]
          BY <1>1, <3>2, <4>1, <4>2, OthersAsBefore DEF IsUndone
        <4> QED
          BY <2>1, <3>2, <4>1, <4>3 DEF IsUndone
      <3> QED
        BY <1>1, <3>1, <3>2
    <2> QED
      BY <1>1, <2>2, IdleIs DEF WalletInv, Debit
  <1> QED
    BY <1>3, <1>4, <1>5, <1>6, <1>7 DEF TxInv

LEMMA CrashKeepsInv ==
  ASSUME TxInv, History, Crash
  PROVE  /\ TxInv'
         /\ Restart /\ UNCHANGED confirmed
  <1>1. /\ op' = Idle /\ open' = FALSE /\ db' = book /\ book' = book
        /\ wallet' = [u \in Users |-> None]
        /\ stock' = [c \in Commodities |-> None]
        /\ confirmed' = confirmed /\ crashes' = crashes + 1
    BY DEF Crash
  <1>2. seen' = book /\ held' = FALSE /\ astray' = {} /\ crashes' \in Nat
    <2>1. crashes \in Nat
      BY DEF TxInv, OrderTxTypeOK
    <2>2. crashes' # crashes /\ crashes' \in Nat
      BY <1>1, <2>1
    <2>3. held' = FALSE
      BY <1>1 DEF History
    <2>4. seen' = book /\ astray' = {}
      BY <1>1, <2>2 DEF History
    <2> QED
      BY <2>2, <2>3, <2>4
  <1>3. OrderTxTypeOK'
    BY <1>1, <1>2, IdleIs DEF TxInv, OrderTxTypeOK
  <1>4. /\ OpenInv' /\ IdleInv' /\ HeldInv'
        /\ CheckoutInv' /\ PayInv' /\ CancelInv'
    BY <1>1, <1>2, IdleIs
       DEF OpenInv, IdleInv, HeldInv, CheckoutInv, PayInv, CancelInv
  <1>5. WalletInv'
    BY <1>1, IdleIs DEF WalletInv, Debit
  <1> QED
    BY <1>1, <1>2, <1>3, <1>4, <1>5 DEF TxInv, Restart

LEMMA InitHasInv ==
  ASSUME OrderTxInit
  PROVE  TxInv
  <1>1. EmptyBook \in Rows
    BY OrderBookAssumption DEF EmptyBook, Rows, NoItems, Bundle
  <1>2. OrderTxTypeOK
    BY <1>1, IdleIs DEF OrderTxInit, BookInit, OrderTxTypeOK
  <1> QED
    BY <1>2, IdleIs
       DEF OrderTxInit, BookInit, TxInv, OpenInv, IdleInv, HeldInv, CheckoutInv, PayInv, CancelInv,
           WalletInv, Debit

LEMMA NothingKeepsInv ==
  ASSUME TxInv, UNCHANGED orderTxVars
  PROVE  TxInv' /\ Unseen
  <1>1. UNCHANGED <<book, db, open, wallet, stock, op, confirmed,
                    seen, astray, held, crashes>>
    BY DEF orderTxVars, rowVars, objectVars, counters, histories
  <1>2. OrderTxTypeOK' /\ OpenInv' /\ IdleInv' /\ HeldInv' /\ WalletInv'
    BY <1>1 DEF TxInv, OrderTxTypeOK, OpenInv, IdleInv, HeldInv, WalletInv, Debit
  <1>3. CheckoutInv'
    <2>1. /\ \A v : PartOfShare(op.rest, v)' = PartOfShare(op.rest, v)
          /\ ItemsSoFar' = ItemsSoFar /\ StatusSoFar' = StatusSoFar
          /\ PaysNow' = PaysNow
      BY <1>1 DEF PartOfShare, ItemsSoFar, Missing, Current, StatusSoFar, PaysNow
    <2>2. CheckoutControl' = CheckoutControl
      BY <1>1, <2>1 DEF CheckoutControl, Covers
    <2>3. CheckoutRows' = CheckoutRows
      BY <1>1, <2>1 DEF CheckoutRows
    <2> QED
      BY <1>1, <2>2, <2>3 DEF TxInv, CheckoutInv
  <1>4. PayInv'
    BY <1>1 DEF TxInv, PayInv, PayControl, PayRows, Covers
  <1>5. CancelInv'
    <2>1. Done' = Done /\ Waiting' = Waiting
      BY <1>1 DEF Done, Waiting
    <2>2. \A c : Returned(c)' = Returned(c)
      BY <1>1, <2>1 DEF Returned, Held
    <2> QED
      BY <1>1, <2>1, <2>2 DEF TxInv, CancelInv, CancelControl, CancelRows
  <1> QED
    BY <1>1, <1>2, <1>3, <1>4, <1>5 DEF TxInv, Unseen


-----------------------------------------------------------------------------
(* What COMMIT commits. *)

LEMMA TwoFieldsWritten ==
  ASSUME NEW r \in Rows, NEW a, NEW b
  PROVE  /\ [r EXCEPT !.orders = a, !.storage = b] =
              [balance |-> r.balance, storage |-> b, cart |-> r.cart, orders |-> a]
         /\ [r EXCEPT !.orders = a, !.balance = b] =
              [balance |-> b, storage |-> r.storage, cart |-> r.cart, orders |-> a]
  <1>1. PICK s : s = [r EXCEPT !.orders = a]
    OBVIOUS
  <1>2. s = [balance |-> r.balance, storage |-> r.storage, cart |-> r.cart,
             orders |-> a]
    BY <1>1 DEF Rows
  <1>3. /\ [r EXCEPT !.orders = a, !.storage = b] = [s EXCEPT !.storage = b]
        /\ [r EXCEPT !.orders = a, !.balance = b] = [s EXCEPT !.balance = b]
    BY <1>1
  <1>4. /\ [s EXCEPT !.storage = b] =
             [balance |-> r.balance, storage |-> b, cart |-> r.cart, orders |-> a]
        /\ [s EXCEPT !.balance = b] =
             [balance |-> b, storage |-> r.storage, cart |-> r.cart, orders |-> a]
    BY <1>2
  <1> QED
    BY <1>3, <1>4

LEMMA PlacedIs ==
  ASSUME seen \in Rows, NEW u \in Consumers, NEW status, NEW r \in Rows,
         r.storage = Taken(seen.storage, seen.cart[u]),
         r.cart = [seen.cart EXCEPT ![u] = NoItems],
         r.orders = Append(seen.orders, Order(u, status, seen.cart[u]))
  PROVE  Placed(u, status) =
           [balance |-> seen.balance, storage |-> r.storage, cart |-> r.cart,
            orders |-> r.orders]
  <1>1. PICK balance, storage, cart, orders :
          /\ balance = seen.balance /\ storage = seen.storage
          /\ cart = seen.cart /\ orders = seen.orders
    OBVIOUS
  <1>2. PICK s : s = seen
    OBVIOUS
  <1>3. s = [balance |-> balance, storage |-> storage, cart |-> cart,
             orders |-> orders]
    BY <1>1, <1>2 DEF Rows
  <1>4. PICK taken : taken = r.storage
    OBVIOUS
  <1>5. PICK emptied : emptied = r.cart
    OBVIOUS
  <1>6. PICK grown : grown = r.orders
    OBVIOUS
  <1>7. Placed(u, status) =
          [s EXCEPT !.orders = grown, !.storage = taken, !.cart = emptied]
    <2>1. PICK row : row = [user |-> u, status |-> status, items |-> seen.cart[u]]
      OBVIOUS
    <2>2. Placed(u, status) =
            [s EXCEPT !.orders = Append(@, row),
                      !.storage = Taken(@, seen.cart[u]),
                      !.cart = [@ EXCEPT ![u] = NoItems]]
      BY <1>2, <2>1, Zenon DEF Placed
    <2>3. /\ grown = Append(s.orders, row)
          /\ taken = Taken(s.storage, seen.cart[u])
          /\ emptied = [s.cart EXCEPT ![u] = NoItems]
      BY <1>2, <1>4, <1>5, <1>6, <2>1 DEF Order
    <2>4. PICK v : v = seen.cart[u]
      OBVIOUS
    <2>5. [s EXCEPT !.orders = Append(@, row), !.storage = Taken(@, v),
                    !.cart = [@ EXCEPT ![u] = NoItems]] =
            [s EXCEPT !.orders = Append(s.orders, row), !.storage = Taken(s.storage, v),
                      !.cart = [s.cart EXCEPT ![u] = NoItems]]
      BY <1>3
    <2> QED
      BY <2>2, <2>3, <2>4, <2>5
  <1>8. [s EXCEPT !.orders = grown, !.storage = taken, !.cart = emptied] =
          [balance |-> balance, storage |-> taken, cart |-> emptied, orders |-> grown]
    <2>1. PICK s1 : s1 = [s EXCEPT !.orders = grown]
      OBVIOUS
    <2>2. PICK s2 : s2 = [s1 EXCEPT !.storage = taken]
      OBVIOUS
    <2>3. s1 = [balance |-> balance, storage |-> storage, cart |-> cart,
                orders |-> grown]
      BY <1>3, <2>1
    <2>4. s2 = [balance |-> balance, storage |-> taken, cart |-> cart,
                orders |-> grown]
      BY <2>2, <2>3
    <2>5. [s2 EXCEPT !.cart = emptied] =
            [balance |-> balance, storage |-> taken, cart |-> emptied,
             orders |-> grown]
      BY <2>4
    <2> QED
      BY <2>1, <2>2, <2>5
  <1> QED
    BY <1>1, <1>4, <1>5, <1>6, <1>7, <1>8

LEMMA PlacedPaidIs ==
  ASSUME seen \in Rows, NEW u \in Consumers, NEW r \in Rows,
         r.storage = Taken(seen.storage, seen.cart[u]),
         r.cart = [seen.cart EXCEPT ![u] = NoItems],
         r.orders = Append(seen.orders, Order(u, "PAID", seen.cart[u]))
  PROVE  [Placed(u, "PAID") EXCEPT !.balance = Settled(@, u, seen.cart[u])] =
           [balance |-> Settled(seen.balance, u, seen.cart[u]),
            storage |-> r.storage, cart |-> r.cart, orders |-> r.orders]
  <1>1. PICK p : p = Placed(u, "PAID")
    OBVIOUS
  <1>2. PICK balance : balance = Settled(seen.balance, u, seen.cart[u])
    OBVIOUS
  <1>3. p = [balance |-> seen.balance, storage |-> r.storage, cart |-> r.cart,
             orders |-> r.orders]
    BY <1>1, PlacedIs
  <1>4. [p EXCEPT !.balance = balance] =
          [balance |-> balance, storage |-> r.storage, cart |-> r.cart,
           orders |-> r.orders]
    <2>1. PICK old, storage, cart, orders :
            /\ old = seen.balance /\ storage = r.storage
            /\ cart = r.cart /\ orders = r.orders
      OBVIOUS
    <2>2. p = [balance |-> old, storage |-> storage, cart |-> cart, orders |-> orders]
      BY <1>3, <2>1
    <2>3. [p EXCEPT !.balance = balance] =
            [balance |-> balance, storage |-> storage, cart |-> cart,
             orders |-> orders]
      BY <2>2
    <2> QED
      BY <2>1, <2>3
  <1>5. [p EXCEPT !.balance = Settled(@, u, seen.cart[u])] =
          [p EXCEPT !.balance = balance]
    BY <1>2, <1>3
  <1> QED
    BY <1>1, <1>2, <1>4, <1>5

\* What all the goods bring a merchant is the share of the order.
LEMMA WholeShare ==
  \A m : PartOfShare({}, m) = Share(op.items, m)
  <1> TAKE m
  <1>1. {d \in Commodities : Owner[d] = m /\ d \notin {}} =
        {d \in Commodities : Owner[d] = m}
    OBVIOUS
  <1> QED
    BY <1>1 DEF PartOfShare, Share

LEMMA CheckoutCommits ==
  ASSUME FaultsChecked, TxInv, History, Commit, op.kind = "checkout"
  PROVE  UNCHANGED bookVars \/
         \E u \in Consumers : Place(u) \/ PlacePaid(u) \/ PlaceUndone(u)
  <1> DEFINE u == op.user
  <1>1. /\ op.at = "commit" /\ seen = book
        /\ CheckoutControl /\ CheckoutRows
        /\ op \in Operation /\ db \in Rows /\ seen \in Rows
        /\ WritesAll \/ StaysOpen \/ IsUndone
    BY CommitIs, ReadyHas DEF TxInv, OrderTxTypeOK
  <1>2. /\ u \in Consumers /\ u \notin Merchants
        /\ op.items = seen.cart[u] /\ op.items \in [Commodities -> Nat]
        /\ Contents(seen.cart[u]) # {} /\ op.rest = {}
    BY <1>1, ReadyHas
  <1>3. op.now \in BOOLEAN
    BY <1>1, OperationHas
  <1>4. /\ db.cart = [seen.cart EXCEPT ![u] = NoItems]
        /\ db.orders = Append(seen.orders,
                              Order(u, StatusSoFar, seen.cart[u]))
        /\ db.storage = Taken(seen.storage, seen.cart[u])
    <2>1. Taken(seen.storage, op.items) =
            [c \in Commodities |-> Taken(seen.storage, op.items)[c]]
      BY DEF Taken
    <2> QED
      BY <1>1, <1>2, <2>1, ReadyHas DEF CheckoutRows, CartIsFull, Early, Entering
  <1>5. op.now => Covers(u, Total(seen.cart[u]))
    BY <1>1, <1>2 DEF CheckoutControl, PaysNow
  <1>6. WritesAll \/ StaysOpen => seen' = db /\ UNCHANGED astray /\ (Written \/ Waits)
    BY DEF WritesAll, StaysOpen, Written, Waits
  <1>7. CASE (WritesAll \/ StaysOpen) /\ ~ op.now
    <2>1. StatusSoFar = "PENDING" /\ ~ PaysNow
      BY <1>1, <1>7 DEF StatusSoFar, PaysNow, Paying
    <2>2. db.balance = seen.balance
      BY <1>1, <2>1 DEF CheckoutRows
    <2>3. Placed(u, "PENDING") =
            [balance |-> seen.balance, storage |-> db.storage, cart |-> db.cart,
             orders |-> db.orders]
      <3>1. PICK w : w = u
        OBVIOUS
      <3>2. PICK r : r = db
        OBVIOUS
      <3>3. /\ w \in Consumers /\ seen \in Rows /\ r \in Rows
            /\ r.storage = Taken(seen.storage, seen.cart[w])
            /\ r.cart = [seen.cart EXCEPT ![w] = NoItems]
            /\ r.orders = Append(seen.orders, Order(w, "PENDING", seen.cart[w]))
        BY <1>1, <1>2, <1>4, <2>1, <3>1, <3>2
      <3>4. Placed(w, "PENDING") =
              [balance |-> seen.balance, storage |-> r.storage, cart |-> r.cart,
               orders |-> r.orders]
        BY <3>3, PlacedIs, ZenonT(60)
      <3> QED
        BY <3>1, <3>2, <3>4
    <2>4. Becomes(Placed(u, "PENDING"))
      BY <1>1, <1>6, <1>7, <2>2, <2>3, BecomesThese
    <2>5. Place(u)
      BY <1>1, <1>2, <1>6, <1>7, <2>4 DEF Place
    <2> QED
      BY <1>2, <2>5
  <1>8. CASE (WritesAll \/ StaysOpen) /\ op.now
    <2>1. StatusSoFar = "PAID" /\ PaysNow
      BY <1>1, <1>8 DEF StatusSoFar, PaysNow
    <2> DEFINE balance == Settled(seen.balance, u, seen.cart[u])
               placed == [Placed(u, "PAID") EXCEPT !.balance = Settled(@, u, seen.cart[u])]
    <2>2. \A v \in Users \ astray : db.balance[v] = balance[v]
      BY <1>1, <1>2, <2>1, WholeShare DEF CheckoutRows, Settled
    <2>3. placed = [balance |-> balance, storage |-> db.storage,
                    cart |-> db.cart, orders |-> db.orders]
      BY <1>1, <1>2, <1>4, <2>1, PlacedPaidIs
    <2>4. placed = [Placed(u, "PAID") EXCEPT !.balance = Settled(@, u, seen.cart[u])]
      OBVIOUS
    <2> HIDE DEF balance, placed
    <2>5. Becomes(placed)
      BY <1>1, <1>6, <1>8, <2>2, <2>3, BecomesThese
    <2>6. PlacePaid(u)
      BY <1>1, <1>5, <1>6, <1>8, <2>4, <2>5 DEF PlacePaid
    <2> QED
      BY <1>2, <2>6
  <1>9. CASE IsUndone /\ ~ op.now
    BY <1>1, <1>9 DEF IsUndone, bookVars
  <1>10. CASE IsUndone /\ op.now
    <2>1. PlaceUndone(u)
      BY <1>1, <1>2, <1>5, <1>10 DEF IsUndone, PlaceUndone
    <2> QED
      BY <1>2, <2>1
  <1> QED
    BY <1>1, <1>3, <1>7, <1>8, <1>9, <1>10

LEMMA PayCommits ==
  ASSUME FaultsChecked, TxInv, History, Commit, op.kind = "pay"
  PROVE  \E i \in DOMAIN seen.orders : Pay(i)
  <1> DEFINE i == op.order
             o == seen.orders[i]
             paid == Order(o.user, "PAID", o.items)
  <1>1. /\ op.at = "commit" /\ seen' = db /\ book' = db /\ astray' = astray
        /\ PayControl /\ PayRows
        /\ op \in Operation /\ db \in Rows /\ seen \in Rows
    BY CommitIs
       DEF TxInv, OrderTxTypeOK, PayInv, WritesAll, StaysOpen, IsUndone
  <1>2. /\ i \in DOMAIN seen.orders /\ o = Order(op.user, "PENDING", op.items)
        /\ op.rest = {} /\ op.user \in Consumers /\ op.user \notin Merchants
        /\ Covers(op.user, Total(op.items))
        /\ seen.orders \in Seq(OrderRow)
    BY <1>1, OrderBookAssumption, RowsHave DEF PayControl
  <1>3. /\ o.user = op.user /\ o.items = op.items /\ o.status = "PENDING"
        /\ o \in OrderRow
    BY <1>2 DEF Order
  <1> DEFINE settled == Settled(seen.balance, o.user, o.items)
  <1>4. /\ db.cart = seen.cart /\ db.storage = seen.storage
        /\ db.orders = [seen.orders EXCEPT ![i] = paid]
        /\ \A v \in Users \ astray : db.balance[v] = settled[v]
    BY <1>1, <1>2, <1>3 DEF PayRows, Settled
  <1>5. paid = [o EXCEPT !.status = "PAID"]
    BY <1>3 DEF Order, OrderRow
  <1>6. Pay(i)
    <2> DEFINE p == [seen EXCEPT !.orders[i].status = "PAID",
                                 !.balance = Settled(@, o.user, o.items)]
    <2>1. PICK row : row = paid
      OBVIOUS
    <2>2. PICK balance : balance = settled
      OBVIOUS
    <2>3. PICK orders : orders = [seen.orders EXCEPT ![i] = row]
      OBVIOUS
    <2>4. p = [seen EXCEPT !.orders = orders, !.balance = balance]
      BY <1>1, <1>5, <2>1, <2>2, <2>3 DEF Rows
    <2>5. p = [seen EXCEPT !.orders[i].status = "PAID",
                           !.balance = Settled(@, o.user, o.items)]
      OBVIOUS
    <2> HIDE DEF p
    <2>6. p = [balance |-> balance, storage |-> seen.storage,
               cart |-> seen.cart, orders |-> orders]
      BY <1>1, <2>4, TwoFieldsWritten
    <2>7. p = [balance |-> balance, storage |-> db.storage, cart |-> db.cart,
               orders |-> db.orders]
      BY <1>4, <2>1, <2>3, <2>6
    <2>8. \A v \in Users \ astray : db.balance[v] = balance[v]
      BY <1>4, <2>2
    <2>9. Becomes(p)
      BY <1>1, <2>7, <2>8, BecomesThese
    <2> QED
      BY <1>1, <1>2, <1>3, <2>5, <2>9 DEF Pay, Written
  <1> QED
    BY <1>2, <1>6

LEMMA CancelCommits ==
  ASSUME FaultsChecked, TxInv, History, Commit, op.kind \in {"cancel", "expire"}
  PROVE  \E S \in SUBSET DOMAIN seen.orders : Cancel(S)
  <1> DEFINE cancelled == [i \in DOMAIN seen.orders |->
                IF i \in Done THEN [seen.orders[i] EXCEPT !.status = "CANCELLED"]
                              ELSE seen.orders[i]]
             restored == [c \in Commodities |-> seen.storage[c] +
                            SumOf([i \in Done |-> seen.orders[i].items[c]])]
  <1>1. /\ op.at = "commit" /\ seen' = db /\ book' = db /\ astray' = astray
        /\ CancelControl /\ CancelRows
        /\ op \in Operation /\ db \in Rows /\ seen \in Rows
    BY CommitIs
       DEF TxInv, OrderTxTypeOK, CancelInv, WritesAll, StaysOpen, IsUndone
  <1>2. /\ Done \in SUBSET DOMAIN seen.orders /\ op.order \in Done
        /\ \A i \in Done : seen.orders[i].status = "PENDING"
    BY <1>1 DEF CancelControl, CancelRows, Done
  <1>3. db.orders = cancelled
    <2>1. /\ db.orders \in Seq(OrderRow) /\ seen.orders \in Seq(OrderRow)
          /\ DOMAIN db.orders = DOMAIN seen.orders
          /\ db.orders = [i \in DOMAIN db.orders |-> db.orders[i]]
      BY <1>1, RowsHave DEF CancelRows
    <2>2. ASSUME NEW i \in DOMAIN seen.orders PROVE db.orders[i] = cancelled[i]
      <3>1. CASE i \in Done
        <4>1. seen.orders[i] \in OrderRow
          BY <2>1
        <4>2. [seen.orders[i] EXCEPT !.status = "CANCELLED"] =
                Order(seen.orders[i].user, "CANCELLED", seen.orders[i].items)
          BY <4>1 DEF OrderRow, Order
        <4> QED
          BY <1>1, <3>1, <4>2 DEF CancelRows
      <3>2. CASE i \notin Done
        BY <3>2 DEF Done
      <3> QED
        BY <3>1, <3>2
    <2> QED
      BY <2>1, <2>2
  <1>4. db.storage = restored
    <2>1. \A c \in Commodities : Returned(c) =
                                   SumOf([i \in Done |-> seen.orders[i].items[c]])
      BY <1>1, HeldIs DEF Returned, Held, Done
    <2> QED
      BY <1>1, <2>1 DEF CancelRows
  <1>5. db.cart = seen.cart /\ db.balance = seen.balance
    BY <1>1 DEF CancelRows
  <1>6. Cancel(Done)
    <2> DEFINE p == [seen EXCEPT !.orders = cancelled, !.storage = restored]
    <2>1. p = [balance |-> seen.balance, storage |-> db.storage,
               cart |-> db.cart, orders |-> db.orders]
      <3>1. PICK orders, storage : orders = cancelled /\ storage = restored
        OBVIOUS
      <3>2. p = [seen EXCEPT !.orders = orders, !.storage = storage]
        BY <3>1
      <3> HIDE DEF p
      <3>3. p = [balance |-> seen.balance, storage |-> storage,
                 cart |-> seen.cart, orders |-> orders]
        BY ZenonT(60), <1>1, <3>2, TwoFieldsWritten
      <3> QED
        BY <1>3, <1>4, <1>5, <3>1, <3>3
    <2>2. /\ cancelled = [i \in DOMAIN seen.orders |->
               IF i \in Done THEN [seen.orders[i] EXCEPT !.status = "CANCELLED"]
                             ELSE seen.orders[i]]
          /\ restored = [c \in Commodities |-> seen.storage[c] +
                            SumOf([i \in Done |-> seen.orders[i].items[c]])]
          /\ p = [seen EXCEPT !.orders = cancelled, !.storage = restored]
      OBVIOUS
    <2> HIDE DEF p
    <2>3. Becomes(p)
      BY <1>1, <1>5, <2>1, BecomesThese
    <2>4. Written
      BY <1>1 DEF Written
    <2> QED
      BY <1>2, <2>2, <2>3, <2>4 DEF Cancel
  <1> QED
    BY <1>2, <1>6


-----------------------------------------------------------------------------
(* Every step. *)

LEMMA CreditKeepsInv ==
  ASSUME FaultsChecked, TxInv, History, NEW x, CreditMerchant(x)
  PROVE  TxInv' /\ Unseen
  <1>1. op.kind \in {"checkout", "pay"}
    BY IdleIs
       DEF CreditMerchant, TxInv, OrderTxTypeOK, Operation, IdleInv, CancelInv,
           CancelControl
  <1> QED
    BY <1>1, CreditInCheckoutKeepsInv, CreditInPayKeepsInv

LEMMA MarkPaidKeepsInv ==
  ASSUME FaultsChecked, TxInv, History, MarkPaid
  PROVE  TxInv' /\ Unseen
  BY MarkPaidInCheckoutKeepsInv, MarkPaidInPayKeepsInv DEF MarkPaid

\* A step inside an operation keeps the invariant, and nobody sees it.
LEMMA InsideStep ==
  ASSUME FaultsChecked, TxInv, History, Checkout \/ Payment \/ Cancellation
  PROVE  TxInv' /\ Unseen
  <1>1. CASE Checkout
    BY <1>1, StartCheckoutKeepsInv, BeginCheckoutKeepsInv, InsertOrderKeepsInv,
       InsertItemKeepsInv, DeductStockKeepsInv, ClearCartKeepsInv,
       DebitBuyerKeepsInv
       DEF Checkout
  <1>2. CASE Payment
    BY <1>2, StartPayKeepsInv, BeginPayKeepsInv, CreditKeepsInv,
       MarkPaidKeepsInv, SaveBuyerKeepsInv
       DEF Payment
  <1>3. CASE Cancellation
    BY <1>3, StartCancelKeepsInv, StartExpireKeepsInv, BeginCancelKeepsInv,
       RestoreStockKeepsInv, MarkCancelledKeepsInv
       DEF Cancellation
  <1> QED
    BY <1>1, <1>2, <1>3

LEMMA CommitIsBookStep ==
  ASSUME FaultsChecked, TxInv, History, Commit
  PROVE  [BookNext]_bookVars
  <1>1. CASE op.kind = "checkout"
    BY <1>1, CheckoutCommits DEF BookNext
  <1>2. CASE op.kind = "pay"
    BY <1>2, PayCommits DEF BookNext
  <1>3. CASE op.kind \in {"cancel", "expire"}
    BY <1>3, CancelCommits DEF BookNext
  <1> QED
    BY <1>1, <1>2, <1>3, CommitIs

\* Every step keeps the invariant and is a step of OrderBook or none; only
\* COMMIT tells a client something.
LEMMA StepIsBookStep ==
  ASSUME FaultsChecked, TxInv, [OrderTxNext]_orderTxVars
  PROVE  /\ TxInv'
         /\ [BookNext]_bookVars
         /\ UNCHANGED confirmed \/ (History /\ Commit)
  <1>1. ASSUME History, NEW u \in Consumers, NEW c \in Commodities, PutInCart(u, c)
        PROVE  TxInv' /\ BookNext /\ UNCHANGED confirmed
    BY <1>1, PutInCartKeepsInv DEF BookNext
  <1>2. ASSUME History, NEW u \in Consumers, NEW n \in Amounts, TopUp(u, n)
        PROVE  TxInv' /\ BookNext /\ UNCHANGED confirmed
    BY <1>2, TopUpKeepsInv DEF BookNext, Users
  <1>3. CASE History /\ (Checkout \/ Payment \/ Cancellation)
    BY <1>3, InsideStep DEF Unseen, bookVars
  <1>4. CASE History /\ Commit
    BY <1>4, CommitKeepsInv, CommitIsBookStep
  <1>5. CASE History /\ Crash
    BY <1>5, CrashKeepsInv DEF BookNext
  <1>6. CASE UNCHANGED orderTxVars
    BY <1>6, NothingKeepsInv DEF Unseen, bookVars
  <1> QED
    BY <1>1, <1>2, <1>3, <1>4, <1>5, <1>6 DEF OrderTxNext, Step

-----------------------------------------------------------------------------
(* What clients have been told. *)

\* An order that requests find stays in the table, and is paid or cancelled
\* at most once.
OrdersStay ==
  \A i \in DOMAIN seen.orders :
    /\ i \in DOMAIN seen'.orders
    /\ \/ seen'.orders[i].status = seen.orders[i].status
       \/ seen.orders[i].status = "PENDING"

LEMMA OrdersAreKept ==
  ASSUME seen \in Rows, [BookNext]_bookVars
  PROVE  book' = book \/ (book' = seen' /\ OrdersStay)
  <1> DEFINE Kept == book' = book \/ (book' = seen' /\ OrdersStay)
  <1>1. /\ seen.orders \in Seq(OrderRow)
        /\ \A u \in Consumers : seen.cart[u] \in Bundle
    BY RowsHave
  <1>2. ASSUME NEW rows, Becomes(rows),
               DOMAIN rows = {"balance", "storage", "cart", "orders"}
        PROVE  seen'.orders = rows.orders
    BY <1>2 DEF Becomes
  <1>3. DOMAIN seen = {"balance", "storage", "cart", "orders"}
    BY DEF Rows
  <1>4. ASSUME seen'.orders = seen.orders, Written \/ Waits PROVE Kept
    BY <1>4 DEF OrdersStay, Written, Waits
  <1>5. ASSUME NEW u \in Users, NEW n \in Amounts, Recharge(u, n) PROVE Kept
    <2>1. seen'.orders = seen.orders
      BY <1>2, <1>3, <1>5 DEF Recharge
    <2> QED
      BY <1>4, <1>5, <2>1 DEF Recharge, WrittenInTurn
  <1>6. ASSUME NEW u \in Consumers, NEW c \in Commodities, AddItem(u, c) PROVE Kept
    <2>1. seen'.orders = seen.orders
      BY <1>2, <1>3, <1>6 DEF AddItem
    <2> QED
      BY <1>4, <1>6, <2>1 DEF AddItem, WrittenInTurn
  <1>7. ASSUME NEW u \in Consumers, NEW status \in {"PENDING", "PAID"},
               seen'.orders = Append(seen.orders,
                                     Order(u, status, seen.cart[u])),
               Written \/ Waits
        PROVE  Kept
    <2> DEFINE row == Order(u, status, seen.cart[u])
    <2>1. row \in OrderRow
      BY <1>1 DEF Order, OrderRow
    <2>2. seen'.orders = Append(seen.orders, row)
      BY <1>7
    <2> HIDE DEF row
    <2>3. OrdersStay
      BY <1>1, <2>1, <2>2 DEF OrdersStay
    <2> QED
      BY <1>7, <2>3 DEF Written, Waits
  <1>8. ASSUME NEW u \in Consumers, Place(u) PROVE Kept
    <2>1. Placed(u, "PENDING").orders =
            Append(seen.orders, Order(u, "PENDING", seen.cart[u]))
      BY <1>3 DEF Placed, Order
    <2>2. DOMAIN Placed(u, "PENDING") = {"balance", "storage", "cart", "orders"}
      BY <1>3 DEF Placed
    <2> QED
      BY <1>2, <1>7, <1>8, <2>1, <2>2 DEF Place
  <1>9. ASSUME NEW u \in Consumers, PlacePaid(u) PROVE Kept
    <2>1. PICK p : p = [Placed(u, "PAID") EXCEPT
                          !.balance = Settled(@, u, seen.cart[u])]
      OBVIOUS
    <2>2. /\ p.orders = Append(seen.orders, Order(u, "PAID", seen.cart[u]))
          /\ DOMAIN p = {"balance", "storage", "cart", "orders"}
      BY <1>3, <2>1 DEF Placed, Order
    <2> QED
      BY <1>2, <1>7, <1>9, <2>1, <2>2 DEF PlacePaid
  <1>10. ASSUME NEW u \in Consumers, PlaceUndone(u) PROVE Kept
    BY <1>10 DEF PlaceUndone
  <1>11. ASSUME NEW i \in DOMAIN seen.orders, Pay(i) PROVE Kept
    <2>1. PICK p : p = [seen EXCEPT !.orders[i].status = "PAID",
                          !.balance = Settled(@, seen.orders[i].user,
                                              seen.orders[i].items)]
      OBVIOUS
    <2>2. /\ p.orders = [seen.orders EXCEPT ![i].status = "PAID"]
          /\ DOMAIN p = {"balance", "storage", "cart", "orders"}
      BY <1>3, <2>1
    <2>3. /\ Becomes(p) /\ Written /\ seen.orders[i].status = "PENDING"
      BY <1>11, <2>1 DEF Pay
    <2>4. seen'.orders = [seen.orders EXCEPT ![i].status = "PAID"]
      BY <1>2, <2>2, <2>3
    <2>5. /\ DOMAIN seen'.orders = DOMAIN seen.orders
          /\ \A j \in DOMAIN seen.orders \ {i} : seen'.orders[j] = seen.orders[j]
      BY <1>1, <2>4
    <2> QED
      BY <2>3, <2>5 DEF OrdersStay, Written
  <1>12. ASSUME NEW S \in SUBSET DOMAIN seen.orders, Cancel(S) PROVE Kept
    <2> DEFINE orders == [i \in DOMAIN seen.orders |->
                  IF i \in S THEN [seen.orders[i] EXCEPT !.status = "CANCELLED"]
                             ELSE seen.orders[i]]
    <2>1. PICK p : p = [seen EXCEPT
                !.orders = orders,
                !.storage = [c \in Commodities |->
                               @[c] + SumOf([i \in S |-> seen.orders[i].items[c]])]]
      OBVIOUS
    <2>2. p.orders = orders /\ DOMAIN p = {"balance", "storage", "cart", "orders"}
      BY <1>3, <2>1
    <2>3. /\ Becomes(p) /\ Written
          /\ \A i \in S : seen.orders[i].status = "PENDING"
      BY <1>12, <2>1 DEF Cancel
    <2>4. seen'.orders = orders
      BY <1>2, <2>2, <2>3
    <2>5. /\ DOMAIN seen'.orders = DOMAIN seen.orders
          /\ \A j \in DOMAIN seen.orders \ S : seen'.orders[j] = seen.orders[j]
      BY <2>4
    <2> QED
      BY <2>3, <2>5 DEF OrdersStay, Written
  <1>13. ASSUME Restart \/ UNCHANGED bookVars PROVE Kept
    BY <1>13 DEF Restart, bookVars
  <1> HIDE DEF Kept
  <1>14. ASSUME BookNext PROVE Kept
    BY <1>5, <1>6, <1>8, <1>9, <1>10, <1>11, <1>12, <1>13, <1>14 DEF BookNext
  <1> QED
    BY <1>13, <1>14 DEF Kept

\* A claim is true of the rows that COMMIT writes.
LEMMA ClaimsAreTrue ==
  ASSUME TxInv, op.kind \in {"checkout", "pay", "cancel", "expire"},
         op.at = "commit", WritesAll, NEW claim \in Claims
  PROVE  /\ claim[2] \in DOMAIN book'.orders
         /\ claim[1] = "paid" => book'.orders[claim[2]].status = "PAID"
         /\ claim[1] = "cancelled" => book'.orders[claim[2]].status = "CANCELLED"
  <1>1. book' = db /\ seen \in Rows /\ book \in Rows /\ op \in Operation
    BY DEF TxInv, OrderTxTypeOK, WritesAll
  <1>2. CASE op.kind = "checkout"
    <2> DEFINE row == Order(op.user, StatusSoFar, op.items)
    <2>1. /\ db.orders = Append(book.orders, row)
          /\ op.order = Len(book.orders) + 1 /\ row \in OrderRow
      BY <1>2, ReadyHas
    <2>2. op.now => row.status = "PAID"
      BY DEF StatusSoFar, Order
    <2>3. claim \in {<<"placed", op.order>>} \cup
                    (IF op.now THEN {<<"paid", op.order>>} ELSE {})
      BY <1>2 DEF Claims
    <2> HIDE DEF row
    <2>4. op.order \in DOMAIN db.orders /\ db.orders[op.order] = row
      BY <1>1, <2>1, RowsHave, LastReplaced
    <2> QED
      BY <1>1, <2>2, <2>3, <2>4
  <1>3. CASE op.kind = "pay"
    <2>1. PayControl /\ PayRows
      BY <1>3 DEF TxInv, PayInv
    <2>2. /\ op.order \in DOMAIN db.orders
          /\ db.orders[op.order] = Order(op.user, "PAID", op.items)
      BY <1>1, <2>1, RowsHave DEF PayControl, PayRows
    <2>3. claim = <<"paid", op.order>>
      BY <1>3 DEF Claims
    <2> QED
      BY <1>1, <2>2, <2>3 DEF Order
  <1>4. CASE op.kind = "cancel"
    <2>1. CancelControl /\ CancelRows
      BY <1>4 DEF TxInv, CancelInv
    <2>2. op.order \in Done
      BY <1>1, <2>1 DEF CancelControl
    <2>3. /\ op.order \in DOMAIN db.orders
          /\ db.orders[op.order].status = "CANCELLED"
      <3>1. db.orders[op.order] = Order(seen.orders[op.order].user, "CANCELLED",
                                        seen.orders[op.order].items)
        BY <2>1, <2>2 DEF CancelRows
      <3>2. DOMAIN db.orders = DOMAIN seen.orders
        BY <1>1, <2>1, RowsHave DEF CancelRows, TxInv, OrderTxTypeOK
      <3> QED
        BY <2>2, <3>1, <3>2 DEF Done, Order
    <2>4. claim = <<"cancelled", op.order>>
      BY <1>4 DEF Claims
    <2> QED
      BY <1>1, <2>3, <2>4
  <1>5. CASE op.kind = "expire"
    BY <1>5 DEF Claims
  <1> QED
    BY <1>1, <1>2, <1>3, <1>4, <1>5

LEMMA StepKeepsTold ==
  ASSUME FaultsChecked, TxInv, ToldIsKept, [OrderTxNext]_orderTxVars
  PROVE  ToldIsKept'
  <1>1. book' = book \/ (book' = seen' /\ OrdersStay)
    BY StepIsBookStep, OrdersAreKept DEF TxInv, OrderTxTypeOK
  <1>2. \A i \in DOMAIN book.orders :
          i \in DOMAIN seen.orders /\ seen.orders[i] = book.orders[i]
    <2>1. CASE ~ held
      BY <2>1 DEF TxInv, HeldInv
    <2>2. CASE held
      BY <2>2, RowsHave DEF TxInv, HeldInv, OrderTxTypeOK
    <2> QED
      BY <2>1, <2>2
  <1>3. \A i \in DOMAIN book.orders :
          /\ i \in DOMAIN book'.orders
          /\ \/ book'.orders[i].status = book.orders[i].status
             \/ book.orders[i].status = "PENDING"
    BY <1>1, <1>2 DEF OrdersStay
  <1>4. ASSUME NEW claim \in confirmed
        PROVE  /\ claim[2] \in DOMAIN book'.orders
               /\ claim[1] = "paid" => book'.orders[claim[2]].status = "PAID"
               /\ claim[1] = "cancelled" =>
                    book'.orders[claim[2]].status = "CANCELLED"
    BY <1>3 DEF ToldIsKept
  <1>5. CASE confirmed' = confirmed
    BY <1>4, <1>5 DEF ToldIsKept
  <1>6. CASE History /\ Commit
    <2>1. CASE WritesAll
      <3>1. confirmed' = confirmed \cup Claims
        BY <2>1 DEF WritesAll
      <3>2. op.kind \in {"checkout", "pay", "cancel", "expire"} /\ op.at = "commit"
        BY <1>6, CommitIs
      <3> QED
        BY <1>4, <2>1, <3>1, <3>2, ClaimsAreTrue DEF ToldIsKept
    <2>2. CASE StaysOpen \/ IsUndone
      BY <1>5, <2>2 DEF StaysOpen, IsUndone
    <2> QED
      BY <1>6, <2>1, <2>2, CommitIs
  <1> QED
    BY <1>5, <1>6, StepIsBookStep

-----------------------------------------------------------------------------
(* The theorems.  They hold when only statements fail whose result checkout  *)
(* looks at, its COMMIT among them; README.md says what becomes of them      *)
(* otherwise.                                                                *)

THEOREM OrderTxInvariant ==
  ASSUME FaultsChecked
  PROVE  OrderTxSpec => [](TxInv /\ ToldIsKept)
  <1>1. OrderTxInit => TxInv /\ ToldIsKept
    BY InitHasInv DEF OrderTxInit, ToldIsKept
  <1>2. TxInv /\ ToldIsKept /\ [OrderTxNext]_orderTxVars => (TxInv /\ ToldIsKept)'
    BY StepIsBookStep, StepKeepsTold
  <1> QED
    BY <1>1, <1>2, PTL DEF OrderTxSpec

\* Every variable has its type in every state, and no operation of a user
\* finds less in a row or an object than it subtracts.
THEOREM OrderTxTypes ==
  ASSUME FaultsChecked
  PROVE  OrderTxSpec => []OrderTxTypeOK
  <1>1. TxInv /\ ToldIsKept => OrderTxTypeOK
    BY DEF TxInv
  <1> QED
    BY <1>1, OrderTxInvariant, PTL

\* What a client was told it has ordered, paid or cancelled is on disk and
\* stays there, through every crash and every statement that fails.
THEOREM OrderTxToldIsKept ==
  ASSUME FaultsChecked
  PROVE  OrderTxSpec => []ToldIsKept
  BY OrderTxInvariant, PTL

\* A transaction that is open between operations is that of a checkout whose
\* COMMIT failed; no other operation, however it ends, leaves one.
THEOREM OrderTxNothingLeftOpen ==
  ASSUME FaultsChecked
  PROVE  OrderTxSpec => []NothingLeftOpen
  <1>1. TxInv /\ ToldIsKept => NothingLeftOpen
    BY SameRowsAsSeen DEF NothingLeftOpen
  <1> QED
    BY <1>1, OrderTxInvariant, PTL

\* Between operations the object of a user has the balance of the row, but
\* for those whom a failing COMMIT of an immediate payment has led astray.
THEOREM OrderTxWalletsFollowRows ==
  ASSUME FaultsChecked
  PROVE  OrderTxSpec => []WalletsFollowRows
  <1>1. TxInv /\ ToldIsKept => WalletsFollowRows
    BY SameRowsAsSeen DEF WalletsFollowRows
  <1> QED
    BY <1>1, OrderTxInvariant, PTL

\* The rows, on disk and as requests find them, change as if every operation
\* happened at once: its statements, their failures and the crashes between
\* them implement one step of OrderBook or none.
THEOREM OrderTxImplementsOrderBook ==
  ASSUME FaultsChecked
  PROVE  OrderTxSpec => RowsAtomic
  <1>1. OrderTxInit => BookInit
    BY DEF OrderTxInit
  <1>2. TxInv /\ ToldIsKept /\ [OrderTxNext]_orderTxVars => [BookNext]_bookVars
    BY StepIsBookStep
  <1> QED
    BY <1>1, <1>2, OrderTxInvariant, PTL DEF OrderTxSpec, RowsAtomic, BookSpec

=============================================================================
