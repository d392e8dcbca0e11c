------------------------------- MODULE OrderTx -------------------------------
(***************************************************************************)
(* checkout, payOrder, cancelOrder and cancelExpiredOrders of              *)
(* src/src/OrderManager.cpp, statement by statement: what the connection   *)
(* sees, what is on disk, the objects, and the transaction between them.   *)
(* A statement may fail and the server may crash between any two steps.    *)
(* seen, astray and held are history: the rows as the last operation left  *)
(* them to the connection, and what a failed COMMIT of checkout leaves.    *)
(* The operations run one at a time, under _dataMutex.                     *)
(*                                                                         *)
(* As in OrderBook a unit of any commodity costs 1.                        *)
(***************************************************************************)
EXTENDS OrderBook

CONSTANTS
  Faulty,      \* the statements that may fail, as <<operation, step>>
  MaxFailures, \* bound: how many do
  MaxCrashes,  \* bound: the crashes of the server
  MaxOrders,   \* bound: the orders
  MaxQuantity, \* bound: the units of a commodity in a cart
  MaxDeposit,  \* bound: what a user has, to recharge
  None

ASSUME OrderTxAssumption ==
  /\ None \notin Int
  /\ {MaxFailures, MaxCrashes, MaxOrders, MaxQuantity, MaxDeposit} \subseteq Nat

VARIABLES
  db,        \* the rows as the connection sees them; book has the committed ones
  open,      \* a transaction is open
  wallet,    \* _balance of the users' objects, None when not loaded
  stock,     \* _storage of the goods' objects, None when not loaded
  op,        \* the operation that runs and where it is
  confirmed, \* history: what clients have been told has happened
  held,      \* history: the transaction of a checkout whose COMMIT failed is open
  failures,
  crashes

rowVars == <<book, db, open>>
objectVars == <<wallet, stock>>
counters == <<failures, crashes>>
histories == <<seen, astray, held>>
orderTxVars == <<rowVars, objectVars, op, confirmed, counters, histories>>

\* An operation: its kind, its user, whether it pays at once, the order it is
\* at with its items, the orders still to come, and the goods or merchants
\* still to come for the loop it is in.
Idle ==
  [kind |-> "none", at |-> "none", user |-> None, now |-> FALSE, order |-> 0,
   items |-> NoItems, left |-> {}, rest |-> {}]

Operation ==
  [kind : {"none", "checkout", "pay", "cancel", "expire"},
   at : {"none", "begin", "order", "item", "stock", "clear", "debit", "credit",
         "restore", "status", "save", "commit"},
   user : Consumers \cup {None}, now : BOOLEAN, order : Nat, items : Bundle,
   left : SUBSET Nat, rest : SUBSET (Commodities \cup Merchants)]

OrderTxTypeOK ==
  /\ book \in Rows /\ db \in Rows /\ seen \in Rows
  /\ open \in BOOLEAN
  /\ ~ open => db = book
  /\ wallet \in [Users -> Nat \cup {None}]
  /\ stock \in [Commodities -> Nat \cup {None}]
  /\ op \in Operation
  /\ confirmed \subseteq {"placed", "paid", "cancelled"} \X Nat
  /\ held \in BOOLEAN
  /\ astray \subseteq Users
  /\ crashes \in Nat

OrderTxInit ==
  /\ BookInit
  /\ db = EmptyBook
  /\ open = FALSE /\ held = FALSE
  /\ wallet = [u \in Users |-> None]
  /\ stock = [c \in Commodities |-> None]
  /\ op = Idle
  /\ confirmed = {}
  /\ failures = 0 /\ crashes = 0

-----------------------------------------------------------------------------
(* SQLite, as this code uses it. *)

\* A statement takes effect, at once when there is no transaction.
Executes(rows) ==
  /\ db' = rows
  /\ book' = IF open THEN book ELSE rows
  /\ UNCHANGED <<open, failures>>

MayFail ==
  /\ <<op.kind, op.at>> \in Faulty
  /\ failures < MaxFailures
  /\ failures' = failures + 1

\* A statement fails and has no effect; for some errors, a full disk among
\* them, SQLite rolls the transaction back as well.
Fails ==
  /\ MayFail
  /\ \/ UNCHANGED rowVars
     \/ open /\ open' = FALSE /\ db' = book /\ UNCHANGED book

\* A statement whose result the code does not look at.
Attempted(rows) == Executes(rows) \/ Fails

NotRolledBack == UNCHANGED rowVars \* mutant: an error path without ROLLBACK

RolledBack == open' = FALSE /\ db' = book /\ UNCHANGED book

\* ROLLBACK and an error for the client.
Abandoned == RolledBack /\ op' = Idle

Goes(at) == op' = [op EXCEPT !.at = at]

-----------------------------------------------------------------------------
(* The objects: getUserById, getCommodityByName and the like load what they  *)
(* do not find.                                                              *)

Balance(u) == IF wallet[u] = None THEN db.balance[u] ELSE wallet[u]

Stock(c) == IF stock[c] = None THEN db.storage[c] ELSE stock[c]

CanPay(u, amount) == amount \in 1..Balance(u)

Debited(u, amount) == wallet' = [wallet EXCEPT ![u] = Balance(u) - amount]

-----------------------------------------------------------------------------
(* Other requests of the users, each of one statement. *)

PutInCart(u, c) ==
  /\ op = Idle
  /\ db.cart[u][c] < MaxQuantity
  /\ db.cart[u][c] < Stock(c)
  /\ Executes([db EXCEPT !.cart[u][c] = @ + 1])
  /\ stock' = [stock EXCEPT ![c] = Stock(c)]
  /\ UNCHANGED <<wallet, op, confirmed, crashes>>

TopUp(u, n) ==
  /\ op = Idle
  /\ Balance(u) + n <= MaxDeposit
  /\ wallet' = [wallet EXCEPT ![u] = Balance(u) + n]
  /\ Executes([db EXCEPT !.balance[u] = Balance(u) + n])
  /\ UNCHANGED <<stock, op, confirmed, crashes>>

-----------------------------------------------------------------------------
(* checkout. *)

StartCheckout(u, now) ==
  LET items == db.cart[u]
  IN  /\ op = Idle
      /\ Len(db.orders) < MaxOrders
      /\ Contents(items) # {}
      /\ \A c \in Contents(items) : items[c] <= Stock(c)
      /\ stock' = [c \in Commodities |->
                     IF items[c] > 0 THEN Stock(c) ELSE stock[c]]
      /\ op' = [Idle EXCEPT !.kind = "checkout", !.at = "begin", !.user = u,
                            !.now = now, !.items = items]
      /\ UNCHANGED <<rowVars, wallet, confirmed, counters>>

BeginCheckout ==
  /\ op.kind = "checkout" /\ op.at = "begin"
  /\ \/ ~ open /\ open' = TRUE /\ Goes("order") /\ UNCHANGED failures
     \/ open /\ op' = Idle /\ UNCHANGED <<open, failures>>
     \/ MayFail /\ op' = Idle /\ UNCHANGED open
  /\ UNCHANGED <<book, db, objectVars, confirmed, crashes>>

InsertOrder ==
  /\ op.at = "order"
  /\ \/ /\ Executes([db EXCEPT !.orders =
                       Append(@, [user |-> op.user, status |-> "PENDING",
                                  items |-> NoItems])])
        /\ op' = [op EXCEPT !.at = "item", !.order = Len(db.orders) + 1,
                            !.rest = Contents(op.items)]
     \/ MayFail /\ Abandoned
  /\ UNCHANGED <<objectVars, confirmed, crashes>>

\* The item the loop is at.
Current == CHOOSE c \in op.rest : TRUE

InsertItem ==
  /\ op.at = "item"
  /\ \/ /\ Executes([db EXCEPT !.orders[op.order].items[Current] = op.items[Current]])
        /\ Goes("stock")
     \/ MayFail /\ Abandoned
  /\ UNCHANGED <<objectVars, confirmed, crashes>>

DeductStock ==
  /\ op.at = "stock"
  /\ \/ /\ Executes([db EXCEPT !.storage[Current] =
                       IF @ >= op.items[Current] THEN @ - op.items[Current] ELSE @])
        /\ op' = [op EXCEPT !.at = IF op.rest = {Current} THEN "clear" ELSE "item",
                            !.rest = @ \ {Current}]
     \/ MayFail /\ Abandoned
  /\ UNCHANGED <<objectVars, confirmed, crashes>>

\* The cart is emptied, then the objects get their new stock.
ClearCart ==
  /\ op.at = "clear"
  /\ Attempted([db EXCEPT !.cart[op.user] = NoItems])
  /\ stock' = [c \in Commodities |->
                 IF op.items[c] > 0 THEN Stock(c) - op.items[c] ELSE stock[c]]
  /\ Goes(IF op.now THEN "debit" ELSE "commit")
  /\ UNCHANGED <<wallet, confirmed, crashes>>

DebitBuyer ==
  /\ op.at = "debit"
  /\ \/ /\ CanPay(op.user, Total(op.items))
        /\ Debited(op.user, Total(op.items))
        /\ op' = [op EXCEPT !.at = "credit", !.rest = Contents(op.items)]
        /\ UNCHANGED rowVars
     \/ ~ CanPay(op.user, Total(op.items)) /\ Abandoned /\ UNCHANGED wallet
  /\ UNCHANGED <<stock, confirmed, counters>>

-----------------------------------------------------------------------------
(* payOrder, and what checkout with immediate payment shares with it. *)

StartPay(u, i) ==
  LET o == db.orders[i]
  IN  /\ op = Idle
      /\ o.user = u /\ o.status = "PENDING"
      /\ CanPay(u, Total(o.items))
      /\ Debited(u, Total(o.items))
      /\ op' = [Idle EXCEPT !.kind = "pay", !.at = "begin", !.user = u,
                            !.order = i, !.items = o.items,
                            !.rest = {Owner[c] : c \in Contents(o.items)}]
      /\ UNCHANGED <<rowVars, stock, confirmed, counters>>

NotBegun == UNCHANGED <<open, failures>> \* mutant: no BEGIN

\* BEGIN, whose result payOrder, cancelOrder and cancelExpiredOrders ignore.
Begun ==
  \/ ~ open /\ open' = TRUE /\ UNCHANGED failures
  \/ open /\ UNCHANGED <<open, failures>>
  \/ MayFail /\ UNCHANGED open

BeginPay ==
  /\ op.kind = "pay" /\ op.at = "begin"
  /\ Begun
  /\ Goes("credit")
  /\ UNCHANGED <<book, db, objectVars, confirmed, crashes>>

\* checkout goes through the items, payOrder through the merchants.
Payee(x) == IF op.kind = "pay" THEN x ELSE Owner[x]

Due(x) == IF op.kind = "pay" THEN Share(op.items, x) ELSE op.items[x]

CreditMerchant(x) ==
  LET m == Payee(x)
      amount == Balance(m) + Due(x)
  IN  /\ op.at = "credit" /\ x \in op.rest
      /\ wallet' = [wallet EXCEPT ![m] = amount]
      /\ Attempted([db EXCEPT !.balance[m] = amount])
      /\ op' = [op EXCEPT !.rest = @ \ {x},
                          !.at = IF op.rest = {x} THEN "status" ELSE "credit"]
      /\ UNCHANGED <<stock, confirmed, crashes>>

\* UPDATE orders SET status, which matches no row when the order is gone.
WithStatus(i, status) ==
  IF i \in DOMAIN db.orders THEN [db EXCEPT !.orders[i].status = status] ELSE db

MarkPaid ==
  /\ op.kind \in {"checkout", "pay"} /\ op.at = "status"
  /\ Attempted(WithStatus(op.order, "PAID"))
  /\ Goes("save")
  /\ UNCHANGED <<objectVars, confirmed, crashes>>

BuyerNotSaved == db \* mutant: updateBalance is called for merchants only

BuyerSaved == [db EXCEPT !.balance[op.user] = wallet[op.user]]

SaveBuyer ==
  /\ op.at = "save"
  /\ Attempted(BuyerSaved)
  /\ Goes("commit")
  /\ UNCHANGED <<objectVars, confirmed, crashes>>

-----------------------------------------------------------------------------
(* cancelOrder and cancelExpiredOrders. *)

\* On to the next order, in the order of ids.
Cancelling(left) ==
  IF left = {} THEN [op EXCEPT !.at = "commit"]
  ELSE LET items == db.orders[Min(left)].items
       IN  [op EXCEPT !.at = "restore", !.order = Min(left), !.items = items,
                      !.left = left \ {Min(left)}, !.rest = Contents(items)]

StartCancel(u, i) ==
  /\ op = Idle
  /\ db.orders[i].user = u /\ db.orders[i].status = "PENDING"
  /\ op' = [Idle EXCEPT !.kind = "cancel", !.at = "begin", !.user = u,
                        !.order = i, !.left = {i}]
  /\ UNCHANGED <<rowVars, objectVars, confirmed, counters>>

\* The orders that have become 30 minutes old: those inserted first.
StartExpire(n) ==
  LET S == {i \in 1..n : db.orders[i].status = "PENDING"}
  IN  /\ op = Idle
      /\ S # {}
      /\ op' = [Idle EXCEPT !.kind = "expire", !.at = "begin", !.left = S]
      /\ UNCHANGED <<rowVars, objectVars, confirmed, counters>>

BeginCancel ==
  /\ op.kind \in {"cancel", "expire"} /\ op.at = "begin"
  /\ Begun
  /\ op' = Cancelling(op.left)
  /\ UNCHANGED <<book, db, objectVars, confirmed, crashes>>

\* The row, then the object, which is loaded from the raised row when it is
\* not there.
RestoreStock(c) ==
  /\ op.at = "restore" /\ c \in op.rest
  /\ Attempted([db EXCEPT !.storage[c] = @ + op.items[c]])
  /\ stock' = [stock EXCEPT ![c] = op.items[c] +
                 IF @ = None THEN db'.storage[c] ELSE @]
  /\ op' = [op EXCEPT !.rest = @ \ {c},
                      !.at = IF op.rest = {c} THEN "status" ELSE "restore"]
  /\ UNCHANGED <<wallet, confirmed, crashes>>

MarkCancelled ==
  /\ op.kind \in {"cancel", "expire"} /\ op.at = "status"
  /\ Attempted(WithStatus(op.order, "CANCELLED"))
  /\ op' = Cancelling(op.left)
  /\ UNCHANGED <<objectVars, confirmed, crashes>>

-----------------------------------------------------------------------------
(* COMMIT and what the client is told. *)

Claims ==
  CASE op.kind = "checkout" -> {<<"placed", op.order>>} \cup
                               (IF op.now THEN {<<"paid", op.order>>} ELSE {})
    [] op.kind = "pay"      -> {<<"paid", op.order>>}
    [] op.kind = "cancel"   -> {<<"cancelled", op.order>>}
    [] op.kind = "expire"   -> {}

CommitForgotten == open /\ UNCHANGED <<rowVars, failures>> \* mutant

Committed == open /\ open' = FALSE /\ book' = db /\ UNCHANGED <<db, failures>>

\* COMMIT fails, or there is no transaction any more.
NotCommitted == Fails \/ (~ open /\ UNCHANGED <<rowVars, failures>>)

\* Only checkout looks at the result, and it does not roll back.
Commit ==
  /\ op.at = "commit"
  /\ \/ Committed /\ confirmed' = confirmed \cup Claims
     \/ /\ NotCommitted
        /\ confirmed' = IF op.kind = "checkout" THEN confirmed
                                                ELSE confirmed \cup Claims
  /\ op' = Idle
  /\ UNCHANGED <<objectVars, crashes>>

\* The process ends anywhere; SQLite rolls back what was not committed.
Crash ==
  /\ crashes < MaxCrashes
  /\ crashes' = crashes + 1
  /\ db' = book /\ open' = FALSE
  /\ op' = Idle
  /\ wallet' = [u \in Users |-> None]
  /\ stock' = [c \in Commodities |-> None]
  /\ UNCHANGED <<book, confirmed, failures>>

-----------------------------------------------------------------------------

Checkout ==
  \/ \E u \in Consumers, now \in BOOLEAN : StartCheckout(u, now)
  \/ BeginCheckout
  \/ InsertOrder
  \/ InsertItem
  \/ DeductStock
  \/ ClearCart
  \/ DebitBuyer

Payment ==
  \/ \E u \in Consumers : \E i \in DOMAIN db.orders : StartPay(u, i)
  \/ BeginPay
  \/ \E x \in Commodities \cup Merchants : CreditMerchant(x)
  \/ MarkPaid
  \/ SaveBuyer

Cancellation ==
  \/ \E u \in Consumers : \E i \in DOMAIN db.orders : StartCancel(u, i)
  \/ \E n \in DOMAIN db.orders : StartExpire(n)
  \/ BeginCancel
  \/ \E c \in Commodities : RestoreStock(c)
  \/ MarkCancelled

\* What a step is remembered by.  A checkout that has paid and whose COMMIT
\* rolls it back leads its parties astray.
History ==
  LET ends == op.kind = "checkout" /\ op.at = "commit"
  IN  /\ seen' = IF op' = Idle THEN db' ELSE seen
      /\ held' = (open' /\ (held \/ ends))
      /\ astray' = IF crashes' # crashes THEN {}
                   ELSE IF ends /\ op.now /\ db' # db
                     THEN astray \cup {op.user} \cup {Owner[c] : c \in Contents(op.items)}
                   ELSE astray

Step ==
  \/ \E u \in Consumers, c \in Commodities : PutInCart(u, c)
  \/ \E u \in Consumers, n \in Amounts : TopUp(u, n)
  \/ Checkout
  \/ Payment
  \/ Cancellation
  \/ Commit
  \/ Crash

OrderTxNext == Step /\ History

OrderTxSpec == OrderTxInit /\ [][OrderTxNext]_orderTxVars

-----------------------------------------------------------------------------
(* Correctness. *)

\* The statements that fail are those of checkout whose result the code looks
\* at: BEGIN, the rows of the order, its items and the stock, and COMMIT.
FaultsChecked ==
  Faulty \subseteq {"checkout"} \X {"begin", "order", "item", "stock", "commit"}

\* The rows, as requests find them and on disk, change as if each operation
\* happened at once, wherever a checked statement fails and wherever the
\* server stops: "key operations use transactions to guarantee atomicity"
\* (README.md:18), with what a failed COMMIT (OrderManager.cpp:286) may do.
RowsAtomic == BookSpec

\* What a client has been told it has ordered, paid or cancelled is on disk
\* and stays there.
ToldIsKept ==
  \A claim \in confirmed :
    LET i == claim[2]
    IN  /\ i \in DOMAIN book.orders
        /\ claim[1] = "paid" => book.orders[i].status = "PAID"
        /\ claim[1] = "cancelled" => book.orders[i].status = "CANCELLED"

\* No operation leaves a transaction open behind it, into which the next
\* requests would write rows that are lost at the end of the process, but a
\* checkout whose COMMIT fails, until a payment or a cancellation commits it.
NothingLeftOpen == op = Idle /\ open => held

\* Between operations a user's object has the balance of the row, although
\* payOrder debits the object before its transaction begins.  The parties of a
\* checkout that paid and was undone by its COMMIT are the exception, until
\* the server restarts.
WalletsFollowRows ==
  op = Idle => \A u \in Users \ astray : wallet[u] \in {None, db.balance[u]}

\* "Key operations use transactions to guarantee atomicity" (README.md:18):
\* between operations the merchants have got what the paid orders owe them.
MoneyFollowsStatus ==
  op = Idle =>
    \A m \in Merchants :
      book.balance[m] = SumOf([i \in DOMAIN book.orders |->
                                 IF book.orders[i].status = "PAID"
                                 THEN Share(book.orders[i].items, m) ELSE 0])

\* The same promise: an order that stands on disk is one whose checkout was
\* answered with success.
OnlyToldOrders ==
  \A i \in DOMAIN book.orders :
    book.orders[i].status # "CANCELLED" => <<"placed", i>> \in confirmed

=============================================================================
