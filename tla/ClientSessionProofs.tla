------------------------ MODULE ClientSessionProofs -------------------------
(***************************************************************************)
(* What a terminal shows is the answer to what it asked, the money a user  *)
(* was told of is the money that is there, and the amount that is charged  *)
(* for an order is the one its list showed, for any number of terminals    *)
(* and users and whatever requests time out.                               *)
(***************************************************************************)
EXTENDS ClientSession, SumsProofs, TLAPS

-----------------------------------------------------------------------------
(* The menus. *)

ConsumerScreens ==
  {"consumer", "cart", "adding", "changing", "confirm", "orders", "order"}

OtherScreens == {"main", "merchant", "goods", "selected"}

ConsumerRequests ==
  {"recharge", "add", "remove", "update", "items", "checkout", "buy", "orders", "pay",
   "cancel"}

\* What every entry has in common: the requests that need a consumer are made
\* from the screens of one, and these lead to such screens.
EntryFits(e) ==
  /\ e.from \in ConsumerScreens \cup OtherScreens
  /\ e.op \in ConsumerRequests =>
       e.from \in ConsumerScreens /\ e.op \notin {"login", "price", "batch"}
  /\ e.from \in ConsumerScreens => e.done \in ConsumerScreens /\ e.else \in ConsumerScreens
  /\ e.from \in OtherScreens =>
       e.done \in OtherScreens \cup {"home"} /\ e.else \in OtherScreens
  /\ e.op \in {"pay", "cancel"} => e.from = "order"
  /\ e.op = "login" <=> e.done = "home"
  /\ e.done = "orders" => e.op = "orders"
  /\ e.done # "order" /\ e.else \notin {"confirm", "orders", "order"}

LEMMA EntriesFit == \A e \in Entries : EntryFits(e)
<1> USE DEF Entry, EntryFits, ConsumerScreens, OtherScreens, ConsumerRequests
<1>1. \A e \in MainMenu : EntryFits(e)
  BY DEF MainMenu
<1>2. \A e \in MerchantMenu : EntryFits(e)
  BY DEF MerchantMenu
<1>3. \A e \in GoodsMenu : EntryFits(e)
  BY DEF GoodsMenu
<1>4. \A e \in CartMenu : EntryFits(e)
  BY DEF CartMenu
<1>5. \A e \in CheckoutMenu : EntryFits(e)
  BY DEF CheckoutMenu
<1>6. \A e \in ConsumerMenu : EntryFits(e)
  BY DEF ConsumerMenu
<1> HIDE DEF EntryFits
<1> QED BY <1>1, <1>2, <1>3, <1>4, <1>5, <1>6 DEF Entries

-----------------------------------------------------------------------------
(* What a user has, in the data of the server. *)

Spent(s, u) == SumOf([i \in DOMAIN s |-> PaidBy(u, s[i])])

LEMMA PaidIsNatural ==
  ASSUME NEW u, NEW o \in Order
  PROVE  PaidBy(u, o) \in Nat
BY DEF PaidBy, Order

LEMMA SpentIsNatural ==
  ASSUME NEW u, NEW s \in Seq(Order)
  PROVE  Spent(s, u) \in Nat
<1> DEFINE f == [i \in DOMAIN s |-> PaidBy(u, s[i])]
<1>1. DOMAIN s = 1..Len(s) /\ Len(s) \in Nat /\ \A i \in DOMAIN s : s[i] \in Order
  OBVIOUS
<1>2. f \in [DOMAIN s -> Nat]
  BY <1>1, PaidIsNatural
<1>3. IsFiniteSet(DOMAIN s)
  BY <1>1, FS_Interval
<1> HIDE DEF f
<1>4. SumOf(f) \in Nat
  BY <1>2, <1>3, SumIsNatural
<1> QED BY <1>4 DEF Spent, f

LEMMA SpentAppended ==
  ASSUME NEW u, NEW s \in Seq(Order), NEW o \in Order
  PROVE  Spent(Append(s, o), u) = Spent(s, u) + PaidBy(u, o)
<1> DEFINE t == Append(s, o)
           n == Len(s)
           f == [i \in DOMAIN s |-> PaidBy(u, s[i])]
           g == [i \in DOMAIN t |-> PaidBy(u, t[i])]
<1>1. /\ n \in Nat /\ DOMAIN s = 1..n /\ DOMAIN t = 1..(n + 1)
      /\ \A i \in 1..n : s[i] \in Order /\ t[i] = s[i] /\ i \in 1..(n + 1)
      /\ t[n + 1] = o /\ n + 1 \in 1..(n + 1)
      /\ \A i \in 1..(n + 1) : t[i] \in Order
  OBVIOUS
<1> HIDE DEF t, n
<1>2. /\ f \in [1..n -> Int] /\ g \in [1..(n + 1) -> Int]
      /\ \A i \in 1..n : g[i] = f[i]
      /\ g[n + 1] = PaidBy(u, o)
  BY <1>1, PaidIsNatural
<1> HIDE DEF f, g
<1>3. SumOf(g) = SumOf(f) + g[n + 1]
  BY <1>1, <1>2, SumAppended
<1> QED BY <1>2, <1>3 DEF Spent, f, g, t

LEMMA SpentChanged ==
  ASSUME NEW u, NEW s \in Seq(Order), NEW t \in Seq(Order), NEW k \in DOMAIN s,
         DOMAIN t = DOMAIN s, \A i \in DOMAIN s \ {k} : t[i] = s[i]
  PROVE  Spent(t, u) = Spent(s, u) - PaidBy(u, s[k]) + PaidBy(u, t[k])
<1> DEFINE f == [i \in DOMAIN s |-> PaidBy(u, s[i])]
           g == [i \in DOMAIN t |-> PaidBy(u, t[i])]
<1>1. /\ DOMAIN s = 1..Len(s) /\ Len(s) \in Nat
      /\ \A i \in DOMAIN s : s[i] \in Order /\ t[i] \in Order
  OBVIOUS
<1>2. /\ f \in [DOMAIN s -> Int] /\ g \in [DOMAIN s -> Int]
      /\ \A i \in DOMAIN s \ {k} : g[i] = f[i]
      /\ g[k] = PaidBy(u, t[k]) /\ f[k] = PaidBy(u, s[k])
  BY <1>1, PaidIsNatural
<1>3. IsFiniteSet(DOMAIN s)
  BY <1>1, FS_Interval
<1> HIDE DEF f, g
<1>4. SumOf(g) = SumOf(f) - f[k] + g[k]
  BY ZenonT(60), <1>2, <1>3, SumChanged
<1> QED BY <1>2, <1>4 DEF Spent, f, g

-----------------------------------------------------------------------------
(* What the handlers make of the data. *)

Owned(o, u) == {i \in DOMAIN o : o[i].user = u}

\* A list of orders of user u, as they are among the orders o.
ListFits(list, u, o) ==
  /\ list \subseteq Row
  /\ \A row \in list : row.order \in Owned(o, u) /\ row.total = o[row.order].total

\* The requests a handler can be given when the orders are o.
RequestFits(r, o) ==
  /\ r.value \in Nat
  /\ r.op \in ConsumerRequests => r.user \in Consumers
  /\ r.op = "price" => r.value \in Prices
  /\ r.op \in {"pay", "cancel"} => r.value \in Owned(o, r.user)
  /\ r.op = "pay" => r.total = o[r.value].total

Made(p, c, o, b) == [price |-> p, cart |-> c, orders |-> o, balance |-> b]

\* The parts of the data that change.
Put(c, u, n) == [c EXCEPT ![u] = n]

Plus(b, u, n) == [b EXCEPT ![u] = @ + n]

Minus(b, u, n) == [b EXCEPT ![u] = @ - n]

Marked(s, i, status) == [s EXCEPT ![i] = [@ EXCEPT !.status = status]]

\* The kinds of change, each under the conditions of its handler.
Handling(r, d) ==
  LET u == r.user
      cart == data.cart
      orders == data.orders
      balance == data.balance
      With(c, o, b) == Made(data.price, c, o, b)
  IN  \/ d = data /\ r.op \notin {"recharge", "buy", "pay"}
      \/ r.op = "price" /\ d = Made(r.value, cart, orders, balance)
      \/ r.op = "recharge" /\ d = With(cart, orders, Plus(balance, u, Deposit))
      \/ /\ r.op \in {"add", "remove", "update"}
         /\ \E n \in Nat : d = With(Put(cart, u, n), orders, balance)
      \/ /\ r.op = "checkout"
         /\ d = With(Put(cart, u, 0), Append(orders, NewOrder(u, "PENDING")), balance)
      \/ /\ r.op = "buy" /\ CartTotal(u) \in 1..balance[u]
         /\ d = With(Put(cart, u, 0), Append(orders, NewOrder(u, "PAID")),
                     Minus(balance, u, CartTotal(u)))
      \/ /\ r.op = "pay" /\ orders[r.value].status = "PENDING"
         /\ orders[r.value].total \in 1..balance[u]
         /\ d = With(cart, Marked(orders, r.value, "PAID"),
                     Minus(balance, u, orders[r.value].total))
      \/ /\ r.op = "cancel" /\ orders[r.value].status = "PENDING"
         /\ d = With(cart, Marked(orders, r.value, "CANCELLED"),
                     balance)

LEMMA DataIs ==
  ASSUME data \in Server
  PROVE  /\ data = Made(data.price, data.cart, data.orders, data.balance)
         /\ data.price \in Prices /\ data.price \in Nat /\ data.cart \in [Consumers -> Nat]
         /\ data.orders \in Seq(Order) /\ data.balance \in [Consumers -> Nat]
BY ClientSessionAssumption DEF Server, Made

\* An order is appended and the cart emptied; the status of an order is set.
Ordering(s, x, u) == [s EXCEPT !.orders = Append(@, x), !.cart[u] = 0]

Ordered(p, c, o, b, x, u) == Made(p, Put(c, u, 0), Append(o, x), b)

Paying(s, i) == [s EXCEPT !.orders[i].status = "PAID"]

Paid(p, c, o, b, i) == Made(p, c, Marked(o, i, "PAID"), b)

LEMMA OrderingOrders ==
  ASSUME NEW p, NEW c, NEW o, NEW b, NEW x, NEW u, NEW s, s = Made(p, c, o, b)
  PROVE  Ordering(s, x, u) = Ordered(p, c, o, b, x, u)
<1>1. PICK t : t = [s EXCEPT !.orders = Append(@, x)]
  OBVIOUS
<1>2. t = Made(p, c, Append(o, x), b)
  BY <1>1 DEF Made
<1>3. Ordering(s, x, u) = [t EXCEPT !.cart[u] = 0]
  BY <1>1 DEF Ordering
<1>4. PICK z : z = Append(o, x)
  OBVIOUS
<1>5. t = Made(p, c, z, b)
  BY <1>2, <1>4
<1>6. [t EXCEPT !.cart[u] = 0] = Made(p, Put(c, u, 0), z, b)
  BY <1>5 DEF Made, Put
<1> QED BY <1>3, <1>4, <1>6 DEF Ordered

LEMMA PayingPays ==
  ASSUME NEW p, NEW c, NEW o, NEW b, NEW i, NEW s, s = Made(p, c, o, b)
  PROVE  Paying(s, i) = Paid(p, c, o, b, i)
BY DEF Made, Paying, Paid, Marked

LEMMA HandlersWritten ==
  ASSUME data \in Server, NEW r, RequestFits(r, data.orders), Handled(r) # None
  PROVE  Handling(r, Handled(r))
<1> DEFINE u == r.user
           d == Handled(r)
<1> USE DEF Made
<1>1. data = Made(data.price, data.cart, data.orders, data.balance)
  BY DataIs
<1>2. CASE r.op = "price"
  <2>1. d = [data EXCEPT !.price = r.value]
    BY <1>2 DEF Handled
  <2>2. d = Made(r.value, data.cart, data.orders, data.balance)
    BY <1>1, <2>1
  <2> QED BY <1>2, <2>2 DEF Handling
<1>3. CASE r.op = "recharge"
  <2>1. d = [data EXCEPT !.balance[u] = @ + Deposit]
    BY <1>3 DEF Handled
  <2>2. d = Made(data.price, data.cart, data.orders, Plus(data.balance, u, Deposit))
    BY <1>1, <2>1 DEF Plus
  <2> QED BY <1>3, <2>2 DEF Handling
<1>4. CASE r.op \in {"add", "remove", "update"}
  <2>1. u \in Consumers /\ data.cart[u] + r.value \in Nat /\ r.value \in Nat
    BY <1>4, DataIs DEF RequestFits, ConsumerRequests
  <2>2. PICK n \in Nat : d = [data EXCEPT !.cart[u] = n]
    BY <1>4, <2>1 DEF Handled
  <2>3. d = Made(data.price, Put(data.cart, u, n), data.orders, data.balance)
    BY <1>1, <2>2 DEF Put
  <2> QED BY <1>4, <2>3 DEF Handling
<1>5. CASE r.op = "checkout"
  <2>1. d = [data EXCEPT !.orders = Append(@, NewOrder(u, "PENDING")), !.cart[u] = 0]
    BY <1>5 DEF Handled
  <2>2. d = Made(data.price, Put(data.cart, u, 0),
                 Append(data.orders, NewOrder(u, "PENDING")), data.balance)
    <3>1. d = Ordering(data, NewOrder(u, "PENDING"), u)
      BY <2>1 DEF Ordering
    <3> HIDE DEF Made, d
    <3>2. d = Ordered(data.price, data.cart, data.orders, data.balance,
                      NewOrder(u, "PENDING"), u)
      BY <1>1, <3>1, OrderingOrders
    <3> QED BY <3>2 DEF Ordered
  <2> QED BY <1>5, <2>2 DEF Handling
<1>6. CASE r.op = "buy"
  <2> DEFINE left == Minus(data.balance, u, CartTotal(u))
  <2>1. /\ CartTotal(u) \in 1..data.balance[u]
        /\ d = [Charged(u, CartTotal(u)) EXCEPT
                 !.orders = Append(@, NewOrder(u, "PAID")), !.cart[u] = 0]
    BY <1>6 DEF Handled, CanPay
  <2>2. PICK s : s = Charged(u, CartTotal(u))
    OBVIOUS
  <2>3. PICK b : b = left
    OBVIOUS
  <2>4. s = Made(data.price, data.cart, data.orders, b)
    BY <1>1, <2>2, <2>3 DEF Charged, Minus
  <2>5. d = Made(data.price, Put(data.cart, u, 0),
                 Append(data.orders, NewOrder(u, "PAID")), b)
    <3>1. d = Ordering(s, NewOrder(u, "PAID"), u)
      BY <2>1, <2>2 DEF Ordering
    <3> HIDE DEF Made, d
    <3>2. d = Ordered(data.price, data.cart, data.orders, b, NewOrder(u, "PAID"), u)
      BY <2>4, <3>1, OrderingOrders
    <3> QED BY <3>2 DEF Ordered
  <2> QED BY <1>6, <2>1, <2>3, <2>5 DEF Handling
<1>7. CASE r.op = "pay"
  <2> DEFINE left == Minus(data.balance, u, data.orders[r.value].total)
  <2>1. /\ Pending(r.value) /\ data.orders[r.value].total \in 1..data.balance[u]
        /\ d = [Charged(u, data.orders[r.value].total) EXCEPT
                 !.orders[r.value].status = "PAID"]
    BY <1>7 DEF Handled, CanPay
  <2>2. PICK s : s = Charged(u, data.orders[r.value].total)
    OBVIOUS
  <2>3. PICK b : b = left
    OBVIOUS
  <2>4. s = Made(data.price, data.cart, data.orders, b)
    BY <1>1, <2>2, <2>3 DEF Charged, Minus
  <2>5. d = Made(data.price, data.cart,
                 Marked(data.orders, r.value, "PAID"), b)
    <3>1. d = Paying(s, r.value)
      BY <2>1, <2>2 DEF Paying
    <3> HIDE DEF Made, d
    <3>2. d = Paid(data.price, data.cart, data.orders, b, r.value)
      BY <2>4, <3>1, PayingPays
    <3> QED BY <3>2 DEF Paid
  <2> QED BY <1>7, <2>1, <2>3, <2>5 DEF Handling, Pending
<1>8. CASE r.op = "cancel"
  <2>1. Pending(r.value) /\ d = [data EXCEPT !.orders[r.value].status = "CANCELLED"]
    BY <1>8 DEF Handled
  <2>2. d = Made(data.price, data.cart,
                 Marked(data.orders, r.value, "CANCELLED"),
                 data.balance)
    BY <1>1, <2>1 DEF Marked
  <2> QED BY <1>8, <2>1, <2>2 DEF Handling, Pending
<1>9. CASE r.op \notin {"price", "recharge", "add", "remove", "update", "checkout", "buy",
                        "pay", "cancel"}
  <2>1. d = data
    BY <1>9 DEF Handled
  <2> QED BY <1>9, <2>1 DEF Handling
<1> QED BY <1>2, <1>3, <1>4, <1>5, <1>6, <1>7, <1>8, <1>9

LEMMA ProductIsNatural == \A p, q \in Nat : p * q \in Nat
  OBVIOUS

LEMMA NewOrderIs ==
  ASSUME data \in Server, NEW u \in Consumers, NEW status \in {"PENDING", "PAID"}
  PROVE  /\ NewOrder(u, status) \in Order
         /\ NewOrder(u, status).user = u /\ NewOrder(u, status).status = status
         /\ NewOrder(u, status).total = CartTotal(u) /\ CartTotal(u) \in Nat
<1>1. CartTotal(u) \in Nat
  BY DataIs, ProductIsNatural DEF CartTotal
<1> QED BY <1>1 DEF NewOrder, Order, Status

LEMMA OrdersAre ==
  ASSUME data \in Server, NEW i \in DOMAIN data.orders
  PROVE  /\ data.orders[i] \in Order /\ data.orders[i].total \in Nat
         /\ data.orders[i].user \in Consumers /\ i \in Nat
<1>1. data.orders \in Seq(Order)
  BY DataIs
<1>2. data.orders[i] \in Order /\ i \in Nat
  BY <1>1
<1> QED BY <1>2 DEF Order

LEMMA StatusWritten ==
  ASSUME data \in Server, NEW i \in DOMAIN data.orders, NEW status \in {"PAID", "CANCELLED"},
         NEW o, o = Marked(data.orders, i, status)
  PROVE  /\ o \in Seq(Order) /\ DOMAIN o = DOMAIN data.orders
         /\ \A j \in DOMAIN data.orders \ {i} : o[j] = data.orders[j]
         /\ o[i] \in Order /\ o[i].status = status
         /\ o[i].user = data.orders[i].user /\ o[i].total = data.orders[i].total
<1>1. data.orders \in Seq(Order) /\ data.orders[i] \in Order
  BY DataIs, OrdersAre
<1>2. PICK new : new = [data.orders[i] EXCEPT !.status = status]
  OBVIOUS
<1>3. /\ new \in Order /\ new.status = status
      /\ new.user = data.orders[i].user /\ new.total = data.orders[i].total
  BY <1>1, <1>2 DEF Order, Status
<1>4. o = [data.orders EXCEPT ![i] = new]
  BY <1>2 DEF Marked
<1>5. /\ o \in Seq(Order) /\ DOMAIN o = DOMAIN data.orders /\ o[i] = new
      /\ \A j \in DOMAIN data.orders \ {i} : o[j] = data.orders[j]
  BY <1>1, <1>3, <1>4
<1> QED BY <1>3, <1>5

\* Orders stay, with their users and totals.
OrdersStay(s, t) ==
  /\ DOMAIN s \subseteq DOMAIN t
  /\ \A i \in DOMAIN s : t[i].user = s[i].user /\ t[i].total = s[i].total

\* What user u gains, in balance and paid orders together, when r is handled.
Gained(r, u) == IF r.op = "recharge" /\ r.user = u THEN Deposit ELSE 0

\* A payment takes the total of the cart or of the order.
Takes(r, d) ==
  /\ r.op = "buy" => data.balance[r.user] - d.balance[r.user] = CartTotal(r.user)
  /\ r.op = "pay" =>
       data.balance[r.user] - d.balance[r.user] = data.orders[r.value].total

Right(r, d) ==
  /\ d \in Server
  /\ OrdersStay(data.orders, d.orders)
  /\ \A u \in Consumers : Held(d, u) = Held(data, u) + Gained(r, u)
  /\ Takes(r, d)

LEMMA HeldIs ==
  ASSUME NEW d, NEW u
  PROVE  Held(d, u) = d.balance[u] + Spent(d.orders, u)
BY DEF Held, Spent

LEMMA HeldIsNatural ==
  ASSUME data \in Server, NEW u \in Consumers
  PROVE  Held(data, u) \in Nat
<1>1. data.balance[u] \in Nat /\ Spent(data.orders, u) \in Nat
  BY DataIs, SpentIsNatural
<1> QED BY <1>1, HeldIs

LEMMA MadeIs ==
  ASSUME NEW p, NEW c, NEW o, NEW b
  PROVE  /\ Made(p, c, o, b).price = p /\ Made(p, c, o, b).cart = c
         /\ Made(p, c, o, b).orders = o /\ Made(p, c, o, b).balance = b
BY DEF Made

LEMMA MadeIsServer ==
  ASSUME NEW p \in Prices, NEW c \in [Consumers -> Nat], NEW o \in Seq(Order),
         NEW b \in [Consumers -> Nat]
  PROVE  Made(p, c, o, b) \in Server
BY DEF Made, Server

LEMMA SameMoney ==
  ASSUME data \in Server, NEW r, NEW d, r.op \notin {"recharge", "buy", "pay"},
         d \in Server, d.orders = data.orders, d.balance = data.balance
  PROVE  Right(r, d)
<1>1. \A u \in Consumers : Held(d, u) = Held(data, u)
  BY HeldIs
<1>2. \A u \in Consumers : Held(data, u) + 0 = Held(data, u)
  BY HeldIsNatural
<1>3. OrdersStay(data.orders, d.orders)
  BY DEF OrdersStay
<1> QED BY <1>1, <1>2, <1>3 DEF Right, Gained, Takes

LEMMA MadeGives ==
  ASSUME NEW p \in Prices, NEW c \in [Consumers -> Nat], NEW o \in Seq(Order),
         NEW b \in [Consumers -> Nat], NEW d, d = Made(p, c, o, b)
  PROVE  d \in Server /\ d.orders = o /\ d.balance = b
BY DEF Made, Server

LEMMA RechargeRight ==
  ASSUME data \in Server, NEW r, r.op = "recharge", r.user \in Consumers, NEW d,
         d = Made(data.price, data.cart, data.orders,
                  Plus(data.balance, r.user, Deposit))
  PROVE  Right(r, d)
<1>1. PICK b : b = Plus(data.balance, r.user, Deposit)
  OBVIOUS
<1>2. /\ b \in [Consumers -> Nat] /\ Deposit \in Nat
      /\ b[r.user] = data.balance[r.user] + Deposit
      /\ \A u \in Consumers : u # r.user => b[u] = data.balance[u]
  BY <1>1, DataIs, ClientSessionAssumption DEF Plus
<1>3. d.orders = data.orders /\ d.balance = b /\ d \in Server
  <2>1. d = Made(data.price, data.cart, data.orders, b)
    BY <1>1
  <2>2. /\ data.price \in Prices /\ data.cart \in [Consumers -> Nat]
        /\ data.orders \in Seq(Order) /\ b \in [Consumers -> Nat]
    BY <1>2, DataIs
  <2> QED BY <2>1, <2>2, MadeGives
<1>4. \A u \in Consumers : Held(d, u) = Held(data, u) + Gained(r, u)
  <2> SUFFICES ASSUME NEW u \in Consumers PROVE Held(d, u) = Held(data, u) + Gained(r, u)
    OBVIOUS
  <2>1. /\ Held(d, u) = b[u] + Spent(data.orders, u)
        /\ Held(data, u) = data.balance[u] + Spent(data.orders, u)
        /\ data.balance[u] \in Nat /\ Spent(data.orders, u) \in Nat
    BY <1>3, HeldIs, SpentIsNatural, DataIs
  <2> QED BY <1>2, <2>1 DEF Gained
<1> QED BY <1>3, <1>4 DEF Right, OrdersStay, Takes

\* An order that is made: who pays for it at once spends what the balance loses.
LEMMA CheckoutRight ==
  ASSUME data \in Server, NEW r, r.op = "checkout", r.user \in Consumers, NEW d,
         d = Made(data.price, Put(data.cart, r.user, 0),
                  Append(data.orders, NewOrder(r.user, "PENDING")), data.balance)
  PROVE  Right(r, d)
<1>1. PICK x : x = NewOrder(r.user, "PENDING")
  OBVIOUS
<1>2. x \in Order /\ x.status = "PENDING"
  BY <1>1, NewOrderIs
<1>3. PICK o : o = Append(data.orders, x)
  OBVIOUS
<1>4. o \in Seq(Order) /\ OrdersStay(data.orders, o)
  BY <1>2, <1>3, DataIs DEF OrdersStay
<1>5. d.orders = o /\ d.balance = data.balance /\ d \in Server
  <2>1. PICK c \in [Consumers -> Nat] : c = Put(data.cart, r.user, 0)
    BY DataIs DEF Put
  <2>2. d = Made(data.price, c, o, data.balance)
    BY <1>1, <1>3, <2>1
  <2>3. data.price \in Prices /\ data.balance \in [Consumers -> Nat] /\ o \in Seq(Order)
    BY <1>4, DataIs
  <2> QED BY <2>1, <2>2, <2>3, MadeGives
<1>6. \A u \in Consumers : Held(d, u) = Held(data, u) + Gained(r, u)
  <2> SUFFICES ASSUME NEW u \in Consumers PROVE Held(d, u) = Held(data, u) + Gained(r, u)
    OBVIOUS
  <2>1. Spent(o, u) = Spent(data.orders, u) + PaidBy(u, x) /\ PaidBy(u, x) = 0
    BY <1>2, <1>3, DataIs, SpentAppended DEF PaidBy
  <2>2. /\ Held(d, u) = data.balance[u] + Spent(o, u)
        /\ Held(data, u) = data.balance[u] + Spent(data.orders, u)
        /\ data.balance[u] \in Nat /\ Spent(data.orders, u) \in Nat
    BY <1>5, HeldIs, SpentIsNatural, DataIs
  <2> QED BY <2>1, <2>2 DEF Gained
<1> QED BY <1>4, <1>5, <1>6 DEF Right, Takes

LEMMA BuyRight ==
  ASSUME data \in Server, NEW r, r.op = "buy", r.user \in Consumers, NEW d,
         CanPay(r.user, CartTotal(r.user)),
         d = Made(data.price, Put(data.cart, r.user, 0),
                  Append(data.orders, NewOrder(r.user, "PAID")),
                  Minus(data.balance, r.user, CartTotal(r.user)))
  PROVE  Right(r, d)
<1>1. PICK x, total : x = NewOrder(r.user, "PAID") /\ total = CartTotal(r.user)
  OBVIOUS
<1>2. x \in Order /\ x.status = "PAID" /\ x.user = r.user /\ x.total = total
  BY <1>1, NewOrderIs
<1>3. PICK o, b : /\ o = Append(data.orders, x)
                  /\ b = Minus(data.balance, r.user, total)
  OBVIOUS
<1>4. o \in Seq(Order) /\ OrdersStay(data.orders, o)
  BY <1>2, <1>3, DataIs DEF OrdersStay
<1>5. /\ b \in [Consumers -> Nat] /\ total \in Nat
      /\ b[r.user] = data.balance[r.user] - total
      /\ data.balance[r.user] - b[r.user] = total
      /\ \A u \in Consumers : u # r.user => b[u] = data.balance[u]
  <2>1. data.balance \in [Consumers -> Nat] /\ total \in 1..data.balance[r.user]
    BY <1>1, DataIs DEF CanPay
  <2> QED BY <1>3, <2>1 DEF Minus
<1>6. d.orders = o /\ d.balance = b /\ d \in Server
  <2>1. PICK c \in [Consumers -> Nat] : c = Put(data.cart, r.user, 0)
    BY DataIs DEF Put
  <2>2. d = Made(data.price, c, o, b)
    BY <1>1, <1>3, <2>1
  <2>3. data.price \in Prices /\ b \in [Consumers -> Nat] /\ o \in Seq(Order)
    BY <1>4, <1>5, DataIs
  <2>4. PICK p \in Prices : p = data.price
    BY <2>3
  <2>5. d = Made(p, c, o, b) /\ b \in [Consumers -> Nat] /\ o \in Seq(Order)
    BY <2>2, <2>3, <2>4
  <2> QED BY <2>1, <2>5, MadeGives
<1>7. \A u \in Consumers : Held(d, u) = Held(data, u) + Gained(r, u)
  <2> SUFFICES ASSUME NEW u \in Consumers PROVE Held(d, u) = Held(data, u) + Gained(r, u)
    OBVIOUS
  <2>1. /\ Spent(o, u) = Spent(data.orders, u) + PaidBy(u, x)
        /\ PaidBy(u, x) = IF u = r.user THEN total ELSE 0
    BY <1>2, <1>3, DataIs, SpentAppended DEF PaidBy
  <2>2. /\ Held(d, u) = b[u] + Spent(o, u)
        /\ Held(data, u) = data.balance[u] + Spent(data.orders, u)
        /\ data.balance[u] \in Nat /\ Spent(data.orders, u) \in Nat
    BY <1>6, HeldIs, SpentIsNatural, DataIs
  <2> QED BY <1>5, <2>1, <2>2 DEF Gained
<1> QED BY <1>1, <1>4, <1>5, <1>6, <1>7 DEF Right, Takes

\* What is paid for an order leaves the balance.
LEMMA PayRight ==
  ASSUME data \in Server, NEW r, r.op = "pay", r.user \in Consumers,
         r.value \in Owned(data.orders, r.user), NEW d,
         data.orders[r.value].status = "PENDING",
         data.orders[r.value].total \in 1..data.balance[r.user],
         d = Made(data.price, data.cart,
                  Marked(data.orders, r.value, "PAID"),
                  Minus(data.balance, r.user, data.orders[r.value].total))
  PROVE  Right(r, d)
<1>1. PICK i, total : i = r.value /\ total = data.orders[i].total
  OBVIOUS
<1>2. i \in DOMAIN data.orders /\ data.orders[i].user = r.user
  BY <1>1 DEF Owned
<1>3. PICK o, b : /\ o = Marked(data.orders, i, "PAID")
                  /\ b = Minus(data.balance, r.user, total)
  OBVIOUS
<1>4. /\ o \in Seq(Order) /\ DOMAIN o = DOMAIN data.orders
      /\ \A j \in DOMAIN data.orders \ {i} : o[j] = data.orders[j]
      /\ o[i] \in Order /\ o[i].status = "PAID"
      /\ o[i].user = data.orders[i].user /\ o[i].total = data.orders[i].total
  BY <1>2, <1>3, StatusWritten
<1>5. OrdersStay(data.orders, o)
  BY <1>4 DEF OrdersStay
<1>6. /\ b \in [Consumers -> Nat] /\ total \in Nat
      /\ b[r.user] = data.balance[r.user] - total
      /\ data.balance[r.user] - b[r.user] = total
      /\ \A u \in Consumers : u # r.user => b[u] = data.balance[u]
  <2>1. data.balance \in [Consumers -> Nat] /\ total \in 1..data.balance[r.user]
    BY <1>1, DataIs
  <2> QED BY <1>3, <2>1 DEF Minus
<1>7. d.orders = o /\ d.balance = b /\ d \in Server
  <2>1. d = Made(data.price, data.cart, o, b)
    BY <1>1, <1>3
  <2>2. /\ data.price \in Prices /\ data.cart \in [Consumers -> Nat]
        /\ o \in Seq(Order) /\ b \in [Consumers -> Nat]
    BY <1>4, <1>6, DataIs
  <2> QED BY SMTT(60), <2>1, <2>2, MadeGives
<1>8. \A u \in Consumers : Held(d, u) = Held(data, u) + Gained(r, u)
  <2> SUFFICES ASSUME NEW u \in Consumers PROVE Held(d, u) = Held(data, u) + Gained(r, u)
    OBVIOUS
  <2>1. Spent(o, u) = Spent(data.orders, u) - PaidBy(u, data.orders[i]) + PaidBy(u, o[i])
    BY <1>2, <1>4, DataIs, SpentChanged
  <2>2. /\ PaidBy(u, data.orders[i]) = 0
        /\ PaidBy(u, o[i]) = IF u = r.user THEN total ELSE 0
    BY <1>1, <1>2, <1>4 DEF PaidBy
  <2>3. /\ Held(d, u) = b[u] + Spent(o, u)
        /\ Held(data, u) = data.balance[u] + Spent(data.orders, u)
        /\ data.balance[u] \in Nat /\ Spent(data.orders, u) \in Nat
    BY <1>7, HeldIs, SpentIsNatural, DataIs
  <2> QED BY <1>6, <2>1, <2>2, <2>3 DEF Gained
<1> QED BY <1>1, <1>5, <1>6, <1>7, <1>8 DEF Right, Takes

LEMMA CancelRight ==
  ASSUME data \in Server, NEW r, r.op = "cancel", r.user \in Consumers,
         r.value \in Owned(data.orders, r.user), NEW d,
         data.orders[r.value].status = "PENDING",
         d = Made(data.price, data.cart,
                  Marked(data.orders, r.value, "CANCELLED"),
                  data.balance)
  PROVE  Right(r, d)
<1>1. PICK i : i = r.value
  OBVIOUS
<1>2. i \in DOMAIN data.orders
  BY <1>1 DEF Owned
<1>3. PICK o : o = Marked(data.orders, i, "CANCELLED")
  OBVIOUS
<1>4. /\ o \in Seq(Order) /\ DOMAIN o = DOMAIN data.orders
      /\ \A j \in DOMAIN data.orders \ {i} : o[j] = data.orders[j]
      /\ o[i] \in Order /\ o[i].status = "CANCELLED"
      /\ o[i].user = data.orders[i].user /\ o[i].total = data.orders[i].total
  BY <1>2, <1>3, StatusWritten
<1>5. OrdersStay(data.orders, o)
  BY <1>4 DEF OrdersStay
<1>6. d.orders = o /\ d.balance = data.balance /\ d \in Server
  <2>1. d = Made(data.price, data.cart, o, data.balance)
    BY <1>1, <1>3
  <2>2. /\ data.price \in Prices /\ data.cart \in [Consumers -> Nat]
        /\ o \in Seq(Order) /\ data.balance \in [Consumers -> Nat]
    BY <1>4, DataIs
  <2> QED BY <2>1, <2>2, MadeGives
<1>7. \A u \in Consumers : Held(d, u) = Held(data, u) + Gained(r, u)
  <2> SUFFICES ASSUME NEW u \in Consumers PROVE Held(d, u) = Held(data, u) + Gained(r, u)
    OBVIOUS
  <2>1. Spent(o, u) = Spent(data.orders, u) - PaidBy(u, data.orders[i]) + PaidBy(u, o[i])
    BY <1>2, <1>4, DataIs, SpentChanged
  <2>2. PaidBy(u, data.orders[i]) = 0 /\ PaidBy(u, o[i]) = 0
    BY <1>1, <1>4 DEF PaidBy
  <2>3. /\ Held(d, u) = data.balance[u] + Spent(o, u)
        /\ Held(data, u) = data.balance[u] + Spent(data.orders, u)
        /\ data.balance[u] \in Nat /\ Spent(data.orders, u) \in Nat
    BY <1>6, HeldIs, SpentIsNatural, DataIs
  <2> QED BY <2>1, <2>2, <2>3 DEF Gained
<1> QED BY <1>5, <1>6, <1>7 DEF Right, Takes

LEMMA HandlersAreRight ==
  ASSUME data \in Server, NEW r, RequestFits(r, data.orders), Handled(r) # None
  PROVE  Right(r, Handled(r))
<1> DEFINE u == r.user
<1> SUFFICES ASSUME NEW d, d = Handled(r) PROVE Right(r, d)
  OBVIOUS
<1>1. Handling(r, d)
  BY HandlersWritten
<1>2. r.op \in ConsumerRequests => u \in Consumers
  BY DEF RequestFits
<1>3. CASE d = data /\ r.op \notin {"recharge", "buy", "pay"}
  BY <1>3, SameMoney
<1>4. CASE r.op = "price" /\ d = Made(r.value, data.cart, data.orders, data.balance)
  <2>1. /\ r.value \in Prices /\ data.cart \in [Consumers -> Nat]
        /\ data.orders \in Seq(Order) /\ data.balance \in [Consumers -> Nat]
    BY <1>4, DataIs DEF RequestFits
  <2>2. d \in Server /\ d.orders = data.orders /\ d.balance = data.balance
    BY <1>4, <2>1, MadeGives
  <2> QED BY <1>4, <2>2, SameMoney
<1>5. CASE r.op = "recharge" /\ d = Made(data.price, data.cart, data.orders,
                                         Plus(data.balance, u, Deposit))
  BY <1>2, <1>5, RechargeRight DEF ConsumerRequests
<1>6. ASSUME r.op \in {"add", "remove", "update"}, NEW n \in Nat,
             d = Made(data.price, Put(data.cart, u, n), data.orders, data.balance)
      PROVE  Right(r, d)
  <2>1. PICK c : c = Put(data.cart, u, n)
    OBVIOUS
  <2>2. c \in [Consumers -> Nat] /\ d = Made(data.price, c, data.orders, data.balance)
    BY <1>6, <2>1, DataIs DEF Put
  <2>3. /\ data.price \in Prices /\ data.orders \in Seq(Order)
        /\ data.balance \in [Consumers -> Nat]
    BY DataIs
  <2>4. d \in Server /\ d.orders = data.orders /\ d.balance = data.balance
    BY <2>2, <2>3, MadeGives
  <2> QED BY <1>6, <2>4, SameMoney
<1>7. CASE /\ r.op = "checkout"
           /\ d = Made(data.price, Put(data.cart, u, 0),
                       Append(data.orders, NewOrder(u, "PENDING")), data.balance)
  BY <1>2, <1>7, CheckoutRight DEF ConsumerRequests
<1>8. CASE /\ r.op = "buy" /\ CartTotal(u) \in 1..data.balance[u]
           /\ d = Made(data.price, Put(data.cart, u, 0),
                       Append(data.orders, NewOrder(u, "PAID")),
                       Minus(data.balance, u, CartTotal(u)))
  BY <1>2, <1>8, BuyRight DEF ConsumerRequests, CanPay
<1>9. CASE /\ r.op = "pay" /\ data.orders[r.value].status = "PENDING"
           /\ data.orders[r.value].total \in 1..data.balance[u]
           /\ d = Made(data.price, data.cart,
                       Marked(data.orders, r.value, "PAID"),
                       Minus(data.balance, u, data.orders[r.value].total))
  BY <1>2, <1>9, PayRight DEF ConsumerRequests, RequestFits
<1>10. CASE /\ r.op = "cancel" /\ data.orders[r.value].status = "PENDING"
            /\ d = Made(data.price, data.cart,
                        Marked(data.orders, r.value, "CANCELLED"),
                        data.balance)
  BY <1>2, <1>10, CancelRight DEF ConsumerRequests, RequestFits
<1> QED BY <1>1, <1>3, <1>4, <1>5, <1>6, <1>7, <1>8, <1>9, <1>10 DEF Handling

-----------------------------------------------------------------------------
(* What is known of a connection.  Only the last request of a terminal can   *)
(* still be answered to it, over the connection it is waiting on; the others *)
(* went over connections that it has closed.                                 *)

Reply ==
  [no : Nat, ok : {"success", "error", "closed"}, list : SUBSET Row]

\* What screen s can show when the orders are o.
ScreenFits(s, o) ==
  /\ s.at \in ConsumerScreens => s.user \in Consumers
  /\ s.at = "orders" => ListFits(s.list, s.user, o)
  /\ s.at = "order" => s.order \in Owned(o, s.user) /\ s.total = o[s.order].total

\* Answer a to user u, for whom w is waited.
AnswerFits(a, w, u, o) ==
  /\ a.no = w.count
  /\ a.ok = "success" /\ w.entry.op = "orders" => ListFits(a.list, u, o)

\* A terminal with its screen, what it waits for, its connection and what can
\* be read from that.
TerminalFits(s, w, l, rs, o) ==
  /\ ScreenFits(s, o)
  /\ w.entry # None => l > 0 /\ w.entry.from = s.at
  /\ rs # << >> =>
       w.entry # None /\ \E a \in Reply : rs = <<a>> /\ AnswerFits(a, w, s.user, o)

\* A message that is not handled: the terminal it came from waits for it, or
\* has closed the connection.
MessageFits(m, s, w, l, rs, o) ==
  /\ m.link \in Nat \ {0}
  /\ m.link <= l \/ m.link <= -l
  /\ RequestFits(m.request, o)
  /\ m.link = l =>
       /\ w.entry # None /\ rs = << >>
       /\ m.request.no = w.count
       /\ m.request.op = w.entry.op
       /\ m.request.user = s.user

Alive(m) == m.link = link[m.from]

AskedInv ==
  /\ SessionTypeOK
  /\ replies \in [Terminals -> Seq(Reply)]
  /\ \A m \in sent :
       MessageFits(m, screen[m.from], waiting[m.from], link[m.from], replies[m.from],
                   data.orders)
  /\ \A m, n \in sent : Alive(m) /\ Alive(n) /\ m.from = n.from => m = n
  /\ \A t \in Terminals :
       TerminalFits(screen[t], waiting[t], link[t], replies[t], data.orders)

LEMMA AskedAtFirst == SessionInit => AskedInv
<1> SUFFICES ASSUME SessionInit PROVE AskedInv
  OBVIOUS
<1> USE DEF SessionInit
<1>1. Bare("main", None) \in Screen
  BY DEF Bare, Screen
<1>2. data \in Server
  BY StartsAssumption
<1>3. SessionTypeOK
  BY <1>1, <1>2 DEF SessionTypeOK
<1>4. replies \in [Terminals -> Seq(Reply)]
  OBVIOUS
<1>5. \A t \in Terminals :
        TerminalFits(screen[t], waiting[t], link[t], replies[t], data.orders)
  BY DEF TerminalFits, ScreenFits, Bare, ConsumerScreens
<1> QED BY <1>3, <1>4, <1>5 DEF AskedInv

\* A step of terminal t that the other terminals do not notice.
OnlyAt(t) ==
  /\ data' = data
  /\ \A v \in Terminals \ {t} :
       /\ screen'[v] = screen[v] /\ waiting'[v] = waiting[v]
       /\ link'[v] = link[v] /\ replies'[v] = replies[v]

\* Such a step keeps the invariant when it does so at t, and when of what t has
\* sent only a message that is new can be alive.
LEMMA OnlyAtKeeps ==
  ASSUME AskedInv, NEW t \in Terminals, OnlyAt(t), SessionTypeOK',
         replies' \in [Terminals -> Seq(Reply)],
         TerminalFits(screen'[t], waiting'[t], link'[t], replies'[t], data.orders),
         \A m \in sent' : m.from = t =>
           MessageFits(m, screen'[t], waiting'[t], link'[t], replies'[t], data.orders),
         \A m, n \in sent' :
           m.from = t /\ n.from = t /\ m.link = link'[t] /\ n.link = link'[t] => m = n,
         \A m \in sent' : m.from # t => m \in sent
  PROVE  AskedInv'
<1>1. \A m \in sent' : m.from \in Terminals
  BY DEF SessionTypeOK, Message
<1>2. \A m \in sent' :
        MessageFits(m, screen'[m.from], waiting'[m.from], link'[m.from], replies'[m.from],
                    data.orders)
  <2> SUFFICES ASSUME NEW m \in sent'
               PROVE  MessageFits(m, screen'[m.from], waiting'[m.from], link'[m.from],
                                  replies'[m.from], data.orders)
    OBVIOUS
  <2>1. CASE m.from = t
    BY <2>1
  <2>2. CASE m.from # t
    <3>1. m \in sent /\ m.from \in Terminals \ {t}
      BY <1>1, <2>2
    <3>2. /\ screen'[m.from] = screen[m.from] /\ waiting'[m.from] = waiting[m.from]
          /\ link'[m.from] = link[m.from] /\ replies'[m.from] = replies[m.from]
      BY <3>1 DEF OnlyAt
    <3>3. MessageFits(m, screen[m.from], waiting[m.from], link[m.from], replies[m.from],
                      data.orders)
      BY <3>1 DEF AskedInv
    <3> QED BY <3>2, <3>3
  <2> QED BY <2>1, <2>2
<1>3. \A m, n \in sent' :
        m.link = link'[m.from] /\ n.link = link'[n.from] /\ m.from = n.from => m = n
  <2> SUFFICES ASSUME NEW m \in sent', NEW n \in sent', m.link = link'[m.from],
                      n.link = link'[n.from], m.from = n.from
               PROVE  m = n
    OBVIOUS
  <2>1. CASE m.from = t
    BY <2>1
  <2>2. CASE m.from # t
    <3>1. m \in sent /\ n \in sent /\ link'[m.from] = link[m.from]
      BY <1>1, <2>2 DEF OnlyAt
    <3> QED BY <3>1 DEF AskedInv, Alive
  <2> QED BY <2>1, <2>2
<1>4. \A v \in Terminals :
        TerminalFits(screen'[v], waiting'[v], link'[v], replies'[v], data.orders)
  <2> SUFFICES ASSUME NEW v \in Terminals
               PROVE  TerminalFits(screen'[v], waiting'[v], link'[v], replies'[v], data.orders)
    OBVIOUS
  <2>1. CASE v # t
    <3>1. /\ screen'[v] = screen[v] /\ waiting'[v] = waiting[v]
          /\ link'[v] = link[v] /\ replies'[v] = replies[v]
      BY <2>1 DEF OnlyAt
    <3>2. TerminalFits(screen[v], waiting[v], link[v], replies[v], data.orders)
      BY DEF AskedInv
    <3> QED BY <3>1, <3>2
  <2> QED BY <2>1
<1>5. data' = data
  BY DEF OnlyAt
<1> QED BY <1>2, <1>3, <1>4, <1>5 DEF AskedInv, Alive

\* Nothing that was sent can be answered while nothing is awaited; closing the
\* connection, or making a new one, changes nothing about that.
LEMMA NothingAlive ==
  ASSUME NEW m, NEW s, NEW w, NEW l \in Int, NEW rs, NEW o, MessageFits(m, s, w, l, rs, o),
         NEW s1, NEW w1, NEW l1, NEW rs1,
         \/ l1 = l /\ (w.entry = None \/ rs # << >> \/ l <= 0)
         \/ l1 = -l /\ l > 0
         \/ l1 = 1 - l /\ l <= 0
  PROVE  MessageFits(m, s1, w1, l1, rs1, o) /\ m.link # l1
<1>1. /\ m.link \in Nat \ {0} /\ (m.link <= l \/ m.link <= -l)
      /\ m.link = l => w.entry # None /\ rs = << >>
  BY DEF MessageFits
<1>2. m.link # l1 /\ l1 \in Int
  BY <1>1
<1>3. m.link <= l1 \/ m.link <= -l1
  BY <1>1
<1> QED BY <1>1, <1>2, <1>3 DEF MessageFits

\* The parts of the invariant at a terminal.
LEMMA AtTerminal ==
  ASSUME AskedInv, NEW t \in Terminals
  PROVE  /\ screen[t] \in Screen /\ link[t] \in Int
         /\ waiting[t] \in [count : Nat, entry : Entries \cup {None}]
         /\ waiting[t].count \in Nat
         /\ Outstanding(t) => waiting[t].entry \in Entries
         /\ TerminalFits(screen[t], waiting[t], link[t], replies[t], data.orders)
         /\ ScreenFits(screen[t], data.orders)
         /\ Outstanding(t) => link[t] > 0 /\ waiting[t].entry.from = screen[t].at
         /\ ~ Outstanding(t) => replies[t] = << >>
         /\ \A m \in sent : m.from = t =>
              MessageFits(m, screen[t], waiting[t], link[t], replies[t], data.orders)
<1>1. /\ screen[t] \in Screen /\ link[t] \in Int
      /\ waiting[t] \in [count : Nat, entry : Entries \cup {None}]
  BY DEF AskedInv, SessionTypeOK
<1>2. TerminalFits(screen[t], waiting[t], link[t], replies[t], data.orders)
  BY DEF AskedInv
<1>3. /\ ScreenFits(screen[t], data.orders)
      /\ Outstanding(t) => link[t] > 0 /\ waiting[t].entry.from = screen[t].at
      /\ ~ Outstanding(t) => replies[t] = << >>
  BY <1>2 DEF TerminalFits, Outstanding
<1>4. \A m \in sent : m.from = t =>
        MessageFits(m, screen[t], waiting[t], link[t], replies[t], data.orders)
  BY DEF AskedInv
<1>5. waiting[t].count \in Nat /\ (Outstanding(t) => waiting[t].entry \in Entries)
  BY <1>1 DEF Outstanding
<1> QED BY <1>1, <1>2, <1>3, <1>4, <1>5

LEMMA BareIs ==
  ASSUME NEW at, NEW user
  PROVE  /\ Bare(at, user).at = at /\ Bare(at, user).user = user
         /\ at \in {"main", "merchant", "goods", "selected", "consumer", "cart", "adding",
                    "changing", "confirm", "orders", "order"}
              /\ user \in Users \cup {None} => Bare(at, user) \in Screen
BY DEF Bare, Screen

\* The screen of the main menu fits whatever the orders are.
LEMMA MainFits ==
  ASSUME NEW o
  PROVE  Bare("main", None) \in Screen /\ ScreenFits(Bare("main", None), o)
BY BareIs DEF ScreenFits, ConsumerScreens

\* A request is a consumer's when its entry is, and is for the recharge of one.
LEMMA RechargesAreConsumers ==
  ASSUME AskedInv, NEW t \in Terminals, Outstanding(t), waiting[t].entry.op = "recharge"
  PROVE  screen[t].user \in Consumers
<1>1. EntryFits(waiting[t].entry) /\ ScreenFits(screen[t], data.orders)
      /\ waiting[t].entry.from = screen[t].at
  BY AtTerminal, EntriesFit
<1> QED BY <1>1 DEF EntryFits, ScreenFits, ConsumerRequests

\* The terminal is back in the main menu, without a connection.
LEMMA GoneBackKeepsAsked ==
  ASSUME AskedInv, NEW t \in Terminals, Outstanding(t), Disconnected(t), BackToMain(t),
         UNCHANGED <<sent, data, told, charges>>
  PROVE  AskedInv'
<1> USE DEF Disconnected, BackToMain
<1>1. /\ link[t] \in Int /\ link[t] > 0
      /\ screen[t] \in Screen
      /\ waiting[t] \in [count : Nat, entry : Entries \cup {None}]
  BY AtTerminal
<1>2. SessionTypeOK
  BY DEF AskedInv
<1>3. PICK w : w = [waiting[t] EXCEPT !.entry = None]
  OBVIOUS
<1>4. w \in [count : Nat, entry : Entries \cup {None}] /\ w.entry = None
  BY <1>1, <1>3
<1>5. waiting' = [waiting EXCEPT ![t] = w]
  BY <1>3
<1>6. /\ screen'[t] = Bare("main", None) /\ waiting'[t] = w
      /\ link'[t] = -link[t] /\ replies'[t] = << >>
  BY <1>2, <1>5 DEF SessionTypeOK, AskedInv
<1>7. OnlyAt(t)
  BY <1>2, <1>5 DEF SessionTypeOK, AskedInv, OnlyAt
<1>8. SessionTypeOK'
  <2>1. screen' \in [Terminals -> Screen]
    BY <1>2, MainFits DEF SessionTypeOK
  <2>2. link' \in [Terminals -> Int]
    BY <1>1, <1>2 DEF SessionTypeOK
  <2>3. waiting' \in [Terminals -> [count : Nat, entry : Entries \cup {None}]]
    BY <1>2, <1>4, <1>5 DEF SessionTypeOK
  <2>4. failed' \in [Users -> Nat]
    <3>1. failed \in [Users -> Nat]
      BY <1>2 DEF SessionTypeOK
    <3>2. waiting[t].entry.op = "recharge" => screen[t].user \in Users
      BY RechargesAreConsumers DEF Users
    <3> QED BY <3>1, <3>2
  <2> QED BY <1>2, <2>1, <2>2, <2>3, <2>4 DEF SessionTypeOK
<1>9. replies' \in [Terminals -> Seq(Reply)]
  BY DEF AskedInv
<1>10. TerminalFits(screen'[t], waiting'[t], link'[t], replies'[t], data.orders)
  BY <1>4, <1>6, MainFits DEF TerminalFits
<1>11. \A m \in sent' : m.from = t =>
         /\ MessageFits(m, screen'[t], waiting'[t], link'[t], replies'[t], data.orders)
         /\ m.link # link'[t]
  BY <1>1, <1>6, AtTerminal, NothingAlive
<1> QED BY <1>7, <1>8, <1>9, <1>10, <1>11, OnlyAtKeeps

LEMMA GiveUpKeepsAsked ==
  ASSUME AskedInv, NEW t \in Terminals, GiveUp(t)
  PROVE  AskedInv'
BY GoneBackKeepsAsked DEF GiveUp

LEMMA ReceiveFailsKeepsAsked ==
  ASSUME AskedInv, NEW t \in Terminals, ReceiveFails(t)
  PROVE  AskedInv'
BY GoneBackKeepsAsked DEF ReceiveFails

\* Only the screen changes, and nothing is awaited.
LEMMA ScreenKeepsAsked ==
  ASSUME AskedInv, NEW t \in Terminals, ~ Outstanding(t), NEW s \in Screen,
         ScreenFits(s, data.orders), screen' = [screen EXCEPT ![t] = s],
         UNCHANGED <<link, waiting, sent, replies, data, told, failed, charges>>
  PROVE  AskedInv'
<1>1. SessionTypeOK
  BY DEF AskedInv
<1>2. screen'[t] = s /\ OnlyAt(t) /\ SessionTypeOK'
  BY <1>1 DEF SessionTypeOK, OnlyAt
<1>3. replies' \in [Terminals -> Seq(Reply)]
  BY DEF AskedInv
<1>4. waiting[t].entry = None /\ replies[t] = << >> /\ link[t] \in Int
  BY AtTerminal DEF Outstanding
<1>5. TerminalFits(screen'[t], waiting'[t], link'[t], replies'[t], data.orders)
  BY <1>2, <1>4 DEF TerminalFits
<1>6. \A m \in sent' : m.from = t =>
         /\ MessageFits(m, screen'[t], waiting'[t], link'[t], replies'[t], data.orders)
         /\ m.link # link'[t]
  BY <1>4, AtTerminal, NothingAlive
<1> QED BY <1>2, <1>3, <1>5, <1>6, OnlyAtKeeps

LEMMA ConnectFailsKeepsAsked ==
  ASSUME AskedInv, NEW t \in Terminals, ConnectFails(t)
  PROVE  AskedInv'
BY MainFits, ScreenKeepsAsked DEF ConnectFails

\* What a request carries fits the orders when it is made from a screen that does.
LEMMA RequestsFit ==
  ASSUME AskedInv, NEW t \in Terminals, NEW e \in Entries, NEW value \in Values(t, e),
         e.from = screen[t].at
  PROVE  /\ RequestFits(Request(t, e, value), data.orders)
         /\ Request(t, e, value).no = waiting[t].count + 1
         /\ Request(t, e, value).op = e.op
         /\ Request(t, e, value).user = screen[t].user
         /\ Request(t, e, value) \in
              [no : Nat, op : {x.op : x \in Entries}, user : Users \cup {None}, value : Nat,
               total : Nat, known : BOOLEAN]
<1> DEFINE r == Request(t, e, value)
<1>1. /\ r.no = waiting[t].count + 1 /\ r.op = e.op /\ r.user = screen[t].user
      /\ r.value = value /\ r.total = screen[t].total
      /\ r = [no |-> r.no, op |-> e.op, user |-> r.user, value |-> r.value,
              total |-> r.total, known |-> screen[t].known]
  BY DEF Request
<1>2. EntryFits(e) /\ ScreenFits(screen[t], data.orders) /\ screen[t] \in Screen
      /\ waiting[t].count \in Nat /\ data \in Server
  BY AtTerminal, EntriesFit DEF AskedInv, SessionTypeOK
<1>3. value \in Nat /\ (e.op = "price" => value \in Prices)
  <2>1. screen[t].order \in Nat
    BY <1>2 DEF Screen
  <2>2. CASE e.op = "price"
    BY <2>2, ClientSessionAssumption DEF Values
  <2>3. CASE e.op # "price"
    BY <2>1, <2>3 DEF Values
  <2> QED BY <2>2, <2>3
<1>4. e.op \in {"pay", "cancel"} => value = screen[t].order /\ screen[t].at = "order"
  <2>1. CASE e.op \in {"pay", "cancel"}
    BY <1>2, <2>1 DEF Values, EntryFits
  <2> QED BY <2>1
<1>5. e.op \in ConsumerRequests => screen[t].user \in Consumers
  BY <1>2 DEF EntryFits, ScreenFits
<1>6. e.op \in {"pay", "cancel"} =>
        /\ value \in Owned(data.orders, screen[t].user)
        /\ screen[t].total = data.orders[value].total
  BY <1>2, <1>4 DEF ScreenFits
<1>7. /\ screen[t].user \in Users \cup {None} /\ screen[t].total \in Nat
      /\ screen[t].known \in BOOLEAN
  BY <1>2 DEF Screen
<1> HIDE DEF r
<1>8. RequestFits(r, data.orders)
  BY <1>1, <1>3, <1>5, <1>6 DEF RequestFits
<1>9. r \in [no : Nat, op : {x.op : x \in Entries}, user : Users \cup {None}, value : Nat,
               total : Nat, known : BOOLEAN]
  BY <1>1, <1>2, <1>3, <1>7
<1> QED BY <1>1, <1>8, <1>9 DEF r

LEMMA SendRequestKeepsAsked ==
  ASSUME AskedInv, NEW t \in Terminals, NEW e \in Entries, NEW value \in Values(t, e),
         SendRequest(t, e, value)
  PROVE  AskedInv'
<1>1. /\ ~ Outstanding(t) /\ e.from = screen[t].at
      /\ waiting' = [waiting EXCEPT ![t] = [count |-> @.count + 1, entry |-> e]]
      /\ link' = [link EXCEPT ![t] = IF Connected(t) THEN @ ELSE 1 - @]
      /\ sent' = sent \cup SentOnce(t, Request(t, e, value))
      /\ UNCHANGED <<screen, replies, data, told, failed, charges>>
  BY DEF SendRequest
<1>2. SessionTypeOK /\ replies \in [Terminals -> Seq(Reply)]
  BY DEF AskedInv
<1>3. /\ waiting[t].entry = None /\ replies[t] = << >> /\ link[t] \in Int
      /\ waiting[t].count \in Nat /\ ScreenFits(screen[t], data.orders)
  BY <1>1, AtTerminal DEF Outstanding
<1>4. PICK w : w = [count |-> waiting[t].count + 1, entry |-> e]
  OBVIOUS
<1>5. PICK l : l = IF link[t] > 0 THEN link[t] ELSE 1 - link[t]
  OBVIOUS
<1>6. /\ l \in Int /\ l > 0
      /\ \/ l = link[t]
         \/ l = 1 - link[t] /\ link[t] <= 0
  BY <1>3, <1>5
<1>7. /\ w \in [count : Nat, entry : Entries \cup {None}]
      /\ w.entry = e /\ w.count = waiting[t].count + 1 /\ e # None
  BY <1>3, <1>4, NoneAssumption
<1>8. /\ screen'[t] = screen[t] /\ waiting'[t] = w /\ link'[t] = l /\ replies'[t] = << >>
  BY <1>1, <1>2, <1>3, <1>4, <1>5 DEF SessionTypeOK, Connected
<1>9. OnlyAt(t)
  BY <1>1, <1>2 DEF SessionTypeOK, OnlyAt
<1>10. PICK r : r = Request(t, e, value)
  OBVIOUS
<1>11. PICK n : n = [from |-> t, link |-> l, request |-> r]
  OBVIOUS
<1>12. sent' = sent \cup {n}
  BY <1>1, <1>5, <1>10, <1>11 DEF SentOnce, Connected
<1>13. /\ RequestFits(r, data.orders)
       /\ r.no = waiting[t].count + 1 /\ r.op = e.op /\ r.user = screen[t].user
       /\ r \in [no : Nat, op : {x.op : x \in Entries}, user : Users \cup {None},
                 value : Nat, total : Nat, known : BOOLEAN]
  BY <1>1, <1>10, RequestsFit
<1>14. n \in Message /\ n.from = t /\ n.link = l /\ n.request = r
  BY <1>6, <1>11, <1>13 DEF Message
<1>15. SessionTypeOK'
  <2>1. waiting' \in [Terminals -> [count : Nat, entry : Entries \cup {None}]]
    BY <1>1, <1>2, <1>4, <1>7 DEF SessionTypeOK
  <2>2. link' \in [Terminals -> Int]
    BY <1>1, <1>2, <1>3 DEF SessionTypeOK
  <2>3. sent' \subseteq Message
    BY <1>2, <1>12, <1>14 DEF SessionTypeOK
  <2> QED BY <1>1, <1>2, <2>1, <2>2, <2>3 DEF SessionTypeOK
<1>16. TerminalFits(screen'[t], waiting'[t], link'[t], replies'[t], data.orders)
  BY <1>1, <1>3, <1>6, <1>7, <1>8 DEF TerminalFits
<1>17. \A m \in sent : m.from = t =>
         /\ MessageFits(m, screen'[t], waiting'[t], link'[t], replies'[t], data.orders)
         /\ m.link # link'[t]
  BY <1>3, <1>6, <1>8, AtTerminal, NothingAlive
<1>18. MessageFits(n, screen'[t], waiting'[t], link'[t], replies'[t], data.orders)
  BY <1>6, <1>7, <1>8, <1>13, <1>14 DEF MessageFits
<1>19. \A m \in sent' : m.from = t =>
         MessageFits(m, screen'[t], waiting'[t], link'[t], replies'[t], data.orders)
  BY <1>12, <1>17, <1>18
<1>20. \A m, m1 \in sent' :
         m.from = t /\ m1.from = t /\ m.link = link'[t] /\ m1.link = link'[t] => m = m1
  BY <1>12, <1>17
<1>21. \A m \in sent' : m.from # t => m \in sent
  BY <1>12, <1>14
<1>22. replies' \in [Terminals -> Seq(Reply)]
  BY <1>1, <1>2
<1> QED BY <1>9, <1>15, <1>16, <1>19, <1>20, <1>21, <1>22, OnlyAtKeeps

\* Where a choice that sends nothing can lead.
LEMMA MovesFit ==
  \A at, next : <<at, next>> \in Moves =>
    /\ next \in {"main", "merchant", "goods", "selected", "consumer", "cart", "adding",
                 "changing", "confirm", "orders", "order"}
    /\ next \in ConsumerScreens => at \in ConsumerScreens
    /\ next \notin {"confirm", "orders"}
    /\ next = "order" => at = "orders"
BY DEF Moves, ConsumerScreens

LEMMA MoveKeepsAsked ==
  ASSUME AskedInv, NEW t \in Terminals, NEW next, Move(t, next)
  PROVE  AskedInv'
<1>1. /\ ~ Outstanding(t) /\ <<screen[t].at, next>> \in Moves
      /\ UNCHANGED <<link, waiting, sent, replies, data, told, failed, charges>>
  BY DEF Move
<1>2. /\ screen[t] \in Screen /\ ScreenFits(screen[t], data.orders)
      /\ screen[t].user \in Users \cup {None}
  BY AtTerminal DEF Screen
<1>3. data \in Server
  BY DEF AskedInv, SessionTypeOK
<1>4. CASE next = "order"
  <2>1. PICK row \in screen[t].list :
          screen' = [screen EXCEPT ![t] =
                       [Bare("order", screen[t].user) EXCEPT
                          !.order = row.order, !.total = row.total]]
    BY <1>4 DEF Move, OrderScreens, Picked
  <2>2. PICK i, total : i = row.order /\ total = row.total
    OBVIOUS
  <2>3. PICK s : s = [Bare("order", screen[t].user) EXCEPT !.order = i, !.total = total]
    OBVIOUS
  <2>4. screen[t].at = "orders"
    BY <1>1, <1>4, MovesFit
  <2>5. /\ row \in Row /\ screen[t].user \in Consumers
        /\ i \in Owned(data.orders, screen[t].user)
        /\ total = data.orders[i].total
    BY <1>2, <2>1, <2>2, <2>4 DEF ScreenFits, ListFits, ConsumerScreens
  <2>6. i \in Nat /\ total \in Nat
    BY <2>2, <2>5 DEF Row
  <2>7. s = [at |-> "order", user |-> screen[t].user, list |-> {}, order |-> i,
             total |-> total, known |-> TRUE]
    BY <2>3 DEF Bare
  <2>8. s \in Screen
    BY <1>2, <2>6, <2>7 DEF Screen
  <2>9. ScreenFits(s, data.orders)
    BY <2>5, <2>7 DEF ScreenFits
  <2>10. screen' = [screen EXCEPT ![t] = s]
    BY <2>1, <2>2, <2>3
  <2> QED BY <1>1, <2>8, <2>9, <2>10, ScreenKeepsAsked
<1>5. CASE next # "order"
  <2>1. PICK s : /\ s = Bare(next, IF next = "main" THEN None ELSE screen[t].user)
                 /\ screen' = [screen EXCEPT ![t] = s]
    BY <1>5 DEF Move
  <2>2. /\ next \in {"main", "merchant", "goods", "selected", "consumer", "cart", "adding",
                     "changing", "confirm", "orders", "order"}
        /\ next \in ConsumerScreens => screen[t].at \in ConsumerScreens
        /\ next \notin {"confirm", "orders", "order"}
    BY <1>1, <1>5, MovesFit
  <2>3. /\ s \in Screen /\ s.at = next
        /\ s.user = IF next = "main" THEN None ELSE screen[t].user
    BY <1>2, <2>1, <2>2, BareIs
  <2>4. next = "main" => next \notin ConsumerScreens
    BY DEF ConsumerScreens
  <2>5. ScreenFits(s, data.orders)
    BY <1>2, <2>2, <2>3, <2>4 DEF ScreenFits
  <2> QED BY <1>1, <2>1, <2>3, <2>5, ScreenKeepsAsked
<1> QED BY <1>4, <1>5

\* The screens after an answer that fits.
LEMMA ShowsFit ==
  ASSUME AskedInv, NEW t \in Terminals, Outstanding(t), NEW a \in Reply,
         AnswerFits(a, waiting[t], screen[t].user, data.orders),
         NEW s \in Shows(t, waiting[t].entry, a)
  PROVE  s \in Screen /\ ScreenFits(s, data.orders)
<1> DEFINE old == screen[t]
<1>1. PICK e : e = waiting[t].entry
  OBVIOUS
<1>2. /\ e \in Entries /\ EntryFits(e) /\ e.from = old.at
      /\ old \in Screen /\ ScreenFits(old, data.orders)
  BY <1>1, AtTerminal, EntriesFit
<1>3. /\ old.user \in Users \cup {None} /\ old.known \in BOOLEAN
      /\ old.at \in ConsumerScreens => old.user \in Consumers
  BY <1>2 DEF Screen, ScreenFits
<1>4. a.list \in SUBSET Row
  BY DEF Reply
<1>5. /\ ConsumerScreens \cap OtherScreens = {}
      /\ ConsumerScreens \cup OtherScreens =
           {"main", "merchant", "goods", "selected", "consumer", "cart", "adding",
            "changing", "confirm", "orders", "order"}
      /\ \A at \in {"main", "merchant", "selected"} : at \notin ConsumerScreens
  BY DEF ConsumerScreens, OtherScreens
<1>6. s \in Shows(t, e, a)
  BY <1>1
<1>7. CASE a.ok # "success"
  <2>1. PICK known : known = old.known
    OBVIOUS
  <2>2. s = [Bare(e.else, old.user) EXCEPT !.known = known]
    BY <1>6, <1>7, <2>1 DEF Shows
  <2>3. s = [at |-> e.else, user |-> old.user, list |-> {}, order |-> 0, total |-> 0,
             known |-> known]
    BY <2>2 DEF Bare
  <2>4. /\ e.else \in ConsumerScreens \cup OtherScreens
        /\ e.else \notin {"confirm", "orders", "order"}
        /\ e.else \in ConsumerScreens => old.user \in Consumers
    BY <1>2, <1>3, <1>5 DEF EntryFits
  <2>5. s \in Screen
    BY <1>3, <1>5, <2>1, <2>3, <2>4 DEF Screen
  <2>6. ScreenFits(s, data.orders)
    BY <2>3, <2>4 DEF ScreenFits
  <2> QED BY <2>5, <2>6
<1>8. CASE a.ok = "success" /\ e.op = "login"
  <2>1. e.done = "home"
    BY <1>2, <1>8 DEF EntryFits
  <2>2. PICK u \in Users : \E at : /\ at = IF u \in Merchants THEN "merchant" ELSE "consumer"
                                  /\ s = Bare(at, u)
    BY <1>6, <1>8, <2>1 DEF Shows
  <2>3. PICK at : at = (IF u \in Merchants THEN "merchant" ELSE "consumer") /\ s = Bare(at, u)
    BY <2>2
  <2>4. at \in {"merchant", "consumer"}
    BY <2>3
  <2>5. s \in Screen /\ s.at = at /\ s.user = u
    BY <2>3, <2>4, BareIs
  <2>6. at = "consumer" => u \in Consumers
    BY <2>3 DEF Users
  <2> QED BY <1>5, <2>4, <2>5, <2>6 DEF ScreenFits
<1>9. CASE a.ok = "success" /\ e.op # "login" /\ e.done = "orders"
  <2>1. PICK list : list = a.list
    OBVIOUS
  <2>2. s = [Bare("orders", old.user) EXCEPT !.list = list]
    BY <1>6, <1>9, <2>1 DEF Shows
  <2>3. s = [at |-> "orders", user |-> old.user, list |-> list, order |-> 0,
             total |-> 0, known |-> TRUE]
    BY <2>2 DEF Bare
  <2>4. e.op = "orders" /\ old.user \in Consumers
    BY <1>2, <1>3, <1>9 DEF EntryFits, ConsumerRequests
  <2>5. ListFits(list, old.user, data.orders)
    BY <1>1, <1>9, <2>1, <2>4 DEF AnswerFits
  <2>6. s \in Screen
    BY <1>3, <1>4, <2>1, <2>3 DEF Screen
  <2> QED BY <2>3, <2>4, <2>5, <2>6 DEF ScreenFits
<1>10. CASE a.ok = "success" /\ e.op # "login" /\ e.done = "selected"
  <2>1. PICK known \in BOOLEAN : known = (e.op # "batch")
    OBVIOUS
  <2>2. s = [Bare("selected", old.user) EXCEPT !.known = known]
    BY <1>6, <1>10, <2>1 DEF Shows
  <2>3. s = [at |-> "selected", user |-> old.user, list |-> {}, order |-> 0,
             total |-> 0, known |-> known]
    BY <2>2 DEF Bare
  <2>4. s \in Screen
    BY <1>3, <2>1, <2>3 DEF Screen
  <2>5. s.at = "selected"
    BY <2>3
  <2> QED BY <1>5, <2>4, <2>5 DEF ScreenFits
<1>11. CASE /\ a.ok = "success" /\ e.op # "login"
            /\ e.done \notin {"orders", "selected"}
  <2>1. s = Bare(e.done, old.user)
    BY <1>6, <1>11 DEF Shows
  <2>2. /\ e.done \in ConsumerScreens \cup OtherScreens
        /\ e.done \notin {"orders", "order"}
        /\ e.done \in ConsumerScreens => old.user \in Consumers
    BY <1>2, <1>3, <1>5, <1>11 DEF EntryFits
  <2>3. s \in Screen /\ s.at = e.done /\ s.user = old.user
    BY <1>3, <1>5, <2>1, <2>2, BareIs
  <2> QED BY <2>2, <2>3 DEF ScreenFits
<1> QED BY <1>7, <1>8, <1>9, <1>10, <1>11

\* What can be read is one answer, to the last request.
LEMMA OneAnswer ==
  ASSUME AskedInv, NEW t \in Terminals, replies[t] # << >>
  PROVE  /\ Outstanding(t) /\ Len(replies[t]) = 1
         /\ Head(replies[t]) \in Reply /\ replies[t] = <<Head(replies[t])>>
         /\ Tail(replies[t]) = << >>
         /\ AnswerFits(Head(replies[t]), waiting[t], screen[t].user, data.orders)
<1>1. TerminalFits(screen[t], waiting[t], link[t], replies[t], data.orders)
  BY AtTerminal
<1>2. PICK a \in Reply : /\ replies[t] = <<a>> /\ waiting[t].entry # None
                         /\ AnswerFits(a, waiting[t], screen[t].user, data.orders)
  BY <1>1 DEF TerminalFits
<1>3. Head(replies[t]) = a /\ Tail(replies[t]) = << >> /\ Len(replies[t]) = 1
  BY <1>2
<1> QED BY <1>2, <1>3 DEF Outstanding

LEMMA ReceiveKeepsAsked ==
  ASSUME AskedInv, NEW t \in Terminals, Receive(t)
  PROVE  AskedInv'
<1>1. /\ Outstanding(t) /\ replies[t] # << >>
      /\ replies' = [replies EXCEPT ![t] = Tail(@)]
      /\ waiting' = [waiting EXCEPT ![t].entry = None]
      /\ told' = IF waiting[t].entry.op = "recharge" /\ Head(replies[t]).ok = "success"
                 THEN [told EXCEPT ![screen[t].user] = @ + 1] ELSE told
      /\ UNCHANGED <<link, sent, data, failed, charges>>
  BY DEF Receive
<1>2. PICK s \in Shows(t, waiting[t].entry, Head(replies[t])) :
        screen' = [screen EXCEPT ![t] = s]
  BY DEF Receive
<1>3. /\ Head(replies[t]) \in Reply /\ Tail(replies[t]) = << >>
      /\ AnswerFits(Head(replies[t]), waiting[t], screen[t].user, data.orders)
  BY <1>1, OneAnswer
<1>4. s \in Screen /\ ScreenFits(s, data.orders)
  BY <1>1, <1>2, <1>3, ShowsFit
<1>5. SessionTypeOK /\ replies \in [Terminals -> Seq(Reply)]
  BY DEF AskedInv
<1>6. /\ waiting[t] \in [count : Nat, entry : Entries \cup {None}] /\ link[t] \in Int
  BY AtTerminal
<1>7. PICK w : w = [waiting[t] EXCEPT !.entry = None]
  OBVIOUS
<1>8. w \in [count : Nat, entry : Entries \cup {None}] /\ w.entry = None
  BY <1>6, <1>7
<1>9. waiting' = [waiting EXCEPT ![t] = w] /\ replies' = [replies EXCEPT ![t] = << >>]
  BY <1>1, <1>3, <1>7
<1>10. /\ screen'[t] = s /\ waiting'[t] = w /\ link'[t] = link[t] /\ replies'[t] = << >>
  BY <1>1, <1>2, <1>5, <1>9 DEF SessionTypeOK
<1>11. OnlyAt(t)
  BY <1>1, <1>2, <1>5, <1>9 DEF SessionTypeOK, OnlyAt
<1>12. SessionTypeOK'
  <2>1. screen' \in [Terminals -> Screen]
    BY <1>2, <1>4, <1>5 DEF SessionTypeOK
  <2>2. waiting' \in [Terminals -> [count : Nat, entry : Entries \cup {None}]]
    BY <1>5, <1>8, <1>9 DEF SessionTypeOK
  <2>3. told' \in [Users -> Nat]
    <3>1. told \in [Users -> Nat]
      BY <1>5 DEF SessionTypeOK
    <3>2. waiting[t].entry.op = "recharge" => screen[t].user \in Users
      BY <1>1, RechargesAreConsumers DEF Users
    <3> QED BY <1>1, <3>1, <3>2
  <2> QED BY <1>1, <1>5, <2>1, <2>2, <2>3 DEF SessionTypeOK
<1>13. replies' \in [Terminals -> Seq(Reply)]
  BY <1>5, <1>9
<1>14. TerminalFits(screen'[t], waiting'[t], link'[t], replies'[t], data.orders)
  BY <1>4, <1>8, <1>10 DEF TerminalFits
<1>15. \A m \in sent' : m.from = t =>
         /\ MessageFits(m, screen'[t], waiting'[t], link'[t], replies'[t], data.orders)
         /\ m.link # link'[t]
  BY <1>1, <1>6, <1>10, AtTerminal, NothingAlive
<1> QED BY <1>1, <1>11, <1>12, <1>13, <1>14, <1>15, OnlyAtKeeps

LEMMA FirstAppended ==
  ASSUME NEW s, s = << >>, NEW a
  PROVE  Append(s, a) = <<a>>
OBVIOUS

\* What is known of requests, screens and answers stays true while orders stay.
LEMMA OrdersStayKeeps ==
  ASSUME NEW o, NEW o1, OrdersStay(o, o1)
  PROVE  /\ \A u : Owned(o, u) \subseteq Owned(o1, u)
         /\ \A list, u : ListFits(list, u, o) => ListFits(list, u, o1)
         /\ \A r : RequestFits(r, o) => RequestFits(r, o1)
         /\ \A s : ScreenFits(s, o) => ScreenFits(s, o1)
         /\ \A a, w, u : AnswerFits(a, w, u, o) => AnswerFits(a, w, u, o1)
<1>1. \A u : Owned(o, u) \subseteq Owned(o1, u)
  BY DEF Owned, OrdersStay
<1>2. \A u : \A i \in Owned(o, u) : o1[i].total = o[i].total
  BY DEF Owned, OrdersStay
<1>3. \A r : RequestFits(r, o) => RequestFits(r, o1)
  BY <1>1, <1>2 DEF RequestFits
<1>4. \A list, u : ListFits(list, u, o) => ListFits(list, u, o1)
  BY <1>1, <1>2 DEF ListFits
<1>5. \A s : ScreenFits(s, o) => ScreenFits(s, o1)
  BY <1>1, <1>2, <1>4 DEF ScreenFits
<1>6. \A a, w, u : AnswerFits(a, w, u, o) => AnswerFits(a, w, u, o1)
  BY <1>4 DEF AnswerFits
<1> QED BY <1>1, <1>3, <1>4, <1>5, <1>6

LEMMA OrdersStayKeepsThe ==
  ASSUME NEW o, NEW o1, OrdersStay(o, o1)
  PROVE  /\ \A m, s, w, l, rs :
              MessageFits(m, s, w, l, rs, o) => MessageFits(m, s, w, l, rs, o1)
         /\ \A s, w, l, rs : TerminalFits(s, w, l, rs, o) => TerminalFits(s, w, l, rs, o1)
BY OrdersStayKeeps DEF MessageFits, TerminalFits

LEMMA SameOrdersStay == \A o : OrdersStay(o, o)
BY DEF OrdersStay

\* What the server keeps after request r.
After(r) == IF Handled(r) = None THEN data ELSE Handled(r)

LEMMA AfterIsRight ==
  ASSUME data \in Server, NEW r, RequestFits(r, data.orders)
  PROVE  After(r) \in Server /\ OrdersStay(data.orders, After(r).orders)
<1>1. CASE Handled(r) = None
  BY <1>1, SameOrdersStay DEF After
<1>2. CASE Handled(r) # None
  BY <1>2, HandlersAreRight DEF After, Right
<1> QED BY <1>1, <1>2

\* The response to a request fits what its terminal waits for.
LEMMA ResponseFits ==
  ASSUME data \in Server, NEW r, RequestFits(r, data.orders), r.no \in Nat,
         NEW w, w.count = r.no, w.entry.op = r.op
  PROVE  Response(r) \in Reply /\ AnswerFits(Response(r), w, r.user, data.orders)
<1>1. /\ Closed(r.no) \in Reply /\ Answer(r.no, "error") \in Reply
      /\ Answer(r.no, "success") \in Reply
      /\ \A ok : Answer(r.no, ok).no = r.no /\ Answer(r.no, ok).ok = ok
      /\ Closed(r.no).no = r.no /\ Closed(r.no).ok = "closed"
  BY DEF Closed, Answer, Reply
<1>2. CASE r.op = "batch" /\ ~ r.known
  BY <1>1, <1>2 DEF Response, AnswerFits
<1>3. CASE ~ (r.op = "batch" /\ ~ r.known) /\ Handled(r) = None
  BY <1>1, <1>3 DEF Response, AnswerFits
<1>4. CASE ~ (r.op = "batch" /\ ~ r.known) /\ Handled(r) # None
  <2>1. PICK list : list = IF r.op = "orders" THEN Listed(r.user) ELSE {}
    OBVIOUS
  <2>2. Response(r) = [Answer(r.no, "success") EXCEPT !.list = list]
    BY <1>4, <2>1 DEF Response
  <2>3. Response(r) = [no |-> r.no, ok |-> "success", list |-> list]
    BY <2>2 DEF Answer
  <2>4. ListFits(Listed(r.user), r.user, data.orders)
    <3> SUFFICES ASSUME NEW row \in Listed(r.user)
                 PROVE  /\ row \in Row /\ row.order \in Owned(data.orders, r.user)
                        /\ row.total = data.orders[row.order].total
      BY DEF ListFits
    <3>1. PICK i \in OrdersOf(r.user) :
            row = [order |-> i, total |-> data.orders[i].total,
                   status |-> data.orders[i].status]
      BY DEF Listed
    <3>2. i \in DOMAIN data.orders /\ i \in Owned(data.orders, r.user)
      BY DEF OrdersOf, Owned
    <3>3. i \in Nat /\ data.orders[i].total \in Nat /\ data.orders[i].status \in Status
      BY <3>2, OrdersAre DEF Order
    <3> QED BY <3>1, <3>2, <3>3 DEF Row
  <2>5. list \subseteq Row
    BY <2>1, <2>4 DEF ListFits
  <2>6. Response(r) \in Reply
    BY <2>3, <2>5 DEF Reply
  <2> QED BY <2>1, <2>3, <2>4, <2>6 DEF AnswerFits
<1> QED BY <1>2, <1>3, <1>4

LEMMA ServeKeepsAsked ==
  ASSUME AskedInv, NEW m \in sent, Serve(m)
  PROVE  AskedInv'
<1>1. /\ sent' = sent \ {m} /\ data' = After(m.request)
      /\ replies' = IF link[m.from] = m.link
                    THEN [replies EXCEPT ![m.from] = Append(@, Response(m.request))]
                    ELSE replies
      /\ UNCHANGED <<screen, link, waiting, told, failed>>
  BY DEF Serve, After
<1>2. SessionTypeOK /\ replies \in [Terminals -> Seq(Reply)]
  BY DEF AskedInv
<1>3. m.from \in Terminals /\ m.request.no \in Nat
  BY <1>2 DEF SessionTypeOK, Message
<1>4. /\ MessageFits(m, screen[m.from], waiting[m.from], link[m.from], replies[m.from],
                     data.orders)
      /\ RequestFits(m.request, data.orders)
  BY DEF AskedInv, MessageFits
<1>5. data \in Server
  BY <1>2 DEF SessionTypeOK
<1>6. data' \in Server /\ OrdersStay(data.orders, data'.orders)
  BY <1>1, <1>4, <1>5, AfterIsRight
<1>7. Alive(m) =>
        /\ waiting[m.from].entry # None /\ replies[m.from] = << >>
        /\ m.request.no = waiting[m.from].count
        /\ m.request.op = waiting[m.from].entry.op
        /\ m.request.user = screen[m.from].user
  BY <1>4 DEF MessageFits, Alive
<1>8. PICK a : a = Response(m.request)
  OBVIOUS
<1>9. Alive(m) =>
        /\ a \in Reply
        /\ AnswerFits(a, waiting[m.from], screen[m.from].user, data.orders)
  BY <1>3, <1>4, <1>5, <1>7, <1>8, ResponseFits
<1>10. /\ \A v \in Terminals : v # m.from \/ ~ Alive(m) => replies'[v] = replies[v]
       /\ Alive(m) => replies'[m.from] = <<a>>
       /\ replies' \in [Terminals -> Seq(Reply)]
  <2>1. CASE Alive(m)
    <3>1. replies' = [replies EXCEPT ![m.from] = <<a>>]
      <4>1. Append(replies[m.from], a) = <<a>>
        BY <1>7, <2>1, FirstAppended
      <4>2. replies' = [replies EXCEPT ![m.from] = Append(replies[m.from], a)]
        BY <1>1, <1>8, <2>1 DEF Alive
      <4> QED BY <4>1, <4>2
    <3>2. <<a>> \in Seq(Reply)
      BY <1>9, <2>1
    <3> QED BY <1>2, <1>3, <2>1, <3>1, <3>2
  <2>2. CASE ~ Alive(m)
    BY <1>1, <1>2, <2>2 DEF Alive
  <2> QED BY <2>1, <2>2
<1>11. SessionTypeOK'
  BY <1>1, <1>2, <1>6 DEF SessionTypeOK
<1>12. \A n \in sent' :
         MessageFits(n, screen[n.from], waiting[n.from], link[n.from], replies'[n.from],
                     data'.orders)
  <2> SUFFICES ASSUME NEW n \in sent'
               PROVE  MessageFits(n, screen[n.from], waiting[n.from], link[n.from],
                                  replies'[n.from], data'.orders)
    OBVIOUS
  <2>1. n \in sent /\ n # m /\ n.from \in Terminals
    BY <1>1, <1>2 DEF SessionTypeOK, Message
  <2>2. MessageFits(n, screen[n.from], waiting[n.from], link[n.from], replies[n.from],
                    data.orders)
    BY <2>1 DEF AskedInv
  <2>3. MessageFits(n, screen[n.from], waiting[n.from], link[n.from], replies'[n.from],
                    data.orders)
    <3>1. CASE n.from # m.from \/ ~ Alive(m)
      <4>1. replies'[n.from] = replies[n.from]
        BY <1>10, <2>1, <3>1
      <4> QED BY <2>2, <4>1
    <3>2. CASE n.from = m.from /\ Alive(m)
      <4>1. n.link # link[n.from]
        BY <2>1, <3>2 DEF AskedInv, Alive
      <4> QED BY <2>2, <4>1 DEF MessageFits
    <3> QED BY <3>1, <3>2
  <2> QED BY <1>6, <2>3, OrdersStayKeepsThe
<1>13. \A n, k \in sent' :
         n.link = link[n.from] /\ k.link = link[k.from] /\ n.from = k.from => n = k
  BY <1>1 DEF AskedInv, Alive
<1>14. \A t \in Terminals :
         TerminalFits(screen[t], waiting[t], link[t], replies'[t], data'.orders)
  <2> SUFFICES ASSUME NEW t \in Terminals
               PROVE  TerminalFits(screen[t], waiting[t], link[t], replies'[t], data'.orders)
    OBVIOUS
  <2>1. TerminalFits(screen[t], waiting[t], link[t], replies[t], data.orders)
    BY DEF AskedInv
  <2>2. TerminalFits(screen[t], waiting[t], link[t], replies'[t], data.orders)
    <3>1. CASE t # m.from \/ ~ Alive(m)
      <4>1. replies'[t] = replies[t]
        BY <1>10, <3>1
      <4> QED BY <2>1, <4>1
    <3>2. CASE t = m.from /\ Alive(m)
      BY <1>7, <1>9, <1>10, <2>1, <3>2 DEF TerminalFits
    <3> QED BY <3>1, <3>2
  <2> QED BY <1>6, <2>2, OrdersStayKeepsThe
<1>15. link' = link /\ screen' = screen /\ waiting' = waiting
  BY <1>1
<1> QED BY <1>10, <1>11, <1>12, <1>13, <1>14, <1>15 DEF AskedInv, Alive

LEMMA QuietKeepsAsked ==
  ASSUME AskedInv, UNCHANGED sessionVars
  PROVE  AskedInv'
<1>1. /\ screen' = screen /\ link' = link /\ waiting' = waiting /\ sent' = sent
      /\ replies' = replies /\ data' = data /\ told' = told /\ failed' = failed
  BY DEF sessionVars
<1> QED BY <1>1 DEF AskedInv, SessionTypeOK, Alive

LEMMA StepKeepsAsked == AskedInv /\ [SessionNext]_sessionVars => AskedInv'
<1> SUFFICES ASSUME AskedInv, [SessionNext]_sessionVars PROVE AskedInv'
  OBVIOUS
<1>1. ASSUME NEW t \in Terminals, Client(t) PROVE AskedInv'
  <2>1. ASSUME NEW e \in Entries, NEW value \in Values(t, e), SendRequest(t, e, value)
        PROVE  AskedInv'
    BY <2>1, SendRequestKeepsAsked
  <2>2. CASE GiveUp(t)
    BY <2>2, GiveUpKeepsAsked
  <2>3. CASE ConnectFails(t)
    BY <2>3, ConnectFailsKeepsAsked
  <2>4. CASE Receive(t)
    BY <2>4, ReceiveKeepsAsked
  <2>5. CASE ReceiveFails(t)
    BY <2>5, ReceiveFailsKeepsAsked
  <2>6. ASSUME NEW next, Move(t, next) PROVE AskedInv'
    BY <2>6, MoveKeepsAsked
  <2> QED BY <1>1, <2>1, <2>2, <2>3, <2>4, <2>5, <2>6 DEF Client
<1>2. ASSUME NEW m \in sent, Serve(m) PROVE AskedInv'
  BY <1>2, ServeKeepsAsked
<1>3. CASE UNCHANGED sessionVars
  BY <1>3, QuietKeepsAsked
<1> QED BY <1>1, <1>2, <1>3 DEF SessionNext

\* What is known of the connections holds of every reachable state.
THEOREM SessionInvariant == SessionSpec => []AskedInv
BY AskedAtFirst, StepKeepsAsked, PTL DEF SessionSpec

\* Screens, connections, messages and the server's data keep their types: an
\* order that is picked exists, and a history counts recharges of users.
THEOREM SessionTyped == SessionSpec => []SessionTypeOK
<1>1. AskedInv => SessionTypeOK
  BY DEF AskedInv
<1> QED BY <1>1, SessionInvariant, PTL

\* No late answer to a request that was given up is ever read as the answer to
\* a later one: closing the socket leaves it behind (Client.cpp, sendRequest).
THEOREM SessionAnswersAsked == SessionSpec => []ShownAnswersAsked
<1>1. AskedInv => ShownAnswersAsked
  BY OneAnswer DEF ShownAnswersAsked, AnswerFits
<1> QED BY <1>1, SessionInvariant, PTL

-----------------------------------------------------------------------------
(* What is charged. *)

LEMMA ChargeIsRight ==
  ASSUME data \in Server, NEW r, RequestFits(r, data.orders), NEW c \in Charge(r)
  PROVE  c.charged = c.listed
<1>1. r.op = "pay" /\ Handled(r) # None
  BY DEF Charge
<1>2. c.listed = r.total /\ c.charged = data.balance[r.user] - Handled(r).balance[r.user]
  BY <1>1 DEF Charge
<1>3. Takes(r, Handled(r))
  BY <1>1, HandlersAreRight DEF Right
<1> QED BY <1>1, <1>2, <1>3 DEF Takes, RequestFits

LEMMA StepKeepsCharges ==
  AskedInv /\ ChargedAsListed /\ [SessionNext]_sessionVars => ChargedAsListed'
<1> SUFFICES ASSUME AskedInv, ChargedAsListed, [SessionNext]_sessionVars
             PROVE  ChargedAsListed'
  OBVIOUS
<1>1. CASE charges' = charges
  BY <1>1 DEF ChargedAsListed
<1>2. ASSUME NEW m \in sent, Serve(m) PROVE ChargedAsListed'
  <2>1. charges' = charges \cup Charge(m.request)
    BY <1>2 DEF Serve
  <2>2. data \in Server /\ RequestFits(m.request, data.orders)
    BY DEF AskedInv, SessionTypeOK, MessageFits
  <2>3. \A c \in Charge(m.request) : c.charged = c.listed
    BY <2>2, ChargeIsRight
  <2> QED BY <2>1, <2>3 DEF ChargedAsListed
<1>3. ASSUME NEW t \in Terminals, Client(t) PROVE charges' = charges
  BY <1>3 DEF Client, SendRequest, GiveUp, ConnectFails, Receive, ReceiveFails, Move
<1> QED BY <1>1, <1>2, <1>3 DEF SessionNext, sessionVars

\* Whatever is bought, paid, cancelled or repriced from other terminals after a
\* user's list of orders was fetched, and however late the request is handled,
\* paying the order picked from that list takes the total the list showed.
THEOREM SessionChargesAsListed == SessionSpec => []ChargedAsListed
<1>1. SessionInit => ChargedAsListed
  BY DEF SessionInit, ChargedAsListed
<1> QED BY <1>1, SessionInvariant, StepKeepsCharges, PTL DEF SessionSpec

-----------------------------------------------------------------------------
(* The money users are told of. *)

\* The recharges of a user that are not handled; the terminals where one was
\* confirmed, or refused, and the user is not yet told.
Recharges(u) == {m \in sent : m.request.op = "recharge" /\ m.request.user = u}

Confirmed(u) == {t \in Asking(u) : replies[t] # << >> /\ Head(replies[t]).ok = "success"}

Refused(u) == {t \in Asking(u) : replies[t] # << >> /\ Head(replies[t]).ok # "success"}

\* A user holds n recharges: at least those that were or can still be confirmed;
\* those that can be credited yet stay within what was asked for.
Account(held, n, toldOf, confirmed, recharges, refused, failedOf, asking) ==
  /\ held = Deposit * n
  /\ toldOf + confirmed <= n
  /\ n + recharges + refused <= toldOf + failedOf + asking

Accounted(u) ==
  \E n \in Nat : Account(Held(data, u), n, told[u], Cardinality(Confirmed(u)),
                         Cardinality(Recharges(u)), Cardinality(Refused(u)), failed[u],
                         Cardinality(Asking(u)))

MoneyInv ==
  /\ AskedInv
  /\ IsFiniteSet(sent)
  /\ \A u \in Consumers : Accounted(u)

LEMMA CountedMore ==
  ASSUME NEW S, IsFiniteSet(S), NEW x, x \notin S, NEW T, T = S \cup {x}
  PROVE  IsFiniteSet(T) /\ Cardinality(T) = Cardinality(S) + 1
BY FS_AddElement

LEMMA CountedLess ==
  ASSUME NEW S, IsFiniteSet(S), NEW x \in S, NEW T, T = S \ {x}
  PROVE  IsFiniteSet(T) /\ Cardinality(T) = Cardinality(S) - 1
BY FS_RemoveElement

LEMMA CountedAtMost ==
  ASSUME NEW S, IsFiniteSet(S), NEW T, T \subseteq S
  PROVE  IsFiniteSet(T) /\ Cardinality(T) <= Cardinality(S)
BY FS_Subset

LEMMA Counts ==
  ASSUME IsFiniteSet(sent), NEW u
  PROVE  /\ IsFiniteSet(Asking(u)) /\ Cardinality(Asking(u)) \in Nat
         /\ IsFiniteSet(Confirmed(u)) /\ Cardinality(Confirmed(u)) \in Nat
         /\ IsFiniteSet(Refused(u)) /\ Cardinality(Refused(u)) \in Nat
         /\ IsFiniteSet(Recharges(u)) /\ Cardinality(Recharges(u)) \in Nat
<1>1. IsFiniteSet(Terminals)
  BY ClientSessionAssumption
<1>2. /\ Asking(u) \subseteq Terminals /\ Confirmed(u) \subseteq Terminals
      /\ Refused(u) \subseteq Terminals /\ Recharges(u) \subseteq sent
  BY DEF Asking, Confirmed, Refused, Recharges
<1>3. /\ IsFiniteSet(Asking(u)) /\ IsFiniteSet(Confirmed(u))
      /\ IsFiniteSet(Refused(u)) /\ IsFiniteSet(Recharges(u))
  BY <1>1, <1>2, CountedAtMost
<1> QED BY <1>3, FS_CardinalityType

\* What the other terminals ask for stays.
LEMMA ElsewhereStays ==
  ASSUME NEW t \in Terminals, OnlyAt(t), NEW u, NEW v \in Terminals \ {t}
  PROVE  /\ v \in Asking(u)' <=> v \in Asking(u)
         /\ v \in Confirmed(u)' <=> v \in Confirmed(u)
         /\ v \in Refused(u)' <=> v \in Refused(u)
<1>1. /\ screen'[v] = screen[v] /\ waiting'[v] = waiting[v]
      /\ link'[v] = link[v] /\ replies'[v] = replies[v]
  BY DEF OnlyAt
<1>2. v \in Asking(u)' <=> v \in Asking(u)
  BY <1>1 DEF Asking, Outstanding
<1> QED BY <1>1, <1>2 DEF Confirmed, Refused

\* Nothing happens to the money of user u in a step of terminal t.
LEMMA MoneyStays ==
  ASSUME NEW u \in Consumers, Accounted(u), NEW t \in Terminals, OnlyAt(t),
         told'[u] = told[u], failed'[u] = failed[u], Recharges(u)' = Recharges(u),
         t \notin Asking(u), t \notin Asking(u)'
  PROVE  Accounted(u)'
<1>1. /\ Asking(u) \subseteq Terminals /\ Asking(u)' \subseteq Terminals
      /\ Confirmed(u) \subseteq Asking(u) /\ Confirmed(u)' \subseteq Asking(u)'
      /\ Refused(u) \subseteq Asking(u) /\ Refused(u)' \subseteq Asking(u)'
  BY DEF Asking, Confirmed, Refused
<1>2. /\ Asking(u)' = Asking(u) /\ Confirmed(u)' = Confirmed(u) /\ Refused(u)' = Refused(u)
  BY <1>1, ElsewhereStays
<1>3. data' = data
  BY DEF OnlyAt
<1> QED BY <1>2, <1>3 DEF Accounted

\* Every step of a terminal is its own.
LEMMA ClientIsOnlyAt ==
  ASSUME AskedInv, NEW t \in Terminals, Client(t)
  PROVE  OnlyAt(t)
<1>1. /\ screen \in [Terminals -> Screen] /\ link \in [Terminals -> Int]
      /\ waiting \in [Terminals -> [count : Nat, entry : Entries \cup {None}]]
      /\ replies \in [Terminals -> Seq(Reply)]
  BY DEF AskedInv, SessionTypeOK
<1>2. ASSUME NEW e, NEW value, SendRequest(t, e, value) PROVE OnlyAt(t)
  BY <1>1, <1>2 DEF SendRequest, OnlyAt
<1>3. CASE GiveUp(t) \/ ReceiveFails(t)
  BY <1>1, <1>3 DEF GiveUp, ReceiveFails, Disconnected, BackToMain, OnlyAt
<1>4. CASE ConnectFails(t)
  BY <1>1, <1>4 DEF ConnectFails, OnlyAt
<1>5. CASE Receive(t)
  <2>1. PICK s : screen' = [screen EXCEPT ![t] = s]
    BY <1>5 DEF Receive
  <2> QED BY <1>1, <1>5, <2>1 DEF Receive, OnlyAt
<1>6. ASSUME NEW next, Move(t, next) PROVE OnlyAt(t)
  <2>1. PICK s : screen' = [screen EXCEPT ![t] = s]
    BY <1>6 DEF Move
  <2> QED BY <1>1, <1>6, <2>1 DEF Move, OnlyAt
<1> QED BY <1>2, <1>3, <1>4, <1>5, <1>6 DEF Client

LEMMA SendRequestKeepsMoney ==
  ASSUME MoneyInv, NEW t \in Terminals, NEW e \in Entries, NEW value \in Values(t, e),
         SendRequest(t, e, value), OnlyAt(t)
  PROVE  IsFiniteSet(sent') /\ \A u \in Consumers : Accounted(u)'
<1>1. AskedInv /\ IsFiniteSet(sent) /\ SessionTypeOK
  BY DEF MoneyInv, AskedInv
<1>2. /\ waiting[t].entry = None /\ replies[t] = << >> /\ link[t] \in Int
  BY <1>1, AtTerminal DEF SendRequest, Outstanding
<1>3. PICK n : /\ n = [from |-> t, link |-> IF Connected(t) THEN link[t] ELSE 1 - link[t],
                        request |-> Request(t, e, value)]
               /\ sent' = sent \cup {n}
  BY DEF SendRequest, SentOnce
<1>4. n.from = t /\ n.request.op = e.op /\ n.request.user = screen[t].user
  BY <1>3 DEF Request
<1>5. n \notin sent
  <2> SUFFICES ASSUME n \in sent PROVE FALSE
    OBVIOUS
  <2>1. MessageFits(n, screen[t], waiting[t], link[t], replies[t], data.orders)
    BY <1>1, <1>4, AtTerminal
  <2>2. /\ n.link \in Nat \ {0} /\ (n.link <= link[t] \/ n.link <= -link[t])
        /\ n.link # link[t]
    BY <1>2, <2>1 DEF MessageFits
  <2>3. n.link = IF link[t] > 0 THEN link[t] ELSE 1 - link[t]
    BY <1>3 DEF Connected
  <2> QED BY <1>2, <2>2, <2>3
<1>6. IsFiniteSet(sent')
  BY <1>1, <1>3, <1>5, CountedMore
<1>7. /\ waiting'[t].entry = e /\ replies' = replies /\ screen' = screen
      /\ told' = told /\ failed' = failed /\ data' = data /\ e # None
  BY <1>1, NoneAssumption DEF SendRequest, SessionTypeOK
<1> SUFFICES ASSUME NEW u \in Consumers PROVE Accounted(u)'
  BY <1>6
<1>8. Accounted(u) /\ t \notin Asking(u)
  BY <1>2 DEF MoneyInv, Asking, Outstanding
<1>9. t \in Asking(u)' <=> e.op = "recharge" /\ screen[t].user = u
  BY <1>7 DEF Asking, Outstanding
<1>10. CASE ~ (e.op = "recharge" /\ screen[t].user = u)
  <2>1. Recharges(u)' = Recharges(u)
    BY <1>3, <1>4, <1>10 DEF Recharges
  <2> QED BY <1>7, <1>8, <1>9, <1>10, <2>1, MoneyStays
<1>11. CASE e.op = "recharge" /\ screen[t].user = u
  <2>1. Recharges(u)' = Recharges(u) \cup {n} /\ n \notin Recharges(u)
    BY <1>3, <1>4, <1>5, <1>11 DEF Recharges
  <2>2. Asking(u)' = Asking(u) \cup {t}
    <3>1. Asking(u)' \subseteq Terminals /\ Asking(u) \subseteq Terminals
      BY DEF Asking
    <3> QED BY <1>9, <1>11, <3>1, ElsewhereStays
  <2>3. Confirmed(u)' = Confirmed(u) /\ Refused(u)' = Refused(u)
    BY <1>2, <1>7, <2>2 DEF Confirmed, Refused
  <2>4. /\ Cardinality(Recharges(u)') = Cardinality(Recharges(u)) + 1
        /\ Cardinality(Asking(u)') = Cardinality(Asking(u)) + 1
    BY <1>1, <1>8, <2>1, <2>2, Counts, CountedMore
  <2>5. /\ Cardinality(Asking(u)) \in Nat /\ Cardinality(Refused(u)) \in Nat
        /\ Cardinality(Confirmed(u)) \in Nat /\ Cardinality(Recharges(u)) \in Nat
    BY <1>1, Counts
  <2>6. told[u] \in Nat /\ failed[u] \in Nat
    BY <1>1 DEF SessionTypeOK, Users
  <2> QED BY <1>7, <1>8, <2>3, <2>4, <2>5, <2>6 DEF Accounted, Account
<1> QED BY <1>10, <1>11

\* What was asked for and was not answered counts as failed.
LEMMA GoneBackKeepsMoney ==
  ASSUME MoneyInv, NEW t \in Terminals, Outstanding(t), Disconnected(t), BackToMain(t),
         UNCHANGED <<sent, data, told, charges>>, OnlyAt(t)
  PROVE  IsFiniteSet(sent') /\ \A u \in Consumers : Accounted(u)'
<1>1. AskedInv /\ IsFiniteSet(sent) /\ SessionTypeOK
  BY DEF MoneyInv, AskedInv
<1>2. waiting'[t].entry = None
  BY <1>1 DEF BackToMain, SessionTypeOK
<1> SUFFICES ASSUME NEW u \in Consumers PROVE Accounted(u)'
  BY <1>1
<1>3. Accounted(u) /\ told[u] \in Nat /\ failed[u] \in Nat
  BY <1>1 DEF MoneyInv, SessionTypeOK, Users
<1>4. Recharges(u)' = Recharges(u)
  BY DEF Recharges
<1>5. t \notin Asking(u)'
  BY <1>2 DEF Asking, Outstanding
<1>6. failed \in [Users -> Nat] /\ u \in Users
  BY <1>1 DEF SessionTypeOK, Users
<1>7. CASE t \notin Asking(u)
  <2>1. waiting[t].entry.op = "recharge" => screen[t].user # u
    BY <1>7 DEF Asking
  <2>2. failed'[u] = failed[u]
    BY <1>6, <2>1 DEF BackToMain
  <2> QED BY <1>3, <1>4, <1>5, <1>7, <2>2, MoneyStays
<1>8. CASE t \in Asking(u)
  <2>1. waiting[t].entry.op = "recharge" /\ screen[t].user = u
    BY <1>8 DEF Asking
  <2>2. failed'[u] = failed[u] + 1
    BY <1>6, <2>1 DEF BackToMain
  <2>3. Asking(u)' = Asking(u) \ {t}
    <3>1. Asking(u)' \subseteq Terminals /\ Asking(u) \subseteq Terminals
      BY DEF Asking
    <3> QED BY <1>5, <3>1, ElsewhereStays
  <2>4. Confirmed(u)' \subseteq Confirmed(u) /\ Refused(u)' \subseteq Refused(u)
    <3>1. /\ Confirmed(u)' \subseteq Terminals \ {t} /\ Refused(u)' \subseteq Terminals \ {t}
      BY <1>5 DEF Confirmed, Refused, Asking
    <3> QED BY <3>1, ElsewhereStays
  <2>5. Cardinality(Asking(u)') = Cardinality(Asking(u)) - 1
    BY <1>1, <1>8, <2>3, Counts, CountedLess
  <2>6. /\ Cardinality(Confirmed(u)') <= Cardinality(Confirmed(u))
        /\ Cardinality(Refused(u)') <= Cardinality(Refused(u))
        /\ IsFiniteSet(Confirmed(u)') /\ IsFiniteSet(Refused(u)')
    BY <1>1, <2>4, Counts, CountedAtMost
  <2>7. /\ Cardinality(Asking(u)) \in Nat /\ Cardinality(Refused(u)) \in Nat
        /\ Cardinality(Confirmed(u)) \in Nat /\ Cardinality(Recharges(u)) \in Nat
    BY <1>1, Counts
  <2>8. Cardinality(Confirmed(u)') \in Nat /\ Cardinality(Refused(u)') \in Nat
    BY <2>6, FS_CardinalityType
  <2> QED BY <1>3, <1>4, <2>2, <2>5, <2>6, <2>7, <2>8 DEF Accounted, Account
<1> QED BY <1>7, <1>8

\* Nothing is asked for, and only the screen changes.
LEMMA ScreenKeepsMoney ==
  ASSUME MoneyInv, NEW t \in Terminals, ~ Outstanding(t), OnlyAt(t),
         UNCHANGED <<link, waiting, sent, replies, data, told, failed, charges>>
  PROVE  IsFiniteSet(sent') /\ \A u \in Consumers : Accounted(u)'
<1>1. IsFiniteSet(sent')
  BY DEF MoneyInv
<1> SUFFICES ASSUME NEW u \in Consumers PROVE Accounted(u)'
  BY <1>1
<1>2. /\ Accounted(u) /\ told'[u] = told[u] /\ failed'[u] = failed[u]
      /\ Recharges(u)' = Recharges(u) /\ t \notin Asking(u) /\ t \notin Asking(u)'
  BY DEF MoneyInv, Recharges, Asking, Outstanding
<1> QED BY <1>2, MoneyStays

\* A user is told what was confirmed.
LEMMA ReceiveKeepsMoney ==
  ASSUME MoneyInv, NEW t \in Terminals, Receive(t), OnlyAt(t)
  PROVE  IsFiniteSet(sent') /\ \A u \in Consumers : Accounted(u)'
<1>1. AskedInv /\ IsFiniteSet(sent) /\ SessionTypeOK
  BY DEF MoneyInv, AskedInv
<1>2. /\ Outstanding(t) /\ replies[t] # << >>
      /\ waiting' = [waiting EXCEPT ![t].entry = None]
      /\ told' = IF waiting[t].entry.op = "recharge" /\ Head(replies[t]).ok = "success"
                 THEN [told EXCEPT ![screen[t].user] = @ + 1] ELSE told
      /\ UNCHANGED <<link, sent, data, failed, charges>>
  BY DEF Receive
<1>3. waiting'[t].entry = None
  BY <1>1, <1>2 DEF SessionTypeOK
<1> SUFFICES ASSUME NEW u \in Consumers PROVE Accounted(u)'
  BY <1>1, <1>2
<1>4. Accounted(u) /\ told[u] \in Nat /\ failed[u] \in Nat
  BY <1>1 DEF MoneyInv, SessionTypeOK, Users
<1>5. Recharges(u)' = Recharges(u)
  BY <1>2 DEF Recharges
<1>6. t \notin Asking(u)'
  BY <1>3 DEF Asking, Outstanding
<1>7. told \in [Users -> Nat] /\ u \in Users
  BY <1>1 DEF SessionTypeOK, Users
<1>8. data' = data /\ failed' = failed
  BY <1>2
<1>9. CASE t \notin Asking(u)
  <2>1. waiting[t].entry.op = "recharge" => screen[t].user # u
    BY <1>2, <1>9 DEF Asking
  <2>2. told'[u] = told[u]
    BY <1>2, <1>7, <2>1
  <2> QED BY <1>2, <1>4, <1>5, <1>6, <1>9, <2>2, MoneyStays
<1>10. CASE t \in Asking(u)
  <2>1. waiting[t].entry.op = "recharge" /\ screen[t].user = u
    BY <1>10 DEF Asking
  <2>2. Asking(u)' = Asking(u) \ {t}
    <3>1. Asking(u)' \subseteq Terminals /\ Asking(u) \subseteq Terminals
      BY DEF Asking
    <3> QED BY <1>6, <3>1, ElsewhereStays
  <2>3. /\ Confirmed(u)' = Confirmed(u) \ {t} /\ Refused(u)' = Refused(u) \ {t}
    <3>1. /\ Confirmed(u)' \subseteq Terminals \ {t} /\ Refused(u)' \subseteq Terminals \ {t}
          /\ Confirmed(u) \subseteq Terminals /\ Refused(u) \subseteq Terminals
      BY <1>6 DEF Confirmed, Refused, Asking
    <3> QED BY <3>1, ElsewhereStays
  <2>4. Cardinality(Asking(u)') = Cardinality(Asking(u)) - 1
    BY <1>1, <1>10, <2>2, Counts, CountedLess
  <2>5. /\ Cardinality(Asking(u)) \in Nat /\ Cardinality(Refused(u)) \in Nat
        /\ Cardinality(Confirmed(u)) \in Nat /\ Cardinality(Recharges(u)) \in Nat
    BY <1>1, Counts
  <2>6. CASE Head(replies[t]).ok = "success"
    <3>1. t \in Confirmed(u) /\ t \notin Refused(u)
      BY <1>2, <1>10, <2>6 DEF Confirmed, Refused
    <3>2. Cardinality(Confirmed(u)') = Cardinality(Confirmed(u)) - 1
      BY <1>1, <2>3, <3>1, Counts, CountedLess
    <3>3. Refused(u)' = Refused(u)
      BY <2>3, <3>1
    <3>4. told'[u] = told[u] + 1
      BY <1>2, <1>7, <2>1, <2>6
    <3> QED BY <1>4, <1>5, <1>8, <2>4, <2>5, <3>2, <3>3, <3>4 DEF Accounted, Account
  <2>7. CASE Head(replies[t]).ok # "success"
    <3>1. t \notin Confirmed(u) /\ t \in Refused(u)
      BY <1>2, <1>10, <2>7 DEF Confirmed, Refused
    <3>2. Cardinality(Refused(u)') = Cardinality(Refused(u)) - 1
      BY <1>1, <2>3, <3>1, Counts, CountedLess
    <3>3. Confirmed(u)' = Confirmed(u)
      BY <2>3, <3>1
    <3>4. told'[u] = told[u]
      BY <1>2, <2>7
    <3> QED BY <1>4, <1>5, <1>8, <2>4, <2>5, <3>2, <3>3, <3>4 DEF Accounted, Account
  <2> QED BY <2>6, <2>7
<1> QED BY <1>9, <1>10

\* What the response to a recharge says.
LEMMA RechargeAnswered ==
  ASSUME NEW r, r.op = "recharge"
  PROVE  Response(r).ok = IF Handled(r) = None THEN "error" ELSE "success"
<1>1. \A ok : Answer(r.no, ok).ok = ok
  BY DEF Answer
<1> QED BY <1>1 DEF Response

LEMMA OneMore ==
  ASSUME NEW h \in Nat, NEW n \in Nat, h = Deposit * n
  PROVE  h + Deposit = Deposit * (n + 1)
BY ClientSessionAssumption

\* What a handler credits was asked for.
LEMMA ServeKeepsMoney ==
  ASSUME MoneyInv, NEW m \in sent, Serve(m)
  PROVE  IsFiniteSet(sent') /\ \A u \in Consumers : Accounted(u)'
<1>1. AskedInv /\ IsFiniteSet(sent) /\ SessionTypeOK /\ replies \in [Terminals -> Seq(Reply)]
  BY DEF MoneyInv, AskedInv
<1>2. PICK t, r, a : t = m.from /\ r = m.request /\ a = Response(r)
  OBVIOUS
<1>3. /\ sent' = sent \ {m} /\ data' = After(r)
      /\ replies' = IF Alive(m) THEN [replies EXCEPT ![t] = Append(@, a)] ELSE replies
      /\ UNCHANGED <<screen, link, waiting, told, failed>>
  BY <1>2 DEF Serve, After, Alive
<1>4. t \in Terminals /\ data \in Server
  BY <1>1, <1>2 DEF SessionTypeOK, Message
<1>5. /\ RequestFits(r, data.orders)
      /\ Alive(m) => /\ waiting[t].entry # None /\ replies[t] = << >>
                     /\ r.op = waiting[t].entry.op /\ r.user = screen[t].user
  <2>1. MessageFits(m, screen[t], waiting[t], link[t], replies[t], data.orders)
    BY <1>1, <1>2, <1>4, AtTerminal
  <2> QED BY <1>2, <2>1 DEF MessageFits, Alive
<1>6. IsFiniteSet(sent')
  BY <1>1, <1>3, CountedLess
<1>7. /\ \A v \in Terminals : v # t \/ ~ Alive(m) => replies'[v] = replies[v]
      /\ Alive(m) => replies'[t] = <<a>>
  <2>1. CASE Alive(m)
    <3>1. Append(replies[t], a) = <<a>>
      BY <1>5, <2>1, FirstAppended
    <3>2. replies' = [replies EXCEPT ![t] = Append(replies[t], a)]
      BY <1>3, <2>1
    <3> QED BY <1>1, <1>4, <2>1, <3>1, <3>2
  <2>2. CASE ~ Alive(m)
    BY <1>3, <2>2
  <2> QED BY <2>1, <2>2
<1>8. Alive(m) => replies'[t] # << >> /\ Head(replies'[t]) = a
  BY <1>7
<1> SUFFICES ASSUME NEW u \in Consumers PROVE Accounted(u)'
  BY <1>6
<1>9. Accounted(u) /\ told[u] \in Nat /\ failed[u] \in Nat
  BY <1>1 DEF MoneyInv, SessionTypeOK, Users
<1>10. Asking(u)' = Asking(u)
  BY <1>3 DEF Asking, Outstanding
<1>11. \A v \in Terminals : v # t \/ ~ Alive(m) =>
         /\ v \in Confirmed(u)' <=> v \in Confirmed(u)
         /\ v \in Refused(u)' <=> v \in Refused(u)
  BY <1>7, <1>10 DEF Confirmed, Refused
<1>12. /\ Confirmed(u) \subseteq Terminals /\ Confirmed(u)' \subseteq Terminals
       /\ Refused(u) \subseteq Terminals /\ Refused(u)' \subseteq Terminals
  BY DEF Confirmed, Refused, Asking
<1>13. /\ Cardinality(Asking(u)) \in Nat /\ Cardinality(Refused(u)) \in Nat
       /\ Cardinality(Confirmed(u)) \in Nat /\ Cardinality(Recharges(u)) \in Nat
  BY <1>1, Counts
<1>14. CASE ~ (r.op = "recharge" /\ r.user = u)
  <2>1. Recharges(u)' = Recharges(u)
    BY <1>2, <1>3, <1>14 DEF Recharges
  <2>2. Alive(m) => t \notin Asking(u)
    BY <1>5, <1>14 DEF Asking
  <2>3. Confirmed(u)' = Confirmed(u) /\ Refused(u)' = Refused(u)
    <3>1. CASE ~ Alive(m)
      BY <1>11, <1>12, <3>1
    <3>2. CASE Alive(m)
      <4>1. /\ t \notin Confirmed(u) /\ t \notin Confirmed(u)'
            /\ t \notin Refused(u) /\ t \notin Refused(u)'
        BY <1>10, <2>2, <3>2 DEF Confirmed, Refused
      <4> QED BY <1>11, <1>12, <4>1
    <3> QED BY <3>1, <3>2
  <2>4. Held(data', u) = Held(data, u)
    <3>1. CASE Handled(r) = None
      BY <1>3, <3>1 DEF After
    <3>2. CASE Handled(r) # None
      <4>1. Held(data', u) = Held(data, u) + 0
        BY <1>3, <1>4, <1>5, <1>14, <3>2, HandlersAreRight DEF After, Right, Gained
      <4> QED BY <1>4, <4>1, HeldIsNatural
    <3> QED BY <3>1, <3>2
  <2> QED BY <1>3, <1>9, <1>10, <2>1, <2>3, <2>4 DEF Accounted
<1>15. CASE r.op = "recharge" /\ r.user = u
  <2>1. Recharges(u)' = Recharges(u) \ {m} /\ m \in Recharges(u)
    BY <1>2, <1>3, <1>15 DEF Recharges
  <2>2. Cardinality(Recharges(u)') = Cardinality(Recharges(u)) - 1
    BY <1>1, <2>1, Counts, CountedLess
  <2>3. Alive(m) => t \in Asking(u) /\ t \notin Confirmed(u) /\ t \notin Refused(u)
    BY <1>4, <1>5, <1>15 DEF Asking, Outstanding, Confirmed, Refused
  <2>4. /\ ~ Alive(m) => Confirmed(u)' = Confirmed(u) /\ Refused(u)' = Refused(u)
        /\ Alive(m) /\ a.ok = "success" =>
             Confirmed(u)' = Confirmed(u) \cup {t} /\ Refused(u)' = Refused(u)
        /\ Alive(m) /\ a.ok # "success" =>
             Confirmed(u)' = Confirmed(u) /\ Refused(u)' = Refused(u) \cup {t}
    <3>1. CASE ~ Alive(m)
      BY <1>11, <1>12, <3>1
    <3>2. CASE Alive(m) /\ a.ok = "success"
      <4>1. t \in Confirmed(u)' /\ t \notin Refused(u)'
        BY <1>8, <1>10, <2>3, <3>2 DEF Confirmed, Refused
      <4> QED BY <1>11, <1>12, <2>3, <3>2, <4>1
    <3>3. CASE Alive(m) /\ a.ok # "success"
      <4>1. t \notin Confirmed(u)' /\ t \in Refused(u)'
        BY <1>8, <1>10, <2>3, <3>3 DEF Confirmed, Refused
      <4> QED BY <1>11, <1>12, <2>3, <3>3, <4>1
    <3> QED BY <3>1, <3>2, <3>3
  <2>5. CASE Handled(r) = None
    <3>1. a.ok # "success"
      BY <1>2, <1>15, <2>5, RechargeAnswered
    <3>2. /\ Cardinality(Confirmed(u)') = Cardinality(Confirmed(u))
          /\ Cardinality(Refused(u)') \in
               {Cardinality(Refused(u)), Cardinality(Refused(u)) + 1}
      BY <1>1, <2>3, <2>4, <3>1, Counts, CountedMore
    <3>3. data' = data
      BY <1>3, <2>5 DEF After
    <3> QED BY SMTT(60), <1>3, <1>9, <1>10, <1>13, <2>2, <3>2, <3>3 DEF Accounted, Account
  <2>6. CASE Handled(r) # None
    <3>1. a.ok = "success"
      BY <1>2, <1>15, <2>6, RechargeAnswered
    <3>2. /\ Cardinality(Refused(u)') = Cardinality(Refused(u))
          /\ Cardinality(Confirmed(u)') \in
               {Cardinality(Confirmed(u)), Cardinality(Confirmed(u)) + 1}
      BY <1>1, <2>3, <2>4, <3>1, Counts, CountedMore
    <3>3. Held(data', u) = Held(data, u) + Deposit /\ Held(data, u) \in Nat
      BY <1>3, <1>4, <1>5, <1>15, <2>6, HandlersAreRight, HeldIsNatural
         DEF After, Right, Gained
    <3>4. PICK n \in Nat :
            Account(Held(data, u), n, told[u], Cardinality(Confirmed(u)),
                    Cardinality(Recharges(u)), Cardinality(Refused(u)), failed[u],
                    Cardinality(Asking(u)))
      BY <1>9 DEF Accounted
    <3>5. Held(data', u) = Deposit * (n + 1)
      BY <3>3, <3>4, OneMore DEF Account
    <3>6. Account(Held(data', u), n + 1, told[u], Cardinality(Confirmed(u)'),
                  Cardinality(Recharges(u)'), Cardinality(Refused(u)'), failed[u],
                  Cardinality(Asking(u)'))
      BY <1>9, <1>10, <1>13, <2>2, <3>2, <3>4, <3>5 DEF Account
    <3> QED BY <1>3, <3>6 DEF Accounted
  <2> QED BY <2>5, <2>6
<1> QED BY <1>14, <1>15

LEMMA MoneyAtFirst == SessionInit => MoneyInv
<1> SUFFICES ASSUME SessionInit PROVE MoneyInv
  OBVIOUS
<1>1. AskedInv
  BY AskedAtFirst
<1>2. IsFiniteSet(sent)
  BY FS_EmptySet DEF SessionInit
<1> SUFFICES ASSUME NEW u \in Consumers PROVE Accounted(u)
  BY <1>1, <1>2 DEF MoneyInv
<1>3. /\ Asking(u) = {} /\ Confirmed(u) = {} /\ Refused(u) = {} /\ Recharges(u) = {}
  BY DEF SessionInit, Asking, Outstanding, Confirmed, Refused, Recharges
<1>4. told[u] = 0 /\ failed[u] = 0
  BY DEF SessionInit, Users
<1>5. Held(data, u) = 0
  <2>1. /\ data \in Server /\ data.balance[u] = 0
        /\ \A i \in DOMAIN data.orders : data.orders[i].status # "PAID"
    BY StartsAssumption DEF SessionInit
  <2>2. PICK f : f = [i \in DOMAIN data.orders |-> PaidBy(u, data.orders[i])]
    OBVIOUS
  <2>3. \A i \in DOMAIN f : f[i] = 0
    BY <2>1, <2>2 DEF PaidBy
  <2>4. IsFiniteSet(DOMAIN f)
    <3>1. data.orders \in Seq(Order)
      BY <2>1, DataIs
    <3> QED BY <2>2, <3>1, FS_Interval
  <2>5. Spent(data.orders, u) = 0
    BY <2>2, <2>3, <2>4, SumOfZeros DEF Spent
  <2> QED BY <2>1, <2>5, HeldIs
<1>6. Deposit * 0 = 0 /\ Cardinality({}) = 0
  BY ClientSessionAssumption, FS_EmptySet
<1> QED BY <1>3, <1>4, <1>5, <1>6 DEF Accounted, Account

LEMMA StepKeepsMoney == MoneyInv /\ [SessionNext]_sessionVars => MoneyInv'
<1> SUFFICES ASSUME MoneyInv, [SessionNext]_sessionVars PROVE MoneyInv'
  OBVIOUS
<1>1. AskedInv /\ AskedInv'
  BY StepKeepsAsked DEF MoneyInv
<1> DEFINE Kept == IsFiniteSet(sent') /\ \A u \in Consumers : Accounted(u)'
<1>2. ASSUME NEW t \in Terminals, Client(t) PROVE Kept
  <2>1. OnlyAt(t)
    BY <1>1, <1>2, ClientIsOnlyAt
  <2>2. ASSUME NEW e \in Entries, NEW value \in Values(t, e), SendRequest(t, e, value)
        PROVE  Kept
    BY <2>1, <2>2, SendRequestKeepsMoney
  <2>3. CASE GiveUp(t)
    BY <2>1, <2>3, GoneBackKeepsMoney DEF GiveUp
  <2>4. CASE ConnectFails(t)
    BY <2>1, <2>4, ScreenKeepsMoney DEF ConnectFails
  <2>5. CASE Receive(t)
    BY <2>1, <2>5, ReceiveKeepsMoney
  <2>6. CASE ReceiveFails(t)
    BY <2>1, <2>6, GoneBackKeepsMoney DEF ReceiveFails
  <2>7. ASSUME NEW next, Move(t, next) PROVE Kept
    BY <2>1, <2>7, ScreenKeepsMoney DEF Move
  <2> QED BY <1>2, <2>2, <2>3, <2>4, <2>5, <2>6, <2>7 DEF Client
<1>3. ASSUME NEW m \in sent, Serve(m) PROVE Kept
  BY <1>3, ServeKeepsMoney
<1>4. ASSUME UNCHANGED sessionVars PROVE Kept
  <2>1. /\ screen' = screen /\ waiting' = waiting /\ sent' = sent
        /\ replies' = replies /\ data' = data /\ told' = told /\ failed' = failed
    BY <1>4 DEF sessionVars
  <2> SUFFICES ASSUME NEW u \in Consumers PROVE Accounted(u)'
    BY <2>1 DEF MoneyInv
  <2>2. Asking(u)' = Asking(u)
    BY <2>1 DEF Asking, Outstanding
  <2>3. /\ Confirmed(u)' = Confirmed(u) /\ Refused(u)' = Refused(u)
        /\ Recharges(u)' = Recharges(u)
    BY <2>1, <2>2 DEF Confirmed, Refused, Recharges
  <2>4. Accounted(u)
    BY DEF MoneyInv
  <2> QED BY <2>1, <2>2, <2>3, <2>4 DEF Accounted
<1>5. Kept
  BY <1>2, <1>3, <1>4 DEF SessionNext
<1> QED BY <1>1, <1>5 DEF MoneyInv

LEMMA TimesGrows ==
  ASSUME NEW a \in Nat, NEW b \in Nat, a <= b
  PROVE  Deposit * a <= Deposit * b
<1>1. PICK k \in Nat : b = a + k
  <2>1. b - a \in Nat /\ b = a + (b - a)
    OBVIOUS
  <2> QED BY <2>1
<1>2. Deposit \in Nat
  BY ClientSessionAssumption
<1>3. Deposit * (a + k) = Deposit * a + Deposit * k
  BY <1>2
<1>4. Deposit * a \in Nat /\ Deposit * k \in Nat
  BY <1>2, ProductIsNatural
<1> QED BY <1>1, <1>3, <1>4

\* Whatever requests time out, the account of a user holds no less than the
\* recharges that were confirmed and no more than those that were asked for: none
\* is lost after its success was told, none is credited twice.
THEOREM SessionMoneyAsTold == SessionSpec => []MoneyAsTold
<1>1. MoneyInv => MoneyAsTold
  <2> SUFFICES ASSUME MoneyInv, NEW u \in Consumers
               PROVE  /\ Deposit * told[u] <= Held(data, u)
                      /\ Held(data, u) <=
                           Deposit * (told[u] + failed[u] + Cardinality(Asking(u)))
    BY DEF MoneyAsTold
  <2>1. told[u] \in Nat /\ failed[u] \in Nat
    BY DEF MoneyInv, AskedInv, SessionTypeOK, Users
  <2>2. /\ Cardinality(Asking(u)) \in Nat /\ Cardinality(Refused(u)) \in Nat
        /\ Cardinality(Confirmed(u)) \in Nat /\ Cardinality(Recharges(u)) \in Nat
    BY Counts DEF MoneyInv
  <2>3. PICK n \in Nat :
          Account(Held(data, u), n, told[u], Cardinality(Confirmed(u)),
                  Cardinality(Recharges(u)), Cardinality(Refused(u)), failed[u],
                  Cardinality(Asking(u)))
    BY DEF MoneyInv, Accounted
  <2>4. PICK most \in Nat : most = told[u] + failed[u] + Cardinality(Asking(u))
    BY <2>1, <2>2
  <2>5. Held(data, u) = Deposit * n /\ told[u] <= n /\ n <= most
    BY <2>1, <2>2, <2>3, <2>4 DEF Account
  <2>6. Deposit * told[u] <= Deposit * n /\ Deposit * n <= Deposit * most
    BY <2>1, <2>5, TimesGrows
  <2> QED BY <2>4, <2>5, <2>6
<1>2. SessionSpec => []MoneyInv
  BY MoneyAtFirst, StepKeepsMoney, PTL DEF SessionSpec
<1> QED BY <1>1, <1>2, PTL

=============================================================================
