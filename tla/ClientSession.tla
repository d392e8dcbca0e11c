---------------------------- MODULE ClientSession ----------------------------
(***************************************************************************)
(* The terminal client: its menus (src/src/Client.cpp, client_main.cpp),   *)
(* sendRequest with its timeout, and the user who goes on after a request  *)
(* that got no answer.  Several terminals share one server, which handles  *)
(* one request at a time and of which only what the client shows or acts   *)
(* on is kept: the price of one commodity, carts, orders and balances.     *)
(***************************************************************************)
EXTENDS Sums, SequencesExt

CONSTANTS
  Terminals,
  Consumers,
  Merchants,
  Prices,
  Starts,      \* what the server may hold when the terminals start
  Deposit,     \* the amount of a recharge
  MaxBalance,  \* bound: what a consumer holds
  MaxOrders,   \* bound: the orders of all consumers
  MaxEffort,   \* bound: the requests of all terminals; a timeout counts for two
  None

ASSUME ClientSessionAssumption ==
  /\ Prices \subseteq Nat \ {0} /\ Prices # {}
  /\ {Deposit, MaxBalance, MaxOrders, MaxEffort} \subseteq Nat
  /\ IsFiniteSet(Terminals)
  /\ None \notin Consumers \cup Merchants

VARIABLES
  screen,  \* terminal -> the menu it shows and the copies it holds
  link,    \* terminal -> its socket, the number of connections it has made
  waiting, \* terminal -> the menu entry whose request awaits its response
  sent,    \* requests the server has not handled; what is lost stays here
  replies, \* terminal -> responses that have not been read from its socket
  data,    \* what the server keeps
  told,    \* history: consumer -> recharges answered with success
  failed,  \* history: consumer -> recharges that got no answer
  charges  \* history: what the list showed of an order that was paid, and the charge

sessionVars == <<screen, link, waiting, sent, replies, data, told, failed, charges>>

Users == Consumers \cup Merchants

-----------------------------------------------------------------------------
(* The menus.  An entry is a request the user can send from a screen, with   *)
(* the screens that follow success and failure; an empty list counts as      *)
(* failure.  "ask" stands for the requests whose responses are printed and   *)
(* forgotten: register, search, list, balance, password, add a commodity,    *)
(* modify stock or discount.                                                 *)

Entry(from, op, done, else) == [from |-> from, op |-> op, done |-> done, else |-> else]

MainMenu ==
  {Entry("main", "ask", "main", "main"), Entry("main", "login", "home", "main")}

MerchantMenu ==
  {Entry("merchant", "ask", "merchant", "merchant"),
   Entry("merchant", "list", "goods", "merchant")}

\* Management of the commodity that was selected from the list.
GoodsMenu ==
  {Entry("selected", op, "selected", "selected") : op \in {"price", "batch"}} \cup
  {Entry("selected", "list", "goods", "merchant")}

\* What is removed or updated is picked from a list fetched just before.
CartMenu ==
  {Entry("cart", "search", "adding", "cart"), Entry("adding", "add", "cart", "cart")} \cup
  {Entry("cart", "items", next, "cart") : next \in {"cart", "changing"}} \cup
  {Entry("changing", op, "cart", "cart") : op \in {"remove", "update"}}

\* The total is shown before the user says whether to pay at once.  The server
\* computes its own when the request arrives, and neither side compares them.
CheckoutMenu ==
  {Entry("cart", "items", "confirm", "cart")} \cup
  {Entry("confirm", op, "cart", "cart") : op \in {"checkout", "buy"}}

ConsumerMenu ==
  {Entry("consumer", op, "consumer", "consumer") : op \in {"ask", "recharge"}} \cup
  {Entry("consumer", "orders", "orders", "consumer")} \cup
  {Entry("order", op, "consumer", "consumer") : op \in {"pay", "cancel"}}

Entries ==
  MainMenu \cup MerchantMenu \cup GoodsMenu \cup CartMenu \cup CheckoutMenu \cup ConsumerMenu

\* Choices that send nothing: going back, a choice from a list, an invalid one.
Moves ==
  {<<"merchant", "main">>, <<"goods", "merchant">>, <<"goods", "selected">>,
   <<"consumer", "main">>, <<"consumer", "cart">>, <<"cart", "consumer">>,
   <<"adding", "cart">>, <<"changing", "cart">>, <<"orders", "consumer">>,
   <<"orders", "order">>, <<"order", "consumer">>}

Status == {"PENDING", "PAID", "CANCELLED"}

\* A line of the list of orders that the client keeps while the user chooses.
Row == [order : Nat, total : Nat, status : Status]

\* Who is logged in; the list that was fetched; the order picked from it with
\* the total that was printed; whether the selected commodity is the one that
\* was picked or null.
Screen ==
  [at : {"main", "merchant", "goods", "selected", "consumer", "cart", "adding",
         "changing", "confirm", "orders", "order"},
   user : Users \cup {None}, list : SUBSET Row, order : Nat, total : Nat,
   known : BOOLEAN]

Bare(at, user) ==
  [at |-> at, user |-> user, list |-> {}, order |-> 0, total |-> 0, known |-> TRUE]

-----------------------------------------------------------------------------
(* The server. *)

Order == [user : Consumers, total : Nat, status : Status]

Server ==
  [price : Prices, cart : [Consumers -> Nat], orders : Seq(Order),
   balance : [Consumers -> Nat]]

\* None stands for no menu entry and for no change of the data.
ASSUME NoneAssumption == None \notin Entries \cup Server

\* What was kept from before: goods in carts and orders that are not paid.
ASSUME StartsAssumption ==
  /\ Starts \subseteq Server
  /\ \A d \in Starts :
       /\ \A u \in Consumers : d.balance[u] = 0
       /\ \A i \in DOMAIN d.orders : d.orders[i].status # "PAID"

\* The total of the order made by checkout.
CartTotal(u) == data.price * data.cart[u]

OrdersOf(u) == {i \in DOMAIN data.orders : data.orders[i].user = u}

\* What getOrders returns: a row for each order of the user.
Listed(u) ==
  {[order |-> i, total |-> data.orders[i].total, status |-> data.orders[i].status] :
     i \in OrdersOf(u)}

Answer(no, ok) == [no |-> no, ok |-> ok, list |-> {}]

Closed(no) == [no |-> no, ok |-> "closed", list |-> {}]

Charged(u, amount) == [data EXCEPT !.balance[u] = @ - amount]

CanPay(u, amount) == amount \in 1..data.balance[u]

NewOrder(u, status) == [user |-> u, total |-> CartTotal(u), status |-> status]

Pending(i) == data.orders[i].status = "PENDING"

\* What the handler of request r makes of the data, None when it refuses.
Handled(r) ==
  LET u == r.user
  IN  CASE r.op = "price" -> [data EXCEPT !.price = r.value]
        [] r.op = "recharge" /\ data.balance[u] + Deposit <= MaxBalance ->
             [data EXCEPT !.balance[u] = @ + Deposit]
        [] r.op = "add" /\ data.cart[u] + r.value <= 2 ->
             [data EXCEPT !.cart[u] = @ + r.value]
        [] r.op = "remove" -> [data EXCEPT !.cart[u] = 0]
        [] r.op = "update" /\ data.cart[u] > 0 -> [data EXCEPT !.cart[u] = r.value]
        [] r.op = "checkout" /\ data.cart[u] > 0 /\ Len(data.orders) < MaxOrders ->
             [data EXCEPT !.orders = Append(@, NewOrder(u, "PENDING")), !.cart[u] = 0]
        [] r.op = "buy" /\ CanPay(u, CartTotal(u)) /\ Len(data.orders) < MaxOrders ->
             [Charged(u, CartTotal(u)) EXCEPT
                !.orders = Append(@, NewOrder(u, "PAID")), !.cart[u] = 0]
        [] r.op = "pay" /\ Pending(r.value) /\ CanPay(u, data.orders[r.value].total) ->
             [Charged(u, data.orders[r.value].total) EXCEPT
                !.orders[r.value].status = "PAID"]
        [] r.op = "cancel" /\ Pending(r.value) ->
             [data EXCEPT !.orders[r.value].status = "CANCELLED"]
        [] r.op \in {"ask", "login", "list", "search", "batch"} -> data
        [] r.op = "items" /\ data.cart[u] > 0 -> data
        [] r.op = "orders" /\ OrdersOf(u) # {} -> data
        [] OTHER -> None

\* The response: a batch without a type makes the handler throw, and the
\* server closes the connection.
Response(r) ==
  IF r.op = "batch" /\ ~ r.known THEN Closed(r.no)
  ELSE IF Handled(r) = None THEN Answer(r.no, "error")
  ELSE [Answer(r.no, "success") EXCEPT
          !.list = IF r.op = "orders" THEN Listed(r.user) ELSE {}]

\* What the list showed of the order that this pays, and what it charges.
Charge(r) ==
  IF r.op # "pay" \/ Handled(r) = None THEN {}
  ELSE {[listed |-> r.total,
         charged |-> data.balance[r.user] - Handled(r).balance[r.user]]}

\* A worker handles a request and sends its response over the connection it
\* came by; the response is lost when the client has closed that.
Serve(m) ==
  /\ sent' = sent \ {m}
  /\ data' = IF Handled(m.request) = None THEN data ELSE Handled(m.request)
  /\ replies' = IF link[m.from] = m.link
                THEN [replies EXCEPT ![m.from] = Append(@, Response(m.request))]
                ELSE replies
  /\ charges' = charges \cup Charge(m.request)
  /\ UNCHANGED <<screen, link, waiting, told, failed>>

-----------------------------------------------------------------------------
(* sendRequest. *)

\* link[t] is the number of the connection, negative between connections.
Connected(t) == link[t] > 0

\* The requests of a terminal, and twice the connections it has closed: what
\* MaxEffort bounds.
Effort(t) == waiting[t].count + 2 * (IF Connected(t) THEN link[t] - 1 ELSE -link[t])

Request(t, e, value) ==
  [no |-> waiting[t].count + 1, op |-> e.op, user |-> screen[t].user, value |-> value,
   total |-> screen[t].total, known |-> screen[t].known]

SentTwice(t, r) == \* mutant: the request is repeated over another connection
  {[from |-> t, link |-> link1, request |-> r] :
     link1 \in {0, IF Connected(t) THEN link[t] ELSE 1 - link[t]}}

\* The message, over a new connection when there is none.
SentOnce(t, r) ==
  {[from |-> t, link |-> IF Connected(t) THEN link[t] ELSE 1 - link[t], request |-> r]}

\* What a request carries besides its name: a user who logs in, a price, a
\* quantity, the number of the order.
Values(t, e) ==
  CASE e.op = "price" -> Prices
    [] e.op \in {"add", "update"} -> 1..2
    [] e.op \in {"pay", "cancel"} -> {screen[t].order}
    [] OTHER -> {0}

Outstanding(t) == waiting[t].entry # None

SendRequest(t, e, value) ==
  /\ ~ Outstanding(t)
  /\ e.from = screen[t].at
  /\ MapThenSumSet(Effort, Terminals) < MaxEffort
  /\ waiting' = [waiting EXCEPT ![t] = [count |-> @.count + 1, entry |-> e]]
  /\ link' = [link EXCEPT ![t] = IF Connected(t) THEN @ ELSE 1 - @]
  /\ sent' = sent \cup SentOnce(t, Request(t, e, value))
  /\ UNCHANGED <<screen, replies, data, told, failed, charges>>

StaysConnected(t) == UNCHANGED <<link, replies>> \* mutant: close is forgotten

\* close(_sock), _sock = -1: what is still to come over it is never read.
Disconnected(t) ==
  /\ link' = [link EXCEPT ![t] = -@]
  /\ replies' = [replies EXCEPT ![t] = << >>]

\* The exception ends the menus and is caught in main.
BackToMain(t) ==
  /\ screen' = [screen EXCEPT ![t] = Bare("main", None)]
  /\ waiting' = [waiting EXCEPT ![t].entry = None]
  /\ failed' = IF waiting[t].entry.op = "recharge"
               THEN [failed EXCEPT ![screen[t].user] = @ + 1] ELSE failed

\* 10 seconds without a response.
GiveUp(t) ==
  /\ Outstanding(t)
  /\ Disconnected(t)
  /\ BackToMain(t)
  /\ UNCHANGED <<sent, data, told, charges>>

\* connect fails; nothing is sent.
ConnectFails(t) ==
  /\ ~ Outstanding(t) /\ ~ Connected(t)
  /\ \E e \in Entries : e.from = screen[t].at
  /\ screen' = [screen EXCEPT ![t] = Bare("main", None)]
  /\ UNCHANGED <<link, waiting, sent, replies, data, told, failed, charges>>

-----------------------------------------------------------------------------
(* What the menus do with a response. *)

\* The screen after an answer a to entry e.
Shows(t, e, a) ==
  LET s == screen[t]
  IN  IF a.ok # "success" THEN {[Bare(e.else, s.user) EXCEPT !.known = s.known]}
      ELSE CASE e.op = "login" ->
                  {Bare(IF u \in Merchants THEN "merchant" ELSE "consumer", u) : u \in Users}
             [] e.done = "orders" -> {[Bare("orders", s.user) EXCEPT !.list = a.list]}
             \* selected = modifyResponse["commodity"], which a batch has not.
             [] e.done = "selected" ->
                  {[Bare("selected", s.user) EXCEPT !.known = e.op # "batch"]}
             [] OTHER -> {Bare(e.done, s.user)}

Receive(t) ==
  LET a == Head(replies[t])
      e == waiting[t].entry
  IN  /\ Outstanding(t) /\ replies[t] # << >> /\ a.ok # "closed"
      /\ replies' = [replies EXCEPT ![t] = Tail(@)]
      /\ waiting' = [waiting EXCEPT ![t].entry = None]
      /\ \E s \in Shows(t, e, a) : screen' = [screen EXCEPT ![t] = s]
      /\ told' = IF e.op = "recharge" /\ a.ok = "success"
                 THEN [told EXCEPT ![screen[t].user] = @ + 1] ELSE told
      /\ UNCHANGED <<link, sent, data, failed, charges>>

\* recv finds the connection closed by the server.
ReceiveFails(t) ==
  /\ Outstanding(t) /\ replies[t] # << >> /\ Head(replies[t]).ok = "closed"
  /\ Disconnected(t)
  /\ BackToMain(t)
  /\ UNCHANGED <<sent, data, told, charges>>

\* How many lines of a list are not below a row; the newest order comes first.
Position(list, row) == Cardinality({r \in list : r.order >= row.order})

PickedAgain(t, row) == \* mutant: the list is fetched once more after the choice
  LET list == Listed(screen[t].user)
  IN  (CHOOSE r \in list : Position(list, r) = Position(screen[t].list, row)).order

\* The order that was chosen: a line of the list that was shown.
Picked(t, row) == row.order

\* Only what the list shows as pending can be paid or cancelled.
OrderScreens(t) ==
  {[Bare("order", screen[t].user) EXCEPT !.order = Picked(t, row), !.total = row.total] :
     row \in {r \in screen[t].list : r.status = "PENDING"}}

Move(t, next) ==
  /\ ~ Outstanding(t)
  /\ <<screen[t].at, next>> \in Moves
  /\ \E s \in IF next = "order" THEN OrderScreens(t)
              ELSE {Bare(next, IF next = "main" THEN None ELSE screen[t].user)} :
       screen' = [screen EXCEPT ![t] = s]
  /\ UNCHANGED <<link, waiting, sent, replies, data, told, failed, charges>>

Client(t) ==
  \/ \E e \in Entries : \E value \in Values(t, e) : SendRequest(t, e, value)
  \/ GiveUp(t)
  \/ ConnectFails(t)
  \/ Receive(t)
  \/ ReceiveFails(t)
  \/ \E next \in {move[2] : move \in Moves} : Move(t, next)

-----------------------------------------------------------------------------
Message ==
  [from : Terminals, link : Nat,
   request : [no : Nat, op : {e.op : e \in Entries}, user : Users \cup {None}, value : Nat,
              total : Nat, known : BOOLEAN]]

SessionInit ==
  /\ screen = [t \in Terminals |-> Bare("main", None)]
  /\ link = [t \in Terminals |-> 0]
  /\ waiting = [t \in Terminals |-> [count |-> 0, entry |-> None]]
  /\ sent = {}
  /\ replies = [t \in Terminals |-> << >>]
  /\ data \in Starts
  /\ told = [u \in Users |-> 0]
  /\ failed = [u \in Users |-> 0]
  /\ charges = {}

SessionNext ==
  \/ \E t \in Terminals : Client(t)
  \/ \E m \in sent : Serve(m)

SessionSpec == SessionInit /\ [][SessionNext]_sessionVars

-----------------------------------------------------------------------------
SessionTypeOK ==
  /\ screen \in [Terminals -> Screen]
  /\ link \in [Terminals -> Int]
  /\ waiting \in [Terminals -> [count : Nat, entry : Entries \cup {None}]]
  /\ sent \subseteq Message
  /\ data \in Server
  /\ {told, failed} \subseteq [Users -> Nat]

\* What a terminal reads next from its socket is the answer to the request it
\* waits for, never a late answer to one it has given up.
ShownAnswersAsked ==
  \A t \in Terminals : replies[t] # << >> =>
    /\ Outstanding(t)
    /\ Head(replies[t]).no = waiting[t].count

\* What a user has, and has paid for orders.
PaidBy(u, o) == IF o.user = u /\ o.status = "PAID" THEN o.total ELSE 0

Held(d, u) ==
  d.balance[u] + SumOf([i \in DOMAIN d.orders |-> PaidBy(u, d.orders[i])])

\* The terminals where user u waits for the answer to a recharge.
Asking(u) ==
  {t \in Terminals :
     screen[t].user = u /\ Outstanding(t) /\ waiting[t].entry.op = "recharge"}

\* A user who gets no answer does not know whether the money arrived, but the
\* account never holds more than the recharges that were asked for, nor less
\* than those that were confirmed.
MoneyAsTold ==
  \A u \in Consumers :
    /\ Deposit * told[u] <= Held(data, u)
    /\ Held(data, u) <= Deposit * (told[u] + failed[u] + Cardinality(Asking(u)))

\* Paying an order charges what the list the user chose it from showed of it,
\* also when orders were made, paid or cancelled from another terminal, or the
\* price was changed, since that list was fetched (Client.cpp:774).
ChargedAsListed == \A c \in charges : c.charged = c.listed
=============================================================================
