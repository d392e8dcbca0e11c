# Shopping platform: specifications, checks and proofs

TLA+ models of the shopping platform in this repository: a C++17 server (epoll,
a thread pool, objects in memory over SQLite) and its terminal client. The
models follow the code in `src/` and `include/`; `PROJECT.json` maps each
definition to the lines it stands for.

## The system

| Part | State it keeps | Operations | Hard behaviour |
|---|---|---|---|
| `UserManager`, `User` (`User.cpp`) | table `users`; `_userMap` of objects loaded on demand; `_cacheMutex` | `registerUser`, `login`, `getOrLoad`, `getUserById`, `addBalance`, `subtractBalance`, `setPassword`, `updateBalance`, `updatePassword` | a balance lives in a row and in an object; the map is empty after a restart; the map is filled in three steps under a mutex held only for the first and the last |
| `CommodityManager`, `Commodity` (`Commodity.cpp`) | table `commodities`; `_nameMap`, `_idMap` | `addCommodity`, searches that load objects, `updatePrice/Stock/Discount`, `batchUpdateDiscount` | stock, price and discount live twice; clients are shown objects, `checkout` charges rows; a batch picks rows and objects by different means |
| `OrderManager` (`OrderManager.cpp`) | tables `cart_items`, `orders`, `order_items` | cart operations, `checkout` (with or without payment), `payOrder`, `cancelOrder`, `cancelExpiredOrders` | transactions that roll back rows and not objects; an order is paid, cancelled and expired by different threads |
| Handlers (`Server.cpp:256-688`) | none | one per action of a request | checks of user, type and owner before each manager operation |
| Event loop, pool, lock, expiry thread (`Server.cpp:50-215`) | `_tasks`, `_dataMutex`, `_cv`, the epoll set | `runEpoll`, the workers, `expiryCheckLoop` | one-shot events, descriptors that are reused, a lock shared or exclusive by the table `isReadOnly` |
| Client (`Client.cpp`) | one socket, local copies of what it shows | `sendRequest`, menus | gives up after 10 seconds; lost responses; copies that go stale |
| Protocol (`Protocol.h`) | none but the bytes in the kernel | `sendJson`, `recvJson` with the loops `sendAll`, `recvAll` | a length, then that many bytes of JSON; at most 1 MB; a `send` or `recv` moves any part; sends have no timeout |
| Database (`Database.cpp`) | the SQLite connection | schema, `PRAGMA`s | `UNIQUE` constraints, defaults, transactions |
| `nlohmann/json` (vendored in `include/`) | a value and what points into it | `parse`, `dump`, accessors, iterators, comparison, conversions, pointers, patches | stacks instead of recursion; numbers of three types; UTF-8; calls that throw half-way |

A client sends one request over TCP and waits. The main thread learns from epoll
that the connection is readable and queues a task; a worker takes it, reads the
request, takes `_dataMutex` (shared for the requests `isReadOnly` names,
exclusive for the others), runs the handler, releases the lock, sends the
response and arms the connection again. The handlers work on the objects of the
managers and write the rows through. Every 60 seconds the expiry thread takes
`_dataMutex` exclusively and cancels orders that have been pending for 30
minutes.

The properties that make each part correct, with the hazards that threaten
them, are listed in `PROJECT.json` (`hazards`); in short:

* accounts: balances are never negative (prices and stocks of goods may be: nothing at the
  server refuses a listing), object and row agree, an account once
  registered is never replaced;
* goods: what clients are shown is what they are charged, a listing is never
  replaced, a merchant's request touches only that merchant's goods;
* orders: a buyer pays what the order fixed at checkout, once, to the owners of
  its goods, who never lose by it; an order is paid or cancelled, never both; every unit on sale is in
  the row or in one order; an unpaid order ends;
* transactions: the rows change as if each operation happened at once, wherever a
  checked statement fails or the process ends; what a client is told of an order is
  true after a crash;
* client: an answer shown is the answer to the request just made, an order is
  paid at the total of the list it was picked from, every call comes back;
* protocol: a message arrives whole, in order and once, or the connection ends;
  between two calls a connection is empty;
* JSON: what is sent is received, and what is no JSON is refused;
* server: a connection is in the hands of one thread, none is forgotten, a
  response goes to the client that asked, a writing handler runs alone, every
  request is answered.

## Modules

| Module | What it models | Composes |
|---|---|---|
| `Accounts` | the users' rows and objects, requests as atomic actions, restarts | |
| `Catalog` | the goods' rows and objects, merchants' requests, searches | extends `Accounts` |
| `Shop` | carts, orders, payment, cancellation, expiry, restarts: all data of the server | extends `Catalog` |
| `Marketplace` | abstract: what the shop promises about money | implemented by `Shop` (`MarketSpec`) |
| `CacheFill` | the steps of `getOrLoad` and `registerUser` by concurrent threads | implements `Accounts` (`RequestsAreAtomic`) |
| `Reactor` | clients, descriptors, epoll, queue, workers, lock, expiry thread | |
| `Exchange` | abstract: whole messages over connections | implemented by `Framing` (`FramesArriveWhole`) |
| `Framing` | `sendJson` and `recvJson` at both ends of a connection, byte by byte, with `sendRequest` and the task of a worker around them | |
| `OrderBook` | abstract: rows that change as if each order operation happened at once, and what a `COMMIT` that fails may leave | implemented by `OrderTx` (`RowsAtomic`) |
| `OrderTx` | `checkout`, `payOrder`, `cancelOrder`, `cancelExpiredOrders` statement by statement: transaction, rows seen and rows on disk, objects, failures, crashes | extends `OrderBook` |
| `ClientSession` | the terminals: menus, `sendRequest` with its timeout, connections, late and lost responses, over a server reduced to what clients show and act on | |
| `JsonText` → `JsonParser` | bytes to tokens; tokens to events; the builder | each extends the one before |
| `JsonSerializer` | `dump`: escapes, error handlers, numbers, layout | extends `JsonParser` |
| `JsonValue` → `JsonDocument` → `JsonPointer` → `JsonPatch` | comparison, conversions, destruction; element access and modification by key, index and iterator; pointers, `flatten`; patches | each extends the one before, the first `JsonSerializer` |
| `JsonFilter` | the parser with a callback | extends `JsonSerializer` |
| `Json` | texts that arrive word by word, documents that are modified call by call | extends `JsonPatch`, `JsonFilter` |
| `MC*` | instances for TLC | |
| `Sums` | the sum of a function over its domain | used by `Shop`, `Marketplace`, `OrderBook`, `ClientSession` |
| `CatalogProofs`, `ShopProofs`, `ReactorProofs`, `CacheFillProofs`, `FramingProofs`, `OrderTxProofs`, `ClientSessionProofs` | theorems | extend the module of their name, `ShopProofs` also `CatalogProofs`, which has those of `Accounts` too |
| `SumsProofs` | what `SumOf` computes, for every function on a finite set | extends `Sums`; used by the proofs about `Shop`, `OrderTx` and `ClientSession` |

How the modules fit together. `Accounts`, `Catalog` and `Shop` make one action
of each request. Two facts about threads justify this: a handler that writes
runs alone (`WritesRunAlone` of `Reactor`), and the handlers that only read,
which may run side by side, change nothing but the maps they fill, which they do
as if one at a time (`RequestsAreAtomic` of `CacheFill`, a theorem for any number
of threads). That the statements of
one request take effect together, whatever fails, is the matter of `OrderTx`: it
implements `OrderBook`, whose steps are those of `Shop` on the rows, with prices
of 1, but where a `COMMIT` of `checkout` fails. `ClientSession` is the other end of the connection that `Reactor` serves.
Both send and receive whole messages in one step; that a stream of bytes allows
this is the matter of `Framing`: it implements `Exchange`, in whose steps
(ask, hear, say, tell, hang up) the two are written.

### State and code

* A table is a function from keys to records or `None`. Names and ids are one
  identity, since both columns are unique and neither changes.
* A map of objects (`userCache`, `commodityCache`) is such a function as well:
  the fields of the object, or `None` when it has not been loaded. An operation
  that looks up an object loads it; that is part of the action
  (`CacheWithUsers`, `CacheWithGoods`), because what is loaded when decides
  whether object and row agree.
* Money, prices and discounts are integers. `FullPrice` is the discount 1.0. Prices
  and stocks may be negative: the client refuses them (`Client.cpp:229`, `241`),
  `addCommodity` and its handler do not. `Credit` is what `addBalance` adds, which is
  nothing when the amount is not positive; an immediate payment credits item by item
  (`GainNow`) and a later one merchant by merchant (`GainLater`).
* `deposited` and `supplied` are history: what a user has recharged, and the
  units a merchant has put on sale. No guard depends on them except the bound on
  recharges.
* A restart empties the maps and keeps the rows. In `Shop` it happens between
  requests: a transaction that is cut in two is rolled back by SQLite and leaves
  the rows as before. In `CacheFill` it happens between any two steps.
* Time in `Shop` is `aged`: the first `aged` orders are more than 30 minutes old.
  Ages grow in the order of ids, since both are given at the insertion.
* In `Reactor` a worker has a program counter: `look` (about to look at the
  queue), `asleep` (in `_cv.wait`), `recv`, `lock`, `run`, `send`, `rearm`,
  `close`. A request is `complete`, `incomplete` (a field is missing, the handler
  throws) or `broken` (it cannot be received or has no action). The backlog of
  the listening socket and the bytes in the kernel are the client's side
  (`link`, `asked`). `epoll_wait` returns everything that is ready, which is
  what it does up to the 64 events of its array.

* `OrderTx` has the rows three times: `book` on disk, `db` as the connection
  sees them inside its transaction, and the objects `wallet` and `stock`. `op` is
  the operation that runs and the statement it is at; one runs at a time, under
  `_dataMutex`. A statement of `Faulty` may fail, and SQLite may roll back with
  it; a crash keeps `book`. `confirmed` is what clients have been told. `seen`,
  `held` and `astray` are history: the rows as the last operation left them to the
  connection, whether the open transaction is that of a checkout whose `COMMIT`
  failed, and whose objects the rollback of such a checkout left behind.
* In `ClientSession` an `Entry` is a request that a screen of the client can
  send, with the screens that follow success and failure. `Bare` forgets the
  local copies, as leaving the block of a menu does; the one that outlives a
  screen is the list of orders, from which an order and its total are picked
  (`Client.cpp:774`). Connections are numbered:
  a response goes to the connection its request came by, and `close` makes the
  terminal deaf to it. `told`, `failed` and `charges` are history.
* In `Framing` an end of a connection is the loop it is in: `sendLength` and
  `sendBody` are the two calls of `sendAll` with what is `left` to send,
  `recvLength` and `recvBody` those of `recvAll` with what it has `got` of `size`
  bytes. `up` and `down` are the bytes the kernel has of the two directions; what
  is sent to an end that is closed is lost. `json::parse` is the set `Texts` of
  what it accepts. `asked`, `heard`, `said` and `told` are history, and the
  variables of `Exchange`. The data lock, the queue and the reuse of descriptors
  are those of `Reactor`; here every connection has a worker when it wants one.
* A value of JSON is a record of a type and its data. Strings are sequences of
  bytes, floats are decimal digits with an exponent, objects are functions from
  keys to values, iterators are positions in the order of `std::map`. A call
  returns the value it leaves and the id of the exception it throws. 64-bit
  integers are `IntBits` wide and `int` is `NarrowBits` wide; a double holds
  every decimal up to 10^`MaxExp10`.

### Bounds

Every bound is a constant marked "bound" in its module and appears in a guard:
`MaxDeposit`, `MaxRestarts`, `MaxOrders`, `MaxAmount`, `MaxUnits`, `MaxRequests`,
and the sets `Objects` and `Fds`. `MaxAmount` and `MaxUnits` keep the sums of an
order inside what TLC (and the type of `Marketplace`) can enumerate; no run
reaches `MaxUnits`. In `OrderTx`: `MaxFailures`, `MaxCrashes`, `MaxOrders`,
`MaxQuantity`, `MaxDeposit`; in `ClientSession`: `MaxBalance`, `MaxOrders` and
`MaxEffort`, the requests of all terminals, where a timeout counts for two (`Starts`,
what the server holds in the beginning, is a parameter); in `Reactor` `MaxRequests`, too,
is over all connections; in
`Framing`: `MaxRequests` over all connections (`Base` and `Capacity` are
parameters of the machine, any value of which the proofs allow); in
`Json`: `MaxNodes` and the length of the texts of each alphabet.

## Runs

| Run | Instance | What it shows |
|---|---|---|
| `catalog` | 2 merchants with recharges, 2 goods of 2 types, 1 restart, inputs that are refused | prices and discounts shown = charged; accounts and listings are kept; a request leaves the rows and objects of other merchants' goods alone |
| `shop_money` | 2 merchants, 1 consumer, 2 goods at prices of −1 and 2, 1 order of one or both | each balance is deposits − paid + earned, or more when a share was negative; `Shop` implements `Marketplace` |
| `shop_stock` | 2 consumers, 1 commodity whose last unit both want, or that is listed with a stock of −1, 2 orders, 1 restart, fair expiry thread | types, objects of users = rows; no unit lost, and none lost or sold twice and no object ahead of its row in one life of the server; an order of 30 minutes does not stay pending |
| `cache_fill` | 3 threads, 2 users, 3 addresses, 1 restart | pointers are live; the steps implement `Accounts` |
| `reactor` | 2 connections, 2 descriptors, 2 workers, the expiry thread; 2 requests over one connection or two: a writer, a reader and one that fails | one hand at a time; no connection forgotten; writers run alone; responses follow requests, also after a descriptor is reused; every request, the second of a connection too, is answered or its connection ends |
| `order_tx` | 1 consumer, 2 goods of 2 merchants, 2 orders, 1 failure of a statement `checkout` looks at, `COMMIT` included, 1 crash | the rows change as in `OrderBook`; what was told is kept; a transaction left open, and users' objects that differ from their rows between operations, are those of a failed `COMMIT` |
| `framing` | 2 connections, bytes of one bit, at most 3 of them in a message and in the kernel, requests of 1 and 18 bytes, responses of 3 and 4; 3 requests | messages arrive whole or not at all, too long ones and those whose length wraps included; a connection that is kept is empty between calls; calls and workers come back |
| `client_session` | 2 terminals, 1 consumer, 1 merchant, 2 prices, 2 orders; an empty server, or one with a filled cart and an order | no late answer is shown; recharges are as told; an order is paid at the total that was listed |
| `json` | 6 alphabets of words, texts of up to 7 words; documents of up to 3 values | parser = grammar; numbers and strings = their definitions; sent = received; patches, pointers, positions, comparison and conversions agree; calls that throw change nothing |
| `sold_twice` (violation) | up to 2 units, 1 restart, 3 orders | see *Disagreements* |
| `ignored_result` (violation) | as `order_tx`, 1 failure of a statement of `payOrder`, no crash | see *Disagreements* |
| `commit_fails` (violation) | as `order_tx`, 1 failure of `COMMIT`, no crash | see *Disagreements* |

Why the bounds are enough. The races for stock need two carts over the last unit
of one commodity, which its merchant may supply again; the theorems of
`ShopProofs` are about any quantities. Those for money need an order with goods
of two merchants, prices of either sign that move between checkout and payment, so that the
share of a merchant, or the total, is negative (a total of just zero is left to the theorem),
and one payment (payments of different
orders touch one balance by addition only). A restart is interesting once before
and once after an order; a second one starts from the same empty maps. In
`Reactor` two connections and two workers are the least that can collide, and a
descriptor that is closed is handed out again at the next `accept`; the two requests
may go over one connection, which has to be armed again in between. In `CacheFill` a
third thread is one more than the race for a slot needs. In
`OrderTx` two goods of two merchants give every loop a second turn, the second
order finds what the first left behind, and one failure and one crash already
meet in every order. In `ClientSession` two terminals under one account are the
least that can change the orders behind a user's back; with a second order the list
changes its length under a choice made from it, and `MaxEffort`
lets a request be given up and repeated and its late answer arrive. In `Framing` the request of 18 bytes has a
length that wraps to 2 in four bits, which is one that is allowed; the response
of 4 bytes is one too long; both are longer than the kernel's buffer, so that
senders wait. A second connection is used after the first has failed. In `Json` the
words of an alphabet are whole tokens, escapes or digits, chosen so that a few of
them reach each state of the automaton in question; three values are a container
in a container, or two siblings, which is what removal, insertion and patches can
confuse; integers of 4 bits put every boundary of the number types within
reach. The type invariants of `Accounts` and
`Catalog` are part of `ShopTypeOK`; those of the other modules of the server and the
client are proved for every instance and not repeated by runs. Symmetry is declared over users, goods, connections, workers, threads and addresses in the runs
without liveness properties.

### Fairness

* `FairShopSpec`: weak fairness of `CancelExpiredOrders`. The expiry thread makes
  a pass every 60 seconds until the server stops. It needs `_dataMutex`, which
  `std::shared_mutex` does not promise to a waiting writer; the handlers are
  short, and the passes are a minute apart.
* `FairReactorSpec`: weak fairness of the main thread, of each worker, and of the
  end of an expiry pass: a thread that can run does. Strong fairness of `Enter`:
  a worker that waits for `_dataMutex` gets it if it is free for it again and
  again. That a `Send` ends is part of weak fairness of a worker: the code sets no
  send timeout, so a client that stops reading can in fact hold a worker.
  Strong fairness of `Accept`: the listening socket is ready again and again, and
  `accept` does not fail for ever.
* `FairFramingSpec`: weak fairness of every loop (`ClientSends`, `ServerSends`,
  `ClientReceives`, `ServerReceives`): a thread that `send` or `recv` can let go
  on does. Weak fairness of `ClientGivesUp` and `ServerGivesUp`: `SO_RCVTIMEO` ends
  a `recv` to which nothing comes (10 and 30 seconds), and a `send` fails when the
  other end has closed. A `send` to an end that is open and does not read has no
  such action: that it ends (`WorkersReturn`) follows from what the client does.
  The handler ends (`Responds`), and a worker takes what epoll reports (`Wakes`),
  as `RequestsAnswered` shows.
* Users are not fair: they may connect, ask and leave or not.

### Disagreements between code and comments

* `sold_twice`: a cancellation that has to load the commodity adds the quantity
  to an object that was loaded from the raised row (`OrderManager.cpp:469-477`);
  it takes a restart between order and cancellation. From there `checkout` passes
  its check on the object, which is ahead of its row, and the
  guarded `UPDATE` of `OrderManager.cpp:182` matches no row, which is
  `SQLITE_DONE`: the order is stored and no unit is taken. Hence `StockCover`
  and `StockConserved` are stated for one life of the process, and only
  `StockNeverLost` for several.
* `ignored_result`: `payOrder` looks at no result from `BEGIN` on
  (`OrderManager.cpp:417-440`), where README.md:18 promises atomicity. A single
  statement that fails leaves an order paid whose merchant has no money, or money
  moved for an order that is pending and can be paid again. The same code in
  `cancelOrderInternal` is not run with failures for that reason; `order_tx` lets
  the statements fail that `checkout` checks.
* `commit_fails`: a `COMMIT` of `checkout` that fails is answered with an error and
  without `ROLLBACK` (`OrderManager.cpp:286`). When SQLite has not rolled back by
  itself the transaction stays open. The order is in the connection's rows, where it
  is listed and can be paid; no other checkout can begin; what requests write in
  the meantime, a recharge that was confirmed for instance, is not on disk; and
  the `COMMIT` of the next payment or cancellation puts all of it there. When SQLite
  has rolled back, the objects of an immediate payment's parties keep the balances
  it gave them until a restart. `OrderBook` has these outcomes as steps of its own
  (`Waits`, `PlaceUndone`), and `NothingLeftOpen` and `WalletsFollowRows` name them
  as their only exceptions.

Seen while modelling, without a run:

* when an immediate payment is refused, `ROLLBACK` restores the rows, and the
  objects keep the lowered stock (`OrderManager.cpp:231-260`). Until a restart
  the goods look scarcer than they are. This errs to the safe side: `StockCover`
  and `StockConserved` hold with it.
* the goods that are listed by a request no client menu makes may have a negative
  price. An order that contains them charges the buyer the sum; a merchant whose
  share is negative is not charged, since `addBalance` refuses the amount and
  nobody looks (`OrderManager.cpp:269`, `425`), so that money appears.
  `BalancesExplained` and `Marketplace` say at least for such orders and exactly
  for all others.
* the total shown before a checkout is of an earlier request; the checkout charges
  its own, and nothing compares them (`Client.cpp:640`).
* the response to a batch discount has no `commodity`, which `Client.cpp:427` makes
  the selected one; a second batch then sends no type, on which the handler
  throws and the connection is closed.
* `get<int>` of a larger number keeps its low bits; an unsigned 64-bit number
  that is compared with a signed one is cast, so that the largest equals -1 and
  `==` is not transitive there (`OrderIsConsistent` leaves those numbers out);
  `update`, `patch_inplace` and assignment through a pointer may throw half-way
  (`FailureLeavesDocument` names them); `flatten` loses empty containers, and an
  object whose first key is 0 unflattens as an array; a parser with a callback
  leaves a rejected scalar of an object behind as a discarded member.

## Proofs

All theorems hold for every value of the constants that satisfies the named
assumptions of the modules (`AccountsAssumption`, `CatalogAssumption`,
`ShopAssumption`, `ReactorAssumption`, `CacheFillAssumption`,
`FramingAssumption`, `OrderBookAssumption`, `OrderTxAssumption`,
`ClientSessionAssumption`, `NoneAssumption`): that `None` is no value of another
set, that the bounds are naturals, that the inputs are of their kinds, and, where
sums or counts range over them, that there are finitely many merchants, goods or
terminals. `FramingAssumption` says besides that no proper beginning of a message
is itself JSON. Every message is an object, whose text ends with the brace that
matches its first; without this a text of 4 GB and a few bytes, whose length
wraps, could be taken for its beginning.

| Theorem | Says | Inductive invariant |
|---|---|---|
| `AccountsSafe`, `AccountsAreKept` | types, object = row; no account replaced | the two together: a recharge of an object that differs from its row would write a wrong balance |
| `CatalogSafe`, `ListingsAreKept` | types, price shown = price charged; no listing replaced | `GoodsInv`: object and row agree in all but stock; two batches, one over rows and one over objects, are then the same (`BatchesAgree`) |
| `MerchantsKeepToTheirGoods` | a merchant's request leaves the rows and objects of other merchants' goods alone | `GoodsInv`, and `OnlyTheirs` of every step |
| `ShopTyped`, `ShopUsersCoherent`, `ShopPricesCoherent` | types and coherence of the whole shop | `ShopInv` |
| `ShopStockCovered` | no object promises more than its row within one life of the process | `ShopInv` = `CatalogInv` ∧ `OrdersInv` ∧ `CoverInv` |
| `ShopStockNeverLost`, `ShopStockConserved` | units supplied ≤ row + orders that stand, over any restarts; equal within one life | `ShopInv` ∧ `StockInv`, the two over sums of all orders |
| `ShopBalancesExplained` | balance ≥ recharged − paid + earned, for any prices; equal while no paid order has a negative one | `ShopInv` ∧ `SellersKnown` ∧ `MoneyInv` |
| `ShopImplementsMarket` | `Shop` implements `Marketplace` | the same, and each step is a `MoneyStep` |
| `OrderTxTypes`, `OrderTxToldIsKept`, `OrderTxNothingLeftOpen`, `OrderTxWalletsFollowRows` | types; what was told is on disk; a transaction left open is that of a failed `COMMIT` of `checkout`; object = row between operations, but for those such a `COMMIT` led astray | `TxInv` ∧ `HeldInv` |
| `OrderTxImplementsOrderBook` | the statements of an operation take effect at once, on disk or, behind a failed `COMMIT`, for the requests that follow | the same |
| `ReactorTyped`, `ConnectionsInOneHand`, `ConnectionsAreKept` | every accepted connection is in exactly one place | `ConnectionInv` = types ∧ `JobsFit` ∧ `HandsInv` |
| `WritersAlone` | a handler that writes runs alone | `ConnectionInv` ∧ `LockInv` |
| `AnswersInOrder` | the n-th answer is to the n-th request, also after a descriptor is reused | `ConnectionInv` ∧ `PeersInv` ∧ `FlowInv` |
| `CacheFillTyped`, `PointersStayLive` | types; the pointer a handler works with is to the object the map owns | `CacheFillInv`: types ∧ `ThreadFits` (what a thread holds at each step) ∧ `Sharing` (threads inside together only log in) ∧ `SlotsOwn` (one object, one user, and a row) ∧ the pointers |
| `CacheFillImplementsAccounts` | the steps of concurrent threads implement the one-step handlers of `Accounts` | `CacheFillInv` ∧ `Agreement`: objects equal rows but for the one being written, and what a thread has read or is about to write is of the row as it is |
| `FramingTyped`, `QuietFramesBetweenCalls` | types; no byte is left in a connection between two calls | `FramingFlows` = types ∧ every connection is `Quiet`, `Asking`, `Running` or `Answering` |
| `FramingImplementsExchange` | a stream of bytes implements the exchange of whole messages | `FramingFlows` |
| `SessionTyped`, `SessionAnswersAsked` | types; no late answer is read as the answer to a later request | `AskedInv` |
| `SessionChargesAsListed` | the payment of an order charges what the list it was picked from showed | `AskedInv` ∧ the property |
| `SessionMoneyAsTold` | confirmed ≤ credited ≤ asked for, in recharges | `AskedInv` ∧ `MoneyInv` |

The arguments.

* **Stock.** `ShopStockCovered` is not inductive by itself. A cancellation raises
  the row and then the object it finds; that the object is there already, and is
  not loaded from the raised row, needs `CoverInv` (as long as there has been no
  restart every row has an object) and `OrdersListed` (what an order names is
  listed). `StockInv` is then kept because a checkout within one life takes what
  its check promised (the guarded `UPDATE` matches), while after a restart it may
  match no row, which leaves units in the row that an order holds as well: never
  fewer, hence the inequality.
* **Who is repriced.** A single change finds the object by name, compares its owner
  and writes the row; a batch takes rows by `WHERE merchant = ?` and objects by a loop
  over the map. `MerchantsKeepToTheirGoods` needs that owners and types of objects
  are those of the rows (`GoodsInv`).
* **Money.** `MoneyStep` says what a step does to balances and orders: a recharge,
  an order, a payment, a cancellation or nothing. `SellersKnown` (the owners of
  what an order names have accounts) keeps a payment from crediting a row that is
  not there. A payment takes from the buyer the sum over all goods and gives each
  merchant the sum over that merchant's goods, or nothing when it is negative, or,
  in an immediate payment, the sum of the items that are positive; that the sums agree is
  `SumGrouped`. Hence the inequality for orders with a negative price, and the
  equality for all others (`Regular`). Both the balance sheet and the refinement follow from
  `MoneyStep`.
* **Sums.** The library's induction theorems take an operator, which the provers
  cannot instantiate. `SubsetInduction` is an induction over the subsets of a
  finite set whose predicate is given as a set, and follows from the
  well-foundedness of strict inclusion; from it the recursion of `SumOf` and the
  rules for sums that change, grow, split or are grouped are proved.
* **Transactions.** `TxInv` describes the rows the connection sees (`db`) at each
  statement as the rows the operation found (`seen`) with the part of it that is
  behind (`CheckoutRows`, `PayRows`, `CancelRows`), and the objects of the users
  as those rows with the buyer's debit (`WalletInv`), except for users who are
  `astray`. At `COMMIT` the part is the whole, which is the step of `OrderBook`;
  everything before it, a rollback and a crash while nothing waits are stutters. When
  the `COMMIT` of a checkout fails with the transaction open, `seen` moves and `book`
  waits for the next `COMMIT` (`HeldInv`); when SQLite has rolled back, `seen` stays
  and the parties of a payment are led astray. A crash ends both. These theorems have
  the hypothesis `FaultsChecked`: the statements that fail are among those of
  `checkout` whose result the code looks at, `BEGIN`, the three statements of the
  order and `COMMIT`. With a statement of `payOrder` that fails they are false
  (`ignored_result`). `prepare` is taken to succeed.
* **Connections.** `HandsInv` adds to the two properties that nothing is queued
  or served but open descriptors (`HandsOpen`): otherwise a descriptor that
  `accept` hands out could still be in the queue. `WritersAlone` rests on the
  lemma `ReadersDoNotWrite`, that no operation `isReadOnly` accepts is one whose
  handler writes, and on `LockInv`, that handlers that run together are all
  read-only. `AnswersInOrder` needs that a descriptor has one peer
  (`PeersInv`) and that a worker that has a request has the last one of its
  connection, whose answers are otherwise complete (`FlowInv`).
* **The map of users.** `CacheFillImplementsAccounts` maps a registration to its
  `INSERT`, a login to the fill of the map, a recharge or a new password to the
  write-back, and every other step to a stutter; `Cached`, the map as the requests
  that have taken effect left it, shows the row where a thread has yet to fill the
  map or to write back. `Sharing` is what makes it hold: beside a thread that is
  at such a step there is no other.
* **Messages.** A connection carries one message at a time. `FramingFlows` says
  how far it is: what the receiver has read of the frame (`ReadsOf`), what is on
  the wire (`Flying`) and what the sender has left (`SendsOf`) follow one another
  in it, and their sizes add up, unless an end has closed. `SendMoves` and
  `RecvMoves` move the two borders by any number of bytes. When the receiver is
  done its count is the size of the frame, so the wire is empty and the sender is
  done as well. That the length which is read never exceeds the length of the text
  (`PrefixOf`) makes a body that is read a beginning of the text; it is accepted
  only if it is all of it.
* **The client.** `AskedInv` says of a message that is not handled yet that either
  the terminal it came from still waits for just this request, or the connection
  has been closed and its number is past; so at most one message of a terminal
  can be answered. It carries what a list showed to the choice and to the request made from it: each
  line of a list, whenever it was fetched, is of an order of this user with the total it
  was made with (`ListFits`, `ScreenFits`, `RequestFits`), which is what
  `SessionChargesAsListed` needs. `HandlersAreRight` says of every handler that orders stay, that a payment
  takes the total it is for, and that only a recharge adds to what a user holds.
  `MoneyInv` gives every user a number of recharges credited, and counts where
  the others are: not handled, refused and not told, confirmed and not told.

Only model-checked:

* liveness (`OverdueOrdersClose`, `RequestsAnswered`, `CallsReturn`,
  `WorkersReturn`), which is out of the prover's reach;
* everything about JSON: its definitions are `RECURSIVE`, and so are the reference
  definitions they are compared with, which keeps the provers out of these
  modules. The server and the client call `parse`, `dump`, the accessors, `push_back`,
  `get` and `==` with a string; patches, `erase`, the order of values and pointers
  belong to the library alone, and what is checked about them is about the vendored
  file only.

Every other property of a run that passes is a theorem.

## Not modelled

* A client process that is stopped or whose machine vanishes while a response is
  being sent: the worker then waits in `send` for as long as TCP does. A response
  that exceeds 1 MB ends the connection in `Framing`; that a long list of goods or
  orders becomes one is not modelled.
* Rounding of `double`, overflow of `int` quantities in a cart, descriptions,
  texts of responses, hashing of passwords (an injective table), the reading of
  numbers from the terminal (which at the end of the input does not end, and by
  which an order operation may index past the tables of messages).
* The goods' two maps in steps: they are filled under one mutex, in the steps of
  `CacheFill`.
* `sqlite3_prepare_v2` that fails; opening the database and creating its tables.
* Of `nlohmann/json`: the binary formats and binary values, the digits of grisu2
  (a float is its digits), diagnostics, user-defined types and allocators. The
  program uses none of them but the digits.
* The destructor of `Server`: the process ends by being killed.

## Plan

Done, in order of importance: `Accounts` → `Catalog` → `Shop` and `Marketplace`
→ their proofs → `Reactor` and its proofs → `CacheFill` and its proofs →
`OrderBook` and `OrderTx` → `ClientSession` → the JSON modules → sums, and the
proofs of `Shop`'s stock and money, `OrderTx` and `ClientSession` → `Exchange`,
`Framing` and its proofs.

Next:

1. What can be proved about JSON without recursion: the algorithms on positions,
   comparison of scalars and conversions of numbers, in a module of their own
   that `JsonValue` extends.
2. The destructor of `Server` beside running workers, should `main` ever reach it.
