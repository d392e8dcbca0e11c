--------------------------- MODULE MCClientSession ---------------------------
\* Two terminals, used by one consumer and one merchant.
EXTENDS ClientSession

CONSTANTS t1, t2, c1, m1

MCTerminals == {t1, t2}
MCConsumers == {c1}
MCMerchants == {m1}
MCPrices == {1, 2}

Start(price, quantity, orders) ==
  [price |-> price, cart |-> [u \in MCConsumers |-> quantity], orders |-> orders,
   balance |-> [u \in MCConsumers |-> 0]]

\* Nothing, or a filled cart and an order that is dearer than the next.
MCStarts ==
  {Start(1, 0, << >>),
   Start(1, 1, <<[user |-> c1, total |-> 2, status |-> "PENDING"]>>)}
=============================================================================
