CONSTANTS
  Merchants = {m1}
  Consumers = {a}
  Passwords = {p1}
  WellFormed = {p1}
  Digests <- MCDigests
  Encrypt <- MCEncrypt
  Amounts = {1}
  MaxDeposit = 1
  MaxRestarts = 1
  None = None
  Commodities = {c1}
  Types = {"Food"}
  Prices = {1}
  Stocks = {1, 2}
  Discounts = {}
  FullPrice = 1
  Quantities = {1, 2}
  MaxOrders = 3
  MaxAmount = 3
  MaxUnits = 8
SPECIFICATION ShopSpec
INVARIANT NothingSoldTwice
