CONSTANTS
  Merchants = {m1, m2}
  Consumers = {a}
  Passwords = {p1}
  WellFormed = {p1}
  Digests <- MCDigests
  Encrypt <- MCEncrypt
  Amounts = {4}
  MaxDeposit = 4
  MaxRestarts = 0
  None = None
  Commodities = {c1, c2}
  Types = {"Food"}
  Prices <- MCPrices
  Stocks = {1}
  Discounts = {}
  FullPrice = 1
  Quantities = {1}
  MaxOrders = 1
  MaxAmount = 2
  MaxUnits = 8
SYMMETRY Perms
SPECIFICATION ShopSpec
INVARIANT BalancesExplained
PROPERTY MarketSpec
