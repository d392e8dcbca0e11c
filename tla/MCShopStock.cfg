CONSTANTS
  Merchants = {m1}
  Consumers = {a, b}
  Passwords = {p1}
  WellFormed = {p1}
  Digests <- MCDigests
  Encrypt <- MCEncrypt
  Amounts = {1}
  MaxDeposit = 1
  MaxRestarts = 1
  None = None
  Commodities = {c1}
  Types = {"Food"}
  Prices = {1}
  Stocks <- MCStocks
  Discounts = {}
  FullPrice = 1
  Quantities = {1}
  MaxOrders = 2
  MaxAmount = 3
  MaxUnits = 8
SPECIFICATION FairShopSpec
INVARIANTS ShopTypeOK UserCacheCoherent StockConserved StockCover StockNeverLost
PROPERTY OverdueOrdersClose
