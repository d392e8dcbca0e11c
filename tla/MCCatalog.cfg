CONSTANTS
  Merchants = {m1, m2}
  Consumers = {}
  Passwords = {p1}
  WellFormed = {p1}
  Digests <- MCDigests
  Encrypt <- MCEncrypt
  Amounts = {1}
  MaxDeposit = 1
  MaxRestarts = 1
  None = None
  Commodities = {c1, c2}
  Types = {"Food", "Book"}
  Prices <- MCPrices
  Stocks <- MCStocks
  Discounts <- MCDiscounts
  FullPrice = 2
SYMMETRY Perms
SPECIFICATION CatalogSpec
INVARIANT PricingCoherent
PROPERTIES AccountsKept ListingsKept OwnGoodsOnly
