SPECIFICATION SessionSpec
CONSTANTS
  t1 = t1
  t2 = t2
  c1 = c1
  m1 = m1
  None = None
  Terminals <- MCTerminals
  Consumers <- MCConsumers
  Merchants <- MCMerchants
  Prices <- MCPrices
  Starts <- MCStarts
  Deposit = 2
  MaxBalance = 4
  MaxOrders = 2
  MaxEffort = 8
INVARIANTS
  ShownAnswersAsked
  MoneyAsTold
  ChargedAsListed
CHECK_DEADLOCK FALSE
