CONSTANTS
  m1 = m1
  m2 = m2
  c1 = c1
  c2 = c2
  Consumers = {a}
  Merchants = {m1, m2}
  Commodities = {c1, c2}
  Owner <- MCOwner
  Supply <- MCSupply
  Amounts = {2}
  Faulty <- MCChecked
  MaxFailures = 1
  MaxCrashes = 1
  MaxOrders = 2
  MaxQuantity = 1
  MaxDeposit = 2
  None = None
SPECIFICATION OrderTxSpec
INVARIANTS ToldIsKept NothingLeftOpen WalletsFollowRows
PROPERTY RowsAtomic
CHECK_DEADLOCK FALSE
