SPECIFICATION FairSpec
CONSTANTS
  p1 = p1 p2 = p2 r1 = r1 r2 = r2 c1 = c1 c2 = c2 u1 = u1 u2 = u2 k1 = k1
  Products = {p1, p2}
  Users = {u1, u2}
  Registered = {u1}
  Keys = {k1}
  NoKey = NoKey
  OrderIds = {r1, r2}
  Cancels = {c1}
  NoOrder = NoOrder
  Payments = {}
  NoPayment = NoPayment
  Txs <- MCTxs
  Baskets <- MCBasketsLimit
  MaxOrderQuantity = 2
  InitialStock <- MCStockLow
CHECK_DEADLOCK FALSE
INVARIANTS TypeOK StockNeverNegative LedgerBalanced SameKeySameOrder
PROPERTIES FollowsLifecycle EveryRequestEnds
