SPECIFICATION SysFairSpec
CONSTANTS
  p1 = p1
  Products = {p1}
  Users = {u1}
  Registered = {u1}
  Keys = {}
  NoKey = NoKey
  OrderIds = {r1}
  Cancels = {c1}
  NoOrder = NoOrder
  Payments = {r1}
  NoPayment = NoPayment
  Txs <- MCTxs
  Baskets <- MCBaskets
  MaxOrderQuantity = 2
  InitialStock <- MCStock
  Workers = {w1, w2}
  MaxAttempts = 1
  PaymentsEnabled = TRUE
  Junk = {}
  MaxFaults = 1
CHECK_DEADLOCK FALSE
INVARIANTS ChargedOncePublished PaidRowHasPayment
PROPERTIES PublishedSettles
