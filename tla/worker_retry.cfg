SPECIFICATION Spec
CONSTANTS
  o1 = o1 w1 = w1 w2 = w2 p1 = p1
  Products = {p1}
  Users = {u1}
  Keys = {}
  NoKey = NoKey
  NoOrder = NoOrder
  NoPayment = NoPayment
  Txs = {}
  Baskets <- MCBaskets
  OrderIds = {o1}
  Payments = {o1}
  Workers = {w1, w2}
  MaxAttempts = 2
  PaymentsEnabled = TRUE
  Junk = {}
  MaxFaults = 0
CHECK_DEADLOCK FALSE
INVARIANT FailedPaymentSettles
