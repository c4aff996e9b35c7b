SPECIFICATION FairSpec
CONSTANTS
  o1 = o1 w1 = w1 w2 = w2 p1 = p1
  Products = {p1}
  Users = {u1}
  Keys = {}
  NoKey = NoKey
  NoOrder = NoOrder
  NoPayment = NoPayment
  Txs = {}
  Baskets <- MCBaskets
  OrderIds = {o1}
  Payments = {o1}
  Workers = {w1, w2}
  MaxAttempts = 2
  PaymentsEnabled = TRUE
  Junk <- MCJunk
  MaxFaults = 1
CHECK_DEADLOCK FALSE
INVARIANTS MessageNotLost AuthorizedOnce
PROPERTIES FollowsLifecycle QueueDrains
