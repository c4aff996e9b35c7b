SPECIFICATION Spec
CONSTANTS
  p1 = p1 p2 = p2 u1 = u1 u2 = u2 r1 = r1 r2 = r2 r3 = r3 k1 = k1
  Products = {p1, p2}
  Users = {u1, u2}
  Requests = {r1, r2, r3}
  Keys = {k1}
  NoKey = NoKey
  NoOrder = NoOrder
  InitialStock <- MCStock
  InitialRows <- MCRows
  InitialLastId = 1
  MaxQuantity = 2
  MaxOrderQuantity = 2
  MaxChanges = 1
SYMMETRY Symmetry
CHECK_DEADLOCK FALSE
INVARIANTS OrderedItemsLeave NeverOvercounts
PROPERTIES ItemsLeaveOnlyOnPurpose
