SPECIFICATION Spec
CONSTANTS
  o1 = o1 c1 = c1 c2 = c2 c3 = c3 e1 = e1
  Orders = {o1}
  Calls = {c1, c2, c3}
  Endpoints = {e1}
  Fallback = Fallback
  None = None
  VolumeThreshold = 2
  ErrorThreshold = 50
  MaxChanges = 1
CHECK_DEADLOCK FALSE
INVARIANTS OnePaymentPerOrder OneOpenClient
PROPERTIES TrialResolves
