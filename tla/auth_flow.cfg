SPECIFICATION AuthSpec
CONSTANTS
  Users = {u1}
  Passwords = {s1, s2}
  Requests = {r1, r2, r3}
  None = None
SYMMETRY Symmetry
CHECK_DEADLOCK FALSE
INVARIANTS ConsumedOnce OneTokenPerSession RevokedOnSuccess VerifiedByToken
