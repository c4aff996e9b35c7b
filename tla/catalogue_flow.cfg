SPECIFICATION Spec
CONSTANTS
  p1 = p1 p2 = p2 f1 = f1 u1 = u1 u2 = u2 r1 = r1 r2 = r2 r3 = r3
  Products = {p1, p2}
  Files = {f1}
  Users = {u1, u2}
  Requests = {r1, r2, r3}
  Bodies <- MCBodies
  None = None
  MaxStock = 1
  Ratings = {1}
  MaxStatements = 1
  Ids = {1, 2, 3}
  Times = {0, 1, 2, 3}
  Micros = 2
  Keys = {0, 1, 2}
  Limits = {1, 2}
  NoCursor = NoCursor
  MaxChanges = 2
CHECK_DEADLOCK FALSE
INVARIANTS ShownImagesExist DanglingMainNeedsRace OneReviewPerUser SeenInOrder NothingMissed
PROPERTIES OnlyRacesOverwrite
