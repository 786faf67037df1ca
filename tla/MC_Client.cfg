SPECIFICATION Spec
CONSTANTS
  u1 = u1
  u2 = u2
  m1 = m1
  m2 = m2
  m3 = m3
  c1 = c1
  c2 = c2
  p1 = p1
  p2 = p2
  f1 = f1
  f2 = f2
  i1 = i1
  User = {u1, u2}
  Item = {m1, m2, m3, c1, c2, p1, p2, f1, f2, i1}
  Kind <- Kinds
  Existing = {m1, m2, c1, c2, p1, f1, f2}
  Owner <- Owners
  None = none
  Pieces = 2
  MaxUpsets = 1
  Arrivals <- Tabs
  MaxGestures = 2
  MaxFlight = 1
CHECK_DEADLOCK FALSE
INVARIANTS ListsSettle NoStrangers NothingMeansNothing ShownIsSelected GapsAreRefetched RoomIsOwn RepliesAreWhole
