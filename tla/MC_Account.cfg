SPECIFICATION Spec
CONSTANTS
  b1 = b1
  b2 = b2
  p1 = p1
  p2 = p2
  Browser = {b1, b2}
  Email = {"e1", "e2"}
  Username = {"u1", "u2"}
  Password = {p1, p2}
  Application <- Applications
  Identity <- Identities
  Variants = {"u1"}
  LateName = "u2"
  None = "none"
  AUTO_VERIFY_USERS = TRUE
  MaxTokens = 2
  MaxRequests = 4
  MaxFaults = 1
SYMMETRY Alike
CHECK_DEADLOCK FALSE
INVARIANTS OneAccountEach NothingOverwritten
PROPERTY SpentLinksAreNotTakenUp
