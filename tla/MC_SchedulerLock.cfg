SPECIFICATION FairLockSpec
CONSTANTS
  n1 = n1
  n2 = n2
  Node = {n1, n2}
  NoOwner = NoOwner
  TtlMs = 2
  SweepAfter = 1
  Skew <- SkewTwo
  MaxSkew = 1
  MaxTime = 5
  QuietAfter = 2
  MaxFaults = 1
INVARIANTS LockInv OneSecureLeader
PROPERTIES LeaseSpec Failover
CHECK_DEADLOCK FALSE
