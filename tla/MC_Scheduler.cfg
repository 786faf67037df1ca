SPECIFICATION SchedSpec
CONSTANTS
  n1 = n1
  n2 = n2
  m1 = m1
  m2 = m2
  m3 = m3
  Node = {n1, n2}
  NoOwner = NoOwner
  Monitor = {m1, m2}
  TtlMs = 1
  SweepAfter = 10
  Skew <- NoSkew
  MaxSkew = 0
  MaxTime = 1
  QuietAfter = 1
  MaxFaults = 1
  Interval = 1
  Concurrency = 1
  MaxBatch = 2
  Grace = 1
  MaxBadCalls = 1
SYMMETRY Symmetry
INVARIANTS NothingLeaks OverlapNeedsLapse
CHECK_DEADLOCK FALSE
