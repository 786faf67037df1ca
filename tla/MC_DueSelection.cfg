SPECIFICATION FairSpec
CONSTANTS
  m1 = m1
  m2 = m2
  m3 = m3
  Monitor = {m1, m2, m3}
  Interval = 2
  Cooldown = 2
  MaxBatch = 1
  TickMs = 1
  PoolMs = 1
  JumpBy = 3
  MaxUpsets = 1
  MaxLag = 20
INVARIANT WaitIsBounded
PROPERTY NobodyForgotten
