SPECIFICATION Spec
CONSTANTS
  m1 = m1
  m2 = m2
  m3 = m3
  Monitor = {m1, m2}
  Interval = 2
  Cooldown = 2
  MaxBatch = 2
  TickMs = 1
  PoolMs = 1
  JumpBy = 14
  MaxUpsets = 2
  MaxLag = 30
INVARIANT WaitIsBounded
PROPERTY NoBackfill
