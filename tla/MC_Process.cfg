SPECIFICATION ProcSpec
CONSTANTS
  Len = 3
  Limit = 2
  Attempts = 2
  TickMs = 1
  StaleAfter = 3
  Failsafe = 3
  Grace = 2
  TTL = 2
  MaxConns = 1
  MaxOutages = 1
INVARIANTS PoolInv HeartbeatIsTrue CleanExitFreesLease
PROPERTY ShutdownEnds
CHECK_DEADLOCK FALSE
