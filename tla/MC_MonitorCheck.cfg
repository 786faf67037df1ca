SPECIFICATION FairSpec
CONSTANTS
  r1 = r1
  r2 = r2
  Runner = {r1}
  Configs <- EditableConfigs
  MinInterval = 2
  BREAKER_FAILURE_THRESHOLD = 3
  BREAKER_COOLDOWN = 1
  BREAKER_MAX_COOLDOWN = 4
  OpensCap = 3
  CounterCap = 3
  MaxFlips = 3
  MaxEdits = 2
  MaxFaults = 1
INVARIANTS EditsSurvive OpenBreakerMeansFailing
PROPERTIES TransitionOnStreak OutageIsReported RecoveryIsReported
