SPECIFICATION FairSpec
CONSTANTS
  r1 = r1
  r2 = r2
  Runner = {r1}
  Configs <- OneConfig
  MinInterval = 1
  BREAKER_FAILURE_THRESHOLD = 3
  BREAKER_COOLDOWN = 1
  BREAKER_MAX_COOLDOWN = 4
  OpensCap = 3
  CounterCap = 3
  MaxFlips = 1
  MaxEdits = 0
  MaxFaults = 1
PROPERTY OutageSurvivesFailure
