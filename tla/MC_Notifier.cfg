SPECIFICATION NotifierSpec
CONSTANTS
  r1 = r1
  r2 = r2
  c1 = c1
  c2 = c2
  Runner = {r1, r2}
  Configs <- OneConfig
  MinInterval = 1
  BREAKER_FAILURE_THRESHOLD = 1
  BREAKER_COOLDOWN = 1
  BREAKER_MAX_COOLDOWN = 1
  OpensCap = 1
  CounterCap = 1
  MaxFlips = 2
  MaxEdits = 0
  MaxFaults = 1
  Channel <- SomeChannels
  Account = "owner"
  MaxUpsets = 1
INVARIANTS AttemptsAreAudited AccountIsTried
PROPERTIES LedgerSpec CheckSpec
SYMMETRY Alike
CONSTRAINT UntilRecovered
