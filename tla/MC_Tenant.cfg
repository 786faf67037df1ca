SPECIFICATION Spec
CONSTANTS
  t1 = t1
  t2 = t2
  t3 = t3
  none = none
  Tab = {t1, t2, t3}
  Owner <- Owners
  Url = {"x", "y"}
  Target = {"ops"}
  Title <- Titles
  Letter = {"a", "b", "n"}
  Reserved <- ReservedSlugs
  SlugMax = 2
  MAX_PAGES_PER_USER = 1
  MaxRequests = 3
  MaxDocs = 8
SYMMETRY Alike
CHECK_DEADLOCK FALSE
INVARIANTS TenantsAreSeparate OnePagePerAddress LimitIsNearlyKept
PROPERTY NobodyElsesIsTouched
