SPECIFICATION FairSpec
CONSTANTS
  TimeoutMs = 2
  MaxRetries = 3
  MaxRedirects = 2
  RetryBase = 2
  RetryCap = 3
  UrlKinds <- AnyUrl
INVARIANTS UpIsAnswered OnlyDrainsOutlive
PROPERTY CheckEnds
CHECK_DEADLOCK FALSE
