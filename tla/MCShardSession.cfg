CONSTANTS
  Sessions = {"s1", "s2", "s3"}
  Xorbs = {"x1", "x2"}
  Files = {"f1"}
  Cases <- MCCases
  TargetSize = 2
  FlushCount = 2
  CacheLimit = 3
  Permits = 1
SPECIFICATION Spec
INVARIANTS
  KnownIsUploaded
  
PROPERTIES
  StagedIsKept
  SessionsEnd
\* Sessions end and none may follow.
CHECK_DEADLOCK FALSE
