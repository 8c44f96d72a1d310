CONSTANTS
  f1 = f1
  f2 = f2
  x0 = x0
  x1 = x1
  Files <- MCFiles
  Sized <- MCSized
  Xorbs <- MCXorbs
  RawSize <- MCRawSize
  WireSize <- MCWireSize
  BlockSize = 1
  Dependencies <- MCDependencies
  MaxAttempts = 2
SPECIFICATION Spec
INVARIANTS
  NoOverrun
  TotalsAreSums
  TablesAgree
  CompleteAtEnd
PROPERTIES
  EventuallyComplete
CHECK_DEADLOCK FALSE
