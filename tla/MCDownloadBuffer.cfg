CONSTANTS
  d1 = d1
  d2 = d2
  Downloads <- MCDownloads
  Clients <- MCDownloads
  Slots <- MCSlots
  Holders <- MCHolders
  Sizes = {2, 7}
  MinPermits = 3
  InitialPermits = 3
  MaxPermits = 7
  PermitLimit = 4
  PerFile = 4
  MaxTerms = 2
SPECIFICATION Spec
INVARIANTS
  TypeOK
  Conservation
  WithinMaximum
  ActiveIsExact
  BufferReturnsToBase
PROPERTIES
  ImplementsLazy
  AcquireSucceeds
CHECK_DEADLOCK FALSE
