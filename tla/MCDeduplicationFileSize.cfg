CONSTANTS
  f1 = f1
  f2 = f2
  c1 = c1
  c2 = c2
  Marker = Marker
  Files <- MCFiles
  Chunks <- MCChunks
  Size <- MCSize
  Remote <- MCRemote
  GlobalEligible <- MCGlobalEligible
  MaxXorbBytes = 4
  MaxXorbChunks = 3
  NRanges = 2
  HighCPR = 4
  LowCPR = 2
  MaxFileChunks <- MCMaxFileChunks
  MaxBlock = 2
SPECIFICATION Spec
INVARIANT FileSizeIsTotal
CHECK_DEADLOCK FALSE
