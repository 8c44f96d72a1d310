CONSTANTS
  f1 = f1
  f2 = f2
  x1 = x1
  x2 = x2
  Main = Main
  EmptyXorb = EmptyXorb
  Files <- MCFiles
  Streams <- MCStreams
  Xorbs <- MCXorbs
  MaxBlocks = 2
  UploadPermits = 1
  IngestionPermits = 1
SPECIFICATION Spec
INVARIANTS
  TypeOK
  CommitOkDurable
  CleanSessionShards
  FileInOnePlace
  ReportCountsUploads
PROPERTIES
  UploadedOnce
  CommitReturns
CHECK_DEADLOCK FALSE
