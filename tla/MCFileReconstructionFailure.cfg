CONSTANTS
  FileLength = 7
  TermEnds = {6, 7}
  Requests <- MCRequests
  MinFetch = 2
  MaxFetch = 4
  Cases <- MCStreams
  Buffer = 4

SPECIFICATION Spec
PROPERTY FailureIsReported
CHECK_DEADLOCK FALSE
