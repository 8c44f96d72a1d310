CONSTANTS
  FileLength = 7
  TermEnds = {6, 7}
  Requests <- MCRequests
  MinFetch = 2
  MaxFetch = 4
  Cases <- MCCases
  Buffer = 4

SPECIFICATION Spec
INVARIANTS PermitsReturned
PROPERTIES  CallsReturn
CHECK_DEADLOCK FALSE
