CONSTANTS
  Users <- MCUsers
  Items <- MCItems
  Capacity = 4
  Blocks <- MCBlocks
  Cases <- MCCases
  Connections = 2

SPECIFICATION Spec
INVARIANTS TrustedIsIntact 
PROPERTIES OnlyRefusedReplaced RetrievalEnds
CHECK_DEADLOCK FALSE
