CONSTANTS
  Files = {f1, f2}
  Single = f2
  Offered = {f1}
  StartSets = {{}, {f1, f2}}
  Targets <- MCTargets
  MaxCancels = 1
  Nodes <- MCNodes
  Parent <- MCParent
SPECIFICATION Spec
INVARIANTS
  ReportIsComplete
  FinishIsShared
PROPERTY
  CancellationStops
CHECK_DEADLOCK FALSE
