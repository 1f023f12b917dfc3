SPECIFICATION Spec
CONSTANTS
  NApps = 2
  MaxPolls = 3
INVARIANTS GateHolds NormalOpen
PROPERTY ReleaseEnds
CHECK_DEADLOCK FALSE
