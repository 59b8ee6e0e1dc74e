SPECIFICATION Spec
CONSTANTS
  Profiles = {p1}
  Requests = {r1, r2}
  Collector = collector
  MaxCancels = 2
  DownMayFail = TRUE
  None = None
INVARIANTS TypeOK HoldReleased NoIdleDial
PROPERTY EveryFlowEnds
CHECK_DEADLOCK FALSE
