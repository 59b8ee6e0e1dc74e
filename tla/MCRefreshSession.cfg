SPECIFICATION Spec
CONSTANTS
  Requests = {r1, r2, r3}
  MaxToken = 2
  Grace = 2
  None = None
PROPERTIES Refinement SameTokenTabsSurvive EveryRefreshAnswered
CHECK_DEADLOCK FALSE
