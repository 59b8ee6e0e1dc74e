SPECIFICATION Spec
CONSTANTS
  Profiles = {p1}
  Requests = {r1}
  Collector = collector
  MaxCancels = 0
  DownMayFail = FALSE
  None = None
PROPERTY HumansKeepTheirTunnel
CHECK_DEADLOCK FALSE
