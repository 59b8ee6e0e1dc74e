SPECIFICATION Spec
CONSTANTS
  Users = {u1}
  Customers = {c1}
  Streams = {s1, s2}
  Loads = {h1}
  Bulks = {b1}
  BulkSize = 1
  MaxConcurrent = 1
  Tabs = {t1, t2}
  NoTab = NoTab
  TabLimit = 1
  None = None
INVARIANTS TypeOK OneHolder FlagMeansHeld
PROPERTIES Refinement AttachedViewersLearn ClaimsComeBackUnlessStranded
CHECK_DEADLOCK FALSE
