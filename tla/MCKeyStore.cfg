SPECIFICATION Spec
CONSTANTS
  dataDir = dataDir
  configDir = configDir
  Procs = {web, standby}
  Web = web
  Keys = {k1, k2, k3}
  None = None
  Places = {dataDir, configDir}
  Before <- MCBefore
  ConfigPlace = configDir
  MaxMoves = 1
  MaxImports = 1
SYMMETRY MCSymmetry
INVARIANTS NoKeyIsLost StartsFindTheKey
PROPERTY NeverMintsOverData
CHECK_DEADLOCK FALSE
