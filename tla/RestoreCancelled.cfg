SPECIFICATION Spec
CONSTANTS
  r1 = r1
  r2 = r2
  customers = customers
  database = database
  Requests = {r1, r2}
  Original = original
  Empty = empty
  Part = part
  Torn = torn
  None = None
  Order <- MCOrder
  Folders = {customers}
  Database = database
  Archives <- MCArchives
  MaxBackups = 1
INVARIANT AllOrNothing
CHECK_DEADLOCK FALSE
