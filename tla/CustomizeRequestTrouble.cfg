CONSTANTS
  None = None
  t1 = t1
  t2 = t2
  t3 = t3
  v1 = v1
  v2 = v2
  p1 = p1
  p2 = p2
  Tids = {t1}
  Vehicles = {v1, v2}
  Callers = {p1}
  Types = {"NEW"}
  AutoGenerateTask = TRUE
  LongCache = 127
  FailLimit = 1
  EarlierBindings <- NoBindings
  Troubles = {"crash", "redelivery", "throw"}
  Offered = {}
  MaxRequests = 2
  MaxTasks = 3
  MaxFaults = 1
SPECIFICATION Spec
SYMMETRY CardSymmetry
INVARIANTS BoundImpliesWritten
PROPERTIES OnlyModifyRebinds
CHECK_DEADLOCK FALSE
