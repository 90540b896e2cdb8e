CONSTANTS
  None = None
  t1 = t1
  t2 = t2
  t3 = t3
  v1 = v1
  v2 = v2
  p1 = p1
  p2 = p2
  Tids = {t1}
  Vehicles = {v1, v2}
  Callers = {p1}
  Types = {"NEW", "ANNUAL_INSPECTION"}
  AutoGenerateTask = FALSE
  LongCache = 127
  FailLimit = 2
  EarlierBindings <- NoBindings
  Troubles = {}
  Offered = {"SaveCustomize", "CreateAnnualInspection", "CancelTask"}
  MaxRequests = 2
  MaxTasks = 2
  MaxFaults = 0
SPECIFICATION Spec
SYMMETRY CardSymmetry
INVARIANTS TypeOK BoundImpliesWritten
PROPERTIES OnlyApprovedChangeDisables
CHECK_DEADLOCK FALSE
