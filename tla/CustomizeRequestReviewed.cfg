CONSTANTS
  None = None
  t1 = t1
  t2 = t2
  t3 = t3
  v1 = v1
  v2 = v2
  p1 = p1
  p2 = p2
  Tids = {t1, t2}
  Vehicles = {v1, v2}
  Callers = {p1}
  Types = {"NEW", "CHANGE", "MODIFY"}
  AutoGenerateTask = TRUE
  LongCache = 127
  FailLimit = 1
  EarlierBindings <- FirstBound
  Troubles = {}
  Offered = {"CreateChange", "CreateModify", "Review"}
  MaxRequests = 2
  MaxTasks = 2
  MaxFaults = 0
SPECIFICATION Spec
INVARIANTS HandledAfterReview
PROPERTIES OnlyModifyRebinds OnlyApprovedChangeDisables
CHECK_DEADLOCK FALSE
