CONSTANTS
  None = None
  c1 = c1
  c2 = c2
  v1 = v1
  v2 = v2
  Radix = 10
  Codes <- MCCodes
  Packed <- MCPacked
  Within <- MCWithin
  Buses = {101, 200, 201}
  Now <- MCNow
  Cards = {c1}
  Vehicles = {v1, v2}
  Number <- OneNumber
  AutoGenerateTask = TRUE
  LongCache = 127
  MaxTasks = 2
  Cases <- TwoLateCases
SPECIFICATION Spec
INVARIANT BoundIsReadBack
CHECK_DEADLOCK FALSE
