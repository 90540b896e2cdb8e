CONSTANTS
  r1 = r1
  r2 = r2
  c1 = c1
  c2 = c2
  Rows <- OneRow
  Fields <- OneField
  Mode = "FTP"
  WholeFiles = TRUE
  MaxSaves = 1
  MaxFaults = 1
SPECIFICATION Spec
INVARIANT GoneAfterFiveFailures
CHECK_DEADLOCK FALSE
