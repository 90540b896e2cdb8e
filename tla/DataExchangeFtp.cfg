CONSTANTS
  r1 = r1
  r2 = r2
  c1 = c1
  c2 = c2
  Rows <- MCRows
  Fields <- MCFields
  Mode = "FTP"
  WholeFiles = FALSE
  MaxSaves = 3
  MaxFaults = 1
SPECIFICATION Spec
SYMMETRY Symmetry
PROPERTY NoStaleOverwrite
CHECK_DEADLOCK FALSE
