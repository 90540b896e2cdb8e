CONSTANTS
  r1 = r1
  r2 = r2
  c1 = c1
  c2 = c2
  Rows <- OneRow
  Fields <- MCFields
  Mode = "FILE"
  WholeFiles = TRUE
  MaxSaves = 3
  MaxFaults = 4
SPECIFICATION Spec
SYMMETRY OneRowSymmetry
INVARIANTS TypeOK HandledBeforeGone Converged
PROPERTIES NoStaleOverwrite KeepsPromise
CHECK_DEADLOCK FALSE
