CONSTANTS
  None = None
  n1 = n1
  n2 = n2
  d1 = d1
  d2 = d2
  b1 = b1
  b2 = b2
  r1 = r1
  r2 = r2
  Ministry = Ministry
  Notes = {n1, n2}
  Applicant <- MCApplicant
  Examiners = {e1, e2}
  Cards = {c1}
  Boxes = {b1, b2}
  Tasks = {r1, r2}
  TaskOf <- MCTaskOf
  Capacity = 1
SPECIFICATION Spec
PROPERTY IssuedOnce
CHECK_DEADLOCK FALSE
