CONSTANTS
  Req = {r1, r2, r3, r4}
  q1 = q1
  q2 = q2
  Question = {q1, q2}
  Kind <- MCKind
  Bodies <- MCBodies
  BatchMax = 3
  QueueCap = 2
  None = None
SYMMETRY RequestSymmetry
SPECIFICATION Spec
INVARIANTS
  BatchWithinCap
  InOnePlace
  BatcherInv
PROPERTIES
  ClosedForAReason
  ImplementsLine
