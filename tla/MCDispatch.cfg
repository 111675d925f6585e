CONSTANTS
  Req = {r1, r2, r3}
  qa = qa
  qb = qb
  qx = qx
  qy = qy
  qp = qp
  qs = qs
  e1 = e1
  e2 = e2
  e3 = e3
  Question <- MCQuestion
  Kind <- MCKind
  Bodies <- MCBodies
  BatchMax = 4
  QueueCap = 1
  None = None
  BuildWorkers = 2
  Engine <- MCEngine
  Groups <- MCGroups
SYMMETRY RequestSymmetry
SPECIFICATION Spec
INVARIANTS
  AnswersAreOwn
  CallFailsAsOne
  OneCallPerEngine
  InflightExact
  ErrorsCounted
