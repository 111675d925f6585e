CONSTANTS
  Req = {r1, r2, r3}
  qa = qa
  qx = qx
  Unbuildable <- MCUnbuildable
  Malformed = Malformed
  Bodies <- MCBodies
  ClientIds <- MCIds
  BatchMax = 2
  MaxReqPerBatch = 2
  QueueCap = 1
  Backends = 1
  None = None
SYMMETRY RequestSymmetry
SPECIFICATION Spec
INVARIANTS
  AnswersOwnUnlessIdShared
  CountersAddUp
  NeverWaitsOnBackend
PROPERTIES
  ImplementsLine
