CONSTANTS
  Req = {r1, r2, r3}
  qa = qa
  qx = qx
  e1 = e1
  e2 = e2
  Question <- MCQuestion
  Kind <- MCKind
  Bodies <- MCBodies
  BatchMax = 3
  QueueCap = 1
  None = None
  BuildWorkers = 2
  Engine = {e1, e2}
  Groups <- OneGroup
SYMMETRY RequestSymmetry
SPECIFICATION Spec
INVARIANTS
  NeverBlocksOnReply
  RequestsAddUp
PROPERTIES
  ImplementsService
