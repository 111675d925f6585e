CONSTANTS
  Req = {r1, r2}
  qa = qa
  qx = qx
  qp = qp
  e1 = e1
  Question <- MCQuestion
  Kind <- MCKind
  Bodies <- MCBodies
  BatchMax = 3
  QueueCap = 1
  None = None
  BuildWorkers = 1
  Engine = {e1}
  Groups <- OneEngine
  MaxReads = 1
SPECIFICATION StatsSpec
INVARIANTS
  AverageLags
  SumWithinRequests
PROPERTIES
  EveryRequestAnswered
