CONSTANTS
  Caller = {c1, c2}
  Engine = {1, 2, 3}
  Tensors = 3
  None = None
  g0 = g0
  g1 = g1
  Empty = Empty
  Junk = Junk
  GPU <- MCGPU
  Limit <- MCLimit
  DefaultGPUs <- MCDefaultGPUs
  DefaultLimit = 6
  GpuLists <- MCGpuLists
  LimitLists <- MCLimitLists
SPECIFICATION LifeSpec
INVARIANTS
  HandlesBalanced
  GroupsPartition
  NothingLeaks
PROPERTIES
  EveryCallReturns
