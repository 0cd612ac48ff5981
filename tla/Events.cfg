CONSTANTS
  o1 = o1
  o2 = o2
  o3 = o3
  logger = logger
  metrics = metrics
  Ops <- ThreeOps
  Workloads <- ThreeWorkloads
  Listeners <- TwoListeners
  MaxRows = 2
  None = None
SPECIFICATION FairSpec
INVARIANTS
  Correlated
  NoSpanLeak
  AccurateRowCount
PROPERTIES
  EveryStartEnds
