CONSTANTS
  u = u
  p = p
  q = q
  a = a
  b = b
  u_b = u_b
  i = i
  k = k
  int = int
  text = text
  note = note
  d1 = d1
  d2 = d2
  Tables <- Three
  Columns <- Two
  None = None
  Deploys <- TwoDeploys
  InTx <- First
  Changes <- AllChanges
  MaxAttempts = 2
  MaxFaults = 1
SPECIFICATION Spec
INVARIANTS
  ExecutableUnlessObstacle
  ReachesTheSchema
  StaysCarried
  NothingLost
