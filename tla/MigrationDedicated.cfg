CONSTANTS
  r1 = r1
  r2 = r2
  r3 = r3
  c1 = c1
  c2 = c2
  c3 = c3
  Runs <- ThreeRuns
  Conns <- ThreeConns
  Pool <- OneEach
  InTx <- First
  Locking <- ThreeRuns
  MaxSteps = 2
  MaxReaps = 1
  NoConn = NoConn
SPECIFICATION FairSpec
INVARIANTS
  Serialized
  LockReturned
PROPERTIES
  EveryMigrationEnds
