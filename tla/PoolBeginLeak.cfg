CONSTANTS
  Tasks = {t1, t2}
  Conns = {c1, c2}
  PoolMax = 1
  MaxStmts = 1
  MaxBreaks = 0
  Rejecting = {c1}
  Signalled = {}
  Detached = {}
  Catching = {}
  Nesting = {}
  Dialect = "pg"
  NoTask = NoTask
  NoConn = NoConn
SPECIFICATION Spec
CHECK_DEADLOCK FALSE
INVARIANTS
  SettledReleases
