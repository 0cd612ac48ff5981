CONSTANTS
  Tasks = {t1, t2, t3}
  Conns = {c1}
  PoolMax = 1
  MaxStmts = 1
  MaxBreaks = 0
  Rejecting = {}
  Signalled = {t1}
  Detached = {t1}
  Catching = {t1}
  Nesting = {t2}
  Dialect = "pg"
  NoTask = NoTask
  NoConn = NoConn
SPECIFICATION FairSpec
INVARIANTS
  SettledReleases
PROPERTIES
  EveryCallSettles
