CONSTANTS
  Tasks = {t1, t2}
  Conns = {c1, c2}
  PoolMax = 1
  MaxStmts = 2
  MaxBreaks = 1
  Rejecting = {c1, c2}
  Signalled = {t1}
  Detached = {}
  Catching = {t1, t2}
  Nesting = {}
  Dialect = "mysql"
  NoTask = NoTask
  NoConn = NoConn
SPECIFICATION Spec
CHECK_DEADLOCK FALSE
PROPERTIES
  ImplementsContract
