CONSTANTS
  Tasks = {t1, t2}
  Plain = {p1}
  Readers = {r1}
  Captured = {t1}
  Catching = {t2}
  MaxStmts = 2
  MaxLosses = 1
  None = None
SPECIFICATION FairSpec
INVARIANTS
  OwnTransaction
  AllOrNothing
  OutcomeTrue
  SettledCloses
