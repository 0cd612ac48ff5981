SPECIFICATION Spec
CONSTANTS
  MaxClauses = 5
INVARIANTS
  WellFormed
  RefusedOnlyIfIllFormed
  MatrixRespected
  NothingLost
CHECK_DEADLOCK FALSE
