SPECIFICATION Spec
CONSTANTS
  Owner <- MCOwner
  Subqueries <- MCSubqueries
  Sources <- MCSources
  Joins <- MCJoins
  Predicates <- MCPredicates
  Conditions <- MCConditions
  Options <- MCInstances
  Databases <- MCDatabases
  MaxCalls = 3
INVARIANT
  KeepsAnswer
  ValueIndependent
  Settled
CHECK_DEADLOCK FALSE
