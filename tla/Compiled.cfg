SPECIFICATION Spec
CONSTANTS
  A = A
  B = B
  C = C
  Tables <- MCTables
  Rows <- MCRows
  Handlers = {h1, h2, h3}
  Tenants = {t1, t2}
  Predicates <- MCPredicates
  Arguments <- MCArguments
  Base = A
  Budgets <- MCBudgets
CHECK_DEADLOCK FALSE
INVARIANTS
  PlaceholdersBind
  SetOpsAssociate
  CallsAgree
  HandlersCompose
