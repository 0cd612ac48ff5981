CONSTANTS
    Rows <- MCRows
    Always = Always
    Lists <- MCLists
    Columns = {"x", "deleted_at", "tenant_id", "version", "created_at", "updated_at"}
    Roots <- MCRoots
    Inners <- MCInners
    NestRoots <- MCNestRoots
    NestLists <- MCNestLists
    MaxDepth = 3

SPECIFICATION Spec

INVARIANTS
    PolicyHolds
    EverySelectReached
    StillExecutable
    OrderDecidesNothing
    ShowsPermittedRowsOnly

CHECK_DEADLOCK FALSE
