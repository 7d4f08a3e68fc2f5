SPECIFICATION Spec
CONSTANTS
    Workers = {w1, w2}
    Kinds = {"reconcile", "refresh", "sync"}
    Models = {m1}
    Fallback = fallback
    Tier = tier
    NoRow = NoRow
    IsDefault = TRUE
    MayFail = TRUE
    MaxRuns = 3
INVARIANT OperatorDisableHolds
PROPERTY PassesKeepOperatorsWork
PROPERTY RowsReachSnapshot
