SPECIFICATION Spec
CONSTANTS
    Requests = {r1, r2}
    Jobs = {j1}
    Workers = {w1}
    Operators = {}
    Outputs <- ReleaseOutputs
    Required <- ReleaseRequired
    Linked <- ReleaseLinked
    Cost = 1
    Credits = 1
    MaxAttempts = 1
    SubmitModes = {"live"}
    NONE = NONE
INVARIANTS
    BalanceNotNegative
CHECK_DEADLOCK FALSE
