SPECIFICATION Spec
CONSTANTS
    Requests = {r1, r2}
    Jobs = {j1, j2}
    Workers = {w1}
    Operators = {p1}
    Outputs <- ReleaseOutputs
    Required <- ReleaseRequired
    Linked <- ReleaseLinked
    Cost = 1
    Credits = 1
    MaxAttempts = 1
    SubmitModes = {"live", "dry_run", "disabled", "unresolved"}
    NONE = NONE
SYMMETRY Symmetry
INVARIANTS
    OutcomeSettlesCredits
    ResultReachesRequest
    CreditsAccounted
PROPERTIES
    UsesKeyedLedger
CHECK_DEADLOCK FALSE
