SPECIFICATION FairSpec
CONSTANTS
    Requests = {r1}
    Jobs = {j1}
    Workers = {w1, w2}
    Operators = {}
    Outputs <- WeeklyOutputs
    Required <- WeeklyRequired
    Linked <- WeeklyLinked
    Cost = 1
    Credits = 1
    MaxAttempts = 3
    SubmitModes = {"live", "dry_run", "disabled", "unresolved"}
    NONE = NONE
INVARIANTS
    TypeOK
    DeliveredOutputsHaveAssets
PROPERTIES
    CallbackLoopEnds
    HandlersFinish
CHECK_DEADLOCK FALSE
