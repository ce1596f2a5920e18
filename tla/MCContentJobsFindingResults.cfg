SPECIFICATION Spec
CONSTANTS
    Requests = {r1}
    Jobs = {j1}
    Workers = {w1, w2}
    Operators = {}
    Outputs <- WeeklyOutputs
    Required <- WeeklyRequired
    Linked <- WeeklyLinked
    Cost = 1
    Credits = 1
    MaxAttempts = 2
    SubmitModes = {"live"}
    NONE = NONE
PROPERTIES
    ResultsStay
CHECK_DEADLOCK FALSE
