SPECIFICATION Spec
CONSTANTS
    Calls = {c1}
    MaxRetries = 1
    EngineModes = {"up", "sluggish", "slow", "down", "erroring", "failing", "rejecting", "odd",
                   "cut", "garbled"}
    MaxChanges = 2
    NULL = NULL
INVARIANTS
    StatusMatchesFailures
    EndpointsAgree
PROPERTIES
    CallsAnswered
