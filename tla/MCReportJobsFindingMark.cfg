\* One job: the renderer's callback comes between the refresh and the save of the metadata.
SPECIFICATION Spec
CONSTANTS
    Jobs = {j1}
    Workers = {w1, w2}
    Users = {u1}
    MaxWrites = 3
    MaxEdits = 0
    Holdings = {{"artist", "campaign", "clicks"}}
    UserStatuses = {}
    UserNotes = {}
    NONE = NONE
CHECK_DEADLOCK FALSE
INVARIANT FailureDiagnosable
