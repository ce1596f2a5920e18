SPECIFICATION Spec
CONSTANTS
    Calls = {c1}
    MaxRetries = 0
    EngineModes = {"up"}
    MaxChanges = 1
    NULL = NULL
INVARIANTS
    HealthAlwaysReports
