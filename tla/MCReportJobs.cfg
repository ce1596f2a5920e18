\* Two jobs, two overlapping workers; three deliveries, or one and an edit; users write a
\* ready status, another Asset, or no note.
SPECIFICATION Spec
CONSTANTS
    Jobs = {j1, j2}
    Workers = {w1, w2}
    Users = {u1}
    MaxWrites = 3
    MaxEdits = 1
    Holdings = {{"artist", "campaign", "clicks"}}
    UserStatuses = {"completed", "generated"}
    UserNotes = {{}}
    NONE = NONE
SYMMETRY Symmetry
CHECK_DEADLOCK FALSE
INVARIANTS
    TypeOK
    NotifiedOnce
    ReadyHasFile
    AssetsBoundedByWorkers
    ToldMeansShown
    SubmissionFailureKept
    DocumentsFaithful
