\* Two dialogs, either of which a third user may be ahead of; two actions in turn.
SPECIFICATION Spec
CONSTANTS
    Dialogs = {d1, d2}
    Rows = {r1, r2}
    MaxArtifacts = 2
    MaxGivenUp = 2
    NONE = NONE
SYMMETRY Symmetry
INVARIANTS
    ArtifactsAccounted
    SuccessIsRegistered
CHECK_DEADLOCK FALSE
