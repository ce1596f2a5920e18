SPECIFICATION Spec
CONSTANTS
    Actions = {a1, a2}
    Recommendations = {r1}
    Kinds = {"content_pack", "mark_reviewed", "dismiss"}
    Sessions = {s1, s2}
    NONE = NONE
SYMMETRY Symmetry
INVARIANTS
    TypeOK
    StampsMatchStatus
    OneActiveAction
    DecisionsStand
CHECK_DEADLOCK FALSE
