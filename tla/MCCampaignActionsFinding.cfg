SPECIFICATION Spec
CONSTANTS
    Actions = {a1, a2}
    Recommendations = {r1}
    Kinds = {"content_pack"}
    Sessions = {s1, s2}
    NONE = NONE
PROPERTIES
    TerminalStays
CHECK_DEADLOCK FALSE
