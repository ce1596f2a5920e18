SPECIFICATION StripeSpec
CONSTANTS
    Events = {e1, e2, e3}
    Bodies <- BodiesMC
    Servers = {s1, s2}
    Plans = {small, large}
    NONE = NONE
SYMMETRY Symmetry
INVARIANTS
    AppliedOnce
    StatusTracksEvents
CHECK_DEADLOCK FALSE
