SPECIFICATION Spec
CONSTANTS
    Events = {e1}
    Bodies <- BodiesMC
    Servers = {s1}
    small = small
    large = large
    Plans = {small, large}
    NONE = NONE
    Items = {i1, i2, i3}
    Creators = {c1, c2}
    Limit <- LimitMC
    Unlimited = Unlimited
    LastSlug = 2
    Months = 2
SYMMETRY Symmetry
INVARIANTS
    QuotaOvershootBounded
PROPERTY
    RefusedOnlyByRaceOrLength
CHECK_DEADLOCK FALSE
