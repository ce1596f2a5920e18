SPECIFICATION Spec
CONSTANTS
    Days = {0, 12, 45}
    MaxItems = 1
    NULL = NULL
    INVALID = INVALID
    Campaigns <- MCCampaigns
    Visits = {1, 19, 981}
    Failures <- MCFailures
    Omissions <- MCOmissions
    MaxEvents = 3
INVARIANTS
    TypeOK
    HealthBoundsRisk
    AdviceHasMoment
    NoActionMeansNothingUrgent
    GapsAreNamed
PROPERTIES
    ClicksNeverHurt
    GeneratedKitEndsAdvice
