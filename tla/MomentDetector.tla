--------------------------- MODULE MomentDetector ---------------------------
(***************************************************************************)
(* MomentDetector: the eight moments of a campaign worth acting on, each   *)
(* with a severity, a confidence in hundredths and the action that answers *)
(* it.                                                                     *)
(***************************************************************************)
EXTENDS CampaignData

RELEASE_IMMINENT_DAYS == 3
MILESTONE_CLICKS_THRESHOLD == 1000
WEEKLY_GROWTH_CLICKS_THRESHOLD == 20

RECOMMENDED_ACTION ==
    [release_window |-> "create_release_post",
     weekly_growth |-> "create_weekly_growth_post",
     milestone_reached |-> "create_milestone_post",
     low_engagement |-> "improve_smart_link",
     content_gap |-> "create_release_post",
     report_due |-> "create_report",
     media_kit_missing |-> "create_media_kit",
     smart_link_activity |-> "create_story"]

SEVERITY_RANK == [high |-> 0, medium |-> 1, low |-> 2]

MomentTypes == DOMAIN RECOMMENDED_ACTION

\* The types in the order of their names, which decides what rank and confidence
\* leave open.
TypeOrder ==
    <<"content_gap", "low_engagement", "media_kit_missing", "milestone_reached",
      "release_window", "report_due", "smart_link_activity", "weekly_growth">>

Moment(type, severity, confidence) ==
    [type |-> type, severity |-> severity, confidence |-> confidence]

HighIf(condition) == IF condition THEN "high" ELSE "medium"

-----------------------------------------------------------------------------
(* A rule yields the moments it detects: one or none. *)

Finished(d) == Status(d) \in FINISHED_CAMPAIGN_STATUSES

ReleaseWindow(d, ref) ==
    LET imminent == InReleaseWindow(d, ref, RELEASE_IMMINENT_DAYS)
    IN  {m \in {Moment("release_window", HighIf(imminent), IF imminent THEN 90 ELSE 80)} :
            InReleaseWindow(d, ref, RELEASE_WINDOW_DAYS) /\ ~Finished(d)}

\* Of any status: a campaign that is over still shows growth.
WeeklyGrowth(d) ==
    LET growing == CampaignType(d) = "weekly_growth_campaign"
    IN  {m \in {Moment("weekly_growth", "medium", IF growing THEN 75 ELSE 65)} :
            growing \/ Clamped(d, "last7") >= WEEKLY_GROWTH_CLICKS_THRESHOLD}

MilestoneReached(d) ==
    IF Finished(d) THEN {}
    ELSE IF MilestoneAchieved(d) THEN {Moment("milestone_reached", "high", 85)}
    ELSE IF CampaignType(d) = "milestone_campaign" THEN {Moment("milestone_reached", "high", 80)}
    ELSE {m \in {Moment("milestone_reached", "medium", 65)} :
             Clamped(d, "total") >= MILESTONE_CLICKS_THRESHOLD}

LowEngagement(d) ==
    {m \in {Moment("low_engagement", HighIf(Status(d) = "active"), 75)} :
        d.stats # NULL /\ ~HasActivity(d)}

\* No content, or none of the last fortnight.
ContentGap(d, ref) ==
    IF d.campaign = NULL THEN {}
    ELSE IF CompletedOutputs(d) = {}
    THEN {Moment("content_gap", HighIf(Status(d) = "active"), 80)}
    ELSE {m \in {Moment("content_gap", "low", 60)} : ref # NULL /\ RecentOutputs(d, ref) = {}}

ReportDue(d, ref) ==
    {m \in {Moment("report_due", "medium", 70)} :
        /\ Status(d) \in {"active", "completed", "paused"}
        /\ ~HasRecentCompletedReport(d, ref)
        /\ CompletedOutputs(d) # {} \/ HasActivity(d) \/ Status(d) = "completed"}

MediaKitMissing(d) ==
    LET media == CampaignType(d) = "media_campaign"
    IN  {m \in {Moment("media_kit_missing", HighIf(media), 70)} :
            /\ d.campaign # NULL
            /\ ~HasUsableMediaKit(d)
            /\ Status(d) = "draft" => media}

SmartLinkActivity(d) ==
    {m \in {Moment("smart_link_activity", "low", 70)} :
        WeeklyGrowth(d) = {} /\ HasActivity(d)}

Detected(d, ref) ==
    ReleaseWindow(d, ref) \cup WeeklyGrowth(d) \cup MilestoneReached(d)
        \cup LowEngagement(d) \cup ContentGap(d, ref) \cup ReportDue(d, ref)
        \cup MediaKitMissing(d) \cup SmartLinkActivity(d)

\* By severity, then by confidence, the surest first, then by type.
Rank(m) == SEVERITY_RANK[m.severity]
Place(m) == CHOOSE i \in DOMAIN TypeOrder : TypeOrder[i] = m.type

Before(m, n) ==
    \/ Rank(m) < Rank(n)
    \/ Rank(m) = Rank(n) /\ m.confidence > n.confidence
    \/ Rank(m) = Rank(n) /\ m.confidence = n.confidence /\ Place(m) < Place(n)

NoMoments == [moments |-> <<>>, warnings |-> {}]

\* MomentDetector.detect
Detect(d, raw) ==
    LET warnings == DateWarnings(raw) \cup ConsistencyWarnings(d)
        found == Detected(d, ParseReference(raw))
        before == {p \in found \X found : Before(p[1], p[2])}
    IN  IF IsInsufficient(d)
        THEN [moments |-> <<>>, warnings |-> warnings \cup {"insufficient_data"}]
        ELSE [moments |-> Sorted(found, before),
              warnings |-> warnings]
=============================================================================
