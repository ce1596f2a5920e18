------------------------ MODULE RecommendationEngine ------------------------
(***************************************************************************)
(* RecommendationEngine: what to do for a campaign next.  It asks the      *)
(* scoring engine whether there is data to go by and reads its triggers    *)
(* off the bundle itself, by rules of its own: that they agree with the    *)
(* moments of the detector is a property, not a definition.                *)
(***************************************************************************)
EXTENDS CampaignData

Scoring == INSTANCE ScoringEngine

MILESTONE_CLICKS_THRESHOLD == 1000
WEEKLY_GROWTH_CLICKS_THRESHOLD == 20

\* Carried over from the scoring engine's warnings.
CARRIED_WARNING_CODES ==
    {"inconsistent_campaign_dates", "negative_smart_link_stats",
     "future_content_output_date", "invalid_reference_date"}

PRIORITY_RANK == [high |-> 0, medium |-> 1, low |-> 2]

\* The actions in the order of their names.
ActionOrder ==
    <<"create_media_kit", "create_milestone_post", "create_release_post", "create_report",
      "create_story", "create_weekly_growth_post", "improve_smart_link", "no_action",
      "wait_for_more_data">>

Recommendation(action, priority, confidence) ==
    [action |-> action, priority |-> priority, confidence |-> confidence]

Urgent(condition) == IF condition THEN "high" ELSE "medium"

-----------------------------------------------------------------------------
(* A rule yields the recommendations it makes: one or none. *)

Running(d) == d.campaign # NULL /\ Status(d) \notin FINISHED_CAMPAIGN_STATUSES

Release(d, ref) ==
    LET near == InReleaseWindow(d, ref, RELEASE_WINDOW_DAYS)
    IN  {r \in {Recommendation("create_release_post", Urgent(near), IF near THEN 85 ELSE 70)} :
            /\ Running(d)
            /\ \/ near
               \/ /\ CampaignType(d) \in RELEASE_CAMPAIGN_TYPES
                  /\ Status(d) \in {"active", "scheduled"}}

Milestone(d) ==
    IF ~Running(d) THEN {}
    ELSE IF MilestoneAchieved(d) THEN {Recommendation("create_milestone_post", "high", 80)}
    ELSE IF CampaignType(d) = "milestone_campaign"
    THEN {Recommendation("create_milestone_post", "high", 75)}
    ELSE {r \in {Recommendation("create_milestone_post", "medium", 65)} :
             Clamped(d, "total") >= MILESTONE_CLICKS_THRESHOLD}

WeeklyGrowthPost(d) ==
    LET growing == CampaignType(d) = "weekly_growth_campaign"
    IN  {r \in {Recommendation("create_weekly_growth_post", "medium", IF growing THEN 75 ELSE 65)} :
            /\ Status(d) = "active"
            /\ growing \/ Clamped(d, "last7") >= WEEKLY_GROWTH_CLICKS_THRESHOLD}

\* A media kit advised for a brand-new draft too.
MediaKitOfDraft(d) ==
    LET media == CampaignType(d) = "media_campaign"
    IN  {r \in {Recommendation("create_media_kit", Urgent(media), 70)} :
            d.campaign # NULL /\ ~HasUsableMediaKit(d)}

MediaKit(d) ==
    LET media == CampaignType(d) = "media_campaign"
    IN  {r \in {Recommendation("create_media_kit", Urgent(media), 70)} :
            /\ d.campaign # NULL
            /\ ~HasUsableMediaKit(d)
            /\ Status(d) # "draft" \/ media}

Report(d, ref) ==
    {r \in {Recommendation("create_report", "medium", 70)} :
        /\ Status(d) \in {"active", "completed", "paused"}
        /\ ~HasRecentCompletedReport(d, ref)
        /\ CompletedOutputs(d) # {} \/ HasActivity(d) \/ Status(d) = "completed"}

Story(d) ==
    {r \in {Recommendation("create_story", "low", 60)} :
        WeeklyGrowthPost(d) = {} /\ Status(d) = "active" /\ HasActivity(d)}

\* Idle links left alone while the campaign is active.
ImproveRestingLink(d) ==
    {r \in {Recommendation("improve_smart_link", "medium", 70)} :
        d.stats # NULL /\ ~HasActivity(d) /\ Status(d) # "active"}

ImproveSmartLink(d) ==
    {r \in {Recommendation("improve_smart_link", Urgent(Status(d) = "active"), 70)} :
        d.stats # NULL /\ ~HasActivity(d)}

NO_ACTION == Recommendation("no_action", "low", 50)
WAIT_FOR_MORE_DATA == Recommendation("wait_for_more_data", "low", 30)

Triggered(d, ref) ==
    Release(d, ref) \cup Milestone(d) \cup WeeklyGrowthPost(d) \cup MediaKit(d)
        \cup Report(d, ref) \cup Story(d) \cup ImproveSmartLink(d)

\* By priority, then by confidence, the surest first, then by action.
Rank(r) == PRIORITY_RANK[r.priority]
Place(r) == CHOOSE i \in DOMAIN ActionOrder : ActionOrder[i] = r.action

Sooner(r, s) ==
    \/ Rank(r) < Rank(s)
    \/ Rank(r) = Rank(s) /\ r.confidence > s.confidence
    \/ Rank(r) = Rank(s) /\ r.confidence = s.confidence /\ Place(r) < Place(s)

NoRecommendations == [recommendations |-> <<>>, warnings |-> {}]

\* RecommendationEngine.recommend
Recommend(d, raw) ==
    LET scoring == Scoring!Score(d, raw)
        carried == scoring.warnings \cap CARRIED_WARNING_CODES
        found == Triggered(d, ParseReference(raw))
        sooner == {p \in found \X found : Sooner(p[1], p[2])}
    IN  IF Scoring!Known(scoring.scores) = {}
        THEN [recommendations |-> <<WAIT_FOR_MORE_DATA>>,
              warnings |-> carried \cup {"insufficient_data"}]
        ELSE [recommendations |-> IF found = {} THEN <<NO_ACTION>> ELSE Sorted(found, sooner),
              warnings |-> carried]
=============================================================================
