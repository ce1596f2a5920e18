--------------------------- MODULE ScoringEngine ---------------------------
(***************************************************************************)
(* ScoringEngine: five scores of 0 to 100, each the weighted sum of its    *)
(* components, and the grade of the campaign's overall standing.           *)
(*                                                                         *)
(* Weights are in hundredths.  A score is rounded half to even, as Python  *)
(* rounds; of a tie the code decides by the binary sum, which may lie on   *)
(* either side of it, so there the model is within one point of the code.  *)
(* _to_score confines the rounded sum to 0 to 100; the model does not, so  *)
(* that the range of the scores rests on the components and the weights.   *)
(***************************************************************************)
EXTENDS CampaignData

MOMENTUM_CLICKS_7D_SATURATION == 100
MOMENTUM_CLICKS_30D_SATURATION == 400
MOMENTUM_TOTAL_CLICKS_SATURATION == 2000
MOMENTUM_RECENT_OUTPUTS_SATURATION == 2

\* n / d rounded half to even, for n \in Nat and d \in Nat \ {0}.
Round(n, d) ==
    LET whole == n \div d
        twice == 2 * (n % d)
    IN  IF twice > d \/ (twice = d /\ whole % 2 = 1) THEN whole + 1 ELSE whole

If(condition, weight) == IF condition THEN weight ELSE 0

\* A component without its ceiling.
Unsaturated(value, saturation) == value

Saturate(value, saturation) == Min({value, saturation})

-----------------------------------------------------------------------------
(* The four scores of the bundle; NULL when it has nothing to score. *)

Readiness(d) ==
    IF d.campaign = NULL THEN NULL
    ELSE If(d.campaign.status \in CampaignStatuses, 20)
       + If(d.artist, 15)
       + If(d.track # NULL, 15)
       + If(d.campaign.goal \/ d.goals # <<>>, 15)
       + If(d.campaign.start # NULL, 15)
       + If(HasUsableMediaKit(d), 20)

\* Twice the share of the recent content component: one half when content is there
\* and no reference tells its age.
RecentContentValue(d, ref) ==
    IF ref = NULL THEN If(CompletedOutputs(d) # {}, 1)
    ELSE Saturate(Cardinality(RecentOutputs(d, ref)), MOMENTUM_RECENT_OUTPUTS_SATURATION)

\* 40 * last7 / 100 + 25 * last30 / 400 + 15 * total / 2000 + 20 * recent, over 400.
Momentum(d, ref) ==
    IF d.stats = NULL /\ d.outputs = <<>> THEN NULL
    ELSE Round(160 * Saturate(Clamped(d, "last7"), MOMENTUM_CLICKS_7D_SATURATION)
             + 25 * Saturate(Clamped(d, "last30"), MOMENTUM_CLICKS_30D_SATURATION)
             + 3 * Saturate(Clamped(d, "total"), MOMENTUM_TOTAL_CLICKS_SATURATION)
             + 4000 * RecentContentValue(d, ref), 400)

\* The content gap and the timing in hundredths of their component.
ContentGapValue(d, ref) ==
    IF CompletedOutputs(d) = {} THEN 100
    ELSE IF ref = NULL THEN 20
    ELSE IF RecentOutputs(d, ref) # {} THEN 0 ELSE 40

TimingRelevance(d, ref) ==
    IF InReleaseWindow(d, ref, RELEASE_WINDOW_DAYS) THEN 100
    ELSE CASE Status(d) = "active" -> 60
           [] Status(d) = "scheduled" -> 50
           [] Status(d) = "paused" -> 30
           [] OTHER -> 0

ContentOpportunity(d, ref) ==
    IF d.campaign = NULL /\ d.track = NULL /\ d.outputs = <<>>
        /\ d.reports = <<>> /\ d.kits = <<>> THEN NULL
    ELSE Round(35 * ContentGapValue(d, ref)
             + If(~HasRecentCompletedReport(d, ref), 2000)
             + If(~HasUsableMediaKit(d), 2000)
             + 25 * TimingRelevance(d, ref), 100)

\* The half penalty of a campaign with clicks, none of one that only has links.
LinkInactivitySwapped(d) ==
    IF d.stats = NULL THEN 0
    ELSE IF \E counter \in {"last7", "last30", "total"} : Clamped(d, counter) > 0 THEN 10
    ELSE IF Clamped(d, "links") > 0 THEN 0 ELSE 20

\* In points of its twenty: active links without clicks count for half.
LinkInactivityValue(d) ==
    IF d.stats = NULL THEN 0
    ELSE IF \E counter \in {"last7", "last30", "total"} : Clamped(d, counter) > 0 THEN 0
    ELSE IF Clamped(d, "links") > 0 THEN 10 ELSE 20

IsOverdue(d, ref) ==
    /\ d.campaign # NULL /\ ref # NULL
    /\ d.campaign.end # NULL
    /\ d.campaign.end < ref
    /\ Status(d) \notin FINISHED_CAMPAIGN_STATUSES

HasQualityIssues(d) == InconsistentDates(d) \/ HasNegative(d)

\* The risk with the test for traction the wrong way round.
RiskOfTraction(d, ref) ==
    LET idle == Status(d) = "active" /\ CompletedOutputs(d) = {}
    IN  IF d.campaign = NULL /\ d.stats = NULL THEN NULL
        ELSE If(idle /\ HasActivity(d), 35) + LinkInactivityValue(d)
           + If(idle, 15) + If(IsOverdue(d, ref), 15) + If(HasQualityIssues(d), 15)

Risk(d, ref) ==
    LET idle == Status(d) = "active" /\ CompletedOutputs(d) = {}
    IN  IF d.campaign = NULL /\ d.stats = NULL THEN NULL
        ELSE If(idle /\ ~HasActivity(d), 35)
           + LinkInactivityValue(d)
           + If(idle, 15)
           + If(IsOverdue(d, ref), 15)
           + If(HasQualityIssues(d), 15)

-----------------------------------------------------------------------------
(* The composites. *)

PRIORITY_WEIGHTS == [opportunity |-> 35, momentum |-> 25, risk |-> 20, readiness |-> 20]
STANDING_WEIGHTS == [readiness |-> 35, momentum |-> 35, risk |-> 30]

Known(scores) == {key \in DOMAIN scores : scores[key] # NULL}

\* The mean of the known scores, their weights renormalised.
Blend(weights, scores) ==
    LET weight(key) == IF scores[key] = NULL THEN 0 ELSE weights[key]
        part(key) == IF scores[key] = NULL THEN 0 ELSE weights[key] * scores[key]
    IN  Round(part("readiness") + part("momentum") + part("opportunity") + part("risk"),
              weight("readiness") + weight("momentum") + weight("opportunity") + weight("risk"))

\* How urgent it is to act; risk raises it.
Priority(scores) ==
    IF Cardinality(Known(scores)) < 2 THEN NULL ELSE Blend(PRIORITY_WEIGHTS, scores)

\* How well the campaign does: 80, 65 and 45 are the thresholds.
GradeFor(standing) ==
    IF standing >= 80 THEN "A"
    ELSE IF standing >= 65 THEN "B"
    ELSE IF standing >= 45 THEN "C" ELSE "D"

\* The opportunity has no part in it, and risk counts inverted.
GradeOf(scores) ==
    LET standing == [readiness |-> scores.readiness, momentum |-> scores.momentum,
                     opportunity |-> NULL,
                     risk |-> IF scores.risk = NULL THEN NULL ELSE 100 - scores.risk]
    IN  IF Known(standing) = {} THEN "unknown"
        ELSE GradeFor(Blend(STANDING_WEIGHTS, standing))

\* What a stage that could not run leaves in the composite answer.
NoScores == [readiness |-> NULL, momentum |-> NULL, opportunity |-> NULL,
             risk |-> NULL, priority |-> NULL]
NoScoring == [scores |-> NoScores, grade |-> "unknown", warnings |-> {}]

\* ScoringEngine.score.  A score that could not be computed has a warning of its
\* name, and so has the grade.
Score(d, raw) ==
    LET ref == ParseReference(raw)
        parts == [readiness |-> Readiness(d), momentum |-> Momentum(d, ref),
                  opportunity |-> ContentOpportunity(d, ref), risk |-> Risk(d, ref)]
        scores == [readiness |-> parts.readiness, momentum |-> parts.momentum,
                   opportunity |-> parts.opportunity, risk |-> parts.risk,
                   priority |-> Priority(parts)]
        grade == GradeOf(scores)
    IN  [scores |-> scores,
         grade |-> grade,
         warnings |-> DateWarnings(raw) \cup ConsistencyWarnings(d) \cup FutureWarnings(d, ref)
             \cup (DOMAIN scores \ Known(scores))
             \cup {code \in {"grade"} : grade = "unknown"}
             \cup {code \in {"insufficient_data"} : Known(scores) = {}}]
=============================================================================
