------------------------ MODULE CampaignIntelligence ------------------------
(***************************************************************************)
(* A campaign and the advice about it.  The campaign lives in the rows of  *)
(* the Backend Core: its status changes, links are published and visited,  *)
(* outputs, reports and media kits come to be, days go by.  At any moment  *)
(* the Backend Core asks the Intelligence Engine for a diagnostic, of any  *)
(* reference date, and any of the engine's services may raise; and any     *)
(* other caller of the engine may post a bundle with sections left out or  *)
(* a date that is none.                                                    *)
(*                                                                         *)
(* The engine keeps nothing, so an answer is of the state it was asked in, *)
(* and the campaign waits for it to be returned.                           *)
(***************************************************************************)
EXTENDS IntelligenceOrchestrator

CONSTANTS
    Campaigns,    \* the campaigns to start from, each with the release date of its track
    Visits,       \* how many clicks a day may bring at once
    Failures,     \* the sets of services that may raise in one request
    Omissions,    \* the sets of sections other callers leave out
    MaxEvents     \* bound: events in the life of the campaign

ASSUME EventAssumption == MaxEvents \in Nat /\ Visits \subseteq Nat
ASSUME CampaignAssumption == Campaigns \subseteq [campaign: CampaignInfo, release: Number]

VARIABLES
    db,        \* the rows of the campaign
    today,
    events,    \* how many events there have been
    answer     \* the last answer and what it was asked for, or NULL

vars == <<db, today, events, answer>>

\* A request: its bundle, its raw reference date, the services that raise, and
\* whether it is the Backend Core's.
Asked(d, raw, failing, backend) ==
    [data |-> d, raw |-> raw, failing |-> failing, backend |-> backend,
     result |-> Run(d, raw, failing)]

\* The rows of a campaign.  A campaign has an artist and a track.
Rows ==
    [campaign: CampaignInfo, artist: {TRUE}, track: TrackInfo,
     clicks: [Days -> Nat], links: {0, 1},
     outputs: Seq(OutputSummary), reports: Seq(ReportSummary),
     kits: Seq(MediaKitStatuses), goals: Seq(GoalSummary)]

Init ==
    /\ \E start \in Campaigns :
          db = [campaign |-> start.campaign, artist |-> TRUE,
                track |-> [release |-> start.release],
                clicks |-> [day \in Days |-> 0], links |-> 0,
                outputs |-> <<>>, reports |-> <<>>, kits |-> <<>>, goals |-> <<>>]
    /\ today = Min(Days)
    /\ events = 0
    /\ answer = NULL

-----------------------------------------------------------------------------
(* The life of the campaign. *)

Event(next) ==
    /\ answer = NULL
    /\ events < MaxEvents
    /\ events' = events + 1
    /\ db' = next
    /\ UNCHANGED <<today, answer>>

\* PATCH of the campaign.
SetStatus == \E status \in CampaignStatuses \ {Status(db)} :
    Event([db EXCEPT !.campaign.status = status])

\* A smart link becomes active, or no longer is.
SetLinks == \E links \in {0, 1} \ {db.links} : Event([db EXCEPT !.links = links])

\* The redirect of an active link records a click.
VisitLink == \E n \in Visits :
    /\ db.links > 0
    /\ Event([db EXCEPT !.clicks = [day \in Days |-> @[day] + IF day <= today THEN n ELSE 0]])

\* A callback of the renderer creates an output.
AddOutput == \E status \in {"completed", "failed"} :
    Event([db EXCEPT !.outputs = <<[status |-> status, created |-> today]>> \o @])

\* A report is requested, for a period that ends today or that has no end, and later
\* its callback completes it.
AddReport == \E period_end \in {today, NULL} :
    Event([db EXCEPT !.reports = <<[status |-> "queued", period_end |-> period_end]>> \o @])

FinishReport == \E i \in DOMAIN db.reports :
    /\ db.reports[i].status # "completed"
    /\ Event([db EXCEPT !.reports[i].status = "completed"])

AddKit == Event([db EXCEPT !.kits = <<"draft">> \o @])

GenerateKit(i) == db.kits[i] = "draft" /\ Event([db EXCEPT !.kits[i] = "generated"])

AchieveGoal ==
    /\ ~MilestoneAchieved(db)
    /\ Event([db EXCEPT !.goals = <<[type |-> "milestone", status |-> "achieved"]>> \o @])

NextDay ==
    /\ answer = NULL
    /\ today # Max(Days)
    /\ today' = Min({day \in Days : day > today})
    /\ UNCHANGED <<db, events, answer>>

-----------------------------------------------------------------------------
(* The requests. *)

\* The Backend Core sends every section, and a reference date that is one.
Diagnose == \E ref \in {day \in Days : day <= today}, failing \in Failures :
    /\ answer = NULL
    /\ answer' = Asked(Payload(db, ref), ref, failing, TRUE)
    /\ UNCHANGED <<db, today, events>>

Without(d, sections) ==
    [s \in DOMAIN d |->
        CASE s \notin sections -> d[s]
          [] s = "artist" -> FALSE
          [] s \in {"outputs", "reports", "kits", "goals"} -> <<>>
          [] OTHER -> NULL]

\* The counters another caller may send: those there are, or with one that is wrong
\* and one absent.
CountsSent(d) == {d.stats, [d.stats EXCEPT !.total = -1, !.last7 = NULL]}

DiagnoseBundle == \E omitted \in Omissions, raw \in {today, NULL, INVALID} :
    LET d == Payload(db, today)
    IN  /\ answer = NULL
        /\ \E stats \in CountsSent(d) :
            /\ answer' = Asked(Without([d EXCEPT !.stats = stats], omitted), raw, {}, FALSE)
            /\ UNCHANGED <<db, today, events>>

\* The answer is returned; nothing of it stays.
Return == answer # NULL /\ answer' = NULL /\ UNCHANGED <<db, today, events>>

Next ==
    \/ SetStatus \/ SetLinks \/ VisitLink \/ AddOutput
    \/ AddReport \/ FinishReport \/ AddKit
    \/ \E i \in DOMAIN db.kits : GenerateKit(i)
    \/ AchieveGoal \/ NextDay
    \/ Diagnose \/ DiagnoseBundle \/ Return

Spec == Init /\ [][Next]_vars

-----------------------------------------------------------------------------
(* Properties *)

Scores == 0..100 \cup {NULL}

\* Types: scores are percentages, an answer has a known health and grade.
TypeOK ==
    /\ db \in Rows
    /\ today \in Days
    /\ events \in 0..MaxEvents
    /\ answer # NULL =>
          /\ answer.data \in Bundles
          /\ \A key \in DOMAIN answer.result.scores : answer.result.scores[key] \in Scores
          /\ answer.result.health \in {"unknown", "critical", "warning", "good"}
          /\ answer.result.grade \in {"A", "B", "C", "D", "unknown"}

Result == answer.result
Advised == {Result.recommendations[i].action : i \in DOMAIN Result.recommendations}
Seen == Range(Result.moments)
Whole == answer.failing = {}

\* campaign_analysis.py and scoring_engine.py judge the same bundle by rules written
\* twice: where the one sees a campaign in a critical state the other sees a risk of
\* at least one half, and where the one sees good health the risk is at most 55.
HealthBoundsRisk ==
    answer # NULL /\ Whole =>
        /\ Result.health = "critical" => Result.scores.risk >= 50
        /\ Result.health = "good" /\ Result.scores.risk # NULL => Result.scores.risk <= 55

\* moment_detector.py and recommendation_engine.py detect the same triggers by rules
\* written twice ("keeping moments and recommendations mutually consistent"): an
\* advised action answers a moment of its urgency.  A release post is urgent within
\* the window whether the release is imminent or not, and without a moment when it
\* is advised for the type of the campaign.
AdviceHasMoment ==
    answer # NULL /\ Whole =>
        \A r \in Range(Result.recommendations) :
            \/ r.action \in {"no_action", "wait_for_more_data"}
            \/ \E m \in Seen :
                  /\ Moments!RECOMMENDED_ACTION[m.type] = r.action
                  /\ \/ m.severity = r.priority
                     \/ m.type = "release_window" /\ r.priority = "high"
            \/ r.action = "create_release_post" /\ r.priority = "medium"

\* To the Backend Core, which sends every section, "no action is needed" is said of
\* no campaign that is critical and of none with an urgent moment.
NoActionMeansNothingUrgent ==
    answer # NULL /\ Whole /\ answer.backend /\ Advised = {"no_action"} =>
        /\ Result.health # "critical"
        /\ \A m \in Seen : m.severity # "high"

\* No section is silently empty: a health, a grade or a score that is unknown, and
\* advice that is missing, has its reason among the warnings, whichever services
\* raised; and no service is reported missing that answered.
GapsAreNamed ==
    answer # NULL =>
        /\ Result.health = "unknown" =>
              {"insufficient_data", "analysis_unavailable"} \cap Result.warnings # {}
        /\ Result.grade = "unknown" =>
              {"grade", "scoring_unavailable"} \cap Result.warnings # {}
        /\ \A key \in DOMAIN Result.scores : Result.scores[key] = NULL =>
              {key, "scoring_unavailable"} \cap Result.warnings # {}
        /\ Result.recommendations = <<>> <=> "recommendations_unavailable" \in Result.warnings
        /\ \A stage \in Stages :
              UNAVAILABLE[stage] \in Result.warnings => stage \in Broken(answer.failing)

\* What an answer says is worth: better is higher.
Worth(grade) == CASE grade = "A" -> 4 [] grade = "B" -> 3 [] grade = "C" -> 2
                  [] grade = "D" -> 1 [] OTHER -> 0

\* More engagement never makes a campaign look worse: after a visit, whatever date
\* the diagnostic is of, momentum is no lower, risk no higher, the grade no worse.
ClicksNeverHurt ==
    [][VisitLink =>
        \A ref \in Days :
            LET old == Scoring!Score(Payload(db, ref), ref)
                new == Scoring!Score(Payload(db', ref), ref)
            IN  /\ new.scores.momentum >= old.scores.momentum
                /\ new.scores.risk <= old.scores.risk
                /\ Worth(new.grade) >= Worth(old.grade)]_vars

\* Doing what was advised ends the advice: once a media kit that is among the newest
\* MAX_ITEMS is generated, none is advised.  Of an older one the engine is not told.
GeneratedKitEndsAdvice ==
    [][(\E i \in DOMAIN db.kits : i <= MaxItems /\ GenerateKit(i)) =>
        \A ref \in Days :
            "create_media_kit" \notin
                {r.action : r \in Recommendations!Triggered(Payload(db', ref), ref)}]_vars
=============================================================================
