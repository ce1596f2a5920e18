---------------------------- MODULE CampaignData ----------------------------
(***************************************************************************)
(* The data bundle of one campaign: how the Backend Core assembles it from *)
(* its rows (intelligence_payload.py) and what the four services of the    *)
(* Intelligence Engine read off it.  A section a caller leaves out is      *)
(* NULL, a list it leaves out is empty.                                    *)
(*                                                                         *)
(* A day is a number and NULL is an absent one.  The database keeps        *)
(* its rows newest first, as the queries of the builder order them, and of *)
(* the clicks how many there were from each day on.                        *)
(***************************************************************************)
EXTENDS Integers, SequencesExt

CONSTANTS
    Days,        \* the days the campaign is looked at
    MaxItems,    \* MAX_ITEMS, the most rows of a list the builder sends
    NULL,        \* what is absent
    INVALID      \* a reference that is no date

ASSUME DayAssumption ==
    /\ Days \subseteq Nat /\ Days # {} /\ IsFiniteSet(Days)
    /\ {NULL, INVALID} \cap Int = {} /\ NULL # INVALID
ASSUME ItemAssumption == MaxItems \in Nat \ {0}

RELEASE_WINDOW_DAYS == 14
RECENT_CONTENT_WINDOW_DAYS == 14
REPORT_DUE_AFTER_DAYS == 30

CampaignStatuses == {"draft", "scheduled", "active", "paused", "completed", "archived"}
CampaignTypes ==
    {"single_release", "music_video_release", "album_release", "milestone_campaign",
     "comeback_campaign", "weekly_growth_campaign", "catalogue_push", "media_campaign", "custom"}
OutputStatuses ==
    {"queued", "validating", "processing", "rendering", "uploading", "completed", "failed",
     "cancelled", "expired", "archived"}
ReportStatuses == {"queued", "processing", "completed", "failed", "archived"}
MediaKitStatuses == {"draft", "generated", "published", "archived"}
GoalTypes ==
    {"views", "clicks", "content_outputs", "milestone", "reports", "engagement", "custom"}
GoalStatuses == {"active", "achieved", "missed", "cancelled"}
FINISHED_CAMPAIGN_STATUSES == {"completed", "archived"}
RELEASE_CAMPAIGN_TYPES == {"single_release", "music_video_release", "album_release"}
USABLE_MEDIA_KIT_STATUSES == {"generated", "published"}

-----------------------------------------------------------------------------
(* The schema of the bundle. *)

Number == Int \cup {NULL}

CampaignInfo ==
    [status: CampaignStatuses, type: CampaignTypes, goal: BOOLEAN, start: Number, end: Number]
TrackInfo == [release: Number]
Counts == [total: Number, last7: Number, last30: Number, links: Number]
OutputSummary == [status: OutputStatuses, created: Number]
ReportSummary == [status: ReportStatuses, period_end: Number]
GoalSummary == [type: GoalTypes, status: GoalStatuses]

\* CampaignDataBundle: every section is optional, and its words are those of the rows.
Bundles ==
    [campaign: CampaignInfo \cup {NULL}, artist: BOOLEAN, track: TrackInfo \cup {NULL},
     stats: Counts \cup {NULL},
     outputs: Seq(OutputSummary), reports: Seq(ReportSummary),
     kits: Seq(MediaKitStatuses), goals: Seq(GoalSummary)]

ASSUME AbsentAssumption == NULL \notin CampaignInfo \cup Counts

-----------------------------------------------------------------------------
(* The payload builder of the Backend Core. *)

\* The clicks of the days from..to.
ClicksFrom(clicks, from) ==
    LET since == {day \in Days : from <= day}
    IN  IF since = {} THEN 0 ELSE clicks[Min(since)]

ClicksBetween(clicks, from, to) == ClicksFrom(clicks, from) - ClicksFrom(clicks, to + 1)

\* One aggregate: the lifetime total, which a reference in the past does not bound,
\* and the two windows up to the reference.
SmartLinkStats(db, ref) ==
    [total |-> ClicksFrom(db.clicks, 0),
     last7 |-> ClicksBetween(db.clicks, ref - 7, ref),
     last30 |-> ClicksBetween(db.clicks, ref - 30, ref),
     links |-> db.links]

\* The rows without the order the queries of the builder ask for.
Oldest(rows) == SubSeq(rows, Len(rows) - Min({MaxItems, Len(rows)}) + 1, Len(rows))

\* The newest rows of a list.
Newest(rows) == SubSeq(rows, 1, Min({MaxItems, Len(rows)}))

\* The data block of POST /intelligence/campaign.
Payload(db, ref) ==
    [campaign |-> db.campaign, artist |-> db.artist, track |-> db.track,
     stats |-> SmartLinkStats(db, ref),
     outputs |-> Newest(db.outputs), reports |-> Newest(db.reports),
     kits |-> Newest(db.kits), goals |-> Newest(db.goals)]

-----------------------------------------------------------------------------
(* What the services read off a bundle. *)

Status(d) == IF d.campaign = NULL THEN "" ELSE d.campaign.status
CampaignType(d) == IF d.campaign = NULL THEN "" ELSE d.campaign.type

\* No section of the bundle says anything.
IsInsufficient(d) ==
    /\ d.campaign = NULL /\ ~d.artist /\ d.track = NULL /\ d.stats = NULL
    /\ d.outputs = <<>> /\ d.reports = <<>> /\ d.kits = <<>> /\ d.goals = <<>>

Counters(s) == {s.total, s.last7, s.last30, s.links} \ {NULL}

\* A counter above zero is activity, whatever the others are.
HasActivity(d) == d.stats # NULL /\ \E n \in Counters(d.stats) : n > 0

\* A counter below zero.
HasNegative(d) == d.stats # NULL /\ \E n \in Counters(d.stats) : n < 0

\* A counter as a number: absent and negative ones count as none.
Clamped(d, counter) ==
    IF d.stats = NULL \/ d.stats[counter] = NULL THEN 0 ELSE Max({d.stats[counter], 0})

InconsistentDates(d) ==
    /\ d.campaign # NULL
    /\ d.campaign.start # NULL /\ d.campaign.end # NULL
    /\ d.campaign.end < d.campaign.start

CompletedOutputs(d) ==
    {i \in DOMAIN d.outputs : d.outputs[i].status = "completed"}

\* The completed outputs of the fortnight before the reference.
RecentOutputs(d, ref) ==
    {i \in CompletedOutputs(d) :
        /\ d.outputs[i].created # NULL
        /\ d.outputs[i].created \in (ref - RECENT_CONTENT_WINDOW_DAYS)..ref}

FutureOutputs(d, ref) ==
    \E output \in Range(d.outputs) : output.created # NULL /\ output.created > ref

HasUsableMediaKit(d) == \E kit \in Range(d.kits) : kit \in USABLE_MEDIA_KIT_STATUSES

\* A completed report is recent when no date says otherwise.  A period that ends
\* after the reference is recent too.
HasRecentCompletedReport(d, ref) ==
    LET completed == {report \in Range(d.reports) : report.status = "completed"}
        dated == {report \in completed : report.period_end # NULL}
    IN  /\ completed # {}
        /\ \/ ref = NULL
           \/ dated = {}
           \/ \E report \in dated : ref - report.period_end <= REPORT_DUE_AFTER_DAYS

InReleaseWindow(d, ref, days) ==
    /\ d.track # NULL /\ d.track.release # NULL /\ ref # NULL
    /\ ref - d.track.release \in (-days)..days

MilestoneAchieved(d) == [type |-> "milestone", status |-> "achieved"] \in Range(d.goals)

-----------------------------------------------------------------------------
(* The reference date and the warnings about the bundle. *)

\* A context that holds no date, or one that is none, is without a reference.
ParseReference(raw) == IF raw = INVALID THEN NULL ELSE raw

DateWarnings(raw) == IF raw = INVALID THEN {"invalid_reference_date"} ELSE {}

ConsistencyWarnings(d) ==
    {code \in {"inconsistent_campaign_dates", "negative_smart_link_stats"} :
        \/ code = "inconsistent_campaign_dates" /\ InconsistentDates(d)
        \/ code = "negative_smart_link_stats" /\ HasNegative(d)}

FutureWarnings(d, ref) ==
    IF ref # NULL /\ FutureOutputs(d, ref) THEN {"future_content_output_date"} ELSE {}

-----------------------------------------------------------------------------
\* What a service found, sorted: before is a strict total order of found, as pairs.
Sorted(found, before) ==
    [i \in 1..Cardinality(found) |->
        CHOOSE x \in found : Cardinality({y \in found : <<y, x>> \in before}) = i - 1]
=============================================================================
