-------------------------- MODULE CampaignAnalysis --------------------------
(***************************************************************************)
(* CampaignAnalysisService: the rules that turn a bundle into strengths,   *)
(* weaknesses, opportunities and risks, and the health drawn from them.    *)
(* A signal is named by the code of its explanation; an answer is the      *)
(* signals, the health, and the codes of the warnings.                     *)
(***************************************************************************)
EXTENDS CampaignData

\* R1, R1b and R2.
ContentSignals(d, ref) ==
    IF CompletedOutputs(d) = {} THEN {"content_gap"}
    ELSE {"has_content_outputs"} \cup
         {code \in {"recent_content_outputs"} : ref # NULL /\ RecentOutputs(d, ref) # {}}

\* R3, R4; R4b is a warning.
SmartLinkSignals(d) ==
    CASE d.stats = NULL -> {}
      [] HasActivity(d) -> {"smart_link_activity"}
      [] OTHER -> {"smart_link_no_activity"}

\* R5 and R6.
ReportSignals(d, ref) == IF HasRecentCompletedReport(d, ref) THEN {} ELSE {"report_due"}
MediaKitSignals(d) == IF HasUsableMediaKit(d) THEN {} ELSE {"media_kit_missing"}

\* R7.
RiskSignals(d, ref) ==
    {code \in {"active_campaign_no_traction"} :
        /\ Status(d) = "active"
        /\ "content_gap" \in ContentSignals(d, ref)
        /\ "smart_link_activity" \notin SmartLinkSignals(d)}

Signals(d, ref) ==
    ContentSignals(d, ref) \cup SmartLinkSignals(d) \cup ReportSignals(d, ref)
        \cup MediaKitSignals(d) \cup RiskSignals(d, ref)

Strengths == {"has_content_outputs", "recent_content_outputs", "smart_link_activity"}
Weaknesses == {"smart_link_no_activity"}
Risks == {"active_campaign_no_traction"}

DeriveHealth(signals) ==
    LET strong == signals \cap Strengths # {}
        weak == signals \cap Weaknesses # {}
        risky == signals \cap Risks # {}
    IN  CASE risky /\ ~strong -> "critical"
          [] strong /\ ~weak /\ ~risky -> "good"
          [] OTHER -> "warning"

\* What a stage that could not run leaves in the composite answer.
NoAnalysis == [health |-> "unknown", signals |-> {}, warnings |-> {}]

\* CampaignAnalysisService.analyse
Analyse(d, raw) ==
    LET ref == ParseReference(raw)
        found == Signals(d, ref)
    IN  IF IsInsufficient(d)
        THEN [NoAnalysis EXCEPT !.warnings = DateWarnings(raw) \cup {"insufficient_data"}]
        ELSE [health |-> DeriveHealth(found),
              signals |-> found,
              warnings |-> DateWarnings(raw) \cup ConsistencyWarnings(d)
                              \cup FutureWarnings(d, ref)
                              \cup {code \in {"smart_link_stats_missing"} : d.stats = NULL}]
=============================================================================
