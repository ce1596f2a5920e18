---------------------- MODULE IntelligenceOrchestrator ----------------------
(***************************************************************************)
(* IntelligenceOrchestrator: POST /intelligence/campaign runs the four     *)
(* services on one bundle, each in a _safe of its own, and puts their      *)
(* answers together.  A service that raises leaves its section empty and a *)
(* warning in its place.                                                   *)
(***************************************************************************)
EXTENDS CampaignData

Analysis == INSTANCE CampaignAnalysis
Scoring == INSTANCE ScoringEngine
Moments == INSTANCE MomentDetector
Recommendations == INSTANCE RecommendationEngine

Stages == {"analysis", "scoring", "moments", "recommendations"}

\* The recommendation engine calls the scoring engine on the same bundle: an
\* exception of the one is an exception of the other.
Broken(failing) ==
    failing \cup {stage \in {"recommendations"} : "scoring" \in failing}

UNAVAILABLE ==
    [analysis |-> "analysis_unavailable", scoring |-> "scoring_unavailable",
     moments |-> "moments_unavailable", recommendations |-> "recommendations_unavailable"]

\* The default without its warning.
SafeSilently(stage, failing, answer, default) ==
    IF stage \in Broken(failing) THEN default ELSE answer

\* _safe: the answer of the stage, or its default and a warning.
Safe(stage, failing, answer, default) ==
    IF stage \in Broken(failing)
    THEN [default EXCEPT !.warnings = {UNAVAILABLE[stage]}]
    ELSE answer

\* The answer to a bundle when the services in failing raise.  The warnings are one
\* set of codes: _dedup_by_code keeps the first of each.
Run(d, raw, failing) ==
    LET analysis == Safe("analysis", failing, Analysis!Analyse(d, raw), Analysis!NoAnalysis)
        scoring == Safe("scoring", failing, Scoring!Score(d, raw), Scoring!NoScoring)
        moments == Safe("moments", failing, Moments!Detect(d, raw), Moments!NoMoments)
        advice == Safe("recommendations", failing, Recommendations!Recommend(d, raw),
                       Recommendations!NoRecommendations)
    IN  [health |-> analysis.health, signals |-> analysis.signals,
         scores |-> scoring.scores, grade |-> scoring.grade,
         moments |-> moments.moments, recommendations |-> advice.recommendations,
         warnings |-> analysis.warnings \cup scoring.warnings \cup moments.warnings
                          \cup advice.warnings]
=============================================================================
