----------------------- MODULE MCCampaignIntelligence -----------------------
(* Campaigns for the model checking of CampaignIntelligence. *)
EXTENDS CampaignIntelligence

Campaign(status, type, end, release) ==
    [campaign |-> [status |-> status, type |-> type, goal |-> FALSE, start |-> 5, end |-> end],
     release |-> release]

\* Two releases, one of them without its date, a campaign that is growing, and a draft for
\* the media whose end is before its start.
MCCampaigns ==
    {Campaign("active", "single_release", 20, 14), Campaign("active", "single_release", 20, NULL),
     Campaign("paused", "weekly_growth_campaign", NULL, NULL),
     Campaign("draft", "media_campaign", 1, 14)}

MCFailures == {{}, {"scoring"}, {"analysis", "moments"}}

MCOmissions ==
    {{}, {"stats"}, {"campaign", "reports", "kits", "track"},
     {"campaign", "artist", "track", "stats", "outputs", "reports", "kits", "goals"}}
=============================================================================
