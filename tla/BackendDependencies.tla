------------------------ MODULE BackendDependencies ------------------------
(***************************************************************************)
(* What the Backend Core makes of the services it depends on: the          *)
(* synchronous diagnostic of a campaign (campaigns/intelligence_service.py *)
(* over intelligence_sync.py and clients.py), with its retries and the     *)
(* classes its failures fall into, and the health endpoints (health.py)    *)
(* that report on the same services meanwhile.                             *)
(*                                                                         *)
(* The services change between any two steps.  The mode of a service says  *)
(* how it answers: "sluggish" is later than the health probe waits and     *)
(* sooner than the client does; "rejecting" is a 4xx and "failing" a 5xx   *)
(* to the client, with a /health that is public and well, and "erroring" a *)
(* 5xx to both; "cut" answers and then sends no body; "garbled" answers in *)
(* no HTTP, an exception of http.client which neither side names.          *)
(***************************************************************************)
EXTENDS Integers, Sequences

CONSTANTS
    Calls,         \* the diagnostics asked for
    MaxRetries,    \* INTELLIGENCE_ENGINE_MAX_RETRIES
    EngineModes,   \* the modes the engine goes through
    MaxChanges,    \* bound: how often the surroundings change
    NULL

ASSUME RetryAssumption == MaxRetries \in Nat
ASSUME ChangeAssumption == MaxChanges \in Nat

Modes == {"up", "sluggish", "slow", "down", "erroring", "failing", "rejecting", "odd",
          "cut", "garbled"}

\* The overall states of a report.
Statuses == {"ok", "degraded", "unavailable"}

ASSUME ModeAssumption == EngineModes \subseteq Modes /\ NULL \notin Nat \cup Statuses

VARIABLES
    mode,        \* how each service answers
    settings,    \* the switches and base URLs of the deployment
    campaign,    \* whether the campaign is there: "live" or "deleted"
    changes,     \* how often the surroundings have changed
    calls,       \* the diagnostics
    health,      \* the request of the aggregated report
    ready        \* the last answer of the readiness endpoint

world == <<mode, settings, campaign, changes>>
vars == <<mode, settings, campaign, changes, calls, health, ready>>

\* In the order they are probed.
Dependencies == <<"intelligence_engine", "content_renderer", "database">>
Services == {"intelligence_engine", "content_renderer", "database"}

Settings == [enabled: BOOLEAN, dry_run: BOOLEAN, engine_url: BOOLEAN, renderer_url: BOOLEAN]

Database == mode["database"]
Engine == mode["intelligence_engine"]

IdleCall == [pc |-> "idle", failures |-> <<>>, answer |-> NULL, source |-> NULL, since |-> 0]
IdleHealth == [pc |-> "idle", found |-> <<>>, answer |-> NULL, overall |-> NULL, since |-> 0]

Init ==
    /\ mode \in {f \in [Services -> Modes] :
                    /\ f["intelligence_engine"] \in EngineModes
                    /\ f["content_renderer"] \in {"up", "down"}
                    /\ f["database"] = "up"}
    /\ settings \in Settings
    /\ campaign = "live"
    /\ changes = 0
    /\ calls = [c \in Calls |-> IdleCall]
    /\ health = IdleHealth
    /\ ready = NULL

-----------------------------------------------------------------------------
(* The surroundings. *)

Changed == changes < MaxChanges /\ changes' = changes + 1 /\ UNCHANGED <<settings, calls, health, ready>>

\* A service comes up, fails, or answers otherwise than it did.
ServiceChanges ==
    /\ Changed
    /\ \E service \in Services, new \in Modes :
          /\ service = "intelligence_engine" => new \in EngineModes
          /\ service # "intelligence_engine" => new \in {"up", "down"}
          /\ new # mode[service]
          /\ mode' = [mode EXCEPT ![service] = new]
    /\ UNCHANGED campaign

\* DELETE of the campaign, which is soft.
DeleteCampaign ==
    /\ Changed
    /\ Database = "up"
    /\ campaign = "live"
    /\ campaign' = "deleted"
    /\ UNCHANGED mode

-----------------------------------------------------------------------------
(* The diagnostic of a campaign. *)

\* What one POST to the engine comes to.  A body that cannot be read is as good as
\* an empty one, which is no completed envelope; what post_json has no except clause
\* for goes through it.
Outcome(m) ==
    CASE m \in {"up", "sluggish"} -> "ok"
      [] m = "slow" -> "timeout"
      [] m = "down" -> "unreachable"
      [] m \in {"erroring", "failing"} -> "server_error"
      [] m = "rejecting" -> "client_error"
      [] m \in {"odd", "cut"} -> "unusable"
      [] m = "garbled" -> "uncaught"

Transient == {"timeout", "unreachable", "server_error"}
Permanent == {"client_error", "unusable"}
Failures == Transient \cup Permanent \cup {"uncaught"}

\* How often the surroundings had changed when request r began.
Since(r) == IF r.pc = "idle" THEN changes ELSE r.since

Answered(c, failures, status, source) ==
    calls' = [calls EXCEPT ![c] = [pc |-> "answered", failures |-> failures, answer |-> status,
                                   source |-> source, since |-> Since(calls[c])]]

\* What a query finds: an exception of the database is a 500, no row is a 404.
Refused(c) ==
    \/ Database # "up" /\ Answered(c, <<>>, 500, NULL)
    \/ Database = "up" /\ campaign = "deleted" /\ Answered(c, <<>>, 404, NULL)

Found == Database = "up" /\ campaign = "live"

\* CampaignViewSet.intelligence: get_object, scoped to the workspace.
GetObject(c) ==
    /\ calls[c].pc = "idle"
    /\ \/ Refused(c)
       \/ Found /\ calls' = [calls EXCEPT ![c].pc = "found", ![c].since = changes]
    /\ UNCHANGED <<world, health, ready>>

\* CampaignIntelligenceService.run: the campaign is loaded once more, then the
\* switches decide, the first that applies.
Run(c) ==
    /\ calls[c].pc = "found"
    /\ \/ Refused(c)
       \/ /\ Found
          /\ \/ ~settings.enabled /\ Answered(c, <<>>, 503, NULL)
             \/ settings.enabled /\ settings.dry_run /\ Answered(c, <<>>, 200, "dry_run")
             \/ /\ settings.enabled /\ ~settings.dry_run
                /\ ~settings.engine_url
                /\ Answered(c, <<>>, 503, NULL)
             \/ /\ settings.enabled /\ ~settings.dry_run
                /\ settings.engine_url
                /\ calls' = [calls EXCEPT ![c].pc = "calling"]
    /\ UNCHANGED <<world, health, ready>>

\* An attempt that retries whatever failed.
AttemptAgain(c) ==
    LET outcome == Outcome(Engine)
        failures == Append(calls[c].failures, outcome)
    IN  /\ calls[c].pc = "calling"
        /\ \/ outcome = "ok" /\ Answered(c, calls[c].failures, 200, "engine")
           \/ outcome # "ok" /\ Len(failures) > MaxRetries /\ Answered(c, failures, 503, NULL)
           \/ /\ outcome # "ok"
              /\ Len(failures) <= MaxRetries
              /\ calls' = [calls EXCEPT ![c].failures = failures]
        /\ UNCHANGED <<world, health, ready>>

\* An attempt that keeps no count of the ones before it.
AttemptForever(c) ==
    LET outcome == Outcome(Engine)
    IN  /\ calls[c].pc = "calling"
        /\ \/ outcome = "ok" /\ Answered(c, <<>>, 200, "engine")
           \/ outcome \in Transient /\ UNCHANGED calls
           \/ outcome \in Permanent /\ Answered(c, <<outcome>>, 502, NULL)
           \/ outcome = "uncaught" /\ Answered(c, <<outcome>>, 500, NULL)
        /\ UNCHANGED <<world, health, ready>>

\* One attempt of post_campaign_intelligence.  Transient failures are retried while
\* retries are left, then they are a 503; any other failure is a 502 at once; and an
\* exception that nobody catches is a 500 at once.
Attempt(c) ==
    LET outcome == Outcome(Engine)
        failures == Append(calls[c].failures, outcome)
    IN  /\ calls[c].pc = "calling"
        /\ \/ outcome = "ok" /\ Answered(c, calls[c].failures, 200, "engine")
           \/ outcome \in Permanent /\ Answered(c, failures, 502, NULL)
           \/ outcome = "uncaught" /\ Answered(c, failures, 500, NULL)
           \/ /\ outcome \in Transient
              /\ Len(failures) = MaxRetries + 1
              /\ Answered(c, failures, 503, NULL)
           \/ /\ outcome \in Transient
              /\ Len(failures) <= MaxRetries
              /\ calls' = [calls EXCEPT ![c].failures = failures]
        /\ UNCHANGED <<world, health, ready>>

-----------------------------------------------------------------------------
(* The health endpoints. *)

\* GET /system/health/: the staff user who asks is looked up in the database first.
Authenticate ==
    /\ health.pc = "idle"
    /\ health' = IF Database = "up"
                 THEN [health EXCEPT !.pc = "probing", !.since = Since(health)]
                 ELSE [health EXCEPT !.pc = "answered", !.answer = 500, !.since = Since(health)]
    /\ UNCHANGED <<world, calls, ready>>

\* http_health_probe, and _check_database for the database.
Probed(service) ==
    IF service = "database"
    THEN IF Database = "up" THEN "ok" ELSE "unavailable"
    ELSE IF \/ service = "intelligence_engine" /\ ~settings.engine_url
            \/ service = "content_renderer" /\ ~settings.renderer_url
    THEN "misconfigured"
    ELSE CASE mode[service] \in {"up", "failing", "rejecting"} -> "ok"
           [] mode[service] \in {"sluggish", "slow", "down"} -> "unavailable"
           [] mode[service] \in {"erroring", "odd", "cut"} -> "degraded"
           [] OTHER -> "unknown"

\* The overall status when the database is left out of it.
AggregateOfServices(found) ==
    LET external == {found[i] : i \in (DOMAIN found) \ {3}}
    IN  CASE external \subseteq {"ok"} -> "ok"
          [] "ok" \notin external -> "unavailable"
          [] OTHER -> "degraded"

\* _aggregate_status
Aggregate(found) ==
    LET statuses == {found[i] : i \in DOMAIN found}
    IN  CASE statuses \subseteq {"ok"} -> "ok"
          [] "ok" \notin statuses -> "unavailable"
          [] OTHER -> "degraded"

\* check_dependencies probes one dependency after the other.
Probe ==
    LET found == Append(health.found, Probed(Dependencies[Len(health.found) + 1]))
    IN  /\ health.pc = "probing"
        /\ Len(health.found) < Len(Dependencies)
        /\ health' = [health EXCEPT !.found = found]
        /\ UNCHANGED <<world, calls, ready>>

Report ==
    /\ health.pc = "probing"
    /\ Len(health.found) = Len(Dependencies)
    /\ health' = [health EXCEPT !.pc = "answered", !.answer = 200,
                                !.overall = Aggregate(health.found)]
    /\ UNCHANGED <<world, calls, ready>>

\* GET /system/health/ready/ asks the database and nothing else, of anyone.
Readiness ==
    /\ ready' = [answer |-> IF Database = "up" THEN 200 ELSE 503, since |-> changes]
    /\ ready' # ready
    /\ UNCHANGED <<world, calls, health>>

-----------------------------------------------------------------------------
Serve(c) == GetObject(c) \/ Run(c) \/ Attempt(c)

\* All there was to do is done.
Done ==
    /\ \A c \in Calls : calls[c].pc = "answered"
    /\ health.pc = "answered"
    /\ UNCHANGED vars

Next ==
    \/ ServiceChanges \/ DeleteCampaign
    \/ \E c \in Calls : Serve(c)
    \/ Authenticate \/ Probe \/ Report \/ Readiness
    \/ Done

\* A request that was accepted runs on: each of its steps has a time-out.
Spec == Init /\ [][Next]_vars /\ \A c \in Calls : WF_vars(Serve(c))

-----------------------------------------------------------------------------
(* Properties *)

CallRecords == [pc: {"idle", "found", "calling", "answered"},
                failures: Seq(Failures),
                answer: {NULL, 200, 404, 500, 502, 503},
                source: {NULL, "dry_run", "engine"},
                since: 0..MaxChanges]
HealthRecords == [pc: {"idle", "probing", "answered"},
                  found: Seq(Statuses \cup {"misconfigured", "unknown"}),
                  answer: {NULL, 200, 500},
                  overall: Statuses \cup {NULL},
                  since: 0..MaxChanges]

TypeOK ==
    /\ mode \in [Services -> Modes]
    /\ settings \in Settings
    /\ campaign \in {"live", "deleted"}
    /\ changes \in 0..MaxChanges
    /\ calls \in [Calls -> CallRecords]
    /\ health \in HealthRecords
    /\ ready \in [answer: {200, 503}, since: 0..MaxChanges] \cup {NULL}

\* What the status of a diagnostic says of the engine (intelligence_sync.py, contract
\* 9.2): all failures before the last are transient, for nothing else is retried; a
\* 502 is of a failure that is not, a 503 of a live call of MaxRetries + 1 that are, a
\* 500 of no failure, which is the database, or of one that nobody catches; and an
\* answer of the engine is had only with the switches on.
StatusMatchesFailures ==
    \A c \in Calls :
        LET call == calls[c]
            n == Len(call.failures)
        IN  /\ \A i \in 1..(n - 1) : call.failures[i] \in Transient
            /\ call.answer = 502 => n > 0 /\ call.failures[n] \in Permanent
            /\ call.answer = 503 =>
                  \/ n = 0 /\ ~(settings.enabled /\ settings.engine_url)
                  \/ n = MaxRetries + 1 /\ call.failures[n] \in Transient
            /\ call.answer = 500 => n = 0 \/ call.failures[n] = "uncaught"
            /\ call.answer = 200 =>
                  /\ n <= MaxRetries
                  /\ settings.enabled
                  /\ call.source = "engine" <=> ~settings.dry_run

\* The surroundings of request r are as they were when it began.
Still(r) == r.since = changes

\* The database turned the diagnostic away.
TurnedAway(call) == call.answer = 500 /\ call.failures = <<>>

\* Requests that nothing changed under since they began agree on the database, each
\* of which learns of it in its own way: the staff user's request for the report fails
\* exactly when the service says it is not ready, and exactly when a diagnostic is
\* turned away.  What is left for "unavailable" (no dependency is well) is a database
\* that fails between the user's lookup and its probe: with the renderer and the
\* engine both away the report says "degraded".
EndpointsAgree ==
    health.pc = "answered" /\ Still(health) =>
        /\ health.overall # "unavailable"
        /\ ready # NULL /\ Still(ready) => (ready.answer = 503 <=> health.answer = 500)
        /\ \A c \in Calls : calls[c].pc = "answered" /\ Still(calls[c]) =>
              (TurnedAway(calls[c]) <=> health.answer = 500)

\* views.py:185-188, "Always returns HTTP 200 with the per-dependency status in the
\* body", of the aggregated report, the database being one of the dependencies.
HealthAlwaysReports == health.answer # 500

\* Whatever the engine does, however it goes on changing, a diagnostic is answered.
CallsAnswered == \A c \in Calls : [](calls[c].pc # "idle" => <>(calls[c].pc = "answered"))
=============================================================================
