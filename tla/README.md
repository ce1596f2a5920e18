# MomentFlow in TLA+

A model of MomentFlow: content generation across Django and the Content Renderer, the credit
ledger, plans with their Stripe events and quotas, reports and media kits, the actions a team takes
on recommendations and the dialogs it takes them in, the Intelligence Engine that makes the
recommendations, and the calls to it. TLC checks the model on small instances, and TLAPS
proves its safety properties for every instance. The prose below says
what is modelled, how it follows the code, and what the results mean.

Paths are relative to the repository; `apps/` stands for `src/backend_core/apps/` and
`renderer/` for `src/content_renderer/src/`.

## 1. The system

MomentFlow helps music teams run campaigns. It is four programs: a Django backend with
PostgreSQL (`src/backend_core`), a Node service that renders content, reports and media kits
(`src/content_renderer`), a stateless FastAPI service that analyses a campaign
(`src/intelligence_engine`) and a React frontend (`src/frontend`).

### Components

| Component | State | Operations | What makes it correct |
|---|---|---|---|
| Content pack requests (`apps/content`) | request status, outputs, Assets, usage events, notifications | create a request; apply a successful or failed result | the outcome shown agrees with the credits, the outputs have their files, a result reaches its request |
| External jobs (`apps/integrations_bridge`) | status of each job reference, payloads, time stamps | open and submit; time-out, failure, dry run; callback; retry; cancel | results are not lost or overwritten; a retry does something |
| Credit ledger (`apps/billing/services.py`) | append-only entries with idempotency keys | grant, purchase, reserve, consume, release, refund | a key moves credits once; the balance is accounted for and not overdrawn |
| Plans, usage, quotas (`apps/billing`) | plan limits, usage events | check a limit, record usage | a limit holds under concurrent requests |
| Stripe webhooks (`apps/billing/webhooks.py`) | event log, subscription status | log and process an event | each event applied once, in an order that leaves the right status |
| Campaign actions (`apps/campaign_actions`) | status, stamps and reason of each action | create, PATCH, review, dismiss, cancel, complete | one active action per recommendation and type; terminal is terminal; stamps agree |
| Reports and media kits (`apps/reports`) | status, Asset, metadata | create, apply a callback | one Asset, the status shown is that of the last generation |
| Campaigns and their intelligence (`apps/campaigns`, `intelligence_sync.py`) | campaigns, the last analysis | build the payload, call the engine with retries | the call ends; errors are mapped right |
| Smart links (`apps/links`) | slugs, clicks | allocate a slug, count a click | slugs are unique, clicks are not lost |
| Catalogue, workspaces, roles, accounts, notifications, audit, core | rows of a workspace | plain create, read, update | isolation of workspaces, permissions |
| Renderer jobs and callbacks (`renderer/jobs`, `renderer/callbacks`) | accepted jobs, in memory | accept, execute, send with retries | the send loop ends; a result is sent for each accepted job |
| Renderers, templates, storage (`renderer/renderers`, `renderer/storage`) | files | render, store | the status agrees with the outputs; keys do not collide |
| Intelligence engine (`src/intelligence_engine/app/services`) | none | analyse, score, detect, recommend | scores within bounds, recommendations follow from moments |
| Frontend (`src/frontend/src`) | session, active workspace, query cache | log in, switch workspace, two-step creation of an action | no artefact twice, no request in the wrong workspace |

### How they interact

A POST to `content-pack-requests` runs one transaction (request, usage event, reservation).
After its commit the same thread opens an `ExternalJobReference`, POSTs the job to the renderer
and saves the outcome. The renderer answers 202, renders in the background and POSTs the result to
the callback endpoint, up to `CALLBACK_MAX_ATTEMPTS` times. A Django worker checks the status of
the job and calls the product handler, which in one transaction updates request, outputs,
ledger, usage, notifications and job. When the submission itself fails, the submission thread
calls that same handler. Operators retry jobs from a shell and cancel them in the admin.

Campaign actions are written by requests of the frontend. POST and PATCH validate against rows
read without a lock; the endpoints `complete`, `mark-reviewed`, `cancel` and `dismiss` lock the
row first.

### What is hard here

* One row, several writers, READ COMMITTED and few locks: the submission thread and callback
  workers on a job; two handlers on a request; a PATCH and an endpoint on an action; two
  transactions on the balance.
* A time-out is not a failure: the POST may have arrived, and the callback may be being applied
  while the renderer sends it again.
* Idempotency by look-up: the check and the insert are two statements. The ledger has a unique
  constraint to fall back on, outputs and Assets have none.
* Crashes: the submission thread, a worker and the renderer may die between any two steps.

* Data crosses three languages: what Django sends is read by TypeScript and by Python written for
  another shape of it, and the engine states its rules twice, once to detect and once to advise.

`PROJECT.json` lists these hazards at their lines, with the properties that watch each and the
reason where none does.

## 2. Modules

| Module | Models | Kind |
|---|---|---|
| `JobStatus` | the job statuses and the sets the code decides by | definitions |
| `ContentJobs` | content generation end to end | detailed specification |
| `ContentDocument` | what a pack asks for, what the renderer makes of it, which template an output finds | pure operators |
| `CreditLedger` | the ledger of a workspace, statement by statement | detailed specification |
| `KeyedLedger` | what a ledger with idempotency keys promises | abstract specification |
| `StripeSubscription` | webhooks and plan changes on one subscription | detailed specification |
| `PlanQuota` | creations under the limits of a plan, on top of `StripeSubscription` | composition |
| `ReportDocument` | payloads, models and formats of reports and media kits | pure operators |
| `ReportJobs` | one report or media kit with its jobs, callbacks and edits | detailed specification |
| `CampaignActions` | campaign actions under concurrent requests | detailed specification |
| `RecommendationDialogs` | the browser's two-step creation of an action | detailed specification |
| `CampaignData` | the bundle of a campaign and what the engine reads off it | pure operators |
| `CampaignAnalysis`, `ScoringEngine`, `MomentDetector`, `RecommendationEngine` | the four services of the engine | pure operators |
| `IntelligenceOrchestrator` | the composite diagnostic | pure operators |
| `CampaignIntelligence` | the life of a campaign and its diagnostics | composition |
| `BackendDependencies` | the call to the engine, readiness and health | detailed specification |
| `MC*` | values and symmetry for TLC | model checking |
| `*_proofs` | the theorems | proofs |

### ContentJobs

The threads are named: a job names the thread that submits it, workers serve callbacks,
operators retry. A database statement outside a transaction is one step. A product handler is
two: `BeginApply` is its reads (or, for a failure, the rows it locks), `CommitApply` the rest of
the transaction with everything it writes. Between them, other transactions may commit.

| Actions | Code |
|---|---|
| `BeginRequest`, `CommitRequest` | `create_content_pack_request`: the check of the balance, then the commit of request, usage and reservation |
| `OpenJob`, `AbandonOpening` | `_submit_content_generation_job` with `create_and_submit_external_job` |
| `SubmitDisabled`, `SubmitDryRun`, `SubmitUnresolved`, `SubmitPost`, `PostAnswered`, `PostTimedOut`, `PostFailed` | the branches of `_submit_job`, `_mark_failed`, `_mark_timeout`, `_propagate_submission_failure` |
| `SubmissionDies`, `WorkerDies`, `RendererDies` | the death of a process at any point, or an exception |
| `AcceptPost`, `LosePost`, `Execute` | `job.controller.ts`, `job.service.ts` |
| `ReceiveCallback`, `LoseAttempt`, `AttemptTimesOut` | `callback.client.ts` and the guards of `ExternalJobCallbackView.post` |
| `BeginApply`, `CommitApply` | `apply_content_generation_callback`, `_handle_success`, `_handle_failed`, `_upsert_output`, the credit calls and `apply_job_callback` |
| `CheckRetry`, `OpenRetry`, `AdminCancel` | `retry_external_job`, the admin action |

Data is kept to what the properties tell apart. An output is a member of a set; a row of
`ContentOutput` is who inserted it, its key, its status and whether it has its Asset. The parameters
`Required` and `Linked` say which outputs a pack requires and for which of them a template is
found; where they come from is `ContentDocument`. The keys of ledger entries, usage events and notifications are pairs of a movement and a
request, as the strings of the code are. All keys are unique in the database or looked up
before they are written, so sets of them lose nothing. What `Execute` renders is
one of the `Renderings`, any subset of the outputs; a throw and a render time-out are the empty one.

`ConsumeReserved` and `ReleaseReserved` are atomic here, as parts of a handler's
transaction. What they do inside is `CreditLedger`'s matter, and `UsesKeyedLedger` says that
`ContentJobs` relies on no more than the abstract ledger.

### ContentDocument

The payload of Django (`content/payloads.py`), what the renderer reads of it and reports
(`content-generation.renderer.ts`), and the template Django gives an output that comes back
(`_resolve_template`), as functions of a pack, a catalogue and what the workspace holds. An output is named by its
place in the job, which is the link of the pack it was asked for, or the default of its type when the
pack had no active template. No field of the contract carries the template of an output:
the renderer renders all with the primary template of the type of the pack and reports that key, which Django
does not find in its catalogue, so it goes by the type of the output. `MCContentJobs` gives `ContentJobs` the outputs of two
packs of `seeds.py`: the weekly one with an optional story, and the release pack with all its
templates archived, whose one default output still finds a template, an archived one.

### CreditLedger and KeyedLedger

Each transaction makes one movement, chosen in `Init`: one of the six services
(`consume_credits` counts twice, with and without `settle_reserved`), a key or none, an amount.
`ScreenReplay` and `ScreenBalance` are the look-up and the check in `reserve_credits` and
`consume_credits`; `LookUp`, `Price` and `Insert` are `_record_ledger_entry`; `Commit` and
`Rollback` end the caller's transaction. Reads see committed entries. An insert waits while
another open transaction holds its key, and then succeeds or finds the entry, as PostgreSQL does
for a unique index. `KeyedLedger` has the keys that have moved the balance and the balance; a
movement without a key is taken under the name of its transaction.

### CampaignActions

A session is a POST or PATCH in progress: it reads and validates (`Post`, `Patch`), looks for a
duplicate (`CheckDuplicate`), writes the row it read (`Write`, where the row lock and
the unique constraint bite), and commits with the transition asked for (`Commit`). `Abort` is an
exception or a crash. `Transition` is an endpoint, whose lock and re-read make it one step. A row
has its type, recommendation, status, and whether its two stamps and its reason are set.

### RecommendationDialogs

A dialog has the artefact made by one request and the action that links it registered by a second,
and nothing makes the two one. `dialog` is the mutation's state, `wire` the requests that are not
served, awaited by the browser or given up; requests given up that are alike are numbered, and the last is
served first, which nothing can tell. `LookUp`, `Submit`, `Retry`, `LookFinds`, `LookFindsNone`,
`LookFails` and `Close` are the dialog and its hook; `ServeArtifact`, `ServeRegister` and `ServeLink`
the endpoints; `Refuse` and `GiveUp` the ways a request ends for the browser, the second of which
leaves it to be served later. `SwitchWorkspace` unmounts the dialog, while what it has begun goes on with
the workspace and token the tab has then. `CreateBare` and `CloseAction` are other users of the API.
An action is here only what a dialog can tell of it (absent, active, closed, and its artefact); its
life is that of `CampaignActions`, whose `OneActiveAction` is the constraint `ServeRegister` meets.

### StripeSubscription and PlanQuota

A delivery is a transaction in steps: `Receive` (the look-up of the event), `Insert` (which waits while
another transaction holds the key), `ReadSubscription`, and `CommitSubscription` or `CommitOther`, which
write the row and the outcome of the event together. `Die` rolls it back. `BeginPlanChange` and
`CommitPlanChange` are `change_subscription_plan`, which saves the plan alone. `told` and `applied`
are history: what the last event written said and how often each was written.

`PlanQuota` extends it with creations under a limit: `Admit` counts, `ChooseSlug` names, `StoreCampaign` (or
`StoreFails`) and `StoreRequest` insert, `Meter` records the usage event of the month. All campaigns have
one name. A slug is the number appended to it, and `LastSlug` the last with which it fits its column: name and slug
are both of 255 characters, and `generate_unique_slug` appends without cutting. `Archive`,
`Unarchive` and `Delete` change what is counted, `NextMonth` the period. The limit in force is that of
the plan of the subscription, which Stripe and administrators change meanwhile.

### ReportDocument and ReportJobs

`ReportDocument` follows data through the three programs: `Payload` is what Django sends (by shape: text,
record, list, null), `ReportModel` and `MediaKitModel` what the renderer's models make of those shapes,
`HtmlReport`, `PdfReport` and the like what a format presents, `Render` the result when a format or
the storage fails. `ReportJobs` follows one entity. Its row is written by the creating request (the
whole metadata, read before), by handlers (the fields they change), and by edits (every field).
`CreateEntity`, `OpenJob`, `OpeningRaises`, `RefreshEntity` and `LinkJob` are the creating view and `_submit_external_job`;
`SubmitNothing`, `SubmitPost`, `PostAnswered`, `PostFails` and `SubmissionRaises` the submission;
`ResolveEntity` and `CommitHandler` a handler; `ReceiveCallback` the endpoint; then `RetryJob`, `AdminCancel`, `BeginEdit` and
`CommitEdit`. `SubmitPost` settles the document the renderer makes, which depends on nothing but the payload and shows
nowhere before it is delivered. An exception after the job exists leaves the job as it is, and the creating request notes it in the metadata it
has had since it created the row (`NoteSubmissionError`). A thread that dies takes no further step, which needs no action. The retry's check and
creation are one step. Of the metadata only the mark of a failure is kept.

The serializers leave `status`, `storage_asset` and `metadata` to the user, on POST and on PATCH, so `CreateEntity` and
`CommitEdit` save any row of `Written`: any status of the choices, any Asset of the workspace or none, any metadata.
The history field `claimed` says that a user wrote the status or the Asset and no job has said otherwise
since. Of such a row `ReadyHasFile` says nothing: a PATCH of `{"status": "completed"}` or `{"storage_asset":
null}` does show a ready report without a file. What it says is that jobs never make one, whatever stale row an edit or a handler saves.

### The engine

The four services are functions of a bundle and a raw reference date. A date is a number of days,
`NULL` what is absent and `INVALID` a reference that does not parse. Each rule of the code is an operator
of its name (`WeeklyGrowth`, `LowEngagement`, `Momentum`, `Risk`, ...), with the thresholds of
the source; texts and explanations are left out, codes of warnings kept. The words of a bundle (statuses and
types) are those of the Backend Core's models, which is where its builder takes them from; the schemas of the engine
would take any string. Of the clicks `CampaignData` keeps how many there were from each day on, and the three
counters of a bundle are differences of those. `Sorted` is `sorted` by the key of `_sorted`, which
tells any two findings apart: the element at a place is the one with so many before it. `Run` of
`IntelligenceOrchestrator` calls the four, each of which may raise. `CampaignIntelligence` composes
it with the rows the bundle is built from: statuses, links, visits, outputs, reports, kits and goals
change, days go by, and at any moment a diagnostic is asked for by the Backend Core (every section, a valid
date) or by another caller (sections left out, wrong counters, an invalid date).

Two things are simpler than the code. `_to_score` cuts every score to 0..100 once more, which is left out, so that
`TypeOK` shows that the rules stay in the range by themselves. And what several services read of a
bundle with a copy of one helper each (the release window, the report that is due, recent activity) is one definition of
`CampaignData`: the copies are alike today, and a change of one of them alone cannot be expressed, while
a change of a rule that uses them can.

### BackendDependencies

`GetObject`, `Run` and `Attempt` are `CampaignViewSet.intelligence`, the service behind it and one attempt of
the client, `Outcome` the map of `post_json` from what a server does (`up`, `sluggish`, `slow`, `down`,
`erroring`, `failing`, `rejecting`, `odd`, `cut`, `garbled`) to an answer or a class of failure. `failing` answers a POST with
a 5xx while its `/health` is well. `garbled` is no HTTP: `post_json` has no clause for that exception, so the view answers 500
(`uncaught`), and the probe, which catches everything, reports `unknown`. `Authenticate`, `Probe`, `Report` and
`Readiness` are the aggregated health report and the readiness endpoint. Services, the database and the
campaign change between any two steps, and the settings are any.

## 3. Runs

| Run | Instance | What it shows |
|---|---|---|
| `content` | 2 requests for the credits of 1, 2 jobs, 1 worker, 1 operator, every submission mode | credits are neither minted nor lost and move as the keyed ledger allows; they agree with outcomes, and results reach requests, across retries, cancellations and both jobs delivering |
| `content_live` | 1 job, 2 workers, 2 outputs, 3 attempts, every submission mode, fair | the send loop ends and handlers finish, however attempts time out, overlap or die; delivered outputs have Assets |
| `ledger` | 2 transactions, 1 key or none, amounts 1 and 2, fair | one entry per key, replays find their entry, the abstract ledger is implemented, no wait is for ever |
| `actions` | 2 actions, 3 types, 2 sessions | stamps agree with status, one action is active, decisions stand |
| `dialogs` | 2 dialogs, 2 actions, 2 artefacts each, 2 requests given up | no artefact is made twice unless a request reported as failed was served; a dialog that ends in success is linked |
| `stripe` | 3 events of 7 kinds, 2 servers, 2 plans | an event is written once with its log entry or not at all; the status is that of the last one written |
| `quota` | 3 rows, 2 slugs that fit, 2 requests at a time, a plan of one and one without limit, 2 months | the overshoot of a limit is bounded by the requests in flight; a creation that was let through fails only in a race or when all slugs that fit are taken |
| `reports` | 2 jobs, 2 workers, 3 deliveries, or 1 and an edit | one notification per outcome, no more Assets than workers, a file behind what a job made ready, a document that is faithful to what is held |
| `intelligence` | 4 campaigns, days 0, 12 and 45, 3 events | the four services agree with one another, name what they lack, and are not made worse by clicks |
| `dependencies` | 1 call, 1 retry, 2 changes, every deployment, fair | failures are classed and retried as documented, requests that nothing changed under agree on the database, a diagnostic is answered |
| `finding_charged`, `finding_stats` | small instances | see section 5 |

**The bounds.** Races on a request need two handlers: two workers on one job
(overlapping deliveries, `content_live`) or two jobs of one request (`content`). Two
requests for the credits of one are the least that can overdraw. Three attempts let one be lost, one
time out and one arrive. Two outputs, one of them required, give the partial results and both
branches of `_should_consume`. Two transactions are enough to contend for a key and two amounts to
tell whose came first. Two actions and two sessions hold each lock and each key against another. The
types `content_pack`, `mark_reviewed` and `dismiss` stand for the three ways `validate`
treats a type; `manual_task`, the type that needs no recommendation, is covered by the
proofs. Two dialogs race for one recommendation, and a second action lets the first be closed and
replaced. Three events give an order, a reordering and an overlap of two with one in between; the
seven kinds are the branches of the handler, `incomplete` standing for the statuses
`STRIPE_STATUS_MAP` does not know. Two creations at a limit of one overshoot it, and a third row is refused; under the plan without limit the third creation finds both slugs
that fit taken. An edit counts as two of `MaxWrites`, its read and its save, so that a delivery fits between
them; in the run it writes a ready status or none, any Asset, and no note (`UserStatuses`, `UserNotes`), in the proofs any. Days 0, 12
and 45 lie on both sides of each window of the rules (7, 14 and 30 days); visits come by 1, 19 and 981, so that clicks are just below
and exactly at the thresholds (20 and 1000). A list of one (`MaxItems`) is the least at which a row is cut off. One retry
has a first, a last and an only attempt, and two changes let a service go and come back.

No run has a constraint on states: each bound is a constant in a guard (`MaxEvents`, `MaxChanges`, `MaxEdits`,
`MaxWrites`, `UserStatuses`, `UserNotes`, `MaxArtifacts`, `MaxGivenUp`, `Months`), and `attempts` is bounded by the code itself.
Runs with `CHECK_DEADLOCK FALSE` are of systems that come to rest: all
requests made, all jobs done. `intelligence` and `dependencies` check for deadlock.

**Symmetry** is over workers, operators, jobs, requests, rows, servers, events, dialogs or sessions, in runs that
check invariants and step properties only.

**Fairness.** `ContentJobs!Fairness` is weak fairness of the threads that run a handler and of the
renderer's execution, sends and time-outs: a live thread goes on, a `fetch` settles or is aborted by
`AbortSignal.timeout`, a render ends by `with-timeout.ts`. Nothing says that a request is opened, a job
submitted, an operator acts or a POST arrives, and processes may always die.
In `CreditLedger` a transaction that runs goes on (weak), and one that waits at the unique key
is let in when it is free (strong: PostgreSQL queues waiters, so others that come and
go do not pass it for ever). Starting and rolling back are not assumed. In `BackendDependencies` a request
that was accepted goes on (weak), as each of its steps has a time-out; what the services do is free.

## 4. Proofs

The theorems hold for any number of requests, jobs, workers, operators, outputs, transactions,
keys, amounts, actions, recommendations, sessions, dialogs, requests given up, events, servers, plans,
rows, months, diagnostics, retries and changes, and for any campaign, bundle and reference date. Every
invariant and every action property of the runs is proved, and so is the refinement. What the theorems assume of
the constants is named in the modules:

| Assumption | Why the code justifies it |
|---|---|
| `ThreadAssumption`, `ReportThreads`, `NoneAssumption`, `KeyAssumption`, `UncountedAssumption` and the like | names of threads, rows and keys are told apart, from one another and from `NONE` |
| `NumberAssumption`, `AmountAssumption`, `RetryAssumption`, `LimitAssumption` | costs, credits and limits are natural numbers (`PositiveIntegerField`), amounts are positive, at least one attempt is made (`Math.max(1, ...)`) and retries are not negative |
| `KindAssumption`, `BodyAssumption`, `ModeAssumption`, `ReportHoldings`, `ReportNotes` | a constant that selects part of a domain stays within it, and `NULL` is no status |
| `LastSlugAssumption` | a name may leave room for any number of slugs, or for none |
| `OutputAssumption` | a job has an output, and what is required or finds a template is among its outputs: proved for every pack and catalogue (`PacksMeetOutputAssumption`) |
| `DayAssumption`, `CampaignAssumption`, `AbsentAssumption`, `ItemAssumption`, `EventAssumption` | days are natural numbers, of which a campaign sees finitely many; it starts with the words of its model; `None` is none of the values it stands for the absence of; a list that is sent has room for a row |
| `ReportWorkers`, `QuotaFinite` | a server has finitely many workers; a workspace has finitely many rows and plans, and some request is handled |

| Theorem | Says |
|---|---|
| `ContentJobs_proofs!TypeCorrect` | types, and that attempts never exceed `MaxAttempts` |
| `ContentJobs_proofs!CreditsCorrect` | `CreditsAccounted` |
| `ContentJobs_proofs!OutcomesCorrect` | `OutcomeSettlesCredits` |
| `ContentJobs_proofs!ResultsCorrect` | `ResultReachesRequest` |
| `ContentJobs_proofs!DeliveryCorrect` | `DeliveredOutputsHaveAssets` |
| `ContentJobs_proofs!UsesLedger` | every step of the product is one of the keyed ledger or leaves it alone |
| `ContentJobs_proofs!PacksMeetOutputAssumption` | no pack and no catalogue leaves a job without an output, or makes one required or linked that is not of the job |
| `ContentJobs_proofs!ExpectedOutputsAreLinked` | while a pack loses no link, every output it asked for finds a template, whatever becomes of the catalogue |
| `ContentJobs_proofs!TemplatesSurvive` | an output is given the template it was asked for, if the catalogue has no key of the renderer's registry and the pack one link of each type; the packs of `seeds.py` are such (`SeedsKeepTemplates`, which TLC evaluates) |
| `CreditLedger_proofs!TypeCorrect`, `KeysCorrect`, `ReplaysCorrect` | types, `OneEntryPerKey`, `ReplaysHaveEntries` |
| `CreditLedger_proofs!Implements` | the concurrent ledger implements the keyed one |
| `CampaignActions_proofs!TypeCorrect`, `StampsCorrect`, `OneActiveCorrect`, `DecisionsCorrect` | the four invariants of the module |
| `PlanQuota_proofs!StripeTypeCorrect`, `AppliedOnceCorrect`, `StatusCorrect` | types, `AppliedOnce`, `StatusTracksEvents` |
| `PlanQuota_proofs!QuotaTypeCorrect`, `QuotaOvershootCorrect` | types, `QuotaOvershootBounded` |
| `PlanQuota_proofs!RefusedOnlyByRaceOrLengthCorrect` | the action property `RefusedOnlyByRaceOrLength` |
| `ReportJobs_proofs!TypeCorrect`, `NotifiedOnceCorrect`, `ReadyHasFileCorrect`, `AssetsBounded`, `ToldMeansShownCorrect`, `SubmissionFailureNoted`, `DocumentsFaithfulCorrect` | the seven invariants of the run `reports` |
| `RecommendationDialogs_proofs!TypeCorrect`, `ArtifactsCorrect`, `SuccessCorrect` | types, `ArtifactsAccounted`, `SuccessIsRegistered` |
| `BackendDependencies_proofs!TypeCorrect`, `StatusCorrect`, `EndpointsCorrect` | types, `StatusMatchesFailures`, `EndpointsAgree` |
| `CampaignIntelligence_proofs!TypeCorrect`, `HealthCorrect`, `AdviceCorrect`, `NoActionCorrect`, `GapsCorrect` | types, `HealthBoundsRisk`, `AdviceHasMoment`, `NoActionMeansNothingUrgent`, `GapsAreNamed` |
| `CampaignIntelligence_proofs!KitCorrect`, `ClicksCorrect` | the action properties `GeneratedKitEndsAdvice`, `ClicksNeverHurt` |

`PlanQuota_proofs` holds the proofs about `StripeSubscription` as well, which its own rest on.

**ContentJobs.** None of the properties is inductive. A handler settles the reservation of
*the request of its job*, so the proof needs that a handler in progress has a job with a request
(`HandlersHaveJobs`), that the request exists (`RequestsExist`), and that one that exists
has its reservation (`LedgerFollowsRequests`). `AbsentJobs` says that what is not
created is not running either, and `AttemptsLeft` that the loop is never about to send without an
attempt left, which is what bounds `attempts`. `FiniteReservations` is there because
the balance counts reservations: with infinitely many requests each state still has finitely many.
A handler updates rows it has read and that another may have changed since; that no completed output
is without its file rests on `SeenHaveAssets`: a row that was read with an Asset is one whose output has an
Asset still, since none is ever taken away. The lemmas `SettleFacts`, `UpsertFacts` and `CommitFacts` say
once what the transaction of a handler does, and each conjunct has a step lemma of its own.

**CreditLedger.** `OneEntryPerKey` is kept by `Commit` only because whoever has inserted a key is
alone with it and no committed entry has it (`InsertedAlone`); that is what the wait in `Insert`
gives. `EntriesCommitted` makes transaction names usable as keys of keyless movements, which the refinement
needs.

**CampaignActions.** A stale row may be saved at any time, so the properties of the table
have to hold of rows in memory as well: `SessionsSound` says that of a row held by a request and
of the status it asks for. `WrittenAlone` says that whoever has written holds the action and the key alone.
From it and from the fact that an active status is reached from active ones only
(`ActiveFromActive`) follows that no commit makes a second active action.

**StripeSubscription.** `AppliedOnce` is inductive only with `DeliverySound`: a server that has inserted an
event is alone with it and the event is not in the log. So the commit finds the event unwritten and writes it
with its entry. That what is in the log was emitted keeps `told` and the bodies of events well formed.

**PlanQuota.** The overshoot is bounded by counting: what is counted against a limit and what was let through
and is not stored yet (`Pending`) together never exceed the largest limit by more than the requests there are,
less one (`CountedAndPending`). Admission adds one to the second and does so only below the limit, where the
others in flight are at most all but one; storing moves one from the second to the first. For packs the
first is counted month by month, and the bound has to hold of the months to come as well, since a request admitted
in one month may be stored in the next. `NamesFree` says that a chosen slug is free until another row is
stored, and `NamesFirst` that all numbers before it have rows, so that one too long for the column means that all that fit are
taken: together they are `RefusedOnlyByRaceOrLength`. Stripe's steps leave all of this alone, as the limits of
all plans are below the largest. The lemmas on counting are by the least counterexample (`NatMin`), which
takes the place of an induction.

**ReportJobs.** A thread may write a row back long after it read it. So what is said of the row of the entity has to
be said of every copy a thread or user holds (`RowsSound`): it links an Asset there is, and is not ready without
one unless a user said so. `AssetsFollowWorkers` counts: without edits the link is never lost, so once there is an Asset no worker
begins to create another, and the Assets and the workers about to create one are no more than the workers.
An edit may write back a row without its link, and the bound says nothing after one. `FailureNoted` follows the note of a failed submission through
the request that read the metadata before; that the request does not save its first copy over the note is because a submission
that has noted its failure is over, and cannot raise any more. `DocumentsFaithful` needs the payload of each job to be that of the
entity (`JobsFollowTheirRows`) and lemmas on what each format makes of it.

**RecommendationDialogs.** `ArtifactsSound` adds to the property where the dialog is: while it holds none, all
that was made for it went unseen. It is kept because a dialog awaits one request at most, of the kind its state
says (`AwaitedSound`). `SuccessIsRegistered` needs to know who can change a link: an action created with one keeps it
(`ActionsSound`), and one created without is linked by whoever found it last (`LinksSound`); a request that was
given up may still be served, which is why links that are asked for count like links that are made.

**BackendDependencies.** `CallSound` says what the failures of a diagnostic may be while it goes on and `Fits`
what they may be once it is answered, so that the property of the answer is kept by the attempt that ends it. A
report or diagnostic that ends while nothing has changed since it began (`Still`) was let in exactly if the database is up
(`HealthSound`, `CallStill`), which is what ties the endpoints to one another; a change makes the first false and asks nothing of the second. The proof
attempt showed that a `CASE` of the model had overlapping guards, of which TLA+ leaves the choice open while
Python takes the first: it, and the ones like it in the engine's modules, are chains of `IF` now.

**CampaignIntelligence.** The state says little: `IInv` is that the rows are those of a campaign and that an answer is
what the services say of the bundle it was asked with. What is hard is in the services, and the lemmas are about any
bundle. Each service reads the bundle with helpers of its own copy, so it is first shown that they read alike
(`AnalysisReads` and its like). The detector and the recommendations are then compared rule by rule: what makes one
of them speak makes the other (`AdviceHasMoment`), and where all recommendations are silent no moment is urgent
(`NoActionMeansNothingUrgent`, which needs the counters and the campaign the Backend Core always sends). Both are sorted
before they are sent: `SortedFacts` says that sorting by a strict total order loses and adds nothing, for which the place
of a finding is one more than the number of those before it, an injection of a finite set into `1..n`. The types rest on
every score being a mean of percentages (`RoundBounds`) over one of finitely many denominators (`Denominators`), as
scores that are not known have no weight. `ClicksNeverHurt` is monotonicity from end to end: a
visit adds no more to the clicks of a later day than to those of an earlier one (`VisitClicks`), so no counter of the bundle
sinks (`Busier`), no part of momentum falls and none of risk rises, and the grade follows by `RoundMonotone`.

The proof attempt changed the model in three places. The vocabulary of a bundle was that of all strings, about which
the prover knows nothing; it is that of the models now. Sorting and the mean of the known scores went through recursive
definitions of the library, and are an order of places and a sum of four terms now, which say the same.

**Model-checked only.** The liveness properties `CallbackLoopEnds`, `HandlersFinish`, `TransactionsEnd` and
`CallsAnswered`: fairness and `ENABLED` are out of the prover's reach.

## 5. Where the code and its documentation disagree

Two runs check one sentence of the repository each and find a behaviour of the code that
contradicts it; `PROJECT.json` quotes the sentences.

| Run | Behaviour |
|---|---|
| `finding_charged` | The POST times out, the request is failed and refunded; the renderer had received it and its result is applied, because `timeout` is not terminal. The consumption has delta zero, so the content is free. |
| `finding_stats` | Django sends `smart_link_stats` as a list and the report's model reads a record: no report shows the clicks. |

Other behaviours are exhibited by configurations that are not among the runs; `tlc -config X.cfg M` with the
module of its name prints each trace.

| Configuration | Violated | Behaviour |
|---|---|---|
| `MCContentJobsFindingAssets.cfg` | `AssetsOncePerOutput` | A callback times out in the renderer while a worker applies it; the next attempt reads no rows either, and both create rows and Assets. |
| `MCContentJobsFindingResults.cfg` | `ResultsStay` | A callback completes the job before the thread that submitted it has saved `submitted`, which then overwrites it. |
| `MCContentJobsFindingRetry.cfg` | `RetryableIsNotActive` | `timeout` is retryable and not terminal, so a retry finds the timed-out job active and returns it. |
| `MCContentJobsFindingOverdraft.cfg` | `BalanceNotNegative` | Two requests check the balance before either reserves; both reserve. |
| `MCCampaignActionsFinding.cfg` | `TerminalStays` | A PATCH read a pending action; the action is completed; the PATCH saves all fields and it is pending again. |
| `MCReportJobsFindingMark.cfg` | `FailureDiagnosable` | The callback that fails a media kit comes between the refresh and the save of its metadata, which then drops the mark of the failure. |
| `BackendDependenciesFinding.cfg` | `HealthAlwaysReports` | With the database away the health report, whose own permission check reads it, answers 500 rather than its 200. |

`OutcomeSettlesCredits` and `ResultReachesRequest` hold in spite of these: what is broken is exclusivity
and order, not the agreement of the outcome with the ledger. `ResultReachesRequest` exempts the
submission thread that died between saving the job and failing the request: that
request waits for ever, and nothing in the code looks for it again.

`ReportDocument` holds more data that does not arrive: Django sends `related_outputs` and the
report's model counts `outputs`, a count that no format prints. A media kit without an artist to
send fails validation and never has a document.

## 6. What is not modelled

* Workspaces, members, roles, accounts: rows and permission checks that are functions of a role;
  tokens are those of a library.
* The session of the frontend beyond what a dialog meets of it: restoring and refreshing a
  session, the query cache, and the pages. Dismissals (`useRecommendationDecision`) are one request.
* Click attribution of smart links by platform and content output, catalogue rows, feature flags and seeds.
* Edits of rows in the Django admin, except the cancellation of jobs and the change of plan; signatures of
  webhooks, which change nothing when they are wrong.
* Sections of a report, which no job sends. Deletion of reports, of media kits and of Assets, and edits of the campaign, artist
  or track of one, which leave the payload of its jobs as it was.
* An exception between the creation of a job reference and the save of its envelope, which leaves a job without a payload.
* Deadlocks of row locks: a handler takes its locks in one step, so two that take them in different orders do not
  meet halfway. PostgreSQL would end one of the two, which is the death of a handler (`WorkerDies`, `HandlerDies`).
* Permissions, validation of fields, serialisation, text, layout and logging: no state of
  several actors depends on them.
* The audit trail, which is written and never read by the program.
* Isolation levels other than PostgreSQL's default; the settings of the repository change none.
* More than one renderer process. A second one would share nothing with the first.

## 7. Plan

What is left, in this order.

1. The storage of the renderer: keys of files and time-outs of single formats, refining the choice of
   `Renderings`.
2. The session of the frontend: requests in flight over its end and a new log-in.
