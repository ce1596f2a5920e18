---------------------------- MODULE ContentJobs ----------------------------
(***************************************************************************)
(* Content generation, end to end: a content pack request reserves         *)
(* credits, a Django thread opens an external job and POSTs it to the      *)
(* Content Renderer, the renderer renders and calls back, and a Django     *)
(* worker applies the callback to the request, its outputs, the credit     *)
(* ledger and the job.  Operators retry jobs and cancel them.              *)
(*                                                                         *)
(* Three kinds of threads write the same rows: the submission thread of a  *)
(* job, named by the job; the callback workers; and the operators.  Every  *)
(* database statement outside a transaction is a step.  A transaction of a *)
(* handler is two: BeginApply reads the outputs, CommitApply writes        *)
(* everything (PostgreSQL at READ COMMITTED, Django's default).            *)
(***************************************************************************)
EXTENDS Integers, FiniteSets, JobStatus

CONSTANTS
    Requests,      \* content pack requests
    Jobs,          \* external job references, each with its submission thread
    Workers,       \* Django workers that serve the callback endpoint
    Operators,     \* people at a shell who call retry_external_job
    Outputs,       \* the outputs one job renders
    Required,      \* those the pack marks required
    Linked,        \* those whose template Django can resolve
    Cost,          \* metadata.credit_cost of the pack
    Credits,       \* the credits granted to the workspace
    MaxAttempts,   \* CALLBACK_MAX_ATTEMPTS
    SubmitModes,   \* how a submission may go: EXTERNAL_JOBS_* and the registry
    NONE

ASSUME ThreadAssumption ==
    /\ Jobs \cap Workers = {}
    /\ NONE \notin Requests \cup Jobs \cup Workers
ASSUME OutputAssumption ==
    /\ Outputs # {}
    /\ Required \subseteq Outputs
    /\ Linked \subseteq Outputs
ASSUME NumberAssumption ==
    /\ Cost \in Nat
    /\ Credits \in Nat
    /\ MaxAttempts \in Nat \ {0}
ASSUME ModeAssumption ==
    SubmitModes \subseteq {"live", "dry_run", "disabled", "unresolved"}

VARIABLES
    (* the database *)
    request,       \* request[r]: ContentPackRequest.status
    rows,          \* rows[r]: the ContentOutputs of r
    assets,        \* assets[r][o]: the Assets created for output o of r
    ledger,        \* the keyed CreditLedgerEntries of the requests
    balance,       \* the available credits
    usage,         \* the keyed UsageEvents of the requests
    notices,       \* the notifications of the requests, by event
    status,        \* status[j]: ExternalJobReference.status
    entity,        \* entity[j]: ExternalJobReference.related_entity_id
    (* Django threads *)
    creating,      \* requests whose transaction has checked the balance
    opening,       \* requests committed whose job is still to be opened
    submit,        \* submit[j]: where the submission thread of j is
    handler,       \* handler[t]: the product handler thread t runs
    operator,      \* operator[p]: the request p is opening a retry for
    (* the Content Renderer and the network *)
    post,          \* post[j]: the POST /jobs/ of j
    render,        \* render[j]: where the renderer is with j
    good,          \* good[j]: the outputs rendered for j
    attempts,      \* attempts[j]: callback attempts made for j
    awaiting       \* awaiting[j]: the worker the renderer waits on

productVars == <<request, rows, assets, ledger, balance, usage, notices>>
jobVars == <<status, entity>>
openVars == <<creating, opening>>
rendererVars == <<post, render, good, attempts, awaiting>>
vars == <<productVars, jobVars, openVars, submit, handler, operator, rendererVars>>

-----------------------------------------------------------------------------
(* Types *)

Threads == Jobs \cup Workers

RequestStatuses == {"absent", "queued", "completed", "partially_completed", "failed"}

\* A ContentOutput: the thread that inserted it, its external_output_key, its
\* status and whether it has a storage_asset.
Row == [by: Threads, output: Outputs, status: {"completed", "failed"}, asset: BOOLEAN]

LedgerKeys == {"reserve", "consume", "release"} \X Requests
UsageKeys == {"requested", "generated"} \X Requests
NoticeKeys == {"content_pack_ready", "content_pack_failed"} \X Requests

\* A product handler in progress: the job it is for, the status it is to apply and
\* the outputs its transaction has read (or, when it fails the request, locked).
HandlerStates ==
    [phase: {"idle", "guarded", "applying"}, job: Jobs \cup {NONE},
     new: JobStatuses \cup {NONE}, seen: SUBSET Row]

IDLE == [phase |-> "idle", job |-> NONE, new |-> NONE, seen |-> {}]

TypeOK ==
    /\ request \in [Requests -> RequestStatuses]
    /\ rows \in [Requests -> SUBSET Row]
    /\ assets \in [Requests -> [Outputs -> Nat]]
    /\ ledger \subseteq LedgerKeys
    /\ balance \in Int
    /\ usage \subseteq UsageKeys
    /\ notices \subseteq NoticeKeys
    /\ status \in [Jobs -> JobStatuses \cup {"absent"}]
    /\ entity \in [Jobs -> Requests \cup {NONE}]
    /\ creating \subseteq Requests
    /\ opening \subseteq Requests
    /\ submit \in [Jobs -> {"none", "created", "posting", "propagating", "done", "dead"}]
    /\ handler \in [Threads -> HandlerStates]
    /\ operator \in [Operators -> Requests \cup {NONE}]
    /\ post \in [Jobs -> {"none", "inflight", "gone"}]
    /\ render \in [Jobs -> {"none", "accepted", "reporting", "waiting",
                            "finished", "gaveup", "lost"}]
    /\ good \in [Jobs -> SUBSET Outputs]
    /\ attempts \in [Jobs -> 0..MaxAttempts]
    /\ awaiting \in [Jobs -> Workers \cup {NONE}]

Init ==
    /\ request = [r \in Requests |-> "absent"]
    /\ rows = [r \in Requests |-> {}]
    /\ assets = [r \in Requests |-> [o \in Outputs |-> 0]]
    /\ ledger = {}
    /\ balance = Credits
    /\ usage = {}
    /\ notices = {}
    /\ status = [j \in Jobs |-> "absent"]
    /\ entity = [j \in Jobs |-> NONE]
    /\ creating = {}
    /\ opening = {}
    /\ submit = [j \in Jobs |-> "none"]
    /\ handler = [t \in Threads |-> IDLE]
    /\ operator = [p \in Operators |-> NONE]
    /\ post = [j \in Jobs |-> "none"]
    /\ render = [j \in Jobs |-> "none"]
    /\ good = [j \in Jobs |-> {}]
    /\ attempts = [j \in Jobs |-> 0]
    /\ awaiting = [j \in Jobs |-> NONE]

-----------------------------------------------------------------------------
(* Opening a request and its job *)

\* find_active_job: the jobs of r's idempotency key that are not terminal.
ActiveJobs(r) == {j \in Jobs : entity[j] = r /\ status[j] \notin TERMINAL_STATUSES}

\* The reference is created, queued, before any call to the service.
NewJob(j, r) ==
    /\ status[j] = "absent"
    /\ status' = [status EXCEPT ![j] = "queued"]
    /\ entity' = [entity EXCEPT ![j] = r]
    /\ submit' = [submit EXCEPT ![j] = "created"]

\* create_content_pack_request's transaction, up to the check of the balance: it sums
\* the entries committed so far and locks nothing.
BeginRequest(r) ==
    /\ request[r] = "absent"
    /\ r \notin creating
    /\ Cost > 0 => balance >= Cost
    /\ creating' = creating \cup {r}
    /\ UNCHANGED <<productVars, jobVars, opening, submit, handler, operator, rendererVars>>

\* The commit: the request, its usage event and the reservation together.  A transaction
\* that is refused or dies rolls back and leaves no request: it just never gets here.
CommitRequest(r) ==
    /\ r \in creating
    /\ creating' = creating \ {r}
    /\ request' = [request EXCEPT ![r] = "queued"]
    /\ usage' = usage \cup {<<"requested", r>>}
    /\ ledger' = IF Cost > 0 THEN ledger \cup {<<"reserve", r>>} ELSE ledger
    /\ balance' = balance - Cost
    /\ opening' = opening \cup {r}
    /\ UNCHANGED <<rows, assets, notices, jobVars, submit, handler, operator, rendererVars>>

\* After the commit: the job of the request.
OpenJob(r, j) ==
    /\ r \in opening
    /\ opening' = opening \ {r}
    /\ ActiveJobs(r) = {}
    /\ NewJob(j, r)
    /\ UNCHANGED <<productVars, creating, handler, operator, rendererVars>>

\* The process dies before the job is opened, or building the payload raises: the
\* error is noted on the request and nothing else is done.
AbandonOpening(r) ==
    /\ r \in opening
    /\ opening' = opening \ {r}
    /\ UNCHANGED <<productVars, creating, jobVars, submit, handler, operator, rendererVars>>

-----------------------------------------------------------------------------
(* The submission thread of a job *)

\* Mutant: the outcome is left on the job only.
MarkWithoutHandler(j, outcome) ==
    /\ status' = [status EXCEPT ![j] = outcome]
    /\ submit' = [submit EXCEPT ![j] = "propagating"]
    /\ UNCHANGED handler

\* The thread leaves its outcome on the job and runs the product handler for it.
MarkSubmission(j, outcome) ==
    /\ status' = [status EXCEPT ![j] = outcome]
    /\ submit' = [submit EXCEPT ![j] = "propagating"]
    /\ handler' = [handler EXCEPT ![j] =
                     [phase |-> "guarded", job |-> j, new |-> outcome, seen |-> {}]]

SubmitDisabled(j) ==
    /\ submit[j] = "created"
    /\ "disabled" \in SubmitModes
    /\ submit' = [submit EXCEPT ![j] = "done"]
    /\ UNCHANGED <<productVars, jobVars, openVars, handler, operator, rendererVars>>

SubmitDryRun(j) ==
    /\ submit[j] = "created"
    /\ "dry_run" \in SubmitModes
    /\ submit' = [submit EXCEPT ![j] = "done"]
    /\ status' = [status EXCEPT ![j] = "submitted"]
    /\ UNCHANGED <<productVars, entity, openVars, handler, operator, rendererVars>>

SubmitUnresolved(j) ==
    /\ submit[j] = "created"
    /\ "unresolved" \in SubmitModes
    /\ MarkSubmission(j, "failed")
    /\ UNCHANGED <<productVars, entity, openVars, operator, rendererVars>>

SubmitPost(j) ==
    /\ submit[j] = "created"
    /\ "live" \in SubmitModes
    /\ submit' = [submit EXCEPT ![j] = "posting"]
    /\ post' = [post EXCEPT ![j] = "inflight"]
    /\ UNCHANGED <<productVars, jobVars, openVars, handler, operator,
                   render, good, attempts, awaiting>>

\* The 202 arrives: SUBMITTED is saved over whatever the row holds by now.
PostAnswered(j) ==
    /\ submit[j] = "posting"
    /\ render[j] # "none"
    /\ status' = [status EXCEPT ![j] = "submitted"]
    /\ submit' = [submit EXCEPT ![j] = "done"]
    /\ UNCHANGED <<productVars, entity, openVars, handler, operator, rendererVars>>

\* No answer in time; the POST may have been received, or may be yet.
PostTimedOut(j) ==
    /\ submit[j] = "posting"
    /\ MarkSubmission(j, "timeout")
    /\ UNCHANGED <<productVars, entity, openVars, operator, rendererVars>>

\* Refused, unreachable, an HTTP error, or a connection reset after the body left.
PostFailed(j) ==
    /\ submit[j] = "posting"
    /\ MarkSubmission(j, "failed")
    /\ UNCHANGED <<productVars, entity, openVars, operator, rendererVars>>

\* The thread dies, or its handler raises and the exception is swallowed.
SubmissionDies(j) ==
    /\ submit[j] \in {"created", "posting", "propagating"}
    /\ submit' = [submit EXCEPT ![j] = "dead"]
    /\ handler' = [handler EXCEPT ![j] = IDLE]
    /\ UNCHANGED <<productVars, jobVars, openVars, operator, rendererVars>>

-----------------------------------------------------------------------------
(* The product handlers: apply_content_generation_callback *)

RequestOf(t) == entity[handler[t].job]
Failing(t) == handler[t].new \in FAILURE_STATUSES
SameRow(x, y) == x.by = y.by /\ x.output = y.output

\* Mutant: the outputs a successful handler only read are locked, too.
LockedByReaders(t) ==
    UNION {handler[u].seen : u \in {v \in Threads \ {t} :
              handler[v].phase = "applying" /\ RequestOf(v) = RequestOf(t)}}

\* The outputs another failing handler of the request has updated, uncommitted.
LockedRows(t) ==
    UNION {handler[u].seen : u \in {v \in Threads \ {t} :
              /\ handler[v].phase = "applying"
              /\ Failing(v)
              /\ RequestOf(v) = RequestOf(t)}}

Blocked(t, touched) == \E x \in touched, y \in LockedRows(t) : SameRow(x, y)

\* The transaction begins: _handle_success reads the outputs the request has;
\* _handle_failed updates, so locks, those that are not failed yet.
BeginApply(t) ==
    /\ handler[t].phase = "guarded"
    /\ LET r == RequestOf(t)
           unfailed == {x \in rows[r] : x.status # "failed"}
       IN  /\ Failing(t) => ~Blocked(t, unfailed)
           /\ handler' = [handler EXCEPT ![t].phase = "applying",
                             ![t].seen = IF Failing(t) THEN unfailed ELSE rows[r]]
    /\ UNCHANGED <<productVars, jobVars, openVars, submit, operator, rendererVars>>

\* _should_consume.
ShouldConsume(new, rendered) ==
    \/ new = "completed"
    \/ (IF Required # {} THEN Required ELSE Outputs) \cap rendered # {}

\* Mutant: a reservation that was released is not consumed.
ConsumeUnlessReleased(r) ==
    /\ ledger' = IF <<"release", r>> \in ledger THEN ledger
                 ELSE ledger \cup {<<"consume", r>>}
    /\ UNCHANGED balance

\* Mutant: consuming deducts what reserving has deducted already.
ConsumeAndDeduct(r) ==
    /\ ledger' = ledger \cup {<<"consume", r>>}
    /\ balance' = balance - Cost

\* consume_credits(settle_reserved=True): an entry with delta zero.
ConsumeReserved(r) ==
    /\ ledger' = ledger \cup {<<"consume", r>>}
    /\ UNCHANGED balance

\* Mutant: a second release of the key gives the credits back again.
ReleaseAgain(r) ==
    /\ ledger' = ledger \cup {<<"release", r>>}
    /\ balance' = balance + Cost

\* release_reserved_credits: the key makes a second release a no-op.
ReleaseReserved(r) ==
    IF <<"release", r>> \in ledger
    THEN UNCHANGED <<ledger, balance>>
    ELSE /\ ledger' = ledger \cup {<<"release", r>>}
         /\ balance' = balance + Cost

SettleCredits(r, consume) ==
    CASE Cost = 0 -> UNCHANGED <<ledger, balance>>
      [] Cost > 0 /\ consume -> ConsumeReserved(r)
      [] Cost > 0 /\ ~consume -> ReleaseReserved(r)

\* _upsert_output for every output of the result: the row found for its key when
\* the transaction began is saved whole, with the fields it had then; a key with
\* no row gets a new one, unless no template resolves for it.
SeenOutputs(t) == {x.output : x \in handler[t].seen}

Choices(t) ==
    {f \in [SeenOutputs(t) -> handler[t].seen] :
        \A o \in SeenOutputs(t) : f[o].output = o}

\* Mutant: every output takes the status of the job.
OutputStatusOfJob(rendered, o) == IF rendered # {} THEN "completed" ELSE "failed"

OutputStatus(rendered, o) == IF o \in rendered THEN "completed" ELSE "failed"

NewAssets(rendered, f) ==
    {o \in rendered : IF o \in DOMAIN f THEN ~f[o].asset ELSE o \in Linked}

UpsertOutputs(t, rendered, f) ==
    LET r == RequestOf(t)
        kept == {x \in rows[r] : \A o \in DOMAIN f : ~SameRow(x, f[o])}
        saved == {[f[o] EXCEPT !.status = OutputStatus(rendered, o),
                               !.asset = @ \/ o \in rendered] : o \in DOMAIN f}
        inserted == {[by |-> t, output |-> o, status |-> OutputStatus(rendered, o),
                      asset |-> o \in rendered] : o \in Linked \ DOMAIN f}
    IN  /\ rows' = [rows EXCEPT ![r] = kept \cup saved \cup inserted]
        /\ assets' = [assets EXCEPT ![r] = [o \in Outputs |->
                        @[o] + IF o \in NewAssets(rendered, f) THEN 1 ELSE 0]]

HandleSuccess(t) ==
    LET r == RequestOf(t)
        new == handler[t].new
        rendered == good[handler[t].job]
    IN  \E f \in Choices(t) :
          LET produced == rendered \cap (DOMAIN f \cup Linked) # {}
          IN  /\ ~Blocked(t, {f[o] : o \in DOMAIN f})
              /\ UpsertOutputs(t, rendered, f)
              /\ SettleCredits(r, ShouldConsume(new, rendered))
              /\ usage' = IF produced THEN usage \cup {<<"generated", r>>} ELSE usage
              /\ request' = [request EXCEPT ![r] =
                    IF new = "partially_completed" THEN new ELSE "completed"]
              /\ notices' = notices \cup
                    {<<IF produced THEN "content_pack_ready" ELSE "content_pack_failed", r>>}

HandleFailed(t) ==
    LET r == RequestOf(t)
        hit(x) == \E y \in handler[t].seen : SameRow(x, y)
    IN  /\ rows' = [rows EXCEPT ![r] =
                      {IF hit(x) THEN [x EXCEPT !.status = "failed"] ELSE x : x \in @}]
        /\ SettleCredits(r, FALSE)
        /\ request' = [request EXCEPT ![r] = "failed"]
        /\ notices' = notices \cup {<<"content_pack_failed", r>>}
        /\ UNCHANGED <<assets, usage>>

\* The renderer that waits on worker t has its 200.
Answered(t, j) == awaiting[j] = t

\* The rest of the transaction, apply_job_callback, and the commit.  A submission
\* thread is done; a worker answers the renderer, if it still waits.
CommitApply(t) ==
    /\ handler[t].phase = "applying"
    /\ \/ Failing(t) /\ HandleFailed(t)
       \/ ~Failing(t) /\ HandleSuccess(t)
    /\ status' = [status EXCEPT ![handler[t].job] = handler[t].new]
    /\ handler' = [handler EXCEPT ![t] = IDLE]
    /\ submit' = IF t \in Jobs THEN [submit EXCEPT ![t] = "done"] ELSE submit
    /\ render' = [j \in Jobs |-> IF Answered(t, j) THEN "finished" ELSE render[j]]
    /\ awaiting' = [j \in Jobs |-> IF Answered(t, j) THEN NONE ELSE awaiting[j]]
    /\ UNCHANGED <<entity, openVars, operator, post, good, attempts>>

-----------------------------------------------------------------------------
(* The renderer, and the callback endpoint *)

AcceptPost(j) ==
    /\ post[j] = "inflight"
    /\ post' = [post EXCEPT ![j] = "gone"]
    /\ render' = [render EXCEPT ![j] = "accepted"]
    /\ UNCHANGED <<productVars, jobVars, openVars, submit, handler, operator,
                   good, attempts, awaiting>>

\* The POST is lost on the way, or declined: no job, no callback.
LosePost(j) ==
    /\ post[j] = "inflight"
    /\ post' = [post EXCEPT ![j] = "gone"]
    /\ UNCHANGED <<productVars, jobVars, openVars, submit, handler, operator,
                   render, good, attempts, awaiting>>

\* What the renderer makes of the outputs asked for: each is rendered and stored, or fails by
\* itself without failing the others. A throw, or a render that times out, leaves none.
Renderings == SUBSET Outputs

\* executeJob: each output renders or fails; a throw or a render timeout fails all.
Execute(j) ==
    /\ render[j] = "accepted"
    /\ \E g \in Renderings : good' = [good EXCEPT ![j] = g]
    /\ render' = [render EXCEPT ![j] = "reporting"]
    /\ UNCHANGED <<productVars, jobVars, openVars, submit, handler, operator,
                   post, attempts, awaiting>>

\* The status of the callback, from the outputs rendered.
RenderStatus(rendered) ==
    CASE rendered = {} -> "failed"
      [] rendered = Outputs -> "completed"
      [] OTHER -> "partially_completed"

\* Mutant: one attempt too many.
NextAttemptOffByOne(made) == IF made <= MaxAttempts THEN "reporting" ELSE "gaveup"

\* What the client does after an attempt that got no answer: retry, or give up.
NextAttempt(made) == IF made < MaxAttempts THEN "reporting" ELSE "gaveup"

\* An attempt reaches worker w, which reads the job and applies the view's guards:
\* the same status is a 200 no-op, another terminal one a 409, and neither is
\* retried; otherwise w goes on to the handler with the job it has read.
ReceiveCallback(j, w) ==
    /\ render[j] = "reporting"
    /\ handler[w] = IDLE
    /\ attempts' = [attempts EXCEPT ![j] = @ + 1]
    /\ LET new == RenderStatus(good[j])
       IN  IF status[j] = new \/ status[j] \in TERMINAL_STATUSES
           THEN /\ render' = [render EXCEPT ![j] = "finished"]
                /\ UNCHANGED <<handler, awaiting>>
           ELSE /\ render' = [render EXCEPT ![j] = "waiting"]
                /\ awaiting' = [awaiting EXCEPT ![j] = w]
                /\ handler' = [handler EXCEPT ![w] =
                     [phase |-> "guarded", job |-> j, new |-> new, seen |-> {}]]
    /\ UNCHANGED <<productVars, jobVars, openVars, submit, operator, post, good>>

\* A network error, or a 5xx from a proxy: the attempt never reached a worker.
LoseAttempt(j) ==
    /\ render[j] = "reporting"
    /\ attempts' = [attempts EXCEPT ![j] = @ + 1]
    /\ render' = [render EXCEPT ![j] = NextAttempt(attempts[j] + 1)]
    /\ UNCHANGED <<productVars, jobVars, openVars, submit, handler, operator,
                   post, good, awaiting>>

\* Mutant: an attempt that timed out does not count.
TimedOutIsNotCounted(j) ==
    /\ render[j] = "waiting"
    /\ render' = [render EXCEPT ![j] = "reporting"]
    /\ attempts' = [attempts EXCEPT ![j] = @ - 1]
    /\ awaiting' = [awaiting EXCEPT ![j] = NONE]
    /\ UNCHANGED <<productVars, jobVars, openVars, submit, handler, operator, post, good>>

\* CALLBACK_TIMEOUT_SECONDS pass while the worker is still at it.
AttemptTimesOut(j) ==
    /\ render[j] = "waiting"
    /\ render' = [render EXCEPT ![j] = NextAttempt(attempts[j])]
    /\ awaiting' = [awaiting EXCEPT ![j] = NONE]
    /\ UNCHANGED <<productVars, jobVars, openVars, submit, handler, operator,
                   post, good, attempts>>

\* A worker dies or its handler raises: the transaction rolls back and the renderer,
\* if it still waits, sees a 500 or a reset.
WorkerDies(w) ==
    /\ handler[w] # IDLE
    /\ handler' = [handler EXCEPT ![w] = IDLE]
    /\ render' = [j \in Jobs |->
                    IF Answered(w, j) THEN NextAttempt(attempts[j]) ELSE render[j]]
    /\ awaiting' = [j \in Jobs |-> IF Answered(w, j) THEN NONE ELSE awaiting[j]]
    /\ UNCHANGED <<productVars, jobVars, openVars, submit, operator, post, good, attempts>>

\* The renderer keeps accepted jobs in memory only.
UNFINISHED == {"accepted", "reporting", "waiting"}

RendererDies ==
    /\ \E j \in Jobs : render[j] \in UNFINISHED
    /\ render' = [j \in Jobs |-> IF render[j] \in UNFINISHED THEN "lost" ELSE render[j]]
    /\ awaiting' = [j \in Jobs |-> NONE]
    /\ UNCHANGED <<productVars, jobVars, openVars, submit, handler, operator,
                   post, good, attempts>>

-----------------------------------------------------------------------------
(* Operators *)

\* retry_external_job up to find_active_job.  When an active job is found, it is
\* returned and nothing is done; a job in TIMEOUT finds itself.
CheckRetry(p, j) ==
    /\ operator[p] = NONE
    /\ status[j] \in RETRYABLE_STATUSES
    /\ ActiveJobs(entity[j]) = {}
    /\ operator' = [operator EXCEPT ![p] = entity[j]]
    /\ UNCHANGED <<productVars, jobVars, openVars, submit, handler, rendererVars>>

\* The rest of retry_external_job: a new job of the same entity and key.
OpenRetry(p, j) ==
    /\ operator[p] # NONE
    /\ NewJob(j, operator[p])
    /\ operator' = [operator EXCEPT ![p] = NONE]
    /\ UNCHANGED <<productVars, openVars, handler, rendererVars>>

\* The admin action: one UPDATE of the job, and of nothing else.
AdminCancel(j) ==
    /\ status[j] \notin TERMINAL_STATUSES \cup {"absent"}
    /\ status' = [status EXCEPT ![j] = "cancelled"]
    /\ UNCHANGED <<productVars, entity, openVars, submit, handler, operator, rendererVars>>

-----------------------------------------------------------------------------
SubmissionStep(j) ==
    \/ SubmitDisabled(j)
    \/ SubmitDryRun(j)
    \/ SubmitUnresolved(j)
    \/ SubmitPost(j)
    \/ PostAnswered(j)
    \/ PostTimedOut(j)
    \/ PostFailed(j)
    \/ SubmissionDies(j)

RendererStep(j) ==
    \/ AcceptPost(j)
    \/ LosePost(j)
    \/ Execute(j)
    \/ \E w \in Workers : ReceiveCallback(j, w)
    \/ LoseAttempt(j)
    \/ AttemptTimesOut(j)

OperatorStep(j) ==
    \/ \E p \in Operators : CheckRetry(p, j) \/ OpenRetry(p, j)
    \/ AdminCancel(j)

Next ==
    \/ \E r \in Requests : BeginRequest(r) \/ CommitRequest(r) \/ AbandonOpening(r)
    \/ \E r \in Requests, j \in Jobs : OpenJob(r, j)
    \/ \E j \in Jobs : SubmissionStep(j) \/ RendererStep(j) \/ OperatorStep(j)
    \/ \E t \in Threads : BeginApply(t) \/ CommitApply(t)
    \/ \E w \in Workers : WorkerDies(w)
    \/ RendererDies

Spec == Init /\ [][Next]_vars

\* A live thread runs on, and so does the renderer's send loop: an attempt is sent
\* or fails, and a wait ends by CALLBACK_TIMEOUT_SECONDS.
Fairness ==
    /\ \A t \in Threads : WF_vars(BeginApply(t)) /\ WF_vars(CommitApply(t))
    /\ \A j \in Jobs :
         /\ WF_vars(Execute(j))
         /\ WF_vars(LoseAttempt(j) \/ \E w \in Workers : ReceiveCallback(j, w))
         /\ WF_vars(AttemptTimesOut(j))

FairSpec == Spec /\ Fairness

-----------------------------------------------------------------------------
(* Properties *)

Reserved == {r \in Requests : <<"reserve", r>> \in ledger}
Consumed == {r \in Requests : <<"consume", r>> \in ledger}
Released == {r \in Requests : <<"release", r>> \in ledger}

\* Credits are neither minted nor lost: the available balance is what was granted less
\* one cost for every reservation not released, and only a reservation is consumed or
\* released, however many jobs, callbacks and failures a request sees.
CreditsAccounted ==
    /\ balance = Credits - Cost * (Cardinality(Reserved) - Cardinality(Released))
    /\ Consumed \cup Released \subseteq Reserved

\* What a movement of the ledger is worth.
EntryAmount(k) ==
    CASE k[1] = "reserve" -> -Cost
      [] k[1] = "consume" -> 0
      [] k[1] = "release" -> Cost

Keyed == INSTANCE KeyedLedger WITH
    Keys <- LedgerKeys,
    Worth <- [k \in LedgerKeys |-> {EntryAmount(k)}],
    Opening <- Credits,
    applied <- ledger

\* No step of the product moves credits but by the first movement of one key and by what
\* that movement is worth: the product uses the ledger as KeyedLedger promises it.
UsesKeyedLedger == Keyed!Spec

\* Every outcome of a request settled its reservation: a completed request was charged,
\* a failed one had its credits returned, and a partial one had one or the other.
OutcomeSettlesCredits ==
    Cost > 0 =>
      \A r \in Requests :
        /\ request[r] = "completed" => r \in Consumed
        /\ request[r] = "failed" => r \in Released
        /\ request[r] = "partially_completed" => r \in Consumed \cup Released

\* A result a job shows has reached its request: a job with a successful or failed
\* status never belongs to a request that still waits, unless its own submission thread
\* is about to fail the request or died before it could.
ResultReachesRequest ==
    \A j \in Jobs :
      /\ status[j] \in SUCCESS_STATUSES => request[entity[j]] # "queued"
      /\ status[j] \in {"failed", "timeout"} =>
           \/ request[entity[j]] # "queued"
           \/ handler[j].phase # "idle"
           \/ submit[j] = "dead"

\* A customer never sees a completed output without its file, nor hears that a pack is
\* ready before an Asset exists for it: this across partial results, retries and the
\* whole-row saves of handlers that work from stale rows.
DeliveredOutputsHaveAssets ==
    \A r \in Requests :
      /\ \A x \in rows[r] : x.status = "completed" => x.asset
      /\ \A x \in rows[r] : x.asset => assets[r][x.output] > 0
      /\ <<"content_pack_ready", r>> \in notices => \E o \in Outputs : assets[r][o] > 0

\* The renderer's send loop always ends, by an answer, by running out of attempts or by
\* the renderer's death: it never waits for ever.
CallbackLoopEnds ==
    \A j \in Jobs : render[j] \in UNFINISHED ~> render[j] \in {"finished", "gaveup", "lost"}

\* No handler waits for ever, the locks of other handlers of its request included.
HandlersFinish ==
    \A t \in Threads : handler[t].phase # "idle" ~> handler[t].phase = "idle"

-----------------------------------------------------------------------------
(* What the repository says of the program, and the code does not do *)

\* Docs: credits are consumed on success only and released on failure.  So no request
\* would be both charged and refunded.
ChargedXorRefunded == Consumed \cap Released = {}

\* callbacks.py: a replay never duplicates an Asset.
AssetsOncePerOutput ==
    \A r \in Requests, o \in Outputs : assets[r][o] <= 1

\* job.controller.ts: answering 202 before the callback removes the race with the state
\* of the job in Django; so the result a job has is not overwritten.
ResultsStay ==
    [][\A j \in Jobs : status[j] \in SUCCESS_STATUSES => status'[j] = status[j]]_vars

\* services.py: from a retryable state, a retry creates a new job; so the job is not
\* itself the active one that the retry would find.
RetryableIsNotActive ==
    \A j \in Jobs : status[j] \in RETRYABLE_STATUSES => j \notin ActiveJobs(entity[j])

\* services.py: the reservation raises when the balance is too low, so that an unpayable
\* request is never queued.
BalanceNotNegative == balance >= 0
=============================================================================
