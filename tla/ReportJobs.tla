----------------------------- MODULE ReportJobs -----------------------------
(***************************************************************************)
(* Reports and media kits: a request creates the entity, submits an        *)
(* external job for it and links the job back; the renderer makes the      *)
(* document and calls back; Django workers apply the callbacks; operators  *)
(* retry and cancel jobs; users edit the entity.                           *)
(*                                                                         *)
(* The module follows one entity.  All of these write its row, and each of *)
(* them writes what it read some steps before: a handler the fields it     *)
(* changes, the creating request the whole metadata, an edit every field.  *)
(* A thread that dies takes no more steps, which no action needs to say.   *)
(* A handler's transaction is one step, from the UPDATE of the row (which  *)
(* waits for the other writers of the row) to its commit.                  *)
(*                                                                         *)
(* The API leaves status, storage_asset and metadata to its users, on a    *)
(* POST and on a PATCH.  What a user said of the outcome is nobody else's  *)
(* promise, so each row remembers, in a history field the code does not    *)
(* have, whether its outcome is claimed: a user wrote its status or its    *)
(* asset, and no job has said otherwise since.                             *)
(***************************************************************************)
EXTENDS Integers, Sequences, FiniteSets, JobStatus, ReportDocument

CONSTANTS
    Jobs,          \* external job references, each with its submission thread
    Workers,       \* Django workers that serve the callback endpoint
    Users,         \* users who edit the entity
    MaxWrites,     \* bound: callback deliveries, and reads and saves of edits
    MaxEdits,      \* bound: edits among them
    Holdings,      \* what the workspace may hold: a new entity has no section or item
    UserStatuses,  \* bound: the statuses users write, of those the choice fields offer
    UserNotes,     \* bound: the metadata users write
    NONE

ASSUME ReportThreads ==
    /\ Jobs \cap Workers = {}
    /\ NONE \notin Jobs \cup Workers \cup Users
ASSUME ReportWorkers == IsFiniteSet(Workers)
ASSUME ReportNumbers == MaxWrites \in Nat /\ MaxEdits \in Nat
ASSUME ReportHoldings == Holdings \subseteq SUBSET Materials
ASSUME ReportNotes == UserNotes \subseteq SUBSET {"failed"}

VARIABLES
    kind,       \* "report" or "media_kit"
    held,       \* what the workspace holds about the entity
    entity,     \* the row: status, asset (an index of assets, 0 or UPLOADED), metadata
    assets,     \* the Assets created for the entity: the job whose file each is
    notices,    \* notices[e]: the notifications of event e
    creator,    \* the creating request: where it is, its job, the metadata of its copy
    status,     \* status[j]: ExternalJobReference.status
    payload,    \* payload[j]: the domain payload of j, kept on its row
    submit,     \* submit[j]: where the submission of j is
    handler,    \* handler[t]: the product handler thread t runs
    editor,     \* editor[u]: the row user u has read and is to save, or NONE
    edits,      \* the number of edits begun
    document,   \* document[j]: what the renderer makes of the POST of j, or NONE
    delivered   \* the number of callbacks delivered

entityVars == <<kind, held, entity, assets, notices>>
jobVars == <<status, payload, submit>>
threadVars == <<creator, handler>>
editVars == <<editor, edits>>
rendererVars == <<document, delivered>>
vars == <<entityVars, jobVars, threadVars, editVars, rendererVars>>

-----------------------------------------------------------------------------
Threads == Jobs \cup Workers

INITIAL == IF kind = "report" THEN "queued" ELSE "draft"
READY == IF kind = "report" THEN "completed" ELSE "generated"

\* Report.Status and MediaKit.Status: a media kit has no failed status.
EntityStatuses ==
    IF kind = "report" THEN {"queued", "processing", "completed", "failed", "archived"}
                       ELSE {"draft", "generated", "published", "archived"}

\* An Asset of the workspace that none of the entity's jobs made.
UPLOADED == -1

\* Of the metadata, what a reader decides by: the failure a handler noted ("error", and
\* generation_status for a media kit).  The job's id, the result's keys and a submission
\* error are merged in by the same saves.
MetadataKeys == {"failed"}

EntityRows == [status : EntityStatuses \cup {"absent"}, asset : Nat \cup {UPLOADED},
               metadata : SUBSET MetadataKeys, claimed : BOOLEAN]

\* What a handler goes by of the row it read.
SeenRows == [asset : Nat \cup {UPLOADED}, metadata : SUBSET MetadataKeys]

NEW_ROW == [status |-> "absent", asset |-> 0, metadata |-> {}, claimed |-> FALSE]
NOTHING_SEEN == [asset |-> 0, metadata |-> {}]
IDLE == [phase |-> "idle", job |-> NONE, new |-> NONE, seen |-> NOTHING_SEEN]

TypeOK ==
    /\ kind \in Kinds
    /\ held \subseteq Materials
    /\ entity \in EntityRows
    /\ assets \in Seq(Jobs)
    /\ entity.asset \in {UPLOADED} \cup 0..Len(assets)
    /\ notices \in [{"ready", "failed"} -> Nat]
    /\ creator \in [phase : {"idle", "created", "submitting", "linking", "done"},
                    job : Jobs \cup {NONE}, metadata : SUBSET MetadataKeys]
    /\ status \in [Jobs -> JobStatuses \cup {"absent"}]
    /\ payload \in [Jobs -> {Payload(kind, held), NONE}]
    /\ submit \in [Jobs -> {"none", "created", "posting", "propagating", "done"}]
    /\ handler \in [Threads -> [phase : {"idle", "dispatched", "resolved"},
                                job : Jobs \cup {NONE},
                                new : JobStatuses \cup {NONE},
                                seen : SeenRows]]
    /\ editor \in [Users -> EntityRows \cup {NONE}]
    /\ edits \in 0..MaxEdits
    /\ document \in [Jobs -> Render(kind, Payload(kind, held)) \cup {NONE}]
    /\ delivered \in 0..MaxWrites

Init ==
    /\ kind \in Kinds
    /\ held \in Holdings
    /\ entity = NEW_ROW
    /\ assets = <<>>
    /\ notices = [e \in {"ready", "failed"} |-> 0]
    /\ creator = [phase |-> "idle", job |-> NONE, metadata |-> {}]
    /\ status = [j \in Jobs |-> "absent"]
    /\ payload = [j \in Jobs |-> NONE]
    /\ submit = [j \in Jobs |-> "none"]
    /\ handler = [t \in Threads |-> IDLE]
    /\ editor = [u \in Users |-> NONE]
    /\ edits = 0
    /\ document = [j \in Jobs |-> NONE]
    /\ delivered = 0

-----------------------------------------------------------------------------
(* The creating request *)

\* What the serializers let a user make of a row: any status, any Asset of the workspace
\* or none, any metadata, or what the row has of each.
Written(row) ==
    {[status |-> s, asset |-> a, metadata |-> m,
      claimed |-> row.claimed \/ <<s, a>> # <<row.status, row.asset>>] :
       s \in {row.status} \cup (UserStatuses \cap EntityStatuses),
       a \in {row.asset, 0, UPLOADED} \cup DOMAIN assets,
       m \in {row.metadata} \cup UserNotes}

\* perform_create's save; the quota and the usage event are Billing's.
CreateEntity ==
    /\ creator.phase = "idle"
    /\ entity' \in Written([NEW_ROW EXCEPT !.status = INITIAL])
    /\ creator' = [creator EXCEPT !.phase = "created", !.metadata = entity'.metadata]
    /\ UNCHANGED <<kind, held, assets, notices, handler,
                   jobVars, editVars, rendererVars>>

\* The reference is created, queued and with its payload, before any call.
NewJob(j, content) ==
    /\ status[j] = "absent"
    /\ status' = [status EXCEPT ![j] = "queued"]
    /\ payload' = [payload EXCEPT ![j] = content]
    /\ submit' = [submit EXCEPT ![j] = "created"]

OpenJob(j) ==
    /\ creator.phase = "created"
    /\ creator' = [creator EXCEPT !.phase = "submitting", !.job = j]
    /\ NewJob(j, Payload(kind, held))
    /\ UNCHANGED <<entityVars, handler, editVars, rendererVars>>

\* The request saves the metadata it created the row with, and the error.
NoteSubmissionError ==
    /\ creator' = [creator EXCEPT !.phase = "done", !.metadata = {}]
    /\ entity' = [entity EXCEPT !.metadata = creator.metadata]

\* Opening the job raises, before there is one.
OpeningRaises ==
    /\ creator.phase = "created"
    /\ NoteSubmissionError
    /\ UNCHANGED <<kind, held, assets, notices, handler,
                   jobVars, editVars, rendererVars>>

\* Mutant: the metadata merged is the one the row was created with.
MergeIntoStaleCopy ==
    /\ creator.phase = "submitting"
    /\ submit[creator.job] = "done"
    /\ creator' = [creator EXCEPT !.phase = "linking"]
    /\ UNCHANGED <<entityVars, handler, jobVars, editVars, rendererVars>>

\* refresh_from_db, once the submission is over.
RefreshEntity ==
    /\ creator.phase = "submitting"
    /\ submit[creator.job] = "done"
    /\ creator' = [creator EXCEPT !.phase = "linking", !.metadata = entity.metadata]
    /\ UNCHANGED <<entityVars, handler, jobVars, editVars, rendererVars>>

\* Mutant: the copy the request has had since it created the row is saved whole.
LinkSavesWholeRow ==
    /\ creator.phase = "linking"
    /\ creator' = [creator EXCEPT !.phase = "done"]
    /\ entity' = [NEW_ROW EXCEPT !.status = INITIAL, !.metadata = creator.metadata]
    /\ UNCHANGED <<kind, held, assets, notices, handler, jobVars, editVars, rendererVars>>

\* The merged metadata is saved, whole.
LinkJob ==
    /\ creator.phase = "linking"
    /\ creator' = [creator EXCEPT !.phase = "done", !.metadata = {}]
    /\ entity' = [entity EXCEPT !.metadata = creator.metadata]
    /\ UNCHANGED <<kind, held, assets, notices, handler,
                   jobVars, editVars, rendererVars>>

-----------------------------------------------------------------------------
(* The submission of a job, by the creating request or by an operator *)

Dispatch(t, j, new) ==
    handler' = [handler EXCEPT ![t] =
                  [phase |-> "dispatched", job |-> j, new |-> new, seen |-> NOTHING_SEEN]]

\* EXTERNAL_JOBS_ENABLED is off: queued it stays; in a dry run it is called submitted.
SubmitNothing(j) ==
    /\ submit[j] = "created"
    /\ submit' = [submit EXCEPT ![j] = "done"]
    /\ \E s \in {"queued", "submitted"} : status' = [status EXCEPT ![j] = s]
    /\ UNCHANGED <<entityVars, payload, threadVars, editVars, rendererVars>>

\* The POST leaves.  If it reaches the renderer, which answers and makes the document in
\* the background, then nothing but the payload settles what the document is; and it
\* shows nowhere until it is delivered.
SubmitPost(j) ==
    /\ submit[j] = "created"
    /\ submit' = [submit EXCEPT ![j] = "posting"]
    /\ \E d \in Render(kind, payload[j]) : document' = [document EXCEPT ![j] = d]
    /\ UNCHANGED <<entityVars, status, payload, threadVars, editVars, delivered>>

\* The 202 arrives: SUBMITTED is saved over whatever the row holds by now.
PostAnswered(j) ==
    /\ submit[j] = "posting"
    /\ submit' = [submit EXCEPT ![j] = "done"]
    /\ status' = [status EXCEPT ![j] = "submitted"]
    /\ UNCHANGED <<entityVars, payload, threadVars, editVars, rendererVars>>

\* _mark_failed and _mark_timeout: the job is saved, then the handler runs.  The
\* service may have the job all the same.
PostFails(j) ==
    /\ submit[j] \in {"created", "posting"}
    /\ submit' = [submit EXCEPT ![j] = "propagating"]
    /\ \E outcome \in {"failed", "timeout"} :
         /\ outcome = "timeout" => submit[j] = "posting"
         /\ status' = [status EXCEPT ![j] = outcome]
         /\ Dispatch(j, j, outcome)
    /\ UNCHANGED <<entityVars, payload, creator, editVars, rendererVars>>

\* The submission raises: the client passes on an exception it has no name for, or a
\* save or an audit event fails.  The job stays as it was, or as it was saved last, and
\* no handler runs.  The creating request notes the error; an operator's answers 500.
SubmissionRaises(j) ==
    /\ submit[j] \in {"created", "posting"}
    /\ submit' = [submit EXCEPT ![j] = "done"]
    /\ \E outcome \in {status[j], "submitted", "failed", "timeout"} :
         /\ outcome = "timeout" => submit[j] = "posting" \/ outcome = status[j]
         /\ status' = [status EXCEPT ![j] = outcome]
    /\ IF creator.phase = "submitting" /\ creator.job = j
       THEN NoteSubmissionError
       ELSE UNCHANGED <<creator, entity>>
    /\ UNCHANGED <<kind, held, assets, notices, payload, handler, editVars, rendererVars>>

-----------------------------------------------------------------------------
(* The product handlers *)

\* _resolve: the row is read, before the transaction.
ResolveEntity(t) ==
    /\ handler[t].phase = "dispatched"
    /\ handler' = [handler EXCEPT
                     ![t].phase = "resolved",
                     ![t].seen = [asset |-> entity.asset, metadata |-> entity.metadata]]
    /\ UNCHANGED <<entityVars, jobVars, creator, editVars, rendererVars>>

\* Mutant: whether the event was notified is looked up when the entity is read.
NotifyEachHandler(event) == notices' = [notices EXCEPT ![event] = @ + 1]

\* _notify_once: the lookup comes after the UPDATE of the row, so under its lock.
NotifyOnce(event) ==
    notices' = [notices EXCEPT ![event] = IF @ = 0 THEN 1 ELSE @]

\* Mutant: every completed callback creates an Asset.
CreateAssetAlways(seen, d) == HasAsset(d)

\* An Asset is created when the row that was read has none.
CreateAsset(seen, d) == seen.asset = 0 /\ HasAsset(d)

\* _report_completed, _media_kit_completed.
Completed(t) ==
    LET seen == handler[t].seen
        create == CreateAsset(seen, document[handler[t].job])
    IN  /\ assets' = IF create THEN Append(assets, handler[t].job) ELSE assets
        /\ entity' = [status |-> READY,
                      asset |-> IF create THEN Len(assets') ELSE seen.asset,
                      metadata |-> seen.metadata,
                      claimed |-> FALSE]
        /\ NotifyOnce("ready")

\* A media kit keeps its status.
FailedStatus == IF kind = "report" THEN "failed" ELSE entity.status

\* Mutant: a failed report drops the link, too.
FailedDropsLink(t) ==
    /\ entity' = [entity EXCEPT !.status = FailedStatus, !.asset = 0,
                                !.metadata = handler[t].seen.metadata \cup {"failed"}]
    /\ NotifyOnce("failed")
    /\ UNCHANGED assets

\* Mutant: a failed media kit gets the status of a failed report.
FailedStatusForBoth(t) ==
    /\ entity' = [entity EXCEPT !.status = "failed",
                                !.metadata = handler[t].seen.metadata \cup {"failed"}]
    /\ NotifyOnce("failed")
    /\ UNCHANGED assets

\* _report_failed, _media_kit_failed: the status and the note in the metadata.
Failed(t) ==
    /\ entity' = [entity EXCEPT
                    !.status = FailedStatus,
                    !.metadata = handler[t].seen.metadata \cup {"failed"}]
    /\ NotifyOnce("failed")
    /\ UNCHANGED assets

\* The transaction: the row, the notification, then apply_job_callback.
CommitHandler(t) ==
    /\ handler[t].phase = "resolved"
    /\ IF handler[t].new \in FAILURE_STATUSES THEN Failed(t) ELSE Completed(t)
    /\ status' = [status EXCEPT ![handler[t].job] = handler[t].new]
    /\ submit' = IF t \in Jobs THEN [submit EXCEPT ![t] = "done"] ELSE submit
    /\ handler' = [handler EXCEPT ![t] = IDLE]
    /\ UNCHANGED <<kind, held, payload, creator, editVars, rendererVars>>

\* A handler that raises rolls back; a submission goes on, a worker answers 500.
HandlerDies(t) ==
    /\ handler[t].phase # "idle"
    /\ handler' = [handler EXCEPT ![t] = IDLE]
    /\ submit' = IF t \in Jobs THEN [submit EXCEPT ![t] = "done"] ELSE submit
    /\ UNCHANGED <<entityVars, status, payload, creator, editVars, rendererVars>>

-----------------------------------------------------------------------------
(* The callback endpoint *)

\* An edit counts as two: its read and its save.
Writes == delivered + 2 * edits

\* An attempt reaches a worker: the job is read and the view's guards applied.  The
\* attempt before may have timed out, with its handler still at work; an attempt that
\* is lost changes nothing, and is no step.
ReceiveCallback(j, w) ==
    /\ document[j] # NONE
    /\ Writes < MaxWrites
    /\ delivered' = delivered + 1
    /\ handler[w] = IDLE
    /\ IF status[j] \in TERMINAL_STATUSES \/ status[j] = document[j].status
       THEN UNCHANGED handler
       ELSE Dispatch(w, j, document[j].status)
    /\ UNCHANGED <<entityVars, jobVars, creator, editVars, document>>

-----------------------------------------------------------------------------
(* Operators and users *)

ActiveJobs == {j \in Jobs : status[j] \notin TERMINAL_STATUSES \cup {"absent"}}

\* retry_external_job: with no active job for the entity, a new job gets the payload
\* of the old one.
RetryJob(old, j) ==
    /\ status[old] \in RETRYABLE_STATUSES
    /\ ActiveJobs = {}
    /\ NewJob(j, payload[old])
    /\ UNCHANGED <<entityVars, threadVars, editVars, rendererVars>>

AdminCancel(j) ==
    /\ j \in ActiveJobs
    /\ status' = [status EXCEPT ![j] = "cancelled"]
    /\ UNCHANGED <<entityVars, payload, submit, threadVars, editVars, rendererVars>>

\* A PATCH reads the row...
BeginEdit(u) ==
    /\ entity.status # "absent"
    /\ editor[u] = NONE
    /\ edits < MaxEdits /\ Writes + 1 < MaxWrites
    /\ edits' = edits + 1
    /\ editor' = [editor EXCEPT ![u] = entity]
    /\ UNCHANGED <<entityVars, jobVars, threadVars, rendererVars>>

\* ... and saves every field of it, the ones it edits and the ones it read.  A PATCH of
\* the campaign, artist or track is not followed: "held" is what the payload was built of.
CommitEdit(u) ==
    /\ editor[u] # NONE
    /\ entity' \in Written(editor[u])
    /\ editor' = [editor EXCEPT ![u] = NONE]
    /\ UNCHANGED <<kind, held, assets, notices, jobVars, threadVars, edits, rendererVars>>

-----------------------------------------------------------------------------
Next ==
    \/ CreateEntity
    \/ OpeningRaises
    \/ RefreshEntity
    \/ LinkJob
    \/ \E j \in Jobs :
         \/ OpenJob(j)
         \/ SubmitNothing(j)
         \/ SubmitPost(j)
         \/ PostAnswered(j)
         \/ PostFails(j)
         \/ SubmissionRaises(j)
         \/ \E old \in Jobs : RetryJob(old, j)
         \/ AdminCancel(j)
         \/ \E w \in Workers : ReceiveCallback(j, w)
    \/ \E t \in Threads : ResolveEntity(t) \/ CommitHandler(t) \/ HandlerDies(t)
    \/ \E u \in Users : BeginEdit(u) \/ CommitEdit(u)

Spec == Init /\ [][Next]_vars

-----------------------------------------------------------------------------
(* Properties *)

\* A customer is told once that a report is ready, and once that it failed, however
\* many deliveries, retries and failed submissions overlap: the lookup of the earlier
\* notification waits for the lock of the entity's row.
NotifiedOnce == \A e \in DOMAIN notices : notices[e] <= 1

\* An entity that its jobs made ready has a file, and every Asset made for it is one the
\* renderer did store: this across edits that save a row read long ago, retries that fail
\* and handlers that saw another row.  The API lets users write status and storage_asset
\* themselves; what a user wrote, and no job has written over since, is not spoken of.
ReadyHasFile ==
    /\ entity.status = READY /\ ~entity.claimed => entity.asset # 0
    /\ \A n \in DOMAIN assets : document[assets[n]].status = "completed"

\* Overlapping deliveries may each create an Asset, but never more of them than there
\* are workers, whatever the number of jobs and attempts: once a handler has committed,
\* every later one sees the link.  Only a stale edit can take the link away.
AssetsBoundedByWorkers == edits = 0 => Len(assets) <= Cardinality(Workers)

\* Whoever was told of an outcome finds it on the entity: a notified report is not still
\* queued, nor a notified media kit still a draft, unless a user saved a stale row.
ToldMeansShown ==
    edits = 0 =>
      /\ notices["ready"] > 0 => entity.status \in {READY, "failed"}
      /\ kind = "report" /\ notices["failed"] > 0 => entity.status # INITIAL

Opened == {j \in Jobs : status[j] # "absent"}

\* A failed submission is noted on the entity by the same thread that then merges the
\* job's id, or saves its stale copy of it if the submission raised: with no other writer,
\* the note outlives both.
SubmissionFailureKept ==
    (/\ creator.phase = "done" /\ Opened = {creator.job}
     /\ delivered + edits = 0 /\ notices["failed"] > 0)
      => "failed" \in entity.metadata

\* A document names the campaign, artist and track its entity had, shows nothing the
\* workspace does not hold, and a retry of the job shows the same.
DocumentsFaithful ==
    \A n \in DOMAIN assets :
      LET d == document[assets[n]]
      IN  /\ d.shown \subseteq held
          /\ held \cap {"campaign", "artist", "track"} \subseteq d.shown

-----------------------------------------------------------------------------
(* What the repository says of the program, and the code does not do *)

\* _related_artifact_status.
ShownStatus ==
    IF kind = "media_kit" /\ "failed" \in entity.metadata THEN "failed" ELSE entity.status

Quiet ==
    /\ creator.phase = "done"
    /\ \A t \in Threads : handler[t] = IDLE
    /\ \A u \in Users : editor[u] = NONE

\* campaign_actions/serializers.py: an artifact whose renderer job failed is diagnosable
\* from the action, so it does not read as queued or draft for ever.
FailureDiagnosable ==
    (Quiet /\ edits = 0 /\ notices["failed"] > 0 /\ notices["ready"] = 0)
      => ShownStatus = "failed"

\* report.model.ts: a report presents the smart-link stats the backend supplied.
StatsPresented ==
    \A n \in DOMAIN assets :
      kind = "report" /\ {"campaign", "clicks"} \subseteq held
        => "clicks" \in document[assets[n]].shown
=============================================================================
