------------------------- MODULE ReportJobs_proofs -------------------------
(***************************************************************************)
(* Proofs about ReportJobs, for any number of jobs, workers, users, edits  *)
(* and deliveries, and whatever the workspace holds.                       *)
(***************************************************************************)
EXTENDS ReportJobs, FiniteSetTheorems, TLAPS

(* The inductive invariant *)

\* A job that does not exist yet has no thread, one that was not posted no document; one
\* that exists has the payload of the entity.
JobsFollowTheirRows ==
    \A j \in Jobs :
      /\ status[j] = "absent" => submit[j] = "none"
      /\ submit[j] \in {"none", "created"} => document[j] = NONE
      /\ status[j] # "absent" => payload[j] = Payload(kind, held)

\* A handler in progress has an existing job.  A submission thread handles its own job,
\* which failed, and is told so by its submission; a worker handles a job whose document
\* was delivered, and applies the status of that.
HandlersHaveJobs ==
    \A t \in Threads :
      handler[t].phase # "idle" =>
        /\ handler[t].job \in Jobs
        /\ status[handler[t].job] # "absent"
        /\ t \in Jobs => /\ handler[t].job = t
                         /\ handler[t].new \in {"failed", "timeout"}
                         /\ submit[t] = "propagating"
        /\ t \notin Jobs => /\ delivered # 0
                            /\ document[handler[t].job] # NONE
                            /\ handler[t].new = document[handler[t].job].status

\* Nothing happens to the entity before its job is opened, and no job is opened before.
NothingBeforeTheJob ==
    /\ creator.phase \in {"idle", "created"} =>
         /\ \A j \in Jobs : status[j] = "absent"
         /\ assets = <<>>
         /\ notices = [e \in {"ready", "failed"} |-> 0]
    /\ creator.phase = "idle" <=> entity.status = "absent"
    /\ creator.phase = "submitting" => creator.job \in Jobs
    /\ creator.phase = "linking" => creator.job \in Jobs /\ submit[creator.job] = "done"
    /\ creator.phase \in {"submitting", "linking"} => status[creator.job] # "absent"

\* What a row's link may be, with n Assets made for the entity.
LinksOf(n) == {UPLOADED} \cup 0..n

\* A row that a thread may write back: its link is to an Asset there is, and it is not
\* ready without one, unless a user said so.
RowSound(row) ==
    /\ row.status # "absent"
    /\ row.asset \in LinksOf(Len(assets))
    /\ row.status = READY /\ ~row.claimed => row.asset # 0

RowsSound ==
    /\ entity.status # "absent" => RowSound(entity)
    /\ entity.status = "absent" => entity.asset = 0 /\ \A u \in Users : editor[u] = NONE
    /\ \A u \in Users : editor[u] # NONE => RowSound(editor[u])
    /\ \A t \in Threads : handler[t].phase = "resolved" => handler[t].seen.asset \in LinksOf(Len(assets))
    /\ \A n \in DOMAIN assets :
         document[assets[n]] # NONE /\ document[assets[n]].status = "completed"

NoEditNoEditor == edits = 0 => \A u \in Users : editor[u] = NONE

\* The workers that are to create an Asset, whatever the row holds by now.
Creating ==
    {w \in Workers : /\ handler[w].phase = "resolved"
                     /\ handler[w].seen.asset = 0
                     /\ handler[w].new = "completed"}

\* Without edits the link is never lost, so no worker begins to create an Asset once
\* there is one: each Asset takes a worker from those that are to create.
AssetsFollowWorkers ==
    edits = 0 =>
      IF entity.asset = 0 THEN assets = <<>>
                          ELSE Len(assets) + Cardinality(Creating) <= Cardinality(Workers)

\* The note of a failed submission, on its way through the request that opened the job:
\* the submission is over, so it cannot raise any more.
FailureNoted ==
    (/\ creator.phase \in {"submitting", "linking", "done"}
     /\ Opened = {creator.job} /\ delivered + edits = 0 /\ notices["failed"] > 0)
      => /\ "failed" \in entity.metadata
         /\ creator.phase = "linking" => "failed" \in creator.metadata
         /\ submit[creator.job] = "done"

IInv ==
    /\ TypeOK
    /\ JobsFollowTheirRows
    /\ HandlersHaveJobs
    /\ NothingBeforeTheJob
    /\ RowsSound
    /\ NoEditNoEditor
    /\ NotifiedOnce
    /\ ToldMeansShown
    /\ AssetsFollowWorkers
    /\ FailureNoted

-----------------------------------------------------------------------------
(* The parts that every step keeps *)

\* Whether it is a report or a media kit, and what is held, is settled.
LEMMA KindKept ==
    ASSUME UNCHANGED <<kind, held>>
    PROVE  /\ EntityRows' = EntityRows /\ INITIAL' = INITIAL /\ READY' = READY
           /\ Payload(kind, held)' = Payload(kind, held)
           /\ Render(kind, Payload(kind, held))' = Render(kind, Payload(kind, held))
  BY DEF EntityRows, EntityStatuses, INITIAL, READY

\* Workers are finitely many, and so are those that are to create an Asset.
LEMMA CreatingBounded ==
    /\ IsFiniteSet(Creating) /\ Cardinality(Creating) \in Nat
    /\ Cardinality(Workers) \in Nat /\ Cardinality(Creating) <= Cardinality(Workers)
<1>1. Creating \in SUBSET Workers
  BY DEF Creating
<1> QED
  BY <1>1, ReportWorkers, FS_Subset, FS_CardinalityType

LEMMA CreatingShrinks ==
    ASSUME Creating' \subseteq Creating
    PROVE  Cardinality(Creating') \in Nat /\ Cardinality(Creating') <= Cardinality(Creating)
  BY CreatingBounded, FS_Subset, FS_CardinalityType

\* The initial states satisfy the invariant.
LEMMA InitInv == Init => IInv
<1> SUFFICES ASSUME Init PROVE IInv
  OBVIOUS
<1> USE DEF Init
<1>1. TypeOK
  <2>1. NEW_ROW \in EntityRows
    BY DEF NEW_ROW, EntityRows, EntityStatuses
  <2> QED
    BY <2>1, ReportNumbers, ReportHoldings DEF TypeOK, IDLE, NOTHING_SEEN, SeenRows, NEW_ROW
<1>2. JobsFollowTheirRows /\ HandlersHaveJobs /\ NoEditNoEditor /\ NotifiedOnce
  BY DEF JobsFollowTheirRows, HandlersHaveJobs, NoEditNoEditor, NotifiedOnce, IDLE
<1>3. NothingBeforeTheJob /\ FailureNoted /\ ToldMeansShown
  BY DEF NothingBeforeTheJob, FailureNoted, ToldMeansShown, NEW_ROW
<1>4. RowsSound /\ AssetsFollowWorkers
  BY DEF RowsSound, AssetsFollowWorkers, NEW_ROW, IDLE
<1> QED
  BY <1>1, <1>2, <1>3, <1>4 DEF IInv

-----------------------------------------------------------------------------
(* The creating request *)

\* What a user makes of a row is a row: its link is to an Asset there is or none, and a
\* status or a link the user changed is marked.
LEMMA WrittenRow ==
    ASSUME NEW row \in EntityRows, NEW new \in Written(row), assets \in Seq(Jobs)
    PROVE  /\ new \in EntityRows
           /\ new.asset \in LinksOf(Len(assets)) \cup {row.asset}
           /\ row.status # "absent" => new.status # "absent"
           /\ ~new.claimed => /\ ~row.claimed
                              /\ new.status = row.status /\ new.asset = row.asset
<1>1. PICK s \in {row.status} \cup (UserStatuses \cap EntityStatuses),
           a \in {row.asset, 0, UPLOADED} \cup DOMAIN assets,
           m \in {row.metadata} \cup UserNotes :
        new = [status |-> s, asset |-> a, metadata |-> m,
               claimed |-> row.claimed \/ <<s, a>> # <<row.status, row.asset>>]
  BY DEF Written
<1>2. DOMAIN assets = 1..Len(assets) /\ Len(assets) \in Nat
  OBVIOUS
<1>3. /\ s \in EntityStatuses \cup {"absent"} /\ (row.status # "absent" => s # "absent")
      /\ a \in Nat \cup {UPLOADED} /\ a \in LinksOf(Len(assets)) \cup {row.asset}
      /\ m \in SUBSET MetadataKeys
  <2>1. "absent" \notin EntityStatuses
    BY DEF EntityStatuses
  <2> QED
    BY <1>2, <2>1, ReportNotes DEF EntityRows, LinksOf, MetadataKeys
<1>4. new \in EntityRows
  BY <1>1, <1>3 DEF EntityRows
<1>5. ~new.claimed => ~row.claimed /\ s = row.status /\ a = row.asset
  BY <1>1
<1> QED
  BY <1>1, <1>3, <1>4, <1>5

\* The row is new, and so is everything about it, whatever the user wrote in it.
LEMMA CreateInv == IInv /\ CreateEntity => IInv'
<1> SUFFICES ASSUME IInv, CreateEntity PROVE IInv'
  OBVIOUS
<1> USE DEF IInv
<1> DEFINE row == [NEW_ROW EXCEPT !.status = INITIAL]
<1>1. /\ entity' \in Written(row)
      /\ creator' = [creator EXCEPT !.phase = "created", !.metadata = entity'.metadata]
      /\ UNCHANGED <<kind, held, assets, notices, status, payload, submit, handler,
                     editor, edits, document, delivered>>
  BY DEF CreateEntity, jobVars, editVars, rendererVars
<1>2. /\ \A j \in Jobs : status[j] = "absent"
      /\ assets = <<>> /\ notices["ready"] = 0 /\ notices["failed"] = 0
  BY DEF NothingBeforeTheJob, CreateEntity
<1>3. INITIAL \in EntityStatuses /\ INITIAL # "absent" /\ INITIAL # READY
  BY DEF INITIAL, READY, EntityStatuses, TypeOK, Kinds
<1>4. /\ entity' \in EntityRows /\ entity'.asset \in LinksOf(Len(assets))
      /\ entity'.status # "absent"
      /\ ~entity'.claimed => entity'.status # READY
  <2>1. /\ row \in EntityRows /\ assets \in Seq(Jobs)
        /\ row.status = INITIAL /\ row.asset = 0
    BY <1>3 DEF NEW_ROW, EntityRows, TypeOK
  <2>2. 0 \in LinksOf(Len(assets))
    BY <1>2 DEF LinksOf
  <2> QED
    BY <1>1, <1>3, <2>1, <2>2, WrittenRow
<1>5. TypeOK'
  BY <1>1, <1>4, KindKept DEF TypeOK, EntityRows, LinksOf
<1>6. (JobsFollowTheirRows /\ HandlersHaveJobs /\ NoEditNoEditor /\ NotifiedOnce)'
  BY <1>1, KindKept DEF JobsFollowTheirRows, HandlersHaveJobs, NoEditNoEditor, NotifiedOnce
<1>7. (NothingBeforeTheJob /\ FailureNoted /\ ToldMeansShown)'
  BY <1>1, <1>2, <1>4 DEF NothingBeforeTheJob, FailureNoted, ToldMeansShown, TypeOK
<1>8. RowsSound'
  BY <1>1, <1>2, <1>4, KindKept DEF RowsSound, RowSound
<1>9. AssetsFollowWorkers'
  <2>1. Creating' = Creating
    BY <1>1 DEF Creating
  <2>2. assets' = <<>> /\ Len(assets') = 0
    BY <1>1, <1>2
  <2> QED
    BY <1>1, <2>1, <2>2, CreatingBounded DEF AssetsFollowWorkers
<1> QED
  BY <1>5, <1>6, <1>7, <1>8, <1>9

LEMMA OpenInv == ASSUME IInv, NEW j \in Jobs, OpenJob(j) PROVE IInv'
<1> USE DEF IInv
<1>1. /\ creator' = [creator EXCEPT !.phase = "submitting", !.job = j]
      /\ status[j] = "absent"
      /\ status' = [status EXCEPT ![j] = "queued"]
      /\ payload' = [payload EXCEPT ![j] = Payload(kind, held)]
      /\ submit' = [submit EXCEPT ![j] = "created"]
      /\ UNCHANGED <<kind, held, entity, assets, notices, handler,
                     editor, edits, document, delivered>>
  BY DEF OpenJob, NewJob, entityVars, editVars, rendererVars
<1>2. /\ \A i \in Jobs : status[i] = "absent"
      /\ assets = <<>> /\ notices["ready"] = 0 /\ notices["failed"] = 0
  BY DEF NothingBeforeTheJob, OpenJob
<1>3. TypeOK'
  BY <1>1, KindKept DEF TypeOK, JobStatuses
<1>4. (JobsFollowTheirRows /\ HandlersHaveJobs /\ NoEditNoEditor /\ NotifiedOnce)'
  BY <1>1, KindKept DEF JobsFollowTheirRows, HandlersHaveJobs, NoEditNoEditor, NotifiedOnce, TypeOK
<1>5. (NothingBeforeTheJob /\ FailureNoted /\ ToldMeansShown)'
  <2>1. NothingBeforeTheJob'
    BY <1>1 DEF NothingBeforeTheJob, TypeOK, OpenJob
  <2>2. (FailureNoted /\ ToldMeansShown)'
    BY <1>1, <1>2 DEF FailureNoted, ToldMeansShown
  <2> QED
    BY <2>1, <2>2
<1>6. (RowsSound /\ AssetsFollowWorkers)'
  BY <1>1, KindKept DEF RowsSound, RowSound, AssetsFollowWorkers, Creating
<1> QED
  BY <1>3, <1>4, <1>5, <1>6

\* The creating request saves its copy of the metadata over that of the row: harmless
\* where no failure was noted.
LEMMA NoteInv ==
    ASSUME IInv, NoteSubmissionError, creator.phase \in {"created", "submitting"},
           UNCHANGED <<kind, held, assets, notices, handler, payload, editor, edits, document,
                       delivered>>,
           TypeOK', JobsFollowTheirRows', HandlersHaveJobs',
           delivered + edits = 0 /\ notices["failed"] > 0 => Opened' # {creator.job}
    PROVE  IInv'
<1> USE DEF IInv
<1>1. /\ entity' = [entity EXCEPT !.metadata = creator.metadata]
      /\ creator' = [creator EXCEPT !.phase = "done", !.metadata = {}]
  BY DEF NoteSubmissionError
<1>2. /\ entity'.status = entity.status /\ entity'.asset = entity.asset
      /\ entity'.claimed = entity.claimed
      /\ creator'.phase = "done" /\ creator'.job = creator.job
  BY <1>1 DEF TypeOK, EntityRows
<1>3. (NoEditNoEditor /\ NotifiedOnce /\ ToldMeansShown)'
  BY <1>2, KindKept DEF NoEditNoEditor, NotifiedOnce, ToldMeansShown
<1>4. NothingBeforeTheJob'
  BY <1>2 DEF NothingBeforeTheJob
<1>5. (RowsSound /\ AssetsFollowWorkers)'
  BY <1>2, KindKept DEF RowsSound, RowSound, AssetsFollowWorkers, Creating
<1>6. FailureNoted'
  BY <1>2 DEF FailureNoted
<1> QED
  BY <1>3, <1>4, <1>5, <1>6

\* No job was opened, so none failed.
LEMMA OpeningRaisesInv == IInv /\ OpeningRaises => IInv'
<1> SUFFICES ASSUME IInv, OpeningRaises PROVE IInv'
  OBVIOUS
<1>1. /\ NoteSubmissionError /\ creator.phase = "created"
      /\ entity' = [entity EXCEPT !.metadata = creator.metadata]
      /\ creator' = [creator EXCEPT !.phase = "done", !.metadata = {}]
      /\ UNCHANGED <<kind, held, assets, notices, status, payload, submit, handler,
                     editor, edits, document, delivered>>
  BY DEF OpeningRaises, NoteSubmissionError, jobVars, editVars, rendererVars
<1>2. notices["failed"] = 0
  BY <1>1 DEF IInv, NothingBeforeTheJob
<1>3. TypeOK'
  BY <1>1, KindKept DEF IInv, TypeOK, EntityRows
<1>4. (JobsFollowTheirRows /\ HandlersHaveJobs)'
  BY <1>1, KindKept DEF IInv, JobsFollowTheirRows, HandlersHaveJobs
<1> QED
  BY <1>1, <1>2, <1>3, <1>4, NoteInv

\* The submission is over: the note of its failure is on the row, and is read with it.
LEMMA RefreshInv == IInv /\ RefreshEntity => IInv'
<1> SUFFICES ASSUME IInv, RefreshEntity PROVE IInv'
  OBVIOUS
<1> USE DEF IInv
<1>1. /\ creator.phase = "submitting" /\ submit[creator.job] = "done"
      /\ creator' = [creator EXCEPT !.phase = "linking", !.metadata = entity.metadata]
      /\ UNCHANGED <<kind, held, entity, assets, notices, status, payload, submit, handler,
                     editor, edits, document, delivered>>
  BY DEF RefreshEntity, entityVars, jobVars, editVars, rendererVars
<1>2. creator' = [phase |-> "linking", job |-> creator.job, metadata |-> entity.metadata]
  BY <1>1 DEF TypeOK
<1>3. TypeOK'
  BY <1>1, <1>2, KindKept DEF TypeOK, EntityRows
<1>4. (JobsFollowTheirRows /\ HandlersHaveJobs /\ NoEditNoEditor /\ NotifiedOnce)'
  BY <1>1, KindKept DEF JobsFollowTheirRows, HandlersHaveJobs, NoEditNoEditor, NotifiedOnce
<1>5. (NothingBeforeTheJob /\ ToldMeansShown)'
  BY <1>1, <1>2, KindKept DEF NothingBeforeTheJob, ToldMeansShown
<1>6. FailureNoted'
  BY <1>1, <1>2 DEF FailureNoted, Opened
<1>7. (RowsSound /\ AssetsFollowWorkers)'
  BY <1>1, KindKept DEF RowsSound, RowSound, AssetsFollowWorkers, Creating
<1> QED
  BY <1>3, <1>4, <1>5, <1>6, <1>7

\* The metadata saved is that of the row when the submission was over.
LEMMA LinkInv == IInv /\ LinkJob => IInv'
<1> SUFFICES ASSUME IInv, LinkJob PROVE IInv'
  OBVIOUS
<1> USE DEF IInv
<1>1. /\ creator.phase = "linking"
      /\ creator' = [creator EXCEPT !.phase = "done", !.metadata = {}]
      /\ entity' = [entity EXCEPT !.metadata = creator.metadata]
      /\ UNCHANGED <<kind, held, assets, notices, status, payload, submit, handler,
                     editor, edits, document, delivered>>
  BY DEF LinkJob, jobVars, editVars, rendererVars
<1>2. /\ creator' = [phase |-> "done", job |-> creator.job, metadata |-> {}]
      /\ creator.metadata \in SUBSET MetadataKeys /\ creator.job \in Jobs \cup {NONE}
  BY <1>1 DEF TypeOK
<1>3. /\ entity' = [status |-> entity.status, asset |-> entity.asset,
                    metadata |-> creator.metadata, claimed |-> entity.claimed]
      /\ entity' \in EntityRows
  BY <1>1, <1>2 DEF TypeOK, EntityRows
<1>4. TypeOK'
  BY <1>1, <1>2, <1>3, KindKept DEF TypeOK
<1>5. (JobsFollowTheirRows /\ HandlersHaveJobs /\ NoEditNoEditor /\ NotifiedOnce)'
  BY <1>1, KindKept DEF JobsFollowTheirRows, HandlersHaveJobs, NoEditNoEditor, NotifiedOnce
<1>6. (NothingBeforeTheJob /\ ToldMeansShown)'
  BY <1>1, <1>2, <1>3, KindKept DEF NothingBeforeTheJob, ToldMeansShown
<1>7. FailureNoted'
  BY <1>1, <1>2, <1>3 DEF FailureNoted, Opened
<1>8. (RowsSound /\ AssetsFollowWorkers)'
  BY <1>1, <1>3, KindKept DEF RowsSound, RowSound, AssetsFollowWorkers, Creating
<1> QED
  BY <1>4, <1>5, <1>6, <1>7, <1>8

-----------------------------------------------------------------------------
(* The submission *)

\* What a step that only writes the status, the submission and the first document of
\* existing jobs leaves alone.
LEMMA JobStepInv ==
    ASSUME IInv,
           TypeOK',
           UNCHANGED <<kind, held, entity, assets, notices, creator, payload, handler,
                       editor, edits, delivered>>,
           \A j \in Jobs : status'[j] = "absent" <=> status[j] = "absent",
           \A j \in Jobs : submit'[j] # submit[j] => /\ status[j] # "absent"
                                                     /\ submit[j] \in {"created", "posting"}
                                                     /\ submit'[j] \notin {"none", "created"},
           \A j \in Jobs : document'[j] # document[j] => /\ document[j] = NONE
                                                         /\ submit'[j] # submit[j]
    PROVE  IInv'
<1> USE DEF IInv
<1>1. JobsFollowTheirRows'
  BY KindKept DEF JobsFollowTheirRows, TypeOK
<1>2. \A j \in Jobs : document[j] # NONE => document'[j] = document[j]
  OBVIOUS
<1>3. HandlersHaveJobs'
  BY <1>2 DEF HandlersHaveJobs
<1>4. (NoEditNoEditor /\ NotifiedOnce /\ ToldMeansShown /\ AssetsFollowWorkers)'
  BY KindKept DEF NoEditNoEditor, NotifiedOnce, ToldMeansShown, AssetsFollowWorkers, Creating
<1>5. RowsSound'
  <2>1. \A n \in DOMAIN assets : assets[n] \in Jobs
    BY DEF TypeOK
  <2> QED
    BY <1>2, <2>1, KindKept DEF RowsSound, RowSound
<1>6. NothingBeforeTheJob'
  BY DEF NothingBeforeTheJob, TypeOK
<1>7. FailureNoted'
  BY DEF FailureNoted, Opened
<1> QED
  BY <1>1, <1>3, <1>4, <1>5, <1>6, <1>7

LEMMA SubmitNothingInv == ASSUME IInv, NEW j \in Jobs, SubmitNothing(j) PROVE IInv'
<1>1. /\ submit[j] = "created" /\ status[j] # "absent"
      /\ submit' = [submit EXCEPT ![j] = "done"]
      /\ UNCHANGED <<kind, held, entity, assets, notices, creator, payload, handler,
                     editor, edits, document, delivered>>
  BY DEF SubmitNothing, IInv, JobsFollowTheirRows, entityVars, threadVars, editVars, rendererVars
<1>2. PICK s \in {"queued", "submitted"} : status' = [status EXCEPT ![j] = s]
  BY DEF SubmitNothing
<1>3. TypeOK'
  BY <1>1, <1>2, KindKept DEF IInv, TypeOK, JobStatuses
<1> QED
  BY <1>1, <1>2, <1>3, JobStepInv DEF IInv, TypeOK

LEMMA SubmitPostInv == ASSUME IInv, NEW j \in Jobs, SubmitPost(j) PROVE IInv'
<1>1. /\ submit[j] = "created" /\ status[j] # "absent"
      /\ submit' = [submit EXCEPT ![j] = "posting"]
      /\ document[j] = NONE /\ payload[j] = Payload(kind, held)
      /\ UNCHANGED <<kind, held, entity, assets, notices, creator, status, payload, handler,
                     editor, edits, delivered>>
  BY DEF SubmitPost, IInv, JobsFollowTheirRows, entityVars, threadVars, editVars
<1>2. PICK d \in Render(kind, Payload(kind, held)) : document' = [document EXCEPT ![j] = d]
  BY <1>1 DEF SubmitPost
<1>3. TypeOK'
  BY <1>1, <1>2, KindKept DEF IInv, TypeOK
<1> QED
  BY <1>1, <1>2, <1>3, JobStepInv DEF IInv, TypeOK

LEMMA PostAnsweredInv == ASSUME IInv, NEW j \in Jobs, PostAnswered(j) PROVE IInv'
<1>1. /\ submit[j] = "posting" /\ status[j] # "absent"
      /\ submit' = [submit EXCEPT ![j] = "done"]
      /\ status' = [status EXCEPT ![j] = "submitted"]
      /\ UNCHANGED <<kind, held, entity, assets, notices, creator, payload, handler,
                     editor, edits, document, delivered>>
  BY DEF PostAnswered, IInv, JobsFollowTheirRows, entityVars, threadVars, editVars, rendererVars
<1>2. TypeOK'
  BY <1>1, KindKept DEF IInv, TypeOK, JobStatuses
<1> QED
  BY <1>1, <1>2, JobStepInv DEF IInv, TypeOK

\* A submission that raises has run no handler: where the entity has no other job and
\* nothing was delivered, no failure was notified.
LEMMA SubmissionRaisesInv == ASSUME IInv, NEW j \in Jobs, SubmissionRaises(j) PROVE IInv'
<1>1. /\ submit[j] \in {"created", "posting"} /\ status[j] # "absent"
      /\ submit' = [submit EXCEPT ![j] = "done"]
      /\ UNCHANGED <<kind, held, assets, notices, payload, handler, editor, edits, document,
                     delivered>>
  BY DEF SubmissionRaises, IInv, JobsFollowTheirRows, editVars, rendererVars
<1>2. PICK outcome \in {status[j], "submitted", "failed", "timeout"} :
        status' = [status EXCEPT ![j] = outcome]
  BY DEF SubmissionRaises
<1>3. /\ status' \in [Jobs -> JobStatuses \cup {"absent"}]
      /\ submit' \in [Jobs -> {"none", "created", "posting", "propagating", "done"}]
      /\ \A i \in Jobs : status'[i] = "absent" <=> status[i] = "absent"
  BY <1>1, <1>2 DEF IInv, TypeOK, JobStatuses
<1>4. CASE creator.phase = "submitting" /\ creator.job = j
  <2>1. /\ NoteSubmissionError
        /\ entity' = [entity EXCEPT !.metadata = creator.metadata]
        /\ creator' = [creator EXCEPT !.phase = "done", !.metadata = {}]
    BY <1>4 DEF SubmissionRaises, NoteSubmissionError
  <2>2. TypeOK'
    BY <1>1, <1>3, <2>1, KindKept DEF IInv, TypeOK, EntityRows
  <2>3. (JobsFollowTheirRows /\ HandlersHaveJobs)'
    BY <1>1, <1>3, KindKept DEF IInv, JobsFollowTheirRows, HandlersHaveJobs, TypeOK
  <2>4. Opened' = Opened
    BY <1>3 DEF Opened
  <2>5. delivered + edits = 0 /\ notices["failed"] > 0 => Opened' # {creator.job}
    BY <1>1, <1>4, <2>4 DEF IInv, FailureNoted
  <2> QED
    BY <1>1, <1>4, <2>1, <2>2, <2>3, <2>5, NoteInv
<1>5. CASE ~(creator.phase = "submitting" /\ creator.job = j)
  <2>1. UNCHANGED <<creator, entity>>
    BY <1>5 DEF SubmissionRaises
  <2>2. TypeOK'
    BY <1>1, <1>3, <2>1, KindKept DEF IInv, TypeOK
  <2> QED
    BY <1>1, <1>3, <2>1, <2>2, JobStepInv DEF IInv, TypeOK
<1> QED
  BY <1>4, <1>5

LEMMA CancelInv == ASSUME IInv, NEW j \in Jobs, AdminCancel(j) PROVE IInv'
<1>1. /\ status[j] # "absent"
      /\ status' = [status EXCEPT ![j] = "cancelled"]
      /\ UNCHANGED <<kind, held, entity, assets, notices, creator, payload, submit, handler,
                     editor, edits, document, delivered>>
  BY DEF AdminCancel, ActiveJobs, entityVars, threadVars, editVars, rendererVars
<1>2. TypeOK'
  BY <1>1, KindKept DEF IInv, TypeOK, JobStatuses
<1> QED
  BY <1>1, <1>2, JobStepInv DEF IInv, TypeOK

\* The entity has a job already, so the one a retry opens is not the first.
LEMMA RetryInv ==
    ASSUME IInv, NEW old \in Jobs, NEW j \in Jobs, RetryJob(old, j) PROVE IInv'
<1> USE DEF IInv
<1>1. /\ status[old] \in RETRYABLE_STATUSES
      /\ status[j] = "absent"
      /\ status' = [status EXCEPT ![j] = "queued"]
      /\ payload' = [payload EXCEPT ![j] = payload[old]]
      /\ submit' = [submit EXCEPT ![j] = "created"]
      /\ UNCHANGED <<kind, held, entity, assets, notices, creator, handler,
                     editor, edits, document, delivered>>
  BY DEF RetryJob, NewJob, entityVars, threadVars, editVars, rendererVars
<1>2. status[old] # "absent" /\ payload[old] = Payload(kind, held) /\ submit[j] = "none"
  BY <1>1 DEF JobsFollowTheirRows, RETRYABLE_STATUSES
<1>3. TypeOK'
  BY <1>1, <1>2, KindKept DEF TypeOK, JobStatuses
<1>4. (JobsFollowTheirRows /\ HandlersHaveJobs)'
  BY <1>1, <1>2, KindKept DEF JobsFollowTheirRows, HandlersHaveJobs, TypeOK
<1>5. NothingBeforeTheJob'
  BY <1>1, <1>2 DEF NothingBeforeTheJob, TypeOK
<1>6. (NoEditNoEditor /\ NotifiedOnce /\ ToldMeansShown /\ RowsSound /\ AssetsFollowWorkers)'
  BY <1>1, KindKept DEF NoEditNoEditor, NotifiedOnce, ToldMeansShown, RowsSound, RowSound,
                        AssetsFollowWorkers, Creating
<1>7. FailureNoted'
  <2>1. {old, j} \subseteq Opened' /\ old # j
    BY <1>1, <1>2 DEF Opened, TypeOK, RETRYABLE_STATUSES
  <2> QED
    BY <2>1 DEF FailureNoted
<1> QED
  BY <1>3, <1>4, <1>5, <1>6, <1>7

-----------------------------------------------------------------------------
(* The product handlers *)

\* A handler begins or dies: the rows stay as they are.
LEMMA HandlerStepInv ==
    ASSUME IInv,
           TypeOK', JobsFollowTheirRows', HandlersHaveJobs', NothingBeforeTheJob',
           UNCHANGED <<kind, held, entity, assets, notices, creator,
                       editor, edits, document>>,
           delivered' = delivered \/ delivered' = delivered + 1,
           \A j \in Jobs : status'[j] = "absent" <=> status[j] = "absent",
           \A j \in Jobs : submit[j] = "done" => submit'[j] = "done",
           \A t \in Threads : handler'[t].phase = "resolved" => handler'[t] = handler[t]
    PROVE  IInv'
<1> USE DEF IInv
<1>1. (NoEditNoEditor /\ NotifiedOnce /\ ToldMeansShown)'
  BY KindKept DEF NoEditNoEditor, NotifiedOnce, ToldMeansShown
<1>2. RowsSound'
  BY KindKept DEF RowsSound, RowSound
<1>3. AssetsFollowWorkers'
  <2>1. Creating' \subseteq Creating
    BY DEF Creating, Threads
  <2>2. Len(assets) \in Nat
    BY DEF TypeOK
  <2> QED
    BY <2>1, <2>2, CreatingShrinks, CreatingBounded DEF AssetsFollowWorkers
<1>4. FailureNoted'
  <2>1. delivered \in Nat /\ edits \in Nat /\ edits' = edits
    BY ReportNumbers DEF TypeOK
  <2>2. delivered' + edits' = 0 => delivered + edits = 0
    BY <2>1
  <2> QED
    BY <2>2 DEF FailureNoted, Opened
<1> QED
  BY <1>1, <1>2, <1>3, <1>4

LEMMA PostFailsInv == ASSUME IInv, NEW j \in Jobs, PostFails(j) PROVE IInv'
<1> USE DEF IInv
<1>1. PICK outcome \in {"failed", "timeout"} :
        /\ status' = [status EXCEPT ![j] = outcome]
        /\ handler' = [handler EXCEPT ![j] =
             [phase |-> "dispatched", job |-> j, new |-> outcome, seen |-> NOTHING_SEEN]]
  BY DEF PostFails, Dispatch
<1>2. /\ submit[j] \in {"created", "posting"} /\ status[j] # "absent" /\ j \in Threads
      /\ submit' = [submit EXCEPT ![j] = "propagating"]
      /\ UNCHANGED <<kind, held, entity, assets, notices, creator, payload,
                     editor, edits, document, delivered>>
  BY DEF PostFails, JobsFollowTheirRows, Threads, entityVars, editVars, rendererVars
<1>3. [phase |-> "dispatched", job |-> j, new |-> outcome, seen |-> NOTHING_SEEN]
        \in [phase : {"idle", "dispatched", "resolved"}, job : Jobs \cup {NONE},
             new : JobStatuses \cup {NONE}, seen : SeenRows]
  BY DEF NOTHING_SEEN, SeenRows, JobStatuses
<1>4. TypeOK'
  BY <1>1, <1>2, <1>3, KindKept DEF TypeOK, JobStatuses
<1>5. JobsFollowTheirRows'
  BY <1>1, <1>2, KindKept DEF JobsFollowTheirRows, TypeOK
<1>6. HandlersHaveJobs'
  BY <1>1, <1>2 DEF HandlersHaveJobs, TypeOK
<1>7. NothingBeforeTheJob'
  BY <1>1, <1>2 DEF NothingBeforeTheJob, TypeOK
<1> QED
  BY <1>1, <1>2, <1>4, <1>5, <1>6, <1>7, HandlerStepInv DEF TypeOK

LEMMA DiesInv == ASSUME IInv, NEW t \in Threads, HandlerDies(t) PROVE IInv'
<1> USE DEF IInv
<1>1. /\ handler[t].phase # "idle"
      /\ handler' = [handler EXCEPT ![t] = IDLE]
      /\ submit' = IF t \in Jobs THEN [submit EXCEPT ![t] = "done"] ELSE submit
      /\ UNCHANGED <<kind, held, entity, assets, notices, creator, status, payload,
                     editor, edits, document, delivered>>
  BY DEF HandlerDies, entityVars, editVars, rendererVars
<1>2. IDLE \in [phase : {"idle", "dispatched", "resolved"}, job : Jobs \cup {NONE},
                new : JobStatuses \cup {NONE}, seen : SeenRows]
  BY DEF IDLE, NOTHING_SEEN, SeenRows
<1>3. TypeOK'
  BY <1>1, <1>2, KindKept DEF TypeOK
<1>4. JobsFollowTheirRows'
  BY <1>1, KindKept DEF JobsFollowTheirRows, HandlersHaveJobs, TypeOK
<1>5. HandlersHaveJobs'
  BY <1>1 DEF HandlersHaveJobs, TypeOK, IDLE
<1>6. NothingBeforeTheJob'
  BY <1>1 DEF NothingBeforeTheJob, TypeOK
<1> QED
  BY <1>1, <1>3, <1>4, <1>5, <1>6, HandlerStepInv DEF TypeOK, IDLE

LEMMA ReceiveInv ==
    ASSUME IInv, NEW j \in Jobs, NEW w \in Workers, ReceiveCallback(j, w) PROVE IInv'
<1> USE DEF IInv
<1> DEFINE begun == [phase |-> "dispatched", job |-> j, new |-> document[j].status,
                     seen |-> NOTHING_SEEN]
<1>1. /\ document[j] # NONE /\ status[j] # "absent"
      /\ Writes < MaxWrites /\ delivered' = delivered + 1
      /\ handler' = handler \/ handler' = [handler EXCEPT ![w] = begun]
      /\ UNCHANGED <<kind, held, entity, assets, notices, creator, status, payload, submit,
                     editor, edits, document>>
  BY DEF ReceiveCallback, Dispatch, JobsFollowTheirRows, entityVars, jobVars, editVars
<1>2. document[j].status \in {"completed", "failed"}
  BY <1>1 DEF TypeOK, Render, RenderReport, RenderMediaKit, WithTimeout, Store, Document, FAILED
<1>3. w \in Threads /\ w \notin Jobs
  BY ReportThreads DEF Threads
<1>4. begun \in [phase : {"idle", "dispatched", "resolved"}, job : Jobs \cup {NONE},
                 new : JobStatuses \cup {NONE}, seen : SeenRows]
  BY <1>2 DEF NOTHING_SEEN, SeenRows, JobStatuses
<1>5. TypeOK'
  <2>1. delivered' \in 0..MaxWrites
    BY <1>1, ReportNumbers DEF TypeOK, Writes
  <2>2. handler' \in [Threads -> [phase : {"idle", "dispatched", "resolved"},
                                  job : Jobs \cup {NONE}, new : JobStatuses \cup {NONE},
                                  seen : SeenRows]]
    BY <1>1, <1>4 DEF TypeOK
  <2> QED
    BY <1>1, <2>1, <2>2, KindKept DEF TypeOK
<1>6. (JobsFollowTheirRows /\ NothingBeforeTheJob)'
  BY <1>1, KindKept DEF JobsFollowTheirRows, NothingBeforeTheJob
<1>7. HandlersHaveJobs'
  BY <1>1, <1>3 DEF HandlersHaveJobs, TypeOK
<1>8. \A t \in Threads : handler'[t].phase = "resolved" => handler'[t] = handler[t]
  BY <1>1, <1>3 DEF TypeOK
<1> QED
  BY <1>1, <1>5, <1>6, <1>7, <1>8, HandlerStepInv

\* The handler reads the row: from then on it is to create an Asset, if the row has none.
LEMMA ResolveInv == ASSUME IInv, NEW t \in Threads, ResolveEntity(t) PROVE IInv'
<1> USE DEF IInv
<1>1. /\ handler[t].phase = "dispatched"
      /\ handler' = [handler EXCEPT
                     ![t].phase = "resolved",
                     ![t].seen = [asset |-> entity.asset, metadata |-> entity.metadata]]
      /\ UNCHANGED <<kind, held, entity, assets, notices, creator, status, payload, submit,
                     editor, edits, document, delivered>>
  BY DEF ResolveEntity, entityVars, jobVars, editVars, rendererVars
<1>2. handler'[t] = [phase |-> "resolved", job |-> handler[t].job, new |-> handler[t].new,
                     seen |-> [asset |-> entity.asset, metadata |-> entity.metadata]]
  BY <1>1 DEF TypeOK
<1>3. \A s \in Threads \ {t} : handler'[s] = handler[s]
  BY <1>1 DEF TypeOK
<1>4. TypeOK'
  <2>1. handler' \in [Threads -> [phase : {"idle", "dispatched", "resolved"},
                                  job : Jobs \cup {NONE}, new : JobStatuses \cup {NONE},
                                  seen : SeenRows]]
    <3>1. handler'[t] \in [phase : {"idle", "dispatched", "resolved"}, job : Jobs \cup {NONE},
                           new : JobStatuses \cup {NONE}, seen : SeenRows]
      BY <1>2 DEF TypeOK, EntityRows, SeenRows
    <3> QED
      BY <1>1, <3>1 DEF TypeOK
  <2> QED
    BY <1>1, <2>1, KindKept DEF TypeOK
<1>5. (JobsFollowTheirRows /\ NothingBeforeTheJob /\ NoEditNoEditor /\ NotifiedOnce
       /\ ToldMeansShown)'
  BY <1>1, KindKept DEF JobsFollowTheirRows, NothingBeforeTheJob, NoEditNoEditor,
                        NotifiedOnce, ToldMeansShown
<1>6. HandlersHaveJobs'
  <2>1. \A s \in Threads : /\ handler'[s].job = handler[s].job
                           /\ handler'[s].new = handler[s].new
                           /\ handler'[s].phase # "idle" => handler[s].phase # "idle"
    <3>1. handler[t].phase # "idle"
      BY <1>1
    <3> QED
      BY <1>2, <1>3, <3>1
  <2>2. UNCHANGED <<status, submit, document, delivered>>
    BY <1>1
  <2> QED
    BY <2>1, <2>2 DEF HandlersHaveJobs
<1>7. RowsSound'
  <2>1. entity.asset \in LinksOf(Len(assets))
    BY DEF TypeOK, LinksOf
  <2>2. \A s \in Threads : handler'[s].phase = "resolved" => handler'[s].seen.asset \in LinksOf(Len(assets))
    BY <1>2, <1>3, <2>1 DEF RowsSound
  <2> QED
    BY <1>1, <2>2, KindKept DEF RowsSound, RowSound
<1>8. AssetsFollowWorkers'
  <2>1. CASE entity.asset = 0
    BY <1>1, <2>1 DEF AssetsFollowWorkers
  <2>2. CASE entity.asset # 0
    <3>1. Creating' \subseteq Creating
      BY <1>2, <1>3, <2>2 DEF Creating, Threads
    <3>2. Len(assets) \in Nat
      BY DEF TypeOK
    <3> QED
      BY <1>1, <2>2, <3>1, <3>2, CreatingShrinks, CreatingBounded DEF AssetsFollowWorkers
  <2> QED
    BY <2>1, <2>2
<1>9. FailureNoted'
  BY <1>1 DEF FailureNoted, Opened
<1> QED
  BY <1>4, <1>5, <1>6, <1>7, <1>8, <1>9

\* What both product handlers leave behind: the thread is idle and its submission over,
\* and the job, which exists, has the outcome.
LEMMA CommitJobs ==
    ASSUME IInv, NEW t \in Threads, CommitHandler(t)
    PROVE  /\ (JobsFollowTheirRows /\ HandlersHaveJobs /\ NoEditNoEditor)'
           /\ \A j \in Jobs : status'[j] = "absent" <=> status[j] = "absent"
           /\ status' \in [Jobs -> JobStatuses \cup {"absent"}]
           /\ submit' \in [Jobs -> {"none", "created", "posting", "propagating", "done"}]
           /\ \A j \in Jobs : submit[j] = "done" => submit'[j] = "done"
           /\ handler' = [handler EXCEPT ![t] = IDLE]
           /\ handler' \in [Threads -> [phase : {"idle", "dispatched", "resolved"},
                                        job : Jobs \cup {NONE},
                                        new : JobStatuses \cup {NONE},
                                        seen : SeenRows]]
<1> USE DEF IInv
<1>1. /\ handler[t].phase = "resolved" /\ handler[t].job \in Jobs
      /\ status[handler[t].job] # "absent"
      /\ status' = [status EXCEPT ![handler[t].job] = handler[t].new]
      /\ submit' = IF t \in Jobs THEN [submit EXCEPT ![t] = "done"] ELSE submit
      /\ handler' = [handler EXCEPT ![t] = IDLE]
      /\ UNCHANGED <<kind, held, creator, payload, editor, edits, document, delivered>>
  BY DEF CommitHandler, HandlersHaveJobs, editVars, rendererVars
<1>2. /\ handler[t].new \in {"completed", "failed", "timeout"}
      /\ t \in Jobs => status[t] # "absent"
  BY <1>1 DEF HandlersHaveJobs, TypeOK, Render, RenderReport, RenderMediaKit, WithTimeout,
              Store, Document, FAILED
<1>3. JobsFollowTheirRows'
  BY <1>1, <1>2, KindKept DEF JobsFollowTheirRows, TypeOK
<1>4. HandlersHaveJobs'
  BY <1>1, <1>2 DEF HandlersHaveJobs, TypeOK, IDLE
<1>5. NoEditNoEditor'
  BY <1>1 DEF NoEditNoEditor
<1>6. IDLE \in [phase : {"idle", "dispatched", "resolved"}, job : Jobs \cup {NONE},
                new : JobStatuses \cup {NONE}, seen : SeenRows]
  BY DEF IDLE, NOTHING_SEEN, SeenRows
<1>7. /\ handler' \in [Threads -> [phase : {"idle", "dispatched", "resolved"},
                                  job : Jobs \cup {NONE}, new : JobStatuses \cup {NONE},
                                  seen : SeenRows]]
      /\ submit' \in [Jobs -> {"none", "created", "posting", "propagating", "done"}]
  BY <1>1, <1>6 DEF TypeOK
<1>8. /\ status' \in [Jobs -> JobStatuses \cup {"absent"}]
      /\ \A j \in Jobs : status'[j] = "absent" <=> status[j] = "absent"
      /\ \A j \in Jobs : submit[j] = "done" => submit'[j] = "done"
  BY <1>1, <1>2 DEF TypeOK, JobStatuses
<1> QED
  BY <1>1, <1>3, <1>4, <1>5, <1>7, <1>8

\* A failure keeps the link and the Assets.  Where the one job there is failed at its
\* submission, it leaves its note in the row.
LEMMA FailedInv ==
    ASSUME IInv, NEW t \in Threads, CommitHandler(t), handler[t].new \in FAILURE_STATUSES
    PROVE  IInv'
<1> USE DEF IInv
<1>1. /\ handler[t].phase = "resolved" /\ handler[t].job \in Jobs
      /\ entity' = [entity EXCEPT !.status = FailedStatus,
                                  !.metadata = handler[t].seen.metadata \cup {"failed"}]
      /\ notices' = [notices EXCEPT !["failed"] = IF @ = 0 THEN 1 ELSE @]
      /\ handler' = [handler EXCEPT ![t] = IDLE]
      /\ UNCHANGED <<kind, held, assets, creator, payload, editor, edits, document,
                     delivered>>
  BY DEF CommitHandler, Failed, NotifyOnce, HandlersHaveJobs, editVars, rendererVars
<1>2. /\ entity' = [status |-> FailedStatus, asset |-> entity.asset,
                    metadata |-> handler[t].seen.metadata \cup {"failed"},
                    claimed |-> entity.claimed]
      /\ entity' \in EntityRows
      /\ FailedStatus = IF kind = "report" THEN "failed" ELSE entity.status
  BY <1>1 DEF TypeOK, EntityRows, EntityStatuses, SeenRows, FailedStatus, MetadataKeys
<1>3. creator.phase # "idle" /\ creator.phase # "created" /\ entity.status # "absent"
  <2>1. status[handler[t].job] # "absent"
    BY <1>1 DEF HandlersHaveJobs
  <2> QED
    BY <1>1, <2>1 DEF NothingBeforeTheJob
<1>4. TypeOK'
  <2>1. notices' \in [{"ready", "failed"} -> Nat]
    BY <1>1 DEF TypeOK
  <2> QED
    BY <1>1, <1>2, <2>1, CommitJobs, KindKept DEF TypeOK
<1>5. NothingBeforeTheJob'
  BY <1>1, <1>2, <1>3, CommitJobs DEF NothingBeforeTheJob, TypeOK
<1>6. (NotifiedOnce /\ ToldMeansShown)'
  <2>1. NotifiedOnce'
    BY <1>1 DEF NotifiedOnce, TypeOK
  <2>2. ToldMeansShown'
    BY <1>1, <1>2, KindKept DEF ToldMeansShown, TypeOK, INITIAL, READY
  <2> QED
    BY <2>1, <2>2
<1>7. RowsSound'
  <2>1. RowSound(entity)'
    BY <1>1, <1>2, <1>3, KindKept DEF RowsSound, RowSound, READY, FailedStatus
  <2>2. \A s \in Threads : handler'[s].phase = "resolved" => handler'[s] = handler[s]
    BY <1>1 DEF TypeOK, IDLE
  <2> QED
    BY <1>1, <2>1, <2>2, KindKept DEF RowsSound, RowSound
<1>8. AssetsFollowWorkers'
  <2>1. Creating' \subseteq Creating
    BY <1>1 DEF Creating, Threads, TypeOK, IDLE
  <2>2. Len(assets) \in Nat
    BY DEF TypeOK
  <2> QED
    BY <1>1, <1>2, <2>1, <2>2, CreatingShrinks, CreatingBounded DEF AssetsFollowWorkers
<1>9. FailureNoted'
  <2>1. SUFFICES ASSUME Opened' = {creator.job}, delivered = 0
                 PROVE  creator.phase # "linking" /\ submit'[creator.job] = "done"
    BY <1>1, <1>2 DEF FailureNoted, TypeOK
  <2>2. handler[t].job = creator.job /\ t \in Jobs /\ handler[t].job = t
    BY <1>1, <2>1, CommitJobs DEF Opened, HandlersHaveJobs
  <2>3. submit[t] = "propagating" /\ submit'[t] = "done"
    BY <1>1, <2>2 DEF HandlersHaveJobs, CommitHandler, TypeOK
  <2> QED
    BY <2>2, <2>3 DEF NothingBeforeTheJob
<1> QED
  BY <1>4, <1>5, <1>6, <1>7, <1>8, <1>9, CommitJobs

\* A completion makes the row ready, with the Asset it creates or the one it has seen.
\* A worker that creates one is one less that is to create one.
LEMMA CompletedInv ==
    ASSUME IInv, NEW t \in Threads, CommitHandler(t), handler[t].new \notin FAILURE_STATUSES
    PROVE  IInv'
<1> USE DEF IInv
<1> DEFINE j == handler[t].job
           seen == handler[t].seen
           row == [status |-> READY,
                   asset |-> IF seen.asset = 0 THEN Len(assets') ELSE seen.asset,
                   metadata |-> seen.metadata, claimed |-> FALSE]
<1>1. /\ handler[t].phase = "resolved" /\ j \in Jobs /\ status[j] # "absent"
      /\ t \in Workers /\ t \notin Jobs
      /\ document[j] # NONE /\ delivered # 0
      /\ handler[t].new = "completed" /\ document[j].status = "completed"
  <2>1. handler[t].phase = "resolved"
    BY DEF CommitHandler
  <2>2. j \in Jobs /\ status[j] # "absent" /\ t \notin Jobs
    BY <2>1 DEF HandlersHaveJobs, FAILURE_STATUSES
  <2>3. document[j] # NONE /\ delivered # 0 /\ handler[t].new = document[j].status
    BY <2>1, <2>2 DEF HandlersHaveJobs
  <2>4. document[j].status \in {"completed", "failed"}
    BY <2>2, <2>3 DEF TypeOK, Render, RenderReport, RenderMediaKit, WithTimeout, Store,
                      Document, FAILED
  <2> QED
    BY <2>1, <2>2, <2>3, <2>4 DEF FAILURE_STATUSES, Threads
<1>2. /\ assets' = IF seen.asset = 0 THEN Append(assets, j) ELSE assets
      /\ entity' = row
      /\ notices' = [notices EXCEPT !["ready"] = IF @ = 0 THEN 1 ELSE @]
      /\ handler' = [handler EXCEPT ![t] = IDLE]
      /\ UNCHANGED <<kind, held, creator, payload, editor, edits, document,
                     delivered>>
  BY <1>1 DEF CommitHandler, Completed, CreateAsset, HasAsset, NotifyOnce, editVars,
              rendererVars
<1>3. /\ assets' \in Seq(Jobs) /\ Len(assets') \in Nat /\ Len(assets) \in Nat
      /\ Len(assets') = IF seen.asset = 0 THEN Len(assets) + 1 ELSE Len(assets)
      /\ \A n \in DOMAIN assets' : assets'[n] = j \/ (n \in DOMAIN assets /\ assets'[n] = assets[n])
  BY <1>1, <1>2 DEF TypeOK
<1>4. /\ seen.asset \in LinksOf(Len(assets)) /\ seen \in SeenRows
      /\ row.asset \in LinksOf(Len(assets')) /\ row.asset # 0
  BY <1>1, <1>3 DEF RowsSound, TypeOK, LinksOf, UPLOADED
<1>5. row \in EntityRows /\ READY # "absent" /\ READY # INITIAL
  BY <1>3, <1>4 DEF TypeOK, Kinds, EntityRows, EntityStatuses, SeenRows, LinksOf, READY, INITIAL
<1>6. creator.phase # "idle" /\ creator.phase # "created" /\ entity.status # "absent"
  BY <1>1 DEF NothingBeforeTheJob
<1>7. TypeOK'
  <2>1. notices' \in [{"ready", "failed"} -> Nat]
    BY <1>2 DEF TypeOK
  <2>2. entity'.asset \in {UPLOADED} \cup 0..Len(assets')
    BY <1>2, <1>4 DEF LinksOf
  <2> QED
    BY <1>2, <1>3, <1>5, <2>1, <2>2, CommitJobs, KindKept DEF TypeOK
<1>8. NothingBeforeTheJob'
  BY <1>2, <1>5, <1>6, CommitJobs DEF NothingBeforeTheJob
<1>9. (NotifiedOnce /\ ToldMeansShown)'
  <2>1. NotifiedOnce'
    BY <1>2 DEF NotifiedOnce, TypeOK
  <2>2. entity'.status = READY'
    BY <1>2, KindKept
  <2> QED
    BY <2>1, <2>2, <1>5, <1>2, KindKept DEF ToldMeansShown
<1>10. RowsSound'
  <2>1. RowSound(entity)'
    BY <1>2, <1>3, <1>4, <1>5, KindKept DEF RowSound
  <2>2. \A s \in Threads : handler'[s].phase = "resolved" => handler'[s] = handler[s]
    BY <1>2 DEF TypeOK, IDLE
  <2>3. LinksOf(Len(assets)) \subseteq LinksOf(Len(assets'))
    BY <1>3 DEF LinksOf
  <2>4. \A n \in DOMAIN assets' :
          document'[assets'[n]] # NONE /\ document'[assets'[n]].status = "completed"
    BY <1>1, <1>2, <1>3 DEF RowsSound
  <2>5. \A u \in Users : editor'[u] # NONE => RowSound(editor[u])'
    BY <1>2, <2>3, KindKept DEF RowsSound, RowSound
  <2>6. \A s \in Threads : handler'[s].phase = "resolved" => handler'[s].seen.asset \in LinksOf(Len(assets'))
    BY <2>2, <2>3 DEF RowsSound
  <2> QED
    BY <1>2, <1>5, <2>1, <2>4, <2>5, <2>6 DEF RowsSound
<1>11. AssetsFollowWorkers'
  <2>1. Creating' = Creating \ {t}
    BY <1>1, <1>2 DEF Creating, Threads, TypeOK, IDLE
  <2>2. t \in Creating <=> seen.asset = 0
    BY <1>1 DEF Creating
  <2>3. Cardinality(Creating') = IF seen.asset = 0 THEN Cardinality(Creating) - 1
                                                  ELSE Cardinality(Creating)
    BY <2>1, <2>2, CreatingBounded, FS_RemoveElement
  <2>4. entity'.asset # 0
    BY <1>2, <1>4
  <2>5. assets = <<>> => Len(assets) = 0
    OBVIOUS
  <2>6. entity.asset = 0 /\ edits = 0 => Len(assets) = 0
    BY <2>5 DEF AssetsFollowWorkers
  <2> QED
    BY <1>2, <1>3, <2>3, <2>4, <2>5, <2>6, CreatingBounded DEF AssetsFollowWorkers
<1>12. FailureNoted'
  BY <1>1, <1>2 DEF FailureNoted, TypeOK
<1> QED
  BY <1>7, <1>8, <1>9, <1>10, <1>11, <1>12, CommitJobs

-----------------------------------------------------------------------------
(* The users *)

\* An edit begun is counted, so nothing is promised any more that an edit could undo.
LEMMA BeginEditInv == ASSUME IInv, NEW u \in Users, BeginEdit(u) PROVE IInv'
<1> USE DEF IInv
<1>1. /\ entity.status # "absent" /\ edits < MaxEdits
      /\ edits' = edits + 1
      /\ editor' = [editor EXCEPT ![u] = entity]
      /\ UNCHANGED <<kind, held, entity, assets, notices, creator, status, payload, submit,
                     handler, document, delivered>>
  BY DEF BeginEdit, entityVars, jobVars, threadVars, rendererVars
<1>2. edits' # 0 /\ edits' \in 0..MaxEdits
  BY <1>1, ReportNumbers DEF TypeOK
<1>3. TypeOK'
  BY <1>1, <1>2, KindKept DEF TypeOK
<1>4. (JobsFollowTheirRows /\ HandlersHaveJobs /\ NothingBeforeTheJob /\ NotifiedOnce)'
  BY <1>1, KindKept DEF JobsFollowTheirRows, HandlersHaveJobs, NothingBeforeTheJob,
                        NotifiedOnce
<1>5. (NoEditNoEditor /\ ToldMeansShown /\ AssetsFollowWorkers /\ FailureNoted)'
  <2>1. delivered' + edits' # 0
    BY <1>1, <1>2, ReportNumbers DEF TypeOK
  <2> QED
    BY <1>2, <2>1 DEF NoEditNoEditor, ToldMeansShown, AssetsFollowWorkers, FailureNoted, TypeOK
<1>6. RowsSound'
  BY <1>1, KindKept DEF RowsSound, RowSound, TypeOK
<1> QED
  BY <1>3, <1>4, <1>5, <1>6

LEMMA CommitEditInv == ASSUME IInv, NEW u \in Users, CommitEdit(u) PROVE IInv'
<1> USE DEF IInv
<1>1. /\ editor[u] # NONE
      /\ entity' \in Written(editor[u])
      /\ editor' = [editor EXCEPT ![u] = NONE]
      /\ UNCHANGED <<kind, held, assets, notices, creator, status, payload, submit, handler,
                     edits, document, delivered>>
  BY DEF CommitEdit, jobVars, threadVars, rendererVars
<1>2. edits # 0
  BY <1>1 DEF NoEditNoEditor
<1>3. editor[u] \in EntityRows /\ RowSound(editor[u])
  BY <1>1 DEF RowsSound, TypeOK
<1>4. entity' \in EntityRows /\ RowSound(entity')
  <2>1. assets \in Seq(Jobs)
    BY DEF TypeOK
  <2> QED
    BY <1>1, <1>3, <2>1, WrittenRow DEF RowSound
<1>5. /\ entity.status # "absent" /\ entity'.status # "absent"
      /\ creator.phase # "idle"
  BY <1>1, <1>4 DEF RowsSound, RowSound, NothingBeforeTheJob
<1>6. TypeOK'
  BY <1>1, <1>4, KindKept DEF TypeOK, RowSound, LinksOf
<1>7. (JobsFollowTheirRows /\ HandlersHaveJobs /\ NotifiedOnce)'
  BY <1>1, KindKept DEF JobsFollowTheirRows, HandlersHaveJobs, NotifiedOnce
<1>8. (NothingBeforeTheJob /\ NoEditNoEditor /\ ToldMeansShown /\ AssetsFollowWorkers
       /\ FailureNoted)'
  BY <1>1, <1>2, <1>5 DEF NothingBeforeTheJob, NoEditNoEditor, ToldMeansShown,
     AssetsFollowWorkers, FailureNoted, TypeOK
<1>9. RowsSound'
  BY <1>1, <1>4, <1>5, KindKept DEF RowsSound, RowSound, TypeOK
<1> QED
  BY <1>6, <1>7, <1>8, <1>9

-----------------------------------------------------------------------------
(* The theorems *)

\* Every step keeps the invariant.
LEMMA StepInv == IInv /\ [Next]_vars => IInv'
<1> SUFFICES ASSUME IInv, [Next]_vars PROVE IInv'
  OBVIOUS
<1>1. ASSUME NEW t \in Threads, CommitHandler(t) PROVE IInv'
  BY <1>1, FailedInv, CompletedInv
<1>2. CASE Next
  BY <1>1, <1>2, CreateInv, OpeningRaisesInv, RefreshInv, LinkInv, OpenInv, SubmitNothingInv,
     SubmitPostInv, PostAnsweredInv, PostFailsInv, SubmissionRaisesInv, RetryInv, CancelInv, ReceiveInv,
     ResolveInv, DiesInv, BeginEditInv, CommitEditInv DEF Next
<1>3. CASE UNCHANGED vars
  <2>1. UNCHANGED <<kind, held, entity, assets, notices, creator, status, payload, submit,
                    handler, editor, edits, document, delivered>>
    BY <1>3 DEF vars, entityVars, jobVars, threadVars, editVars, rendererVars
  <2>2. TypeOK'
    BY <2>1, KindKept DEF IInv, TypeOK
  <2> QED
    BY <2>1, <2>2, JobStepInv DEF IInv, TypeOK
<1> QED
  BY <1>2, <1>3

\* The inductive invariant holds in every reachable state, for any number of jobs and
\* workers, and whatever users write in the row.
THEOREM Invariant == Spec => []IInv
  BY InitInv, StepInv, PTL DEF Spec

\* The state of the entity, of its jobs and of the threads is always well formed: a
\* media kit is never given the status of a failed report, and a link is to an Asset.
THEOREM TypeCorrect == Spec => []TypeOK
<1>1. IInv => TypeOK
  BY DEF IInv
<1> QED
  BY Invariant, <1>1, PTL

\* The lookup under the lock of the row makes one notification of any number of
\* handlers that apply the same outcome.
THEOREM NotifiedOnceCorrect == Spec => []NotifiedOnce
<1>1. IInv => NotifiedOnce
  BY DEF IInv
<1> QED
  BY Invariant, <1>1, PTL

\* No interleaving of handlers, retries and stale edits shows an entity its jobs made ready
\* without a file, or makes it an Asset the renderer did not store; whatever users write.
THEOREM ReadyHasFileCorrect == Spec => []ReadyHasFile
<1>1. IInv => ReadyHasFile
  <2> SUFFICES ASSUME IInv PROVE ReadyHasFile
    OBVIOUS
  <2>1. READY # "absent"
    BY DEF READY
  <2> QED
    BY <2>1 DEF IInv, RowsSound, RowSound, ReadyHasFile
<1> QED
  BY Invariant, <1>1, PTL

\* While no user edits the entity, it has at most one Asset for each worker, however many
\* jobs and deliveries there are.
THEOREM AssetsBounded == Spec => []AssetsBoundedByWorkers
<1>1. IInv => AssetsBoundedByWorkers
  <2> SUFFICES ASSUME IInv, edits = 0 PROVE Len(assets) <= Cardinality(Workers)
    BY DEF AssetsBoundedByWorkers
  <2>1. Len(assets) \in Nat
    BY DEF IInv, TypeOK
  <2>2. assets = <<>> => Len(assets) = 0
    OBVIOUS
  <2> QED
    BY <2>1, <2>2, CreatingBounded DEF IInv, AssetsFollowWorkers
<1> QED
  BY Invariant, <1>1, PTL

\* Whoever was notified finds the outcome on the entity.
THEOREM ToldMeansShownCorrect == Spec => []ToldMeansShown
<1>1. IInv => ToldMeansShown
  BY DEF IInv
<1> QED
  BY Invariant, <1>1, PTL

\* The merge of the job's id into the metadata does not undo the note that the
\* submission of that job failed.
THEOREM SubmissionFailureNoted == Spec => []SubmissionFailureKept
<1>1. IInv => SubmissionFailureKept
  BY DEF IInv, FailureNoted, SubmissionFailureKept
<1> QED
  BY Invariant, <1>1, PTL

\* What Django sends of what is held, and the renderer shows of what it was sent.
LEMMA RenderFaithful ==
    ASSUME kind \in Kinds, NEW d \in Render(kind, Payload(kind, held)),
           d.status = "completed"
    PROVE  /\ d.shown \subseteq held
           /\ held \cap {"campaign", "artist", "track"} \subseteq d.shown
<1>1. CASE kind = "report"
  <2>1. d.shown = ReportModel(ReportPayload(held)) \ {"outputs"}
    BY <1>1 DEF Render, WithTimeout, RenderReport, Store, Document, FAILED, PdfReport,
                HtmlReport, Payload
  <2>2. ReportModel(ReportPayload(held)) \subseteq held \cup {"outputs"}
    BY DEF ReportModel, ReportPayload, NamesOf, Field, AsRecord, Block, Rows, RowsOf
  <2>3. held \cap {"campaign", "artist", "track"} \subseteq ReportModel(ReportPayload(held))
    BY DEF ReportModel, ReportPayload, NamesOf, Field, AsRecord, Block
  <2> QED
    BY <2>1, <2>2, <2>3
<1>2. CASE kind = "media_kit"
  <2>1. d.shown = MediaKitModel(MediaKitPayload(held))
    BY <1>2 DEF Render, WithTimeout, RenderMediaKit, Store, Document, FAILED, PdfMediaKit,
                HtmlMediaKit, Payload
  <2>2. MediaKitModel(MediaKitPayload(held)) \subseteq held
    BY DEF MediaKitModel, MediaKitPayload, NamesOf, Field, AsRecord, Block, Rows, RowsOf
  <2>3. held \cap {"campaign", "artist", "track"} \subseteq MediaKitModel(MediaKitPayload(held))
    BY DEF MediaKitModel, MediaKitPayload, NamesOf, Field, AsRecord, Block
  <2> QED
    BY <2>1, <2>2, <2>3
<1> QED
  BY <1>1, <1>2 DEF Kinds

\* Every stored document names what its entity has and shows nothing the workspace does
\* not hold, that of a retried job too.
THEOREM DocumentsFaithfulCorrect == Spec => []DocumentsFaithful
<1>1. IInv => DocumentsFaithful
  <2> SUFFICES ASSUME IInv, NEW n \in DOMAIN assets
               PROVE  /\ document[assets[n]].shown \subseteq held
                      /\ held \cap {"campaign", "artist", "track"}
                           \subseteq document[assets[n]].shown
    BY DEF DocumentsFaithful
  <2>1. /\ assets[n] \in Jobs /\ kind \in Kinds
        /\ document[assets[n]] \in Render(kind, Payload(kind, held))
        /\ document[assets[n]].status = "completed"
    BY DEF IInv, TypeOK, RowsSound
  <2> QED
    BY <2>1, RenderFaithful
<1> QED
  BY Invariant, <1>1, PTL
=============================================================================
