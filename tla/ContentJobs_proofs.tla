------------------------- MODULE ContentJobs_proofs -------------------------
(***************************************************************************)
(* Proofs about ContentJobs, for any number of requests, jobs, workers,    *)
(* operators and outputs.                                                  *)
(***************************************************************************)
EXTENDS ContentJobs, ContentDocument, FiniteSetTheorems, TLAPS

(* The inductive invariant *)

\* A job that does not exist yet has no entity, no thread, no POST and no render.
AbsentJobs ==
    \A j \in Jobs :
      /\ status[j] = "absent" <=> entity[j] = NONE
      /\ entity[j] = NONE => submit[j] = "none"
      /\ submit[j] \in {"none", "created"} => post[j] = "none"
      /\ post[j] # "gone" => render[j] = "none"

\* A handler in progress has a job with a request, and applies an outcome that some
\* sender produces; a submission thread only ever handles its own job.
HandlersHaveJobs ==
    \A t \in Threads :
      handler[t].phase # "idle" =>
        /\ handler[t].job \in Jobs
        /\ entity[handler[t].job] \in Requests
        /\ handler[t].new \in {"completed", "partially_completed", "failed", "timeout"}
        /\ t \in Jobs => handler[t].job = t

\* The send loop has an attempt left whenever it is about to send, and waits on a worker
\* exactly while an attempt is open.
AttemptsLeft ==
    \A j \in Jobs :
      /\ render[j] = "waiting" <=> awaiting[j] # NONE
      /\ render[j] \in {"none", "accepted"} => attempts[j] = 0
      /\ render[j] = "reporting" => attempts[j] < MaxAttempts

\* Everything that refers to a request refers to one that exists.
RequestsExist ==
    /\ \A r \in creating : request[r] = "absent"
    /\ \A r \in opening : request[r] # "absent"
    /\ \A j \in Jobs : entity[j] \in Requests => request[entity[j]] # "absent"
    /\ \A p \in Operators : operator[p] \in Requests => request[operator[p]] # "absent"

\* The reservation is there from the transaction that made the request on.
LedgerFollowsRequests ==
    \A r \in Requests :
      /\ request[r] = "absent" => /\ <<"reserve", r>> \notin ledger
                                  /\ <<"consume", r>> \notin ledger
                                  /\ <<"release", r>> \notin ledger
      /\ request[r] # "absent" /\ Cost > 0 => <<"reserve", r>> \in ledger

\* There are finitely many reservations, so they can be counted.
FiniteReservations == IsFiniteSet(Reserved)

\* What a handler in progress has read of an output still holds: an Asset, once made, stays.
SeenHaveAssets ==
    \A t \in Threads :
      /\ handler[t].phase = "idle" => handler[t].seen = {}
      /\ \A x \in handler[t].seen : x.asset => assets[RequestOf(t)][x.output] > 0

IInv ==
    /\ TypeOK
    /\ AbsentJobs
    /\ HandlersHaveJobs
    /\ AttemptsLeft
    /\ RequestsExist
    /\ LedgerFollowsRequests
    /\ FiniteReservations
    /\ CreditsAccounted
    /\ OutcomeSettlesCredits
    /\ ResultReachesRequest
    /\ SeenHaveAssets
    /\ DeliveredOutputsHaveAssets

-----------------------------------------------------------------------------
(* What the transaction of a handler does *)

\* Settling leaves an entry of the request for its outcome, and no other new entry.
LEMMA SettleFacts ==
    ASSUME TypeOK, NEW r \in Requests, NEW consume \in BOOLEAN,
           SettleCredits(r, consume)
    PROVE  /\ ledger' \subseteq LedgerKeys
           /\ balance' \in Int
           /\ ledger \subseteq ledger'
           /\ ledger' \subseteq ledger \cup {<<"consume", r>>, <<"release", r>>}
           /\ Cost > 0 /\ consume => <<"consume", r>> \in ledger'
           /\ Cost > 0 /\ ~consume => <<"release", r>> \in ledger'
<1> USE NumberAssumption
<1>1. CASE Cost = 0
  BY <1>1 DEF SettleCredits, TypeOK
<1>2. CASE Cost > 0 /\ consume
  BY <1>2 DEF SettleCredits, ConsumeReserved, TypeOK, LedgerKeys
<1>3. CASE Cost > 0 /\ ~consume
  BY <1>3 DEF SettleCredits, ReleaseReserved, TypeOK, LedgerKeys
<1>4. QED
  BY <1>1, <1>2, <1>3

\* The rows a successful handler leaves are rows of the model.
LEMMA UpsertFacts ==
    ASSUME TypeOK, NEW t \in Threads, RequestOf(t) \in Requests,
           NEW rendered \in SUBSET Outputs, NEW f \in Choices(t),
           UpsertOutputs(t, rendered, f)
    PROVE  /\ rows' \in [Requests -> SUBSET Row]
           /\ assets' \in [Requests -> [Outputs -> Nat]]
<1> DEFINE r == RequestOf(t)
           kept == {x \in rows[r] : \A o \in DOMAIN f : ~SameRow(x, f[o])}
           saved == {[f[o] EXCEPT !.status = OutputStatus(rendered, o),
                                  !.asset = @ \/ o \in rendered] : o \in DOMAIN f}
           inserted == {[by |-> t, output |-> o, status |-> OutputStatus(rendered, o),
                         asset |-> o \in rendered] : o \in Linked \ DOMAIN f}
<1>1. handler[t].seen \subseteq Row
  BY DEF TypeOK, HandlerStates
<1>2. \A o \in DOMAIN f : f[o] \in Row
  BY <1>1 DEF Choices
<1>3. \A o : OutputStatus(rendered, o) \in {"completed", "failed"}
  BY DEF OutputStatus
<1>4. kept \subseteq Row
  BY DEF TypeOK
<1>5. saved \subseteq Row
  <2>1. SUFFICES ASSUME NEW o \in DOMAIN f
                 PROVE  [f[o] EXCEPT !.status = OutputStatus(rendered, o),
                                     !.asset = @ \/ o \in rendered] \in Row
    BY DEF saved
  <2> DEFINE x == f[o]
             s == OutputStatus(rendered, o)
             b == x.asset \/ o \in rendered
  <2>2. x \in Row /\ s \in {"completed", "failed"}
    BY <1>2, <1>3
  <2>3. b \in BOOLEAN
    OBVIOUS
  <2>4. [x EXCEPT !.status = s, !.asset = b] \in Row
    <3> HIDE DEF x, s, b
    <3>1. QED
      BY <2>2, <2>3 DEF Row
  <2>5. QED
    BY <2>4
<1>6. inserted \subseteq Row
  <2>1. SUFFICES ASSUME NEW o \in Linked
                 PROVE  [by |-> t, output |-> o, status |-> OutputStatus(rendered, o),
                         asset |-> o \in rendered] \in Row
    BY DEF inserted
  <2> DEFINE s == OutputStatus(rendered, o)
             b == o \in rendered
  <2>2. s \in {"completed", "failed"} /\ b \in BOOLEAN
    BY <1>3
  <2>3. [by |-> t, output |-> o, status |-> s, asset |-> b] \in Row
    <3> HIDE DEF s, b
    <3>1. QED
      BY <2>2, OutputAssumption DEF Row
  <2>4. QED
    BY <2>3
<1>7. rows' = [rows EXCEPT ![r] = kept \cup saved \cup inserted]
  BY DEF UpsertOutputs
<1>8. rows' \in [Requests -> SUBSET Row]
  <2> HIDE DEF kept, saved, inserted, r
  <2>1. kept \cup saved \cup inserted \in SUBSET Row
    BY <1>4, <1>5, <1>6
  <2>2. QED
    BY <2>1, <1>7 DEF TypeOK
<1>9. assets' \in [Requests -> [Outputs -> Nat]]
  <2> DEFINE more == [o \in Outputs |->
                        assets[r][o] + IF o \in NewAssets(rendered, f) THEN 1 ELSE 0]
  <2>1. assets' = [assets EXCEPT ![r] = more]
    BY Zenon DEF UpsertOutputs
  <2>2. assets[r] \in [Outputs -> Nat]
    BY DEF TypeOK
  <2>3. more \in [Outputs -> Nat]
    BY <2>2
  <2>4. QED
    <3> HIDE DEF more, r
    <3>1. QED
      BY <2>1, <2>3 DEF TypeOK
<1>10. QED
  BY <1>8, <1>9

\* The transaction of a handler in progress: the products stay well typed, and the
\* request takes an outcome that the ledger has settled.
LEMMA CommitFacts ==
    ASSUME TypeOK, HandlersHaveJobs, NEW t \in Threads, CommitApply(t)
    PROVE  /\ RequestOf(t) \in Requests
           /\ handler[t].job \in Jobs
           /\ handler[t].new \in {"completed", "partially_completed", "failed", "timeout"}
           /\ t \in Jobs => handler[t].job = t
           /\ rows' \in [Requests -> SUBSET Row]
           /\ assets' \in [Requests -> [Outputs -> Nat]]
           /\ usage' \subseteq UsageKeys
           /\ notices' \subseteq NoticeKeys
           /\ \E consume \in BOOLEAN, outcome \in {"completed", "partially_completed", "failed"} :
                /\ SettleCredits(RequestOf(t), consume)
                /\ request' = [request EXCEPT ![RequestOf(t)] = outcome]
                /\ outcome = "completed" => consume
                /\ outcome = "failed" => ~consume
<1> DEFINE r == RequestOf(t)
<1>1. /\ handler[t].job \in Jobs
      /\ r \in Requests
      /\ handler[t].new \in {"completed", "partially_completed", "failed", "timeout"}
      /\ t \in Jobs => handler[t].job = t
  BY DEF CommitApply, HandlersHaveJobs, RequestOf
<1>2. handler[t].seen \subseteq Row
  BY DEF TypeOK, HandlerStates
<1> HIDE DEF r
<1>3. CASE Failing(t) /\ HandleFailed(t)
  <2>1. rows' \in [Requests -> SUBSET Row]
    <3> DEFINE hit(x) == \E y \in handler[t].seen : SameRow(x, y)
               left == {IF hit(x) THEN [x EXCEPT !.status = "failed"] ELSE x : x \in rows[r]}
    <3>1. rows' = [rows EXCEPT ![r] = left]
      BY Zenon, <1>3 DEF HandleFailed, r
    <3>2. rows[r] \subseteq Row
      BY <1>1 DEF TypeOK
    <3>3. left \subseteq Row
      <4>1. \A x \in Row : [x EXCEPT !.status = "failed"] \in Row
        BY DEF Row
      <4> HIDE DEF hit
      <4>2. QED
        BY <3>2, <4>1
    <3> HIDE DEF left
    <3>4. QED
      BY <3>1, <3>3 DEF TypeOK
  <2>2. assets' \in [Requests -> [Outputs -> Nat]] /\ usage' \subseteq UsageKeys
    BY <1>3 DEF HandleFailed, TypeOK
  <2>3. notices' \subseteq NoticeKeys
    BY <1>1, <1>3 DEF HandleFailed, TypeOK, NoticeKeys, r
  <2>4. SettleCredits(r, FALSE) /\ request' = [request EXCEPT ![r] = "failed"]
    BY <1>3 DEF HandleFailed, r
  <2>5. QED
    BY <1>1, <2>1, <2>2, <2>3, <2>4 DEF r
<1>4. CASE ~Failing(t) /\ HandleSuccess(t)
  <2> DEFINE new == handler[t].new
             rendered == good[handler[t].job]
             consume == ShouldConsume(new, rendered)
             outcome == IF new = "partially_completed" THEN new ELSE "completed"
  <2>1. PICK f \in Choices(t) :
          LET produced == rendered \cap (DOMAIN f \cup Linked) # {}
          IN  /\ UpsertOutputs(t, rendered, f)
              /\ SettleCredits(r, consume)
              /\ usage' = IF produced THEN usage \cup {<<"generated", r>>} ELSE usage
              /\ request' = [request EXCEPT ![r] = outcome]
              /\ notices' = notices \cup
                    {<<IF produced THEN "content_pack_ready" ELSE "content_pack_failed", r>>}
    BY <1>4 DEF HandleSuccess, r
  <2>2. rendered \in SUBSET Outputs
    BY <1>1 DEF TypeOK
  <2>3. rows' \in [Requests -> SUBSET Row] /\ assets' \in [Requests -> [Outputs -> Nat]]
    BY <1>1, <2>1, <2>2, UpsertFacts DEF r
  <2>4. usage' \subseteq UsageKeys /\ notices' \subseteq NoticeKeys
    BY <1>1, <2>1 DEF TypeOK, UsageKeys, NoticeKeys
  <2>5. consume \in BOOLEAN
    BY DEF ShouldConsume
  <2>6. new \in {"completed", "partially_completed"}
    BY <1>1, <1>4 DEF Failing, FAILURE_STATUSES
  <2>7. outcome \in {"completed", "partially_completed"} /\ (outcome = "completed" => consume)
    BY <2>6 DEF ShouldConsume
  <2>8. SettleCredits(r, consume) /\ request' = [request EXCEPT ![r] = outcome]
    BY <2>1
  <2>9. QED
    <3> HIDE DEF outcome, consume
    <3>1. QED
      BY <1>1, <2>3, <2>4, <2>5, <2>7, <2>8 DEF r
<1>5. QED
  BY <1>3, <1>4 DEF CommitApply

\* The types of what the transaction settles.
LEMMA CommitTypes ==
    ASSUME TypeOK, HandlersHaveJobs, NEW t \in Threads, CommitApply(t)
    PROVE  /\ request' \in [Requests -> RequestStatuses]
           /\ ledger' \subseteq LedgerKeys
           /\ balance' \in Int
<1>1. PICK consume \in BOOLEAN, outcome \in {"completed", "partially_completed", "failed"} :
        /\ SettleCredits(RequestOf(t), consume)
        /\ request' = [request EXCEPT ![RequestOf(t)] = outcome]
  BY Zenon, CommitFacts
<1>2. RequestOf(t) \in Requests
  BY CommitFacts
<1>3. ledger' \subseteq LedgerKeys /\ balance' \in Int
  BY <1>1, <1>2, SettleFacts
<1>4. request' \in [Requests -> RequestStatuses]
  BY <1>1 DEF TypeOK, RequestStatuses
<1>5. QED
  BY <1>3, <1>4

-----------------------------------------------------------------------------
(* Every step keeps the invariant, one part after the other *)

\* No step leaves the types.
LEMMA TypeStep ==
    ASSUME TypeOK, HandlersHaveJobs, AttemptsLeft, [Next]_vars
    PROVE  TypeOK'
<1> USE ThreadAssumption, NumberAssumption DEF TypeOK, productVars, jobVars, openVars, rendererVars
<1>1. ASSUME NEW r \in Requests, CommitRequest(r)
      PROVE  TypeOK'
  BY <1>1 DEF CommitRequest, RequestStatuses, LedgerKeys, UsageKeys
<1>2. ASSUME NEW r \in Requests, NEW j \in Jobs, OpenJob(r, j)
      PROVE  TypeOK'
  BY <1>2 DEF OpenJob, NewJob, JobStatuses
<1>3. ASSUME NEW r \in Requests, AbandonOpening(r) \/ BeginRequest(r)
      PROVE  TypeOK'
  BY <1>3 DEF AbandonOpening, BeginRequest
<1>4. ASSUME NEW j \in Jobs, SubmitDisabled(j)
      PROVE  TypeOK'
  BY <1>4 DEF SubmitDisabled
<1>5. ASSUME NEW j \in Jobs, SubmitDryRun(j)
      PROVE  TypeOK'
  BY <1>5 DEF SubmitDryRun, JobStatuses
<1>6. ASSUME NEW j \in Jobs, SubmitUnresolved(j)
      PROVE  TypeOK'
  BY <1>6 DEF SubmitUnresolved, MarkSubmission, JobStatuses, HandlerStates, Threads
<1>7. ASSUME NEW j \in Jobs, SubmitPost(j)
      PROVE  TypeOK'
  BY <1>7 DEF SubmitPost
<1>8. ASSUME NEW j \in Jobs, PostAnswered(j)
      PROVE  TypeOK'
  BY <1>8 DEF PostAnswered, JobStatuses
<1>9. ASSUME NEW j \in Jobs, PostTimedOut(j)
      PROVE  TypeOK'
  BY <1>9 DEF PostTimedOut, MarkSubmission, JobStatuses, HandlerStates, Threads
<1>10. ASSUME NEW j \in Jobs, PostFailed(j)
      PROVE  TypeOK'
  BY <1>10 DEF PostFailed, MarkSubmission, JobStatuses, HandlerStates, Threads
<1>11. ASSUME NEW j \in Jobs, SubmissionDies(j)
      PROVE  TypeOK'
  BY <1>11 DEF SubmissionDies, IDLE, HandlerStates, Threads
<1>12. ASSUME NEW t \in Threads, BeginApply(t)
      PROVE  TypeOK'
  <2>1. PICK seen \in SUBSET Row :
          handler' = [handler EXCEPT ![t].phase = "applying", ![t].seen = seen]
    <3>1. RequestOf(t) \in Requests
      BY <1>12 DEF BeginApply, HandlersHaveJobs, RequestOf
    <3>2. rows[RequestOf(t)] \in SUBSET Row
      BY <3>1
    <3>3. QED
      BY <1>12, <3>2 DEF BeginApply
  <2>2. handler' \in [Threads -> HandlerStates]
    <3>1. \A h \in HandlerStates :
            [h EXCEPT !.phase = "applying", !.seen = seen] \in HandlerStates
      BY DEF HandlerStates
    <3>2. QED
      BY <2>1, <3>1
  <2>3. QED
    BY <1>12, <2>2 DEF BeginApply
<1>13. ASSUME NEW t \in Threads, CommitApply(t)
      PROVE  TypeOK'
  <2>1. /\ rows' \in [Requests -> SUBSET Row]
        /\ assets' \in [Requests -> [Outputs -> Nat]]
        /\ usage' \subseteq UsageKeys
        /\ notices' \subseteq NoticeKeys
    BY <1>13, CommitFacts
  <2>2. request' \in [Requests -> RequestStatuses] /\ ledger' \subseteq LedgerKeys /\ balance' \in Int
    BY <1>13, CommitTypes
  <2>3. status' \in [Jobs -> JobStatuses \cup {"absent"}]
    BY <1>13, CommitFacts DEF CommitApply, JobStatuses
  <2>4. handler' \in [Threads -> HandlerStates]
    BY <1>13 DEF CommitApply, IDLE, HandlerStates
  <2>5. submit' \in [Jobs -> {"none", "created", "posting", "propagating", "done", "dead"}]
    BY <1>13 DEF CommitApply
  <2>6. /\ render' \in [Jobs -> {"none", "accepted", "reporting", "waiting",
                                 "finished", "gaveup", "lost"}]
        /\ awaiting' \in [Jobs -> Workers \cup {NONE}]
    BY <1>13 DEF CommitApply, Answered
  <2>7. UNCHANGED <<entity, creating, opening, operator, post, good, attempts>>
    BY <1>13 DEF CommitApply
  <2>8. QED
    BY <2>1, <2>2, <2>3, <2>4, <2>5, <2>6, <2>7
<1>14. ASSUME NEW j \in Jobs, AcceptPost(j)
      PROVE  TypeOK'
  BY <1>14 DEF AcceptPost
<1>15. ASSUME NEW j \in Jobs, LosePost(j)
      PROVE  TypeOK'
  BY <1>15 DEF LosePost
<1>16. ASSUME NEW j \in Jobs, Execute(j)
      PROVE  TypeOK'
  BY <1>16 DEF Execute, Renderings
<1>17. ASSUME NEW j \in Jobs, NEW w \in Workers, ReceiveCallback(j, w)
      PROVE  TypeOK'
  <2>1. attempts[j] < MaxAttempts
    BY <1>17 DEF ReceiveCallback, AttemptsLeft
  <2>2. attempts' \in [Jobs -> 0..MaxAttempts]
    BY <1>17, <2>1 DEF ReceiveCallback
  <2>3. RenderStatus(good[j]) \in JobStatuses
    BY DEF RenderStatus, JobStatuses
  <2>4. handler' \in [Threads -> HandlerStates]
    <3>1. [phase |-> "guarded", job |-> j, new |-> RenderStatus(good[j]), seen |-> {}]
             \in HandlerStates
      BY <2>3 DEF HandlerStates
    <3>2. QED
      BY <1>17, <3>1 DEF ReceiveCallback, Threads
  <2>5. render' \in [Jobs -> {"none", "accepted", "reporting", "waiting",
                             "finished", "gaveup", "lost"}]
    <3>1. \E next \in {"finished", "waiting"} : render' = [render EXCEPT ![j] = next]
      BY Zenon, <1>17 DEF ReceiveCallback
    <3>2. QED
      BY <3>1
  <2>6. awaiting' \in [Jobs -> Workers \cup {NONE}]
    BY <1>17 DEF ReceiveCallback
  <2>7. QED
    BY <1>17, <2>2, <2>4, <2>5, <2>6 DEF ReceiveCallback
<1>18. ASSUME NEW j \in Jobs, LoseAttempt(j)
      PROVE  TypeOK'
  BY <1>18 DEF LoseAttempt, NextAttempt, AttemptsLeft
<1>19. ASSUME NEW j \in Jobs, AttemptTimesOut(j)
      PROVE  TypeOK'
  BY <1>19 DEF AttemptTimesOut, NextAttempt
<1>20. ASSUME NEW w \in Workers, WorkerDies(w)
      PROVE  TypeOK'
  BY <1>20 DEF WorkerDies, Answered, NextAttempt, IDLE, HandlerStates, Threads
<1>21. ASSUME RendererDies
      PROVE  TypeOK'
  BY <1>21 DEF RendererDies, UNFINISHED
<1>22. ASSUME NEW p \in Operators, NEW j \in Jobs, CheckRetry(p, j)
      PROVE  TypeOK'
  BY <1>22 DEF CheckRetry
<1>23. ASSUME NEW p \in Operators, NEW j \in Jobs, OpenRetry(p, j)
      PROVE  TypeOK'
  BY <1>23 DEF OpenRetry, NewJob, JobStatuses
<1>24. ASSUME NEW j \in Jobs, AdminCancel(j)
      PROVE  TypeOK'
  BY <1>24 DEF AdminCancel, JobStatuses
<1>25. CASE UNCHANGED vars
  BY <1>25 DEF vars
<1>26. QED
  BY <1>1, <1>2, <1>3, <1>4, <1>5, <1>6, <1>7, <1>8, <1>9, <1>10, <1>11, <1>12, <1>13, <1>14, <1>15, <1>16, <1>17, <1>18, <1>19, <1>20, <1>21, <1>22, <1>23, <1>24, <1>25
     DEF Next, SubmissionStep, RendererStep, OperatorStep

\* Jobs, handlers and attempts keep their shape.
LEMMA ShapeStep ==
    ASSUME TypeOK, AbsentJobs, HandlersHaveJobs, AttemptsLeft, [Next]_vars
    PROVE  (AbsentJobs /\ HandlersHaveJobs /\ AttemptsLeft)'
<1> USE ThreadAssumption, NumberAssumption
    DEF TypeOK, AbsentJobs, HandlersHaveJobs, AttemptsLeft, productVars, jobVars, openVars, rendererVars
<1>1. ASSUME NEW r \in Requests, CommitRequest(r)
      PROVE  (AbsentJobs /\ HandlersHaveJobs /\ AttemptsLeft)'
  BY <1>1 DEF CommitRequest
<1>2. ASSUME NEW r \in Requests, NEW j \in Jobs, OpenJob(r, j)
      PROVE  (AbsentJobs /\ HandlersHaveJobs /\ AttemptsLeft)'
  BY <1>2 DEF OpenJob, NewJob
<1>3. ASSUME NEW r \in Requests, AbandonOpening(r) \/ BeginRequest(r)
      PROVE  (AbsentJobs /\ HandlersHaveJobs /\ AttemptsLeft)'
  BY <1>3 DEF AbandonOpening, BeginRequest
<1>4. ASSUME NEW j \in Jobs, SubmitDisabled(j)
      PROVE  (AbsentJobs /\ HandlersHaveJobs /\ AttemptsLeft)'
  BY <1>4 DEF SubmitDisabled
<1>5. ASSUME NEW j \in Jobs, SubmitDryRun(j)
      PROVE  (AbsentJobs /\ HandlersHaveJobs /\ AttemptsLeft)'
  BY <1>5 DEF SubmitDryRun
<1>6. ASSUME NEW j \in Jobs, SubmitUnresolved(j)
      PROVE  (AbsentJobs /\ HandlersHaveJobs /\ AttemptsLeft)'
  BY <1>6 DEF SubmitUnresolved, MarkSubmission, Threads
<1>7. ASSUME NEW j \in Jobs, SubmitPost(j)
      PROVE  (AbsentJobs /\ HandlersHaveJobs /\ AttemptsLeft)'
  BY <1>7 DEF SubmitPost
<1>8. ASSUME NEW j \in Jobs, PostAnswered(j)
      PROVE  (AbsentJobs /\ HandlersHaveJobs /\ AttemptsLeft)'
  BY <1>8 DEF PostAnswered
<1>9. ASSUME NEW j \in Jobs, PostTimedOut(j)
      PROVE  (AbsentJobs /\ HandlersHaveJobs /\ AttemptsLeft)'
  BY <1>9 DEF PostTimedOut, MarkSubmission, Threads
<1>10. ASSUME NEW j \in Jobs, PostFailed(j)
      PROVE  (AbsentJobs /\ HandlersHaveJobs /\ AttemptsLeft)'
  BY <1>10 DEF PostFailed, MarkSubmission, Threads
<1>11. ASSUME NEW j \in Jobs, SubmissionDies(j)
      PROVE  (AbsentJobs /\ HandlersHaveJobs /\ AttemptsLeft)'
  BY <1>11 DEF SubmissionDies, IDLE, Threads
<1>12. ASSUME NEW t \in Threads, BeginApply(t)
      PROVE  (AbsentJobs /\ HandlersHaveJobs /\ AttemptsLeft)'
  BY <1>12 DEF BeginApply, Threads
<1>13. ASSUME NEW t \in Threads, CommitApply(t)
      PROVE  (AbsentJobs /\ HandlersHaveJobs /\ AttemptsLeft)'
  <2>1. handler[t].job \in Jobs /\ entity[handler[t].job] \in Requests
    BY <1>13 DEF CommitApply
  <2>2. AbsentJobs'
    <3> DEFINE job == handler[t].job
               new == handler[t].new
    <3>1. /\ status' = [status EXCEPT ![job] = new]
          /\ submit' = IF t \in Jobs THEN [submit EXCEPT ![t] = "done"] ELSE submit
          /\ render' = [j \in Jobs |-> IF awaiting[j] = t THEN "finished" ELSE render[j]]
          /\ UNCHANGED <<entity, post>>
      BY <1>13 DEF CommitApply, Answered
    <3>2. new # "absent" /\ entity[job] # NONE /\ (t \in Jobs => job = t)
      BY <1>13, <2>1 DEF CommitApply
    <3>3. \A j \in Jobs : awaiting[j] = t => render[j] = "waiting"
      BY DEF Threads
    <3> HIDE DEF job, new
    <3>4. QED
      BY <3>1, <3>2, <3>3
  <2>3. HandlersHaveJobs'
    BY <1>13 DEF CommitApply, IDLE
  <2>4. AttemptsLeft'
    BY <1>13 DEF CommitApply, Answered, Threads
  <2>5. QED
    BY <2>2, <2>3, <2>4
<1>14. ASSUME NEW j \in Jobs, AcceptPost(j)
      PROVE  (AbsentJobs /\ HandlersHaveJobs /\ AttemptsLeft)'
  BY <1>14 DEF AcceptPost
<1>15. ASSUME NEW j \in Jobs, LosePost(j)
      PROVE  (AbsentJobs /\ HandlersHaveJobs /\ AttemptsLeft)'
  BY <1>15 DEF LosePost
<1>16. ASSUME NEW j \in Jobs, Execute(j)
      PROVE  (AbsentJobs /\ HandlersHaveJobs /\ AttemptsLeft)'
  BY <1>16 DEF Execute, Renderings
<1>17. ASSUME NEW j \in Jobs, NEW w \in Workers, ReceiveCallback(j, w)
      PROVE  (AbsentJobs /\ HandlersHaveJobs /\ AttemptsLeft)'
  <2>1. AbsentJobs'
    BY <1>17 DEF ReceiveCallback
  <2>2. HandlersHaveJobs'
    <3> DEFINE new == RenderStatus(good[j])
    <3>1. new \in {"completed", "partially_completed", "failed"}
      BY DEF RenderStatus
    <3>2. w \in Threads /\ w \notin Jobs
      BY DEF Threads
    <3>3. entity[j] \in Requests
      <4>1. render[j] = "reporting"
        BY <1>17 DEF ReceiveCallback
      <4>2. submit[j] # "none"
        BY <4>1
      <4>3. QED
        BY <4>2
    <3>4. \/ UNCHANGED handler
          \/ handler' = [handler EXCEPT ![w] =
                [phase |-> "guarded", job |-> j, new |-> new, seen |-> {}]]
      BY Zenon, <1>17 DEF ReceiveCallback
    <3>5. UNCHANGED entity
      BY <1>17 DEF ReceiveCallback
    <3> HIDE DEF new
    <3>6. QED
      BY <3>1, <3>2, <3>3, <3>4, <3>5
  <2>3. AttemptsLeft'
    BY <1>17 DEF ReceiveCallback
  <2>4. QED
    BY <2>1, <2>2, <2>3
<1>18. ASSUME NEW j \in Jobs, LoseAttempt(j)
      PROVE  (AbsentJobs /\ HandlersHaveJobs /\ AttemptsLeft)'
  BY <1>18 DEF LoseAttempt, NextAttempt
<1>19. ASSUME NEW j \in Jobs, AttemptTimesOut(j)
      PROVE  (AbsentJobs /\ HandlersHaveJobs /\ AttemptsLeft)'
  BY <1>19 DEF AttemptTimesOut, NextAttempt
<1>20. ASSUME NEW w \in Workers, WorkerDies(w)
      PROVE  (AbsentJobs /\ HandlersHaveJobs /\ AttemptsLeft)'
  <2>1. AbsentJobs'
    BY <1>20 DEF WorkerDies, Answered
  <2>2. HandlersHaveJobs'
    BY <1>20 DEF WorkerDies, IDLE, Threads
  <2>3. AttemptsLeft'
    BY <1>20 DEF WorkerDies, Answered, NextAttempt
  <2>4. QED
    BY <2>1, <2>2, <2>3
<1>21. ASSUME RendererDies
      PROVE  (AbsentJobs /\ HandlersHaveJobs /\ AttemptsLeft)'
  BY <1>21 DEF RendererDies, UNFINISHED
<1>22. ASSUME NEW p \in Operators, NEW j \in Jobs, CheckRetry(p, j)
      PROVE  (AbsentJobs /\ HandlersHaveJobs /\ AttemptsLeft)'
  BY <1>22 DEF CheckRetry, RETRYABLE_STATUSES
<1>23. ASSUME NEW p \in Operators, NEW j \in Jobs, OpenRetry(p, j)
      PROVE  (AbsentJobs /\ HandlersHaveJobs /\ AttemptsLeft)'
  BY <1>23 DEF OpenRetry, NewJob
<1>24. ASSUME NEW j \in Jobs, AdminCancel(j)
      PROVE  (AbsentJobs /\ HandlersHaveJobs /\ AttemptsLeft)'
  BY <1>24 DEF AdminCancel, TERMINAL_STATUSES
<1>25. CASE UNCHANGED vars
  BY <1>25 DEF vars
<1>26. QED
  BY <1>1, <1>2, <1>3, <1>4, <1>5, <1>6, <1>7, <1>8, <1>9, <1>10, <1>11, <1>12, <1>13, <1>14, <1>15, <1>16, <1>17, <1>18, <1>19, <1>20, <1>21, <1>22, <1>23, <1>24, <1>25
     DEF Next, SubmissionStep, RendererStep, OperatorStep

\* A thread, an operator or an opening only ever names a request that exists.
LEMMA ExistenceStep ==
    ASSUME TypeOK, AbsentJobs, HandlersHaveJobs, RequestsExist, [Next]_vars
    PROVE  RequestsExist'
<1> USE ThreadAssumption DEF TypeOK, RequestsExist, productVars, jobVars, openVars, rendererVars
<1>1. ASSUME NEW r \in Requests, CommitRequest(r)
      PROVE  RequestsExist'
  BY <1>1 DEF CommitRequest
<1>2. ASSUME NEW r \in Requests, NEW j \in Jobs, OpenJob(r, j)
      PROVE  RequestsExist'
  BY <1>2 DEF OpenJob, NewJob
<1>3. ASSUME NEW r \in Requests, AbandonOpening(r) \/ BeginRequest(r)
      PROVE  RequestsExist'
  BY <1>3 DEF AbandonOpening, BeginRequest
<1>4. ASSUME NEW t \in Threads, CommitApply(t)
      PROVE  RequestsExist'
  <2> DEFINE r == RequestOf(t)
  <2>1. PICK outcome \in {"completed", "partially_completed", "failed"} :
          request' = [request EXCEPT ![r] = outcome]
    <3> HIDE DEF TypeOK
    <3>1. QED
      BY Zenon, <1>4, CommitFacts
  <2>2. UNCHANGED <<entity, creating, opening, operator>>
    BY <1>4 DEF CommitApply
  <2>3. request[r] # "absent"
    <3> HIDE DEF TypeOK
    <3>1. RequestOf(t) \in Requests /\ entity[handler[t].job] = RequestOf(t) /\ handler[t].job \in Jobs
      BY <1>4, CommitFacts DEF RequestOf
    <3>2. QED
      BY <2>1, <3>1
  <2>4. QED
    BY <2>1, <2>2, <2>3
<1>5. ASSUME NEW p \in Operators, NEW j \in Jobs, CheckRetry(p, j)
      PROVE  RequestsExist'
  BY <1>5 DEF CheckRetry
<1>6. ASSUME NEW p \in Operators, NEW j \in Jobs, OpenRetry(p, j)
      PROVE  RequestsExist'
  BY <1>6 DEF OpenRetry, NewJob
<1>7. CASE UNCHANGED <<request, creating, opening, entity, operator>>
  BY <1>7
<1>8. QED
  <2>1. ASSUME NEW j \in Jobs, SubmissionStep(j)
        PROVE  UNCHANGED <<request, creating, opening, entity, operator>>
    BY <2>1 DEF SubmissionStep, SubmitDisabled, SubmitDryRun, SubmitUnresolved, SubmitPost,
                PostAnswered, PostTimedOut, PostFailed, SubmissionDies
  <2>2. ASSUME NEW j \in Jobs, RendererStep(j)
        PROVE  UNCHANGED <<request, creating, opening, entity, operator>>
    BY <2>2 DEF RendererStep, AcceptPost, LosePost, Execute, Renderings, ReceiveCallback, LoseAttempt,
                AttemptTimesOut
  <2>3. ASSUME NEW j \in Jobs, AdminCancel(j)
        PROVE  UNCHANGED <<request, creating, opening, entity, operator>>
    BY <2>3 DEF AdminCancel
  <2>4. ASSUME NEW t \in Threads, BeginApply(t)
        PROVE  UNCHANGED <<request, creating, opening, entity, operator>>
    BY <2>4 DEF BeginApply
  <2>5. ASSUME NEW w \in Workers, WorkerDies(w)
        PROVE  UNCHANGED <<request, creating, opening, entity, operator>>
    BY <2>5 DEF WorkerDies
  <2>6. ASSUME RendererDies
        PROVE  UNCHANGED <<request, creating, opening, entity, operator>>
    BY <2>6 DEF RendererDies
  <2>7. ASSUME UNCHANGED vars
        PROVE  UNCHANGED <<request, creating, opening, entity, operator>>
    BY <2>7 DEF vars
  <2> HIDE DEF TypeOK, RequestsExist
  <2>8. QED
    BY <1>1, <1>2, <1>3, <1>4, <1>5, <1>6, <1>7, <2>1, <2>2, <2>3, <2>4, <2>5, <2>6, <2>7
       DEF Next, OperatorStep

\* Only two steps write the products and the ledger.
LEMMA ProductSteps ==
    ASSUME [Next]_vars
    PROVE  \/ \E r \in Requests : CommitRequest(r)
           \/ \E t \in Threads : CommitApply(t)
           \/ UNCHANGED productVars
<1>1. ASSUME NEW j \in Jobs, SubmissionStep(j)
      PROVE  UNCHANGED productVars
  BY <1>1 DEF SubmissionStep, SubmitDisabled, SubmitDryRun, SubmitUnresolved, SubmitPost,
              PostAnswered, PostTimedOut, PostFailed, SubmissionDies
<1>2. ASSUME NEW j \in Jobs, RendererStep(j)
      PROVE  UNCHANGED productVars
  BY <1>2 DEF RendererStep, AcceptPost, LosePost, Execute, Renderings, ReceiveCallback, LoseAttempt,
              AttemptTimesOut
<1>3. ASSUME NEW j \in Jobs, OperatorStep(j)
      PROVE  UNCHANGED productVars
  BY <1>3 DEF OperatorStep, CheckRetry, OpenRetry, AdminCancel
<1>4. ASSUME NEW r \in Requests, NEW j \in Jobs, OpenJob(r, j)
      PROVE  UNCHANGED productVars
  BY <1>4 DEF OpenJob
<1>5. ASSUME NEW r \in Requests, AbandonOpening(r) \/ BeginRequest(r)
      PROVE  UNCHANGED productVars
  BY <1>5 DEF AbandonOpening, BeginRequest
<1>6. ASSUME NEW t \in Threads, BeginApply(t)
      PROVE  UNCHANGED productVars
  BY <1>6 DEF BeginApply
<1>7. ASSUME NEW w \in Workers, WorkerDies(w)
      PROVE  UNCHANGED productVars
  BY <1>7 DEF WorkerDies
<1>8. ASSUME RendererDies
      PROVE  UNCHANGED productVars
  BY <1>8 DEF RendererDies
<1>9. ASSUME UNCHANGED vars
      PROVE  UNCHANGED productVars
  BY <1>9 DEF vars
<1>10. QED
  BY <1>1, <1>2, <1>3, <1>4, <1>5, <1>6, <1>7, <1>8, <1>9 DEF Next

\* A handler's request exists, so it holds a reservation when a pack costs anything.
LEMMA HandlerHasReservation ==
    ASSUME TypeOK, HandlersHaveJobs, RequestsExist, LedgerFollowsRequests,
           NEW t \in Threads, CommitApply(t), Cost > 0
    PROVE  RequestOf(t) \in Reserved
BY CommitFacts DEF RequestsExist, LedgerFollowsRequests, Reserved, RequestOf

\* Reservations and outcomes go together.
LEMMA LedgerStep ==
    ASSUME TypeOK, HandlersHaveJobs, RequestsExist, LedgerFollowsRequests,
           OutcomeSettlesCredits, [Next]_vars
    PROVE  LedgerFollowsRequests' /\ OutcomeSettlesCredits'
<1> USE NumberAssumption DEF LedgerFollowsRequests, OutcomeSettlesCredits, Consumed, Released
<1>1. ASSUME NEW r \in Requests, CommitRequest(r)
      PROVE  LedgerFollowsRequests' /\ OutcomeSettlesCredits'
  BY <1>1 DEF CommitRequest, RequestsExist, TypeOK
<1>2. ASSUME NEW t \in Threads, CommitApply(t)
      PROVE  LedgerFollowsRequests' /\ OutcomeSettlesCredits'
  <2> DEFINE r == RequestOf(t)
  <2>1. PICK consume \in BOOLEAN, outcome \in {"completed", "partially_completed", "failed"} :
          /\ SettleCredits(r, consume)
          /\ request' = [request EXCEPT ![r] = outcome]
          /\ outcome = "completed" => consume
          /\ outcome = "failed" => ~consume
    BY Zenon, <1>2, CommitFacts
  <2>2. r \in Requests
    BY <1>2, CommitFacts
  <2>3. request[r] # "absent"
    BY <1>2, CommitFacts DEF RequestsExist, RequestOf
  <2> HIDE DEF r
  <2>4. /\ ledger \subseteq ledger'
        /\ ledger' \subseteq ledger \cup {<<"consume", r>>, <<"release", r>>}
        /\ Cost > 0 /\ consume => <<"consume", r>> \in ledger'
        /\ Cost > 0 /\ ~consume => <<"release", r>> \in ledger'
    BY <2>1, <2>2, SettleFacts
  <2>5. request \in [Requests -> RequestStatuses]
    BY DEF TypeOK
  <2>6. LedgerFollowsRequests'
    BY <2>1, <2>2, <2>3, <2>4, <2>5
  <2>7. OutcomeSettlesCredits'
    BY <2>1, <2>2, <2>4, <2>5
  <2>8. QED
    BY <2>6, <2>7
<1>3. CASE UNCHANGED productVars
  BY <1>3 DEF productVars
<1>4. QED
  BY <1>1, <1>2, <1>3, ProductSteps

\* One reservation more, and one release more, is worth one cost.
LEMMA OneCost ==
    ASSUME NEW c \in Nat, NEW a \in Nat, NEW b \in Nat
    PROVE  /\ c * ((a + 1) - b) = c * (a - b) + c
           /\ c * (a - (b + 1)) = c * (a - b) - c
<1>1. (a + 1) - b = (a - b) + 1 /\ a - (b + 1) = (a - b) - 1
  OBVIOUS
<1>2. \A d \in Int : c * (d + 1) = c * d + c /\ c * (d - 1) = c * d - c
  OBVIOUS
<1>3. QED
  BY <1>1, <1>2

\* No step mints or loses a credit.
LEMMA CreditStep ==
    ASSUME TypeOK, HandlersHaveJobs, RequestsExist, LedgerFollowsRequests,
           FiniteReservations, CreditsAccounted, [Next]_vars
    PROVE  FiniteReservations' /\ CreditsAccounted'
<1> USE NumberAssumption
<1>1. /\ IsFiniteSet(Reserved) /\ IsFiniteSet(Released)
      /\ Cardinality(Reserved) \in Nat /\ Cardinality(Released) \in Nat
  <2>1. IsFiniteSet(Reserved) /\ IsFiniteSet(Released)
    BY FS_Subset DEF FiniteReservations, CreditsAccounted
  <2>2. QED
    BY <2>1, FS_CardinalityType
<1>2. ASSUME NEW r \in Requests, CommitRequest(r)
      PROVE  FiniteReservations' /\ CreditsAccounted'
  <2>1. CASE Cost = 0
    BY <1>1, <1>2, <2>1
       DEF CommitRequest, FiniteReservations, CreditsAccounted, Reserved, Consumed, Released, TypeOK
  <2>2. CASE Cost > 0
    <3>1. r \notin Reserved
      BY <1>2 DEF CommitRequest, RequestsExist, LedgerFollowsRequests, Reserved
    <3>2. Reserved' = Reserved \cup {r} /\ Consumed' = Consumed /\ Released' = Released
      BY <1>2, <2>2 DEF CommitRequest, Reserved, Consumed, Released
    <3>3. IsFiniteSet(Reserved') /\ Cardinality(Reserved') = Cardinality(Reserved) + 1
      BY <1>1, <3>1, <3>2, FS_AddElement
    <3>4. balance' = balance - Cost
      BY <1>2 DEF CommitRequest
    <3>5. Cost * (Cardinality(Reserved') - Cardinality(Released')) =
            Cost * (Cardinality(Reserved) - Cardinality(Released)) + Cost
      BY <1>1, <3>2, <3>3, OneCost
    <3>6. balance' = Credits - Cost * (Cardinality(Reserved') - Cardinality(Released'))
      <4> DEFINE now == Cost * (Cardinality(Reserved) - Cardinality(Released))
      <4>1. now \in Int /\ balance = Credits - now
        BY <1>1 DEF CreditsAccounted
      <4> HIDE DEF now
      <4>2. QED
        BY <3>4, <3>5, <4>1 DEF now
    <3>7. Consumed' \cup Released' \subseteq Reserved'
      BY <3>2 DEF CreditsAccounted
    <3>8. QED
      BY <3>3, <3>6, <3>7 DEF FiniteReservations, CreditsAccounted
  <2>3. QED
    BY <2>1, <2>2
<1>3. ASSUME NEW t \in Threads, CommitApply(t)
      PROVE  FiniteReservations' /\ CreditsAccounted'
  <2> DEFINE r == RequestOf(t)
  <2>1. PICK consume \in BOOLEAN : SettleCredits(r, consume)
    BY Zenon, <1>3, CommitFacts
  <2>2. r \in Requests /\ (Cost > 0 => r \in Reserved)
    BY <1>3, CommitFacts, HandlerHasReservation
  <2> HIDE DEF r
  <2>3. CASE UNCHANGED <<ledger, balance>>
    BY <1>1, <2>3 DEF FiniteReservations, CreditsAccounted, Reserved, Consumed, Released
  <2>4. CASE Cost > 0 /\ ConsumeReserved(r)
    <3>1. Reserved' = Reserved /\ Consumed' = Consumed \cup {r} /\ Released' = Released
      BY <2>2, <2>4 DEF ConsumeReserved, Reserved, Consumed, Released
    <3>2. UNCHANGED balance
      BY <2>4 DEF ConsumeReserved
    <3>3. QED
      BY <1>1, <2>2, <2>4, <3>1, <3>2 DEF FiniteReservations, CreditsAccounted
  <2>5. CASE Cost > 0 /\ <<"release", r>> \notin ledger /\ ReleaseReserved(r)
    <3>1. Reserved' = Reserved /\ Consumed' = Consumed /\ Released' = Released \cup {r}
      BY <2>2, <2>5 DEF ReleaseReserved, Reserved, Consumed, Released
    <3>2. r \notin Released
      BY <2>5 DEF Released
    <3>3. Cardinality(Released') = Cardinality(Released) + 1
      BY <1>1, <3>1, <3>2, FS_AddElement
    <3>4. balance' = balance + Cost
      BY <2>5 DEF ReleaseReserved
    <3>5. Cost * (Cardinality(Reserved') - Cardinality(Released')) =
            Cost * (Cardinality(Reserved) - Cardinality(Released)) - Cost
      BY <1>1, <3>1, <3>3, OneCost
    <3>6. balance' = Credits - Cost * (Cardinality(Reserved') - Cardinality(Released'))
      <4> DEFINE now == Cost * (Cardinality(Reserved) - Cardinality(Released))
      <4>1. now \in Int /\ balance = Credits - now
        BY <1>1 DEF CreditsAccounted
      <4> HIDE DEF now
      <4>2. QED
        BY <3>4, <3>5, <4>1 DEF now
    <3>7. Consumed' \cup Released' \subseteq Reserved'
      BY <2>2, <2>5, <3>1 DEF CreditsAccounted
    <3>8. QED
      BY <1>1, <3>1, <3>6, <3>7 DEF FiniteReservations, CreditsAccounted
  <2>6. \/ UNCHANGED <<ledger, balance>>
        \/ Cost > 0 /\ ConsumeReserved(r)
        \/ Cost > 0 /\ ReleaseReserved(r)
    <3>1. Cost = 0 \/ (Cost > 0 /\ consume) \/ (Cost > 0 /\ ~consume)
      OBVIOUS
    <3>2. QED
      BY <2>1, <3>1 DEF SettleCredits
  <2>7. QED
    BY <2>3, <2>4, <2>5, <2>6 DEF ReleaseReserved
<1>4. CASE UNCHANGED productVars
  BY <1>1, <1>4 DEF productVars, FiniteReservations, CreditsAccounted, Reserved, Consumed, Released
<1>5. QED
  BY <1>2, <1>3, <1>4, ProductSteps

\* A result stays with a request that has had it.
LEMMA ResultStep ==
    ASSUME TypeOK, AbsentJobs, HandlersHaveJobs, RequestsExist, ResultReachesRequest, [Next]_vars
    PROVE  ResultReachesRequest'
<1> USE ThreadAssumption
    DEF ResultReachesRequest, SUCCESS_STATUSES, productVars, jobVars, openVars
<1>1. ASSUME NEW r \in Requests, CommitRequest(r)
      PROVE  ResultReachesRequest'
  BY <1>1 DEF CommitRequest, TypeOK, RequestsExist
<1>2. ASSUME NEW r \in Requests, NEW j \in Jobs, OpenJob(r, j)
      PROVE  ResultReachesRequest'
  BY <1>2 DEF OpenJob, NewJob, TypeOK, AbsentJobs
<1>3. ASSUME NEW j \in Jobs, SubmitDisabled(j)
      PROVE  ResultReachesRequest'
  BY <1>3 DEF SubmitDisabled, TypeOK
<1>4. ASSUME NEW j \in Jobs, SubmitDryRun(j)
      PROVE  ResultReachesRequest'
  BY <1>4 DEF SubmitDryRun, TypeOK
<1>5. ASSUME NEW j \in Jobs, SubmitUnresolved(j)
      PROVE  ResultReachesRequest'
  BY <1>5 DEF SubmitUnresolved, MarkSubmission, TypeOK, Threads
<1>6. ASSUME NEW j \in Jobs, SubmitPost(j)
      PROVE  ResultReachesRequest'
  BY <1>6 DEF SubmitPost, TypeOK
<1>7. ASSUME NEW j \in Jobs, PostAnswered(j)
      PROVE  ResultReachesRequest'
  BY <1>7 DEF PostAnswered, TypeOK
<1>8. ASSUME NEW j \in Jobs, PostTimedOut(j)
      PROVE  ResultReachesRequest'
  BY <1>8 DEF PostTimedOut, MarkSubmission, TypeOK, Threads
<1>9. ASSUME NEW j \in Jobs, PostFailed(j)
      PROVE  ResultReachesRequest'
  BY <1>9 DEF PostFailed, MarkSubmission, TypeOK, Threads
<1>10. ASSUME NEW j \in Jobs, SubmissionDies(j)
      PROVE  ResultReachesRequest'
  BY <1>10 DEF SubmissionDies, IDLE, TypeOK, Threads
<1>11. ASSUME NEW t \in Threads, BeginApply(t)
      PROVE  ResultReachesRequest'
  BY <1>11 DEF BeginApply, TypeOK, Threads
<1>12. ASSUME NEW t \in Threads, CommitApply(t)
      PROVE  ResultReachesRequest'
  <2> DEFINE job == handler[t].job
             new == handler[t].new
             r == entity[job]
  <2>1. PICK outcome \in {"completed", "partially_completed", "failed"} :
          request' = [request EXCEPT ![r] = outcome]
    BY Zenon, <1>12, CommitFacts DEF RequestOf
  <2>2. job \in Jobs /\ r \in Requests /\ (t \in Jobs => job = t)
    BY <1>12, CommitFacts DEF RequestOf
  <2>3. /\ status' = [status EXCEPT ![job] = new]
        /\ handler' = [handler EXCEPT ![t] = IDLE]
        /\ submit' = IF t \in Jobs THEN [submit EXCEPT ![t] = "done"] ELSE submit
        /\ UNCHANGED entity
    BY <1>12 DEF CommitApply
  <2> HIDE DEF new
  <2>4. request'[r] # "queued"
    BY <2>1, <2>2 DEF TypeOK
  <2>5. \A j \in Jobs : request[entity[j]] # "queued" => request'[entity[j]] # "queued"
    BY <2>1, <2>2 DEF TypeOK
  <2>6. ASSUME NEW j \in Jobs, entity[j] # r
        PROVE  /\ status'[j] = status[j]
               /\ handler'[j] = handler[j]
               /\ submit'[j] = submit[j]
    BY <2>2, <2>3, <2>6 DEF TypeOK, Threads
  <2>7. QED
    BY <2>3, <2>4, <2>5, <2>6
<1>13. ASSUME NEW j \in Jobs, NEW w \in Workers, ReceiveCallback(j, w)
      PROVE  ResultReachesRequest'
  BY <1>13 DEF ReceiveCallback, RenderStatus, TypeOK, Threads
<1>14. ASSUME NEW w \in Workers, WorkerDies(w)
      PROVE  ResultReachesRequest'
  BY <1>14 DEF WorkerDies, Answered, NextAttempt, IDLE, TypeOK, Threads
<1>15. ASSUME NEW p \in Operators, NEW j \in Jobs, OpenRetry(p, j)
      PROVE  ResultReachesRequest'
  BY <1>15 DEF OpenRetry, NewJob, TypeOK, AbsentJobs
<1>16. ASSUME NEW j \in Jobs, AdminCancel(j)
      PROVE  ResultReachesRequest'
  BY <1>16 DEF AdminCancel, TypeOK
<1>17. CASE UNCHANGED <<request, status, entity, handler, submit>>
  BY <1>17
<1>18. QED
  <2>1. ASSUME NEW j \in Jobs, RendererStep(j)
        PROVE  \/ UNCHANGED <<request, status, entity, handler, submit>>
               \/ \E w \in Workers : ReceiveCallback(j, w)
    BY <2>1 DEF RendererStep, AcceptPost, LosePost, Execute, Renderings, LoseAttempt, AttemptTimesOut,
                productVars, jobVars, openVars
  <2>2. ASSUME NEW p \in Operators, NEW j \in Jobs, CheckRetry(p, j)
        PROVE  UNCHANGED <<request, status, entity, handler, submit>>
    BY <2>2 DEF CheckRetry, productVars, jobVars, openVars
  <2>3. ASSUME NEW r \in Requests, AbandonOpening(r) \/ BeginRequest(r)
        PROVE  UNCHANGED <<request, status, entity, handler, submit>>
    BY <2>3 DEF AbandonOpening, BeginRequest, productVars, jobVars, openVars
  <2>4. ASSUME RendererDies
        PROVE  UNCHANGED <<request, status, entity, handler, submit>>
    BY <2>4 DEF RendererDies, productVars, jobVars, openVars
  <2>5. ASSUME UNCHANGED vars
        PROVE  UNCHANGED <<request, status, entity, handler, submit>>
    BY <2>5 DEF vars, productVars, jobVars, openVars
  <2> HIDE DEF ResultReachesRequest
  <2>6. QED
    BY <1>1, <1>2, <1>3, <1>4, <1>5, <1>6, <1>7, <1>8, <1>9, <1>10, <1>11, <1>12, <1>13, <1>14, <1>15, <1>16, <1>17,
       <2>1, <2>2, <2>3, <2>4, <2>5
       DEF Next, SubmissionStep, OperatorStep

-----------------------------------------------------------------------------
(* Completed outputs and their Assets *)

\* The success of a handler writes rows of the request that have their Assets, counts each new
\* Asset, and announces the pack when an output came of it.
LEMMA UpsertDelivers ==
    ASSUME TypeOK, DeliveredOutputsHaveAssets, SeenHaveAssets,
           NEW t \in Threads, NEW r \in Requests, r = RequestOf(t),
           NEW rendered \in SUBSET Outputs, NEW f \in Choices(t),
           UpsertOutputs(t, rendered, f)
    PROVE  /\ \A q \in Requests, o \in Outputs : assets[q][o] > 0 => assets'[q][o] > 0
           /\ \A x \in rows'[r] : /\ x.status = "completed" => x.asset
                                  /\ x.asset => assets'[r][x.output] > 0
           /\ \A q \in Requests \ {r} : rows'[q] = rows[q]
           /\ rendered \cap (DOMAIN f \cup Linked) # {} => \E o \in Outputs : assets'[r][o] > 0
<1> DEFINE kept == {x \in rows[r] : \A o \in DOMAIN f : ~SameRow(x, f[o])}
           saved == {[f[o] EXCEPT !.status = OutputStatus(rendered, o),
                                  !.asset = @ \/ o \in rendered] : o \in DOMAIN f}
           inserted == {[by |-> t, output |-> o, status |-> OutputStatus(rendered, o),
                         asset |-> o \in rendered] : o \in Linked \ DOMAIN f}
           more == [o \in Outputs |-> assets[r][o] + IF o \in NewAssets(rendered, f) THEN 1 ELSE 0]
<1>1. /\ rows' = [rows EXCEPT ![r] = kept \cup saved \cup inserted]
      /\ assets' = [assets EXCEPT ![r] = more]
  BY Zenon DEF UpsertOutputs
<1>2. assets \in [Requests -> [Outputs -> Nat]] /\ rows \in [Requests -> SUBSET Row]
  BY DEF TypeOK
<1>3. \A o \in DOMAIN f : /\ f[o] \in handler[t].seen /\ f[o] \in Row
                          /\ f[o].output = o /\ o \in Outputs
  BY DEF Choices, TypeOK, HandlerStates, Row
<1>4. \A o \in DOMAIN f : f[o].asset => assets[r][o] > 0
  BY <1>3 DEF SeenHaveAssets
<1>5. /\ \A q \in Requests \ {r} : assets'[q] = assets[q] /\ rows'[q] = rows[q]
      /\ assets'[r] = more /\ rows'[r] = kept \cup saved \cup inserted
  <2> HIDE DEF more, kept, saved, inserted
  <2> QED
    BY <1>1, <1>2
<1>6. \A o \in Outputs : /\ more[o] \in Nat
                         /\ assets[r][o] > 0 => more[o] > 0
                         /\ o \in NewAssets(rendered, f) => more[o] > 0
  <2>1. \A o \in Outputs : assets[r][o] \in Nat
    BY <1>2
  <2> QED
    BY <2>1
<1>7. \A o \in rendered \cap (DOMAIN f \cup Linked) : more[o] > 0
  <2> HIDE DEF more
  <2>1. ASSUME NEW o \in rendered \cap (DOMAIN f \cup Linked) PROVE more[o] > 0
    <3>1. o \in Outputs
      OBVIOUS
    <3>2. CASE o \in DOMAIN f /\ f[o].asset
      BY <1>4, <1>6, <3>1, <3>2
    <3>3. CASE ~(o \in DOMAIN f /\ f[o].asset)
      BY <1>6, <3>1, <3>3 DEF NewAssets
    <3> QED
      BY <3>2, <3>3
  <2> QED
    BY <2>1
<1>8. \A q \in Requests, o \in Outputs : assets[q][o] > 0 => assets'[q][o] > 0
  <2> HIDE DEF more, kept, saved, inserted
  <2> SUFFICES ASSUME NEW q \in Requests, NEW o \in Outputs, assets[q][o] > 0
               PROVE  assets'[q][o] > 0
    OBVIOUS
  <2>1. CASE q = r
    BY <1>5, <1>6, <2>1
  <2>2. CASE q # r
    BY <1>5, <2>2
  <2> QED
    BY <2>1, <2>2
<1>9. ASSUME NEW x \in rows'[r]
      PROVE  /\ x.status = "completed" => x.asset
             /\ x.asset => more[x.output] > 0
  <2>1. CASE x \in kept
    <3>1. x \in rows[r] /\ x.output \in Outputs
      BY <1>2, <2>1 DEF Row
    <3> HIDE DEF more
    <3> QED
      BY <1>6, <3>1 DEF DeliveredOutputsHaveAssets
  <2>2. CASE x \in saved
    <3>1. PICK o \in DOMAIN f :
            x = [f[o] EXCEPT !.status = OutputStatus(rendered, o), !.asset = @ \/ o \in rendered]
      BY Zenon, <2>2
    <3>2. /\ x.status = OutputStatus(rendered, o) /\ x.output = o
          /\ x.asset <=> (f[o].asset \/ o \in rendered)
      BY <1>3, <3>1 DEF Row
    <3> HIDE DEF more
    <3>3. x.status = "completed" => o \in rendered
      BY <3>2 DEF OutputStatus
    <3>4. o \in rendered => more[o] > 0
      BY <1>7
    <3>5. f[o].asset => more[o] > 0
      BY <1>3, <1>4, <1>6
    <3> QED
      BY <3>2, <3>3, <3>4, <3>5
  <2>3. CASE x \in inserted
    <3>1. PICK o \in Linked \ DOMAIN f :
            x = [by |-> t, output |-> o, status |-> OutputStatus(rendered, o), asset |-> o \in rendered]
      BY <2>3
    <3>2. x.status = OutputStatus(rendered, o) /\ x.output = o /\ (x.asset <=> o \in rendered)
      BY <3>1
    <3> HIDE DEF more
    <3>3. o \in rendered => more[o] > 0
      BY <1>7
    <3> QED
      BY <3>2, <3>3 DEF OutputStatus
  <2> HIDE DEF kept, saved, inserted
  <2> QED
    BY <1>5, <2>1, <2>2, <2>3
<1>10. rendered \cap (DOMAIN f \cup Linked) # {} => \E o \in Outputs : more[o] > 0
  <2> HIDE DEF more
  <2> QED
    BY <1>7
<1> HIDE DEF more, kept, saved, inserted
<1> QED
  BY <1>5, <1>8, <1>9, <1>10

\* The failure of a handler takes no Asset away and completes no output.
LEMMA FailureDelivers ==
    ASSUME TypeOK, DeliveredOutputsHaveAssets, NEW t \in Threads,
           NEW r \in Requests, r = RequestOf(t), HandleFailed(t)
    PROVE  /\ UNCHANGED assets
           /\ \A x \in rows'[r] : /\ x.status = "completed" => x.asset
                                  /\ x.asset => assets[r][x.output] > 0
           /\ \A q \in Requests \ {r} : rows'[q] = rows[q]
           /\ notices' = notices \cup {<<"content_pack_failed", r>>}
<1> DEFINE hit(x) == \E y \in handler[t].seen : SameRow(x, y)
           left == {IF hit(x) THEN [x EXCEPT !.status = "failed"] ELSE x : x \in rows[r]}
<1>1. rows' = [rows EXCEPT ![r] = left] /\ rows \in [Requests -> SUBSET Row]
  BY Zenon DEF HandleFailed, TypeOK
<1>2. ASSUME NEW x \in left
      PROVE  /\ x.status = "completed" => x.asset
             /\ x.asset => assets[r][x.output] > 0
  <2> HIDE DEF hit
  <2>1. PICK y \in rows[r] : x = IF hit(y) THEN [y EXCEPT !.status = "failed"] ELSE y
    OBVIOUS
  <2>2. y \in Row
    BY <1>1
  <2>3. x.asset = y.asset /\ x.output = y.output /\ (x.status = "failed" \/ x.status = y.status)
    BY <2>1, <2>2 DEF Row
  <2> QED
    BY <2>3 DEF DeliveredOutputsHaveAssets
<1>3. UNCHANGED assets /\ notices' = notices \cup {<<"content_pack_failed", r>>}
  BY DEF HandleFailed
<1> HIDE DEF left
<1> QED
  BY <1>1, <1>2, <1>3

\* The transaction of a handler delivers what it shows.
LEMMA CommitDelivers ==
    ASSUME IInv, NEW t \in Threads, CommitApply(t)
    PROVE  /\ DeliveredOutputsHaveAssets'
           /\ \A q \in Requests, o \in Outputs : assets[q][o] > 0 => assets'[q][o] > 0
<1> DEFINE r == RequestOf(t)
           rendered == good[handler[t].job]
<1>1. TypeOK /\ HandlersHaveJobs /\ SeenHaveAssets /\ DeliveredOutputsHaveAssets
  BY DEF IInv
<1>2. r \in Requests /\ handler[t].job \in Jobs /\ rows' \in [Requests -> SUBSET Row]
  BY <1>1, CommitFacts
<1>3. rendered \in SUBSET Outputs /\ rows \in [Requests -> SUBSET Row]
  BY <1>1, <1>2 DEF TypeOK
<1> DEFINE kept == /\ \A q \in Requests, o \in Outputs : assets[q][o] > 0 => assets'[q][o] > 0
                   /\ \A x \in rows'[r] : /\ x.status = "completed" => x.asset
                                          /\ x.asset => assets'[r][x.output] > 0
                   /\ \A q \in Requests \ {r} : rows'[q] = rows[q]
           told == \E o \in Outputs : assets'[r][o] > 0
<1>4. kept /\ (\/ notices' = notices \cup {<<"content_pack_failed", r>>}
               \/ told /\ notices' = notices \cup {<<"content_pack_ready", r>>})
  <2>1. CASE HandleFailed(t)
    BY <1>1, <1>2, <2>1, FailureDelivers
  <2>2. CASE HandleSuccess(t)
    <3> HIDE DEF kept, told
    <3>1. PICK f \in Choices(t) :
            /\ UpsertOutputs(t, rendered, f)
            /\ \/ notices' = notices \cup {<<"content_pack_failed", r>>}
               \/ /\ rendered \cap (DOMAIN f \cup Linked) # {}
                  /\ notices' = notices \cup {<<"content_pack_ready", r>>}
      BY <2>2 DEF HandleSuccess
    <3>2. kept /\ (rendered \cap (DOMAIN f \cup Linked) # {} => told)
      <4> USE DEF kept, told
      <4> HIDE DEF rendered
      <4> QED
        BY <1>1, <1>2, <1>3, <3>1, UpsertDelivers
    <3> QED
      BY <3>1, <3>2
  <2> QED
    BY <2>1, <2>2 DEF CommitApply
<1> HIDE DEF rendered, r
<1>5. \A q \in Requests : \A x \in rows'[q] : x.output \in Outputs
  BY <1>2 DEF Row
<1>6. ASSUME NEW q \in Requests
      PROVE  /\ \A x \in rows'[q] : x.status = "completed" => x.asset
             /\ \A x \in rows'[q] : x.asset => assets'[q][x.output] > 0
             /\ <<"content_pack_ready", q>> \in notices' => \E o \in Outputs : assets'[q][o] > 0
  <2>1. \A x \in rows'[q] : /\ x.status = "completed" => x.asset
                            /\ x.asset => assets'[q][x.output] > 0
    <3>1. CASE q = r
      <4>1. kept
        BY <1>4
      <4> QED
        BY <3>1, <4>1
    <3>2. CASE q # r
      <4>1. rows'[q] = rows[q]
        BY <1>4, <3>2
      <4>2. \A x \in rows[q] : /\ x.status = "completed" => x.asset
                               /\ x.asset => assets[q][x.output] > 0
        BY <1>1 DEF DeliveredOutputsHaveAssets
      <4> QED
        BY <1>4, <1>5, <4>1, <4>2
    <3> QED
      BY <3>1, <3>2
  <2>2. <<"content_pack_ready", q>> \in notices =>  \E o \in Outputs : assets'[q][o] > 0
    BY <1>1, <1>4 DEF DeliveredOutputsHaveAssets
  <2>3. <<"content_pack_ready", q>> \in notices' =>
          <<"content_pack_ready", q>> \in notices \/ (q = r /\ told)
    BY <1>4
  <2> QED
    BY <2>1, <2>2, <2>3
<1> QED
  BY <1>4, <1>6 DEF DeliveredOutputsHaveAssets

\* A step leaves a handler alone, empties what it has seen or lets it read; and a job that
\* has a request keeps it.
LEMMA HandlerSteps ==
    ASSUME TypeOK, AbsentJobs, [Next]_vars
    PROVE  /\ \A t \in Threads : \/ handler'[t] = handler[t]
                                 \/ handler'[t].seen = {}
                                 \/ BeginApply(t)
           /\ \A j \in Jobs : entity'[j] = entity[j] \/ entity[j] = NONE
<1> DEFINE quiet == \A t \in Threads : \/ handler'[t] = handler[t]
                                       \/ handler'[t].seen = {}
                                       \/ BeginApply(t)
           same == \A j \in Jobs : entity'[j] = entity[j] \/ entity[j] = NONE
<1>1. handler \in [Threads -> HandlerStates] /\ entity \in [Jobs -> Requests \cup {NONE}]
  BY DEF TypeOK
<1>2. ASSUME NEW j \in Jobs, SubmissionStep(j) PROVE quiet /\ same
  BY <1>1, <1>2 DEF SubmissionStep, SubmitDisabled, SubmitDryRun, SubmitUnresolved, SubmitPost,
     PostAnswered, PostTimedOut, PostFailed, SubmissionDies, MarkSubmission, IDLE, jobVars, Threads
<1>3. ASSUME NEW j \in Jobs, RendererStep(j) PROVE quiet /\ same
  <2>1. CASE \E w \in Workers : ReceiveCallback(j, w)
    BY <1>1, <2>1 DEF ReceiveCallback, jobVars, Threads
  <2>2. CASE AcceptPost(j) \/ LosePost(j) \/ Execute(j) \/ LoseAttempt(j) \/ AttemptTimesOut(j)
    BY <2>2 DEF AcceptPost, LosePost, Execute, Renderings, LoseAttempt, AttemptTimesOut, jobVars
  <2> QED
    BY <1>3, <2>1, <2>2 DEF RendererStep
<1>4. ASSUME NEW j \in Jobs, OperatorStep(j) PROVE quiet /\ same
  <2>1. status[j] = "absent" => entity[j] = NONE
    BY DEF AbsentJobs
  <2> QED
    BY <1>1, <1>4, <2>1 DEF OperatorStep, CheckRetry, OpenRetry, NewJob, AdminCancel, jobVars
<1>5. ASSUME NEW r \in Requests, NEW j \in Jobs, OpenJob(r, j) PROVE quiet /\ same
  <2>1. status[j] = "absent" => entity[j] = NONE
    BY DEF AbsentJobs
  <2> QED
    BY <1>1, <1>5, <2>1 DEF OpenJob, NewJob
<1>6. ASSUME NEW r \in Requests, BeginRequest(r) \/ CommitRequest(r) \/ AbandonOpening(r)
      PROVE  quiet /\ same
  BY <1>6 DEF BeginRequest, CommitRequest, AbandonOpening, jobVars
<1>7. ASSUME NEW t \in Threads, BeginApply(t) \/ CommitApply(t) PROVE quiet /\ same
  <2>1. CASE BeginApply(t)
    <3>1. \A u \in Threads \ {t} : handler'[u] = handler[u]
      BY <1>1, <2>1 DEF BeginApply
    <3> QED
      BY <2>1, <3>1 DEF BeginApply, jobVars
  <2>2. CASE CommitApply(t)
    BY <1>1, <2>2 DEF CommitApply, IDLE
  <2> QED
    BY <1>7, <2>1, <2>2
<1>8. ASSUME NEW w \in Workers, WorkerDies(w) PROVE quiet /\ same
  BY <1>1, <1>8 DEF WorkerDies, IDLE, jobVars, Threads
<1>9. ASSUME RendererDies \/ UNCHANGED vars PROVE quiet /\ same
  BY <1>9 DEF RendererDies, vars, jobVars
<1> HIDE DEF quiet, same
<1>10. quiet /\ same
  BY <1>2, <1>3, <1>4, <1>5, <1>6, <1>7, <1>8, <1>9 DEF Next
<1> QED
  BY <1>10 DEF quiet, same

\* No step takes an Asset away or shows an output without one.
LEMMA DeliveryStep ==
    ASSUME IInv, [Next]_vars
    PROVE  SeenHaveAssets' /\ DeliveredOutputsHaveAssets'
<1>1. /\ TypeOK /\ AbsentJobs /\ HandlersHaveJobs /\ SeenHaveAssets /\ DeliveredOutputsHaveAssets
      /\ TypeOK'
  BY TypeStep DEF IInv
<1>2. /\ DeliveredOutputsHaveAssets'
      /\ \A q \in Requests, o \in Outputs : assets[q][o] > 0 => assets'[q][o] > 0
  <2>1. CASE \E t \in Threads : CommitApply(t)
    BY <2>1, CommitDelivers
  <2>2. CASE UNCHANGED <<rows, assets, notices>>
    BY <1>1, <2>2 DEF DeliveredOutputsHaveAssets
  <2> QED
    BY <2>1, <2>2, ProductSteps DEF CommitRequest, productVars
<1>3. ASSUME NEW t \in Threads
      PROVE  /\ handler'[t].phase = "idle" => handler'[t].seen = {}
             /\ \A x \in handler'[t].seen : x.asset => assets'[entity'[handler'[t].job]][x.output] > 0
  <2>1. /\ handler[t] \in HandlerStates /\ handler \in [Threads -> HandlerStates]
        /\ rows \in [Requests -> SUBSET Row]
    BY <1>1 DEF TypeOK
  <2>2. \A x \in Row : x.output \in Outputs
    BY DEF Row
  <2>3. handler[t].phase # "idle" => /\ RequestOf(t) \in Requests
                                     /\ entity'[handler[t].job] = RequestOf(t)
    <3>1. handler[t].phase # "idle" => handler[t].job \in Jobs /\ RequestOf(t) \in Requests
      BY <1>1 DEF HandlersHaveJobs, RequestOf
    <3>2. \A j \in Jobs : entity'[j] = entity[j] \/ entity[j] = NONE
      BY <1>1, HandlerSteps
    <3> QED
      BY <3>1, <3>2, ThreadAssumption DEF RequestOf
  <2>4. CASE handler'[t] = handler[t]
    <3>1. /\ handler[t].phase = "idle" => handler[t].seen = {}
          /\ \A x \in handler[t].seen : x.asset => assets[RequestOf(t)][x.output] > 0
      BY <1>1 DEF SeenHaveAssets
    <3>2. handler[t].seen \subseteq Row
      BY <2>1 DEF HandlerStates
    <3> QED
      BY <1>2, <2>2, <2>3, <2>4, <3>1, <3>2
  <2>5. CASE handler'[t].seen = {}
    BY <2>5
  <2>6. CASE BeginApply(t)
    <3>1. /\ handler'[t].phase = "applying" /\ handler'[t].job = handler[t].job
          /\ handler'[t].seen \subseteq rows[RequestOf(t)]
          /\ handler[t].phase # "idle"
      <4>1. PICK seen \in SUBSET rows[RequestOf(t)] :
              handler' = [handler EXCEPT ![t].phase = "applying", ![t].seen = seen]
        BY <2>6 DEF BeginApply
      <4>2. handler[t].phase = "guarded"
        BY <2>6 DEF BeginApply
      <4>3. handler'[t] = [handler[t] EXCEPT !.phase = "applying", !.seen = seen]
        BY <2>1, <4>1
      <4>4. handler'[t].phase = "applying" /\ handler'[t].job = handler[t].job /\ handler'[t].seen = seen
        BY <2>1, <4>3 DEF HandlerStates
      <4> QED
        BY <4>2, <4>4
    <3>2. \A x \in rows[RequestOf(t)] : x.asset => assets[RequestOf(t)][x.output] > 0
      BY <1>1, <2>3, <3>1 DEF DeliveredOutputsHaveAssets
    <3>3. \A x \in rows[RequestOf(t)] : x.output \in Outputs
      BY <2>1, <2>2, <2>3, <3>1
    <3> QED
      BY <1>2, <2>3, <3>1, <3>2, <3>3
  <2> QED
    BY <1>1, <2>4, <2>5, <2>6, HandlerSteps
<1> QED
  BY <1>2, <1>3 DEF SeenHaveAssets, RequestOf

-----------------------------------------------------------------------------
(* The theorems *)

LEMMA Initially ==
    Init => IInv
<1> SUFFICES ASSUME Init
             PROVE  IInv
  OBVIOUS
<1> USE ThreadAssumption, NumberAssumption DEF Init
<1>1. TypeOK
  BY DEF TypeOK, RequestStatuses, LedgerKeys, UsageKeys, NoticeKeys, HandlerStates, IDLE
<1>2. AbsentJobs /\ AttemptsLeft
  BY DEF AbsentJobs, AttemptsLeft
<1>3. HandlersHaveJobs
  BY DEF HandlersHaveJobs, IDLE
<1>4. RequestsExist
  BY DEF RequestsExist
<1>5. LedgerFollowsRequests /\ OutcomeSettlesCredits
  BY DEF LedgerFollowsRequests, OutcomeSettlesCredits
<1>6. FiniteReservations /\ CreditsAccounted
  <2>1. Reserved = {} /\ Consumed = {} /\ Released = {}
    BY DEF Reserved, Consumed, Released
  <2>2. IsFiniteSet({}) /\ Cardinality({}) = 0
    BY FS_EmptySet
  <2>3. QED
    BY <2>1, <2>2 DEF FiniteReservations, CreditsAccounted
<1>7. ResultReachesRequest
  BY DEF ResultReachesRequest, SUCCESS_STATUSES
<1>8. SeenHaveAssets /\ DeliveredOutputsHaveAssets
  BY DEF SeenHaveAssets, DeliveredOutputsHaveAssets, IDLE
<1>9. QED
  BY <1>1, <1>2, <1>3, <1>4, <1>5, <1>6, <1>7, <1>8 DEF IInv

LEMMA Inductive ==
    IInv /\ [Next]_vars => IInv'
BY TypeStep, ShapeStep, ExistenceStep, LedgerStep, CreditStep, ResultStep, DeliveryStep DEF IInv

\* The invariant the others follow from holds in every state of the system.
THEOREM Invariant ==
    Spec => []IInv
BY Initially, Inductive, PTL DEF Spec

\* Every variable keeps its type; a callback is never attempted more than MaxAttempts
\* times, whatever is lost, timed out or killed.
THEOREM TypeCorrect ==
    Spec => []TypeOK
<1>1. IInv => TypeOK
  BY DEF IInv
<1>2. QED
  BY <1>1, Invariant, PTL

\* Credits are neither minted nor lost by any number of requests, jobs, retries and
\* concurrent handlers.
THEOREM CreditsCorrect ==
    Spec => []CreditsAccounted
<1>1. IInv => CreditsAccounted
  BY DEF IInv
<1>2. QED
  BY <1>1, Invariant, PTL

\* Whatever outcome the last handler leaves on a request, the ledger has settled it.
THEOREM OutcomesCorrect ==
    Spec => []OutcomeSettlesCredits
<1>1. IInv => OutcomeSettlesCredits
  BY DEF IInv
<1>2. QED
  BY <1>1, Invariant, PTL

\* A result that shows on a job has reached its request, or its thread is on the way.
THEOREM ResultsCorrect ==
    Spec => []ResultReachesRequest
<1>1. IInv => ResultReachesRequest
  BY DEF IInv
<1>2. QED
  BY <1>1, Invariant, PTL

\* No completed output is ever shown without its file, nor a pack announced before an Asset of
\* it exists, whichever handlers work from stale rows (content/callbacks.py).
THEOREM DeliveryCorrect ==
    Spec => []DeliveredOutputsHaveAssets
<1>1. IInv => DeliveredOutputsHaveAssets
  BY DEF IInv
<1>2. QED
  BY <1>1, Invariant, PTL

\* Every step of the product is the first movement of a key of the ledger, or moves nothing.
THEOREM UsesLedger ==
    Spec => UsesKeyedLedger
<1>1. Init => Keyed!Init
  BY DEF Init, Keyed!Init
<1>2. IInv /\ [Next]_vars => [Keyed!Next]_Keyed!vars
  <2> SUFFICES ASSUME IInv, [Next]_vars
               PROVE  [Keyed!Next]_Keyed!vars
    OBVIOUS
  <2> DEFINE moves(k) == /\ k \in LedgerKeys \ ledger
                         /\ ledger' = ledger \cup {k}
                         /\ balance' = balance + EntryAmount(k)
  <2>1. ASSUME NEW k, moves(k)
        PROVE  Keyed!Next
    BY <2>1 DEF Keyed!Next, Keyed!Apply
  <2>2. CASE UNCHANGED <<ledger, balance>>
    BY <2>2 DEF Keyed!vars
  <2>3. ASSUME NEW r \in Requests, CommitRequest(r)
        PROVE  UNCHANGED <<ledger, balance>> \/ moves(<<"reserve", r>>)
    <3>1. <<"reserve", r>> \in LedgerKeys \ ledger /\ EntryAmount(<<"reserve", r>>) = -Cost
      BY <2>3 DEF CommitRequest, IInv, RequestsExist, LedgerFollowsRequests, LedgerKeys, EntryAmount
    <3>2. balance' = balance - Cost
      BY <2>3 DEF CommitRequest
    <3>3. ledger' = IF Cost > 0 THEN ledger \cup {<<"reserve", r>>} ELSE ledger
      BY <2>3 DEF CommitRequest
    <3>4. QED
      BY <3>1, <3>2, <3>3, NumberAssumption DEF IInv, TypeOK
  <2>4. ASSUME NEW r \in Requests, NEW consume \in BOOLEAN, SettleCredits(r, consume)
        PROVE  \/ UNCHANGED <<ledger, balance>>
               \/ moves(<<"consume", r>>)
               \/ moves(<<"release", r>>)
    <3>1. /\ {<<"consume", r>>, <<"release", r>>} \subseteq LedgerKeys
          /\ EntryAmount(<<"consume", r>>) = 0 /\ EntryAmount(<<"release", r>>) = Cost
      BY DEF LedgerKeys, EntryAmount
    <3>2. \/ UNCHANGED <<ledger, balance>>
          \/ ConsumeReserved(r)
          \/ ReleaseReserved(r)
      <4>1. Cost = 0 \/ (Cost > 0 /\ consume) \/ (Cost > 0 /\ ~consume)
        BY NumberAssumption
      <4>2. QED
        BY <2>4, <4>1 DEF SettleCredits
    <3>3. CASE ConsumeReserved(r)
      <4>1. ledger' = ledger \cup {<<"consume", r>>} /\ balance' = balance
        BY <3>3 DEF ConsumeReserved
      <4>2. balance' = balance + EntryAmount(<<"consume", r>>)
        BY <3>1, <4>1 DEF IInv, TypeOK
      <4>3. QED
        BY <3>1, <4>1, <4>2
    <3>4. CASE ReleaseReserved(r)
      BY <3>1, <3>4 DEF ReleaseReserved
    <3>5. QED
      BY <3>2, <3>3, <3>4
  <2>5. ASSUME NEW t \in Threads, CommitApply(t)
        PROVE  \E r \in Requests, consume \in BOOLEAN : SettleCredits(r, consume)
    <3>1. TypeOK /\ HandlersHaveJobs
      BY DEF IInv
    <3>2. QED
      BY Zenon, <2>5, <3>1, CommitFacts
  <2> HIDE DEF moves
  <2>6. QED
    BY <2>1, <2>2, <2>3, <2>4, <2>5, ProductSteps DEF productVars
<1>3. QED
  BY <1>1, <1>2, Invariant, PTL DEF Spec, UsesKeyedLedger, Keyed!Spec
-----------------------------------------------------------------------------
(* The outputs of a pack, of whatever links, under whatever catalogue *)

\* content-generation.renderer.ts, "never zero outputs": whatever pack and catalogue Django
\* had when it asked, and whatever they have become when the result arrives, a job has an
\* output, and what is required and what finds a template are outputs of it.  So every
\* pack meets OutputAssumption.
THEOREM PacksMeetOutputAssumption ==
    ASSUME NEW pack, NEW catalogue, NEW held, NEW packThen, NEW catalogueThen
    PROVE  LET result == Result(Payload(pack, catalogue, held))
           IN  /\ DOMAIN result # {}
               /\ RequiredPlaces(result) \subseteq DOMAIN result
               /\ LinkedPlaces(result, packThen, catalogueThen) \subseteq DOMAIN result
<1> DEFINE payload == Payload(pack, catalogue, held)
<1> HIDE DEF payload
<1>1. DOMAIN Specs(payload) # {}
  BY DEF Specs
<1>2. DOMAIN Result(payload) # {}
  BY <1>1 DEF Result
<1>3. QED
  BY <1>2 DEF payload, RequiredPlaces, LinkedPlaces

\* The places of a job that has expected outputs are their links, and each output keeps
\* the type of its link.
LEMMA ExpectedPlaces ==
    ASSUME NEW pack, NEW catalogue, NEW held,
           ExpectedOutputs(pack, catalogue) # {},
           \A l \in pack.links : l.output_type # ""
    PROVE  LET result == Result(Payload(pack, catalogue, held))
           IN  /\ DOMAIN result = ExpectedOutputs(pack, catalogue)
               /\ DOMAIN result \subseteq pack.links
               /\ \A l \in DOMAIN result :
                    /\ result[l].output_type = l.output_type
                    /\ result[l].template_key \in TemplateKeys
<1> DEFINE payload == Payload(pack, catalogue, held)
           result == Result(payload)
<1>1. payload.expected_outputs = ExpectedOutputs(pack, catalogue)
  BY DEF Payload
<1> HIDE DEF payload
<1>2. Specs(payload) = [l \in ExpectedOutputs(pack, catalogue) |->
                          ReadExpectedOutput(payload, l)]
  BY <1>1 DEF Specs
<1>3. DOMAIN result = ExpectedOutputs(pack, catalogue)
  BY <1>2 DEF Result
<1>4. ExpectedOutputs(pack, catalogue) \subseteq pack.links
  BY DEF ExpectedOutputs
<1>5. ASSUME NEW l \in ExpectedOutputs(pack, catalogue)
      PROVE  /\ result[l].output_type = l.output_type
             /\ result[l].template_key \in TemplateKeys
  <2>1. result[l] = RenderedOutput(payload, ReadExpectedOutput(payload, l))
    BY <1>2 DEF Result
  <2>2. ReadExpectedOutput(payload, l).output_type = l.output_type
    BY <1>4 DEF ReadExpectedOutput, Rendition
  <2>3. \A key : ResolvedKey(key) \in TemplateKeys
    BY DEF ResolvedKey, TemplateKeys
  <2>4. \A spec : /\ RenderedOutput(payload, spec).output_type = spec.output_type
                  /\ RenderedOutput(payload, spec).template_key
                       = ResolvedKey(spec.template_key)
    BY DEF RenderedOutput
  <2>5. QED
    BY <2>1, <2>2, <2>3, <2>4
<1>6. QED
  BY <1>3, <1>4, <1>5 DEF payload

\* callbacks.py, _resolve_template: when a pack had an active template, and has lost none of
\* its links by the time the result arrives, no output of the job is skipped for want of a
\* template, whatever became of the catalogue.  Only a job of defaults loses outputs.
THEOREM ExpectedOutputsAreLinked ==
    ASSUME NEW pack, NEW catalogue, NEW held, NEW packThen, NEW catalogueThen,
           ExpectedOutputs(pack, catalogue) # {},
           \A l \in pack.links : l.output_type # "",
           pack.links \subseteq packThen.links
    PROVE  LET result == Result(Payload(pack, catalogue, held))
           IN  LinkedPlaces(result, packThen, catalogueThen) = DOMAIN result
<1> DEFINE result == Result(Payload(pack, catalogue, held))
<1>1. /\ DOMAIN result \subseteq pack.links
      /\ \A l \in DOMAIN result :
           /\ result[l].output_type = l.output_type
           /\ result[l].template_key \in TemplateKeys
  BY ExpectedPlaces
<1> HIDE DEF result
<1>2. ASSUME NEW l \in DOMAIN result
      PROVE  TemplatesOf(packThen, catalogueThen, result[l]) # {}
  <2>1. l \in {k \in packThen.links : k.output_type = result[l].output_type}
    BY <1>1
  <2>2. QED
    BY <2>1 DEF TemplatesOf
<1>3. LinkedPlaces(result, packThen, catalogueThen) = DOMAIN result
  BY <1>2 DEF LinkedPlaces
<1>4. QED
  BY <1>3 DEF result

\* No field of the contract carries the template of an output from Django to the renderer
\* and back.  It survives all the same while the catalogue has no key of the renderer's
\* registry and a pack has one link of each type: then every output is given the very
\* template it was asked for.
THEOREM TemplatesSurvive ==
    ASSUME NEW pack, NEW catalogue, NEW held, NEW catalogueThen,
           ExpectedOutputs(pack, catalogue) # {},
           \A l \in pack.links : l.output_type # "",
           \A k, l \in pack.links : k.output_type = l.output_type => k = l,
           TemplateKeys \cap DOMAIN catalogueThen = {}
    PROVE  LET result == Result(Payload(pack, catalogue, held))
           IN  \A l \in DOMAIN result :
                 TemplatesOf(pack, catalogueThen, result[l]) = {l.template}
<1> DEFINE result == Result(Payload(pack, catalogue, held))
<1>1. /\ DOMAIN result \subseteq pack.links
      /\ \A l \in DOMAIN result :
           /\ result[l].output_type = l.output_type
           /\ result[l].template_key \in TemplateKeys
  BY ExpectedPlaces
<1> HIDE DEF result
<1>2. ASSUME NEW l \in DOMAIN result
      PROVE  TemplatesOf(pack, catalogueThen, result[l]) = {l.template}
  <2>1. result[l].template_key \notin DOMAIN catalogueThen
    BY <1>1
  <2>2. \A k \in pack.links : k.output_type = result[l].output_type <=> k = l
    BY <1>1
  <2>3. {k \in pack.links : k.output_type = result[l].output_type} = {l}
    BY <1>1, <2>2
  <2>4. QED
    BY <2>1, <2>3 DEF TemplatesOf
<1>3. QED
  BY <1>2 DEF result
=============================================================================
