-------------------------- MODULE CampaignActions --------------------------
(***************************************************************************)
(* The actions of a campaign, campaign_actions: what the team decided on   *)
(* each recommendation.  Requests create actions (POST), edit them (PATCH) *)
(* and move them along by the endpoints complete, mark-reviewed, cancel    *)
(* and dismiss.  POST and PATCH read and validate before their transaction *)
(* begins; the endpoints lock the row and read it again.                   *)
(***************************************************************************)
CONSTANTS
    Actions,          \* the rows of CampaignAction there may ever be
    Recommendations,  \* recommendation_ref, each with its campaign
    Kinds,            \* the action types in play
    Sessions,         \* the requests served at a time, one each
    NONE

Statuses ==
    {"pending", "in_progress", "completed", "failed", "dismissed", "cancelled"}

ActionTypes ==
    {"content_pack", "report_request", "media_kit_request",
     "manual_task", "mark_reviewed", "dismiss"}

ASSUME KindAssumption == Kinds \subseteq ActionTypes
ASSUME NoneAssumption == NONE \notin Actions \cup Recommendations \cup Statuses \cup ActionTypes

VARIABLES
    action,    \* action[a]: the committed row of a
    session    \* session[s]: the POST or PATCH that s serves

vars == <<action, session>>

-----------------------------------------------------------------------------
(* Rows and sessions *)

\* completed_at and cancelled_at are set or not, dismiss_reason is blank or not.
Row ==
    [kind: Kinds, ref: Recommendations \cup {NONE}, status: Statuses,
     completedAt: BOOLEAN, cancelledAt: BOOLEAN, reason: BOOLEAN]

ABSENT ==
    [kind |-> NONE, ref |-> NONE, status |-> NONE,
     completedAt |-> FALSE, cancelledAt |-> FALSE, reason |-> FALSE]

\* What a request holds in memory: the action it is on, the row it is to save, the
\* status asked for, and the reason that goes with it.
SessionStates ==
    [at: {"idle", "validated", "checked", "written"}, on: Actions \cup {NONE},
     row: Row \cup {ABSENT}, target: Statuses \cup {NONE}, reason: BOOLEAN]

IDLE == [at |-> "idle", on |-> NONE, row |-> ABSENT, target |-> NONE, reason |-> FALSE]

\* Only a manual task may have no recommendation.
WellReferred(row) == row.kind # "manual_task" => row.ref # NONE

TypeOK ==
    /\ action \in [Actions -> Row \cup {ABSENT}]
    /\ session \in [Sessions -> SessionStates]
    /\ \A a \in Actions : action[a] # ABSENT => WellReferred(action[a])
    /\ \A s \in Sessions :
         session[s] # IDLE => /\ session[s].on \in Actions
                              /\ session[s].row \in Row
                              /\ WellReferred(session[s].row)

Init ==
    /\ action = [a \in Actions |-> ABSENT]
    /\ session = [s \in Sessions |-> IDLE]

-----------------------------------------------------------------------------
(* The rules *)

\* Mutant: whatever happened, an action may be cancelled.
CancelAnything(status) ==
    CASE status = "pending" -> Statuses \ {"pending"}
      [] status = "in_progress" -> {"completed", "failed", "cancelled"}
      [] OTHER -> {"cancelled"}

ALLOWED_STATUS_TRANSITIONS(status) ==
    CASE status = "pending" -> Statuses \ {"pending"}
      [] status = "in_progress" -> {"completed", "failed", "cancelled"}
      [] OTHER -> {}

TERMINAL_STATUSES == {"completed", "failed", "dismissed", "cancelled"}

\* validate_status_transition.
Allowed(current, target, reason) ==
    /\ target = "dismissed" => reason
    /\ target = current \/ target \in ALLOWED_STATUS_TRANSITIONS(current)

\* transition_campaign_action: status, stamps and reason go together.
Transitioned(row, target, reason) ==
    [row EXCEPT !.status = target,
                !.completedAt = (target = "completed"),
                !.cancelledAt = (target = "cancelled"),
                !.reason = target = "dismissed" /\ (reason \/ row.reason)]

\* Mutant: no recommendation is asked for.
ConsistentWithoutRef(kind, ref, status, reason) ==
    /\ kind = "dismiss" \/ status = "dismissed" => reason
    /\ kind = "dismiss" => status = "dismissed"
    /\ kind = "mark_reviewed" => status = "completed"

\* CampaignActionSerializer.validate, but for the duplicates.
Consistent(kind, ref, status, reason) ==
    /\ kind # "manual_task" => ref # NONE
    /\ kind = "dismiss" \/ status = "dismissed" => reason
    /\ kind = "dismiss" => status = "dismissed"
    /\ kind = "mark_reviewed" => status = "completed"

\* _ACTIVE_DUPLICATE_STATUSES, and the condition of unique_active_campaign_action.
ActiveStatus(status) == status \in {"pending", "in_progress", "completed"}

Active(row) == row.ref # NONE /\ ActiveStatus(row.status)
SameKey(row, other) == row.ref = other.ref /\ row.kind = other.kind

\* Mutant: a completed action is no duplicate.
DuplicatedWhileOpen(a, row) ==
    \E b \in Actions \ {a} :
      /\ Active(action[b])
      /\ SameKey(row, action[b])
      /\ action[b].status # "completed"

\* Another action with an active committed row has the recommendation and the type.
Duplicated(a, row) == \E b \in Actions \ {a} : Active(action[b]) /\ SameKey(row, action[b])

-----------------------------------------------------------------------------
(* POST and PATCH *)

NewRow(kind, ref) ==
    [ABSENT EXCEPT !.kind = kind, !.ref = ref, !.status = "pending"]

\* POST, validated.  The row will be inserted pending and then moved to the target.
Post(s, a) ==
    /\ session[s] = IDLE
    /\ action[a] = ABSENT
    /\ \A u \in Sessions : session[u].on # a
    /\ \E kind \in Kinds, ref \in Recommendations \cup {NONE},
          target \in Statuses, reason \in BOOLEAN :
         /\ Consistent(kind, ref, target, reason)
         /\ session' = [session EXCEPT ![s] =
              [at |-> "validated", on |-> a, row |-> NewRow(kind, ref),
               target |-> target, reason |-> reason]]
    /\ UNCHANGED action

\* PATCH: the row is read, with no lock, and the fields validated against it.
Patch(s, a) ==
    /\ session[s] = IDLE
    /\ action[a] # ABSENT
    /\ \E target \in Statuses \cup {NONE}, reason \in BOOLEAN :
         /\ Consistent(action[a].kind, action[a].ref,
                       IF target = NONE THEN action[a].status ELSE target, reason)
         /\ target # NONE => Allowed(action[a].status, target, reason)
         /\ session' = [session EXCEPT ![s] =
              [at |-> "validated", on |-> a, row |-> [action[a] EXCEPT !.reason = reason],
               target |-> target, reason |-> reason]]
    /\ UNCHANGED action

\* _validate_duplicate, for the status the action is to have; a duplicate is a 400.
CheckDuplicate(s) ==
    LET row == session[s].row
        status == IF session[s].target = NONE THEN row.status ELSE session[s].target
    IN  /\ session[s].at = "validated"
        /\ session' = [session EXCEPT ![s] =
             IF Active([row EXCEPT !.status = status]) /\ Duplicated(session[s].on, row)
             THEN IDLE ELSE [@ EXCEPT !.at = "checked"]]
        /\ UNCHANGED action

\* Another transaction has written the row, uncommitted.
RowLocked(s, a) ==
    \E u \in Sessions \ {s} : session[u].at = "written" /\ session[u].on = a

\* Another transaction has written, or is changing, an active row of the key.
KeyHeld(s) ==
    \E u \in Sessions \ {s} :
      /\ session[u].at = "written"
      /\ \E row \in {session[u].row, action[session[u].on]} :
           Active(row) /\ SameKey(row, session[s].row)

\* super().create or super().update, first statement of the transaction: the whole row
\* is written, and unique_active_campaign_action checked; IntegrityError ends it.
Write(s) ==
    LET row == session[s].row
    IN  /\ session[s].at = "checked"
        /\ ~RowLocked(s, session[s].on)
        /\ Active(row) => ~KeyHeld(s)
        /\ session' = [session EXCEPT ![s] =
             IF Active(row) /\ Duplicated(session[s].on, row)
             THEN IDLE ELSE [@ EXCEPT !.at = "written"]]
        /\ UNCHANGED action

\* Mutant: only the field that was sent is saved.
SavedField(s) ==
    IF action[session[s].on] = ABSENT THEN session[s].row
    ELSE [action[session[s].on] EXCEPT !.reason = session[s].row.reason]

\* save() of the instance read before validation: every field, stale ones included.
Saved(s) == session[s].row

\* The transition, if a status was asked for, and the commit.
Commit(s) ==
    LET a == session[s].on
        target == session[s].target
    IN  /\ session[s].at = "written"
        /\ action' = [action EXCEPT ![a] =
             IF target = NONE THEN Saved(s)
             ELSE Transitioned(Saved(s), target, session[s].reason)]
        /\ session' = [session EXCEPT ![s] = IDLE]

\* The request raises, or its process dies: the transaction rolls back.
Abort(s) ==
    /\ session[s] # IDLE
    /\ session' = [session EXCEPT ![s] = IDLE]
    /\ UNCHANGED action

-----------------------------------------------------------------------------
(* The endpoints *)

\* complete and mark-reviewed, cancel, dismiss with a reason.
Endpoints == {"completed", "cancelled", "dismissed"}

\* _transition: SELECT FOR UPDATE waits for who has written the row, then checks the
\* row as it is; one transaction.
Transition(a, target) ==
    /\ action[a] # ABSENT
    /\ \A s \in Sessions : ~(session[s].at = "written" /\ session[s].on = a)
    /\ LET reason == target = "dismissed"
       IN  /\ Allowed(action[a].status, target, reason \/ action[a].reason)
           /\ action' = [action EXCEPT ![a] = Transitioned(@, target, reason)]
    /\ UNCHANGED session

Next ==
    \/ \E s \in Sessions, a \in Actions : Post(s, a) \/ Patch(s, a)
    \/ \E s \in Sessions : CheckDuplicate(s) \/ Write(s) \/ Commit(s) \/ Abort(s)
    \/ \E a \in Actions, target \in Endpoints : Transition(a, target)

Spec == Init /\ [][Next]_vars

-----------------------------------------------------------------------------
(* Properties *)

\* What the screens show is consistent, though a PATCH may save a stale row: an action
\* has completed_at just when it is completed, cancelled_at just when it is cancelled,
\* and a reason whenever it is dismissed.
StampsMatch(row) ==
    /\ row.completedAt = (row.status = "completed")
    /\ row.cancelledAt = (row.status = "cancelled")
    /\ row.status = "dismissed" => row.reason

StampsMatchStatus == \A a \in Actions : StampsMatch(action[a])

\* A recommendation is never acted upon twice in the same way: of the actions of one
\* recommendation and type at most one is active, whether they were created at the same
\* time or one was brought back by a stale PATCH.
OneActiveAction ==
    \A a, b \in Actions :
      Active(action[a]) /\ Active(action[b]) /\ SameKey(action[a], action[b]) => a = b

\* A decision that is an action of its own is never seen undecided and never changes:
\* one of type dismiss is dismissed and one of type mark_reviewed completed.
Decided(row, status) ==
    /\ row.kind = "dismiss" => status = "dismissed"
    /\ row.kind = "mark_reviewed" => status = "completed"

DecisionsStand == \A a \in Actions : Decided(action[a], action[a].status)

-----------------------------------------------------------------------------
(* What the repository says of the program, and the code does not do *)

\* services.py: completed, failed, dismissed and cancelled are terminal.
TerminalStays ==
    [][\A a \in Actions : action[a].status \in TERMINAL_STATUSES =>
         action'[a].status = action[a].status]_vars
=============================================================================
