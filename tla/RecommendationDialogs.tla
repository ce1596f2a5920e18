----------------------- MODULE RecommendationDialogs -----------------------
(***************************************************************************)
(* How the browser turns a recommendation into an action, frontend         *)
(* features/campaign-actions: a dialog has the artifact made (a content    *)
(* pack request, report or media kit), and then registers the action that  *)
(* links it, two requests that nothing makes one.  Each dialog is in a tab *)
(* of its own, of any user; they are all on the same recommendation and    *)
(* action type.  A request may be refused, or be lost, or be served after  *)
(* the browser has given it up; the workspace and token it bears are those *)
(* of the tab when it is sent (shared/api/client.ts).                      *)
(***************************************************************************)
EXTENDS Integers, FiniteSets

CONSTANTS
    Dialogs,       \* openings of the dialog
    Rows,          \* the CampaignActions there may come to be
    MaxArtifacts,  \* the artifacts the requests of one dialog may make
    MaxGivenUp,    \* the requests given up that may be on their way at a time
    NONE

ASSUME BoundAssumption == MaxArtifacts \in Nat \ {0} /\ MaxGivenUp \in Nat

Artifacts == [by: Dialogs, number: 1 .. MaxArtifacts]

ASSUME NoneAssumption == NONE \notin Rows /\ NONE \notin Artifacts

VARIABLES
    action,        \* action[r]: a CampaignAction
    made,          \* made[d]: the number of artifacts made for d
    unseen,        \* history: how many of them d was never told of
    dialog,        \* dialog[d]: the state of the dialog and its mutation
    admitted,      \* admitted[d]: d's tab bears the campaign's workspace, signed in
    wire           \* the requests not served, awaited by the browser or not

vars == <<action, made, unseen, dialog, admitted, wire>>

\* A request is awaited until it is given up; equal ones given up are told apart.
Requests == [from: Dialogs, kind: {"artifact", "register", "link"},
             artifact: Artifacts \cup {NONE}, row: Rows \cup {NONE},
             admitted: BOOLEAN, given: 0 .. MaxGivenUp]

Awaited(q) == q.given = 0

\* Which of equal requests is the first to be served makes no difference.
Last(q) == Awaited(q) \/ [q EXCEPT !.given = @ + 1] \notin wire

Waits == {"making", "registering", "linking"}

CampaignActions == [state: {"absent", "active", "closed"},
                    artifact: Artifacts \cup {NONE}, bare: BOOLEAN]

DialogStates == [at: Waits \cup {"form", "partial", "looking", "conflict",
                                 "done", "closed"},
                 lookup: {"pending", "none", "active"},
                 artifact: Artifacts \cup {NONE}, found: Rows \cup {NONE},
                 shown: BOOLEAN]

TypeOK ==
    /\ action \in [Rows -> CampaignActions]
    /\ made \in [Dialogs -> 0 .. MaxArtifacts]
    /\ unseen \in [Dialogs -> 0 .. MaxArtifacts]
    /\ dialog \in [Dialogs -> DialogStates]
    /\ admitted \in [Dialogs -> BOOLEAN]
    /\ wire \subseteq Requests

Init ==
    /\ action = [r \in Rows |->
                   [state |-> "absent", artifact |-> NONE, bare |-> FALSE]]
    /\ made = [d \in Dialogs |-> 0]
    /\ unseen = [d \in Dialogs |-> 0]
    /\ dialog = [d \in Dialogs |->
                   [at |-> "form", lookup |-> "pending", artifact |-> NONE,
                    found |-> NONE, shown |-> TRUE]]
    /\ admitted = [d \in Dialogs |-> TRUE]
    /\ wire = {}

\* findActiveRecommendationAction.
ActiveRows == {r \in Rows : action[r].state = "active"}

Request(d, kind, artifact, row) ==
    [from |-> d, kind |-> kind, artifact |-> artifact, row |-> row,
     admitted |-> admitted[d], given |-> 0]

CLOSED == [at |-> "closed", lookup |-> "pending", artifact |-> NONE,
           found |-> NONE, shown |-> FALSE]

\* The dialog comes to a state the user is to see.  Nobody does once it was
\* unmounted, though its mutation has run on.
Rest(d, at) == IF dialog[d].shown THEN [dialog[d] EXCEPT !.at = at] ELSE CLOSED

\* An error: of the first step the form tells, of a later one the alert
\* "Artifact created; action not registered".
Failed(d) ==
    Rest(d, IF dialog[d].artifact = NONE THEN "form" ELSE "partial")

-----------------------------------------------------------------------------
(* The dialog *)

\* exactTypeQuery is answered, first or again.  (In another workspace it has
\* another key, and the dialog is gone.)
LookUp(d) ==
    /\ dialog[d].at = "form"
    /\ dialog' = [dialog EXCEPT ![d].lookup = IF ActiveRows = {} THEN "none"
                                              ELSE "active"]
    /\ UNCHANGED <<action, made, unseen, admitted, wire>>

\* The mutant: the form can be submitted beside the alert.
SubmitAnyTime(d) ==
    /\ dialog[d].at \in {"form", "partial"}
    /\ dialog[d].lookup = "none"
    /\ dialog' = [dialog EXCEPT ![d].at = "making"]
    /\ wire' = wire \cup {Request(d, "artifact", NONE, NONE)}
    /\ UNCHANGED <<action, made, unseen, admitted>>

\* handleSubmit.
Submit(d) ==
    /\ dialog[d].at = "form"
    /\ dialog[d].lookup = "none"
    /\ dialog' = [dialog EXCEPT ![d].at = "making"]
    /\ wire' = wire \cup {Request(d, "artifact", NONE, NONE)}
    /\ UNCHANGED <<action, made, unseen, admitted>>

\* handleRetryCampaignAction: "Retry CampaignAction only".
Retry(d) ==
    /\ dialog[d].at = "partial"
    /\ dialog' = [dialog EXCEPT ![d].at = "looking"]
    /\ UNCHANGED <<action, made, unseen, admitted, wire>>

\* The mutant: whatever the action found is linked to, it is linked anew.
LookAndLink(d) ==
    /\ dialog[d].at = "looking"
    /\ \E r \in ActiveRows :
         /\ admitted[d]
         /\ dialog' = [dialog EXCEPT ![d].at = "linking", ![d].found = r]
         /\ wire' = wire \cup {Request(d, "link", dialog[d].artifact, r)}
    /\ UNCHANGED <<action, made, unseen, admitted>>

\* The lookup of the retry has found an active action: it links the artifact
\* already, or nothing yet, or another one (reconcileExistingAction).
LookFinds(d) ==
    /\ dialog[d].at = "looking"
    /\ admitted[d]
    /\ \E r \in ActiveRows :
         LET there == action[r].artifact
             mine == dialog[d].artifact
         IN
         \/ /\ there = mine
            /\ dialog' = [dialog EXCEPT ![d] = Rest(d, "done")]
            /\ UNCHANGED wire
         \/ /\ there = NONE
            /\ dialog' = [dialog EXCEPT ![d].at = "linking", ![d].found = r]
            /\ wire' = wire \cup {Request(d, "link", mine, r)}
         \/ /\ there \notin {mine, NONE}
            /\ dialog' = [dialog EXCEPT ![d] = Rest(d, "conflict")]
            /\ UNCHANGED wire
    /\ UNCHANGED <<action, made, unseen, admitted>>

\* It has found none, as it does in another workspace: the payload kept is sent
\* again.
LookFindsNone(d) ==
    /\ dialog[d].at = "looking"
    /\ admitted[d] => ActiveRows = {}
    /\ dialog' = [dialog EXCEPT ![d].at = "registering"]
    /\ wire' = wire \cup {Request(d, "register", dialog[d].artifact, NONE)}
    /\ UNCHANGED <<action, made, unseen, admitted>>

LookFails(d) ==
    /\ dialog[d].at = "looking"
    /\ dialog' = [dialog EXCEPT ![d] = Failed(d)]
    /\ UNCHANGED <<action, made, unseen, admitted, wire>>

\* handleClose: not while a request is awaited, and not with an artifact whose
\* registration can be retried.
Close(d) ==
    /\ dialog[d].at \in {"form", "conflict"}
    /\ dialog' = [dialog EXCEPT ![d] = CLOSED]
    /\ UNCHANGED <<action, made, unseen, admitted, wire>>

\* The user switches the workspace, or the session ends with a 401, or the
\* other way round.  The dialog is unmounted; what its mutation has begun goes
\* on, and each further request bears what the tab has then.
SwitchWorkspace(d) ==
    /\ dialog[d].at \notin {"done", "closed"}
    /\ admitted' = [admitted EXCEPT ![d] = ~@]
    /\ dialog' = [dialog EXCEPT
                    ![d] = IF @.at \in {"form", "partial", "conflict"}
                           THEN CLOSED ELSE [@ EXCEPT !.shown = FALSE]]
    /\ UNCHANGED <<action, made, unseen, wire>>

-----------------------------------------------------------------------------
(* The network and the backend *)

\* A request fails: it is refused, for its workspace, a limit, a duplicate, or
\* any other error.
Refuse(q) ==
    /\ wire' = wire \ {q}
    /\ dialog' = IF Awaited(q) THEN [dialog EXCEPT ![q.from] = Failed(q.from)]
                 ELSE dialog
    /\ UNCHANGED <<action, made, unseen, admitted>>

\* The browser gives a request up (NetworkError); it may be served yet.
GiveUp(q) ==
    /\ Awaited(q)
    /\ Cardinality({p \in wire : ~Awaited(p)}) < MaxGivenUp
    /\ \E n \in 1 .. MaxGivenUp :
         /\ [q EXCEPT !.given = n] \notin wire
         /\ \A k \in 1 .. n - 1 : [q EXCEPT !.given = k] \in wire
         /\ wire' = (wire \ {q}) \cup {[q EXCEPT !.given = n]}
    /\ dialog' = [dialog EXCEPT ![q.from] = Failed(q.from)]
    /\ UNCHANGED <<action, made, unseen, admitted>>

\* The artifact is made, with its job and its credits; the browser that awaits
\* it goes on to register the action (createTwoStepAction).
ServeArtifact(q) ==
    LET d == q.from
        new == [by |-> d, number |-> made[d] + 1]
    IN
    /\ q.kind = "artifact"
    /\ q.admitted
    /\ made[d] < MaxArtifacts
    /\ made' = [made EXCEPT ![d] = @ + 1]
    /\ IF Awaited(q)
       THEN /\ dialog' = [dialog EXCEPT ![d].at = "registering", ![d].artifact = new]
            /\ wire' = (wire \ {q}) \cup {Request(d, "register", new, NONE)}
            /\ UNCHANGED unseen
       ELSE /\ unseen' = [unseen EXCEPT ![d] = @ + 1]
            /\ wire' = wire \ {q}
            /\ UNCHANGED dialog
    /\ UNCHANGED <<action, admitted>>

Answered(q) ==
    dialog' = IF Awaited(q) THEN [dialog EXCEPT ![q.from] = Rest(q.from, "done")]
              ELSE dialog

\* The action is created; there may be one active at a time.
ServeRegister(q, r) ==
    /\ q.kind = "register"
    /\ q.admitted
    /\ ActiveRows = {}
    /\ action[r].state = "absent"
    /\ action' = [action EXCEPT ![r] = [state |-> "active", bare |-> FALSE,
                                        artifact |-> q.artifact]]
    /\ wire' = wire \ {q}
    /\ Answered(q)
    /\ UNCHANGED <<made, unseen, admitted>>

\* PATCH of the relation: it asks neither for the relation there was nor for
\* the status.
ServeLink(q) ==
    /\ q.kind = "link"
    /\ q.admitted
    /\ action' = [action EXCEPT ![q.row].artifact = q.artifact]
    /\ wire' = wire \ {q}
    /\ Answered(q)
    /\ UNCHANGED <<made, unseen, admitted>>

\* Other users of the API: one creates an action that links nothing, one fails,
\* dismisses or cancels an action.
CreateBare(r) ==
    /\ ActiveRows = {}
    /\ action[r].state = "absent"
    /\ action' = [action EXCEPT ![r] = [state |-> "active", bare |-> TRUE,
                                        artifact |-> NONE]]
    /\ UNCHANGED <<made, unseen, dialog, admitted, wire>>

CloseAction(r) ==
    /\ action[r].state = "active"
    /\ action' = [action EXCEPT ![r].state = "closed"]
    /\ UNCHANGED <<made, unseen, dialog, admitted, wire>>

Next ==
    \/ \E d \in Dialogs :
         \/ LookUp(d)
         \/ Submit(d)
         \/ Retry(d)
         \/ LookFinds(d)
         \/ LookFindsNone(d)
         \/ LookFails(d)
         \/ Close(d)
         \/ SwitchWorkspace(d)
    \/ \E q \in wire :
         /\ Last(q)
         /\ \/ Refuse(q)
            \/ GiveUp(q)
            \/ ServeArtifact(q)
            \/ ServeLink(q)
            \/ \E r \in Rows : ServeRegister(q, r)
    \/ \E r \in Rows : CreateBare(r) \/ CloseAction(r)

Spec == Init /\ [][Next]_vars

-----------------------------------------------------------------------------
\* Nobody pays twice for one opening of the dialog: it has a second artifact
\* made only after a request it was told had failed was served all the same.
\* Retrying the registration never makes one.
ArtifactsAccounted == \A d \in Dialogs : made[d] <= 1 + unseen[d]

\* A dialog that closed on success has its artifact linked by an action,
\* however its requests and those of other dialogs were delayed.  Only where
\* two dialogs repair an action that linked nothing does the later one
\* displace the link of the earlier.
SuccessIsRegistered ==
    \A d \in Dialogs :
      dialog[d].at = "done" =>
        \E r \in Rows :
          \/ action[r].artifact = dialog[d].artifact
          \/ action[r].bare /\ dialog[d].found = r /\ action[r].artifact # NONE
=============================================================================
