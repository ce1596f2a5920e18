------------------------- MODULE StripeSubscription -------------------------
(***************************************************************************)
(* The subscription of one workspace and the two ways it changes: Stripe's *)
(* events, each delivered any number of times and in any order to several  *)
(* server processes (billing/webhooks.py), and a change of plan by an      *)
(* administrator (change_subscription_plan).  A delivery is one database   *)
(* transaction at READ COMMITTED: it looks the event up, inserts it, reads *)
(* the subscription, and writes the subscription and the event's outcome,  *)
(* which are seen when it commits.  Deliveries refused for their signature *)
(* or for a body that is not JSON change nothing and are left out.         *)
(***************************************************************************)
EXTENDS Integers, FiniteSets

CONSTANTS
    Events,        \* provider_event_ids
    Bodies,        \* what events say, see Body
    Servers,       \* the processes that handle webhook requests
    Plans,
    NONE

\* What an event can say of the subscription.  "incomplete" stands for the
\* statuses of Stripe that STRIPE_STATUS_MAP does not know, "malformed" for a
\* payload whose "data" is not the object the handler takes it for.
Body == [type: {"subscription.updated", "subscription.deleted",
                "invoice", "unhandled", "malformed"},
         status: {"trialing", "active", "past_due", "canceled", "unpaid",
                  "paused", "incomplete"},
         cancelling: BOOLEAN]

Outcomes == {"processed", "ignored", "failed"}

ASSUME BodyAssumption == Bodies \subseteq Body
ASSUME NoneAssumption ==
    NONE \notin Bodies /\ NONE \notin Outcomes /\ NONE \notin Events

VARIABLES
    subscription,  \* the Subscription row
    body,          \* body[e]: what event e says, NONE until Stripe emits it
    log,           \* log[e]: the outcome on e's BillingWebhookEvent row
    server,        \* server[s]: the delivery it handles
    change,        \* the change of plan under way, NONE if there is none
    told,          \* history: what the last event written to the row said
    applied        \* history: how often event e was written to the row

stripeVars == <<subscription, body, log, server, change, told, applied>>

Statuses == {"trialing", "active", "past_due", "cancelled", "unpaid",
             "paused", "enterprise_manual"}
ActiveStatuses == {"trialing", "active", "past_due", "enterprise_manual"}

Idle == [at |-> "idle", event |-> NONE, status |-> NONE]

Deliveries ==
    [at: {"idle", "new", "inserted", "read"}, event: Events \cup {NONE},
     status: Statuses \cup {NONE}]

StripeTypeOK ==
    /\ subscription \in [status: Statuses, cancelling: BOOLEAN, plan: Plans]
    /\ body \in [Events -> Bodies \cup {NONE}]
    /\ log \in [Events -> Outcomes \cup {NONE}]
    /\ server \in [Servers -> Deliveries]
    /\ change \in {NONE} \cup [plan: Plans, status: Statuses]
    /\ told \in Bodies \cup {NONE}
    /\ applied \in [Events -> Nat]

StripeInit ==
    /\ subscription \in [status: {"trialing"}, cancelling: {FALSE}, plan: Plans]
    /\ body = [e \in Events |-> NONE]
    /\ log = [e \in Events |-> NONE]
    /\ server = [s \in Servers |-> Idle]
    /\ change = NONE
    /\ told = NONE
    /\ applied = [e \in Events |-> 0]

\* Stripe's status in ours, NONE when there is none for it.
StripeStatusMap(status) ==
    CASE status = "canceled" -> "cancelled"
      [] status = "incomplete" -> NONE
      [] OTHER -> status

\* The status an event gives the subscription; NONE: it has no say.
StatusFrom(b) ==
    IF b.type = "subscription.deleted" THEN "cancelled"
    ELSE StripeStatusMap(b.status)

AboutSubscription(b) ==
    b.type \in {"subscription.updated", "subscription.deleted"}

-----------------------------------------------------------------------------
\* Something happens to the subscription at Stripe.
Emit(e) ==
    /\ body[e] = NONE
    /\ \E b \in Bodies : body' = [body EXCEPT ![e] = b]
    /\ UNCHANGED <<subscription, log, server, change, told, applied>>

\* An event is delivered, for the first time or again, and is not in the log.
\* (One that is there is answered as a duplicate, which changes nothing.)
Receive(s, e) ==
    /\ server[s] = Idle
    /\ body[e] # NONE
    /\ log[e] = NONE
    /\ server' = [server EXCEPT ![s] = [Idle EXCEPT !.at = "new", !.event = e]]
    /\ UNCHANGED <<subscription, body, log, change, told, applied>>

\* Another transaction has inserted the event and not committed yet.
Inserting(e, s) ==
    \E other \in Servers \ {s} :
      server[other].event = e /\ server[other].at \in {"inserted", "read"}

\* The mutant: the log has no unique constraint.
InsertUnkeyed(s) ==
    /\ server[s].at = "new"
    /\ server' = [server EXCEPT ![s].at = "inserted"]
    /\ UNCHANGED <<subscription, body, log, change, told, applied>>

\* The insertion waits for another one of the same event; when that commits,
\* this one violates unique_provider_event_id and answers as a duplicate.
Insert(s) ==
    LET e == server[s].event IN
    /\ server[s].at = "new"
    /\ ~Inserting(e, s)
    /\ server' = [server EXCEPT ![s] =
                    IF log[e] # NONE THEN Idle ELSE [@ EXCEPT !.at = "inserted"]]
    /\ UNCHANGED <<subscription, body, log, change, told, applied>>

\* _sync_subscription_from_event loads the row it is going to write.
ReadSubscription(s) ==
    /\ server[s].at = "inserted"
    /\ AboutSubscription(body[server[s].event])
    /\ server' = [server EXCEPT ![s].at = "read",
                                ![s].status = subscription.status]
    /\ UNCHANGED <<subscription, body, log, change, told, applied>>

\* It writes status and cancel_at_period_end, whether the event changes the
\* status or not, and the transaction commits.
CommitSubscription(s) ==
    LET e == server[s].event
        status == StatusFrom(body[e])
    IN
    /\ server[s].at = "read"
    /\ subscription' = [subscription EXCEPT
                          !.status = IF status = NONE THEN server[s].status
                                     ELSE status,
                          !.cancelling = body[e].cancelling]
    /\ log' = [log EXCEPT ![e] = "processed"]
    /\ applied' = [applied EXCEPT ![e] = @ + 1]
    /\ told' = body[e]
    /\ server' = [server EXCEPT ![s] = Idle]
    /\ UNCHANGED <<body, change>>

\* The events that have nothing to say of a subscription, and those that cannot
\* be read: their failure is stored, so they are never processed again.
CommitOther(s) ==
    LET e == server[s].event IN
    /\ server[s].at = "inserted"
    /\ ~AboutSubscription(body[e])
    /\ log' = [log EXCEPT ![e] = CASE body[e].type = "invoice" -> "processed"
                                   [] body[e].type = "unhandled" -> "ignored"
                                   [] body[e].type = "malformed" -> "failed"]
    /\ server' = [server EXCEPT ![s] = Idle]
    /\ UNCHANGED <<subscription, body, change, told, applied>>

\* The process dies or the database fails it: the transaction is rolled back,
\* and Stripe, which has no answer or a 500, will deliver the event again.
Die(s) ==
    /\ server[s] # Idle
    /\ server' = [server EXCEPT ![s] = Idle]
    /\ UNCHANGED <<subscription, body, log, change, told, applied>>

\* change_subscription_plan reads the active subscription; there is nothing to
\* do when there is none or it has the plan.
BeginPlanChange(plan) ==
    /\ change = NONE
    /\ subscription.status \in ActiveStatuses
    /\ subscription.plan # plan
    /\ change' = [plan |-> plan, status |-> subscription.status]
    /\ UNCHANGED <<subscription, body, log, server, told, applied>>

\* The mutant: save() without update_fields writes every field it has read.
CommitWholeRow ==
    /\ change # NONE
    /\ subscription' = [subscription EXCEPT !.plan = change.plan,
                                            !.status = change.status]
    /\ change' = NONE
    /\ UNCHANGED <<body, log, server, told, applied>>

\* ... and saves the plan, by itself.
CommitPlanChange ==
    /\ change # NONE
    /\ subscription' = [subscription EXCEPT !.plan = change.plan]
    /\ change' = NONE
    /\ UNCHANGED <<body, log, server, told, applied>>

StripeNext ==
    \/ \E e \in Events : Emit(e)
    \/ \E s \in Servers, e \in Events : Receive(s, e)
    \/ \E s \in Servers :
         \/ Insert(s)
         \/ ReadSubscription(s)
         \/ CommitSubscription(s)
         \/ CommitOther(s)
         \/ Die(s)
    \/ \E plan \in Plans : BeginPlanChange(plan)
    \/ CommitPlanChange

StripeSpec == StripeInit /\ [][StripeNext]_stripeVars

-----------------------------------------------------------------------------
\* However often and to however many processes an event is delivered, and
\* wherever they die, it is written to the subscription once, together with
\* its entry in the log, or not at all.
AppliedOnce ==
    \A e \in Events :
      applied[e] = IF /\ log[e] = "processed"
                      /\ AboutSubscription(body[e])
                   THEN 1 ELSE 0

\* The status and the coming cancellation the workspace is served under are
\* those of the last event written, if that says which: no change of plan made
\* meanwhile takes them back.
StatusTracksEvents ==
    told # NONE =>
      /\ StatusFrom(told) # NONE => subscription.status = StatusFrom(told)
      /\ subscription.cancelling = told.cancelling
=============================================================================
