------------------------------ MODULE PlanQuota ------------------------------
(***************************************************************************)
(* What a workspace creates under the limits of its plan: campaigns, of    *)
(* which it may have so many at a time (the artists, tracks and smart      *)
(* links of catalogue/views.py and links/views.py go the same way), and    *)
(* content pack requests, of which it may make so many a month.  A request *)
(* counts, then names, then stores, then meters: no lock is held from the  *)
(* count to the insertion, so requests at the limit pass together, while   *)
(* events and administrators change the subscription the limit comes from. *)
(***************************************************************************)
EXTENDS StripeSubscription, FiniteSetsExt

CONSTANTS
    Items,         \* the rows that may come to be
    Creators,      \* the requests handled at a time
    Limit,         \* Limit[p]: the limit of plan p, Unlimited if it sets none
    Unlimited,
    LastSlug,      \* the last number with which the campaigns' slug fits its column
    Months         \* the number of months, a bound of the model

ASSUME LimitAssumption ==
    /\ Unlimited \notin Nat
    /\ Limit \in [Plans -> Nat \cup {Unlimited}]
ASSUME LastSlugAssumption == LastSlug \in Nat
ASSUME MonthsAssumption == Months \in Nat \ {0}
ASSUME QuotaFinite ==
    /\ IsFiniteSet(Items) /\ IsFiniteSet(Plans)
    /\ IsFiniteSet(Creators) /\ Creators # {}

VARIABLES
    feature,       \* the limit the workspace is up against
    item,          \* item[i]: a Campaign or ContentPackRequest row
    metered,       \* metered[i]: the month of its UsageEvent, 0 if it has none
    creator,       \* creator[c]: what request c is at
    month          \* current_billing_period

vars == <<stripeVars, feature, item, metered, creator, month>>

Features == {"campaigns_limit", "content_packs_per_month"}

\* History: how a live row came to be counted.  It passed a limit; no limit was
\* in force; or it came back from the archive, where it had not counted.
Admissions == {"counted", "unlimited", "unarchived"}

ASSUME UncountedAssumption == NONE \notin Admissions

Absent == [state |-> "absent", slug |-> 0, admission |-> NONE]
Waiting == [at |-> "idle", slug |-> 0, admission |-> NONE, item |-> NONE,
            overlapped |-> FALSE]

Slugs == 1 .. Cardinality(Items)

TypeOK ==
    /\ StripeTypeOK
    /\ feature \in Features
    /\ item \in [Items -> [state: {"absent", "live", "archived", "deleted"},
                           slug: {0} \cup Slugs, admission: Admissions \cup {NONE}]]
    /\ metered \in [Items -> 0 .. Months]
    /\ creator \in [Creators ->
                      [at: {"idle", "admitted", "named", "stored"},
                       slug: {0} \cup Slugs, admission: Admissions \cup {NONE},
                       item: Items \cup {NONE}, overlapped: BOOLEAN]]
    /\ month \in 1 .. Months

Init ==
    /\ StripeInit
    /\ feature \in Features
    /\ item = [i \in Items |-> Absent]
    /\ metered = [i \in Items |-> 0]
    /\ creator = [c \in Creators |-> Waiting]
    /\ month = 1

Rows == {i \in Items : item[i].state # "absent"}

-----------------------------------------------------------------------------
\* get_plan_limit: that of the plan, if a subscription is active.
PlanLimit ==
    IF subscription.status \in ActiveStatuses THEN Limit[subscription.plan]
    ELSE Unlimited

\* USAGE_COUNTERS: the rows that are neither archived nor deleted, or the usage
\* events of the month, which nothing takes away.
CountUsage ==
    Cardinality(IF feature = "campaigns_limit"
                THEN {i \in Items : item[i].state = "live"}
                ELSE {i \in Items : metered[i] = month})

\* The mutant: the one to be created is not counted.
AdmitOneMore(c) ==
    /\ creator[c] = Waiting
    /\ PlanLimit # Unlimited => CountUsage <= PlanLimit
    /\ creator' = [creator EXCEPT ![c].at = "admitted",
                     ![c].admission = IF PlanLimit = Unlimited THEN "unlimited"
                                      ELSE "counted"]
    /\ UNCHANGED <<stripeVars, feature, item, metered, month>>

\* check_workspace_limit.  (A request over the limit gets 402 and changes
\* nothing.)
Admit(c) ==
    /\ creator[c] = Waiting
    /\ PlanLimit # Unlimited => CountUsage + 1 <= PlanLimit
    /\ creator' = [creator EXCEPT ![c].at = "admitted",
                     ![c].admission = IF PlanLimit = Unlimited THEN "unlimited"
                                      ELSE "counted"]
    /\ UNCHANGED <<stripeVars, feature, item, metered, month>>

FreeSlug(taken) ==
    CHOOSE s \in Slugs \cup {Cardinality(Items) + 1} :
      /\ s \notin taken
      /\ \A earlier \in 1 .. s - 1 : earlier \in taken

\* The mutant: deleted rows do not count.
ChooseAliveSlug(c) ==
    /\ feature = "campaigns_limit"
    /\ creator[c].at = "admitted"
    /\ Rows # Items
    /\ creator' = [creator EXCEPT ![c].at = "named",
                     ![c].slug = FreeSlug({item[i].slug :
                       i \in {j \in Rows : item[j].state # "deleted"}})]
    /\ UNCHANGED <<stripeVars, feature, item, metered, month>>

\* generate_unique_slug: the campaigns all have one name, and take the first
\* number no row has, deleted ones included.  The number is appended to the name
\* as it is, however long that makes the slug.
ChooseSlug(c) ==
    /\ feature = "campaigns_limit"
    /\ creator[c].at = "admitted"
    /\ Rows # Items
    /\ creator' = [creator EXCEPT ![c].at = "named",
                     ![c].slug = FreeSlug({item[i].slug : i \in Rows})]
    /\ UNCHANGED <<stripeVars, feature, item, metered, month>>

\* The row unique_campaign_slug_per_workspace would be violated by.
SlugTaken(c) == \E i \in Rows : item[i].slug = creator[c].slug

\* The campaign is inserted, and committed.
StoreCampaign(c, i) ==
    /\ creator[c].at = "named"
    /\ i \notin Rows
    /\ ~SlugTaken(c)
    /\ creator[c].slug <= LastSlug
    /\ item' = [item EXCEPT ![i] = [state |-> "live", slug |-> creator[c].slug,
                                    admission |-> creator[c].admission]]
    /\ creator' = [d \in Creators |->
                     IF d = c THEN [Waiting EXCEPT !.at = "stored", !.item = i]
                     ELSE [creator[d] EXCEPT !.overlapped = @ \/ creator[d].at = "named"]]
    /\ UNCHANGED <<stripeVars, feature, metered, month>>

\* The insertion fails, for the constraint or for the length of the column: the
\* request is answered 500.
StoreFails(c) ==
    /\ creator[c].at = "named"
    /\ SlugTaken(c) \/ creator[c].slug > LastSlug
    /\ creator' = [creator EXCEPT ![c] = Waiting]
    /\ UNCHANGED <<stripeVars, feature, item, metered, month>>

\* record_creation_usage, in a transaction of its own.
Meter(c) ==
    /\ creator[c].at = "stored"
    /\ metered' = [metered EXCEPT ![creator[c].item] = month]
    /\ creator' = [creator EXCEPT ![c] = Waiting]
    /\ UNCHANGED <<stripeVars, feature, item, month>>

\* A content pack request and its usage event are one transaction.
StoreRequest(c, i) ==
    /\ feature = "content_packs_per_month"
    /\ creator[c].at = "admitted"
    /\ i \notin Rows
    /\ item' = [item EXCEPT ![i] = [state |-> "live", slug |-> 0,
                                    admission |-> creator[c].admission]]
    /\ metered' = [metered EXCEPT ![i] = month]
    /\ creator' = [creator EXCEPT ![c] = Waiting]
    /\ UNCHANGED <<stripeVars, feature, month>>

\* The process dies: what it has committed stays, a campaign without its usage
\* event, too.
Abandon(c) ==
    /\ creator[c] # Waiting
    /\ creator' = [creator EXCEPT ![c] = Waiting]
    /\ UNCHANGED <<stripeVars, feature, item, metered, month>>

\* PATCH {status: archived} and back; no limit is asked for on the way back.
Archive(i) ==
    /\ feature = "campaigns_limit"
    /\ item[i].state = "live"
    /\ item' = [item EXCEPT ![i].state = "archived", ![i].admission = NONE]
    /\ UNCHANGED <<stripeVars, feature, metered, creator, month>>

Unarchive(i) ==
    /\ item[i].state = "archived"
    /\ item' = [item EXCEPT ![i].state = "live", ![i].admission = "unarchived"]
    /\ UNCHANGED <<stripeVars, feature, metered, creator, month>>

\* soft_delete: the row stays, and so does its slug.
Delete(i) ==
    /\ feature = "campaigns_limit"
    /\ item[i].state \in {"live", "archived"}
    /\ item' = [item EXCEPT ![i].state = "deleted", ![i].admission = NONE]
    /\ UNCHANGED <<stripeVars, feature, metered, creator, month>>

\* The months are told apart where they are counted.
NextMonth ==
    /\ feature = "content_packs_per_month"
    /\ month < Months
    /\ month' = month + 1
    /\ UNCHANGED <<stripeVars, feature, item, metered, creator>>

Next ==
    \/ \E c \in Creators :
         \/ Admit(c)
         \/ ChooseSlug(c)
         \/ StoreFails(c)
         \/ Meter(c)
         \/ Abandon(c)
         \/ \E i \in Items : StoreCampaign(c, i) \/ StoreRequest(c, i)
    \/ \E i \in Items : Archive(i) \/ Unarchive(i) \/ Delete(i)
    \/ NextMonth
    \/ StripeNext /\ UNCHANGED <<feature, item, metered, creator, month>>

Spec == Init /\ [][Next]_vars

-----------------------------------------------------------------------------
LargestLimit == Max({0} \cup ({Limit[p] : p \in Plans} \ {Unlimited}))

\* The rows that passed a limit and count against it: at any time, or in a month.
CountedLive == {i \in Rows : item[i].admission = "counted" /\ item[i].state = "live"}
CountedIn(m) == {i \in Rows : item[i].admission = "counted" /\ metered[i] = m}

\* The rows that passed a limit and are counted against it, at any time or in
\* any month, exceed the largest limit there is by no more than the requests
\* that can be between the count and the insertion: whatever the subscription
\* does meanwhile, only races, missing limits and the archive lead past it.
QuotaOvershootBounded ==
    LET bound == LargestLimit + Cardinality(Creators) - 1 IN
    /\ feature = "campaigns_limit" => Cardinality(CountedLive) <= bound
    /\ feature = "content_packs_per_month" =>
         \A m \in 1 .. Months : Cardinality(CountedIn(m)) <= bound

\* A creation is turned down for its slug only when another one was stored
\* between the choice of the slug and the insertion, or when every slug that fits
\* the column has a row: of a name that fills it, only the first.  Short of that no
\* row that was there, live, archived or deleted, makes creating something of its
\* name fail, and no number is left out.
RefusedOnlyByRaceOrLength ==
    [][\A c \in Creators :
         StoreFails(c) =>
           \/ creator[c].overlapped
           \/ \A s \in 1 .. LastSlug : \E i \in Rows : item[i].slug = s]_vars
=============================================================================
