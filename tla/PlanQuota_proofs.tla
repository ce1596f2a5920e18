-------------------------- MODULE PlanQuota_proofs --------------------------
(***************************************************************************)
(* Proofs about StripeSubscription, for every set of events, servers and   *)
(* plans: an event is written to the subscription once or not at all, and  *)
(* the subscription has the status of the last one written.  And about     *)
(* PlanQuota, which runs beside it: for any number of rows, requests and   *)
(* months, any plans and limits, and whatever happens to the subscription, *)
(* whose invariant IInv is proved of its own steps.                        *)
(***************************************************************************)
EXTENDS PlanQuota, FiniteSetTheorems, TLAPS

-----------------------------------------------------------------------------
(* The subscription *)

\* The deliveries that have an event, and what they know of it: the one that
\* has inserted it is alone, and the event is not in the log before it commits.
DeliverySound(s) ==
    LET d == server[s] IN
    d # Idle =>
      /\ d.event \in Events
      /\ body[d.event] \in Bodies
      /\ d.at \in {"inserted", "read"} =>
           log[d.event] = NONE /\ ~Inserting(d.event, s)
      /\ d.at = "read" =>
           d.status \in Statuses /\ AboutSubscription(body[d.event])

IInv ==
    /\ StripeTypeOK
    /\ \A s \in Servers : DeliverySound(s)
    /\ \A e \in Events : log[e] # NONE => body[e] # NONE
    /\ AppliedOnce
    /\ StatusTracksEvents

-----------------------------------------------------------------------------
\* An event names a status of ours or none.
LEMMA StatusFromType ==
    ASSUME NEW b \in Bodies
    PROVE  StatusFrom(b) \in Statuses \cup {NONE}
  BY BodyAssumption DEF Body, StatusFrom, StripeStatusMap, Statuses

\* The initial states satisfy the invariant.
LEMMA InitInv == StripeInit => IInv
<1> SUFFICES ASSUME StripeInit PROVE IInv
  OBVIOUS
<1>1. StripeTypeOK
  BY DEF StripeInit, StripeTypeOK, Statuses, Deliveries, Idle
<1>2. \A s \in Servers : DeliverySound(s)
  BY DEF StripeInit, DeliverySound
<1>3. AppliedOnce /\ StatusTracksEvents /\ \A e \in Events : log[e] = NONE
  BY NoneAssumption DEF StripeInit, AppliedOnce, StatusTracksEvents, Outcomes
<1> QED
  BY <1>1, <1>2, <1>3 DEF IInv

-----------------------------------------------------------------------------
\* An event emitted: no delivery is of it yet.
LEMMA EmitInv ==
    ASSUME IInv, NEW e \in Events, Emit(e) PROVE IInv'
<1>1. PICK b \in Bodies : body' = [body EXCEPT ![e] = b]
  BY DEF Emit
<1>2. StripeTypeOK'
  BY <1>1 DEF IInv, StripeTypeOK, Emit
<1>3. ASSUME NEW s \in Servers PROVE DeliverySound(s)'
  <2>1. DeliverySound(s) /\ (server[s] # Idle => server[s].event # e)
    BY NoneAssumption DEF IInv, DeliverySound, Emit
  <2> QED
    BY <1>1, <2>1 DEF Emit, DeliverySound, Inserting, AboutSubscription, IInv, StripeTypeOK
<1>4. log[e] = NONE /\ \A f \in Events \ {e} : body'[f] = body[f]
  BY <1>1 DEF IInv, Emit, StripeTypeOK
<1>5. AppliedOnce'
  BY <1>4, NoneAssumption DEF IInv, AppliedOnce, Emit, Outcomes, AboutSubscription
<1>6. StatusTracksEvents' /\ \A f \in Events : log'[f] # NONE => body'[f] # NONE
  BY <1>4 DEF IInv, StatusTracksEvents, Emit
<1> QED
  BY <1>2, <1>3, <1>5, <1>6 DEF IInv

\* The steps of a delivery that keep to its own memory.
LEMMA ReceiveInv ==
    ASSUME IInv, NEW s \in Servers, NEW e \in Events, Receive(s, e) PROVE IInv'
<1>1. /\ server' = [server EXCEPT ![s] = [Idle EXCEPT !.at = "new", !.event = e]]
      /\ UNCHANGED <<subscription, body, log, change, told, applied>>
      /\ body[e] \in Bodies
  BY DEF Receive, IInv, StripeTypeOK
<1>2. server'[s] = [at |-> "new", event |-> e, status |-> NONE]
  BY <1>1 DEF IInv, StripeTypeOK, Idle
<1>3. StripeTypeOK'
  BY <1>1, <1>2 DEF IInv, StripeTypeOK, Deliveries, Idle
<1>4. ASSUME NEW t \in Servers PROVE DeliverySound(t)'
  BY <1>1, <1>2 DEF IInv, StripeTypeOK, DeliverySound, Inserting
<1> QED
  BY <1>1, <1>3, <1>4 DEF IInv, AppliedOnce, StatusTracksEvents

LEMMA InsertInv ==
    ASSUME IInv, NEW s \in Servers, Insert(s) PROVE IInv'
<1>1. /\ server' = [server EXCEPT ![s] =
                      IF log[server[s].event] # NONE THEN Idle
                      ELSE [@ EXCEPT !.at = "inserted"]]
      /\ UNCHANGED <<subscription, body, log, change, told, applied>>
      /\ server[s].at = "new" /\ ~Inserting(server[s].event, s)
  BY DEF Insert
<1>2. StripeTypeOK'
  <2>1. [server[s] EXCEPT !.at = "inserted"] \in Deliveries /\ Idle \in Deliveries
    BY DEF IInv, StripeTypeOK, Deliveries, Idle
  <2>2. server' \in [Servers -> Deliveries]
    BY <1>1, <2>1 DEF IInv, StripeTypeOK
  <2> QED
    BY <1>1, <2>2 DEF IInv, StripeTypeOK
<1>3. ASSUME NEW t \in Servers PROVE DeliverySound(t)'
  <2>1. DeliverySound(s) /\ DeliverySound(t) /\ server[s] # Idle
    BY <1>1 DEF IInv, Idle
  <2>2. CASE t = s
    BY <1>1, <2>1, <2>2 DEF IInv, StripeTypeOK, DeliverySound, Inserting, Deliveries, Idle
  <2>3. CASE t # s
    BY <1>1, <2>1, <2>3 DEF IInv, StripeTypeOK, DeliverySound, Inserting, Deliveries, Idle
  <2> QED
    BY <2>2, <2>3
<1> QED
  BY <1>1, <1>2, <1>3 DEF IInv, AppliedOnce, StatusTracksEvents

LEMMA ReadInv ==
    ASSUME IInv, NEW s \in Servers, ReadSubscription(s) PROVE IInv'
<1>1. /\ server' = [server EXCEPT ![s].at = "read", ![s].status = subscription.status]
      /\ UNCHANGED <<subscription, body, log, change, told, applied>>
      /\ server[s].at = "inserted" /\ AboutSubscription(body[server[s].event])
  BY DEF ReadSubscription
<1>2. StripeTypeOK'
  <2>1. subscription.status \in Statuses /\ server[s] \in Deliveries
    BY DEF IInv, StripeTypeOK
  <2>2. [server[s] EXCEPT !.at = "read", !.status = subscription.status] \in Deliveries
    BY <2>1 DEF Deliveries
  <2>3. server' = [server EXCEPT ![s] =
                     [server[s] EXCEPT !.at = "read", !.status = subscription.status]]
    BY <1>1 DEF IInv, StripeTypeOK
  <2>4. server' \in [Servers -> Deliveries]
    BY <2>2, <2>3 DEF IInv, StripeTypeOK
  <2> QED
    BY <1>1, <2>4 DEF IInv, StripeTypeOK
<1>3. ASSUME NEW t \in Servers PROVE DeliverySound(t)'
  BY <1>1 DEF IInv, StripeTypeOK, DeliverySound, Inserting, Deliveries, Idle
<1> QED
  BY <1>1, <1>2, <1>3 DEF IInv, AppliedOnce, StatusTracksEvents

LEMMA DieInv ==
    ASSUME IInv, NEW s \in Servers, Die(s) PROVE IInv'
<1>1. StripeTypeOK'
  BY DEF IInv, StripeTypeOK, Deliveries, Idle, Die
<1>2. ASSUME NEW t \in Servers PROVE DeliverySound(t)'
  BY DEF IInv, StripeTypeOK, DeliverySound, Inserting, Deliveries, Idle, Die
<1> QED
  BY <1>1, <1>2 DEF IInv, AppliedOnce, StatusTracksEvents, Die

-----------------------------------------------------------------------------
\* The commit: the event was not in the log, so it was not written before.
LEMMA CommitInv ==
    ASSUME IInv, NEW s \in Servers, CommitSubscription(s) PROVE IInv'
<1> DEFINE e == server[s].event
           status == StatusFrom(body[e])
<1>1. /\ e \in Events /\ body[e] \in Bodies /\ log[e] = NONE
      /\ ~Inserting(e, s)
      /\ server[s].status \in Statuses /\ AboutSubscription(body[e])
  BY DEF IInv, CommitSubscription, DeliverySound, Idle
<1>2. applied[e] = 0
  BY <1>1, NoneAssumption DEF IInv, AppliedOnce, Outcomes
<1>3. status \in Statuses \cup {NONE}
  BY <1>1, StatusFromType
<1>4. /\ subscription'.status = IF status = NONE THEN server[s].status ELSE status
      /\ subscription'.cancelling = body[e].cancelling
      /\ subscription' \in [status: Statuses, cancelling: BOOLEAN, plan: Plans]
  BY <1>1, <1>3, BodyAssumption DEF IInv, StripeTypeOK, CommitSubscription, Body
<1>5. /\ log' = [log EXCEPT ![e] = "processed"]
      /\ applied' = [applied EXCEPT ![e] = @ + 1]
      /\ told' = body[e]
      /\ server' = [server EXCEPT ![s] = Idle]
      /\ UNCHANGED <<body, change>>
  BY DEF CommitSubscription
<1>6. StripeTypeOK'
  BY <1>1, <1>2, <1>4, <1>5 DEF IInv, StripeTypeOK, Deliveries, Idle, Outcomes
<1>7. ASSUME NEW t \in Servers PROVE DeliverySound(t)'
  BY <1>1, <1>5 DEF IInv, StripeTypeOK, DeliverySound, Inserting, Deliveries, Idle
<1>8. AppliedOnce'
  BY <1>1, <1>2, <1>5 DEF IInv, StripeTypeOK, AppliedOnce
<1>9. StatusTracksEvents'
  BY <1>4, <1>5 DEF StatusTracksEvents
<1>10. \A f \in Events : log'[f] # NONE => body'[f] # NONE
  BY <1>1, <1>5, NoneAssumption DEF IInv, StripeTypeOK
<1> QED
  BY <1>6, <1>7, <1>8, <1>9, <1>10 DEF IInv

LEMMA OtherInv ==
    ASSUME IInv, NEW s \in Servers, CommitOther(s) PROVE IInv'
<1> DEFINE e == server[s].event
<1>1. /\ e \in Events /\ body[e] \in Bodies /\ log[e] = NONE
      /\ ~Inserting(e, s) /\ ~AboutSubscription(body[e])
  BY DEF IInv, CommitOther, DeliverySound, Idle
<1>2. PICK outcome \in Outcomes : log' = [log EXCEPT ![e] = outcome]
  <2>1. body[e].type \in {"invoice", "unhandled", "malformed"}
    BY <1>1, BodyAssumption DEF Body, AboutSubscription
  <2> QED
    BY <2>1 DEF CommitOther, Outcomes
<1>3. /\ server' = [server EXCEPT ![s] = Idle]
      /\ UNCHANGED <<subscription, body, change, told, applied>>
  BY DEF CommitOther
<1>4. StripeTypeOK'
  BY <1>2, <1>3 DEF IInv, StripeTypeOK, Deliveries, Idle
<1>5. ASSUME NEW t \in Servers PROVE DeliverySound(t)'
  BY <1>1, <1>2, <1>3 DEF IInv, StripeTypeOK, DeliverySound, Inserting, Deliveries, Idle
<1>6. AppliedOnce'
  BY <1>1, <1>2, <1>3, NoneAssumption DEF IInv, StripeTypeOK, AppliedOnce, Outcomes
<1>7. StatusTracksEvents' /\ \A f \in Events : log'[f] # NONE => body'[f] # NONE
  BY <1>1, <1>2, <1>3, NoneAssumption DEF IInv, StripeTypeOK, StatusTracksEvents
<1> QED
  BY <1>4, <1>5, <1>6, <1>7 DEF IInv

\* A change of plan keeps the status.
LEMMA PlanInv ==
    ASSUME IInv, CommitPlanChange \/ \E plan \in Plans : BeginPlanChange(plan)
    PROVE  IInv'
<1>1. UNCHANGED <<body, log, server, told, applied>>
  BY DEF CommitPlanChange, BeginPlanChange
<1>2. /\ subscription'.status = subscription.status
      /\ subscription'.cancelling = subscription.cancelling
      /\ StripeTypeOK'
  BY DEF IInv, StripeTypeOK, CommitPlanChange, BeginPlanChange
<1>3. \A s \in Servers : DeliverySound(s)'
  BY <1>1 DEF IInv, DeliverySound, Inserting
<1> QED
  BY <1>1, <1>2, <1>3 DEF IInv, AppliedOnce, StatusTracksEvents

-----------------------------------------------------------------------------
\* Every step keeps the invariant.
LEMMA StepInv == IInv /\ [StripeNext]_stripeVars => IInv'
<1> SUFFICES ASSUME IInv, [StripeNext]_stripeVars PROVE IInv'
  OBVIOUS
<1>1. CASE StripeNext
  BY <1>1, EmitInv, ReceiveInv, InsertInv, ReadInv, CommitInv, OtherInv, DieInv,
     PlanInv DEF StripeNext
<1>2. CASE UNCHANGED stripeVars
  BY <1>2 DEF IInv, stripeVars, StripeTypeOK, DeliverySound, Inserting,
     AppliedOnce, StatusTracksEvents
<1> QED
  BY <1>1, <1>2

\* The state of the subscription and of the deliveries is always well formed.
THEOREM StripeTypeCorrect == StripeSpec => []StripeTypeOK
<1>1. IInv => StripeTypeOK
  BY DEF IInv
<1> QED
  BY InitInv, StepInv, <1>1, PTL DEF StripeSpec

\* Duplicate deliveries, to however many servers, write an event once, and one
\* that is rolled back leaves it to the next.
THEOREM AppliedOnceCorrect == StripeSpec => []AppliedOnce
<1>1. IInv => AppliedOnce
  BY DEF IInv
<1> QED
  BY InitInv, StepInv, <1>1, PTL DEF StripeSpec

\* The subscription's status is the one the last event written gave it.
THEOREM StatusCorrect == StripeSpec => []StatusTracksEvents
<1>1. IInv => StatusTracksEvents
  BY DEF IInv
<1> QED
  BY InitInv, StepInv, <1>1, PTL DEF StripeSpec

-----------------------------------------------------------------------------
(* The quota *)

Bound == LargestLimit + Cardinality(Creators) - 1

\* The requests that passed a limit and have not stored what they were let through for.
Pending ==
    {c \in Creators : /\ creator[c].at \in {"admitted", "named"}
                      /\ creator[c].admission = "counted"}

\* Only campaigns are named and metered after the insertion, archived and deleted; the
\* months of the others are over or the present one.
FeaturesApart ==
    /\ \A c \in Creators : creator[c].at \in {"named", "stored"} => feature = "campaigns_limit"
    /\ \A c \in Creators : creator[c].at = "stored" => creator[c].item \in Items
    /\ feature = "content_packs_per_month" =>
         \A i \in Items : item[i].state \in {"absent", "live"} /\ metered[i] <= month

\* A name chosen is free until another row is stored.
NamesFree ==
    \A c \in Creators :
      creator[c].at = "named" /\ ~creator[c].overlapped => ~SlugTaken(c)

\* It is the first that was: rows come and stay, deleted or not, so each number before
\* it has one.
NamesFirst ==
    \A c \in Creators :
      creator[c].at = "named" =>
        \A s \in 1 .. creator[c].slug - 1 : \E i \in Rows : item[i].slug = s

\* What has passed a limit, stored or not, is within the bound: in the months to come,
\* too, as far as it is not stored yet.
CountedAndPending ==
    /\ feature = "campaigns_limit" => Cardinality(CountedLive) + Cardinality(Pending) <= Bound
    /\ feature = "content_packs_per_month" =>
         \A m \in 1 .. Months :
           /\ Cardinality(CountedIn(m)) <= Bound
           /\ m >= month => Cardinality(CountedIn(m)) + Cardinality(Pending) <= Bound

QuotaInv ==
    /\ IInv
    /\ TypeOK
    /\ FeaturesApart
    /\ NamesFree
    /\ NamesFirst
    /\ CountedAndPending

-----------------------------------------------------------------------------
(* Smallest and largest numbers *)

LEMMA NatMin ==
    ASSUME NEW T \in SUBSET Nat, T # {}
    PROVE  \E m \in T : \A k \in T : m <= k
<1> DEFINE R == {ss \in Nat \X Nat : ss[1] < ss[2]}
<1>1. IsWellFoundedOn(R, Nat)
  BY NatLessThanWellFounded DEF OpToRel
<1>2. PICK x \in T : \A y \in T : <<y, x>> \notin R
  BY <1>1, WFMin
<1>3. \A y \in T : ~(y < x)
  BY <1>2
<1> QED
  BY <1>3

\* A finite set of numbers has a largest one: a smallest subset without one would
\* have one as soon as an element is taken from it.
LEMMA NatMax ==
    ASSUME NEW S \in SUBSET Nat, S # {}, IsFiniteSet(S)
    PROVE  \E m \in S : \A k \in S : m >= k
<1> DEFINE HasMax(X) == \E m \in X : \A k \in X : m >= k
           Bad == {n \in Nat : \E X \in SUBSET S : X # {} /\ Cardinality(X) = n /\ ~HasMax(X)}
<1>1. SUFFICES ASSUME ~HasMax(S) PROVE FALSE
  OBVIOUS
<1>2. Cardinality(S) \in Bad
  BY <1>1, FS_CardinalityType
<1>3. PICK n \in Bad : \A k \in Bad : n <= k
  <2> HIDE DEF HasMax
  <2>1. Bad \in SUBSET Nat /\ Bad # {}
    BY <1>2
  <2> QED
    BY <2>1, NatMin
<1>4. PICK X \in SUBSET S : X # {} /\ Cardinality(X) = n /\ ~HasMax(X)
  BY <1>3
<1>5. PICK x \in X : TRUE
  BY <1>4
<1>6. /\ X \ {x} \in SUBSET S /\ IsFiniteSet(X)
      /\ Cardinality(X \ {x}) = n - 1 /\ n - 1 \in Nat
  <2>1. IsFiniteSet(X)
    BY FS_Subset
  <2>2. IsFiniteSet(X \ {x}) /\ Cardinality(X \ {x}) = n - 1
    BY <1>4, <1>5, <2>1, FS_RemoveElement
  <2> QED
    BY <2>1, <2>2, FS_CardinalityType
<1>7. n - 1 \notin Bad
  BY <1>3, <1>6
<1>8. CASE X \ {x} = {}
  BY <1>4, <1>5, <1>8
<1>9. CASE X \ {x} # {}
  <2>1. HasMax(X \ {x})
    BY <1>6, <1>7, <1>9
  <2>2. PICK y \in X \ {x} : \A k \in X \ {x} : y >= k
    BY <2>1
  <2>3. HasMax(X)
    <3>1. CASE x >= y
      BY <1>5, <2>2, <3>1
    <3>2. CASE ~(x >= y)
      BY <1>5, <2>2, <3>2
    <3> QED
      BY <3>1, <3>2
  <2> QED
    BY <1>4, <2>3
<1> QED
  BY <1>8, <1>9

\* No plan has a limit above the largest.
LEMMA LargestLimitBounds ==
    /\ LargestLimit \in Nat
    /\ \A p \in Plans : Limit[p] # Unlimited => Limit[p] <= LargestLimit
<1> DEFINE Values == {Limit[p] : p \in Plans}
           S == {0} \cup (Values \ {Unlimited})
<1>1. IsFiniteSet(Values)
  <2>1. Limit \in Surjection(Plans, Values)
    BY LimitAssumption DEF Surjection
  <2> QED
    BY <2>1, QuotaFinite, FS_Surjection
<1>2. IsFiniteSet(S) /\ S \in SUBSET Nat /\ S # {}
  <2>1. IsFiniteSet(Values \ {Unlimited})
    BY <1>1, FS_Difference
  <2>2. IsFiniteSet((Values \ {Unlimited}) \cup {0})
    BY <2>1, FS_AddElement
  <2> QED
    BY <2>2, LimitAssumption
<1>3. \E m \in S : \A k \in S : m >= k
  BY <1>2, NatMax
<1>4. LargestLimit \in S /\ \A k \in S : LargestLimit >= k
  BY <1>3 DEF LargestLimit, Max
<1> QED
  BY <1>2, <1>4

-----------------------------------------------------------------------------
(* The sets that are counted *)

LEMMA CountsFinite ==
    /\ \A S \in SUBSET Items : IsFiniteSet(S) /\ Cardinality(S) \in Nat
    /\ \A S \in SUBSET Creators :
         IsFiniteSet(S) /\ Cardinality(S) \in Nat /\ Cardinality(S) <= Cardinality(Creators)
    /\ Cardinality(Creators) \in Nat \ {0}
<1>1. Cardinality(Creators) \in Nat /\ Cardinality(Creators) # 0
  BY QuotaFinite, FS_CardinalityType, FS_EmptySet
<1> QED
  BY <1>1, QuotaFinite, FS_Subset, FS_CardinalityType

LEMMA BoundNat == Bound \in Nat
  BY LargestLimitBounds, CountsFinite DEF Bound

LEMMA SmallerCount ==
    ASSUME NEW S \in SUBSET Items, NEW T \in SUBSET S
    PROVE  Cardinality(T) <= Cardinality(S)
  BY CountsFinite, FS_Subset

\* A request that is let through or gone, and a row stored.
LEMMA PendingCount ==
    ASSUME NEW c \in Creators
    PROVE  /\ Pending' \subseteq Pending => Cardinality(Pending') <= Cardinality(Pending)
           /\ c \in Pending /\ Pending' = Pending \ {c} =>
                Cardinality(Pending') = Cardinality(Pending) - 1
           /\ Cardinality(Pending') \in Nat /\ Cardinality(Pending) \in Nat
           /\ Cardinality(Pending') <= Cardinality(Creators)
<1>1. Pending \in SUBSET Creators /\ Pending' \in SUBSET Creators
  BY DEF Pending
<1>2. IsFiniteSet(Pending)
  BY <1>1, CountsFinite
<1> QED
  BY <1>1, <1>2, CountsFinite, FS_Subset, FS_RemoveElement

LEMMA StoredCount ==
    ASSUME NEW S \in SUBSET Items, NEW T \in SUBSET Items, NEW i \in Items
    PROVE  /\ T \subseteq S => Cardinality(T) <= Cardinality(S)
           /\ T \subseteq S \cup {i} => Cardinality(T) <= Cardinality(S) + 1
           /\ Cardinality(S) \in Nat /\ Cardinality(T) \in Nat
<1>1. IsFiniteSet(S \cup {i}) /\ Cardinality(S \cup {i}) <= Cardinality(S) + 1
  BY CountsFinite, FS_AddElement
<1>2. T \subseteq S \cup {i} => Cardinality(T) <= Cardinality(S \cup {i})
  BY <1>1, FS_Subset
<1>3. T \subseteq S => Cardinality(T) <= Cardinality(S)
  BY CountsFinite, FS_Subset
<1>4. S \cup {i} \in SUBSET Items
  OBVIOUS
<1> QED
  BY <1>1, <1>2, <1>3, <1>4, CountsFinite

\* The sets of rows that the limits count.
LEMMA CountedSets ==
    /\ CountedLive \in SUBSET Items /\ CountedLive' \in SUBSET Items
    /\ \A m : CountedIn(m) \in SUBSET Items /\ CountedIn(m)' \in SUBSET Items
  BY DEF CountedLive, CountedIn, Rows

-----------------------------------------------------------------------------
(* The initial states, and the parts that every step keeps *)

LEMMA QuotaInit == Init => QuotaInv
<1> SUFFICES ASSUME Init PROVE QuotaInv
  OBVIOUS
<1>1. IInv /\ StripeTypeOK
  BY InitInv DEF Init, IInv
<1>2. TypeOK
  BY <1>1, MonthsAssumption DEF Init, TypeOK, Absent, Waiting
<1>3. FeaturesApart /\ NamesFree /\ NamesFirst
  BY DEF Init, FeaturesApart, NamesFree, NamesFirst, Waiting, Absent, Features
<1>4. CountedAndPending
  <2>1. CountedLive = {} /\ Pending = {} /\ \A m \in 1 .. Months : CountedIn(m) = {}
    BY DEF Init, CountedLive, CountedIn, Pending, Rows, Absent, Waiting
  <2> QED
    BY <2>1, FS_EmptySet, BoundNat DEF CountedAndPending
<1> QED
  BY <1>1, <1>2, <1>3, <1>4 DEF QuotaInv

\* A step of the requests or of their rows leaves the subscription's invariant alone.
LEMMA SubscriptionKept == ASSUME IInv, UNCHANGED stripeVars PROVE IInv' /\ StripeTypeOK'
  BY StepInv DEF IInv

\* The names stay the first free ones through a step that takes no slug from a row and
\* gives none to a request.
LEMMA FirstKept ==
    ASSUME QuotaInv,
           \A i \in Rows : i \in Rows' /\ item'[i].slug = item[i].slug,
           \A c \in Creators : creator'[c].at = "named" =>
             creator[c].at = "named" /\ creator'[c].slug = creator[c].slug
    PROVE  NamesFirst'
  BY DEF QuotaInv, NamesFirst

\* The fields of a request.
LEMMA CreatorFields ==
    ASSUME QuotaInv, NEW c \in Creators
    PROVE  /\ creator[c] = [at |-> creator[c].at, slug |-> creator[c].slug,
                            admission |-> creator[c].admission, item |-> creator[c].item,
                            overlapped |-> creator[c].overlapped]
           /\ creator[c].at \in {"idle", "admitted", "named", "stored"}
           /\ creator[c].slug \in {0} \cup Slugs
           /\ creator[c].admission \in Admissions \cup {NONE}
           /\ creator[c].item \in Items \cup {NONE}
           /\ creator[c].overlapped \in BOOLEAN
  BY DEF QuotaInv, TypeOK

LEMMA WaitingType ==
    Waiting \in [at: {"idle", "admitted", "named", "stored"},
                 slug: {0} \cup Slugs, admission: Admissions \cup {NONE},
                 item: Items \cup {NONE}, overlapped: BOOLEAN]
  BY DEF Waiting

-----------------------------------------------------------------------------
(* The requests *)

\* The count and the limit: whoever passes leaves the others room for themselves only.
LEMMA AdmitInv == ASSUME QuotaInv, NEW c \in Creators, Admit(c) PROVE QuotaInv'
<1> DEFINE how == IF PlanLimit = Unlimited THEN "unlimited" ELSE "counted"
           now == [at |-> "admitted", slug |-> creator[c].slug, admission |-> how,
                   item |-> creator[c].item, overlapped |-> creator[c].overlapped]
<1>1. /\ creator[c] = Waiting
      /\ PlanLimit # Unlimited => CountUsage + 1 <= PlanLimit
      /\ UNCHANGED <<stripeVars, feature, item, metered, month>>
  BY DEF Admit
<1>2. /\ creator'[c] = now
      /\ \A d \in Creators \ {c} : creator'[d] = creator[d]
      /\ creator' = [creator EXCEPT ![c] = creator'[c]]
  <2>1. creator' = [creator EXCEPT ![c].at = "admitted", ![c].admission = how]
    BY DEF Admit
  <2> HIDE DEF how
  <2> QED
    BY <2>1, CreatorFields DEF QuotaInv, TypeOK
<1>3. IInv' /\ TypeOK'
  <2>1. IInv' /\ StripeTypeOK'
    BY <1>1, SubscriptionKept DEF QuotaInv
  <2>2. now \in [at: {"idle", "admitted", "named", "stored"},
                 slug: {0} \cup Slugs, admission: Admissions \cup {NONE},
                 item: Items \cup {NONE}, overlapped: BOOLEAN]
    <3>1. how \in Admissions
      BY DEF Admissions
    <3> QED
      BY <3>1, CreatorFields
  <2> QED
    BY <1>1, <1>2, <2>1, <2>2 DEF QuotaInv, TypeOK
<1>4. FeaturesApart' /\ NamesFree'
  <2>1. UNCHANGED <<feature, item, metered, month>> /\ Rows' = Rows /\ creator'[c].at = "admitted"
    BY <1>1, <1>2 DEF Rows
  <2>2. \A d \in Creators : creator'[d].at \in {"named", "stored"} => creator'[d] = creator[d]
    BY <1>2, <2>1
  <2>3. FeaturesApart'
    BY <2>1, <2>2 DEF QuotaInv, FeaturesApart
  <2> QED
    BY <2>1, <2>2, <2>3 DEF QuotaInv, NamesFree, SlugTaken
<1>5. CountedAndPending'
  <2>1. CountedLive' = CountedLive /\ \A m : CountedIn(m)' = CountedIn(m)
    BY <1>1 DEF CountedLive, CountedIn, Rows
  <2>2. CASE PlanLimit = Unlimited
    <3>1. Pending' \subseteq Pending
      BY <1>2, <2>2 DEF Pending, QuotaInv, TypeOK
    <3> QED
      BY <1>1, <2>1, <3>1, PendingCount, BoundNat, CountedSets, CountsFinite
      DEF QuotaInv, CountedAndPending, TypeOK
  <2>3. CASE PlanLimit # Unlimited
    <3>1. PlanLimit \in Nat /\ PlanLimit <= LargestLimit
      BY <2>3, LargestLimitBounds, LimitAssumption DEF QuotaInv, TypeOK, StripeTypeOK, PlanLimit
    <3>2. CountUsage \in Nat /\ CountUsage + 1 <= LargestLimit
      <4>1. CountUsage \in Nat
        BY CountsFinite DEF CountUsage
      <4> QED
        BY <1>1, <2>3, <3>1, <4>1, LargestLimitBounds
    <3>3. feature = "campaigns_limit" => Cardinality(CountedLive) <= CountUsage
      <4>1. CountedLive \subseteq {i \in Items : item[i].state = "live"}
        BY DEF CountedLive, Rows
      <4> QED
        BY <4>1, SmallerCount DEF CountUsage
    <3>4. feature = "content_packs_per_month" =>
            \A m \in 1 .. Months : m >= month => Cardinality(CountedIn(m)) <= CountUsage
      <4> SUFFICES ASSUME feature = "content_packs_per_month", NEW m \in 1 .. Months,
                          m >= month
                   PROVE  Cardinality(CountedIn(m)) <= CountUsage
        OBVIOUS
      <4>1. CountedIn(m) \subseteq {i \in Items : metered[i] = month}
        <5>1. \A i \in Items : metered[i] \in Nat /\ metered[i] <= month /\ month \in Nat
          BY MonthsAssumption DEF QuotaInv, TypeOK, FeaturesApart
        <5> QED
          BY <5>1 DEF CountedIn, Rows
      <4>2. feature # "campaigns_limit"
        OBVIOUS
      <4> QED
        BY <4>1, <4>2, SmallerCount DEF CountUsage
    <3>5. /\ Cardinality(Pending') \in Nat /\ Cardinality(Pending') <= Cardinality(Creators)
          /\ Cardinality(Creators) \in Nat
      BY PendingCount, CountsFinite
    <3> QED
      BY <1>1, <2>1, <3>2, <3>3, <3>4, <3>5, LargestLimitBounds, CountedSets, CountsFinite
      DEF QuotaInv, CountedAndPending, Bound, TypeOK
  <2> QED
    BY <2>2, <2>3
<1>6. NamesFirst'
  BY <1>1, <1>2, FirstKept DEF Rows
<1> QED
  BY <1>3, <1>4, <1>5, <1>6 DEF QuotaInv

\* A request is over, whether it has stored something, failed or died.
LEMMA OverInv ==
    ASSUME QuotaInv, NEW c \in Creators,
           creator' = [creator EXCEPT ![c] = Waiting],
           UNCHANGED <<stripeVars, feature, item, month>>,
           \/ metered' = metered
           \/ feature = "campaigns_limit" /\ metered' \in [Items -> 0 .. Months]
    PROVE  QuotaInv'
<1>1. IInv' /\ TypeOK'
  <2>1. IInv' /\ StripeTypeOK'
    BY SubscriptionKept DEF QuotaInv
  <2> QED
    BY <2>1, WaitingType DEF QuotaInv, TypeOK
<1>2. FeaturesApart' /\ NamesFree'
  BY DEF QuotaInv, TypeOK, FeaturesApart, NamesFree, SlugTaken, Rows, Waiting, Features
<1>3. CountedAndPending'
  <2>1. CountedLive' = CountedLive
    BY DEF CountedLive, Rows
  <2>2. feature = "content_packs_per_month" => \A m : CountedIn(m)' = CountedIn(m)
    BY DEF CountedIn, Rows
  <2>3. Pending' \subseteq Pending
    BY DEF Pending, QuotaInv, TypeOK, Waiting
  <2> QED
    BY <2>1, <2>2, <2>3, PendingCount, BoundNat, CountedSets, CountsFinite
    DEF QuotaInv, CountedAndPending, TypeOK
<1>4. NamesFirst'
  <2>1. \A d \in Creators : creator'[d].at = "named" => creator'[d] = creator[d]
    BY DEF QuotaInv, TypeOK, Waiting
  <2> QED
    BY <2>1, FirstKept DEF Rows
<1> QED
  BY <1>1, <1>2, <1>3, <1>4 DEF QuotaInv

LEMMA FailInv == ASSUME QuotaInv, NEW c \in Creators, StoreFails(c) PROVE QuotaInv'
<1>1. /\ creator' = [creator EXCEPT ![c] = Waiting]
      /\ UNCHANGED <<stripeVars, feature, item, month>> /\ metered' = metered
  BY DEF StoreFails
<1> QED
  BY <1>1, OverInv

LEMMA AbandonInv == ASSUME QuotaInv, NEW c \in Creators, Abandon(c) PROVE QuotaInv'
<1>1. /\ creator' = [creator EXCEPT ![c] = Waiting]
      /\ UNCHANGED <<stripeVars, feature, item, month>> /\ metered' = metered
  BY DEF Abandon
<1> QED
  BY <1>1, OverInv

LEMMA MeterInv == ASSUME QuotaInv, NEW c \in Creators, Meter(c) PROVE QuotaInv'
<1>1. feature = "campaigns_limit" /\ creator[c].item \in Items
  BY DEF Meter, QuotaInv, FeaturesApart
<1>2. metered' \in [Items -> 0 .. Months]
  BY <1>1, MonthsAssumption DEF Meter, QuotaInv, TypeOK
<1> QED
  BY <1>1, <1>2, OverInv DEF Meter

\* There is always a number no row has, while there are rows to come: the smallest.
LEMMA FreeSlugFree ==
    ASSUME TypeOK, Rows # Items
    PROVE  LET taken == {item[i].slug : i \in Rows}
           IN  /\ FreeSlug(taken) \in Slugs /\ FreeSlug(taken) \notin taken
               /\ \A earlier \in 1 .. FreeSlug(taken) - 1 : earlier \in taken
<1> DEFINE taken == {item[i].slug : i \in Rows}
           N == Cardinality(Items)
           slugOf == [i \in Rows |-> item[i].slug]
<1>1. N \in Nat /\ IsFiniteSet(Rows) /\ Cardinality(Rows) \in Nat /\ Cardinality(Rows) < N
  BY QuotaFinite, CountsFinite, FS_Subset DEF Rows
<1>2. IsFiniteSet(taken) /\ Cardinality(taken) \in Nat /\ Cardinality(taken) < N
  <2>1. slugOf \in Surjection(Rows, taken)
    BY DEF Surjection
  <2>2. IsFiniteSet(taken) /\ Cardinality(taken) <= Cardinality(Rows)
    BY <1>1, <2>1, FS_Surjection
  <2> QED
    BY <1>1, <2>2, FS_CardinalityType
<1>3. PICK free \in Slugs : free \notin taken
  <2> SUFFICES ASSUME Slugs \subseteq taken PROVE FALSE
    OBVIOUS
  <2>1. Cardinality(Slugs) = N
    BY <1>1, FS_Interval DEF Slugs
  <2>2. Cardinality(Slugs) <= Cardinality(taken)
    BY <1>2, FS_Subset
  <2> QED
    BY <1>1, <1>2, <2>1, <2>2
<1>4. PICK s \in Slugs \ taken : \A k \in Slugs \ taken : s <= k
  <2>1. Slugs \ taken \in SUBSET Nat /\ Slugs \ taken # {}
    BY <1>1, <1>3 DEF Slugs
  <2> QED
    BY <2>1, NatMin
<1>5. \A earlier \in 1 .. s - 1 : earlier \in taken
  BY <1>1, <1>4 DEF Slugs
<1>6. \E t \in Slugs \cup {N + 1} : t \notin taken /\ \A earlier \in 1 .. t - 1 : earlier \in taken
  BY <1>4, <1>5
<1>7. /\ FreeSlug(taken) \in Slugs \cup {N + 1}
      /\ FreeSlug(taken) \notin taken
      /\ \A earlier \in 1 .. FreeSlug(taken) - 1 : earlier \in taken
  BY <1>6 DEF FreeSlug
<1>8. FreeSlug(taken) # N + 1
  BY <1>1, <1>3, <1>7 DEF Slugs
<1> QED
  BY <1>7, <1>8

LEMMA ChooseInv == ASSUME QuotaInv, NEW c \in Creators, ChooseSlug(c) PROVE QuotaInv'
<1> DEFINE taken == {item[i].slug : i \in Rows}
<1>1. /\ feature = "campaigns_limit" /\ creator[c].at = "admitted" /\ Rows # Items
      /\ UNCHANGED <<stripeVars, feature, item, metered, month>>
  BY DEF ChooseSlug
<1>2. /\ FreeSlug(taken) \in Slugs /\ FreeSlug(taken) \notin taken
      /\ \A earlier \in 1 .. FreeSlug(taken) - 1 : earlier \in taken
  BY <1>1, FreeSlugFree DEF QuotaInv
<1>a. creator' = [creator EXCEPT ![c].at = "named", ![c].slug = FreeSlug(taken)]
  BY DEF ChooseSlug
<1> HIDE DEF taken
<1>3. /\ creator'[c] = [at |-> "named", slug |-> FreeSlug(taken),
                        admission |-> creator[c].admission, item |-> creator[c].item,
                        overlapped |-> creator[c].overlapped]
      /\ \A d \in Creators \ {c} : creator'[d] = creator[d]
      /\ creator' = [creator EXCEPT ![c] = creator'[c]]
  BY <1>a, CreatorFields DEF QuotaInv, TypeOK
<1>4. IInv' /\ TypeOK'
  <2>1. IInv' /\ StripeTypeOK'
    BY <1>1, SubscriptionKept DEF QuotaInv
  <2>2. creator'[c] \in [at: {"idle", "admitted", "named", "stored"},
                         slug: {0} \cup Slugs, admission: Admissions \cup {NONE},
                         item: Items \cup {NONE}, overlapped: BOOLEAN]
    <3>1. /\ creator[c].admission \in Admissions \cup {NONE}
          /\ creator[c].item \in Items \cup {NONE}
          /\ creator[c].overlapped \in BOOLEAN
      BY CreatorFields
    <3> QED
      BY <1>2, <1>3, <3>1
  <2> QED
    BY <1>1, <1>3, <2>1, <2>2 DEF QuotaInv, TypeOK
<1>5. FeaturesApart'
  BY <1>1, <1>3 DEF QuotaInv, FeaturesApart
<1>6. NamesFree'
  <2>1. ~SlugTaken(c)'
    <3>1. item' = item /\ Rows' = Rows /\ creator'[c].slug = FreeSlug(taken)
      BY <1>1, <1>3 DEF Rows
    <3> QED
      BY <1>2, <3>1 DEF SlugTaken, taken
  <2>2. \A d \in Creators \ {c} : SlugTaken(d)' = SlugTaken(d)
    BY <1>1, <1>3 DEF SlugTaken, Rows
  <2> QED
    BY <1>3, <2>1, <2>2 DEF QuotaInv, NamesFree
<1>7. CountedAndPending'
  <2>1. CountedLive' = CountedLive
    BY <1>1 DEF CountedLive, Rows
  <2>2. Pending' \subseteq Pending
    BY <1>1, <1>3 DEF Pending
  <2> QED
    BY <1>1, <2>1, <2>2, PendingCount, BoundNat, CountedSets, CountsFinite
    DEF QuotaInv, CountedAndPending
<1>8. NamesFirst'
  <2>1. item' = item /\ Rows' = Rows
    BY <1>1 DEF Rows
  <2>2. \A s \in 1 .. creator'[c].slug - 1 : \E i \in Rows : item[i].slug = s
    BY <1>2, <1>3 DEF taken
  <2>3. \A d \in Creators \ {c} : creator'[d].at = "named" =>
          \A s \in 1 .. creator'[d].slug - 1 : \E i \in Rows : item[i].slug = s
    BY <1>3 DEF QuotaInv, NamesFirst
  <2> QED
    BY <2>1, <2>2, <2>3 DEF NamesFirst
<1> QED
  BY <1>4, <1>5, <1>6, <1>7, <1>8 DEF QuotaInv

\* The row takes the place of the request in the count; every other request that has
\* chosen its name knows that one was stored since.
LEMMA StoreInv ==
    ASSUME QuotaInv, NEW c \in Creators, NEW i \in Items, StoreCampaign(c, i)
    PROVE  QuotaInv'
<1> DEFINE row == [state |-> "live", slug |-> creator[c].slug,
                   admission |-> creator[c].admission]
<1>1. /\ creator[c].at = "named" /\ i \notin Rows /\ feature = "campaigns_limit"
      /\ item' = [item EXCEPT ![i] = row]
      /\ UNCHANGED <<stripeVars, feature, metered, month>>
  BY DEF StoreCampaign, QuotaInv, FeaturesApart
<1>2. /\ creator' = [d \in Creators |-> creator'[d]]
      /\ creator'[c] = [at |-> "stored", slug |-> 0, admission |-> NONE, item |-> i,
                        overlapped |-> FALSE]
      /\ \A d \in Creators \ {c} :
           creator'[d] = [creator[d] EXCEPT !.overlapped = @ \/ creator[d].at = "named"]
  BY DEF StoreCampaign, Waiting
<1>3. \A d \in Creators \ {c} :
        /\ creator'[d] = [at |-> creator[d].at, slug |-> creator[d].slug,
                          admission |-> creator[d].admission, item |-> creator[d].item,
                          overlapped |-> creator[d].overlapped \/ creator[d].at = "named"]
        /\ creator'[d].at = creator[d].at /\ creator'[d].admission = creator[d].admission
        /\ creator'[d].item = creator[d].item
        /\ creator'[d].at = "named" => creator'[d].overlapped
  BY <1>2, CreatorFields
<1>4. IInv' /\ TypeOK'
  <2>1. IInv' /\ StripeTypeOK'
    BY <1>1, SubscriptionKept DEF QuotaInv
  <2>2. \A d \in Creators :
          creator'[d] \in [at: {"idle", "admitted", "named", "stored"},
                           slug: {0} \cup Slugs, admission: Admissions \cup {NONE},
                           item: Items \cup {NONE}, overlapped: BOOLEAN]
    <3>1. creator'[c] \in [at: {"idle", "admitted", "named", "stored"},
                           slug: {0} \cup Slugs, admission: Admissions \cup {NONE},
                           item: Items \cup {NONE}, overlapped: BOOLEAN]
      BY <1>2
    <3> SUFFICES ASSUME NEW d \in Creators \ {c}
                 PROVE  creator'[d] \in [at: {"idle", "admitted", "named", "stored"},
                                         slug: {0} \cup Slugs,
                                         admission: Admissions \cup {NONE},
                                         item: Items \cup {NONE}, overlapped: BOOLEAN]
      BY <3>1
    <3> DEFINE late == creator[d].overlapped \/ creator[d].at = "named"
    <3>2. late \in BOOLEAN
      BY CreatorFields
    <3>3. creator'[d] = [at |-> creator[d].at, slug |-> creator[d].slug,
                         admission |-> creator[d].admission, item |-> creator[d].item,
                         overlapped |-> late]
      BY <1>3
    <3>4. /\ creator[d].at \in {"idle", "admitted", "named", "stored"}
          /\ creator[d].slug \in {0} \cup Slugs
          /\ creator[d].admission \in Admissions \cup {NONE}
          /\ creator[d].item \in Items \cup {NONE}
      BY CreatorFields
    <3> HIDE DEF late
    <3> QED
      BY <3>2, <3>3, <3>4
  <2>3. row \in [state: {"absent", "live", "archived", "deleted"},
                 slug: {0} \cup Slugs, admission: Admissions \cup {NONE}]
    BY CreatorFields
  <2> QED
    BY <1>1, <1>2, <2>1, <2>2, <2>3 DEF QuotaInv, TypeOK
<1>5. FeaturesApart'
  BY <1>1, <1>2, <1>3 DEF QuotaInv, FeaturesApart
<1>6. NamesFree'
  BY <1>2, <1>3 DEF NamesFree
<1>7. CountedAndPending'
  <2>1. CountedLive' \subseteq CountedLive \cup {i}
    BY <1>1 DEF CountedLive, Rows, QuotaInv, TypeOK
  <2>2. CASE creator[c].admission = "counted"
    <3>1. c \in Pending
      BY <1>1, <2>2 DEF Pending
    <3>2. Pending' = Pending \ {c}
      BY <1>2, <1>3 DEF Pending
    <3>3. /\ Cardinality(CountedLive') <= Cardinality(CountedLive) + 1
          /\ Cardinality(CountedLive) \in Nat /\ Cardinality(CountedLive') \in Nat
      BY <2>1, StoredCount, CountedSets
    <3>4. /\ Cardinality(Pending') = Cardinality(Pending) - 1
          /\ Cardinality(Pending) \in Nat
      BY <3>1, <3>2, PendingCount
    <3>5. Cardinality(CountedLive) + Cardinality(Pending) <= Bound
      BY <1>1 DEF QuotaInv, CountedAndPending
    <3>6. Cardinality(CountedLive') + Cardinality(Pending') <= Bound
      BY <3>3, <3>4, <3>5, BoundNat
    <3> QED
      BY <1>1, <3>6 DEF CountedAndPending
  <2>3. CASE creator[c].admission # "counted"
    <3>1. CountedLive' \subseteq CountedLive
      BY <1>1, <2>1, <2>3 DEF CountedLive, Rows, QuotaInv, TypeOK
    <3>2. Pending' \subseteq Pending
      BY <1>2, <1>3 DEF Pending
    <3> QED
      BY <1>1, <3>1, <3>2, PendingCount, StoredCount, CountedSets, BoundNat
      DEF QuotaInv, CountedAndPending
  <2> QED
    BY <2>2, <2>3
<1>8. NamesFirst'
  <2>1. \A k \in Rows : k \in Rows' /\ item'[k].slug = item[k].slug
    BY <1>1 DEF Rows, QuotaInv, TypeOK
  <2>2. \A d \in Creators : creator'[d].at = "named" =>
          creator[d].at = "named" /\ creator'[d].slug = creator[d].slug
    BY <1>2, <1>3
  <2> QED
    BY <2>1, <2>2, FirstKept
<1> QED
  BY <1>4, <1>5, <1>6, <1>7, <1>8 DEF QuotaInv

LEMMA StoreRequestInv ==
    ASSUME QuotaInv, NEW c \in Creators, NEW i \in Items, StoreRequest(c, i)
    PROVE  QuotaInv'
<1> DEFINE row == [state |-> "live", slug |-> 0, admission |-> creator[c].admission]
<1>1. /\ feature = "content_packs_per_month"
      /\ creator[c].at = "admitted" /\ i \notin Rows
      /\ item' = [item EXCEPT ![i] = row]
      /\ metered' = [metered EXCEPT ![i] = month]
      /\ creator' = [creator EXCEPT ![c] = Waiting]
      /\ UNCHANGED <<stripeVars, feature, month>>
  BY DEF StoreRequest
<1>2. /\ creator'[c].at = "idle"
      /\ \A d \in Creators \ {c} : creator'[d] = creator[d]
      /\ metered'[i] = month /\ item'[i] = row
      /\ \A k \in Items \ {i} : metered'[k] = metered[k] /\ item'[k] = item[k]
  BY <1>1 DEF QuotaInv, TypeOK, Waiting
<1>3. IInv' /\ TypeOK'
  <2>1. IInv' /\ StripeTypeOK'
    BY <1>1, SubscriptionKept DEF QuotaInv
  <2>2. row \in [state: {"absent", "live", "archived", "deleted"},
                 slug: {0} \cup Slugs, admission: Admissions \cup {NONE}]
    <3>1. creator[c].admission \in Admissions \cup {NONE}
      BY CreatorFields
    <3> QED
      BY <3>1
  <2>3. month \in 0 .. Months
    BY MonthsAssumption DEF QuotaInv, TypeOK
  <2> HIDE DEF row
  <2> QED
    BY <1>1, <2>1, <2>2, <2>3, WaitingType DEF QuotaInv, TypeOK
<1>4. FeaturesApart' /\ NamesFree' /\ NamesFirst'
  <2>1. \A d \in Creators : creator'[d].at \notin {"named", "stored"}
    BY <1>1, <1>2 DEF QuotaInv, FeaturesApart
  <2>2. \A k \in Items : item'[k].state \in {"absent", "live"} /\ metered'[k] <= month
    BY <1>1, <1>2, MonthsAssumption DEF QuotaInv, FeaturesApart, TypeOK
  <2>3. month' = month /\ feature' = feature
    BY <1>1
  <2> QED
    BY <2>1, <2>2, <2>3 DEF FeaturesApart, NamesFree, NamesFirst
<1>5. CountedAndPending'
  <2>1. \A m \in 1 .. Months : CountedIn(m)' \subseteq CountedIn(m) \cup {i}
    BY <1>2 DEF CountedIn, Rows
  <2>2. \A m \in 1 .. Months : m # month => CountedIn(m)' \subseteq CountedIn(m)
    BY <1>2 DEF CountedIn, Rows
  <2>3. month \in 1 .. Months /\ feature' = feature /\ month' = month
    BY <1>1 DEF QuotaInv, TypeOK
  <2>4. CASE creator[c].admission = "counted"
    <3>1. c \in Pending
      BY <1>1, <2>4 DEF Pending
    <3>2. Pending' = Pending \ {c}
      BY <1>2 DEF Pending
    <3>3. /\ Cardinality(Pending') = Cardinality(Pending) - 1
          /\ Cardinality(Pending) \in Nat /\ Cardinality(Pending') \in Nat
      BY <3>1, <3>2, PendingCount
    <3> SUFFICES ASSUME NEW m \in 1 .. Months
                 PROVE  /\ Cardinality(CountedIn(m)') <= Bound
                        /\ m >= month =>
                             Cardinality(CountedIn(m)') + Cardinality(Pending') <= Bound
      BY <2>3, <1>1 DEF CountedAndPending, Features
    <3>4. /\ Cardinality(CountedIn(m)') <= Cardinality(CountedIn(m)) + 1
          /\ m # month => Cardinality(CountedIn(m)') <= Cardinality(CountedIn(m))
          /\ Cardinality(CountedIn(m)) \in Nat /\ Cardinality(CountedIn(m)') \in Nat
      BY <2>1, <2>2, StoredCount, CountedSets
    <3>5. /\ Cardinality(CountedIn(m)) <= Bound
          /\ m >= month => Cardinality(CountedIn(m)) + Cardinality(Pending) <= Bound
      BY <1>1 DEF QuotaInv, CountedAndPending
    <3>6. month \in Nat
      BY <2>3, MonthsAssumption
    <3>7. CASE m = month
      BY <3>3, <3>4, <3>5, <3>6, <3>7, BoundNat
    <3>8. CASE m # month
      BY <3>3, <3>4, <3>5, <3>6, <3>8, BoundNat
    <3> QED
      BY <3>7, <3>8
  <2>5. CASE creator[c].admission # "counted"
    <3>1. \A m \in 1 .. Months : CountedIn(m)' \subseteq CountedIn(m)
      BY <1>2, <2>5 DEF CountedIn, Rows
    <3>2. Pending' \subseteq Pending
      BY <1>2 DEF Pending
    <3> QED
      BY <1>1, <2>3, <3>1, <3>2, PendingCount, StoredCount, CountedSets, BoundNat
      DEF QuotaInv, CountedAndPending
  <2> QED
    BY <2>4, <2>5
<1> QED
  BY <1>3, <1>4, <1>5 DEF QuotaInv

-----------------------------------------------------------------------------
(* The archive, the months and the subscription *)

\* A row that is there gets another state, and none of these was let through by a
\* limit: its name stays taken, and no count grows.
LEMMA RowInv ==
    ASSUME QuotaInv, NEW i \in Items, i \in Rows, feature = "campaigns_limit",
           NEW st \in {"live", "archived", "deleted"}, NEW adm \in {NONE, "unarchived"},
           item' = [item EXCEPT ![i] = [state |-> st, slug |-> item[i].slug,
                                        admission |-> adm]],
           UNCHANGED <<stripeVars, feature, metered, creator, month>>
    PROVE  QuotaInv'
<1>1. /\ item'[i].state = st /\ item'[i].slug = item[i].slug /\ item'[i].admission = adm
      /\ \A k \in Items \ {i} : item'[k] = item[k]
  BY DEF QuotaInv, TypeOK
<1>2. Rows' = Rows
  BY <1>1 DEF Rows
<1>3. IInv' /\ TypeOK'
  <2>1. IInv' /\ StripeTypeOK'
    BY SubscriptionKept DEF QuotaInv
  <2>2. item[i].slug \in {0} \cup Slugs
    BY DEF QuotaInv, TypeOK
  <2>3. adm \in Admissions \cup {NONE}
    BY DEF Admissions
  <2>4. item' \in [Items -> [state: {"absent", "live", "archived", "deleted"},
                             slug: {0} \cup Slugs, admission: Admissions \cup {NONE}]]
    BY <2>2, <2>3 DEF QuotaInv, TypeOK
  <2> QED
    BY <2>1, <2>4 DEF QuotaInv, TypeOK
<1>4. FeaturesApart' /\ NamesFree'
  <2>1. \A d \in Creators : SlugTaken(d)' = SlugTaken(d)
    <3>1. \A k \in Items : item'[k].slug = item[k].slug
      BY <1>1
    <3> QED
      BY <1>2, <3>1 DEF SlugTaken, Rows
  <2> QED
    BY <2>1 DEF QuotaInv, FeaturesApart, NamesFree
<1>5. CountedAndPending'
  <2>1. adm # "counted"
    BY UncountedAssumption DEF Admissions
  <2>2. CountedLive' \subseteq CountedLive
    BY <1>1, <1>2, <2>1 DEF CountedLive, Rows
  <2>3. Pending' = Pending
    BY DEF Pending
  <2>4. /\ Cardinality(CountedLive') <= Cardinality(CountedLive)
        /\ Cardinality(CountedLive') \in Nat /\ Cardinality(CountedLive) \in Nat
    BY <2>2, StoredCount, CountedSets
  <2>5. Cardinality(Pending) \in Nat
    BY CountsFinite DEF Pending
  <2>6. Cardinality(CountedLive) + Cardinality(Pending) <= Bound
    BY DEF QuotaInv, CountedAndPending
  <2> QED
    BY <2>3, <2>4, <2>5, <2>6, BoundNat DEF CountedAndPending
<1>6. NamesFirst'
  <2>1. \A k \in Rows : k \in Rows' /\ item'[k].slug = item[k].slug
    BY <1>1, <1>2 DEF Rows
  <2> QED
    BY <2>1, FirstKept
<1> QED
  BY <1>3, <1>4, <1>5, <1>6 DEF QuotaInv

\* The fields of a row.
LEMMA ItemFields ==
    ASSUME QuotaInv, NEW i \in Items
    PROVE  item[i] = [state |-> item[i].state, slug |-> item[i].slug,
                      admission |-> item[i].admission]
  BY DEF QuotaInv, TypeOK

LEMMA ArchiveInv == ASSUME QuotaInv, NEW i \in Items, Archive(i) PROVE QuotaInv'
<1>1. /\ feature = "campaigns_limit" /\ i \in Rows
      /\ item' = [item EXCEPT ![i].state = "archived", ![i].admission = NONE]
      /\ UNCHANGED <<stripeVars, feature, metered, creator, month>>
  BY DEF Archive, Rows
<1>2. /\ item'[i] = [state |-> "archived", slug |-> item[i].slug, admission |-> NONE]
      /\ item' = [item EXCEPT ![i] = item'[i]]
  BY <1>1, ItemFields DEF QuotaInv, TypeOK
<1> QED
  BY <1>1, <1>2, RowInv

LEMMA UnarchiveInv == ASSUME QuotaInv, NEW i \in Items, Unarchive(i) PROVE QuotaInv'
<1>1. /\ feature = "campaigns_limit" /\ i \in Rows
      /\ item' = [item EXCEPT ![i].state = "live", ![i].admission = "unarchived"]
      /\ UNCHANGED <<stripeVars, feature, metered, creator, month>>
  BY DEF Unarchive, Rows, QuotaInv, TypeOK, FeaturesApart, Features
<1>2. /\ item'[i] = [state |-> "live", slug |-> item[i].slug, admission |-> "unarchived"]
      /\ item' = [item EXCEPT ![i] = item'[i]]
  BY <1>1, ItemFields DEF QuotaInv, TypeOK
<1> QED
  BY <1>1, <1>2, RowInv

LEMMA DeleteInv == ASSUME QuotaInv, NEW i \in Items, Delete(i) PROVE QuotaInv'
<1>1. /\ feature = "campaigns_limit" /\ i \in Rows
      /\ item' = [item EXCEPT ![i].state = "deleted", ![i].admission = NONE]
      /\ UNCHANGED <<stripeVars, feature, metered, creator, month>>
  BY DEF Delete, Rows
<1>2. /\ item'[i] = [state |-> "deleted", slug |-> item[i].slug, admission |-> NONE]
      /\ item' = [item EXCEPT ![i] = item'[i]]
  BY <1>1, ItemFields DEF QuotaInv, TypeOK
<1> QED
  BY <1>1, <1>2, RowInv

\* Who passed a limit in one month and stores in the next counts in the next.
LEMMA NextMonthInv == ASSUME QuotaInv, NextMonth PROVE QuotaInv'
<1>1. /\ feature = "content_packs_per_month" /\ month < Months /\ month' = month + 1
      /\ UNCHANGED <<stripeVars, feature, item, metered, creator>>
  BY DEF NextMonth
<1>2. month \in Nat /\ month' \in 1 .. Months /\ Months \in Nat
  BY <1>1, MonthsAssumption DEF QuotaInv, TypeOK
<1>3. IInv' /\ StripeTypeOK'
  BY <1>1, SubscriptionKept DEF QuotaInv
<1>4. TypeOK'
  BY <1>1, <1>2, <1>3 DEF QuotaInv, TypeOK
<1>5. FeaturesApart' /\ NamesFree'
  <2>1. \A i \in Items : metered[i] \in Nat /\ metered[i] <= month
    BY <1>1, MonthsAssumption DEF QuotaInv, TypeOK, FeaturesApart
  <2>2. \A i \in Items : metered'[i] <= month'
    BY <1>1, <1>2, <2>1
  <2> QED
    BY <1>1, <2>2 DEF QuotaInv, FeaturesApart, NamesFree, SlugTaken, Rows
<1>6. CountedAndPending'
  <2>1. Pending' = Pending /\ CountedLive' = CountedLive /\ \A m : CountedIn(m)' = CountedIn(m)
    BY <1>1 DEF Pending, CountedLive, CountedIn, Rows
  <2>2. \A m \in 1 .. Months : m >= month' => m >= month
    BY <1>1, <1>2
  <2> QED
    BY <1>1, <2>1, <2>2 DEF QuotaInv, CountedAndPending
<1>7. NamesFirst'
  BY <1>1, FirstKept DEF Rows
<1> QED
  BY <1>3, <1>4, <1>5, <1>6, <1>7 DEF QuotaInv

\* What events and administrators do to the subscription, and nothing at all.
LEMMA SubscriptionInv ==
    ASSUME QuotaInv, [StripeNext]_stripeVars, UNCHANGED <<feature, item, metered, creator, month>>
    PROVE  QuotaInv'
<1>1. IInv' /\ StripeTypeOK'
  BY StepInv DEF QuotaInv, IInv
<1>2. TypeOK' /\ FeaturesApart' /\ NamesFree'
  BY <1>1 DEF QuotaInv, TypeOK, FeaturesApart, NamesFree, SlugTaken, Rows
<1>3. CountedAndPending'
  <2>1. Pending' = Pending /\ CountedLive' = CountedLive /\ \A m : CountedIn(m)' = CountedIn(m)
    BY DEF Pending, CountedLive, CountedIn, Rows
  <2> QED
    BY <2>1 DEF QuotaInv, CountedAndPending
<1>4. NamesFirst'
  BY FirstKept DEF Rows
<1> QED
  BY <1>1, <1>2, <1>3, <1>4 DEF QuotaInv

\* Every step keeps the invariant.
LEMMA QuotaStep == QuotaInv /\ [Next]_vars => QuotaInv'
<1> SUFFICES ASSUME QuotaInv, [Next]_vars PROVE QuotaInv'
  OBVIOUS
<1>1. CASE \E c \in Creators : Admit(c) \/ ChooseSlug(c) \/ StoreFails(c)
                               \/ Meter(c) \/ Abandon(c)
  BY <1>1, AdmitInv, ChooseInv, FailInv, MeterInv, AbandonInv
<1>2. CASE \E c \in Creators, i \in Items : StoreCampaign(c, i) \/ StoreRequest(c, i)
  BY <1>2, StoreInv, StoreRequestInv
<1>3. CASE \E i \in Items : Archive(i) \/ Unarchive(i) \/ Delete(i)
  BY <1>3, ArchiveInv, UnarchiveInv, DeleteInv
<1>4. CASE NextMonth
  BY <1>4, NextMonthInv
<1>5. CASE StripeNext /\ UNCHANGED <<feature, item, metered, creator, month>>
  BY <1>5, SubscriptionInv
<1>6. CASE UNCHANGED vars
  BY <1>6, SubscriptionInv DEF vars
<1> QED
  BY <1>1, <1>2, <1>3, <1>4, <1>5, <1>6 DEF Next

-----------------------------------------------------------------------------
\* The invariant the properties follow from holds in every state.
THEOREM QuotaInvariant == Spec => []QuotaInv
  BY QuotaInit, QuotaStep, PTL DEF Spec

\* The rows, the requests and the usage events are always well formed, and the
\* subscription with them.
THEOREM QuotaTypeCorrect == Spec => []TypeOK
<1>1. QuotaInv => TypeOK
  BY DEF QuotaInv
<1> QED
  BY QuotaInvariant, <1>1, PTL

\* However many requests pass the limit together, whatever is archived and deleted
\* meanwhile and whatever the plan becomes, what the limits let through exceeds the
\* largest of them by less than the requests handled at a time.
THEOREM QuotaOvershootCorrect == Spec => []QuotaOvershootBounded
<1>1. QuotaInv => QuotaOvershootBounded
  <2> SUFFICES ASSUME QuotaInv PROVE QuotaOvershootBounded
    OBVIOUS
  <2>1. Cardinality(Pending) \in Nat /\ Cardinality(CountedLive) \in Nat
    BY CountsFinite, CountedSets DEF Pending
  <2>2. feature = "campaigns_limit" => Cardinality(CountedLive) <= Bound
    BY <2>1, BoundNat DEF QuotaInv, CountedAndPending
  <2>3. feature = "content_packs_per_month" =>
          \A m \in 1 .. Months : Cardinality(CountedIn(m)) <= Bound
    BY DEF QuotaInv, CountedAndPending
  <2> QED
    BY <2>2, <2>3 DEF QuotaOvershootBounded, Bound
<1> QED
  BY QuotaInvariant, <1>1, PTL

\* Creating a campaign fails for its name only when another row was stored since the
\* name was chosen, or when no slug is left that fits its column, wherever that ends:
\* the name chosen is the first free one, so one that is too long has all that fit
\* before it, and none of them is given back.
THEOREM RefusedOnlyByRaceOrLengthCorrect == Spec => RefusedOnlyByRaceOrLength
<1>1. ASSUME QuotaInv, NEW c \in Creators, StoreFails(c), ~creator[c].overlapped
      PROVE  \A s \in 1 .. LastSlug : \E i \in Rows : item[i].slug = s
  <2>1. creator[c].at = "named" /\ creator[c].slug > LastSlug
    BY <1>1 DEF StoreFails, QuotaInv, NamesFree
  <2>2. creator[c].slug \in Nat
    <3>1. Cardinality(Items) \in Nat
      BY QuotaFinite, FS_CardinalityType
    <3>2. creator[c].slug \in {0} \cup Slugs
      BY <1>1 DEF QuotaInv, TypeOK
    <3> QED
      BY <3>1, <3>2 DEF Slugs
  <2>3. 1 .. LastSlug \subseteq 1 .. creator[c].slug - 1
    BY <2>1, <2>2, LastSlugAssumption
  <2> QED
    BY <1>1, <2>1, <2>3 DEF QuotaInv, NamesFirst
<1>2. QuotaInv => \A c \in Creators :
        StoreFails(c) => \/ creator[c].overlapped
                         \/ \A s \in 1 .. LastSlug : \E i \in Rows : item[i].slug = s
  BY <1>1
<1> QED
  BY QuotaInvariant, <1>2, PTL DEF RefusedOnlyByRaceOrLength
=============================================================================
