--------------------- MODULE CampaignIntelligence_proofs ---------------------
(***************************************************************************)
(* Proofs about CampaignIntelligence: what the four services of the engine *)
(* say of any bundle, and what they say of one campaign over its life.     *)
(***************************************************************************)
EXTENDS CampaignIntelligence, FiniteSetTheorems, SequenceTheorems,
        WellFoundedInduction, TLAPS

-----------------------------------------------------------------------------
(* Numbers *)

LEMMA NatMin ==
    ASSUME NEW T \in SUBSET Nat, T # {}
    PROVE  \E m \in T : \A k \in T : m <= k
<1> DEFINE R == {ss \in Nat \X Nat : ss[1] < ss[2]}
<1>1. IsWellFoundedOn(R, Nat)
  BY NatLessThanWellFounded DEF OpToRel
<1>2. PICK x \in T : \A y \in T : <<y, x>> \notin R
  BY <1>1, WFMin
<1>3. \A y \in T : ~(y < x)
  BY <1>2
<1> QED
  BY <1>3

LEMMA MinFacts ==
    ASSUME NEW T \in SUBSET Nat, T # {}
    PROVE  Min(T) \in T /\ \A k \in T : Min(T) <= k
BY NatMin DEF Min

\* The denominators of the engine's means: those of momentum and opportunity, and the
\* weights of the scores that are known.
Denominators == {20, 25, 30, 35, 40, 45, 55, 60, 65, 70, 75, 80, 100, 400}

\* A mean of percentages is a percentage.
LEMMA RoundBounds ==
    ASSUME NEW d \in Denominators, NEW n \in Nat, n <= 100 * d
    PROVE  Scoring!Round(n, d) \in 0 .. 100
BY DEF Scoring!Round, Denominators

\* More of the same is no less.
LEMMA RoundMonotone ==
    ASSUME NEW d \in Denominators, NEW m \in Nat, NEW n \in Nat, m <= n
    PROVE  Scoring!Round(m, d) <= Scoring!Round(n, d)
BY DEF Scoring!Round, Denominators

-----------------------------------------------------------------------------
(* Sorting *)

\* Sorting by a strict total order loses nothing and adds nothing: the place of an element
\* is one more than the number of those before it, which differs from one to the next.
LEMMA SortedFacts ==
    ASSUME NEW S, IsFiniteSet(S), NEW R,
           \A x \in S : <<x, x>> \notin R,
           \A x, y, z \in S : <<x, y>> \in R /\ <<y, z>> \in R => <<x, z>> \in R,
           \A x, y \in S : x = y \/ <<x, y>> \in R \/ <<y, x>> \in R
    PROVE  /\ Range(Sorted(S, R)) = S
           /\ Sorted(S, R) = <<>> <=> S = {}
<1> DEFINE n == Cardinality(S)
           earlier(x) == {y \in S : <<y, x>> \in R}
           place == [x \in S |-> Cardinality(earlier(x)) + 1]
<1>1. n \in Nat
  BY FS_CardinalityType
<1>2. ASSUME NEW x \in S
      PROVE  IsFiniteSet(earlier(x)) /\ Cardinality(earlier(x)) \in Nat
  BY FS_Subset, FS_CardinalityType
<1>3. ASSUME NEW x \in S
      PROVE  place[x] \in 1 .. n
  <2>1. earlier(x) \in SUBSET S /\ x \notin earlier(x)
    OBVIOUS
  <2>2. Cardinality(earlier(x)) <= n /\ Cardinality(earlier(x)) # n
    BY <2>1, FS_Subset
  <2>3. QED
    BY <1>1, <1>2, <2>2
<1>4. ASSUME NEW x \in S, NEW y \in S, <<x, y>> \in R
      PROVE  place[x] < place[y]
  <2>1. earlier(x) \in SUBSET earlier(y) /\ x \in earlier(y) /\ x \notin earlier(x)
    BY <1>4
  <2>2. IsFiniteSet(earlier(y)) /\ earlier(x) # earlier(y)
    BY <1>2, <2>1
  <2> HIDE DEF earlier
  <2>3. /\ Cardinality(earlier(x)) <= Cardinality(earlier(y))
        /\ Cardinality(earlier(x)) # Cardinality(earlier(y))
    BY <2>1, <2>2, FS_Subset
  <2>4. QED
    BY <1>2, <2>3
<1> HIDE DEF n
<1>5. place \in Injection(S, 1 .. n)
  <2>1. place \in [S -> 1 .. n]
    BY <1>3
  <2>2. \A x, y \in S : place[x] = place[y] => x = y
    <3>1. SUFFICES ASSUME NEW x \in S, NEW y \in S, place[x] = place[y], x # y PROVE FALSE
      OBVIOUS
    <3>2. place[x] \in Int /\ place[y] \in Int
      BY <1>1, <1>3
    <3>3. <<x, y>> \in R => place[x] < place[y]
      BY <1>4, <3>1
    <3>4. <<y, x>> \in R => place[y] < place[x]
      BY <1>4, <3>1
    <3>5. <<x, y>> \in R \/ <<y, x>> \in R
      BY <3>1
    <3> HIDE DEF place
    <3>6. QED
      BY <3>1, <3>2, <3>3, <3>4, <3>5
  <2> HIDE DEF place
  <2>3. QED
    BY <2>1, <2>2 DEF Injection, IsInjective
<1>6. place \in Surjection(S, 1 .. n)
  <2> HIDE DEF place
  <2>1. IsFiniteSet(1 .. n) /\ Cardinality(1 .. n) = n
    BY <1>1, FS_Interval
  <2>2. QED
    BY <1>5, <2>1, FS_Injection DEF n
<1> DEFINE at(i) == CHOOSE x \in S : Cardinality(earlier(x)) = i - 1
<1>7. ASSUME NEW i \in 1 .. n
      PROVE  at(i) \in S /\ Cardinality(earlier(at(i))) = i - 1
  <2>1. PICK x \in S : place[x] = i
    BY <1>6 DEF Surjection
  <2>2. Cardinality(earlier(x)) = i - 1
    BY <1>2, <2>1
  <2> HIDE DEF earlier
  <2>3. QED
    BY <2>2
<1>8. ASSUME NEW x \in S
      PROVE  place[x] \in 1 .. n /\ at(place[x]) = x
  <2>1. /\ at(place[x]) \in S
        /\ Cardinality(earlier(at(place[x]))) = place[x] - 1
    BY <1>3, <1>7
  <2>2. place[at(place[x])] = place[x]
    <3> HIDE DEF earlier, at
    <3>1. QED
      BY <1>1, <1>3, <2>1
  <2> HIDE DEF place, at
  <2>3. QED
    BY <1>3, <1>5, <2>1, <2>2 DEF Injection, IsInjective
<1>9. Sorted(S, R) = [i \in 1 .. n |-> at(i)]
  BY DEF Sorted, n
<1> HIDE DEF at, place
<1>10. Range(Sorted(S, R)) = S
  <2>1. DOMAIN Sorted(S, R) = 1 .. n /\ \A i \in 1 .. n : Sorted(S, R)[i] = at(i)
    BY <1>9
  <2>2. \A x \in S : \E i \in 1 .. n : Sorted(S, R)[i] = x
    BY <1>8, <2>1
  <2>3. \A i \in 1 .. n : Sorted(S, R)[i] \in S
    BY <1>7, <2>1
  <2>4. QED
    BY <2>1, <2>2, <2>3 DEF Range
<1>11. Sorted(S, R) = <<>> <=> S = {}
  <2>1. CASE S = {}
    <3>1. n = 0
      BY <2>1, FS_EmptySet DEF n
    <3>2. 1 .. n = {}
      BY <3>1
    <3>3. QED
      BY <1>9, <2>1, <3>2
  <2>2. CASE S # {}
    BY <1>10, <2>2 DEF Range
  <2>3. QED
    BY <2>1, <2>2
<1>12. QED
  BY <1>10, <1>11

\* The services share the function that sorts.
LEMMA SameSort ==
    \A S, R : /\ Moments!Sorted(S, R) = Sorted(S, R)
              /\ Recommendations!Sorted(S, R) = Sorted(S, R)
BY Zenon DEF Sorted, Moments!Sorted, Recommendations!Sorted,
             Cardinality, Moments!Cardinality, Recommendations!Cardinality

-----------------------------------------------------------------------------
(* The moments *)

MomentRules(d, ref) ==
    <<Moments!ContentGap(d, ref), Moments!LowEngagement(d), Moments!MediaKitMissing(d),
      Moments!MilestoneReached(d), Moments!ReleaseWindow(d, ref), Moments!ReportDue(d, ref),
      Moments!SmartLinkActivity(d), Moments!WeeklyGrowth(d)>>

\* The rule of a type yields one moment at most, and that is of its type.
LEMMA MomentRulesFacts ==
    ASSUME NEW d, NEW ref, NEW i \in 1 .. 8
    PROVE  /\ \A m \in MomentRules(d, ref)[i] :
                 /\ m.type = Moments!TypeOrder[i]
                 /\ m.severity \in {"high", "medium", "low"}
                 /\ m.confidence \in Nat
           /\ \A m, n \in MomentRules(d, ref)[i] : m = n
<1>1. CASE i = 1
  BY <1>1 DEF MomentRules, Moments!TypeOrder, Moments!ContentGap, Moments!Moment, Moments!HighIf
<1>2. CASE i = 2
  BY <1>2 DEF MomentRules, Moments!TypeOrder, Moments!LowEngagement, Moments!Moment, Moments!HighIf
<1>3. CASE i = 3
  BY <1>3 DEF MomentRules, Moments!TypeOrder, Moments!MediaKitMissing, Moments!Moment, Moments!HighIf
<1>4. CASE i = 4
  BY <1>4 DEF MomentRules, Moments!TypeOrder, Moments!MilestoneReached, Moments!Moment
<1>5. CASE i = 5
  BY <1>5 DEF MomentRules, Moments!TypeOrder, Moments!ReleaseWindow, Moments!Moment, Moments!HighIf
<1>6. CASE i = 6
  BY <1>6 DEF MomentRules, Moments!TypeOrder, Moments!ReportDue, Moments!Moment
<1>7. CASE i = 7
  BY <1>7 DEF MomentRules, Moments!TypeOrder, Moments!SmartLinkActivity, Moments!Moment
<1>8. CASE i = 8
  BY <1>8 DEF MomentRules, Moments!TypeOrder, Moments!WeeklyGrowth, Moments!Moment
<1>9. QED
  BY <1>1, <1>2, <1>3, <1>4, <1>5, <1>6, <1>7, <1>8

LEMMA TypesDistinct ==
    \A i, j \in 1 .. 8 : Moments!TypeOrder[i] = Moments!TypeOrder[j] => i = j
BY DEF Moments!TypeOrder

\* Every moment detected is at the place of its type, and no two are at one place.
LEMMA MomentsFacts ==
    ASSUME NEW d, NEW ref
    PROVE  /\ \A m \in Moments!Detected(d, ref) :
                 /\ Moments!Place(m) \in 1 .. 8
                 /\ Moments!Rank(m) \in 0 .. 2
                 /\ m.confidence \in Nat
           /\ \A m, n \in Moments!Detected(d, ref) :
                 Moments!Place(m) = Moments!Place(n) => m = n
<1>1. \A m \in Moments!Detected(d, ref) : \E i \in 1 .. 8 : m \in MomentRules(d, ref)[i]
  BY DEF Moments!Detected, MomentRules
<1>2. ASSUME NEW i \in 1 .. 8, NEW m \in MomentRules(d, ref)[i]
      PROVE  /\ Moments!Place(m) = i
             /\ Moments!Rank(m) \in 0 .. 2
             /\ m.confidence \in Nat
  <2>1. DOMAIN Moments!TypeOrder = 1 .. 8
    BY DEF Moments!TypeOrder
  <2>2. m.type = Moments!TypeOrder[i]
    BY MomentRulesFacts
  <2>3. Moments!Place(m) = i
    BY <2>1, <2>2, TypesDistinct DEF Moments!Place
  <2>4. Moments!Rank(m) \in 0 .. 2
    BY MomentRulesFacts DEF Moments!Rank, Moments!SEVERITY_RANK
  <2>5. QED
    BY <2>3, <2>4, MomentRulesFacts
<1>3. QED
  BY <1>1, <1>2, MomentRulesFacts

\* What is returned are the moments that were detected.
LEMMA SeenAreDetected ==
    ASSUME NEW d, NEW raw, ~Moments!IsInsufficient(d)
    PROVE  Range(Moments!Detect(d, raw).moments)
             = Moments!Detected(d, Moments!ParseReference(raw))
<1> DEFINE found == Moments!Detected(d, Moments!ParseReference(raw))
           before == {p \in found \X found : Moments!Before(p[1], p[2])}
<1>1. Moments!Detect(d, raw).moments = Moments!Sorted(found, before)
  BY DEF Moments!Detect
<1>2. /\ \A m \in found : /\ Moments!Place(m) \in 1 .. 8
                          /\ Moments!Rank(m) \in 0 .. 2
                          /\ m.confidence \in Nat
      /\ \A m, n \in found : Moments!Place(m) = Moments!Place(n) => m = n
  BY MomentsFacts
<1> HIDE DEF found
<1>3. IsFiniteSet(found)
  <2> DEFINE place == [m \in found |-> Moments!Place(m)]
  <2>1. place \in Injection(found, 1 .. 8)
    BY <1>2 DEF Injection, IsInjective
  <2> HIDE DEF place
  <2>2. 1 \in Int /\ 8 \in Int
    OBVIOUS
  <2>3. IsFiniteSet(1 .. 8)
    BY <2>2, FS_Interval
  <2>4. QED
    BY <2>1, <2>3, FS_Injection
<1>4. \A m, n \in found : <<m, n>> \in before <=> Moments!Before(m, n)
  OBVIOUS
<1>5. \A m \in found : ~Moments!Before(m, m)
  BY <1>2 DEF Moments!Before
<1>6. \A k, m, n \in found :
        Moments!Before(k, m) /\ Moments!Before(m, n) => Moments!Before(k, n)
  BY <1>2 DEF Moments!Before
<1>7. \A m, n \in found : m = n \/ Moments!Before(m, n) \/ Moments!Before(n, m)
  BY <1>2 DEF Moments!Before
<1>8. /\ \A m \in found : <<m, m>> \notin before
      /\ \A k, m, n \in found : <<k, m>> \in before /\ <<m, n>> \in before => <<k, n>> \in before
      /\ \A m, n \in found : m = n \/ <<m, n>> \in before \/ <<n, m>> \in before
  BY <1>4, <1>5, <1>6, <1>7
<1> HIDE DEF before
<1>9. Range(Sorted(found, before)) = found
  BY <1>3, <1>8, SortedFacts
<1>10. Moments!Sorted(found, before) = Sorted(found, before)
  BY SameSort
<1>11. QED
  BY <1>1, <1>9, <1>10 DEF found

-----------------------------------------------------------------------------
(* The recommendations *)

AdviceRules(d, ref) ==
    <<Recommendations!MediaKit(d), Recommendations!Milestone(d),
      Recommendations!Release(d, ref), Recommendations!Report(d, ref),
      Recommendations!Story(d), Recommendations!WeeklyGrowthPost(d),
      Recommendations!ImproveSmartLink(d)>>

\* The rule of an action yields one recommendation at most, and that is of its action.
LEMMA AdviceRulesFacts ==
    ASSUME NEW d, NEW ref, NEW i \in 1 .. 7
    PROVE  /\ \A r \in AdviceRules(d, ref)[i] :
                 /\ r.action = Recommendations!ActionOrder[i]
                 /\ r.priority \in {"high", "medium", "low"}
                 /\ r.confidence \in Nat
           /\ \A r, s \in AdviceRules(d, ref)[i] : r = s
<1> USE DEF AdviceRules, Recommendations!ActionOrder, Recommendations!Recommendation
<1>1. CASE i = 1
  BY <1>1 DEF Recommendations!MediaKit, Recommendations!Urgent
<1>2. CASE i = 2
  BY <1>2 DEF Recommendations!Milestone
<1>3. CASE i = 3
  BY <1>3 DEF Recommendations!Release, Recommendations!Urgent
<1>4. CASE i = 4
  BY <1>4 DEF Recommendations!Report
<1>5. CASE i = 5
  BY <1>5 DEF Recommendations!Story
<1>6. CASE i = 6
  BY <1>6 DEF Recommendations!WeeklyGrowthPost
<1>7. CASE i = 7
  BY <1>7 DEF Recommendations!ImproveSmartLink, Recommendations!Urgent
<1>8. QED
  BY <1>1, <1>2, <1>3, <1>4, <1>5, <1>6, <1>7

LEMMA ActionsDistinct ==
    \A i, j \in 1 .. 9 :
        Recommendations!ActionOrder[i] = Recommendations!ActionOrder[j] => i = j
BY DEF Recommendations!ActionOrder

LEMMA AdviceFacts ==
    ASSUME NEW d, NEW ref
    PROVE  /\ \A r \in Recommendations!Triggered(d, ref) :
                 /\ Recommendations!Place(r) \in 1 .. 7
                 /\ Recommendations!Rank(r) \in 0 .. 2
                 /\ r.confidence \in Nat
                 /\ r.action \notin {"no_action", "wait_for_more_data"}
           /\ \A r, s \in Recommendations!Triggered(d, ref) :
                 Recommendations!Place(r) = Recommendations!Place(s) => r = s
<1>1. \A r \in Recommendations!Triggered(d, ref) :
        \E i \in 1 .. 7 : r \in AdviceRules(d, ref)[i]
  BY DEF Recommendations!Triggered, AdviceRules
<1>2. ASSUME NEW i \in 1 .. 7, NEW r \in AdviceRules(d, ref)[i]
      PROVE  /\ Recommendations!Place(r) = i
             /\ Recommendations!Rank(r) \in 0 .. 2
             /\ r.confidence \in Nat
             /\ r.action \notin {"no_action", "wait_for_more_data"}
  <2>1. DOMAIN Recommendations!ActionOrder = 1 .. 9
    BY DEF Recommendations!ActionOrder
  <2>2. r.action = Recommendations!ActionOrder[i]
    BY AdviceRulesFacts
  <2>3. Recommendations!Place(r) = i
    BY <2>1, <2>2, ActionsDistinct DEF Recommendations!Place
  <2>4. Recommendations!Rank(r) \in 0 .. 2
    BY AdviceRulesFacts DEF Recommendations!Rank, Recommendations!PRIORITY_RANK
  <2>5. r.action \notin {"no_action", "wait_for_more_data"}
    BY <2>2 DEF Recommendations!ActionOrder
  <2>6. QED
    BY <2>3, <2>4, <2>5, AdviceRulesFacts
<1>3. QED
  BY <1>1, <1>2, AdviceRulesFacts

\* What is advised, when there is data, is what was triggered, or that nothing was.
LEMMA AdvisedAreTriggered ==
    ASSUME NEW d, NEW raw,
           Recommendations!Scoring!Known(Recommendations!Scoring!Score(d, raw).scores) # {}
    PROVE  LET found == Recommendations!Triggered(d, Recommendations!ParseReference(raw))
               advised == Recommendations!Recommend(d, raw).recommendations
           IN  /\ found = {} => advised = <<Recommendations!NO_ACTION>>
               /\ found # {} => Range(advised) = found /\ advised # <<>>
<1> DEFINE found == Recommendations!Triggered(d, Recommendations!ParseReference(raw))
           sooner == {p \in found \X found : Recommendations!Sooner(p[1], p[2])}
           advised == Recommendations!Recommend(d, raw).recommendations
<1>1. advised = IF found = {} THEN <<Recommendations!NO_ACTION>>
                ELSE Recommendations!Sorted(found, sooner)
  BY DEF Recommendations!Recommend
<1>2. /\ \A r \in found : /\ Recommendations!Place(r) \in 1 .. 7
                          /\ Recommendations!Rank(r) \in 0 .. 2
                          /\ r.confidence \in Nat
      /\ \A r, s \in found : Recommendations!Place(r) = Recommendations!Place(s) => r = s
  BY AdviceFacts
<1> HIDE DEF found
<1>3. IsFiniteSet(found)
  <2> DEFINE place == [r \in found |-> Recommendations!Place(r)]
  <2>1. place \in Injection(found, 1 .. 7)
    BY <1>2 DEF Injection, IsInjective
  <2> HIDE DEF place
  <2>2. 1 \in Int /\ 7 \in Int
    OBVIOUS
  <2>3. IsFiniteSet(1 .. 7)
    BY <2>2, FS_Interval
  <2>4. QED
    BY <2>1, <2>3, FS_Injection
<1>4. \A r, s \in found : <<r, s>> \in sooner <=> Recommendations!Sooner(r, s)
  OBVIOUS
<1>5. \A r \in found : ~Recommendations!Sooner(r, r)
  BY <1>2 DEF Recommendations!Sooner
<1>6. \A r, s, t \in found :
        Recommendations!Sooner(r, s) /\ Recommendations!Sooner(s, t)
          => Recommendations!Sooner(r, t)
  BY <1>2 DEF Recommendations!Sooner
<1>7. \A r, s \in found :
        r = s \/ Recommendations!Sooner(r, s) \/ Recommendations!Sooner(s, r)
  BY <1>2 DEF Recommendations!Sooner
<1>8. /\ \A r \in found : <<r, r>> \notin sooner
      /\ \A r, s, t \in found : <<r, s>> \in sooner /\ <<s, t>> \in sooner => <<r, t>> \in sooner
      /\ \A r, s \in found : r = s \/ <<r, s>> \in sooner \/ <<s, r>> \in sooner
  BY <1>4, <1>5, <1>6, <1>7
<1> HIDE DEF sooner
<1>9. Range(Sorted(found, sooner)) = found /\ (Sorted(found, sooner) = <<>> <=> found = {})
  BY <1>3, <1>8, SortedFacts
<1>10. Recommendations!Sorted(found, sooner) = Sorted(found, sooner)
  BY SameSort
<1> HIDE DEF advised
<1>11. QED
  BY <1>1, <1>9, <1>10 DEF found, advised

-----------------------------------------------------------------------------
(* The services read a bundle alike *)

LEMMA AnalysisReads ==
    ASSUME NEW d, NEW raw, NEW ref
    PROVE  /\ Analysis!Status(d) = Status(d)
           /\ Analysis!ParseReference(raw) = ParseReference(raw)
           /\ Analysis!IsInsufficient(d) = IsInsufficient(d)
           /\ Analysis!HasActivity(d) = HasActivity(d)
           /\ Analysis!CompletedOutputs(d) = CompletedOutputs(d)
           /\ Analysis!RecentOutputs(d, ref) = RecentOutputs(d, ref)
           /\ Analysis!HasUsableMediaKit(d) = HasUsableMediaKit(d)
           /\ Analysis!HasRecentCompletedReport(d, ref) = HasRecentCompletedReport(d, ref)
<1>1. Analysis!Status(d) = Status(d)
  BY Zenon DEF Status, Analysis!Status
<1>2. Analysis!ParseReference(raw) = ParseReference(raw)
  BY Zenon DEF ParseReference, Analysis!ParseReference
<1>3. Analysis!IsInsufficient(d) = IsInsufficient(d)
  BY Zenon DEF IsInsufficient, Analysis!IsInsufficient
<1>4. Analysis!HasActivity(d) = HasActivity(d)
  BY Zenon DEF HasActivity, Counters, Analysis!HasActivity, Analysis!Counters
<1>5. Analysis!CompletedOutputs(d) = CompletedOutputs(d)
  BY Zenon DEF CompletedOutputs, Analysis!CompletedOutputs
<1>6. Analysis!RecentOutputs(d, ref) = RecentOutputs(d, ref)
  BY Zenon DEF RecentOutputs, CompletedOutputs, RECENT_CONTENT_WINDOW_DAYS,
               Analysis!RecentOutputs, Analysis!CompletedOutputs,
               Analysis!RECENT_CONTENT_WINDOW_DAYS
<1>7. Analysis!HasUsableMediaKit(d) = HasUsableMediaKit(d)
  BY Zenon DEF HasUsableMediaKit, USABLE_MEDIA_KIT_STATUSES, Range, Analysis!HasUsableMediaKit,
               Analysis!USABLE_MEDIA_KIT_STATUSES, Analysis!Range
<1>8. Analysis!HasRecentCompletedReport(d, ref) = HasRecentCompletedReport(d, ref)
  BY Zenon DEF HasRecentCompletedReport, Range, REPORT_DUE_AFTER_DAYS,
               Analysis!HasRecentCompletedReport, Analysis!Range,
               Analysis!REPORT_DUE_AFTER_DAYS
<1>9. QED
  BY <1>1, <1>2, <1>3, <1>4, <1>5, <1>6, <1>7, <1>8

LEMMA ScoringReads ==
    ASSUME NEW d, NEW raw, NEW ref, NEW counter, NEW days
    PROVE  /\ Scoring!Status(d) = Status(d)
           /\ Scoring!ParseReference(raw) = ParseReference(raw)
           /\ Scoring!HasActivity(d) = HasActivity(d)
           /\ Scoring!HasNegative(d) = HasNegative(d)
           /\ Scoring!InconsistentDates(d) = InconsistentDates(d)
           /\ Scoring!Clamped(d, counter) = Clamped(d, counter)
           /\ Scoring!CompletedOutputs(d) = CompletedOutputs(d)
           /\ Scoring!RecentOutputs(d, ref) = RecentOutputs(d, ref)
           /\ Scoring!HasUsableMediaKit(d) = HasUsableMediaKit(d)
           /\ Scoring!HasRecentCompletedReport(d, ref) = HasRecentCompletedReport(d, ref)
           /\ Scoring!InReleaseWindow(d, ref, days) = InReleaseWindow(d, ref, days)
<1>1. Scoring!Status(d) = Status(d)
  BY Zenon DEF Status, Scoring!Status
<1>2. Scoring!ParseReference(raw) = ParseReference(raw)
  BY Zenon DEF ParseReference, Scoring!ParseReference
<1>3. Scoring!HasActivity(d) = HasActivity(d)
  BY Zenon DEF HasActivity, Counters, Scoring!HasActivity, Scoring!Counters
<1>4. Scoring!HasNegative(d) = HasNegative(d)
  BY Zenon DEF HasNegative, Counters, Scoring!HasNegative, Scoring!Counters
<1>5. Scoring!InconsistentDates(d) = InconsistentDates(d)
  BY Zenon DEF InconsistentDates, Scoring!InconsistentDates
<1>6. Scoring!Clamped(d, counter) = Clamped(d, counter)
  BY Zenon DEF Clamped, Max, Scoring!Clamped, Scoring!Max
<1>7. Scoring!CompletedOutputs(d) = CompletedOutputs(d)
  BY Zenon DEF CompletedOutputs, Scoring!CompletedOutputs
<1>8. Scoring!RecentOutputs(d, ref) = RecentOutputs(d, ref)
  BY Zenon DEF RecentOutputs, CompletedOutputs, RECENT_CONTENT_WINDOW_DAYS,
               Scoring!RecentOutputs, Scoring!CompletedOutputs,
               Scoring!RECENT_CONTENT_WINDOW_DAYS
<1>9. Scoring!HasUsableMediaKit(d) = HasUsableMediaKit(d)
  BY Zenon DEF HasUsableMediaKit, USABLE_MEDIA_KIT_STATUSES, Range, Scoring!HasUsableMediaKit,
               Scoring!USABLE_MEDIA_KIT_STATUSES, Scoring!Range
<1>10. Scoring!HasRecentCompletedReport(d, ref) = HasRecentCompletedReport(d, ref)
  BY Zenon DEF HasRecentCompletedReport, Range, REPORT_DUE_AFTER_DAYS,
               Scoring!HasRecentCompletedReport, Scoring!Range,
               Scoring!REPORT_DUE_AFTER_DAYS
<1>11. Scoring!InReleaseWindow(d, ref, days) = InReleaseWindow(d, ref, days)
  BY Zenon DEF InReleaseWindow, Scoring!InReleaseWindow
<1>12. QED
  BY <1>1, <1>2, <1>3, <1>4, <1>5, <1>6, <1>7, <1>8, <1>9, <1>10, <1>11

LEMMA MomentsReads ==
    ASSUME NEW d, NEW raw, NEW ref, NEW counter, NEW days
    PROVE  /\ Moments!Status(d) = Status(d)
           /\ Moments!CampaignType(d) = CampaignType(d)
           /\ Moments!ParseReference(raw) = ParseReference(raw)
           /\ Moments!IsInsufficient(d) = IsInsufficient(d)
           /\ Moments!HasActivity(d) = HasActivity(d)
           /\ Moments!Clamped(d, counter) = Clamped(d, counter)
           /\ Moments!CompletedOutputs(d) = CompletedOutputs(d)
           /\ Moments!RecentOutputs(d, ref) = RecentOutputs(d, ref)
           /\ Moments!HasUsableMediaKit(d) = HasUsableMediaKit(d)
           /\ Moments!HasRecentCompletedReport(d, ref) = HasRecentCompletedReport(d, ref)
           /\ Moments!InReleaseWindow(d, ref, days) = InReleaseWindow(d, ref, days)
           /\ Moments!MilestoneAchieved(d) = MilestoneAchieved(d)
<1>1. Moments!Status(d) = Status(d)
  BY Zenon DEF Status, Moments!Status
<1>2. Moments!CampaignType(d) = CampaignType(d)
  BY Zenon DEF CampaignType, Moments!CampaignType
<1>3. Moments!ParseReference(raw) = ParseReference(raw)
  BY Zenon DEF ParseReference, Moments!ParseReference
<1>4. Moments!IsInsufficient(d) = IsInsufficient(d)
  BY Zenon DEF IsInsufficient, Moments!IsInsufficient
<1>5. Moments!HasActivity(d) = HasActivity(d)
  BY Zenon DEF HasActivity, Counters, Moments!HasActivity, Moments!Counters
<1>6. Moments!Clamped(d, counter) = Clamped(d, counter)
  BY Zenon DEF Clamped, Max, Moments!Clamped, Moments!Max
<1>7. Moments!CompletedOutputs(d) = CompletedOutputs(d)
  BY Zenon DEF CompletedOutputs, Moments!CompletedOutputs
<1>8. Moments!RecentOutputs(d, ref) = RecentOutputs(d, ref)
  BY Zenon DEF RecentOutputs, CompletedOutputs, RECENT_CONTENT_WINDOW_DAYS,
               Moments!RecentOutputs, Moments!CompletedOutputs,
               Moments!RECENT_CONTENT_WINDOW_DAYS
<1>9. Moments!HasUsableMediaKit(d) = HasUsableMediaKit(d)
  BY Zenon DEF HasUsableMediaKit, USABLE_MEDIA_KIT_STATUSES, Range, Moments!HasUsableMediaKit,
               Moments!USABLE_MEDIA_KIT_STATUSES, Moments!Range
<1>10. Moments!HasRecentCompletedReport(d, ref) = HasRecentCompletedReport(d, ref)
  BY Zenon DEF HasRecentCompletedReport, Range, REPORT_DUE_AFTER_DAYS,
               Moments!HasRecentCompletedReport, Moments!Range,
               Moments!REPORT_DUE_AFTER_DAYS
<1>11. Moments!InReleaseWindow(d, ref, days) = InReleaseWindow(d, ref, days)
  BY Zenon DEF InReleaseWindow, Moments!InReleaseWindow
<1>12. Moments!MilestoneAchieved(d) = MilestoneAchieved(d)
  BY Zenon DEF MilestoneAchieved, Range, Moments!MilestoneAchieved, Moments!Range
<1>13. QED
  BY <1>1, <1>2, <1>3, <1>4, <1>5, <1>6, <1>7, <1>8, <1>9, <1>10, <1>11, <1>12

LEMMA RecommendationsReads ==
    ASSUME NEW d, NEW raw, NEW ref, NEW counter, NEW days
    PROVE  /\ Recommendations!Status(d) = Status(d)
           /\ Recommendations!CampaignType(d) = CampaignType(d)
           /\ Recommendations!ParseReference(raw) = ParseReference(raw)
           /\ Recommendations!HasActivity(d) = HasActivity(d)
           /\ Recommendations!Clamped(d, counter) = Clamped(d, counter)
           /\ Recommendations!CompletedOutputs(d) = CompletedOutputs(d)
           /\ Recommendations!HasUsableMediaKit(d) = HasUsableMediaKit(d)
           /\ Recommendations!HasRecentCompletedReport(d, ref) = HasRecentCompletedReport(d, ref)
           /\ Recommendations!InReleaseWindow(d, ref, days) = InReleaseWindow(d, ref, days)
           /\ Recommendations!MilestoneAchieved(d) = MilestoneAchieved(d)
<1>1. Recommendations!Status(d) = Status(d)
  BY Zenon DEF Status, Recommendations!Status
<1>2. Recommendations!CampaignType(d) = CampaignType(d)
  BY Zenon DEF CampaignType, Recommendations!CampaignType
<1>3. Recommendations!ParseReference(raw) = ParseReference(raw)
  BY Zenon DEF ParseReference, Recommendations!ParseReference
<1>4. Recommendations!HasActivity(d) = HasActivity(d)
  BY Zenon DEF HasActivity, Counters, Recommendations!HasActivity, Recommendations!Counters
<1>5. Recommendations!Clamped(d, counter) = Clamped(d, counter)
  BY Zenon DEF Clamped, Max, Recommendations!Clamped, Recommendations!Max
<1>6. Recommendations!CompletedOutputs(d) = CompletedOutputs(d)
  BY Zenon DEF CompletedOutputs, Recommendations!CompletedOutputs
<1>7. Recommendations!HasUsableMediaKit(d) = HasUsableMediaKit(d)
  BY Zenon DEF HasUsableMediaKit, USABLE_MEDIA_KIT_STATUSES, Range,
               Recommendations!HasUsableMediaKit,
               Recommendations!USABLE_MEDIA_KIT_STATUSES, Recommendations!Range
<1>8. Recommendations!HasRecentCompletedReport(d, ref) = HasRecentCompletedReport(d, ref)
  BY Zenon DEF HasRecentCompletedReport, Range, REPORT_DUE_AFTER_DAYS,
               Recommendations!HasRecentCompletedReport, Recommendations!Range,
               Recommendations!REPORT_DUE_AFTER_DAYS
<1>9. Recommendations!InReleaseWindow(d, ref, days) = InReleaseWindow(d, ref, days)
  BY Zenon DEF InReleaseWindow, Recommendations!InReleaseWindow
<1>10. Recommendations!MilestoneAchieved(d) = MilestoneAchieved(d)
  BY Zenon DEF MilestoneAchieved, Range, Recommendations!MilestoneAchieved,
               Recommendations!Range
<1>11. QED
  BY <1>1, <1>2, <1>3, <1>4, <1>5, <1>6, <1>7, <1>8, <1>9, <1>10

-----------------------------------------------------------------------------
(* The composite answer *)

\* When no service raises, the answer is those of the services.
LEMMA WholeAnswer ==
    ASSUME NEW d, NEW raw
    PROVE  LET result == Run(d, raw, {})
           IN  /\ result.health = Analysis!Analyse(d, raw).health
               /\ result.scores = Scoring!Score(d, raw).scores
               /\ result.grade = Scoring!Score(d, raw).grade
               /\ result.moments = Moments!Detect(d, raw).moments
               /\ result.recommendations = Recommendations!Recommend(d, raw).recommendations
<1>1. Broken({}) = {}
  BY DEF Broken
<1>2. QED
  BY <1>1 DEF Run, Safe

-----------------------------------------------------------------------------
(* Health and risk *)

LEMMA MaxOfTwo ==
    ASSUME NEW n \in Int
    PROVE  Max({n, 0}) = IF n > 0 THEN n ELSE 0
BY DEF Max

LEMMA ClampedFacts ==
    ASSUME NEW d \in Bundles, NEW counter \in {"total", "last7", "last30", "links"}
    PROVE  /\ Clamped(d, counter) \in Nat
           /\ Clamped(d, counter) > 0 <=>
                d.stats # NULL /\ d.stats[counter] # NULL /\ d.stats[counter] > 0
           /\ d.stats # NULL /\ d.stats[counter] # NULL /\ d.stats[counter] >= 0
                => Clamped(d, counter) = d.stats[counter]
<1>1. CASE d.stats = NULL
  BY <1>1 DEF Clamped
<1>2. CASE d.stats # NULL
  <2>1. d.stats \in Counts
    BY <1>2 DEF Bundles
  <2>2. d.stats[counter] \in Int \cup {NULL}
    BY <2>1 DEF Counts, Number
  <2>3. NULL \notin Int
    BY DayAssumption
  <2>4. QED
    BY <1>2, <2>2, <2>3, MaxOfTwo DEF Clamped
<1>3. QED
  BY <1>1, <1>2

\* A link that is not idle: a counter above zero.
LEMMA ActivityFacts ==
    ASSUME NEW d \in Bundles
    PROVE  HasActivity(d) <=>
             \E counter \in {"total", "last7", "last30", "links"} : Clamped(d, counter) > 0
<1>1. \A counter \in {"total", "last7", "last30", "links"} :
        Clamped(d, counter) > 0 <=>
          d.stats # NULL /\ d.stats[counter] # NULL /\ d.stats[counter] > 0
  BY ClampedFacts
<1>2. QED
  BY <1>1 DEF HasActivity, Counters

LEMMA InactivityFacts ==
    ASSUME NEW d \in Bundles
    PROVE  /\ Scoring!LinkInactivityValue(d) \in {0, 10, 20}
           /\ d.stats = NULL \/ HasActivity(d) => Scoring!LinkInactivityValue(d) <= 10
<1>1. \A counter : Scoring!Clamped(d, counter) = Clamped(d, counter)
  BY ScoringReads
<1>2. QED
  BY <1>1, ActivityFacts DEF Scoring!LinkInactivityValue

\* What the analysis and the score of risk make of an active campaign without content.
LEMMA HealthFacts ==
    ASSUME NEW d, NEW raw
    PROVE  LET health == Analysis!Analyse(d, raw).health
               idle == Status(d) = "active" /\ CompletedOutputs(d) = {} /\ ~HasActivity(d)
           IN  /\ health = "critical" => idle
               /\ health = "good" => ~idle /\ (d.stats = NULL \/ HasActivity(d))
<1> DEFINE ref == Analysis!ParseReference(raw)
           found == Analysis!Signals(d, ref)
<1>1. /\ Analysis!Status(d) = Status(d)
      /\ Analysis!CompletedOutputs(d) = CompletedOutputs(d)
      /\ Analysis!HasActivity(d) = HasActivity(d)
  BY AnalysisReads
<1>2. HasActivity(d) => d.stats # NULL
  BY DEF HasActivity
<1>3. "smart_link_activity" \in Analysis!SmartLinkSignals(d) <=> HasActivity(d)
  BY <1>1, <1>2 DEF Analysis!SmartLinkSignals
<1>4. "smart_link_no_activity" \in Analysis!SmartLinkSignals(d)
        <=> d.stats # NULL /\ ~HasActivity(d)
  BY <1>1, <1>2 DEF Analysis!SmartLinkSignals
<1>5. "content_gap" \in Analysis!ContentSignals(d, ref) <=> CompletedOutputs(d) = {}
  BY <1>1 DEF Analysis!ContentSignals
<1>6. "active_campaign_no_traction" \in Analysis!RiskSignals(d, ref) <=>
        Status(d) = "active" /\ CompletedOutputs(d) = {} /\ ~HasActivity(d)
  BY <1>1, <1>3, <1>5 DEF Analysis!RiskSignals
<1>7. "active_campaign_no_traction" \in found <=>
        "active_campaign_no_traction" \in Analysis!RiskSignals(d, ref)
  <2>1. /\ "active_campaign_no_traction" \notin Analysis!ContentSignals(d, ref)
        /\ "active_campaign_no_traction" \notin Analysis!SmartLinkSignals(d)
        /\ "active_campaign_no_traction" \notin Analysis!ReportSignals(d, ref)
        /\ "active_campaign_no_traction" \notin Analysis!MediaKitSignals(d)
    BY DEF Analysis!ContentSignals, Analysis!SmartLinkSignals, Analysis!ReportSignals,
           Analysis!MediaKitSignals
  <2>2. QED
    BY <2>1 DEF Analysis!Signals
<1>8. "smart_link_no_activity" \in Analysis!SmartLinkSignals(d) => "smart_link_no_activity" \in found
  BY DEF Analysis!Signals
<1> HIDE DEF found
<1>9. /\ Analysis!DeriveHealth(found) = "critical" => "active_campaign_no_traction" \in found
      /\ Analysis!DeriveHealth(found) = "good" =>
           "active_campaign_no_traction" \notin found /\ "smart_link_no_activity" \notin found
  BY DEF Analysis!DeriveHealth, Analysis!Strengths, Analysis!Weaknesses, Analysis!Risks
<1>10. Analysis!Analyse(d, raw).health \in {"unknown", Analysis!DeriveHealth(found)}
  BY DEF Analysis!Analyse, Analysis!NoAnalysis, found, ref
<1>11. QED
  BY <1>4, <1>6, <1>7, <1>8, <1>9, <1>10

LEMMA RiskFacts ==
    ASSUME NEW d \in Bundles, NEW ref
    PROVE  LET risk == Scoring!Risk(d, ref)
               idle == Status(d) = "active" /\ CompletedOutputs(d) = {} /\ ~HasActivity(d)
           IN  /\ risk = NULL <=> d.campaign = NULL /\ d.stats = NULL
               /\ risk # NULL => risk \in 0 .. 100
               /\ idle => risk >= 50
               /\ ~idle /\ (d.stats = NULL \/ HasActivity(d)) /\ risk # NULL => risk <= 55
<1>1. /\ Scoring!Status(d) = Status(d)
      /\ Scoring!CompletedOutputs(d) = CompletedOutputs(d)
      /\ Scoring!HasActivity(d) = HasActivity(d)
  BY ScoringReads
<1>2. NULL \notin Int
  BY DayAssumption
<1>3. Status(d) = "active" => d.campaign # NULL
  BY DEF Status
<1>4. Scoring!LinkInactivityValue(d) \in {0, 10, 20}
  BY InactivityFacts
<1>5. \A condition : /\ Scoring!If(condition, 15) \in {0, 15}
                     /\ Scoring!If(condition, 35) \in {0, 35}
  BY DEF Scoring!If
<1> DEFINE idle == Status(d) = "active" /\ CompletedOutputs(d) = {}
           overdue == Scoring!If(Scoring!IsOverdue(d, ref), 15)
           dirty == Scoring!If(Scoring!HasQualityIssues(d), 15)
<1>6. overdue \in {0, 15} /\ dirty \in {0, 15}
  BY <1>5
<1> HIDE DEF overdue, dirty
<1>7. Scoring!Risk(d, ref) =
        IF d.campaign = NULL /\ d.stats = NULL THEN NULL
        ELSE Scoring!If(idle /\ ~HasActivity(d), 35) + Scoring!LinkInactivityValue(d)
               + Scoring!If(idle, 15) + overdue + dirty
  BY <1>1 DEF Scoring!Risk, overdue, dirty
<1>8. QED
  BY <1>2, <1>3, <1>4, <1>6, <1>7, InactivityFacts DEF Scoring!If

LEMMA HealthAgreesWithRisk ==
    ASSUME NEW d \in Bundles, NEW raw
    PROVE  LET result == Run(d, raw, {})
           IN  /\ result.health = "critical" => result.scores.risk >= 50
               /\ result.health = "good" /\ result.scores.risk # NULL => result.scores.risk <= 55
<1>1. Run(d, raw, {}).health = Analysis!Analyse(d, raw).health
  BY WholeAnswer
<1>2. Run(d, raw, {}).scores = Scoring!Score(d, raw).scores
  BY WholeAnswer
<1>3. Scoring!Score(d, raw).scores.risk = Scoring!Risk(d, Scoring!ParseReference(raw))
  BY DEF Scoring!Score
<1>4. QED
  BY <1>1, <1>2, <1>3, HealthFacts, RiskFacts

-----------------------------------------------------------------------------
(* Advice and moments *)

\* Of a bundle that says nothing there is nothing to score.
LEMMA NothingKnown ==
    ASSUME NEW d, NEW raw, IsInsufficient(d)
    PROVE  Recommendations!Scoring!Known(Recommendations!Scoring!Score(d, raw).scores) = {}
<1> DEFINE ref == Recommendations!Scoring!ParseReference(raw)
           parts == [readiness |-> Recommendations!Scoring!Readiness(d),
                     momentum |-> Recommendations!Scoring!Momentum(d, ref),
                     opportunity |-> Recommendations!Scoring!ContentOpportunity(d, ref),
                     risk |-> Recommendations!Scoring!Risk(d, ref)]
           priority == Recommendations!Scoring!Priority(parts)
<1>1. Recommendations!Scoring!Readiness(d) = NULL
  BY DEF IsInsufficient, Recommendations!Scoring!Readiness
<1>2. Recommendations!Scoring!Momentum(d, ref) = NULL
  BY DEF IsInsufficient, Recommendations!Scoring!Momentum
<1>3. Recommendations!Scoring!ContentOpportunity(d, ref) = NULL
  BY DEF IsInsufficient, Recommendations!Scoring!ContentOpportunity
<1>4. Recommendations!Scoring!Risk(d, ref) = NULL
  BY DEF IsInsufficient, Recommendations!Scoring!Risk
<1>5. Recommendations!Scoring!Known(parts) = {}
  BY <1>1, <1>2, <1>3, <1>4 DEF Recommendations!Scoring!Known
<1>6. priority = NULL
  <2>1. Cardinality({}) = 0
    BY FS_EmptySet
  <2>2. Recommendations!Scoring!Cardinality({}) = Cardinality({})
    BY Zenon DEF Cardinality, Recommendations!Scoring!Cardinality
  <2> HIDE DEF parts
  <2>3. QED
    BY <1>5, <2>1, <2>2 DEF Recommendations!Scoring!Priority
<1> DEFINE scores == [readiness |-> parts.readiness, momentum |-> parts.momentum,
                      opportunity |-> parts.opportunity, risk |-> parts.risk,
                      priority |-> priority]
<1>7. Recommendations!Scoring!Score(d, raw).scores = scores
  BY DEF Recommendations!Scoring!Score
<1> HIDE DEF priority
<1>8. Recommendations!Scoring!Known(scores) = {}
  BY <1>1, <1>2, <1>3, <1>4, <1>6 DEF Recommendations!Scoring!Known
<1>9. QED
  BY <1>7, <1>8

\* The moment a recommendation answers.
Answers(r, m) ==
    /\ Moments!RECOMMENDED_ACTION[m.type] = r.action
    /\ \/ m.severity = r.priority
       \/ m.type = "release_window" /\ r.priority = "high"

\* The two services judge alike, rule by rule.
LEMMA TriggeredHasMoment ==
    ASSUME NEW d \in Bundles, NEW ref, NEW r \in Recommendations!Triggered(d, ref)
    PROVE  \/ \E m \in Moments!Detected(d, ref) : Answers(r, m)
           \/ r.action = "create_release_post" /\ r.priority = "medium"
<1>1. /\ \A days : Moments!InReleaseWindow(d, ref, days) = InReleaseWindow(d, ref, days)
      /\ \A counter : Moments!Clamped(d, counter) = Clamped(d, counter)
      /\ Moments!Status(d) = Status(d)
      /\ Moments!CampaignType(d) = CampaignType(d)
      /\ Moments!HasActivity(d) = HasActivity(d)
      /\ Moments!CompletedOutputs(d) = CompletedOutputs(d)
      /\ Moments!HasUsableMediaKit(d) = HasUsableMediaKit(d)
      /\ Moments!HasRecentCompletedReport(d, ref) = HasRecentCompletedReport(d, ref)
      /\ Moments!MilestoneAchieved(d) = MilestoneAchieved(d)
  BY MomentsReads
<1>2. /\ \A days : Recommendations!InReleaseWindow(d, ref, days) = InReleaseWindow(d, ref, days)
      /\ \A counter : Recommendations!Clamped(d, counter) = Clamped(d, counter)
      /\ Recommendations!Status(d) = Status(d)
      /\ Recommendations!CampaignType(d) = CampaignType(d)
      /\ Recommendations!HasActivity(d) = HasActivity(d)
      /\ Recommendations!CompletedOutputs(d) = CompletedOutputs(d)
      /\ Recommendations!HasUsableMediaKit(d) = HasUsableMediaKit(d)
      /\ Recommendations!HasRecentCompletedReport(d, ref) = HasRecentCompletedReport(d, ref)
      /\ Recommendations!MilestoneAchieved(d) = MilestoneAchieved(d)
  BY RecommendationsReads
<1>3. Recommendations!RELEASE_WINDOW_DAYS = Moments!RELEASE_WINDOW_DAYS
  BY DEF Recommendations!RELEASE_WINDOW_DAYS, Moments!RELEASE_WINDOW_DAYS
<1>4. Recommendations!FINISHED_CAMPAIGN_STATUSES = Moments!FINISHED_CAMPAIGN_STATUSES
  BY DEF Recommendations!FINISHED_CAMPAIGN_STATUSES, Moments!FINISHED_CAMPAIGN_STATUSES
<1>5. Recommendations!Running(d) => ~Moments!Finished(d)
  BY <1>1, <1>2, <1>4 DEF Recommendations!Running, Moments!Finished
<1>6. ASSUME NEW m \in Moments!Detected(d, ref),
             Moments!RECOMMENDED_ACTION[m.type] = r.action,
             \/ m.severity = r.priority
             \/ m.type = "release_window" /\ r.priority = "high"
      PROVE  \E n \in Moments!Detected(d, ref) : Answers(r, n)
  BY <1>6 DEF Answers
<1> USE DEF Moments!Moment, Moments!RECOMMENDED_ACTION, Recommendations!Recommendation
<1>7. CASE r \in Recommendations!Release(d, ref)
  <2>1. CASE InReleaseWindow(d, ref, Moments!RELEASE_WINDOW_DAYS)
    <3> DEFINE imminent == Moments!InReleaseWindow(d, ref, Moments!RELEASE_IMMINENT_DAYS)
               m == Moments!Moment("release_window", Moments!HighIf(imminent),
                                   IF imminent THEN 90 ELSE 80)
    <3>1. ~Moments!Finished(d)
      BY <1>5, <1>7 DEF Recommendations!Release
    <3>2. m \in Moments!ReleaseWindow(d, ref)
      BY Zenon, <1>1, <2>1, <3>1 DEF Moments!ReleaseWindow
    <3>3. r.action = "create_release_post" /\ r.priority = "high"
      BY <1>2, <1>3, <1>7, <2>1 DEF Recommendations!Release, Recommendations!Urgent
    <3>4. m \in Moments!Detected(d, ref) /\ m.type = "release_window"
      BY <3>2 DEF Moments!Detected
    <3> HIDE DEF m
    <3>5. QED
      BY <1>6, <3>3, <3>4
  <2>2. CASE ~InReleaseWindow(d, ref, Moments!RELEASE_WINDOW_DAYS)
    BY <1>2, <1>3, <1>7, <2>2 DEF Recommendations!Release, Recommendations!Urgent
  <2>3. QED
    BY <2>1, <2>2
<1>8. CASE r \in Recommendations!Milestone(d)
  <2> DEFINE m(severity, confidence) ==
               Moments!Moment("milestone_reached", severity, confidence)
  <2>1. ~Moments!Finished(d)
    BY <1>5, <1>8 DEF Recommendations!Milestone
  <2>2. \E confidence \in {85, 80, 65} :
          m(r.priority, confidence) \in Moments!MilestoneReached(d)
    <3>1. CASE MilestoneAchieved(d)
      <4>1. r.priority = "high"
        BY <1>2, <1>8, <3>1 DEF Recommendations!Milestone
      <4>2. m("high", 85) \in Moments!MilestoneReached(d)
        BY <1>1, <2>1, <3>1 DEF Moments!MilestoneReached
      <4>3. QED
        BY <4>1, <4>2
    <3>2. CASE ~MilestoneAchieved(d) /\ CampaignType(d) = "milestone_campaign"
      <4>1. r.priority = "high"
        BY <1>2, <1>8, <3>2 DEF Recommendations!Milestone
      <4>2. m("high", 80) \in Moments!MilestoneReached(d)
        BY <1>1, <2>1, <3>2 DEF Moments!MilestoneReached
      <4>3. QED
        BY <4>1, <4>2
    <3>3. CASE ~MilestoneAchieved(d) /\ CampaignType(d) # "milestone_campaign"
      <4>1. r.priority = "medium" /\ Clamped(d, "total") >= 1000
        BY <1>2, <1>8, <3>3
        DEF Recommendations!Milestone, Recommendations!MILESTONE_CLICKS_THRESHOLD
      <4>2. m("medium", 65) \in Moments!MilestoneReached(d)
        BY <1>1, <2>1, <3>3, <4>1
        DEF Moments!MilestoneReached, Moments!MILESTONE_CLICKS_THRESHOLD
      <4>3. QED
        BY <4>1, <4>2
    <3>4. QED
      BY <3>1, <3>2, <3>3
  <2>3. PICK confidence \in {85, 80, 65} :
          m(r.priority, confidence) \in Moments!MilestoneReached(d)
    BY <2>2
  <2>4. r.action = "create_milestone_post"
    BY <1>8 DEF Recommendations!Milestone
  <2>5. m(r.priority, confidence) \in Moments!Detected(d, ref)
    BY <2>3 DEF Moments!Detected
  <2>6. QED
    BY <1>6, <2>4, <2>5
<1>9. CASE r \in Recommendations!WeeklyGrowthPost(d)
  <2> DEFINE m == Moments!Moment("weekly_growth", "medium",
                              IF Moments!CampaignType(d) = "weekly_growth_campaign" THEN 75 ELSE 65)
  <2>1. /\ r.action = "create_weekly_growth_post" /\ r.priority = "medium"
        /\ CampaignType(d) = "weekly_growth_campaign" \/ Clamped(d, "last7") >= 20
    BY <1>2, <1>9 DEF Recommendations!WeeklyGrowthPost, Recommendations!WEEKLY_GROWTH_CLICKS_THRESHOLD
  <2>2. m \in Moments!WeeklyGrowth(d)
    BY <1>1, <2>1 DEF Moments!WeeklyGrowth, Moments!WEEKLY_GROWTH_CLICKS_THRESHOLD
  <2>3. m \in Moments!Detected(d, ref)
    BY Zenon, <2>2 DEF Moments!Detected
  <2>4. m.type = "weekly_growth" /\ m.severity = r.priority
    BY <2>1
  <2> HIDE DEF m
  <2>5. QED
    BY <1>6, <2>1, <2>3, <2>4
<1>10. CASE r \in Recommendations!MediaKit(d)
  <2> DEFINE m == Moments!Moment("media_kit_missing",
                              Moments!HighIf(Moments!CampaignType(d) = "media_campaign"), 70)
  <2>1. /\ r.action = "create_media_kit"
        /\ r.priority = IF CampaignType(d) = "media_campaign" THEN "high" ELSE "medium"
    BY <1>2, <1>10 DEF Recommendations!MediaKit, Recommendations!Urgent
  <2>2. /\ d.campaign # NULL /\ ~HasUsableMediaKit(d)
        /\ Status(d) = "draft" => CampaignType(d) = "media_campaign"
    BY <1>2, <1>10 DEF Recommendations!MediaKit
  <2>3. m \in Moments!MediaKitMissing(d)
    BY Zenon, <1>1, <2>2 DEF Moments!MediaKitMissing
  <2>4. m \in Moments!Detected(d, ref)
    BY Zenon, <2>3 DEF Moments!Detected
  <2>5. m.type = "media_kit_missing" /\ m.severity = r.priority
    BY <1>1, <2>1 DEF Moments!HighIf
  <2> HIDE DEF m
  <2>6. QED
    BY <1>6, <2>1, <2>4, <2>5
<1>11. CASE r \in Recommendations!Report(d, ref)
  <2> DEFINE m == Moments!Moment("report_due", "medium", 70)
  <2>1. r.action = "create_report" /\ r.priority = "medium"
    BY <1>11 DEF Recommendations!Report
  <2>2. /\ Status(d) \in {"active", "completed", "paused"}
        /\ ~HasRecentCompletedReport(d, ref)
        /\ CompletedOutputs(d) # {} \/ HasActivity(d) \/ Status(d) = "completed"
    BY <1>2, <1>11 DEF Recommendations!Report
  <2>3. m \in Moments!ReportDue(d, ref)
    BY Zenon, <1>1, <2>2 DEF Moments!ReportDue
  <2>4. m \in Moments!Detected(d, ref)
    BY Zenon, <2>3 DEF Moments!Detected
  <2>5. m.type = "report_due" /\ m.severity = r.priority
    BY <2>1
  <2> HIDE DEF m
  <2>6. QED
    BY <1>6, <2>1, <2>4, <2>5
<1>12. CASE r \in Recommendations!Story(d)
  <2> DEFINE m == Moments!Moment("smart_link_activity", "low", 70)
  <2>1. r.action = "create_story" /\ r.priority = "low"
    BY <1>12 DEF Recommendations!Story
  <2>2. Moments!WeeklyGrowth(d) = {} /\ HasActivity(d)
    BY <1>1, <1>2, <1>12
    DEF Recommendations!Story, Recommendations!WeeklyGrowthPost, Moments!WeeklyGrowth,
        Recommendations!WEEKLY_GROWTH_CLICKS_THRESHOLD, Moments!WEEKLY_GROWTH_CLICKS_THRESHOLD
  <2>3. m \in Moments!SmartLinkActivity(d)
    BY Zenon, <1>1, <2>2 DEF Moments!SmartLinkActivity
  <2>4. m \in Moments!Detected(d, ref)
    BY Zenon, <2>3 DEF Moments!Detected
  <2>5. m.type = "smart_link_activity" /\ m.severity = r.priority
    BY <2>1
  <2> HIDE DEF m
  <2>6. QED
    BY <1>6, <2>1, <2>4, <2>5
<1>13. CASE r \in Recommendations!ImproveSmartLink(d)
  <2> DEFINE m == Moments!Moment("low_engagement", Moments!HighIf(Moments!Status(d) = "active"), 75)
  <2>1. /\ r.action = "improve_smart_link"
        /\ r.priority = IF Status(d) = "active" THEN "high" ELSE "medium"
    BY <1>2, <1>13 DEF Recommendations!ImproveSmartLink, Recommendations!Urgent
  <2>2. d.stats # NULL /\ ~HasActivity(d)
    BY <1>2, <1>13 DEF Recommendations!ImproveSmartLink
  <2>3. m \in Moments!LowEngagement(d)
    BY Zenon, <1>1, <2>2 DEF Moments!LowEngagement
  <2>4. m \in Moments!Detected(d, ref)
    BY Zenon, <2>3 DEF Moments!Detected
  <2>5. m.type = "low_engagement" /\ m.severity = r.priority
    BY <1>1, <2>1 DEF Moments!HighIf
  <2> HIDE DEF m
  <2>6. QED
    BY <1>6, <2>1, <2>4, <2>5
<1>14. QED
  BY <1>7, <1>8, <1>9, <1>10, <1>11, <1>12, <1>13 DEF Recommendations!Triggered

LEMMA AdviceAnswersMoments ==
    ASSUME NEW d \in Bundles, NEW raw,
           NEW r \in Range(Run(d, raw, {}).recommendations)
    PROVE  \/ r.action \in {"no_action", "wait_for_more_data"}
           \/ \E m \in Range(Run(d, raw, {}).moments) : Answers(r, m)
           \/ r.action = "create_release_post" /\ r.priority = "medium"
<1> DEFINE ref == ParseReference(raw)
           advice == Recommendations!Recommend(d, raw).recommendations
           known == Recommendations!Scoring!Known(Recommendations!Scoring!Score(d, raw).scores)
<1>1. /\ Run(d, raw, {}).recommendations = advice
      /\ Run(d, raw, {}).moments = Moments!Detect(d, raw).moments
  BY WholeAnswer
<1>2. Moments!ParseReference(raw) = ref /\ Recommendations!ParseReference(raw) = ref
  BY MomentsReads, RecommendationsReads
<1>3. CASE known = {}
  <2>1. advice = <<Recommendations!WAIT_FOR_MORE_DATA>>
    BY <1>3 DEF Recommendations!Recommend
  <2>2. r = Recommendations!WAIT_FOR_MORE_DATA
    BY <1>1, <2>1 DEF Range
  <2>3. QED
    BY <2>2 DEF Recommendations!WAIT_FOR_MORE_DATA, Recommendations!Recommendation
<1>4. CASE known # {}
  <2>1. ~Moments!IsInsufficient(d)
    BY <1>4, NothingKnown, MomentsReads
  <2>2. Range(Moments!Detect(d, raw).moments) = Moments!Detected(d, ref)
    BY <1>2, <2>1, SeenAreDetected
  <2>3. CASE Recommendations!Triggered(d, ref) = {}
    <3>1. advice = <<Recommendations!NO_ACTION>>
      BY <1>2, <1>4, <2>3, AdvisedAreTriggered
    <3>2. r = Recommendations!NO_ACTION
      BY <1>1, <3>1 DEF Range
    <3>3. QED
      BY <3>2 DEF Recommendations!NO_ACTION, Recommendations!Recommendation
  <2>4. CASE Recommendations!Triggered(d, ref) # {}
    <3>1. r \in Recommendations!Triggered(d, ref)
      BY <1>1, <1>2, <1>4, <2>4, AdvisedAreTriggered
    <3>2. QED
      BY <1>1, <2>2, <3>1, TriggeredHasMoment
  <2>5. QED
    BY <2>3, <2>4
<1>5. QED
  BY <1>3, <1>4

-----------------------------------------------------------------------------
(* No action *)

\* Of a campaign with counters, where the recommendations are silent no moment is urgent.
LEMMA NothingTriggered ==
    ASSUME NEW d \in Bundles, NEW ref, d.campaign # NULL, d.stats # NULL,
           Recommendations!Triggered(d, ref) = {}
    PROVE  /\ HasActivity(d)
           /\ \A m \in Moments!Detected(d, ref) : m.severity # "high"
<1>1. /\ \A days : Moments!InReleaseWindow(d, ref, days) = InReleaseWindow(d, ref, days)
      /\ Moments!Status(d) = Status(d)
      /\ Moments!CampaignType(d) = CampaignType(d)
      /\ Moments!HasActivity(d) = HasActivity(d)
      /\ Moments!CompletedOutputs(d) = CompletedOutputs(d)
      /\ Moments!HasUsableMediaKit(d) = HasUsableMediaKit(d)
      /\ Moments!MilestoneAchieved(d) = MilestoneAchieved(d)
  BY MomentsReads
<1>2. /\ \A days : Recommendations!InReleaseWindow(d, ref, days) = InReleaseWindow(d, ref, days)
      /\ Recommendations!Status(d) = Status(d)
      /\ Recommendations!CampaignType(d) = CampaignType(d)
      /\ Recommendations!HasActivity(d) = HasActivity(d)
      /\ Recommendations!HasUsableMediaKit(d) = HasUsableMediaKit(d)
      /\ Recommendations!MilestoneAchieved(d) = MilestoneAchieved(d)
  BY RecommendationsReads
<1>3. /\ Recommendations!Release(d, ref) = {} /\ Recommendations!Milestone(d) = {}
      /\ Recommendations!WeeklyGrowthPost(d) = {} /\ Recommendations!MediaKit(d) = {}
      /\ Recommendations!Story(d) = {} /\ Recommendations!ImproveSmartLink(d) = {}
  BY Zenon DEF Recommendations!Triggered
<1>4. Recommendations!Running(d) <=> ~Moments!Finished(d)
  BY <1>1, <1>2
  DEF Recommendations!Running, Moments!Finished, Recommendations!FINISHED_CAMPAIGN_STATUSES,
      Moments!FINISHED_CAMPAIGN_STATUSES
<1>5. HasActivity(d)
  BY Zenon, <1>2, <1>3 DEF Recommendations!ImproveSmartLink
<1>6. Status(d) # "active"
  BY Zenon, <1>2, <1>3, <1>5 DEF Recommendations!Story
<1>7. \A m \in Moments!ReleaseWindow(d, ref) : m.severity # "high"
  <2>1. ~Moments!Finished(d) => ~InReleaseWindow(d, ref, 14)
    BY Zenon, <1>2, <1>3, <1>4
    DEF Recommendations!Release, Recommendations!RELEASE_WINDOW_DAYS
  <2>2. QED
    BY <1>1, <2>1 DEF Moments!ReleaseWindow, Moments!RELEASE_WINDOW_DAYS
<1>8. \A m \in Moments!MilestoneReached(d) : m.severity # "high"
  BY <1>1, <1>2, <1>3, <1>4
  DEF Moments!MilestoneReached, Recommendations!Milestone, Moments!Moment
<1>9. Moments!LowEngagement(d) = {}
  BY <1>1, <1>5 DEF Moments!LowEngagement
<1>10. \A m \in Moments!ContentGap(d, ref) : m.severity # "high"
  BY <1>1, <1>6 DEF Moments!ContentGap, Moments!Moment, Moments!HighIf
<1>11. Moments!MediaKitMissing(d) = {}
  <2>1. ~(/\ ~HasUsableMediaKit(d)
          /\ Status(d) # "draft" \/ CampaignType(d) = "media_campaign")
    BY Zenon, <1>2, <1>3 DEF Recommendations!MediaKit
  <2>2. QED
    BY <1>1, <2>1 DEF Moments!MediaKitMissing
<1>12. /\ \A m \in Moments!WeeklyGrowth(d) : m.severity # "high"
       /\ \A m \in Moments!ReportDue(d, ref) : m.severity # "high"
       /\ \A m \in Moments!SmartLinkActivity(d) : m.severity # "high"
  BY DEF Moments!WeeklyGrowth, Moments!ReportDue, Moments!SmartLinkActivity, Moments!Moment
<1>13. QED
  BY <1>5, <1>7, <1>8, <1>9, <1>10, <1>11, <1>12 DEF Moments!Detected

LEMMA NoActionNothingUrgent ==
    ASSUME NEW d \in Bundles, NEW raw, d.campaign # NULL, d.stats # NULL,
           Range(Run(d, raw, {}).recommendations) # {},
           \A r \in Range(Run(d, raw, {}).recommendations) : r.action = "no_action"
    PROVE  /\ Run(d, raw, {}).health # "critical"
           /\ \A m \in Range(Run(d, raw, {}).moments) : m.severity # "high"
<1> DEFINE ref == ParseReference(raw)
           advice == Recommendations!Recommend(d, raw).recommendations
           known == Recommendations!Scoring!Known(Recommendations!Scoring!Score(d, raw).scores)
<1>1. /\ Run(d, raw, {}).recommendations = advice
      /\ Run(d, raw, {}).moments = Moments!Detect(d, raw).moments
      /\ Run(d, raw, {}).health = Analysis!Analyse(d, raw).health
  BY WholeAnswer
<1>2. Moments!ParseReference(raw) = ref /\ Recommendations!ParseReference(raw) = ref
  BY MomentsReads, RecommendationsReads
<1>3. known # {}
  <2>1. SUFFICES ASSUME known = {} PROVE FALSE
    OBVIOUS
  <2>2. advice = <<Recommendations!WAIT_FOR_MORE_DATA>>
    BY <2>1 DEF Recommendations!Recommend
  <2>3. Recommendations!WAIT_FOR_MORE_DATA \in Range(advice)
    BY <2>2 DEF Range
  <2>4. Recommendations!WAIT_FOR_MORE_DATA.action = "wait_for_more_data"
    BY DEF Recommendations!WAIT_FOR_MORE_DATA, Recommendations!Recommendation
  <2> HIDE DEF advice
  <2>5. QED
    BY <1>1, <2>3, <2>4
<1>4. Recommendations!Triggered(d, ref) = {}
  <2>1. SUFFICES ASSUME Recommendations!Triggered(d, ref) # {} PROVE FALSE
    OBVIOUS
  <2>2. Range(advice) = Recommendations!Triggered(d, ref)
    BY <1>2, <1>3, <2>1, AdvisedAreTriggered
  <2>3. \A r \in Recommendations!Triggered(d, ref) : r.action # "no_action"
    BY AdviceFacts
  <2> HIDE DEF advice
  <2>4. QED
    BY <1>1, <2>1, <2>2, <2>3
<1>5. /\ HasActivity(d)
      /\ \A m \in Moments!Detected(d, ref) : m.severity # "high"
  BY <1>4, NothingTriggered
<1>6. ~Moments!IsInsufficient(d)
  BY <1>3, NothingKnown, MomentsReads
<1>7. Range(Moments!Detect(d, raw).moments) = Moments!Detected(d, ref)
  BY <1>2, <1>6, SeenAreDetected
<1>8. Analysis!Analyse(d, raw).health # "critical"
  BY <1>5, HealthFacts
<1>9. QED
  BY <1>1, <1>5, <1>7, <1>8

-----------------------------------------------------------------------------
(* The warnings *)

LEMMA AnalysisNames ==
    ASSUME NEW d, NEW raw
    PROVE  LET analysis == Analysis!Analyse(d, raw)
           IN  /\ analysis.health \in {"unknown", "critical", "warning", "good"}
               /\ analysis.health = "unknown" => "insufficient_data" \in analysis.warnings
               /\ \A stage \in Stages : UNAVAILABLE[stage] \notin analysis.warnings
<1>1. \A signals : Analysis!DeriveHealth(signals) \in {"critical", "warning", "good"}
  BY DEF Analysis!DeriveHealth
<1>2. /\ \A stage \in Stages : UNAVAILABLE[stage] \notin Analysis!DateWarnings(raw)
      /\ \A stage \in Stages : UNAVAILABLE[stage] \notin Analysis!ConsistencyWarnings(d)
      /\ \A ref : \A stage \in Stages : UNAVAILABLE[stage] \notin Analysis!FutureWarnings(d, ref)
  BY DEF Stages, UNAVAILABLE, Analysis!DateWarnings, Analysis!ConsistencyWarnings,
         Analysis!FutureWarnings
<1>3. \A stage \in Stages : UNAVAILABLE[stage] \notin {"insufficient_data", "smart_link_stats_missing"}
  BY DEF Stages, UNAVAILABLE
<1>4. CASE Analysis!IsInsufficient(d)
  <2>1. Analysis!Analyse(d, raw)
          = [health |-> "unknown", signals |-> {},
             warnings |-> Analysis!DateWarnings(raw) \cup {"insufficient_data"}]
    BY <1>4 DEF Analysis!Analyse, Analysis!NoAnalysis
  <2>2. QED
    BY <1>2, <1>3, <2>1
<1>5. CASE ~Analysis!IsInsufficient(d)
  <2> DEFINE ref == Analysis!ParseReference(raw)
  <2>1. /\ Analysis!Analyse(d, raw).health = Analysis!DeriveHealth(Analysis!Signals(d, ref))
        /\ Analysis!Analyse(d, raw).warnings
             = Analysis!DateWarnings(raw) \cup Analysis!ConsistencyWarnings(d)
                  \cup Analysis!FutureWarnings(d, ref)
                  \cup {code \in {"smart_link_stats_missing"} : d.stats = NULL}
    BY <1>5 DEF Analysis!Analyse
  <2>2. Analysis!Analyse(d, raw).health \in {"critical", "warning", "good"}
    BY <1>1, <2>1
  <2>3. QED
    BY <1>2, <1>3, <2>1, <2>2
<1>6. QED
  BY <1>4, <1>5

ScoreNames == {"readiness", "momentum", "opportunity", "risk", "priority"}

LEMMA ScoringNames ==
    ASSUME NEW d, NEW raw
    PROVE  LET scoring == Scoring!Score(d, raw)
           IN  /\ DOMAIN scoring.scores = ScoreNames
               /\ \A key \in ScoreNames :
                     scoring.scores[key] = NULL => key \in scoring.warnings
               /\ scoring.grade = "unknown" => "grade" \in scoring.warnings
               /\ \A stage \in Stages : UNAVAILABLE[stage] \notin scoring.warnings
<1> DEFINE ref == Scoring!ParseReference(raw)
           parts == [readiness |-> Scoring!Readiness(d), momentum |-> Scoring!Momentum(d, ref),
                     opportunity |-> Scoring!ContentOpportunity(d, ref),
                     risk |-> Scoring!Risk(d, ref)]
           scores == [readiness |-> parts.readiness, momentum |-> parts.momentum,
                      opportunity |-> parts.opportunity, risk |-> parts.risk,
                      priority |-> Scoring!Priority(parts)]
           grade == Scoring!GradeOf(scores)
           codes == Scoring!DateWarnings(raw) \cup Scoring!ConsistencyWarnings(d)
                      \cup Scoring!FutureWarnings(d, ref)
           known == Scoring!Known(scores)
<1>1. /\ Scoring!Score(d, raw).scores = scores
      /\ Scoring!Score(d, raw).grade = grade
      /\ Scoring!Score(d, raw).warnings
           = codes \cup (DOMAIN scores \ known)
               \cup {code \in {"grade"} : grade = "unknown"}
               \cup {code \in {"insufficient_data"} : known = {}}
  BY Zenon DEF Scoring!Score
<1>2. DOMAIN scores = ScoreNames
  BY DEF ScoreNames
<1> HIDE DEF scores, grade
<1>3. known = {key \in ScoreNames : scores[key] # NULL}
  BY <1>2 DEF Scoring!Known
<1>4. \A stage \in Stages : UNAVAILABLE[stage] \notin codes
  <2>1. /\ \A stage \in Stages : UNAVAILABLE[stage] \notin Scoring!DateWarnings(raw)
        /\ \A stage \in Stages : UNAVAILABLE[stage] \notin Scoring!ConsistencyWarnings(d)
        /\ \A stage \in Stages : UNAVAILABLE[stage] \notin Scoring!FutureWarnings(d, ref)
    BY DEF Stages, UNAVAILABLE, Scoring!DateWarnings, Scoring!ConsistencyWarnings,
           Scoring!FutureWarnings
  <2>2. QED
    BY <2>1
<1>5. \A stage \in Stages :
        UNAVAILABLE[stage] \notin ScoreNames \cup {"grade", "insufficient_data"}
  BY DEF Stages, UNAVAILABLE, ScoreNames
<1> HIDE DEF codes, known
<1>6. QED
  BY <1>1, <1>2, <1>3, <1>4, <1>5

LEMMA MomentsNames ==
    ASSUME NEW d, NEW raw
    PROVE  \A stage \in Stages : UNAVAILABLE[stage] \notin Moments!Detect(d, raw).warnings
<1>1. \A stage \in Stages :
        UNAVAILABLE[stage] \notin Moments!DateWarnings(raw) \cup Moments!ConsistencyWarnings(d)
                                    \cup {"insufficient_data"}
  BY DEF Stages, UNAVAILABLE, Moments!DateWarnings, Moments!ConsistencyWarnings
<1> DEFINE codes == Moments!DateWarnings(raw) \cup Moments!ConsistencyWarnings(d)
<1>2. Moments!Detect(d, raw).warnings \in {codes, codes \cup {"insufficient_data"}}
  BY DEF Moments!Detect
<1>3. QED
  BY <1>1, <1>2

LEMMA AdviceNames ==
    ASSUME NEW d, NEW raw
    PROVE  /\ Recommendations!Recommend(d, raw).recommendations # <<>>
           /\ \A stage \in Stages :
                 UNAVAILABLE[stage] \notin Recommendations!Recommend(d, raw).warnings
<1> DEFINE scoring == Recommendations!Scoring!Score(d, raw)
           carried == scoring.warnings \cap Recommendations!CARRIED_WARNING_CODES
           advice == Recommendations!Recommend(d, raw)
           known == Recommendations!Scoring!Known(scoring.scores)
<1>1. \A stage \in Stages :
        UNAVAILABLE[stage] \notin Recommendations!CARRIED_WARNING_CODES \cup {"insufficient_data"}
  BY DEF Stages, UNAVAILABLE, Recommendations!CARRIED_WARNING_CODES
<1>2. advice.warnings \in {carried, carried \cup {"insufficient_data"}}
  BY DEF Recommendations!Recommend
<1>3. CASE known = {}
  BY <1>1, <1>2, <1>3 DEF Recommendations!Recommend
<1>4. CASE known # {}
  <2> DEFINE found == Recommendations!Triggered(d, Recommendations!ParseReference(raw))
  <2>1. /\ found = {} => advice.recommendations = <<Recommendations!NO_ACTION>>
        /\ found # {} => advice.recommendations # <<>>
    BY <1>4, AdvisedAreTriggered
  <2> HIDE DEF found, advice, carried
  <2>2. advice.recommendations # <<>>
    BY <2>1
  <2>3. advice.warnings \subseteq Recommendations!CARRIED_WARNING_CODES \cup {"insufficient_data"}
    BY <1>2 DEF carried
  <2>4. QED
    BY <1>1, <2>2, <2>3 DEF advice
<1>5. QED
  BY <1>3, <1>4

\* What GapsAreNamed says of an answer.
Named(result, failing) ==
    /\ result.health = "unknown" =>
          {"insufficient_data", "analysis_unavailable"} \cap result.warnings # {}
    /\ result.grade = "unknown" =>
          {"grade", "scoring_unavailable"} \cap result.warnings # {}
    /\ \A key \in DOMAIN result.scores : result.scores[key] = NULL =>
          {key, "scoring_unavailable"} \cap result.warnings # {}
    /\ result.recommendations = <<>> <=> "recommendations_unavailable" \in result.warnings
    /\ \A stage \in Stages :
          UNAVAILABLE[stage] \in result.warnings => stage \in Broken(failing)

LEMMA AnswersAreNamed ==
    ASSUME NEW d, NEW raw, NEW failing
    PROVE  Named(Run(d, raw, failing), failing)
<1> DEFINE analysis == Safe("analysis", failing, Analysis!Analyse(d, raw), Analysis!NoAnalysis)
           scoring == Safe("scoring", failing, Scoring!Score(d, raw), Scoring!NoScoring)
           moments == Safe("moments", failing, Moments!Detect(d, raw), Moments!NoMoments)
           advice == Safe("recommendations", failing, Recommendations!Recommend(d, raw),
                          Recommendations!NoRecommendations)
           result == Run(d, raw, failing)
           broken == Broken(failing)
<1>1. /\ result.health = analysis.health /\ result.scores = scoring.scores
      /\ result.grade = scoring.grade /\ result.recommendations = advice.recommendations
      /\ result.warnings = analysis.warnings \cup scoring.warnings \cup moments.warnings
                             \cup advice.warnings
  BY Zenon DEF Run
<1>2. \A s, t \in Stages : UNAVAILABLE[s] = UNAVAILABLE[t] => s = t
  BY DEF Stages, UNAVAILABLE
<1>3. /\ analysis.health = "unknown" =>
            {"insufficient_data", "analysis_unavailable"} \cap analysis.warnings # {}
      /\ \A stage \in Stages :
            UNAVAILABLE[stage] \in analysis.warnings => stage = "analysis" /\ stage \in broken
  <2>1. CASE "analysis" \in broken
    <3>1. analysis.warnings = {"analysis_unavailable"}
      BY <2>1 DEF Safe, Analysis!NoAnalysis, UNAVAILABLE
    <3>2. "analysis" \in Stages /\ UNAVAILABLE["analysis"] = "analysis_unavailable"
      BY DEF Stages, UNAVAILABLE
    <3> HIDE DEF analysis
    <3>3. QED
      BY <1>2, <2>1, <3>1, <3>2
  <2>2. CASE "analysis" \notin broken
    <3>1. analysis = Analysis!Analyse(d, raw)
      BY <2>2 DEF Safe
    <3>2. QED
      BY <3>1, AnalysisNames
  <2>3. QED
    BY <2>1, <2>2
<1>4. /\ scoring.grade = "unknown" =>
            {"grade", "scoring_unavailable"} \cap scoring.warnings # {}
      /\ \A key \in DOMAIN scoring.scores : scoring.scores[key] = NULL =>
            {key, "scoring_unavailable"} \cap scoring.warnings # {}
      /\ \A stage \in Stages :
            UNAVAILABLE[stage] \in scoring.warnings => stage = "scoring" /\ stage \in broken
  <2>1. CASE "scoring" \in broken
    <3>1. scoring.warnings = {"scoring_unavailable"}
      BY <2>1 DEF Safe, Scoring!NoScoring, UNAVAILABLE
    <3>2. "scoring" \in Stages /\ UNAVAILABLE["scoring"] = "scoring_unavailable"
      BY DEF Stages, UNAVAILABLE
    <3> HIDE DEF scoring
    <3>3. QED
      BY <1>2, <2>1, <3>1, <3>2
  <2>2. CASE "scoring" \notin broken
    <3>1. scoring = Scoring!Score(d, raw)
      BY <2>2 DEF Safe
    <3>2. QED
      BY <3>1, ScoringNames
  <2>3. QED
    BY <2>1, <2>2
<1>5. \A stage \in Stages :
        UNAVAILABLE[stage] \in moments.warnings => stage = "moments" /\ stage \in broken
  <2>1. CASE "moments" \in broken
    <3>1. moments.warnings = {"moments_unavailable"}
      BY <2>1 DEF Safe, Moments!NoMoments, UNAVAILABLE
    <3>2. "moments" \in Stages /\ UNAVAILABLE["moments"] = "moments_unavailable"
      BY DEF Stages, UNAVAILABLE
    <3> HIDE DEF moments
    <3>3. QED
      BY <1>2, <2>1, <3>1, <3>2
  <2>2. CASE "moments" \notin broken
    <3>1. moments = Moments!Detect(d, raw)
      BY <2>2 DEF Safe
    <3>2. QED
      BY <3>1, MomentsNames
  <2>3. QED
    BY <2>1, <2>2
<1>6. /\ advice.recommendations = <<>> <=> "recommendations" \in broken
      /\ "recommendations" \in broken => "recommendations_unavailable" \in advice.warnings
      /\ \A stage \in Stages :
            UNAVAILABLE[stage] \in advice.warnings => stage = "recommendations" /\ stage \in broken
  <2>1. CASE "recommendations" \in broken
    <3>1. /\ advice.warnings = {"recommendations_unavailable"}
          /\ advice.recommendations = <<>>
      BY <2>1 DEF Safe, Recommendations!NoRecommendations, UNAVAILABLE
    <3>2. /\ "recommendations" \in Stages
          /\ UNAVAILABLE["recommendations"] = "recommendations_unavailable"
      BY DEF Stages, UNAVAILABLE
    <3> HIDE DEF advice
    <3>3. QED
      BY <1>2, <2>1, <3>1, <3>2
  <2>2. CASE "recommendations" \notin broken
    <3>1. advice = Recommendations!Recommend(d, raw)
      BY <2>2 DEF Safe
    <3>2. QED
      BY <2>2, <3>1, AdviceNames
  <2>3. QED
    BY <2>1, <2>2
<1>7. /\ "recommendations" \in Stages
      /\ UNAVAILABLE["recommendations"] = "recommendations_unavailable"
  BY DEF Stages, UNAVAILABLE
<1> HIDE DEF analysis, scoring, moments, advice, result, broken
<1>8. result.health = "unknown" =>
        {"insufficient_data", "analysis_unavailable"} \cap result.warnings # {}
  BY <1>1, <1>3
<1>9. result.grade = "unknown" =>
        {"grade", "scoring_unavailable"} \cap result.warnings # {}
  BY <1>1, <1>4
<1>10. \A key \in DOMAIN result.scores : result.scores[key] = NULL =>
         {key, "scoring_unavailable"} \cap result.warnings # {}
  BY <1>1, <1>4
<1>11. result.recommendations = <<>> <=> "recommendations_unavailable" \in result.warnings
  BY <1>1, <1>3, <1>4, <1>5, <1>6, <1>7
<1>12. \A stage \in Stages : UNAVAILABLE[stage] \in result.warnings => stage \in broken
  BY <1>1, <1>3, <1>4, <1>5, <1>6
<1>13. QED
  BY <1>8, <1>9, <1>10, <1>11, <1>12 DEF Named, result, broken

-----------------------------------------------------------------------------
(* The scores are percentages *)

LEMMA ReadinessFacts ==
    ASSUME NEW d
    PROVE  /\ Scoring!Readiness(d) = NULL \/ Scoring!Readiness(d) \in 0 .. 100
           /\ Scoring!Readiness(d) = NULL => d.campaign = NULL
<1>1. \A condition : /\ Scoring!If(condition, 15) \in {0, 15}
                     /\ Scoring!If(condition, 20) \in {0, 20}
  BY DEF Scoring!If
<1> DEFINE s1 == Scoring!If(d.campaign.status \in Scoring!CampaignStatuses, 20)
           s2 == Scoring!If(d.artist, 15)
           s3 == Scoring!If(d.track # NULL, 15)
           s4 == Scoring!If(d.campaign.goal \/ d.goals # <<>>, 15)
           s5 == Scoring!If(d.campaign.start # NULL, 15)
           s6 == Scoring!If(Scoring!HasUsableMediaKit(d), 20)
<1>2. s1 \in {0, 20} /\ s2 \in {0, 15} /\ s3 \in {0, 15} /\ s4 \in {0, 15} /\ s5 \in {0, 15}
        /\ s6 \in {0, 20}
  BY <1>1
<1>3. Scoring!Readiness(d) = IF d.campaign = NULL THEN NULL ELSE s1 + s2 + s3 + s4 + s5 + s6
  BY Zenon DEF Scoring!Readiness
<1>4. NULL \notin Int
  BY DayAssumption
<1> HIDE DEF s1, s2, s3, s4, s5, s6
<1>5. QED
  BY <1>2, <1>3, <1>4

LEMMA SaturateFacts ==
    ASSUME NEW n \in Nat, NEW saturation \in Nat
    PROVE  Scoring!Saturate(n, saturation) = IF n <= saturation THEN n ELSE saturation
BY DEF Scoring!Saturate, Scoring!Min

LEMMA BundleFacts ==
    ASSUME NEW d \in Bundles
    PROVE  IsFiniteSet(CompletedOutputs(d)) /\ \A ref : IsFiniteSet(RecentOutputs(d, ref))
<1>1. d.outputs \in Seq(OutputSummary)
  BY DEF Bundles
<1>2. DOMAIN d.outputs = 1 .. Len(d.outputs) /\ Len(d.outputs) \in Nat
  BY <1>1
<1>3. IsFiniteSet(1 .. Len(d.outputs))
  <2>1. 1 \in Int /\ Len(d.outputs) \in Int
    BY <1>2
  <2>2. QED
    BY <2>1, FS_Interval
<1>4. CompletedOutputs(d) \subseteq 1 .. Len(d.outputs)
  BY <1>2 DEF CompletedOutputs
<1>5. \A ref : RecentOutputs(d, ref) \subseteq CompletedOutputs(d)
  BY DEF RecentOutputs
<1>6. IsFiniteSet(CompletedOutputs(d))
  BY <1>3, <1>4, FS_Subset
<1>7. QED
  BY <1>5, <1>6, FS_Subset

LEMMA RecentContentFacts ==
    ASSUME NEW d \in Bundles, NEW ref
    PROVE  Scoring!RecentContentValue(d, ref) \in 0 .. 2
<1>1. CASE ref = NULL
  BY <1>1 DEF Scoring!RecentContentValue, Scoring!If
<1>2. CASE ref # NULL
  <2>1. Scoring!RecentOutputs(d, ref) = RecentOutputs(d, ref)
    BY ScoringReads
  <2>2. Scoring!Cardinality(RecentOutputs(d, ref)) = Cardinality(RecentOutputs(d, ref))
    BY Zenon DEF Cardinality, Scoring!Cardinality
  <2>3. Cardinality(RecentOutputs(d, ref)) \in Nat
    BY BundleFacts, FS_CardinalityType
  <2>4. QED
    BY <1>2, <2>1, <2>2, <2>3, SaturateFacts
    DEF Scoring!RecentContentValue, Scoring!MOMENTUM_RECENT_OUTPUTS_SATURATION
<1>3. QED
  BY <1>1, <1>2

MomentumSum(d, ref) ==
    160 * Scoring!Saturate(Clamped(d, "last7"), 100)
      + 25 * Scoring!Saturate(Clamped(d, "last30"), 400)
      + 3 * Scoring!Saturate(Clamped(d, "total"), 2000)
      + 4000 * Scoring!RecentContentValue(d, ref)

LEMMA MomentumBound ==
    ASSUME NEW x \in Nat, x <= 100, NEW y \in Nat, y <= 400, NEW z \in Nat, z <= 2000,
           NEW t \in Nat, t <= 2
    PROVE  /\ 160 * x + 25 * y + 3 * z + 4000 * t \in Nat
           /\ 160 * x + 25 * y + 3 * z + 4000 * t <= 40000
OBVIOUS

LEMMA MomentumFacts ==
    ASSUME NEW d \in Bundles, NEW ref
    PROVE  /\ Scoring!Momentum(d, ref) = IF d.stats = NULL /\ d.outputs = <<>> THEN NULL
                                         ELSE Scoring!Round(MomentumSum(d, ref), 400)
           /\ MomentumSum(d, ref) \in Nat /\ MomentumSum(d, ref) <= 40000
           /\ Scoring!Momentum(d, ref) = NULL \/ Scoring!Momentum(d, ref) \in 0 .. 100
<1> DEFINE c7 == Scoring!Saturate(Clamped(d, "last7"), 100)
           c30 == Scoring!Saturate(Clamped(d, "last30"), 400)
           all == Scoring!Saturate(Clamped(d, "total"), 2000)
           recent == Scoring!RecentContentValue(d, ref)
<1>1. \A counter : Scoring!Clamped(d, counter) = Clamped(d, counter)
  BY ScoringReads
<1>2. /\ c7 \in Nat /\ c7 <= 100
      /\ c30 \in Nat /\ c30 <= 400
      /\ all \in Nat /\ all <= 2000
  <2>1. /\ Clamped(d, "last7") \in Nat /\ Clamped(d, "last30") \in Nat
        /\ Clamped(d, "total") \in Nat
    BY ClampedFacts
  <2>2. ASSUME NEW n \in Nat, NEW most \in Nat
        PROVE  Scoring!Saturate(n, most) \in Nat /\ Scoring!Saturate(n, most) <= most
    BY SaturateFacts
  <2> HIDE DEF c7, c30, all
  <2>3. c7 \in Nat /\ c7 <= 100
    BY <2>1, <2>2 DEF c7
  <2>4. c30 \in Nat /\ c30 <= 400
    <3>1. Clamped(d, "last30") \in Nat /\ 400 \in Nat
      BY <2>1
    <3>2. QED
      BY <2>2, <3>1 DEF c30
  <2>5. all \in Nat /\ all <= 2000
    <3>1. Clamped(d, "total") \in Nat /\ 2000 \in Nat
      BY <2>1
    <3>2. QED
      BY <2>2, <3>1 DEF all
  <2>6. QED
    BY <2>3, <2>4, <2>5
<1>3. recent \in Nat /\ recent <= 2
  BY RecentContentFacts
<1>4. MomentumSum(d, ref) = 160 * c7 + 25 * c30 + 3 * all + 4000 * recent
  BY Zenon DEF MomentumSum
<1>5. Scoring!Momentum(d, ref) = IF d.stats = NULL /\ d.outputs = <<>> THEN NULL
                                 ELSE Scoring!Round(MomentumSum(d, ref), 400)
  BY <1>1
  DEF Scoring!Momentum, MomentumSum, Scoring!MOMENTUM_CLICKS_7D_SATURATION,
      Scoring!MOMENTUM_CLICKS_30D_SATURATION, Scoring!MOMENTUM_TOTAL_CLICKS_SATURATION
<1> HIDE DEF c7, c30, all, recent
<1>6. MomentumSum(d, ref) \in Nat /\ MomentumSum(d, ref) <= 40000
  BY <1>2, <1>3, <1>4, MomentumBound
<1> HIDE DEF MomentumSum
<1>7. Scoring!Round(MomentumSum(d, ref), 400) \in 0 .. 100
  <2>1. 400 \in Denominators /\ MomentumSum(d, ref) \in Nat /\ MomentumSum(d, ref) <= 100 * 400
    BY <1>6 DEF Denominators
  <2>2. QED
    BY <2>1, RoundBounds
<1>8. QED
  BY <1>5, <1>6, <1>7

LEMMA OpportunityFacts ==
    ASSUME NEW d, NEW ref
    PROVE  \/ Scoring!ContentOpportunity(d, ref) = NULL
           \/ Scoring!ContentOpportunity(d, ref) \in 0 .. 100
<1> DEFINE gap == Scoring!ContentGapValue(d, ref)
           report == Scoring!If(~Scoring!HasRecentCompletedReport(d, ref), 2000)
           kit == Scoring!If(~Scoring!HasUsableMediaKit(d), 2000)
           timing == Scoring!TimingRelevance(d, ref)
           sum == 35 * gap + report + kit + 25 * timing
<1>1. gap \in 0 .. 100
  BY DEF Scoring!ContentGapValue
<1>2. report \in {0, 2000} /\ kit \in {0, 2000}
  BY DEF Scoring!If
<1>3. timing \in 0 .. 100
  BY DEF Scoring!TimingRelevance
<1>4. \/ Scoring!ContentOpportunity(d, ref) = NULL
      \/ Scoring!ContentOpportunity(d, ref) = Scoring!Round(sum, 100)
  BY DEF Scoring!ContentOpportunity
<1> HIDE DEF gap, report, kit, timing
<1>5. 100 \in Denominators /\ sum \in Nat /\ sum <= 100 * 100
  BY <1>1, <1>2, <1>3 DEF Denominators
<1> HIDE DEF sum
<1>6. Scoring!Round(sum, 100) \in 0 .. 100
  BY <1>5, RoundBounds
<1>7. QED
  BY <1>4, <1>6

-----------------------------------------------------------------------------
(* The composites *)

Part(weight, score) == IF score = NULL THEN 0 ELSE weight * score
Weight(weight, score) == IF score = NULL THEN 0 ELSE weight
Percentage == 0 .. 100 \cup {NULL}

LEMMA PartFacts ==
    ASSUME NEW weight \in Nat, NEW score \in Percentage
    PROVE  /\ Weight(weight, score) \in {0, weight}
           /\ Weight(weight, score) = weight <=> score # NULL \/ weight = 0
           /\ Part(weight, score) \in Nat
           /\ Part(weight, score) <= 100 * Weight(weight, score)
<1>1. CASE score = NULL
  BY <1>1 DEF Part, Weight
<1>2. CASE score # NULL
  <2>1. score \in 0 .. 100
    BY <1>2 DEF Percentage
  <2>2. weight * score \in Nat /\ weight * score <= 100 * weight
    BY <2>1
  <2>3. QED
    BY <1>2, <2>2 DEF Part, Weight
<1>3. QED
  BY <1>1, <1>2

LEMMA PriorityFacts ==
    ASSUME NEW r \in Percentage, NEW m \in Percentage, NEW o \in Percentage, NEW k \in Percentage
    PROVE  Scoring!Priority([readiness |-> r, momentum |-> m, opportunity |-> o, risk |-> k])
             \in Percentage
<1> DEFINE scores == [readiness |-> r, momentum |-> m, opportunity |-> o, risk |-> k]
           n == Part(20, r) + Part(25, m) + Part(35, o) + Part(20, k)
           w == Weight(20, r) + Weight(25, m) + Weight(35, o) + Weight(20, k)
<1>1. Scoring!Blend(Scoring!PRIORITY_WEIGHTS, scores) = Scoring!Round(n, w)
  BY DEF Scoring!Blend, Scoring!PRIORITY_WEIGHTS, Part, Weight
<1>2. CASE scores.readiness = NULL /\ m = NULL /\ o = NULL /\ k = NULL
  <2>1. Scoring!Known(scores) = {}
    BY <1>2 DEF Scoring!Known
  <2>2. Scoring!Cardinality({}) = 0
    <3>1. Scoring!Cardinality({}) = Cardinality({})
      BY Zenon DEF Cardinality, Scoring!Cardinality
    <3>2. QED
      BY <3>1, FS_EmptySet
  <2> HIDE DEF scores
  <2>3. Scoring!Priority(scores) = NULL
    BY <2>1, <2>2 DEF Scoring!Priority
  <2>4. QED
    BY <2>3 DEF Percentage, scores
<1>3. CASE ~(r = NULL /\ m = NULL /\ o = NULL /\ k = NULL)
  <2>1. /\ Weight(20, r) \in {0, 20} /\ Weight(25, m) \in {0, 25}
        /\ Weight(35, o) \in {0, 35} /\ Weight(20, k) \in {0, 20}
    BY PartFacts
  <2>2. \/ Weight(20, r) = 20 \/ Weight(25, m) = 25 \/ Weight(35, o) = 35 \/ Weight(20, k) = 20
    BY <1>3, PartFacts
  <2>3. w \in Denominators
    BY <2>1, <2>2 DEF Denominators
  <2>4. n \in Nat /\ n <= 100 * w
    <3>1. /\ Part(20, r) \in Nat /\ Part(20, r) <= 100 * Weight(20, r)
          /\ Part(25, m) \in Nat /\ Part(25, m) <= 100 * Weight(25, m)
          /\ Part(35, o) \in Nat /\ Part(35, o) <= 100 * Weight(35, o)
          /\ Part(20, k) \in Nat /\ Part(20, k) <= 100 * Weight(20, k)
      BY PartFacts
    <3>2. QED
      BY <2>1, <3>1
  <2> HIDE DEF n, w
  <2>5. Scoring!Round(n, w) \in 0 .. 100
    BY <2>3, <2>4, RoundBounds
  <2> HIDE DEF scores
  <2>6. Scoring!Priority(scores) \in {NULL, Scoring!Round(n, w)}
    BY <1>1 DEF Scoring!Priority
  <2>7. QED
    BY <2>5, <2>6 DEF Percentage, scores
<1>4. QED
  BY <1>2, <1>3

\* The standing of a campaign as the mean of what is known of it.
Inverted(score) == IF score = NULL THEN NULL ELSE 100 - score
StandingSum(r, m, k) == Part(35, r) + Part(35, m) + Part(30, Inverted(k))
StandingWeight(r, m, k) == Weight(35, r) + Weight(35, m) + Weight(30, Inverted(k))

LEMMA StandingFacts ==
    ASSUME NEW r \in Percentage, NEW m \in Percentage, NEW k \in Percentage,
           ~(r = NULL /\ m = NULL /\ k = NULL)
    PROVE  /\ StandingWeight(r, m, k) \in Denominators
           /\ StandingSum(r, m, k) \in Nat
           /\ StandingSum(r, m, k) <= 100 * StandingWeight(r, m, k)
<1>1. Inverted(k) \in Percentage /\ (Inverted(k) = NULL <=> k = NULL)
  BY DayAssumption DEF Inverted, Percentage
<1>2. /\ Weight(35, r) \in {0, 35} /\ Weight(35, m) \in {0, 35}
      /\ Weight(30, Inverted(k)) \in {0, 30}
      /\ Weight(35, r) = 35 \/ Weight(35, m) = 35 \/ Weight(30, Inverted(k)) = 30
  BY <1>1, PartFacts
<1>3. /\ Part(35, r) \in Nat /\ Part(35, r) <= 100 * Weight(35, r)
      /\ Part(35, m) \in Nat /\ Part(35, m) <= 100 * Weight(35, m)
      /\ Part(30, Inverted(k)) \in Nat
      /\ Part(30, Inverted(k)) <= 100 * Weight(30, Inverted(k))
  BY <1>1, PartFacts
<1>4. QED
  BY <1>2, <1>3 DEF StandingWeight, StandingSum, Denominators

LEMMA GradeFacts ==
    ASSUME NEW scores, NEW r \in Percentage, NEW m \in Percentage, NEW k \in Percentage,
           scores.readiness = r, scores.momentum = m, scores.risk = k
    PROVE  /\ r = NULL /\ m = NULL /\ k = NULL => Scoring!GradeOf(scores) = "unknown"
           /\ ~(r = NULL /\ m = NULL /\ k = NULL) =>
                /\ Scoring!Round(StandingSum(r, m, k), StandingWeight(r, m, k)) \in 0 .. 100
                /\ Scoring!GradeOf(scores)
                     = Scoring!GradeFor(Scoring!Round(StandingSum(r, m, k),
                                                      StandingWeight(r, m, k)))
<1> DEFINE standing == [readiness |-> r, momentum |-> m, opportunity |-> NULL,
                        risk |-> Inverted(k)]
           blend == Scoring!Round(StandingSum(r, m, k), StandingWeight(r, m, k))
<1>1. Inverted(k) = NULL <=> k = NULL
  BY DayAssumption DEF Inverted, Percentage
<1>2. Scoring!Known(standing) = {} <=> r = NULL /\ m = NULL /\ k = NULL
  BY <1>1 DEF Scoring!Known
<1>3. Scoring!Blend(Scoring!STANDING_WEIGHTS, standing) = blend
  <2> DEFINE a == Part(35, r)
             b == Part(35, m)
             c == Part(30, Inverted(k))
             u == Weight(35, r)
             v == Weight(35, m)
             w == Weight(30, Inverted(k))
  <2>1. Scoring!Blend(Scoring!STANDING_WEIGHTS, standing)
          = Scoring!Round(a + b + 0 + c, u + v + 0 + w)
    BY DEF Scoring!Blend, Scoring!STANDING_WEIGHTS, Part, Weight
  <2>2. a \in Nat /\ b \in Nat /\ c \in Nat /\ u \in Nat /\ v \in Nat /\ w \in Nat
    <3>1. Inverted(k) \in Percentage
      BY DEF Inverted, Percentage
    <3>2. QED
      BY <3>1, PartFacts
  <2> HIDE DEF a, b, c, u, v, w
  <2>3. a + b + 0 + c = a + b + c /\ u + v + 0 + w = u + v + w
    BY <2>2
  <2>4. QED
    BY <2>1, <2>3 DEF StandingSum, StandingWeight, a, b, c, u, v, w
<1>4. Scoring!GradeOf(scores)
        = IF Scoring!Known(standing) = {} THEN "unknown"
          ELSE Scoring!GradeFor(Scoring!Blend(Scoring!STANDING_WEIGHTS, standing))
  BY Zenon DEF Scoring!GradeOf, Inverted
<1>5. ~(r = NULL /\ m = NULL /\ k = NULL) => blend \in 0 .. 100
  BY StandingFacts, RoundBounds
<1> HIDE DEF standing
<1>6. QED
  BY <1>2, <1>3, <1>4, <1>5

-----------------------------------------------------------------------------
(* The types of an answer *)

LEMMA ScoreTypes ==
    ASSUME NEW d \in Bundles, NEW raw
    PROVE  LET scoring == Scoring!Score(d, raw)
           IN  /\ \A key \in DOMAIN scoring.scores : scoring.scores[key] \in Percentage
               /\ scoring.grade \in {"A", "B", "C", "D", "unknown"}
<1> DEFINE ref == Scoring!ParseReference(raw)
           r == Scoring!Readiness(d)
           m == Scoring!Momentum(d, ref)
           o == Scoring!ContentOpportunity(d, ref)
           k == Scoring!Risk(d, ref)
           parts == [readiness |-> r, momentum |-> m, opportunity |-> o, risk |-> k]
           scores == [readiness |-> r, momentum |-> m, opportunity |-> o, risk |-> k,
                      priority |-> Scoring!Priority(parts)]
<1>1. r \in Percentage /\ m \in Percentage /\ o \in Percentage /\ k \in Percentage
  BY ReadinessFacts, MomentumFacts, OpportunityFacts, RiskFacts DEF Percentage
<1>2. /\ Scoring!Score(d, raw).scores = scores
      /\ Scoring!Score(d, raw).grade = Scoring!GradeOf(scores)
  BY Zenon DEF Scoring!Score
<1> HIDE DEF r, m, o, k
<1>3. Scoring!Priority(parts) \in Percentage
  BY <1>1, PriorityFacts
<1>4. \A standing : Scoring!GradeFor(standing) \in {"A", "B", "C", "D"}
  BY DEF Scoring!GradeFor
<1>5. scores.readiness = r /\ scores.momentum = m /\ scores.risk = k
  OBVIOUS
<1>6. \A key \in DOMAIN scores : scores[key] \in Percentage
  BY <1>1, <1>3
<1> HIDE DEF scores
<1>7. Scoring!GradeOf(scores) \in {"A", "B", "C", "D", "unknown"}
  BY <1>1, <1>4, <1>5, GradeFacts
<1>8. QED
  BY <1>2, <1>6, <1>7

LEMMA AnswerTypes ==
    ASSUME NEW d \in Bundles, NEW raw, NEW failing
    PROVE  LET result == Run(d, raw, failing)
           IN  /\ \A key \in DOMAIN result.scores : result.scores[key] \in Scores
               /\ result.health \in {"unknown", "critical", "warning", "good"}
               /\ result.grade \in {"A", "B", "C", "D", "unknown"}
<1> DEFINE analysis == Safe("analysis", failing, Analysis!Analyse(d, raw), Analysis!NoAnalysis)
           scoring == Safe("scoring", failing, Scoring!Score(d, raw), Scoring!NoScoring)
<1>1. /\ Run(d, raw, failing).health = analysis.health
      /\ Run(d, raw, failing).scores = scoring.scores
      /\ Run(d, raw, failing).grade = scoring.grade
  BY Zenon DEF Run
<1>2. analysis.health \in {"unknown", Analysis!Analyse(d, raw).health}
  BY DEF Safe, Analysis!NoAnalysis
<1>3. \/ scoring = Scoring!Score(d, raw)
      \/ scoring.scores = Scoring!NoScores /\ scoring.grade = "unknown"
  BY DEF Safe, Scoring!NoScoring
<1>4. \A key \in DOMAIN Scoring!NoScores : Scoring!NoScores[key] = NULL
  BY DEF Scoring!NoScores
<1>5. Percentage = Scores
  BY DEF Percentage, Scores
<1> HIDE DEF analysis, scoring
<1>6. QED
  BY <1>1, <1>2, <1>3, <1>4, <1>5, AnalysisNames, ScoreTypes DEF Percentage

-----------------------------------------------------------------------------
(* The bundles that are asked about *)

LEMMA NewestFacts ==
    ASSUME NEW S, NEW rows \in Seq(S)
    PROVE  /\ Newest(rows) \in Seq(S)
           /\ \A i \in DOMAIN rows : i <= MaxItems =>
                 i \in DOMAIN Newest(rows) /\ Newest(rows)[i] = rows[i]
<1> DEFINE k == Min({MaxItems, Len(rows)})
<1>1. MaxItems \in Nat /\ Len(rows) \in Nat
  BY ItemAssumption
<1>2. k \in {MaxItems, Len(rows)} /\ k <= MaxItems /\ k <= Len(rows)
  BY <1>1, MinFacts
<1>3. \A i \in Nat : i <= MaxItems /\ i <= Len(rows) => i <= k
  BY <1>1, <1>2
<1> HIDE DEF k
<1>4. Newest(rows) = SubSeq(rows, 1, k)
  BY DEF Newest, k
<1>5. k \in Nat /\ k <= Len(rows)
  BY <1>1, <1>2
<1>6. /\ SubSeq(rows, 1, k) \in Seq(S)
      /\ Len(SubSeq(rows, 1, k)) = k
      /\ \A i \in 1 .. k : SubSeq(rows, 1, k)[i] = rows[i]
  BY <1>5
<1>7. QED
  BY <1>3, <1>4, <1>5, <1>6

LEMMA ClicksFromFacts ==
    ASSUME NEW clicks \in [Days -> Nat], NEW from
    PROVE  ClicksFrom(clicks, from) \in Nat
<1> DEFINE since == {day \in Days : from <= day}
<1>1. CASE since = {}
  BY <1>1 DEF ClicksFrom
<1>2. CASE since # {}
  <2>1. since \subseteq Nat
    BY DayAssumption
  <2>2. Min(since) \in since
    BY <1>2, <2>1, MinFacts
  <2>3. Min(since) \in Days
    BY <2>2
  <2>4. QED
    BY <1>2, <2>3 DEF ClicksFrom
<1>3. QED
  BY <1>1, <1>2

LEMMA PayloadFacts ==
    ASSUME NEW rows \in Rows, NEW ref
    PROVE  /\ Payload(rows, ref) \in Bundles
           /\ Payload(rows, ref).campaign # NULL
           /\ Payload(rows, ref).stats # NULL
           /\ Payload(rows, ref).stats \in
                 [total: Int, last7: Int, last30: Int, links: Int]
<1> DEFINE stats == SmartLinkStats(rows, ref)
<1>1. /\ rows.clicks \in [Days -> Nat] /\ rows.links \in {0, 1} /\ rows.campaign \in CampaignInfo
      /\ rows.artist = TRUE /\ rows.track \in TrackInfo
      /\ rows.outputs \in Seq(OutputSummary)
      /\ rows.reports \in Seq(ReportSummary)
      /\ rows.kits \in Seq(MediaKitStatuses) /\ rows.goals \in Seq(GoalSummary)
  BY DEF Rows
<1>2. stats \in [total: Int, last7: Int, last30: Int, links: Int]
  <2>1. \A from : ClicksFrom(rows.clicks, from) \in Nat
    BY <1>1, ClicksFromFacts
  <2>2. \A from, to : ClicksBetween(rows.clicks, from, to) \in Int
    BY <2>1 DEF ClicksBetween
  <2>3. QED
    BY <1>1, <2>1, <2>2 DEF SmartLinkStats
<1>3. stats \in Counts
  BY <1>2 DEF Counts, Number
<1>4. stats # NULL /\ rows.campaign # NULL
  BY <1>1, <1>3, AbsentAssumption
<1>5. /\ Newest(rows.outputs) \in Seq(OutputSummary)
      /\ Newest(rows.reports) \in Seq(ReportSummary)
      /\ Newest(rows.kits) \in Seq(MediaKitStatuses)
      /\ Newest(rows.goals) \in Seq(GoalSummary)
  BY <1>1, NewestFacts
<1> HIDE DEF stats
<1>6. Payload(rows, ref) =
        [campaign |-> rows.campaign, artist |-> rows.artist, track |-> rows.track,
         stats |-> stats, outputs |-> Newest(rows.outputs), reports |-> Newest(rows.reports),
         kits |-> Newest(rows.kits), goals |-> Newest(rows.goals)]
  BY Zenon DEF Payload, stats
<1>7. Payload(rows, ref) \in Bundles
  <2>1. /\ rows.artist \in BOOLEAN /\ rows.campaign \in CampaignInfo \cup {NULL}
        /\ rows.track \in TrackInfo \cup {NULL} /\ stats \in Counts \cup {NULL}
    BY <1>1, <1>3
  <2>2. QED
    BY <1>5, <1>6, <2>1 DEF Bundles
<1>8. QED
  BY <1>2, <1>4, <1>6, <1>7

LEMMA WithoutFacts ==
    ASSUME NEW d \in Bundles, NEW stats \in Counts, NEW omitted
    PROVE  Without([d EXCEPT !.stats = stats], omitted) \in Bundles
<1> DEFINE e == [d EXCEPT !.stats = stats]
           sections == {"campaign", "artist", "track", "stats", "outputs", "reports", "kits",
                        "goals"}
<1>1. e \in Bundles
  BY DEF Bundles
<1>2. DOMAIN e = sections
  BY <1>1 DEF Bundles
<1> HIDE DEF e
<1> DEFINE f == Without(e, omitted)
<1>3. f = [s \in sections |-> f[s]]
  BY <1>2 DEF Without
<1>4. /\ f["campaign"] \in {e.campaign, NULL} /\ f["artist"] \in {e.artist, FALSE}
      /\ f["track"] \in {e.track, NULL} /\ f["stats"] \in {e.stats, NULL}
      /\ f["outputs"] \in {e.outputs, <<>>} /\ f["reports"] \in {e.reports, <<>>}
      /\ f["kits"] \in {e.kits, <<>>} /\ f["goals"] \in {e.goals, <<>>}
  BY <1>2 DEF Without
<1> HIDE DEF f
<1>5. /\ f["campaign"] \in CampaignInfo \cup {NULL} /\ f["artist"] \in BOOLEAN
      /\ f["track"] \in TrackInfo \cup {NULL} /\ f["stats"] \in Counts \cup {NULL}
      /\ f["outputs"] \in Seq(OutputSummary)
      /\ f["reports"] \in Seq(ReportSummary)
      /\ f["kits"] \in Seq(MediaKitStatuses) /\ f["goals"] \in Seq(GoalSummary)
  <2>1. /\ e.campaign \in CampaignInfo \cup {NULL} /\ e.artist \in BOOLEAN
        /\ e.track \in TrackInfo \cup {NULL} /\ e.stats \in Counts \cup {NULL}
        /\ e.outputs \in Seq(OutputSummary)
        /\ e.reports \in Seq(ReportSummary)
        /\ e.kits \in Seq(MediaKitStatuses) /\ e.goals \in Seq(GoalSummary)
    BY <1>1 DEF Bundles
  <2>2. \A S : <<>> \in Seq(S)
    OBVIOUS
  <2>3. /\ f["outputs"] \in Seq(OutputSummary)
        /\ f["reports"] \in Seq(ReportSummary)
        /\ f["kits"] \in Seq(MediaKitStatuses) /\ f["goals"] \in Seq(GoalSummary)
    BY Zenon, <1>4, <2>1, <2>2
  <2>4. /\ f["campaign"] \in CampaignInfo \cup {NULL} /\ f["artist"] \in BOOLEAN
        /\ f["track"] \in TrackInfo \cup {NULL} /\ f["stats"] \in Counts \cup {NULL}
    BY <1>4, <2>1
  <2>5. QED
    BY <2>3, <2>4
<1>6. f \in Bundles
  BY <1>3, <1>5 DEF Bundles
<1>7. QED
  BY <1>6 DEF e, f

-----------------------------------------------------------------------------
(* The invariant *)

\* The rows are those of a campaign.
RowsOK == db \in Rows /\ today \in Days /\ events \in 0 .. MaxEvents

\* An answer is what the services say of what was asked, and what the Backend Core asks
\* about has its campaign and its counters.
AnswerOK ==
    answer # NULL =>
        /\ answer.data \in Bundles
        /\ answer.result = Run(answer.data, answer.raw, answer.failing)
        /\ answer.backend => answer.data.campaign # NULL /\ answer.data.stats # NULL

IInv == RowsOK /\ AnswerOK

LEMMA InitInvariant ==
    Init => IInv
<1> SUFFICES ASSUME Init PROVE IInv
  OBVIOUS
<1>1. PICK start \in Campaigns :
        db = [campaign |-> start.campaign, artist |-> TRUE,
              track |-> [release |-> start.release],
              clicks |-> [day \in Days |-> 0], links |-> 0,
              outputs |-> <<>>, reports |-> <<>>, kits |-> <<>>, goals |-> <<>>]
  BY DEF Init
<1>2. start.campaign \in CampaignInfo /\ start.release \in Number
  BY CampaignAssumption
<1>3. db \in Rows
  <2>1. \A S : <<>> \in Seq(S)
    OBVIOUS
  <2>2. /\ [release |-> start.release] \in TrackInfo
        /\ [day \in Days |-> 0] \in [Days -> Nat] /\ 0 \in {0, 1} /\ TRUE \in {TRUE}
    BY <1>2 DEF TrackInfo
  <2>3. QED
    BY <1>1, <1>2, <2>1, <2>2 DEF Rows
<1>4. today \in Days
  BY DayAssumption, MinFacts DEF Init
<1>5. events \in 0 .. MaxEvents
  BY EventAssumption DEF Init
<1>6. QED
  BY <1>3, <1>4, <1>5 DEF Init, IInv, RowsOK, AnswerOK

\* An event leaves rows.
LEMMA EventStep ==
    ASSUME IInv, NEW next \in Rows, Event(next)
    PROVE  IInv'
BY EventAssumption DEF IInv, RowsOK, AnswerOK, Event

LEMMA AskedStep ==
    ASSUME IInv, NEW d \in Bundles, NEW raw, NEW failing, NEW backend \in BOOLEAN,
           backend => d.campaign # NULL /\ d.stats # NULL,
           answer' = Asked(d, raw, failing, backend), UNCHANGED <<db, today, events>>
    PROVE  IInv'
<1>1. RowsOK'
  BY DEF IInv, RowsOK
<1>2. /\ answer'.data = d /\ answer'.raw = raw /\ answer'.failing = failing
      /\ answer'.backend = backend /\ answer'.result = Run(d, raw, failing)
  BY DEF Asked
<1>3. AnswerOK'
  BY <1>2 DEF AnswerOK
<1>4. QED
  BY <1>1, <1>3 DEF IInv

LEMMA NextInvariant ==
    IInv /\ [Next]_vars => IInv'
<1> SUFFICES ASSUME IInv, [Next]_vars PROVE IInv'
  OBVIOUS
<1>1. /\ db \in Rows /\ today \in Days
      /\ db.campaign \in CampaignInfo /\ db.clicks \in [Days -> Nat]
      /\ db.outputs \in Seq(OutputSummary)
      /\ db.reports \in Seq(ReportSummary)
      /\ db.kits \in Seq(MediaKitStatuses) /\ db.goals \in Seq(GoalSummary)
  BY DEF IInv, RowsOK, Rows
<1>2. today \in Number
  BY <1>1, DayAssumption DEF Number
<1>3. CASE SetStatus
  <2>1. PICK status \in CampaignStatuses : Event([db EXCEPT !.campaign.status = status])
    BY <1>3 DEF SetStatus
  <2>2. [db EXCEPT !.campaign.status = status] \in Rows
    BY <1>1 DEF Rows, CampaignInfo
  <2>3. QED
    BY <2>1, <2>2, EventStep
<1>4. CASE SetLinks
  <2>1. PICK links \in {0, 1} : Event([db EXCEPT !.links = links])
    BY <1>4 DEF SetLinks
  <2>2. [db EXCEPT !.links = links] \in Rows
    BY <1>1 DEF Rows
  <2>3. QED
    BY <2>1, <2>2, EventStep
<1>5. CASE VisitLink
  <2>1. PICK n \in Visits :
          Event([db EXCEPT !.clicks =
                    [day \in Days |-> @[day] + IF day <= today THEN n ELSE 0]])
    BY <1>5 DEF VisitLink
  <2> DEFINE clicks == [day \in Days |-> db.clicks[day] + IF day <= today THEN n ELSE 0]
  <2>2. clicks \in [Days -> Nat]
    BY <1>1, EventAssumption
  <2> HIDE DEF clicks
  <2>3. [db EXCEPT !.clicks = clicks] \in Rows
    BY <1>1, <2>2 DEF Rows
  <2>4. Event([db EXCEPT !.clicks = clicks])
    BY <2>1 DEF clicks
  <2>5. QED
    BY <2>3, <2>4, EventStep
<1>6. CASE AddOutput
  <2>1. PICK status \in {"completed", "failed"} :
          Event([db EXCEPT !.outputs = <<[status |-> status, created |-> today]>> \o @])
    BY <1>6 DEF AddOutput
  <2> DEFINE rows == <<[status |-> status, created |-> today]>> \o db.outputs
  <2>2. rows \in Seq(OutputSummary)
    <3>1. [status |-> status, created |-> today] \in OutputSummary
      BY <1>2 DEF OutputSummary, OutputStatuses
    <3>2. QED
      BY <1>1, <3>1
  <2> HIDE DEF rows
  <2>3. [db EXCEPT !.outputs = rows] \in Rows
    BY <1>1, <2>2 DEF Rows
  <2>4. Event([db EXCEPT !.outputs = rows])
    BY <2>1 DEF rows
  <2>5. QED
    BY <2>3, <2>4, EventStep
<1>7. CASE AddReport
  <2>1. PICK period_end \in {today, NULL} :
          Event([db EXCEPT !.reports =
                    <<[status |-> "queued", period_end |-> period_end]>> \o @])
    BY <1>7 DEF AddReport
  <2> DEFINE rows == <<[status |-> "queued", period_end |-> period_end]>> \o db.reports
  <2>2. rows \in Seq(ReportSummary)
    <3>1. [status |-> "queued", period_end |-> period_end] \in ReportSummary
      BY <1>2 DEF ReportSummary, ReportStatuses, Number
    <3>2. QED
      BY <1>1, <3>1
  <2> HIDE DEF rows
  <2>3. [db EXCEPT !.reports = rows] \in Rows
    BY <1>1, <2>2 DEF Rows
  <2>4. Event([db EXCEPT !.reports = rows])
    BY <2>1 DEF rows
  <2>5. QED
    BY <2>3, <2>4, EventStep
<1>8. CASE FinishReport
  <2>1. PICK i \in DOMAIN db.reports : Event([db EXCEPT !.reports[i].status = "completed"])
    BY <1>8 DEF FinishReport
  <2> DEFINE rows == [db.reports EXCEPT ![i].status = "completed"]
  <2>2. rows \in Seq(ReportSummary)
    <3>1. db.reports[i] \in ReportSummary
      BY <1>1
    <3>2. [db.reports[i] EXCEPT !.status = "completed"] \in ReportSummary
      BY <3>1 DEF ReportSummary, ReportStatuses
    <3>3. QED
      BY <1>1, <3>2
  <2> HIDE DEF rows
  <2>3. [db EXCEPT !.reports = rows] \in Rows
    BY <1>1, <2>2 DEF Rows
  <2>4. Event([db EXCEPT !.reports = rows])
    BY <2>1 DEF rows
  <2>5. QED
    BY <2>3, <2>4, EventStep
<1>9. CASE AddKit
  <2> DEFINE rows == <<"draft">> \o db.kits
  <2>1. rows \in Seq(MediaKitStatuses)
    <3>1. "draft" \in MediaKitStatuses
      BY DEF MediaKitStatuses
    <3>2. QED
      BY <1>1, <3>1
  <2> HIDE DEF rows
  <2>2. [db EXCEPT !.kits = rows] \in Rows
    BY <1>1, <2>1 DEF Rows
  <2>3. Event([db EXCEPT !.kits = rows])
    BY <1>9 DEF AddKit, rows
  <2>4. QED
    BY <2>2, <2>3, EventStep
<1>10. CASE \E i \in DOMAIN db.kits : GenerateKit(i)
  <2>1. PICK i \in DOMAIN db.kits : Event([db EXCEPT !.kits[i] = "generated"])
    BY <1>10 DEF GenerateKit
  <2> DEFINE rows == [db.kits EXCEPT ![i] = "generated"]
  <2>2. rows \in Seq(MediaKitStatuses)
    <3>1. "generated" \in MediaKitStatuses
      BY DEF MediaKitStatuses
    <3>2. QED
      BY <1>1, <3>1
  <2> HIDE DEF rows
  <2>3. [db EXCEPT !.kits = rows] \in Rows
    BY <1>1, <2>2 DEF Rows
  <2>4. Event([db EXCEPT !.kits = rows])
    BY <2>1 DEF rows
  <2>5. QED
    BY <2>3, <2>4, EventStep
<1>11. CASE AchieveGoal
  <2> DEFINE rows == <<[type |-> "milestone", status |-> "achieved"]>> \o db.goals
  <2>1. rows \in Seq(GoalSummary)
    <3>1. [type |-> "milestone", status |-> "achieved"] \in GoalSummary
      BY DEF GoalSummary, GoalTypes, GoalStatuses
    <3>2. QED
      BY <1>1, <3>1
  <2> HIDE DEF rows
  <2>2. [db EXCEPT !.goals = rows] \in Rows
    BY <1>1, <2>1 DEF Rows
  <2>3. Event([db EXCEPT !.goals = rows])
    BY <1>11 DEF AchieveGoal, rows
  <2>4. QED
    BY <2>2, <2>3, EventStep
<1>12. CASE NextDay
  <2> DEFINE later == {day \in Days : day > today}
  <2>1. later # {}
    <3>1. SUFFICES ASSUME later = {} PROVE FALSE
      OBVIOUS
    <3>2. \A day \in Days : today >= day
      BY <1>1, <3>1, DayAssumption
    <3>3. Max(Days) \in Days /\ \A day \in Days : Max(Days) >= day
      BY <1>1, <3>2 DEF Max
    <3>4. today = Max(Days)
      BY <1>1, <3>2, <3>3, DayAssumption
    <3>5. QED
      BY <1>12, <3>4 DEF NextDay
  <2>2. later \subseteq Nat
    BY DayAssumption
  <2>3. Min(later) \in Days
    BY <2>1, <2>2, MinFacts
  <2> HIDE DEF later
  <2>4. today' \in Days
    BY <1>12, <2>3 DEF NextDay, later
  <2>5. QED
    BY <1>12, <2>4 DEF NextDay, IInv, RowsOK, AnswerOK
<1>13. CASE Diagnose
  <2>1. PICK ref, failing :
          /\ answer' = Asked(Payload(db, ref), ref, failing, TRUE)
          /\ UNCHANGED <<db, today, events>>
    BY <1>13 DEF Diagnose
  <2>2. /\ Payload(db, ref) \in Bundles
        /\ Payload(db, ref).campaign # NULL /\ Payload(db, ref).stats # NULL
    BY <1>1, PayloadFacts
  <2>3. QED
    BY <2>1, <2>2, AskedStep
<1>14. CASE DiagnoseBundle
  <2> DEFINE d == Payload(db, today)
  <2>1. PICK omitted, raw :
          \E stats \in CountsSent(d) :
            /\ answer' = Asked(Without([d EXCEPT !.stats = stats], omitted), raw, {}, FALSE)
            /\ UNCHANGED <<db, today, events>>
    BY <1>14 DEF DiagnoseBundle
  <2>2. d \in Bundles /\ d.stats \in [total: Int, last7: Int, last30: Int, links: Int]
    BY <1>1, PayloadFacts
  <2> HIDE DEF d
  <2>3. PICK stats \in CountsSent(d) :
          /\ answer' = Asked(Without([d EXCEPT !.stats = stats], omitted), raw, {}, FALSE)
          /\ UNCHANGED <<db, today, events>>
    BY <2>1
  <2>4. stats \in Counts
    <3>1. CASE stats = d.stats
      BY <2>2, <3>1 DEF Counts, Number
    <3>2. CASE stats = [d.stats EXCEPT !.total = -1, !.last7 = NULL]
      <4>1. -1 \in Number /\ NULL \in Number /\ d.stats.last30 \in Number /\ d.stats.links \in Number
        BY <2>2 DEF Number
      <4>2. stats = [total |-> -1, last7 |-> NULL, last30 |-> d.stats.last30,
                     links |-> d.stats.links]
        BY <2>2, <3>2
      <4>3. QED
        BY <4>1, <4>2 DEF Counts
    <3>3. QED
      BY <3>1, <3>2 DEF CountsSent
  <2>5. Without([d EXCEPT !.stats = stats], omitted) \in Bundles
    BY <2>2, <2>4, WithoutFacts
  <2>6. QED
    BY <2>3, <2>5, AskedStep
<1>15. CASE Return
  BY <1>15 DEF Return, IInv, RowsOK, AnswerOK
<1>16. CASE UNCHANGED vars
  BY <1>16 DEF vars, IInv, RowsOK, AnswerOK
<1>17. QED
  BY <1>3, <1>4, <1>5, <1>6, <1>7, <1>8, <1>9, <1>10, <1>11, <1>12, <1>13, <1>14, <1>15, <1>16
  DEF Next

\* The rows are those of a campaign, and an answer under way is what the services say of
\* its bundle.
THEOREM Invariant ==
    Spec => []IInv
BY InitInvariant, NextInvariant, PTL DEF Spec

-----------------------------------------------------------------------------
(* What the answers say *)

\* Whatever the campaign, the clicks and the failures, the rows stay those of a campaign,
\* every score that is known is a percentage, and health and grade are of their vocabulary.
THEOREM TypeCorrect ==
    Spec => []TypeOK
<1>1. IInv => TypeOK
  BY AnswerTypes DEF IInv, RowsOK, AnswerOK, TypeOK
<1>2. QED
  BY <1>1, Invariant, PTL

\* The analysis and the score of risk never contradict one another.
THEOREM HealthCorrect ==
    Spec => []HealthBoundsRisk
<1>1. IInv => HealthBoundsRisk
  <2>1. SUFFICES ASSUME IInv, answer # NULL, Whole PROVE HealthBoundsRisk
    BY DEF HealthBoundsRisk
  <2>2. answer.data \in Bundles /\ answer.result = Run(answer.data, answer.raw, {})
    BY <2>1 DEF IInv, AnswerOK, Whole
  <2>3. QED
    BY <2>2, HealthAgreesWithRisk DEF HealthBoundsRisk, Result
<1>2. QED
  BY <1>1, Invariant, PTL

\* The moments and the recommendations, drawn by rules written twice, agree: whatever the
\* bundle, and so for the Backend Core and for every other caller.
THEOREM AdviceCorrect ==
    Spec => []AdviceHasMoment
<1>1. IInv => AdviceHasMoment
  <2>1. SUFFICES ASSUME IInv, answer # NULL, Whole PROVE AdviceHasMoment
    BY DEF AdviceHasMoment
  <2>2. answer.data \in Bundles /\ answer.result = Run(answer.data, answer.raw, {})
    BY <2>1 DEF IInv, AnswerOK, Whole
  <2>3. ASSUME NEW r \in Range(Result.recommendations)
        PROVE  \/ r.action \in {"no_action", "wait_for_more_data"}
               \/ \E m \in Range(Result.moments) : Answers(r, m)
               \/ r.action = "create_release_post" /\ r.priority = "medium"
    BY <2>2, AdviceAnswersMoments DEF Result
  <2>4. QED
    BY <2>3 DEF AdviceHasMoment, Seen, Answers
<1>2. QED
  BY <1>1, Invariant, PTL

\* "No action is needed" is said of no campaign that needs one.
THEOREM NoActionCorrect ==
    Spec => []NoActionMeansNothingUrgent
<1>1. IInv => NoActionMeansNothingUrgent
  <2>1. SUFFICES ASSUME IInv, answer # NULL, Whole, answer.backend, Advised = {"no_action"}
                 PROVE  NoActionMeansNothingUrgent
    BY DEF NoActionMeansNothingUrgent
  <2>2. /\ answer.data \in Bundles /\ answer.result = Run(answer.data, answer.raw, {})
        /\ answer.data.campaign # NULL /\ answer.data.stats # NULL
    BY <2>1 DEF IInv, AnswerOK, Whole
  <2>3. /\ Range(Result.recommendations) # {}
        /\ \A r \in Range(Result.recommendations) : r.action = "no_action"
    BY <2>1 DEF Advised, Range
  <2>4. QED
    BY <2>2, <2>3, NoActionNothingUrgent DEF NoActionMeansNothingUrgent, Result, Seen
<1>2. QED
  BY <1>1, Invariant, PTL

\* Whichever services raise, what an answer leaves out has its reason among the warnings.
THEOREM GapsCorrect ==
    Spec => []GapsAreNamed
<1>1. IInv => GapsAreNamed
  <2>1. SUFFICES ASSUME IInv, answer # NULL PROVE GapsAreNamed
    BY DEF GapsAreNamed
  <2>2. Named(answer.result, answer.failing)
    BY <2>1, AnswersAreNamed DEF IInv, AnswerOK
  <2>3. QED
    BY <2>2 DEF GapsAreNamed, Named, Result
<1>2. QED
  BY <1>1, Invariant, PTL

-----------------------------------------------------------------------------
(* Advice that was followed *)

\* Once a media kit among those the builder sends is generated, the engine advises none
\* any more, whatever reference date it is asked with.
THEOREM KitCorrect ==
    Spec => GeneratedKitEndsAdvice
<1> DEFINE P == (\E i \in DOMAIN db.kits : i <= MaxItems /\ GenerateKit(i)) =>
                  \A ref \in Days :
                    "create_media_kit" \notin
                      {r.action : r \in Recommendations!Triggered(Payload(db', ref), ref)}
<1>1. IInv /\ [Next]_vars => P
  <2>1. SUFFICES ASSUME IInv, NEW i \in DOMAIN db.kits, i <= MaxItems, GenerateKit(i),
                        NEW ref \in Days,
                        NEW r \in Recommendations!Triggered(Payload(db', ref), ref)
                 PROVE  r.action # "create_media_kit"
    OBVIOUS
  <2>2. db \in Rows /\ db.kits \in Seq(MediaKitStatuses)
    BY <2>1 DEF IInv, RowsOK, Rows
  <2>3. db' = [db EXCEPT !.kits[i] = "generated"]
    BY <2>1 DEF GenerateKit, Event
  <2>4. db'.kits = [db.kits EXCEPT ![i] = "generated"]
    BY <2>2, <2>3 DEF Rows
  <2>5. db'.kits \in Seq(MediaKitStatuses) /\ i \in DOMAIN db'.kits /\ db'.kits[i] = "generated"
    <3>1. "generated" \in MediaKitStatuses
      BY DEF MediaKitStatuses
    <3>2. QED
      BY <2>1, <2>2, <2>4, <3>1
  <2>6. i \in DOMAIN Newest(db'.kits) /\ Newest(db'.kits)[i] = "generated"
    BY <2>1, <2>5, NewestFacts
  <2> DEFINE d == Payload(db', ref)
  <2>7. "generated" \in Range(d.kits)
    BY <2>6 DEF Payload, Range
  <2> HIDE DEF d
  <2>8. HasUsableMediaKit(d)
    BY <2>7 DEF HasUsableMediaKit, USABLE_MEDIA_KIT_STATUSES
  <2>9. Recommendations!MediaKit(d) = {}
    BY <2>8, RecommendationsReads DEF Recommendations!MediaKit
  <2>10. PICK n \in 1 .. 7 : r \in AdviceRules(d, ref)[n]
    BY <2>1 DEF Recommendations!Triggered, AdviceRules, d
  <2>11. n # 1
    BY <2>9, <2>10 DEF AdviceRules
  <2>12. r.action = Recommendations!ActionOrder[n]
    BY <2>10, AdviceRulesFacts
  <2>13. QED
    BY <2>11, <2>12 DEF Recommendations!ActionOrder
<1>2. QED
  BY <1>1, Invariant, PTL DEF Spec, GeneratedKitEndsAdvice

-----------------------------------------------------------------------------
(* More clicks *)

Sent == [total: Int, last7: Int, last30: Int, links: Int]

\* A bundle that differs in its counters alone, none of which is lower.
Busier(d, e) ==
    /\ d.stats \in Sent /\ e.stats \in Sent
    /\ \A counter \in {"total", "last7", "last30", "links"} : d.stats[counter] <= e.stats[counter]
    /\ e.stats.links = d.stats.links
    /\ e = [d EXCEPT !.stats = e.stats]

LEMMA BusierReads ==
    ASSUME NEW d \in Bundles, NEW e \in Bundles, Busier(d, e), NEW ref
    PROVE  /\ d.stats # NULL /\ e.stats # NULL
           /\ e.campaign = d.campaign /\ e.artist = d.artist /\ e.track = d.track
           /\ e.outputs = d.outputs /\ e.reports = d.reports /\ e.kits = d.kits
           /\ e.goals = d.goals
           /\ CompletedOutputs(e) = CompletedOutputs(d)
           /\ RecentOutputs(e, ref) = RecentOutputs(d, ref)
           /\ Status(e) = Status(d)
           /\ \A counter \in {"total", "last7", "last30", "links"} :
                 Clamped(d, counter) <= Clamped(e, counter)
           /\ Clamped(e, "links") = Clamped(d, "links")
           /\ HasActivity(d) => HasActivity(e)
           /\ HasNegative(e) => HasNegative(d)
<1>1. d.stats \in Sent /\ e.stats \in Sent /\ NULL \notin Int
  BY DayAssumption DEF Busier
<1>2. d.stats # NULL /\ e.stats # NULL
  <2>1. d.stats \in Counts /\ e.stats \in Counts
    BY <1>1 DEF Sent, Counts, Number
  <2>2. QED
    BY <2>1, AbsentAssumption
<1>3. /\ e.campaign = d.campaign /\ e.artist = d.artist /\ e.track = d.track
      /\ e.outputs = d.outputs /\ e.reports = d.reports /\ e.kits = d.kits
      /\ e.goals = d.goals
  BY DEF Busier, Bundles
<1>4. \A counter \in {"total", "last7", "last30", "links"} :
        /\ d.stats[counter] \in Int /\ e.stats[counter] \in Int
        /\ d.stats[counter] <= e.stats[counter]
  BY <1>1 DEF Sent, Busier
<1>5. ASSUME NEW counter \in {"total", "last7", "last30", "links"}
      PROVE  /\ Clamped(d, counter) = IF d.stats[counter] > 0 THEN d.stats[counter] ELSE 0
             /\ Clamped(e, counter) = IF e.stats[counter] > 0 THEN e.stats[counter] ELSE 0
  BY <1>1, <1>2, <1>4, MaxOfTwo DEF Clamped
<1>6. \A counter \in {"total", "last7", "last30", "links"} :
        Clamped(d, counter) <= Clamped(e, counter)
  BY <1>4, <1>5
<1>7. Clamped(e, "links") = Clamped(d, "links")
  BY <1>5 DEF Busier
<1>8. CompletedOutputs(e) = CompletedOutputs(d) /\ Status(e) = Status(d)
  BY <1>3 DEF CompletedOutputs, Status
<1>9. RecentOutputs(e, ref) = RecentOutputs(d, ref)
  BY <1>3, <1>8 DEF RecentOutputs
<1>10. HasActivity(d) => HasActivity(e)
  <2>1. \A counter \in {"total", "last7", "last30", "links"} :
           /\ Clamped(d, counter) \in Nat /\ Clamped(e, counter) \in Nat
    BY ClampedFacts
  <2>2. QED
    BY <1>6, <2>1, ActivityFacts
<1>11. HasNegative(e) => HasNegative(d)
  <2>1. /\ Counters(d.stats) = {d.stats.total, d.stats.last7, d.stats.last30, d.stats.links}
        /\ Counters(e.stats) = {e.stats.total, e.stats.last7, e.stats.last30, e.stats.links}
    BY <1>1, <1>4 DEF Counters
  <2>2. /\ d.stats.total <= e.stats.total /\ d.stats.last7 <= e.stats.last7
        /\ d.stats.last30 <= e.stats.last30 /\ d.stats.links <= e.stats.links
    BY <1>4
  <2>3. /\ d.stats.total \in Int /\ d.stats.last7 \in Int /\ d.stats.last30 \in Int
        /\ d.stats.links \in Int /\ e.stats.total \in Int /\ e.stats.last7 \in Int
        /\ e.stats.last30 \in Int /\ e.stats.links \in Int
    BY <1>4
  <2>4. QED
    BY <1>2, <2>1, <2>2, <2>3 DEF HasNegative
<1>12. QED
  BY <1>2, <1>3, <1>6, <1>7, <1>8, <1>9, <1>10, <1>11

LEMMA BusierMomentum ==
    ASSUME NEW d \in Bundles, NEW e \in Bundles, Busier(d, e), NEW ref
    PROVE  /\ Scoring!Momentum(d, ref) \in 0 .. 100 /\ Scoring!Momentum(e, ref) \in 0 .. 100
           /\ Scoring!Momentum(d, ref) <= Scoring!Momentum(e, ref)
<1> DEFINE S(n, most) == Scoring!Saturate(n, most)
<1>1. d.stats # NULL /\ e.stats # NULL
  BY BusierReads
<1>2. Scoring!RecentContentValue(e, ref) = Scoring!RecentContentValue(d, ref)
  <2>1. /\ CompletedOutputs(e) = CompletedOutputs(d)
        /\ RecentOutputs(e, ref) = RecentOutputs(d, ref)
    BY BusierReads
  <2>2. /\ Scoring!CompletedOutputs(e) = Scoring!CompletedOutputs(d)
        /\ Scoring!RecentOutputs(e, ref) = Scoring!RecentOutputs(d, ref)
    BY <2>1, ScoringReads
  <2>3. QED
    BY <2>2 DEF Scoring!RecentContentValue
<1>3. ASSUME NEW m \in Nat, NEW n \in Nat, m <= n, NEW most \in Nat
      PROVE  S(m, most) \in Nat /\ S(n, most) \in Nat /\ S(m, most) <= S(n, most)
  BY <1>3, SaturateFacts
<1>4. ASSUME NEW counter \in {"last7", "last30", "total"}, NEW most \in Nat
      PROVE  /\ S(Clamped(d, counter), most) \in Nat /\ S(Clamped(e, counter), most) \in Nat
             /\ S(Clamped(d, counter), most) <= S(Clamped(e, counter), most)
  <2>1. /\ Clamped(d, counter) \in Nat /\ Clamped(e, counter) \in Nat
        /\ Clamped(d, counter) <= Clamped(e, counter)
    BY BusierReads, ClampedFacts
  <2>2. QED
    BY <1>3, <2>1
<1> HIDE DEF S
<1> DEFINE a == S(Clamped(d, "last7"), 100)
           b == S(Clamped(d, "last30"), 400)
           c == S(Clamped(d, "total"), 2000)
           x == S(Clamped(e, "last7"), 100)
           y == S(Clamped(e, "last30"), 400)
           z == S(Clamped(e, "total"), 2000)
           recent == Scoring!RecentContentValue(d, ref)
<1>5. a \in Nat /\ x \in Nat /\ a <= x
  <2>1. 100 \in Nat
    OBVIOUS
  <2>2. QED
    BY <1>4, <2>1
<1>6. b \in Nat /\ y \in Nat /\ b <= y
  <2>1. 400 \in Nat
    OBVIOUS
  <2>2. QED
    BY <1>4, <2>1
<1>7. c \in Nat /\ z \in Nat /\ c <= z
  <2>1. 2000 \in Nat
    OBVIOUS
  <2>2. QED
    BY <1>4, <2>1
<1>8. recent \in Nat
  BY RecentContentFacts
<1>9. /\ MomentumSum(d, ref) = 160 * a + 25 * b + 3 * c + 4000 * recent
      /\ MomentumSum(e, ref) = 160 * x + 25 * y + 3 * z + 4000 * recent
  BY <1>2 DEF MomentumSum, S
<1> HIDE DEF a, b, c, x, y, z, recent
<1>10. MomentumSum(d, ref) <= MomentumSum(e, ref)
  BY <1>5, <1>6, <1>7, <1>8, <1>9
<1>11. /\ Scoring!Momentum(d, ref) = Scoring!Round(MomentumSum(d, ref), 400)
       /\ Scoring!Momentum(e, ref) = Scoring!Round(MomentumSum(e, ref), 400)
       /\ MomentumSum(d, ref) \in Nat /\ MomentumSum(e, ref) \in Nat
       /\ MomentumSum(d, ref) <= 40000 /\ MomentumSum(e, ref) <= 40000
  BY <1>1, MomentumFacts
<1>12. 400 \in Denominators /\ 40000 = 100 * 400
  BY DEF Denominators
<1>13. /\ Scoring!Round(MomentumSum(d, ref), 400) \in 0 .. 100
       /\ Scoring!Round(MomentumSum(e, ref), 400) \in 0 .. 100
  BY <1>11, <1>12, RoundBounds
<1>14. Scoring!Round(MomentumSum(d, ref), 400) <= Scoring!Round(MomentumSum(e, ref), 400)
  BY <1>10, <1>11, <1>12, RoundMonotone
<1>15. QED
  BY <1>11, <1>13, <1>14

LEMMA BusierRisk ==
    ASSUME NEW d \in Bundles, NEW e \in Bundles, Busier(d, e), NEW ref
    PROVE  /\ Scoring!Risk(d, ref) \in 0 .. 100 /\ Scoring!Risk(e, ref) \in 0 .. 100
           /\ Scoring!Risk(e, ref) <= Scoring!Risk(d, ref)
<1>1. /\ d.stats # NULL /\ e.stats # NULL /\ e.campaign = d.campaign
      /\ Status(e) = Status(d) /\ CompletedOutputs(e) = CompletedOutputs(d)
      /\ HasActivity(d) => HasActivity(e)
      /\ HasNegative(e) => HasNegative(d)
  BY BusierReads
<1>2. /\ Scoring!Status(e) = Scoring!Status(d)
      /\ Scoring!CompletedOutputs(e) = Scoring!CompletedOutputs(d)
      /\ Scoring!HasActivity(d) => Scoring!HasActivity(e)
      /\ Scoring!HasNegative(e) => Scoring!HasNegative(d)
  BY <1>1, ScoringReads
<1>3. /\ Scoring!IsOverdue(e, ref) <=> Scoring!IsOverdue(d, ref)
      /\ Scoring!InconsistentDates(e) <=> Scoring!InconsistentDates(d)
  BY <1>1, <1>2 DEF Scoring!IsOverdue, Scoring!InconsistentDates
<1>4. Scoring!HasQualityIssues(e) => Scoring!HasQualityIssues(d)
  BY <1>2, <1>3 DEF Scoring!HasQualityIssues
<1>5. /\ Scoring!LinkInactivityValue(d) \in {0, 10, 20}
      /\ Scoring!LinkInactivityValue(e) \in {0, 10, 20}
  BY InactivityFacts
<1>6. Scoring!LinkInactivityValue(e) <= Scoring!LinkInactivityValue(d)
  <2>1. \A counter : /\ Scoring!Clamped(d, counter) = Clamped(d, counter)
                     /\ Scoring!Clamped(e, counter) = Clamped(e, counter)
    BY ScoringReads
  <2>2. \A counter \in {"total", "last7", "last30", "links"} :
          Clamped(d, counter) \in Nat /\ Clamped(e, counter) \in Nat
    BY ClampedFacts
  <2>3. /\ \A counter \in {"total", "last7", "last30", "links"} :
             Clamped(d, counter) <= Clamped(e, counter)
        /\ Clamped(e, "links") = Clamped(d, "links")
    BY BusierReads
  <2>4. QED
    BY <1>1, <2>1, <2>2, <2>3 DEF Scoring!LinkInactivityValue
<1> DEFINE idle == Scoring!Status(d) = "active" /\ Scoring!CompletedOutputs(d) = {}
           A == Scoring!If(idle /\ ~Scoring!HasActivity(d), 35)
           B == Scoring!If(idle /\ ~Scoring!HasActivity(e), 35)
           C == Scoring!If(idle, 15)
           D == Scoring!If(Scoring!IsOverdue(d, ref), 15)
           E == Scoring!If(Scoring!HasQualityIssues(d), 15)
           F == Scoring!If(Scoring!HasQualityIssues(e), 15)
           G == Scoring!If(Scoring!IsOverdue(e, ref), 15)
<1>7. A \in {0, 35} /\ B \in {0, 35} /\ B <= A
  BY <1>2 DEF Scoring!If
<1>8. C \in {0, 15} /\ D \in {0, 15} /\ G = D
  BY <1>3 DEF Scoring!If
<1>9. E \in {0, 15} /\ F \in {0, 15} /\ F <= E
  BY <1>4 DEF Scoring!If
<1>10. Scoring!Risk(d, ref) = A + Scoring!LinkInactivityValue(d) + C + D + E
  BY <1>1 DEF Scoring!Risk
<1>11. Scoring!Risk(e, ref) = B + Scoring!LinkInactivityValue(e) + C + G + F
  BY <1>1, <1>2 DEF Scoring!Risk
<1> HIDE DEF A, B, C, D, E, F, G
<1>12. QED
  BY <1>5, <1>6, <1>7, <1>8, <1>9, <1>10, <1>11

LEMMA GradeOrder ==
    ASSUME NEW m \in 0 .. 100, NEW n \in 0 .. 100, m <= n
    PROVE  Worth(Scoring!GradeFor(m)) <= Worth(Scoring!GradeFor(n))
BY DEF Scoring!GradeFor, Worth

LEMMA ScoreFields ==
    ASSUME NEW d, NEW raw
    PROVE  LET scoring == Scoring!Score(d, raw)
               ref == Scoring!ParseReference(raw)
           IN  /\ scoring.scores.readiness = Scoring!Readiness(d)
               /\ scoring.scores.momentum = Scoring!Momentum(d, ref)
               /\ scoring.scores.risk = Scoring!Risk(d, ref)
               /\ scoring.grade = Scoring!GradeOf(scoring.scores)
<1> DEFINE ref == Scoring!ParseReference(raw)
           r == Scoring!Readiness(d)
           m == Scoring!Momentum(d, ref)
           o == Scoring!ContentOpportunity(d, ref)
           k == Scoring!Risk(d, ref)
           p == Scoring!Priority([readiness |-> r, momentum |-> m, opportunity |-> o,
                                  risk |-> k])
           scores == [readiness |-> r, momentum |-> m, opportunity |-> o, risk |-> k,
                      priority |-> p]
<1>1. /\ Scoring!Score(d, raw).scores = scores
      /\ Scoring!Score(d, raw).grade = Scoring!GradeOf(scores)
  BY Zenon DEF Scoring!Score
<1> HIDE DEF r, m, o, k, p
<1>2. scores.readiness = r /\ scores.momentum = m /\ scores.risk = k
  OBVIOUS
<1> HIDE DEF scores
<1>3. QED
  BY <1>1, <1>2 DEF r, m, k

LEMMA BusierScore ==
    ASSUME NEW d \in Bundles, NEW e \in Bundles, Busier(d, e), NEW raw
    PROVE  LET old == Scoring!Score(d, raw)
               new == Scoring!Score(e, raw)
           IN  /\ new.scores.momentum >= old.scores.momentum
               /\ new.scores.risk <= old.scores.risk
               /\ Worth(new.grade) >= Worth(old.grade)
<1> DEFINE ref == Scoring!ParseReference(raw)
           old == Scoring!Score(d, raw)
           new == Scoring!Score(e, raw)
           r == Scoring!Readiness(d)
           m == Scoring!Momentum(d, ref)
           k == Scoring!Risk(d, ref)
           n == Scoring!Momentum(e, ref)
           l == Scoring!Risk(e, ref)
<1>1. m \in 0 .. 100 /\ n \in 0 .. 100 /\ m <= n
  BY BusierMomentum
<1>2. k \in 0 .. 100 /\ l \in 0 .. 100 /\ l <= k
  BY BusierRisk
<1>3. Scoring!Readiness(e) = r
  <2>1. /\ e.campaign = d.campaign /\ e.artist = d.artist /\ e.track = d.track
        /\ e.goals = d.goals /\ e.kits = d.kits
    BY BusierReads
  <2>2. Scoring!HasUsableMediaKit(e) = Scoring!HasUsableMediaKit(d)
    BY Zenon, <2>1 DEF Scoring!HasUsableMediaKit
  <2> HIDE DEF r
  <2>3. Scoring!Readiness(e) = Scoring!Readiness(d)
    BY <2>1, <2>2 DEF Scoring!Readiness
  <2>4. QED
    BY <2>3 DEF r
<1>4. r \in Percentage
  BY ReadinessFacts DEF Percentage
<1>5. /\ old.scores.readiness = r /\ old.scores.momentum = m /\ old.scores.risk = k
      /\ old.grade = Scoring!GradeOf(old.scores)
      /\ new.scores.readiness = r /\ new.scores.momentum = n /\ new.scores.risk = l
      /\ new.grade = Scoring!GradeOf(new.scores)
  <2>1. /\ old.scores.readiness = r /\ old.scores.momentum = m /\ old.scores.risk = k
        /\ old.grade = Scoring!GradeOf(old.scores)
    BY ScoreFields
  <2>2. /\ new.scores.readiness = Scoring!Readiness(e) /\ new.scores.momentum = n
        /\ new.scores.risk = l /\ new.grade = Scoring!GradeOf(new.scores)
    BY ScoreFields
  <2> HIDE DEF old, new, r, m, k, n, l
  <2>3. QED
    BY <1>3, <2>1, <2>2
<1>6. /\ m \in Percentage /\ n \in Percentage /\ k \in Percentage /\ l \in Percentage
      /\ m # NULL /\ n # NULL /\ k # NULL /\ l # NULL
  BY <1>1, <1>2, DayAssumption DEF Percentage
<1> HIDE DEF old, new, r, m, k, n, l
<1> DEFINE before == Scoring!Round(StandingSum(r, m, k), StandingWeight(r, m, k))
           after == Scoring!Round(StandingSum(r, n, l), StandingWeight(r, n, l))
<1>7. /\ before \in 0 .. 100 /\ old.grade = Scoring!GradeFor(before)
      /\ after \in 0 .. 100 /\ new.grade = Scoring!GradeFor(after)
  BY <1>4, <1>5, <1>6, GradeFacts
<1>8. /\ StandingWeight(r, n, l) = StandingWeight(r, m, k)
      /\ StandingSum(r, m, k) <= StandingSum(r, n, l)
  <2>1. Inverted(k) = 100 - k /\ Inverted(l) = 100 - l
    BY <1>6 DEF Inverted
  <2>2. 100 - k \in 0 .. 100 /\ 100 - l \in 0 .. 100 /\ 100 - k # NULL /\ 100 - l # NULL
    BY <1>2, DayAssumption
  <2>3. /\ Part(35, m) = 35 * m /\ Part(35, n) = 35 * n
        /\ Part(30, Inverted(k)) = 30 * (100 - k) /\ Part(30, Inverted(l)) = 30 * (100 - l)
    BY <1>6, <2>1, <2>2 DEF Part
  <2>4. /\ Weight(35, m) = 35 /\ Weight(35, n) = 35
        /\ Weight(30, Inverted(k)) = 30 /\ Weight(30, Inverted(l)) = 30
    BY <1>6, <2>1, <2>2 DEF Weight
  <2>5. Part(35, r) \in Nat
    BY <1>4, PartFacts
  <2>6. StandingWeight(r, n, l) = StandingWeight(r, m, k)
    BY <2>4 DEF StandingWeight
  <2>7. /\ StandingSum(r, m, k) = Part(35, r) + 35 * m + 30 * (100 - k)
        /\ StandingSum(r, n, l) = Part(35, r) + 35 * n + 30 * (100 - l)
    BY <2>3 DEF StandingSum
  <2>8. QED
    BY <1>1, <1>2, <2>5, <2>6, <2>7
<1>9. before <= after
  <2>1. /\ StandingWeight(r, m, k) \in Denominators
        /\ StandingSum(r, m, k) \in Nat /\ StandingSum(r, n, l) \in Nat
    BY <1>4, <1>6, StandingFacts
  <2>2. QED
    BY <1>8, <2>1, RoundMonotone
<1> HIDE DEF before, after
<1>10. Worth(Scoring!GradeFor(before)) <= Worth(Scoring!GradeFor(after))
  BY <1>7, <1>9, GradeOrder
<1>11. Worth(Scoring!GradeFor(before)) \in Int /\ Worth(Scoring!GradeFor(after)) \in Int
  BY DEF Worth
<1>12. QED
  BY <1>1, <1>2, <1>5, <1>7, <1>10, <1>11 DEF old, new

\* A visit adds to the clicks of every day up to today: what it adds to those from a day
\* on is no more for a later day.
LEMMA VisitClicks ==
    ASSUME NEW clicks \in [Days -> Nat], NEW day \in Days, NEW n \in Nat,
           NEW from \in Int, NEW to \in Int, from <= to
    PROVE  LET more == [x \in Days |-> clicks[x] + IF x <= day THEN n ELSE 0]
               gained(x) == ClicksFrom(more, x) - ClicksFrom(clicks, x)
           IN  /\ gained(from) >= 0
               /\ gained(from) >= gained(to)
<1> DEFINE more == [x \in Days |-> clicks[x] + IF x <= day THEN n ELSE 0]
           since(x) == {y \in Days : x <= y}
           gained(x) == ClicksFrom(more, x) - ClicksFrom(clicks, x)
<1>1. Days \subseteq Nat
  BY DayAssumption
<1>2. ASSUME NEW x \in Int
      PROVE  /\ since(x) = {} => gained(x) = 0
             /\ since(x) # {} => /\ Min(since(x)) \in Days
                                 /\ gained(x) = IF Min(since(x)) <= day THEN n ELSE 0
  <2>1. CASE since(x) = {}
    BY <2>1 DEF ClicksFrom
  <2>2. CASE since(x) # {}
    <3>1. Min(since(x)) \in Days
      <4>1. since(x) \subseteq Nat
        BY <1>1
      <4>2. Min(since(x)) \in since(x)
        BY <2>2, <4>1, MinFacts
      <4>3. QED
        BY <4>2
    <3>2. /\ ClicksFrom(more, x) = more[Min(since(x))]
          /\ ClicksFrom(clicks, x) = clicks[Min(since(x))]
      BY <2>2 DEF ClicksFrom
    <3>3. clicks[Min(since(x))] \in Nat
      BY <3>1
    <3> HIDE DEF since
    <3>4. gained(x) = IF Min(since(x)) <= day THEN n ELSE 0
      BY <3>1, <3>2, <3>3
    <3>5. QED
      BY <2>2, <3>1, <3>4
  <2>3. QED
    BY <2>1, <2>2
<1>3. since(to) \subseteq since(from)
  <2>1. \A y \in Days : to <= y => from <= y
    BY <1>1
  <2>2. QED
    BY <2>1
<1>4. since(to) # {} => Min(since(from)) <= Min(since(to))
  <2>1. SUFFICES ASSUME since(to) # {} PROVE Min(since(from)) <= Min(since(to))
    OBVIOUS
  <2>2. since(to) \subseteq Nat /\ since(from) \subseteq Nat
    BY <1>1
  <2> HIDE DEF since
  <2>3. Min(since(to)) \in since(from) /\ since(from) # {}
    BY <1>3, <2>1, <2>2, MinFacts
  <2>4. QED
    BY <2>2, <2>3, MinFacts
<1>5. day \in Nat
  BY <1>1
<1> HIDE DEF since, gained, more
<1>6. gained(from) >= 0
  BY <1>2
<1>7. gained(from) >= gained(to)
  <2>1. CASE since(to) = {}
    BY <1>2, <1>6, <2>1
  <2>2. CASE since(to) # {}
    <3>1. since(from) # {}
      BY <1>3, <2>2
    <3>2. Min(since(from)) \in Nat /\ Min(since(to)) \in Nat
      BY <1>1, <1>2, <2>2, <3>1
    <3>3. /\ gained(from) = IF Min(since(from)) <= day THEN n ELSE 0
          /\ gained(to) = IF Min(since(to)) <= day THEN n ELSE 0
      BY <1>2, <2>2, <3>1
    <3>4. QED
      BY <1>4, <1>5, <2>2, <3>2, <3>3
  <2>3. QED
    BY <2>1, <2>2
<1>8. QED
  BY <1>6, <1>7 DEF gained, more

LEMMA VisitPayload ==
    ASSUME NEW rows \in Rows, NEW day \in Days, NEW n \in Nat, NEW ref \in Int
    PROVE  LET more == [x \in Days |-> rows.clicks[x] + IF x <= day THEN n ELSE 0]
           IN  Busier(Payload(rows, ref), Payload([rows EXCEPT !.clicks = more], ref))
<1> DEFINE more == [x \in Days |-> rows.clicks[x] + IF x <= day THEN n ELSE 0]
           next == [rows EXCEPT !.clicks = more]
           d == Payload(rows, ref)
           e == Payload(next, ref)
<1>1. rows.clicks \in [Days -> Nat]
  BY DEF Rows
<1>2. more \in [Days -> Nat]
  <2>1. \A x \in Days : rows.clicks[x] \in Nat
    BY <1>1
  <2>2. QED
    BY <2>1
<1>3. \A from \in Int, to \in Int : from <= to =>
        /\ ClicksFrom(more, from) - ClicksFrom(rows.clicks, from) >= 0
        /\ ClicksFrom(more, from) - ClicksFrom(rows.clicks, from)
             >= ClicksFrom(more, to) - ClicksFrom(rows.clicks, to)
  BY <1>1, VisitClicks
<1>4. \A x : ClicksFrom(rows.clicks, x) \in Nat /\ ClicksFrom(more, x) \in Nat
  BY <1>1, <1>2, ClicksFromFacts
<1> HIDE DEF more
<1>5. next \in Rows
  BY <1>2 DEF Rows
<1>6. /\ next.clicks = more /\ next.links = rows.links /\ next.campaign = rows.campaign
      /\ next.artist = rows.artist /\ next.track = rows.track /\ next.outputs = rows.outputs
      /\ next.reports = rows.reports /\ next.kits = rows.kits /\ next.goals = rows.goals
  BY DEF Rows
<1> HIDE DEF next
<1>7. d.stats \in Sent /\ e.stats \in Sent
  BY <1>5, PayloadFacts DEF Sent
<1>8. /\ d.stats.total = ClicksFrom(rows.clicks, 0) /\ e.stats.total = ClicksFrom(more, 0)
      /\ d.stats.last7 = ClicksFrom(rows.clicks, ref - 7) - ClicksFrom(rows.clicks, ref + 1)
      /\ e.stats.last7 = ClicksFrom(more, ref - 7) - ClicksFrom(more, ref + 1)
      /\ d.stats.last30 = ClicksFrom(rows.clicks, ref - 30) - ClicksFrom(rows.clicks, ref + 1)
      /\ e.stats.last30 = ClicksFrom(more, ref - 30) - ClicksFrom(more, ref + 1)
      /\ d.stats.links = rows.links /\ e.stats.links = rows.links
  BY <1>6 DEF Payload, SmartLinkStats, ClicksBetween
<1>9. e = [d EXCEPT !.stats = e.stats]
  BY <1>6 DEF Payload
<1> HIDE DEF d, e
<1>10. d.stats.total <= e.stats.total
  <2>1. 0 \in Int /\ 0 <= 0
    OBVIOUS
  <2>2. QED
    BY <1>3, <1>4, <1>8, <2>1
<1>11. d.stats.last7 <= e.stats.last7
  <2>1. ref - 7 \in Int /\ ref + 1 \in Int /\ ref - 7 <= ref + 1
    OBVIOUS
  <2>2. QED
    BY <1>3, <1>4, <1>8, <2>1
<1>12. d.stats.last30 <= e.stats.last30
  <2>1. ref - 30 \in Int /\ ref + 1 \in Int /\ ref - 30 <= ref + 1
    OBVIOUS
  <2>2. QED
    BY <1>3, <1>4, <1>8, <2>1
<1>13. d.stats.links <= e.stats.links /\ e.stats.links = d.stats.links
  BY <1>7, <1>8 DEF Sent
<1>14. Busier(d, e)
  BY <1>7, <1>9, <1>10, <1>11, <1>12, <1>13 DEF Busier
<1>15. QED
  BY <1>14 DEF d, e, next, more

\* A visit never makes the campaign look worse, for whatever reference date: momentum and
\* grade do not fall, and risk does not rise.
THEOREM ClicksCorrect ==
    Spec => ClicksNeverHurt
<1> DEFINE P == VisitLink =>
                  \A ref \in Days :
                    LET old == Scoring!Score(Payload(db, ref), ref)
                        new == Scoring!Score(Payload(db', ref), ref)
                    IN  /\ new.scores.momentum >= old.scores.momentum
                        /\ new.scores.risk <= old.scores.risk
                        /\ Worth(new.grade) >= Worth(old.grade)
<1>1. IInv /\ IInv' /\ [Next]_vars => P
  <2>1. SUFFICES ASSUME IInv, IInv', VisitLink, NEW ref \in Days
                 PROVE  LET old == Scoring!Score(Payload(db, ref), ref)
                            new == Scoring!Score(Payload(db', ref), ref)
                        IN  /\ new.scores.momentum >= old.scores.momentum
                            /\ new.scores.risk <= old.scores.risk
                            /\ Worth(new.grade) >= Worth(old.grade)
    OBVIOUS
  <2>2. db \in Rows /\ db' \in Rows /\ today \in Days
    BY <2>1 DEF IInv, RowsOK
  <2>3. PICK n \in Visits :
          db' = [db EXCEPT !.clicks = [x \in Days |-> @[x] + IF x <= today THEN n ELSE 0]]
    BY <2>1 DEF VisitLink, Event
  <2>4. n \in Nat /\ ref \in Int
    BY EventAssumption, DayAssumption
  <2>5. Busier(Payload(db, ref), Payload(db', ref))
    BY <2>2, <2>3, <2>4, VisitPayload
  <2>6. Payload(db, ref) \in Bundles /\ Payload(db', ref) \in Bundles
    BY <2>2, PayloadFacts
  <2>7. QED
    BY <2>5, <2>6, BusierScore
<1>2. QED
  BY <1>1, Invariant, PTL DEF Spec, ClicksNeverHurt
=============================================================================
