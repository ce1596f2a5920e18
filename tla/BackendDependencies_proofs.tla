--------------------- MODULE BackendDependencies_proofs ---------------------
(***************************************************************************)
(* Proofs about BackendDependencies, for any number of diagnostics,        *)
(* retries and changes of the surroundings.                                *)
(***************************************************************************)
EXTENDS BackendDependencies, TLAPS

\* No request began after the last change.
Began == /\ \A c \in Calls : calls[c].since <= changes
         /\ health.since <= changes
         /\ ready # NULL => ready.since <= changes

\* What the answer of a diagnostic says of its failures, as StatusMatchesFailures has it.
Fits(failures, answer, source) ==
    LET n == Len(failures) IN
    /\ \A i \in 1..(n - 1) : failures[i] \in Transient
    /\ answer = 502 => n > 0 /\ failures[n] \in Permanent
    /\ answer = 503 =>
         \/ n = 0 /\ ~(settings.enabled /\ settings.engine_url)
         \/ n = MaxRetries + 1 /\ failures[n] \in Transient
    /\ answer = 500 => n = 0 \/ failures[n] = "uncaught"
    /\ answer = 200 =>
         /\ n <= MaxRetries
         /\ settings.enabled
         /\ source = "engine" <=> ~settings.dry_run

\* An answer that a diagnostic may be given.
CanAnswer(failures, answer, source) ==
    /\ failures \in Seq(Failures)
    /\ answer \in {200, 404, 500, 502, 503}
    /\ source \in {NULL, "dry_run", "engine"}
    /\ Fits(failures, answer, source)

\* A diagnostic calls the engine with the switches on, and has failed transiently only.
CallSound(call) ==
    /\ call.pc \in {"idle", "found"} => call.failures = <<>>
    /\ call.pc # "answered" => call.answer = NULL
    /\ call.pc = "calling" =>
         /\ settings.enabled /\ ~settings.dry_run /\ settings.engine_url
         /\ Len(call.failures) <= MaxRetries
         /\ \A i \in 1..Len(call.failures) : call.failures[i] \in Transient
    /\ Fits(call.failures, call.answer, call.source)

\* While nothing has changed since it began, a diagnostic has found the database up,
\* unless it was turned away.
CallStill(call) ==
    Still(call) =>
      /\ call.pc \in {"found", "calling"} => Database = "up"
      /\ call.pc = "answered" => (TurnedAway(call) <=> Database # "up")

\* What the report has found is what there is, while nothing has changed.
HealthSound ==
    /\ health.pc = "idle" => health.found = <<>>
    /\ health.pc # "answered" => health.overall = NULL /\ health.answer = NULL
    /\ Still(health) =>
         /\ \A i \in 1..Len(health.found) : health.found[i] = Probed(Dependencies[i])
         /\ health.pc = "probing" => Database = "up"
         /\ health.pc = "answered" => (health.answer = 500 <=> Database # "up")
    /\ health.overall # NULL =>
         /\ Len(health.found) = 3 /\ health.overall = Aggregate(health.found)
         /\ health.answer = 200

\* All that is kept of one diagnostic.
CallKept(call) == call \in CallRecords /\ call.since <= changes /\ CallSound(call) /\ CallStill(call)

ReadySound == ready # NULL /\ Still(ready) => (ready.answer = 200 <=> Database = "up")

IInv ==
    /\ TypeOK
    /\ Began
    /\ \A c \in Calls : CallSound(calls[c]) /\ CallStill(calls[c])
    /\ HealthSound
    /\ ReadySound

-----------------------------------------------------------------------------
(* The initial states *)

\* No failure fits an answer that needs none.
LEMMA NoFailures ==
    /\ Fits(<<>>, NULL, NULL)
    /\ CanAnswer(<<>>, 404, NULL) /\ CanAnswer(<<>>, 500, NULL)
    /\ ~settings.enabled \/ ~settings.engine_url => CanAnswer(<<>>, 503, NULL)
    /\ settings.enabled /\ settings.dry_run => CanAnswer(<<>>, 200, "dry_run")
<1>1. <<>> \in Seq(Failures) /\ Len(<<>>) = 0 /\ 0 <= MaxRetries
  BY RetryAssumption
<1>2. \A i \in 1..(Len(<<>>) - 1) : <<>>[i] \in Transient
  BY <1>1
<1>3. NULL \notin {200, 500, 502, 503}
  BY ModeAssumption
<1> QED
  BY <1>1, <1>2, <1>3 DEF Fits, CanAnswer

LEMMA InitInv == Init => IInv
<1> SUFFICES ASSUME Init PROVE IInv
  OBVIOUS
<1>1. IdleCall \in CallRecords /\ IdleHealth \in HealthRecords
  BY ChangeAssumption DEF IdleCall, IdleHealth, CallRecords, HealthRecords
<1>2. TypeOK
  BY <1>1, ChangeAssumption DEF Init, TypeOK
<1>3. Began /\ ReadySound
  BY DEF Init, Began, ReadySound, IdleCall, IdleHealth
<1>4. ASSUME NEW c \in Calls PROVE CallSound(calls[c]) /\ CallStill(calls[c])
  <2>1. calls[c] = IdleCall
    BY DEF Init
  <2>2. CallSound(IdleCall)
    BY NoFailures DEF CallSound, IdleCall
  <2>3. CallStill(IdleCall)
    BY ModeAssumption DEF CallStill, IdleCall
  <2> QED
    BY <2>1, <2>2, <2>3
<1>5. HealthSound
  BY DEF Init, HealthSound, IdleHealth
<1> QED
  BY <1>2, <1>3, <1>4, <1>5 DEF IInv

-----------------------------------------------------------------------------
(* The diagnostics *)

LEMMA CallIsKept == ASSUME IInv, NEW c \in Calls PROVE CallKept(calls[c])
  BY DEF IInv, TypeOK, Began, CallKept

\* A step of one diagnostic, under surroundings that stand still.
LEMMA CallMoves ==
    ASSUME IInv, NEW c \in Calls, NEW new, CallKept(new),
           calls' = [calls EXCEPT ![c] = new],
           UNCHANGED <<world, health, ready>>
    PROVE  IInv'
<1>1. UNCHANGED <<mode, settings, campaign, changes, health, ready>>
  BY DEF world
<1> new \in CallRecords /\ new.since <= changes /\ CallSound(new) /\ CallStill(new)
  BY DEF CallKept
<1>2. /\ calls' \in [Calls -> CallRecords] /\ calls'[c] = new
      /\ \A e \in Calls \ {c} : calls'[e] = calls[e]
  BY DEF IInv, TypeOK
<1>3. TypeOK'
  BY <1>1, <1>2 DEF IInv, TypeOK
<1>4. Began'
  BY <1>1, <1>2 DEF IInv, Began
<1>5. ASSUME NEW e \in Calls PROVE CallSound(calls[e])' /\ CallStill(calls[e])'
  <2>1. CallSound(calls'[e]) /\ CallStill(calls'[e])
    BY <1>2 DEF IInv
  <2>2. CallSound(calls[e])'
    BY <1>1, <2>1 DEF CallSound, Fits
  <2>3. CallStill(calls[e])'
    BY <1>1, <2>1 DEF CallStill, Still, Database, TurnedAway
  <2> QED
    BY <2>2, <2>3
<1>6. HealthSound' /\ ReadySound'
  BY <1>1 DEF IInv, HealthSound, ReadySound, Still, Probed, Database
<1> QED
  BY <1>3, <1>4, <1>5, <1>6 DEF IInv

\* A diagnostic is answered.
LEMMA AnsweredInv ==
    ASSUME IInv, NEW c \in Calls, NEW failures, NEW status, NEW source,
           Answered(c, failures, status, source), CanAnswer(failures, status, source),
           IF status = 500 /\ failures = <<>> THEN Database # "up"
           ELSE calls[c].pc = "calling" \/ Database = "up",
           UNCHANGED <<world, health, ready>>
    PROVE  IInv'
<1> DEFINE new == [pc |-> "answered", failures |-> failures, answer |-> status,
                   source |-> source, since |-> Since(calls[c])]
<1>1. CallKept(calls[c])
  BY CallIsKept
<1>2. calls' = [calls EXCEPT ![c] = new]
  BY DEF Answered
<1>3. new \in CallRecords /\ new.since <= changes
  <2>1. calls[c].since \in 0..MaxChanges /\ calls[c].since <= changes
    BY <1>1 DEF CallKept, CallRecords
  <2>2. changes \in 0..MaxChanges
    BY DEF IInv, TypeOK
  <2>3. Since(calls[c]) \in 0..MaxChanges /\ Since(calls[c]) <= changes
    BY <2>1, <2>2, ChangeAssumption DEF Since
  <2> QED
    BY <2>3 DEF CallRecords, CanAnswer
<1>4. CallSound(new)
  BY DEF CallSound, CanAnswer
<1>5. CallStill(new)
  BY <1>1 DEF CallKept, CallStill, Still, Since, TurnedAway
<1>6. CallKept(new)
  BY <1>3, <1>4, <1>5 DEF CallKept
<1> HIDE DEF new
<1> QED
  BY <1>2, <1>6, CallMoves

\* What a query finds turns the diagnostic away.
LEMMA RefusedInv ==
    ASSUME IInv, NEW c \in Calls, Refused(c), UNCHANGED <<world, health, ready>>
    PROVE  IInv'
<1>1. CASE Database # "up" /\ Answered(c, <<>>, 500, NULL)
  BY <1>1, NoFailures, AnsweredInv
<1>2. CASE Database = "up" /\ Answered(c, <<>>, 404, NULL)
  BY <1>2, NoFailures, AnsweredInv, 404 # 500
<1> QED
  BY <1>1, <1>2 DEF Refused

LEMMA GetObjectInv == ASSUME IInv, NEW c \in Calls, GetObject(c) PROVE IInv'
<1>1. calls[c].pc = "idle" /\ UNCHANGED <<world, health, ready>>
  BY DEF GetObject
<1>2. CASE Refused(c)
  BY <1>1, <1>2, RefusedInv
<1>3. CASE Found /\ calls' = [calls EXCEPT ![c].pc = "found", ![c].since = changes]
  <2> DEFINE new == [pc |-> "found", failures |-> calls[c].failures, answer |-> calls[c].answer,
                     source |-> calls[c].source, since |-> changes]
  <2>1. CallKept(calls[c])
    BY CallIsKept
  <2>2. calls' = [calls EXCEPT ![c] = new]
    <3>1. calls \in [Calls -> CallRecords]
      BY DEF IInv, TypeOK
    <3>2. calls' = [calls EXCEPT ![c].pc = "found", ![c].since = changes]
      BY <1>3
    <3>3. calls'[c] = [calls[c] EXCEPT !.pc = "found", !.since = changes]
      BY <3>1, <3>2
    <3>4. calls'[c] = new
      <4>1. calls[c] \in CallRecords
        BY <3>1
      <4>2. calls[c] = [pc |-> calls[c].pc, failures |-> calls[c].failures,
                        answer |-> calls[c].answer, source |-> calls[c].source,
                        since |-> calls[c].since]
        BY <4>1 DEF CallRecords
      <4> QED
        BY <3>3, <4>2
    <3>5. calls' = [calls EXCEPT ![c] = calls'[c]]
      BY <3>1, <3>2
    <3> QED
      BY <3>4, <3>5
  <2>3. new \in CallRecords /\ new.since <= changes
    <3>1. changes \in 0..MaxChanges
      BY DEF IInv, TypeOK
    <3>2. /\ calls[c].failures \in Seq(Failures)
          /\ calls[c].answer \in {NULL, 200, 404, 500, 502, 503}
          /\ calls[c].source \in {NULL, "dry_run", "engine"}
      BY <2>1 DEF CallKept, CallRecords
    <3> QED
      BY <3>1, <3>2, ChangeAssumption DEF CallRecords
  <2>4. CallSound(new)
    BY <1>1, <2>1 DEF CallSound, CallKept
  <2>5. CallStill(new)
    BY <1>3 DEF CallStill, Found
  <2>6. CallKept(new)
    BY <2>3, <2>4, <2>5 DEF CallKept
  <2> HIDE DEF new
  <2> QED
    BY <1>1, <2>2, <2>6, CallMoves
<1> QED
  BY <1>1, <1>2, <1>3 DEF GetObject

LEMMA RunInv == ASSUME IInv, NEW c \in Calls, Run(c) PROVE IInv'
<1>1. calls[c].pc = "found" /\ UNCHANGED <<world, health, ready>>
  BY DEF Run
<1>2. CASE Refused(c)
  BY <1>1, <1>2, RefusedInv
<1>3. CASE Found /\ (~settings.enabled \/ ~settings.engine_url) /\ Answered(c, <<>>, 503, NULL)
  BY <1>1, <1>3, NoFailures, AnsweredInv, 503 # 500 DEF Found
<1>4. CASE Found /\ settings.enabled /\ settings.dry_run /\ Answered(c, <<>>, 200, "dry_run")
  <2>1. CanAnswer(<<>>, 200, "dry_run") /\ Database = "up"
    BY <1>4, NoFailures DEF Found
  <2>2. Answered(c, <<>>, 200, "dry_run")
    BY <1>4
  <2> QED
    BY <1>1, <2>1, <2>2, AnsweredInv, 200 # 500
<1>5. CASE /\ Found /\ settings.enabled /\ ~settings.dry_run /\ settings.engine_url
           /\ calls' = [calls EXCEPT ![c].pc = "calling"]
  <2> DEFINE new == [pc |-> "calling", failures |-> calls[c].failures, answer |-> calls[c].answer,
                     source |-> calls[c].source, since |-> calls[c].since]
  <2>1. CallKept(calls[c])
    BY CallIsKept
  <2>2. calls' = [calls EXCEPT ![c] = new]
    <3>1. calls \in [Calls -> CallRecords]
      BY DEF IInv, TypeOK
    <3>2. calls' = [calls EXCEPT ![c].pc = "calling"]
      BY <1>5
    <3>3. calls'[c] = new /\ calls' = [calls EXCEPT ![c] = calls'[c]]
      BY <3>1, <3>2 DEF CallRecords
    <3> QED
      BY <3>3
  <2>3. new \in CallRecords /\ new.since <= changes
    <3>1. /\ calls[c].failures \in Seq(Failures)
          /\ calls[c].answer \in {NULL, 200, 404, 500, 502, 503}
          /\ calls[c].source \in {NULL, "dry_run", "engine"}
          /\ calls[c].since \in 0..MaxChanges /\ calls[c].since <= changes
      BY <2>1 DEF CallKept, CallRecords
    <3> QED
      BY <3>1 DEF CallRecords
  <2>4. CallSound(new)
    <3>1. calls[c].failures = <<>> /\ Len(<<>>) = 0 /\ 0 <= MaxRetries
      BY <1>1, <2>1, RetryAssumption DEF CallSound, CallKept
    <3>2. calls[c].answer = NULL /\ Fits(calls[c].failures, calls[c].answer, calls[c].source)
      BY <1>1, <2>1 DEF CallSound, CallKept
    <3> QED
      BY <1>5, <3>1, <3>2 DEF CallSound
  <2>5. CallStill(new)
    BY <1>5 DEF CallStill, Found
  <2>6. CallKept(new)
    BY <2>3, <2>4, <2>5 DEF CallKept
  <2> HIDE DEF new
  <2> QED
    BY <1>1, <2>2, <2>6, CallMoves
<1> QED
  BY <1>1, <1>2, <1>3, <1>4, <1>5 DEF Run

LEMMA AttemptInv == ASSUME IInv, NEW c \in Calls, Attempt(c) PROVE IInv'
<1> DEFINE outcome == Outcome(Engine)
           before == calls[c].failures
           failures == Append(before, outcome)
<1>1. /\ calls[c].pc = "calling" /\ UNCHANGED <<world, health, ready>>
      /\ \/ outcome = "ok" /\ Answered(c, before, 200, "engine")
         \/ outcome \in Permanent /\ Answered(c, failures, 502, NULL)
         \/ outcome = "uncaught" /\ Answered(c, failures, 500, NULL)
         \/ /\ outcome \in Transient
            /\ Len(failures) = MaxRetries + 1
            /\ Answered(c, failures, 503, NULL)
         \/ /\ outcome \in Transient
            /\ Len(failures) <= MaxRetries
            /\ calls' = [calls EXCEPT ![c].failures = failures]
  BY DEF Attempt
<1>2. CallKept(calls[c])
  BY CallIsKept
<1>3. /\ before \in Seq(Failures) /\ Len(before) <= MaxRetries
      /\ \A i \in 1..Len(before) : before[i] \in Transient
      /\ settings.enabled /\ ~settings.dry_run /\ settings.engine_url
      /\ calls[c].answer = NULL
  BY <1>1, <1>2 DEF CallKept, CallSound, CallRecords
<1> HIDE DEF before, outcome
<1>4. ASSUME outcome \in Failures
      PROVE  /\ failures \in Seq(Failures) /\ Len(failures) = Len(before) + 1
             /\ failures[Len(failures)] = outcome
             /\ \A i \in 1..(Len(failures) - 1) : failures[i] \in Transient
  <2>1. /\ failures \in Seq(Failures) /\ Len(failures) = Len(before) + 1
        /\ Len(before) \in Nat
        /\ failures[Len(before) + 1] = outcome
        /\ \A i \in 1..Len(before) : failures[i] = before[i]
    BY <1>3, <1>4
  <2> HIDE DEF failures
  <2>2. Len(failures) - 1 = Len(before)
    BY <2>1
  <2> QED
    BY <1>3, <2>1, <2>2
<1> HIDE DEF failures
<1>5. Transient \subseteq Failures /\ Permanent \subseteq Failures /\ "uncaught" \in Failures
  BY DEF Failures
<1>6. CASE Answered(c, before, 200, "engine")
  <2>1. Len(before) \in Nat
    BY <1>3
  <2>2. CanAnswer(before, 200, "engine")
    BY <1>3, <2>1 DEF CanAnswer, Fits
  <2> QED
    BY <1>1, <1>6, <2>2, AnsweredInv, 200 # 500
<1>7. CASE outcome \in Permanent /\ Answered(c, failures, 502, NULL)
  <2>1. Len(before) \in Nat
    BY <1>3
  <2>2. CanAnswer(failures, 502, NULL)
    BY <1>4, <1>5, <1>7, <2>1 DEF CanAnswer, Fits
  <2> QED
    BY <1>1, <1>7, <2>2, AnsweredInv, 502 # 500
<1>10. CASE outcome = "uncaught" /\ Answered(c, failures, 500, NULL)
  <2>1. Len(before) \in Nat /\ Len(failures) # 0
    BY <1>3, <1>4, <1>5, <1>10
  <2>2. CanAnswer(failures, 500, NULL)
    BY <1>4, <1>5, <1>10, <2>1 DEF CanAnswer, Fits
  <2>3. failures # <<>>
    BY <2>1
  <2> QED
    BY <1>1, <1>10, <2>2, <2>3, AnsweredInv
<1>8. CASE outcome \in Transient /\ Len(failures) = MaxRetries + 1 /\ Answered(c, failures, 503, NULL)
  <2>1. CanAnswer(failures, 503, NULL)
    BY <1>4, <1>5, <1>8 DEF CanAnswer, Fits
  <2> QED
    BY <1>1, <1>8, <2>1, AnsweredInv, 503 # 500
<1>9. CASE /\ outcome \in Transient /\ Len(failures) <= MaxRetries
           /\ calls' = [calls EXCEPT ![c].failures = failures]
  <2> DEFINE new == [pc |-> "calling", failures |-> failures, answer |-> calls[c].answer,
                     source |-> calls[c].source, since |-> calls[c].since]
  <2>1. calls' = [calls EXCEPT ![c] = new]
    <3>1. calls \in [Calls -> CallRecords]
      BY DEF IInv, TypeOK
    <3>2. calls' = [calls EXCEPT ![c].failures = failures]
      BY <1>9
    <3>3. calls'[c] = new /\ calls' = [calls EXCEPT ![c] = calls'[c]]
      BY <1>1, <3>1, <3>2 DEF CallRecords
    <3> QED
      BY <3>3
  <2>2. new \in CallRecords /\ new.since <= changes
    <3>1. /\ calls[c].answer \in {NULL, 200, 404, 500, 502, 503}
          /\ calls[c].source \in {NULL, "dry_run", "engine"}
          /\ calls[c].since \in 0..MaxChanges /\ calls[c].since <= changes
      BY <1>2 DEF CallKept, CallRecords
    <3> QED
      BY <1>4, <1>5, <1>9, <3>1 DEF CallRecords
  <2>3. CallSound(new)
    <3>1. \A i \in 1..Len(failures) : failures[i] \in Transient
      BY <1>3, <1>4, <1>5, <1>9
    <3>2. NULL \notin {200, 500, 502, 503}
      BY ModeAssumption
    <3>3. Fits(failures, NULL, calls[c].source)
      BY <1>4, <1>5, <1>9, <3>2 DEF Fits
    <3> QED
      BY <1>3, <1>9, <3>1, <3>3 DEF CallSound
  <2>4. CallStill(new)
    BY <1>1, <1>2 DEF CallStill, Still, CallKept, TurnedAway
  <2>5. CallKept(new)
    BY <2>2, <2>3, <2>4 DEF CallKept
  <2> HIDE DEF new
  <2> QED
    BY <1>1, <2>1, <2>5, CallMoves
<1> QED
  BY <1>1, <1>6, <1>7, <1>8, <1>9, <1>10

-----------------------------------------------------------------------------
(* The health endpoints *)

LEMMA HealthMoves ==
    ASSUME IInv, health' \in HealthRecords, health'.since <= changes, HealthSound',
           UNCHANGED <<world, calls, ready>>
    PROVE  IInv'
<1>1. UNCHANGED <<mode, settings, campaign, changes, calls, ready>>
  BY DEF world
<1>2. TypeOK' /\ Began'
  BY <1>1 DEF IInv, TypeOK, Began
<1>3. ASSUME NEW c \in Calls PROVE CallSound(calls[c])' /\ CallStill(calls[c])'
  <2>1. CallSound(calls[c]) /\ CallStill(calls[c])
    BY DEF IInv
  <2>2. CallSound(calls[c])'
    BY <1>1, <2>1 DEF CallSound, Fits
  <2> QED
    BY <1>1, <2>1, <2>2 DEF CallStill, Still, Database, TurnedAway
<1>4. ReadySound'
  BY <1>1 DEF IInv, ReadySound, Still, Database
<1> QED
  BY <1>2, <1>3, <1>4 DEF IInv

LEMMA HealthFields ==
    ASSUME IInv
    PROVE  /\ health.pc \in {"idle", "probing", "answered"}
           /\ health.found \in Seq(Statuses \cup {"misconfigured", "unknown"})
           /\ health.answer \in {NULL, 200, 500}
           /\ health.overall \in Statuses \cup {NULL}
           /\ health.since \in 0..MaxChanges /\ health.since <= changes
           /\ changes \in 0..MaxChanges
  BY DEF IInv, TypeOK, HealthRecords, Began

LEMMA HealthRecord ==
    ASSUME IInv
    PROVE  health = [pc |-> health.pc, found |-> health.found, answer |-> health.answer,
                     overall |-> health.overall, since |-> health.since]
<1>1. health \in HealthRecords
  BY DEF IInv, TypeOK
<1> QED
  BY <1>1 DEF HealthRecords

LEMMA AuthenticateInv == ASSUME IInv, Authenticate PROVE IInv'
<1>1. health.pc = "idle" /\ UNCHANGED <<world, calls, ready>>
  BY DEF Authenticate
<1>2. UNCHANGED <<mode, settings, campaign, changes, calls, ready>>
  BY <1>1 DEF world
<1>3. health.found = <<>> /\ health.overall = NULL /\ health.answer = NULL
  BY <1>1 DEF IInv, HealthSound
<1>4. health \in HealthRecords
  BY DEF IInv, TypeOK
<1>5. \/ Database = "up" /\ health' = [health EXCEPT !.pc = "probing", !.since = changes]
      \/ /\ Database # "up"
         /\ health' = [health EXCEPT !.pc = "answered", !.answer = 500, !.since = changes]
  BY <1>1 DEF Authenticate, Since
<1>6. /\ health' \in HealthRecords /\ health'.since <= changes
      /\ health'.pc # "idle"
      /\ health'.found = <<>> /\ health'.overall = NULL
      /\ IF Database = "up" THEN health'.pc = "probing" /\ health'.answer = NULL
         ELSE health'.pc = "answered" /\ health'.answer = 500
  <2>0. changes \in 0..MaxChanges /\ changes <= changes
    BY HealthFields, ChangeAssumption
  <2>1. CASE Database = "up" /\ health' = [health EXCEPT !.pc = "probing", !.since = changes]
    <3>1. health' = [pc |-> "probing", found |-> health.found, answer |-> health.answer,
                     overall |-> health.overall, since |-> changes]
      BY <2>1, HealthRecord
    <3>2. health' \in HealthRecords
      BY <2>0, <3>1, HealthFields DEF HealthRecords
    <3> QED
      BY <1>3, <2>0, <2>1, <3>1, <3>2
  <2>2. CASE /\ Database # "up"
             /\ health' = [health EXCEPT !.pc = "answered", !.answer = 500, !.since = changes]
    <3>1. health' = [pc |-> "answered", found |-> health.found, answer |-> 500,
                     overall |-> health.overall, since |-> changes]
      BY <2>2, HealthRecord
    <3>2. health' \in HealthRecords
      BY <2>0, <3>1, HealthFields DEF HealthRecords
    <3> QED
      BY <1>3, <2>0, <2>2, <3>1, <3>2
  <2> QED
    BY <1>5, <2>1, <2>2
<1>7. HealthSound'
  <2>1. \A i \in 1..Len(health'.found) : health'.found[i] = Probed(Dependencies[i])'
    BY <1>6
  <2>2. Database' = Database
    BY <1>2 DEF Database
  <2> QED
    BY <1>6, <2>1, <2>2 DEF HealthSound
<1> QED
  BY <1>1, <1>6, <1>7, HealthMoves

\* What a probe finds is a status, and is what the report is made of.
LEMMA ProbedType == \A service : Probed(service) \in Statuses \cup {"misconfigured", "unknown"}
  BY DEF Probed, Statuses

LEMMA ProbeInv == ASSUME IInv, Probe PROVE IInv'
<1> DEFINE n == Len(health.found)
           new == Probed(Dependencies[n + 1])
<1>1. /\ health.pc = "probing" /\ UNCHANGED <<world, calls, ready>>
      /\ health' = [health EXCEPT !.found = Append(health.found, new)]
  BY DEF Probe
<1>2. UNCHANGED <<mode, settings, campaign, changes, calls, ready>>
  BY <1>1 DEF world
<1>3. new \in Statuses \cup {"misconfigured", "unknown"}
  BY ProbedType
<1>4. health \in HealthRecords /\ health.overall = NULL /\ health.answer = NULL
  BY <1>1 DEF IInv, TypeOK, HealthSound
<1>5. health.found \in Seq(Statuses \cup {"misconfigured", "unknown"})
  BY HealthFields
<1> DEFINE found == Append(health.found, new)
<1>6. /\ found \in Seq(Statuses \cup {"misconfigured", "unknown"}) /\ Len(found) = n + 1 /\ n \in Nat
      /\ found[n + 1] = new /\ \A i \in 1..n : found[i] = health.found[i]
  BY <1>3, <1>5
<1>7. health' = [health EXCEPT !.found = found]
  BY <1>1
<1> HIDE DEF new, found
<1>8. /\ health' \in HealthRecords
      /\ health'.pc = "probing" /\ health'.overall = NULL /\ health'.answer = NULL
      /\ health'.found = found /\ health'.since = health.since
  <2>1. health' = [pc |-> health.pc, found |-> found, answer |-> health.answer,
                   overall |-> health.overall, since |-> health.since]
    BY <1>7, HealthRecord
  <2>2. /\ health.answer \in {NULL, 200, 500} /\ health.since \in 0..MaxChanges
        /\ health.overall \in Statuses \cup {NULL}
    BY HealthFields
  <2> QED
    <3>1. found \in Seq(Statuses \cup {"misconfigured", "unknown"})
      BY <1>6
    <3>2. health' \in HealthRecords
      <4>1. health.pc \in {"idle", "probing", "answered"}
        BY HealthFields
      <4> QED
        BY <2>1, <2>2, <3>1, <4>1 DEF HealthRecords
    <3> QED
      BY <1>1, <1>4, <2>1, <3>2
<1>9. HealthSound'
  <2>1. ASSUME Still(health)', NEW i \in 1..Len(found)
        PROVE  found[i] = Probed(Dependencies[i])'
    <3>1. Still(health)
      BY <1>2, <1>8, <2>1 DEF Still
    <3>2. Probed(Dependencies[i])' = Probed(Dependencies[i])
      BY <1>2 DEF Probed, Database
    <3>3. CASE i = n + 1
      BY <1>6, <3>2, <3>3 DEF new
    <3>4. CASE i # n + 1
      <4>1. i \in 1..n
        BY <1>6, <3>4
      <4>2. health.found[i] = Probed(Dependencies[i])
        BY <3>1, <4>1 DEF IInv, HealthSound
      <4> QED
        BY <1>6, <3>2, <4>1, <4>2
    <3> QED
      BY <3>3, <3>4
  <2>2. ASSUME Still(health)' PROVE Database' = "up"
    BY <1>1, <1>2, <1>8, <2>2 DEF IInv, HealthSound, Still, Database
  <2> QED
    BY <1>8, <2>1, <2>2 DEF HealthSound
<1>10. health'.since <= changes
  BY <1>8, HealthFields
<1> QED
  BY <1>1, <1>8, <1>9, <1>10, HealthMoves

LEMMA ReportInv == ASSUME IInv, Report PROVE IInv'
<1>1. /\ health.pc = "probing" /\ Len(health.found) = 3
      /\ UNCHANGED <<world, calls, ready>>
      /\ health' = [health EXCEPT !.pc = "answered", !.answer = 200,
                                  !.overall = Aggregate(health.found)]
  BY DEF Report, Dependencies
<1>2. UNCHANGED <<mode, settings, campaign, changes, calls, ready>>
  BY <1>1 DEF world
<1>3. health \in HealthRecords
  BY DEF IInv, TypeOK
<1>4. Aggregate(health.found) \in Statuses
  BY DEF Aggregate, Statuses
<1>5. /\ health' \in HealthRecords
      /\ health'.pc = "answered" /\ health'.overall = Aggregate(health.found)
      /\ health'.answer = 200
      /\ health'.found = health.found /\ health'.since = health.since
  <2> DEFINE overall == Aggregate(health.found)
  <2>1. health' = [health EXCEPT !.pc = "answered", !.answer = 200, !.overall = overall]
    BY <1>1
  <2> HIDE DEF overall
  <2>2. health' = [pc |-> "answered", found |-> health.found, answer |-> 200,
                   overall |-> overall, since |-> health.since]
    BY <2>1, HealthRecord
  <2>3. overall \in Statuses /\ overall = Aggregate(health.found)
    BY <1>4 DEF overall
  <2> QED
    BY <2>2, <2>3, HealthFields DEF HealthRecords
<1>6. HealthSound'
  <2>1. ASSUME Still(health)', NEW i \in 1..Len(health.found)
        PROVE  health.found[i] = Probed(Dependencies[i])'
    <3>1. Still(health)
      BY <1>2, <1>5, <2>1 DEF Still
    <3>2. Probed(Dependencies[i])' = Probed(Dependencies[i])
      BY <1>2 DEF Probed, Database
    <3> QED
      BY <2>1, <3>1, <3>2 DEF IInv, HealthSound
  <2>2. Aggregate(health'.found) = Aggregate(health.found)
    BY <1>5
  <2>3. Aggregate(health.found)' = Aggregate(health'.found)
    BY DEF Aggregate
  <2>4. ASSUME Still(health)' PROVE Database' = "up"
    BY <1>1, <1>2, <1>5, <2>4 DEF IInv, HealthSound, Still, Database
  <2> QED
    BY <1>1, <1>5, <2>1, <2>2, <2>3, <2>4, 200 # 500 DEF HealthSound
<1>7. health'.since <= changes
  BY <1>5, HealthFields
<1> QED
  BY <1>1, <1>5, <1>6, <1>7, HealthMoves

LEMMA ReadinessInv == ASSUME IInv, Readiness PROVE IInv'
<1>1. /\ ready' = [answer |-> IF Database = "up" THEN 200 ELSE 503, since |-> changes]
      /\ UNCHANGED <<mode, settings, campaign, changes, calls, health>>
  BY DEF Readiness, world
<1>2. TypeOK' /\ Began'
  BY <1>1, HealthFields DEF IInv, TypeOK, Began
<1>3. ASSUME NEW c \in Calls PROVE CallSound(calls[c])' /\ CallStill(calls[c])'
  <2>1. CallSound(calls[c]) /\ CallStill(calls[c])
    BY DEF IInv
  <2>2. CallSound(calls[c])'
    BY <1>1, <2>1 DEF CallSound, Fits
  <2> QED
    BY <1>1, <2>1, <2>2 DEF CallStill, Still, Database, TurnedAway
<1>4. ReadySound'
  BY <1>1 DEF ReadySound, Still, Database
<1>5. HealthSound'
  BY <1>1 DEF IInv, HealthSound, Still, Probed, Database
<1> QED
  BY <1>2, <1>3, <1>4, <1>5 DEF IInv

-----------------------------------------------------------------------------
(* The surroundings *)

\* When the surroundings change no request began after it, so none of them is still.
LEMMA ChangedInv ==
    ASSUME IInv, Changed, mode' \in [Services -> Modes], campaign' \in {"live", "deleted"}
    PROVE  IInv'
<1>1. /\ changes < MaxChanges /\ changes' = changes + 1
      /\ UNCHANGED <<settings, calls, health, ready>>
  BY DEF Changed
<1>2. changes' \in 0..MaxChanges /\ changes <= changes' /\ changes < changes'
  BY <1>1, HealthFields, ChangeAssumption
<1>3. TypeOK'
  BY <1>1, <1>2 DEF IInv, TypeOK
<1>4. Began'
  <2>1. ASSUME NEW c \in Calls PROVE calls[c].since \in 0..MaxChanges
    BY CallIsKept DEF CallKept, CallRecords
  <2>2. ready # NULL => ready.since \in 0..MaxChanges
    BY DEF IInv, TypeOK
  <2> QED
    BY <1>1, <1>2, <2>1, <2>2, HealthFields DEF IInv, Began
<1>5. ASSUME NEW c \in Calls PROVE CallSound(calls[c])' /\ CallStill(calls[c])'
  <2>1. CallSound(calls[c]) /\ calls[c].since <= changes /\ calls[c].since \in 0..MaxChanges
    BY CallIsKept DEF CallKept, CallRecords
  <2>2. CallSound(calls[c])'
    BY <1>1, <2>1 DEF CallSound, Fits
  <2>3. ~Still(calls[c])'
    BY <1>1, <1>2, <2>1, HealthFields DEF Still
  <2> QED
    BY <2>2, <2>3 DEF CallStill
<1>6. HealthSound'
  <2>1. ~Still(health)'
    BY <1>1, <1>2, HealthFields DEF Still
  <2>2. Aggregate(health.found)' = Aggregate(health.found)
    BY <1>1 DEF Aggregate
  <2> QED
    BY <1>1, <2>1, <2>2 DEF IInv, HealthSound
<1>7. ReadySound'
  <2>1. ready # NULL => ready.since \in 0..MaxChanges /\ ready.since <= changes
    BY DEF IInv, TypeOK, Began
  <2>2. ready # NULL => ~Still(ready)'
    BY <1>1, <1>2, <2>1, HealthFields DEF Still
  <2> QED
    BY <1>1, <2>2 DEF ReadySound
<1> QED
  BY <1>3, <1>4, <1>5, <1>6, <1>7 DEF IInv

LEMMA ServiceChangesInv == ASSUME IInv, ServiceChanges PROVE IInv'
<1>1. PICK service \in Services, new \in Modes : mode' = [mode EXCEPT ![service] = new]
  BY DEF ServiceChanges
<1>2. mode \in [Services -> Modes] /\ campaign \in {"live", "deleted"}
  BY DEF IInv, TypeOK
<1> QED
  BY <1>1, <1>2, ChangedInv DEF ServiceChanges

LEMMA DeleteCampaignInv == ASSUME IInv, DeleteCampaign PROVE IInv'
<1>1. mode \in [Services -> Modes]
  BY DEF IInv, TypeOK
<1> QED
  BY <1>1, ChangedInv DEF DeleteCampaign

LEMMA StandStill == ASSUME IInv, UNCHANGED vars PROVE IInv'
<1>1. UNCHANGED <<world, calls, ready>> /\ UNCHANGED <<mode, settings, campaign, changes, health>>
  BY DEF vars, world
<1>2. health' \in HealthRecords /\ health'.since <= changes
  BY <1>1, HealthFields DEF IInv, TypeOK
<1>3. HealthSound'
  <2>1. Aggregate(health.found)' = Aggregate(health.found)
    BY <1>1 DEF Aggregate
  <2> QED
    BY <1>1, <2>1 DEF IInv, HealthSound, Still, Probed, Database
<1> QED
  BY <1>1, <1>2, <1>3, HealthMoves

LEMMA StepInv == IInv /\ [Next]_vars => IInv'
<1> SUFFICES ASSUME IInv, [Next]_vars PROVE IInv'
  OBVIOUS
<1>1. ASSUME NEW c \in Calls, Serve(c) PROVE IInv'
  BY <1>1, GetObjectInv, RunInv, AttemptInv DEF Serve
<1>2. CASE UNCHANGED vars
  BY <1>2, StandStill
<1>3. CASE Done
  BY <1>3, StandStill DEF Done
<1> QED
  BY <1>1, <1>2, <1>3, ServiceChangesInv, DeleteCampaignInv, AuthenticateInv, ProbeInv,
     ReportInv, ReadinessInv DEF Next

-----------------------------------------------------------------------------
(* The theorems *)

\* The inductive invariant holds of every run: a diagnostic under way has failed transiently
\* only (intelligence_sync.py), and what was found since the last change is so still.
THEOREM Invariant == Spec => []IInv
<1>1. Init => IInv
  BY InitInv
<1>2. IInv /\ [Next]_vars => IInv'
  BY StepInv
<1> QED
  BY <1>1, <1>2, PTL DEF Spec

\* Every variable keeps its type: the answers of the view are the ones of its except
\* clauses, and the report knows three statuses (health.py).
THEOREM TypeCorrect == Spec => []TypeOK
<1>1. IInv => TypeOK
  BY DEF IInv
<1> QED
  BY <1>1, Invariant, PTL

LEMMA StatusLemma == IInv => StatusMatchesFailures
<1> SUFFICES ASSUME IInv, NEW c \in Calls
             PROVE  Fits(calls[c].failures, calls[c].answer, calls[c].source)
  BY DEF StatusMatchesFailures, Fits
<1> QED
  BY DEF IInv, CallSound

LEMMA EndpointsLemma == IInv => EndpointsAgree
<1> SUFFICES ASSUME IInv, health.pc = "answered", Still(health) PROVE EndpointsAgree
  BY DEF EndpointsAgree
<1>1. health.answer = 500 <=> Database # "up"
  BY DEF IInv, HealthSound
<1>2. health.overall # "unavailable"
  <2> SUFFICES ASSUME health.overall = "unavailable" PROVE FALSE
    OBVIOUS
  <2>1. health.overall # NULL
    BY ModeAssumption DEF Statuses
  <2>2. /\ Len(health.found) = 3 /\ health.overall = Aggregate(health.found)
        /\ health.answer = 200
        /\ health.found[3] = Probed(Dependencies[3])
        /\ DOMAIN health.found = 1..3
    BY <2>1, HealthFields DEF IInv, HealthSound
  <2>3. Dependencies[3] = "database" /\ Database = "up"
    BY <1>1, <2>2, 200 # 500 DEF Dependencies
  <2>4. health.found[3] = "ok"
    BY <2>2, <2>3 DEF Probed
  <2> QED
    BY <2>2, <2>4 DEF Aggregate
<1>3. ASSUME ready # NULL, Still(ready) PROVE ready.answer = 503 <=> health.answer = 500
  <2>1. ready.answer \in {200, 503}
    BY <1>3 DEF IInv, TypeOK
  <2>2. ready.answer = 200 <=> Database = "up"
    BY <1>3 DEF IInv, ReadySound
  <2> QED
    BY <1>1, <2>1, <2>2, 200 # 503
<1>4. ASSUME NEW c \in Calls, calls[c].pc = "answered", Still(calls[c])
      PROVE  TurnedAway(calls[c]) <=> health.answer = 500
  BY <1>1, <1>4 DEF IInv, CallStill
<1> QED
  BY <1>2, <1>3, <1>4 DEF EndpointsAgree

\* The status of a diagnostic tells which failures it met, whatever the engine does and
\* however often it is retried (intelligence_sync.py, intelligence_service.py).
THEOREM StatusCorrect == Spec => []StatusMatchesFailures
<1>1. IInv => StatusMatchesFailures
  BY StatusLemma
<1> QED
  BY <1>1, Invariant, PTL

\* Requests under which nothing changed agree on the database, however many changes there
\* were before: the report fails exactly when the service is not ready and when diagnostics
\* are turned away, and it is never "unavailable", which takes a database that fails between
\* the lookup of its user and its probe (health.py).
THEOREM EndpointsCorrect == Spec => []EndpointsAgree
<1>1. IInv => EndpointsAgree
  BY EndpointsLemma
<1> QED
  BY <1>1, Invariant, PTL
=============================================================================
