---------------------- MODULE CampaignActions_proofs ----------------------
(***************************************************************************)
(* Proofs about CampaignActions: the rows a request holds in memory are as *)
(* consistent as those in the table, and the one that has written holds    *)
(* its key alone.                                                          *)
(***************************************************************************)
EXTENDS CampaignActions, TLAPS

\* A request that has validated asks for nothing that would leave its row inconsistent:
\* the row it saves is one the table has had, and the status it asks for is allowed
\* from that row's and has the reason it needs.
SessionSound(s) ==
    LET row == session[s].row
        target == session[s].target
    IN  /\ StampsMatch(row)
        /\ Decided(row, IF target = NONE THEN row.status ELSE target)
        /\ target # NONE => Allowed(row.status, target, session[s].reason)

SessionsSound == \A s \in Sessions : session[s] # IDLE => SessionSound(s)

\* A request that is not idle is at a step of its own.
Busy == \A s \in Sessions : session[s].at = "idle" <=> session[s] = IDLE

\* Of the requests that have written, no two are on one action or hold one key; and no
\* other action has the key in the table.
WrittenAlone ==
    \A s \in Sessions : session[s].at = "written" =>
      /\ Active(session[s].row) => ~Duplicated(session[s].on, session[s].row)
      /\ \A u \in Sessions \ {s} : session[u].at = "written" =>
           /\ session[u].on # session[s].on
           /\ ~ /\ Active(session[s].row)
                /\ Active(session[u].row)
                /\ SameKey(session[s].row, session[u].row)

IInv ==
    /\ TypeOK
    /\ Busy
    /\ SessionsSound
    /\ StampsMatchStatus
    /\ DecisionsStand
    /\ OneActiveAction
    /\ WrittenAlone

\* What a transition does to a row: kind and reference stay, the type is kept, and the
\* stamps match the status.
LEMMA TransitionedRow ==
    ASSUME NEW row \in Row, NEW target \in Statuses, NEW reason \in BOOLEAN,
           Allowed(row.status, target, reason \/ row.reason)
    PROVE  LET new == Transitioned(row, target, reason)
           IN  /\ new \in Row
               /\ new.kind = row.kind
               /\ new.ref = row.ref
               /\ new.status = target
               /\ StampsMatch(new)
  BY DEF Row, Statuses, Transitioned, Allowed, StampsMatch

\* A status that is active is reached from an active one only.
LEMMA ActiveFromActive ==
    ASSUME NEW current \in Statuses, NEW target \in Statuses, NEW reason \in BOOLEAN,
           Allowed(current, target, reason), ActiveStatus(target)
    PROVE  ActiveStatus(current)
  BY DEF Statuses, Allowed, ActiveStatus, ALLOWED_STATUS_TRANSITIONS

\* The endpoints do not move an action whose type is its decision.
LEMMA DecidedStays ==
    ASSUME NEW row \in Row, NEW target \in Statuses, NEW reason \in BOOLEAN,
           Decided(row, row.status), Allowed(row.status, target, reason)
    PROVE  Decided(row, target)
  BY DEF Row, Statuses, Decided, Allowed, ALLOWED_STATUS_TRANSITIONS

\* No action and no row is ABSENT by accident.
LEMMA AbsentIsNone ==
    /\ ABSENT \notin Row
    /\ ~Active(ABSENT)
    /\ StampsMatch(ABSENT)
    /\ Decided(ABSENT, ABSENT.status)
    /\ IDLE \in SessionStates
    /\ IDLE.at = "idle"
    /\ IDLE.on \notin Actions
  BY NoneAssumption, KindAssumption
     DEF ABSENT, Row, Statuses, Active, StampsMatch, Decided, ActionTypes, IDLE, SessionStates

LEMMA InitInvariant == Init => IInv
  <1> SUFFICES ASSUME Init PROVE IInv
    OBVIOUS
  <1>1. TypeOK
    BY AbsentIsNone DEF Init, TypeOK
  <1>2. Busy /\ SessionsSound /\ WrittenAlone
    BY AbsentIsNone DEF Init, Busy, SessionsSound, WrittenAlone
  <1>3. StampsMatchStatus /\ DecisionsStand /\ OneActiveAction
    BY AbsentIsNone DEF Init, StampsMatchStatus, DecisionsStand, OneActiveAction
  <1> QED
    BY <1>1, <1>2, <1>3 DEF IInv

-----------------------------------------------------------------------------
\* A step that changes only the session of s, to IDLE or to a state that is not
\* written and holds a sound row, keeps the invariant.
LEMMA QuietStep ==
    ASSUME IInv, NEW s \in Sessions, NEW new \in SessionStates,
           UNCHANGED action, session' = [session EXCEPT ![s] = new],
           new.at # "written",
           new.at = "idle" <=> new = IDLE,
           new # IDLE =>
             /\ new.on \in Actions
             /\ new.row \in Row
             /\ WellReferred(new.row)
             /\ StampsMatch(new.row)
             /\ Decided(new.row, IF new.target = NONE THEN new.row.status ELSE new.target)
             /\ new.target # NONE => Allowed(new.row.status, new.target, new.reason)
    PROVE  IInv'
  <1> USE DEF IInv
  <1>0. session'[s] = new /\ \A u \in Sessions \ {s} : session'[u] = session[u]
    BY DEF TypeOK
  <1>1. TypeOK'
    BY <1>0 DEF TypeOK
  <1>2. Busy'
    BY <1>0 DEF Busy
  <1>3. SessionsSound'
    BY <1>0 DEF SessionsSound, SessionSound
  <1>4. StampsMatchStatus' /\ DecisionsStand' /\ OneActiveAction'
    BY DEF StampsMatchStatus, DecisionsStand, OneActiveAction
  <1>5. WrittenAlone'
    BY <1>0 DEF WrittenAlone, Duplicated
  <1> QED
    BY <1>1, <1>2, <1>3, <1>4, <1>5

LEMMA PostStep ==
    ASSUME IInv, NEW s \in Sessions, NEW a \in Actions, Post(s, a)
    PROVE  IInv'
  <1>1. PICK kind \in Kinds, ref \in Recommendations \cup {NONE},
             target \in Statuses, reason \in BOOLEAN :
          /\ Consistent(kind, ref, target, reason)
          /\ session' = [session EXCEPT ![s] =
               [at |-> "validated", on |-> a, row |-> NewRow(kind, ref),
                target |-> target, reason |-> reason]]
    BY DEF Post
  <1> DEFINE row == NewRow(kind, ref)
             new == [at |-> "validated", on |-> a, row |-> row,
                     target |-> target, reason |-> reason]
  <1>2. /\ row \in Row
        /\ row.kind = kind
        /\ row.ref = ref
        /\ row.status = "pending"
        /\ StampsMatch(row)
    BY DEF NewRow, ABSENT, Row, Statuses, StampsMatch
  <1>3. WellReferred(row) /\ Decided(row, target) /\ Allowed(row.status, target, reason)
    BY <1>1, <1>2 DEF Consistent, WellReferred, Decided, Allowed,
                      ALLOWED_STATUS_TRANSITIONS, Statuses
  <1>4. target # NONE
    BY NoneAssumption
  <1>5. new \in SessionStates /\ new # IDLE /\ new.at = "validated"
    BY <1>2 DEF SessionStates, IDLE
  <1> HIDE DEF row
  <1> QED
    BY <1>1, <1>2, <1>3, <1>4, <1>5, QuietStep DEF Post, row

LEMMA PatchStep ==
    ASSUME IInv, NEW s \in Sessions, NEW a \in Actions, Patch(s, a)
    PROVE  IInv'
  <1>1. PICK target \in Statuses \cup {NONE}, reason \in BOOLEAN :
          /\ Consistent(action[a].kind, action[a].ref,
                        IF target = NONE THEN action[a].status ELSE target, reason)
          /\ target # NONE => Allowed(action[a].status, target, reason)
          /\ session' = [session EXCEPT ![s] =
               [at |-> "validated", on |-> a, row |-> [action[a] EXCEPT !.reason = reason],
                target |-> target, reason |-> reason]]
    BY DEF Patch
  <1> DEFINE old == action[a]
             row == [old EXCEPT !.reason = reason]
             new == [at |-> "validated", on |-> a, row |-> row,
                     target |-> target, reason |-> reason]
  <1>2. old \in Row /\ WellReferred(old) /\ StampsMatch(old) /\ Decided(old, old.status)
    BY DEF Patch, IInv, TypeOK, StampsMatchStatus, DecisionsStand
  <1>3. /\ row \in Row
        /\ row.kind = old.kind
        /\ row.ref = old.ref
        /\ row.status = old.status
        /\ row.completedAt = old.completedAt
        /\ row.cancelledAt = old.cancelledAt
        /\ row.reason = reason
    BY <1>2 DEF Row
  <1>4. old.status = "dismissed" => reason
    <2>1. CASE target = NONE
      BY <2>1, <1>1 DEF Consistent
    <2>2. CASE target # NONE
      BY <2>2, <1>1, <1>2 DEF Allowed, ALLOWED_STATUS_TRANSITIONS
    <2> QED
      BY <2>1, <2>2
  <1>5. StampsMatch(row)
    BY <1>2, <1>3, <1>4 DEF StampsMatch
  <1>6. /\ WellReferred(row)
        /\ Decided(row, IF target = NONE THEN row.status ELSE target)
        /\ target # NONE => Allowed(row.status, target, reason)
    BY <1>1, <1>2, <1>3 DEF WellReferred, Decided, Consistent
  <1>7. new \in SessionStates /\ new # IDLE /\ new.at = "validated"
    BY <1>3 DEF SessionStates, IDLE
  <1> HIDE DEF row
  <1> QED
    BY <1>1, <1>3, <1>5, <1>6, <1>7, QuietStep DEF Patch, row

LEMMA CheckDuplicateStep ==
    ASSUME IInv, NEW s \in Sessions, CheckDuplicate(s)
    PROVE  IInv'
  <1> DEFINE old == session[s]
             new == session'[s]
  <1>1. /\ old \in SessionStates
        /\ old # IDLE
        /\ old.on \in Actions
        /\ old.row \in Row
        /\ WellReferred(old.row)
        /\ SessionSound(s)
    BY AbsentIsNone DEF IInv, CheckDuplicate, TypeOK, SessionsSound
  <1>2. new = IDLE \/ new = [old EXCEPT !.at = "checked"]
    BY DEF IInv, TypeOK, CheckDuplicate
  <1>3. session' = [session EXCEPT ![s] = new] /\ UNCHANGED action
    BY DEF IInv, TypeOK, CheckDuplicate
  <1>4. CASE new = IDLE
    BY <1>3, <1>4, AbsentIsNone, QuietStep
  <1>5. CASE new = [old EXCEPT !.at = "checked"]
    <2>1. /\ new \in SessionStates
          /\ new.at = "checked"
          /\ new # IDLE
          /\ new.on = old.on
          /\ new.row = old.row
          /\ new.target = old.target
          /\ new.reason = old.reason
      BY <1>1, <1>5, AbsentIsNone DEF SessionStates
    <2> HIDE DEF new
    <2> QED
      BY <1>1, <1>3, <2>1, QuietStep DEF SessionSound
  <1> QED
    BY <1>2, <1>4, <1>5

LEMMA AbortStep ==
    ASSUME IInv, NEW s \in Sessions, Abort(s)
    PROVE  IInv'
  BY AbsentIsNone, QuietStep DEF Abort

LEMMA WriteStep ==
    ASSUME IInv, NEW s \in Sessions, Write(s)
    PROVE  IInv'
  <1> DEFINE old == session[s]
             new == session'[s]
  <1>1. /\ old \in SessionStates
        /\ old # IDLE
        /\ old.on \in Actions
        /\ old.row \in Row
        /\ WellReferred(old.row)
        /\ SessionSound(s)
    BY AbsentIsNone DEF IInv, Write, TypeOK, SessionsSound
  <1>2. /\ session' = [session EXCEPT ![s] = new]
        /\ \A u \in Sessions \ {s} : session'[u] = session[u]
        /\ UNCHANGED action
    BY DEF IInv, TypeOK, Write
  <1>3. CASE new = IDLE
    BY <1>2, <1>3, AbsentIsNone, QuietStep
  <1>4. CASE new # IDLE
    <2>1. /\ new = [old EXCEPT !.at = "written"]
          /\ Active(old.row) => ~Duplicated(old.on, old.row)
      BY <1>4 DEF IInv, TypeOK, Write
    <2>2. /\ new \in SessionStates
          /\ new.at = "written"
          /\ new.on = old.on
          /\ new.row = old.row
          /\ new.target = old.target
          /\ new.reason = old.reason
      BY <1>1, <2>1 DEF SessionStates
    <2>3. TypeOK'
      BY <1>1, <1>2, <2>2 DEF IInv, TypeOK
    <2>4. Busy'
      BY <1>2, <1>4, <2>2 DEF IInv, Busy
    <2>5. SessionsSound'
      BY <1>1, <1>2, <2>2 DEF IInv, SessionsSound, SessionSound
    <2>6. StampsMatchStatus' /\ DecisionsStand' /\ OneActiveAction'
      BY <1>2 DEF IInv, StampsMatchStatus, DecisionsStand, OneActiveAction
    <2>7. WrittenAlone'
      <3>1. ASSUME NEW u \in Sessions \ {s}, session[u].at = "written"
            PROVE  /\ session[u].on # old.on
                   /\ ~(Active(old.row) /\ Active(session[u].row)
                          /\ SameKey(session[u].row, old.row))
        BY <3>1 DEF Write, RowLocked, KeyHeld
      <3>2. ASSUME NEW v \in Sessions, session'[v].at = "written"
            PROVE  (Active(session[v].row) => ~Duplicated(session[v].on, session[v].row))'
        <4>1. CASE v = s
          BY <1>2, <2>1, <2>2, <4>1 DEF Duplicated
        <4>2. CASE v # s
          BY <1>2, <3>2, <4>2 DEF IInv, WrittenAlone, Duplicated
        <4> QED
          BY <4>1, <4>2
      <3>3. ASSUME NEW v \in Sessions, NEW u \in Sessions \ {v},
                   session'[v].at = "written", session'[u].at = "written"
            PROVE  /\ session'[u].on # session'[v].on
                   /\ ~(Active(session'[v].row) /\ Active(session'[u].row)
                          /\ SameKey(session'[v].row, session'[u].row))
        <4>1. CASE v = s
          BY <1>2, <2>2, <3>1, <3>3, <4>1 DEF SameKey
        <4>2. CASE u = s
          BY <1>2, <2>2, <3>1, <3>3, <4>2
        <4>3. CASE v # s /\ u # s
          BY <1>2, <3>3, <4>3 DEF IInv, WrittenAlone
        <4> QED
          BY <4>1, <4>2, <4>3
      <3> QED
        BY <3>2, <3>3 DEF WrittenAlone
    <2> QED
      BY <2>3, <2>4, <2>5, <2>6, <2>7 DEF IInv
  <1> QED
    BY <1>3, <1>4

-----------------------------------------------------------------------------
\* What the table holds after the row of action a is replaced by a sound one that is
\* active only if another row of the same key, alone in the table, was.
LEMMA NewRowInTable ==
    ASSUME IInv, NEW a \in Actions, NEW row \in Row,
           action' = [action EXCEPT ![a] = row],
           WellReferred(row), StampsMatch(row), Decided(row, row.status),
           Active(row) => ~Duplicated(a, row)
    PROVE  /\ action' \in [Actions -> Row \cup {ABSENT}]
           /\ \A b \in Actions : action'[b] # ABSENT => WellReferred(action'[b])
           /\ StampsMatchStatus'
           /\ DecisionsStand'
           /\ OneActiveAction'
  <1>1. action'[a] = row /\ \A b \in Actions \ {a} : action'[b] = action[b]
    BY DEF IInv, TypeOK
  <1>2. action' \in [Actions -> Row \cup {ABSENT}]
    BY DEF IInv, TypeOK
  <1>3. \A b \in Actions : action'[b] # ABSENT => WellReferred(action'[b])
    BY <1>1 DEF IInv, TypeOK
  <1>4. StampsMatchStatus' /\ DecisionsStand'
    BY <1>1 DEF IInv, StampsMatchStatus, DecisionsStand
  <1>5. OneActiveAction'
    BY <1>1 DEF IInv, OneActiveAction, Duplicated, SameKey
  <1> QED
    BY <1>2, <1>3, <1>4, <1>5

LEMMA CommitStep ==
    ASSUME IInv, NEW s \in Sessions, Commit(s)
    PROVE  IInv'
  <1> DEFINE old == session[s]
             a == old.on
             row == IF old.target = NONE THEN old.row
                    ELSE Transitioned(old.row, old.target, old.reason)
  <1>1. /\ old \in SessionStates
        /\ old # IDLE
        /\ old.at = "written"
        /\ a \in Actions
        /\ old.row \in Row
        /\ WellReferred(old.row)
        /\ SessionSound(s)
    BY AbsentIsNone DEF IInv, Commit, TypeOK, SessionsSound
  <1>2. /\ action' = [action EXCEPT ![a] = row]
        /\ session' = [session EXCEPT ![s] = IDLE]
        /\ session'[s] = IDLE
        /\ \A u \in Sessions \ {s} : session'[u] = session[u]
    BY DEF IInv, TypeOK, Commit, Saved
  <1>3. /\ row \in Row
        /\ row.kind = old.row.kind
        /\ row.ref = old.row.ref
        /\ StampsMatch(row)
        /\ Decided(row, row.status)
        /\ Active(row) => Active(old.row)
    <2>1. CASE old.target = NONE
      BY <1>1, <2>1 DEF SessionSound
    <2>2. CASE old.target # NONE
      <3>1. /\ old.target \in Statuses
            /\ old.reason \in BOOLEAN
            /\ old.row.status \in Statuses
            /\ old.row.reason \in BOOLEAN
        BY <1>1, <2>2 DEF SessionStates, Row
      <3>2. /\ Allowed(old.row.status, old.target, old.reason)
            /\ Decided(old.row, old.target)
        BY <1>1, <2>2 DEF SessionSound
      <3>3. Allowed(old.row.status, old.target, old.reason \/ old.row.reason)
        BY <3>1, <3>2 DEF Allowed
      <3>4. /\ row \in Row
            /\ row.kind = old.row.kind
            /\ row.ref = old.row.ref
            /\ row.status = old.target
            /\ StampsMatch(row)
        BY <1>1, <2>2, <3>1, <3>3, TransitionedRow
      <3>5. ActiveStatus(old.target) => ActiveStatus(old.row.status)
        BY <3>1, <3>2, ActiveFromActive
      <3> HIDE DEF row
      <3> QED
        BY <3>2, <3>4, <3>5 DEF Decided, Active
    <2> QED
      BY <2>1, <2>2
  <1> HIDE DEF row
  <1>4. WellReferred(row)
    BY <1>1, <1>3 DEF WellReferred
  <1>5. Active(row) => ~Duplicated(a, row)
    BY <1>1, <1>3 DEF IInv, WrittenAlone, Duplicated, SameKey
  <1>6. /\ action' \in [Actions -> Row \cup {ABSENT}]
        /\ \A b \in Actions : action'[b] # ABSENT => WellReferred(action'[b])
        /\ StampsMatchStatus'
        /\ DecisionsStand'
        /\ OneActiveAction'
    BY <1>1, <1>2, <1>3, <1>4, <1>5, NewRowInTable
  <1>7. TypeOK'
    BY <1>2, <1>6, AbsentIsNone DEF IInv, TypeOK
  <1>8. Busy' /\ SessionsSound'
    BY <1>2, AbsentIsNone DEF IInv, Busy, SessionsSound, SessionSound
  <1>9. WrittenAlone'
    <2>1. action'[a] = row /\ \A b \in Actions \ {a} : action'[b] = action[b]
      BY <1>1, <1>2 DEF IInv, TypeOK
    <2>2. ASSUME NEW u \in Sessions, session'[u].at = "written"
          PROVE  /\ u # s
                 /\ session'[u] = session[u]
                 /\ session[u].on # a
                 /\ Active(session[u].row) => ~Duplicated(session[u].on, session[u].row)'
      <3>1. u # s /\ session'[u] = session[u] /\ session[u].at = "written"
        BY <1>2, <2>2, AbsentIsNone
      <3>2. /\ session[u].on # a
            /\ ~(Active(session[u].row) /\ Active(old.row)
                   /\ SameKey(session[u].row, old.row))
            /\ Active(session[u].row) => ~Duplicated(session[u].on, session[u].row)
        BY <1>1, <3>1 DEF IInv, WrittenAlone, SameKey
      <3> QED
        BY <1>3, <2>1, <3>1, <3>2 DEF Duplicated, SameKey
    <2> QED
      BY <2>2 DEF IInv, WrittenAlone
  <1> QED
    BY <1>6, <1>7, <1>8, <1>9 DEF IInv

LEMMA TransitionStep ==
    ASSUME IInv, NEW a \in Actions, NEW target \in Endpoints, Transition(a, target)
    PROVE  IInv'
  <1> DEFINE old == action[a]
             reason == target = "dismissed"
             row == Transitioned(old, target, reason)
  <1>1. /\ old \in Row
        /\ old # ABSENT
        /\ WellReferred(old)
        /\ Decided(old, old.status)
        /\ old.status \in Statuses
        /\ old.reason \in BOOLEAN
    BY DEF IInv, Transition, TypeOK, DecisionsStand, Row
  <1>2. target \in Statuses /\ reason \in BOOLEAN
    BY DEF Endpoints, Statuses
  <1>3. /\ Allowed(old.status, target, reason \/ old.reason)
        /\ action' = [action EXCEPT ![a] = row]
        /\ UNCHANGED session
        /\ \A s \in Sessions : ~(session[s].at = "written" /\ session[s].on = a)
    BY DEF Transition
  <1>4. /\ row \in Row
        /\ row.kind = old.kind
        /\ row.ref = old.ref
        /\ row.status = target
        /\ StampsMatch(row)
    BY <1>1, <1>2, <1>3, TransitionedRow
  <1>5. Decided(old, target) /\ (ActiveStatus(target) => ActiveStatus(old.status))
    BY <1>1, <1>2, <1>3, DecidedStays, ActiveFromActive
  <1> HIDE DEF row, reason
  <1>6. /\ WellReferred(row)
        /\ Decided(row, row.status)
        /\ Active(row) => Active(old)
    BY <1>1, <1>4, <1>5 DEF WellReferred, Decided, Active
  <1>7. Active(row) => ~Duplicated(a, row)
    BY <1>4, <1>6 DEF IInv, OneActiveAction, Duplicated, SameKey
  <1>8. /\ action' \in [Actions -> Row \cup {ABSENT}]
        /\ \A b \in Actions : action'[b] # ABSENT => WellReferred(action'[b])
        /\ StampsMatchStatus'
        /\ DecisionsStand'
        /\ OneActiveAction'
    BY <1>3, <1>4, <1>6, <1>7, NewRowInTable
  <1>9. TypeOK' /\ Busy' /\ SessionsSound'
    BY <1>3, <1>8 DEF IInv, TypeOK, Busy, SessionsSound, SessionSound
  <1>10. WrittenAlone'
    <2>1. action'[a] = row /\ \A b \in Actions \ {a} : action'[b] = action[b]
      BY <1>3 DEF IInv, TypeOK
    <2>2. ASSUME NEW u \in Sessions, session[u].at = "written", Active(session[u].row)
          PROVE  ~Duplicated(session[u].on, session[u].row)'
      BY <1>3, <1>4, <1>6, <2>1, <2>2 DEF IInv, WrittenAlone, Duplicated, SameKey
    <2> QED
      BY <1>3, <2>2 DEF IInv, WrittenAlone
  <1> QED
    BY <1>8, <1>9, <1>10 DEF IInv

LEMMA Stutter == ASSUME IInv, UNCHANGED vars PROVE IInv'
  BY DEF IInv, vars, TypeOK, Busy, SessionsSound, SessionSound, StampsMatchStatus,
         DecisionsStand, OneActiveAction, WrittenAlone, Duplicated

-----------------------------------------------------------------------------
\* The invariant holds in every reachable state, for any number of actions and requests.
THEOREM Invariant == Spec => []IInv
  <1>1. ASSUME IInv, [Next]_vars PROVE IInv'
    <2>1. CASE \E s \in Sessions, a \in Actions : Post(s, a) \/ Patch(s, a)
      BY <1>1, <2>1, PostStep, PatchStep
    <2>2. CASE \E s \in Sessions : CheckDuplicate(s) \/ Write(s) \/ Commit(s) \/ Abort(s)
      BY <1>1, <2>2, CheckDuplicateStep, WriteStep, CommitStep, AbortStep
    <2>3. CASE \E a \in Actions, target \in Endpoints : Transition(a, target)
      BY <1>1, <2>3, TransitionStep
    <2>4. CASE UNCHANGED vars
      BY <1>1, <2>4, Stutter
    <2> QED
      BY <1>1, <2>1, <2>2, <2>3, <2>4 DEF Next
  <1> QED
    BY <1>1, InitInvariant, PTL DEF Spec

\* Rows and sessions keep their types, and only a manual task has no recommendation.
THEOREM TypeCorrect == Spec => []TypeOK
  BY Invariant, PTL DEF IInv

\* Status, timestamps and reason of an action agree, whatever stale rows are saved.
THEOREM StampsCorrect == Spec => []StampsMatchStatus
  BY Invariant, PTL DEF IInv

\* At most one action of a recommendation and type is active.
THEOREM OneActiveCorrect == Spec => []OneActiveAction
  BY Invariant, PTL DEF IInv

\* Actions of the types dismiss and mark_reviewed are never undecided.
THEOREM DecisionsCorrect == Spec => []DecisionsStand
  BY Invariant, PTL DEF IInv
=============================================================================
