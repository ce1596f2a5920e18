------------------------ MODULE CreditLedger_proofs ------------------------
(***************************************************************************)
(* Proofs about CreditLedger, for any number of transactions, keys and     *)
(* amounts: it implements KeyedLedger.                                     *)
(***************************************************************************)
EXTENDS CreditLedger, TLAPS

(* The inductive invariant *)

\* A transaction that has inserted its key is the only one to hold it.
InsertedAlone ==
    \A t \in Transactions :
      tx[t].at = "inserted" =>
        /\ ~Taken(tx[t].key)
        /\ \A u \in Transactions \ {t} :
             tx[u].at = "inserted" => tx[t].key = NONE \/ tx[u].key # tx[t].key

\* An entry is that of a transaction that has committed, and there is one for each.
EntriesCommitted ==
    /\ \A e \in entries : tx[e.by].at = "committed"
    /\ \A e, f \in entries : e.by = f.by => e = f

IInv ==
    /\ TypeOK
    /\ InsertedAlone
    /\ EntriesCommitted
    /\ OneEntryPerKey
    /\ ReplaysHaveEntries

-----------------------------------------------------------------------------
LEMMA Initially ==
    Init => IInv
<1> SUFFICES ASSUME Init
             PROVE  IInv
  OBVIOUS
<1>1. tx \in [Transactions -> TxStates] /\ \A t \in Transactions : tx[t].at = "idle"
  BY DEF Init, TxStates
<1>2. TypeOK
  BY <1>1, AmountAssumption DEF Init, TypeOK
<1>3. QED
  BY <1>1, <1>2 DEF Init, IInv, InsertedAlone, EntriesCommitted, OneEntryPerKey,
                    ReplaysHaveEntries

\* A transaction that goes on keeps all it has but its place.
Moved(t, place) ==
    /\ tx' \in [Transactions -> TxStates]
    /\ tx'[t].at = place
    /\ \A u \in Transactions :
         /\ tx'[u].op = tx[u].op
         /\ tx'[u].key = tx[u].key
         /\ u # t => tx'[u] = tx[u]

LEMMA GotoFacts ==
    ASSUME TypeOK, NEW t \in Transactions,
           NEW place \in Open \cup {"idle", "committed", "replayed", "refused"},
           Goto(t, place)
    PROVE  Moved(t, place)
<1>1. tx' = [tx EXCEPT ![t] = [tx[t] EXCEPT !.at = place]]
  BY DEF Goto
<1>2. tx \in [Transactions -> TxStates]
  BY DEF TypeOK
<1>3. tx[t] \in TxStates
  BY <1>2
<1>4. /\ [tx[t] EXCEPT !.at = place].at = place
      /\ [tx[t] EXCEPT !.at = place].op = tx[t].op
      /\ [tx[t] EXCEPT !.at = place].key = tx[t].key
      /\ [tx[t] EXCEPT !.at = place].amount = tx[t].amount
      /\ [tx[t] EXCEPT !.at = place].after = tx[t].after
  BY <1>3 DEF TxStates
<1>5. [tx[t] EXCEPT !.at = place] \in TxStates
  BY <1>3 DEF TxStates
<1>6. QED
  BY <1>1, <1>2, <1>4, <1>5 DEF Moved

\* A step that leaves the entries alone and inserts nothing keeps the invariant; it may
\* say that the key is taken only when it is.
LEMMA QuietStep ==
    ASSUME IInv, NEW t \in Transactions, NEW place, Goto(t, place),
           UNCHANGED <<entries, balance>>, tx[t].at \notin {"committed"},
           place \in {"idle", "replay?", "afford?", "look up", "price", "replayed", "refused"},
           place = "replayed" => Taken(tx[t].key),
           place \in {"replay?", "afford?", "refused"} => tx[t].op \in Screened
    PROVE  IInv'
<1> USE DEF IInv
<1>1. Moved(t, place)
  BY GotoFacts DEF Open
<1>2. TypeOK'
  BY <1>1 DEF Moved, TypeOK
<1>3. \A key : Taken(key)' <=> Taken(key)
  BY DEF Taken
<1>4. InsertedAlone'
  <2> SUFFICES ASSUME NEW u \in Transactions, tx'[u].at = "inserted"
               PROVE  /\ ~Taken(tx[u].key)'
                      /\ \A v \in Transactions \ {u} :
                           tx'[v].at = "inserted" => tx'[u].key = NONE \/ tx'[v].key # tx'[u].key
    BY DEF InsertedAlone
  <2>1. u # t /\ tx'[u] = tx[u]
    BY <1>1 DEF Moved
  <2>2. ~Taken(tx[u].key)'
    BY <2>1 DEF InsertedAlone, Taken
  <2>3. ASSUME NEW v \in Transactions \ {u}, tx'[v].at = "inserted"
        PROVE  tx'[u].key = NONE \/ tx'[v].key # tx'[u].key
    <3>1. tx[v].at = "inserted"
      BY <1>1, <2>3 DEF Moved
    <3>2. QED
      BY <1>1, <2>1, <2>3, <3>1 DEF Moved, InsertedAlone
  <2>4. QED
    BY <2>2, <2>3
<1>5. EntriesCommitted'
  BY <1>1 DEF Moved, EntriesCommitted, TypeOK, Entry
<1>6. OneEntryPerKey'
  BY DEF OneEntryPerKey
<1>7. ReplaysHaveEntries'
  BY <1>1, <1>3 DEF Moved, ReplaysHaveEntries
<1>8. QED
  BY <1>2, <1>4, <1>5, <1>6, <1>7

LEMMA Inductive ==
    IInv /\ [Next]_vars => IInv'
<1> SUFFICES ASSUME IInv, [Next]_vars
             PROVE  IInv'
  OBVIOUS
<1>1. ASSUME NEW t \in Transactions, Start(t)
      PROVE  IInv'
  <2>1. CASE tx[t].op \in Screened
    BY <1>1, <2>1, QuietStep DEF Start
  <2>2. CASE tx[t].op \notin Screened
    BY <1>1, <2>2, QuietStep DEF Start
  <2>3. QED
    BY <2>1, <2>2
<1>2. ASSUME NEW t \in Transactions, ScreenReplay(t)
      PROVE  IInv'
  <2>1. tx[t].op \in Screened
    BY <1>2 DEF ScreenReplay, IInv, TypeOK
  <2>2. CASE Taken(tx[t].key)
    BY <1>2, <2>1, <2>2, QuietStep DEF ScreenReplay
  <2>3. CASE ~Taken(tx[t].key)
    BY <1>2, <2>1, <2>3, QuietStep DEF ScreenReplay
  <2>4. QED
    BY <2>2, <2>3
<1>3. ASSUME NEW t \in Transactions, ScreenBalance(t)
      PROVE  IInv'
  <2>1. tx[t].op \in Screened
    BY <1>3 DEF ScreenBalance, IInv, TypeOK
  <2>2. CASE balance < tx[t].amount
    BY <1>3, <2>1, <2>2, QuietStep DEF ScreenBalance
  <2>3. CASE ~(balance < tx[t].amount)
    BY <1>3, <2>1, <2>3, QuietStep DEF ScreenBalance
  <2>4. QED
    BY <2>2, <2>3
<1>4. ASSUME NEW t \in Transactions, LookUp(t)
      PROVE  IInv'
  <2>1. CASE Taken(tx[t].key)
    BY <1>4, <2>1, QuietStep DEF LookUp
  <2>2. CASE ~Taken(tx[t].key)
    BY <1>4, <2>2, QuietStep DEF LookUp
  <2>3. QED
    BY <2>1, <2>2
<1>5. ASSUME NEW t \in Transactions, Price(t)
      PROVE  IInv'
  <2>1. Delta(tx[t].op, tx[t].amount) \in Int
    BY AmountAssumption DEF IInv, TypeOK, TxStates, Delta, Operations, Screened
  <2> DEFINE price == balance + Delta(tx[t].op, tx[t].amount)
  <2>2. price \in Int
    BY <2>1 DEF IInv, TypeOK
  <2>3. /\ tx[t].at = "price"
        /\ tx' = [tx EXCEPT ![t] = [tx[t] EXCEPT !.at = "insert", !.after = price]]
        /\ UNCHANGED <<entries, balance>>
    BY <1>5 DEF Price, IInv, TypeOK
  <2> HIDE DEF price
  <2>4. [tx[t] EXCEPT !.at = "insert", !.after = price] \in TxStates
    BY <2>2 DEF IInv, TypeOK, TxStates, Open
  <2>5. /\ tx'[t].at = "insert" /\ tx'[t].key = tx[t].key
        /\ \A u \in Transactions \ {t} : tx'[u] = tx[u]
    BY <2>3 DEF IInv, TypeOK, TxStates
  <2>6. TypeOK'
    BY <2>3, <2>4, <2>5 DEF IInv, TypeOK
  <2>7. InsertedAlone' /\ EntriesCommitted' /\ OneEntryPerKey' /\ ReplaysHaveEntries'
    BY <2>3, <2>5 DEF IInv, InsertedAlone, EntriesCommitted, OneEntryPerKey,
                      ReplaysHaveEntries, Taken, TypeOK, Entry
  <2>8. QED
    BY <2>6, <2>7 DEF IInv
<1>6. ASSUME NEW t \in Transactions, Insert(t)
      PROVE  IInv'
  <2>1. CASE Taken(tx[t].key)
    BY <1>6, <2>1, QuietStep DEF Insert
  <2>2. CASE ~Taken(tx[t].key)
    <3>1. Goto(t, "inserted") /\ UNCHANGED <<entries, balance>> /\ tx[t].at = "insert"
      BY <1>6, <2>2 DEF Insert
    <3>2. Moved(t, "inserted")
      BY <3>1, GotoFacts DEF IInv, Open
    <3>3. TypeOK'
      BY <3>1, <3>2 DEF Moved, IInv, TypeOK
    <3>4. InsertedAlone'
      BY <1>6, <2>2, <3>1, <3>2 DEF Moved, IInv, InsertedAlone, Insert, Contended, Taken
    <3>5. EntriesCommitted' /\ OneEntryPerKey' /\ ReplaysHaveEntries'
      BY <3>1, <3>2 DEF Moved, IInv, EntriesCommitted, OneEntryPerKey, ReplaysHaveEntries,
                        Taken, TypeOK, Entry
    <3>6. QED
      BY <3>3, <3>4, <3>5 DEF IInv
  <2>3. QED
    BY <2>1, <2>2
<1>7. ASSUME NEW t \in Transactions, Commit(t)
      PROVE  IInv'
  <2> DEFINE amount == Delta(tx[t].op, tx[t].amount)
             new == [by |-> t, key |-> tx[t].key, amount |-> amount, after |-> tx[t].after]
  <2>1. amount \in Int
    BY AmountAssumption DEF IInv, TypeOK, TxStates, Delta, Operations, Screened
  <2>2. /\ tx[t].at = "inserted"
        /\ entries' = entries \cup {new}
        /\ balance' = balance + amount
        /\ Goto(t, "committed")
    BY <1>7 DEF Commit
  <2> HIDE DEF amount
  <2>3. new \in Entry
    BY <2>1 DEF IInv, TypeOK, TxStates, Entry
  <2>4. new.by = t /\ new.key = tx[t].key
    OBVIOUS
  <2> HIDE DEF new
  <2>5. Moved(t, "committed")
    BY <2>2, GotoFacts DEF IInv
  <2>6. TypeOK'
    BY <2>1, <2>2, <2>3, <2>5 DEF Moved, IInv, TypeOK
  <2>7. \A e \in entries : e.by # t
    BY <2>2 DEF IInv, EntriesCommitted
  <2>8. ~Taken(tx[t].key)
    BY <2>2 DEF IInv, InsertedAlone
  <2>9. InsertedAlone'
    BY <2>2, <2>4, <2>5 DEF Moved, IInv, InsertedAlone, Taken
  <2>10. EntriesCommitted'
    BY <2>2, <2>4, <2>5, <2>7 DEF Moved, IInv, EntriesCommitted, TypeOK, Entry
  <2>11. OneEntryPerKey'
    BY <2>2, <2>4, <2>8 DEF IInv, OneEntryPerKey, Taken
  <2>12. ReplaysHaveEntries'
    BY <2>2, <2>5 DEF Moved, IInv, ReplaysHaveEntries, Taken
  <2>13. QED
    BY <2>6, <2>9, <2>10, <2>11, <2>12 DEF IInv
<1>8. ASSUME NEW t \in Transactions, Rollback(t)
      PROVE  IInv'
  BY <1>8, QuietStep DEF Rollback, Open
<1>9. CASE UNCHANGED vars
  BY <1>9 DEF vars, IInv, TypeOK, InsertedAlone, EntriesCommitted, OneEntryPerKey,
              ReplaysHaveEntries, Taken
<1>10. QED
  BY <1>1, <1>2, <1>3, <1>4, <1>5, <1>6, <1>7, <1>8, <1>9 DEF Next

\* The invariant the others follow from holds in every state of the ledger.
THEOREM Invariant ==
    Spec => []IInv
BY Initially, Inductive, PTL DEF Spec

\* Every variable keeps its type: what a transaction has read and is to write stays a movement of
\* one of the operations, with the amount asked for (billing/services.py).
THEOREM TypeCorrect ==
    Spec => []TypeOK
<1>1. IInv => TypeOK
  BY DEF IInv
<1>2. QED
  BY <1>1, Invariant, PTL

\* However transactions interleave, roll back and come again, a key has one entry.
THEOREM KeysCorrect ==
    Spec => []OneEntryPerKey
<1>1. IInv => OneEntryPerKey
  BY DEF IInv
<1>2. QED
  BY <1>1, Invariant, PTL

\* A caller told that its movement is there finds it in the ledger.
THEOREM ReplaysCorrect ==
    Spec => []ReplaysHaveEntries
<1>1. IInv => ReplaysHaveEntries
  BY DEF IInv
<1>2. QED
  BY <1>1, Invariant, PTL

\* Every step of the ledger is the first movement of a key, or moves nothing.
THEOREM Implements ==
    Spec => ImplementsKeyedLedger
<1>1. Init => Keyed!Init
  BY DEF Init, Keyed!Init
<1>2. IInv /\ [Next]_vars => [Keyed!Next]_Keyed!vars
  <2> SUFFICES ASSUME IInv, [Next]_vars
               PROVE  [Keyed!Next]_Keyed!vars
    OBVIOUS
  <2> DEFINE applied == {MovementKey(e) : e \in entries}
  <2>1. ASSUME NEW t \in Transactions, Commit(t)
        PROVE  Keyed!Next
    <3> DEFINE amount == Delta(tx[t].op, tx[t].amount)
               new == [by |-> t, key |-> tx[t].key, amount |-> amount, after |-> tx[t].after]
    <3>1. tx[t].at = "inserted" /\ entries' = entries \cup {new} /\ balance' = balance + amount
      BY <2>1 DEF Commit
    <3>2. amount \in Deltas
      BY DEF IInv, TypeOK, TxStates, Delta, Deltas, Operations, Screened
    <3>3. new.by = t /\ new.key = tx[t].key
      OBVIOUS
    <3> HIDE DEF amount, new
    <3>4. MovementKey(new) \in Keys \cup Transactions
      BY <3>3 DEF IInv, TypeOK, TxStates, MovementKey
    <3>5. applied' = applied \cup {MovementKey(new)}
      BY <3>1 DEF MovementKey
    <3>6. MovementKey(new) \notin applied
      <4>1. ASSUME NEW e \in entries, MovementKey(e) = MovementKey(new)
            PROVE  FALSE
        <5>1. e \in Entry /\ tx[e.by].at = "committed"
          BY DEF IInv, TypeOK, EntriesCommitted
        <5>2. e.by # t
          BY <3>1, <5>1
        <5>3. ~Taken(tx[t].key)
          BY <3>1 DEF IInv, InsertedAlone
        <5>4. e.by \in Transactions /\ e.key \in Keys \cup {NONE} /\ tx[t].key \in Keys \cup {NONE}
          BY <5>1 DEF Entry, IInv, TypeOK, TxStates
        <5>5. QED
          BY <3>3, <4>1, <5>2, <5>3, <5>4, KeyAssumption DEF MovementKey, Taken
      <4>2. QED
        BY <4>1
    <3>7. Keyed!Apply(MovementKey(new), amount)
      BY <3>1, <3>5, <3>6 DEF Keyed!Apply
    <3>8. QED
      BY <3>2, <3>4, <3>7 DEF Keyed!Next
  <2>2. CASE UNCHANGED <<entries, balance>>
    BY <2>2 DEF Keyed!vars, MovementKey
  <2>3. QED
    BY <2>1, <2>2 DEF Next, vars, Start, ScreenReplay, ScreenBalance, LookUp, Price, Insert,
                      Rollback
<1>3. QED
  BY <1>1, <1>2, Invariant, PTL DEF Spec, ImplementsKeyedLedger, Keyed!Spec
=============================================================================
