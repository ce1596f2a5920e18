---------------------------- MODULE CreditLedger ----------------------------
(***************************************************************************)
(* The credit ledger of one workspace under concurrent transactions: the   *)
(* six movements of billing/services.py, each of them a sequence of        *)
(* statements at READ COMMITTED that reads committed entries only and      *)
(* locks nothing, over a table whose one defence is the unique constraint  *)
(* on the idempotency key.                                                 *)
(***************************************************************************)
EXTENDS Integers

CONSTANTS
    Transactions,  \* the transactions, one movement each
    Keys,          \* idempotency keys
    Amounts,       \* the amounts callers move
    Opening,       \* the balance of the entries there are to begin with
    NONE           \* the empty idempotency key: such a movement is not keyed

ASSUME KeyAssumption ==
    /\ NONE \notin Keys
    /\ Keys \cap Transactions = {}
ASSUME AmountAssumption ==
    /\ Amounts \subseteq Nat \ {0}
    /\ Opening \in Int

VARIABLES
    entries,       \* the committed CreditLedgerEntries
    balance,       \* what get_credit_balance returns: the sum of their amounts
    tx             \* tx[t]: what transaction t is at

vars == <<entries, balance, tx>>

Operations ==
    {"grant", "purchase", "reserve", "consume", "settle", "release", "refund"}

\* Those that ask for the balance first.
Screened == {"reserve", "consume"}

\* The signed amount of an entry.
Delta(op, amount) ==
    CASE op \in {"grant", "purchase", "release", "refund"} -> amount
      [] op \in Screened -> -amount
      [] op = "settle" -> 0

Entry == [by: Transactions, key: Keys \cup {NONE}, amount: Int, after: Int]

Open == {"replay?", "afford?", "look up", "price", "insert", "inserted"}

TxStates ==
    [at: Open \cup {"idle", "committed", "replayed", "refused"},
     op: Operations, key: Keys \cup {NONE}, amount: Amounts, after: Int]

TypeOK ==
    /\ entries \subseteq Entry
    /\ balance \in Int
    /\ tx \in [Transactions -> TxStates]
    /\ \A t \in Transactions :
         tx[t].at \in {"replay?", "afford?", "refused"} => tx[t].op \in Screened

Init ==
    /\ entries = {}
    /\ balance = Opening
    /\ tx \in [Transactions ->
                 [at: {"idle"}, op: Operations, key: Keys \cup {NONE},
                  amount: Amounts, after: {0}]]

\* The key is that of a committed entry.
Taken(key) == key # NONE /\ \E e \in entries : e.key = key

Goto(t, place) == tx' = [tx EXCEPT ![t].at = place]

-----------------------------------------------------------------------------
\* Mutant: every movement is screened, a refund, too.
StartScreened(t) ==
    /\ tx[t].at = "idle"
    /\ Goto(t, "replay?")
    /\ UNCHANGED <<entries, balance>>

Start(t) ==
    /\ tx[t].at = "idle"
    /\ Goto(t, IF tx[t].op \in Screened THEN "replay?" ELSE "look up")
    /\ UNCHANGED <<entries, balance>>

\* reserve_credits and consume_credits: an entry of the key is returned as it is.
ScreenReplay(t) ==
    /\ tx[t].at = "replay?"
    /\ Goto(t, IF Taken(tx[t].key) THEN "replayed" ELSE "afford?")
    /\ UNCHANGED <<entries, balance>>

\* InsufficientCredits.
ScreenBalance(t) ==
    /\ tx[t].at = "afford?"
    /\ Goto(t, IF balance < tx[t].amount THEN "refused" ELSE "look up")
    /\ UNCHANGED <<entries, balance>>

\* _record_ledger_entry: the lookup of the key, again.
LookUp(t) ==
    /\ tx[t].at = "look up"
    /\ Goto(t, IF Taken(tx[t].key) THEN "replayed" ELSE "price")
    /\ UNCHANGED <<entries, balance>>

\* new_balance, from the entries committed by now.
Price(t) ==
    /\ tx[t].at = "price"
    /\ tx' = [tx EXCEPT ![t].at = "insert",
                        ![t].after = balance + Delta(tx[t].op, tx[t].amount)]
    /\ UNCHANGED <<entries, balance>>

\* Mutant: a transaction waits for any other that is about to insert its key.
ContendedEarly(t) ==
    /\ tx[t].key # NONE
    /\ \E u \in Transactions \ {t} :
         tx[u].at \in {"insert", "inserted"} /\ tx[u].key = tx[t].key

\* Another transaction has inserted the key and not committed yet.
Contended(t) ==
    /\ tx[t].key # NONE
    /\ \E u \in Transactions \ {t} : tx[u].at = "inserted" /\ tx[u].key = tx[t].key

\* Mutant: nothing but the lookup stops a second entry of a key.
InsertUnchecked(t) ==
    /\ tx[t].at = "insert"
    /\ Goto(t, "inserted")
    /\ UNCHANGED <<entries, balance>>

\* Mutant: the key of an open transaction is taken for a committed one.
InsertWithoutWait(t) ==
    /\ tx[t].at = "insert"
    /\ Goto(t, IF Contended(t) \/ Taken(tx[t].key) THEN "replayed" ELSE "inserted")
    /\ UNCHANGED <<entries, balance>>

\* The INSERT, in a savepoint: it waits for the transaction that holds the key; when
\* that one has committed, IntegrityError, and its entry is returned.
Insert(t) ==
    /\ tx[t].at = "insert"
    /\ ~Contended(t)
    /\ Goto(t, IF Taken(tx[t].key) THEN "replayed" ELSE "inserted")
    /\ UNCHANGED <<entries, balance>>

Commit(t) ==
    LET amount == Delta(tx[t].op, tx[t].amount)
    IN  /\ tx[t].at = "inserted"
        /\ entries' = entries \cup
             {[by |-> t, key |-> tx[t].key, amount |-> amount, after |-> tx[t].after]}
        /\ balance' = balance + amount
        /\ Goto(t, "committed")

\* The caller's transaction raises or its process dies; the caller may come back.
Rollback(t) ==
    /\ tx[t].at \in Open
    /\ Goto(t, "idle")
    /\ UNCHANGED <<entries, balance>>

Next ==
    \E t \in Transactions :
      \/ Start(t)
      \/ ScreenReplay(t)
      \/ ScreenBalance(t)
      \/ LookUp(t)
      \/ Price(t)
      \/ Insert(t)
      \/ Commit(t)
      \/ Rollback(t)

Spec == Init /\ [][Next]_vars

\* A transaction that runs is run on; that it starts at all, or rolls back, is not assumed.
\* PostgreSQL queues those that wait for a key, so one that waits is let in.
Fairness ==
    \A t \in Transactions :
      /\ WF_vars(ScreenReplay(t) \/ ScreenBalance(t) \/ LookUp(t) \/ Price(t) \/ Commit(t))
      /\ SF_vars(Insert(t))

FairSpec == Spec /\ Fairness

-----------------------------------------------------------------------------
(* Properties *)

\* An idempotency key has at most one entry, however its transactions interleave: a
\* replay never moves credits twice.
OneEntryPerKey ==
    \A e, f \in entries : e.key = f.key /\ e.key # NONE => e = f

\* A caller that was told its movement is there already finds it in the ledger, even if
\* the transaction it had waited for rolled back.
ReplaysHaveEntries ==
    \A t \in Transactions : tx[t].at = "replayed" => Taken(tx[t].key)

\* No transaction waits for ever on the key of another.
TransactionsEnd ==
    \A t \in Transactions : tx[t].at \in Open ~> tx[t].at \notin Open

(* The ledger implements the keyed one; a movement with no key has its own. *)

MovementKey(e) == IF e.key = NONE THEN e.by ELSE e.key
Deltas == UNION {{a, -a, 0} : a \in Amounts}

Keyed == INSTANCE KeyedLedger WITH
    Keys <- Keys \cup Transactions,
    Worth <- [k \in Keys \cup Transactions |-> Deltas],
    applied <- {MovementKey(e) : e \in entries}

\* Credits move once per key and by the amount of that one movement.
ImplementsKeyedLedger == Keyed!Spec
=============================================================================
