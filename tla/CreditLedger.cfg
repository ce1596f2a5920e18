SPECIFICATION FairSpec
CONSTANTS
    Transactions = {t1, t2}
    Keys = {k1}
    Amounts = {1, 2}
    Opening = 1
    NONE = NONE
INVARIANTS
    TypeOK
    OneEntryPerKey
    ReplaysHaveEntries
PROPERTIES
    ImplementsKeyedLedger
    TransactionsEnd
CHECK_DEADLOCK FALSE
