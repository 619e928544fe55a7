\* Any two requests served at the same time, over any contents of the two tables.
SPECIFICATION FairTablesSpec
CONSTANTS
    Scenarios = {s1}
    Slugs = {c1, c2}
    Labels = {l1, l2}
    SlugAsLabel = l1
    Transactions = {t1, t2}
    Absent = Absent
    Unsaid = Unsaid
INVARIANT LockedMovesStayInStep
PROPERTIES
    EveryTransactionEnds
    
CHECK_DEADLOCK FALSE
