SPECIFICATION Spec
CONSTANTS
    t1 = t1
    t2 = t2
    Threads = {t1, t2}
    Price = 2
    Milestoned = {FALSE, TRUE}
    Stock = 1
    Awards = {1}
    MaxAsks = 6
    MaxCrashes = 1
SYMMETRY ThreadsAlike
INVARIANTS
    StockConserved
    LedgerWithinProvider
    NoMoneyWhenCancelled
    BooksSettle
PROPERTIES
    FinalStays
    FreezeHolds
CHECK_DEADLOCK FALSE
