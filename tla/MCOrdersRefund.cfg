SPECIFICATION Spec
CONSTANTS
    t1 = t1
    t2 = t2
    Threads = {t1}
    Price = 2
    Milestoned = {FALSE, TRUE}
    Stock = 1
    Awards = {1}
    MaxAsks = 7
    MaxCrashes = 0
INVARIANTS
    RefundReversesAll
CHECK_DEADLOCK FALSE
