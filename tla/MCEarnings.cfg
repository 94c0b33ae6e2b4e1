SPECIFICATION Spec
CONSTANTS
    e1 = e1
    e2 = e2
    p1 = p1
    p2 = p2
    h1 = h1
    h2 = h2
    t1 = t1
    t2 = t2
    NoRef = NoRef
    Threads = {t1, t2}
    Events = {e1, e2}
    Periods = {p1, p2}
    Hooks = {h1, h2}
    RefundOf <- MCRefundOf
    Share = 2
    ReservePart = 2
    MinPayout = 1
    MaxAsks = 4
    MaxCrashes = 1
SYMMETRY Alike
INVARIANTS
    
    
    RefundSticks
CHECK_DEADLOCK FALSE
