CONSTANTS
    web = web  agent = agent
    s1 = s1  s2 = s2
    c1 = c1  d1 = d1  d2 = d2
    k1 = k1
    Workers <- MCWorkers
    Polled = {agent}
    Servers <- MCServers
    Host <- MCHost
    Callers <- MCCallers
    Posting = {c1}
    Keys = {k1}
    Capacity = 1  Threshold = 1
    MaxLeases = 2  MaxFaults = 1
    None = None
SYMMETRY Alike
SPECIFICATION Spec
INVARIANTS SingleUse LoadsBounded
PROPERTIES QuarantineHolds BookSpec
CHECK_DEADLOCK FALSE
