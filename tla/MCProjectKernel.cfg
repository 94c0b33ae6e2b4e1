SPECIFICATION Spec
CONSTANTS
    part = part
    issue = issue
    boss = boss
    critic = critic
    t1 = t1
    t2 = t2
    Nobody = Nobody
    NoBody = NoBody
    Skip = Skip
    Keep = Keep
    Objects <- MCObjects
    Target <- MCTarget
    Values = {"ok", "fine", "bad", "open"}
    Open = "open"
    Walls <- MCWalls
    Principals = {boss, critic}
    Threads = {t1, t2}
    Patches <- MCPatches
    MaxProposals = 3
    MaxAhead = 1
    MaxGrants = 1
    MaxCrashes = 1
SYMMETRY ThreadsAlike
INVARIANTS
    WallsHold
    TerritoryKept
    VerdictsTrue
PROPERTY
    TruthSpec
CHECK_DEADLOCK FALSE
