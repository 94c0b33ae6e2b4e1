CONSTANTS
    Nodes <- MCNodes
    Blueprints <- MCBlueprints
    MaxWorkers = 2
    MaxTotal = 5
    MaxTimeouts = 1
SPECIFICATION DagFairSpec
INVARIANTS KeysRunOnce GatesDecide PassesApart
PROPERTIES VerdictsStand RouteEnds
CHECK_DEADLOCK FALSE
