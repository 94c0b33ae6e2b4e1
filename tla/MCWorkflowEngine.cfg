\* One run through every phase, gate, retry, rebuild and restart, and left alone.
SPECIFICATION FairSpec
CONSTANTS
  MaxRecovery = 1
  ApproverChoices <- MCApprovers
  MaxRetries = 4
INVARIANTS GatesEarned FreshKeys EffortBounded PauseAtItsPhase
PROPERTIES OverIsOver DriveEnds
CHECK_DEADLOCK FALSE
