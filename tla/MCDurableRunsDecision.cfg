\* An answer given as the worker checkpoints is overwritten.
SPECIFICATION Spec
CONSTANTS
  q1 = q1
  q2 = q2
  Requests <- MCOneRequest
  MaxSteps = 1
  MaxAsks = 2
  MaxTasks = 3
  MaxCrashes = 0
INVARIANTS DecisionsStick
CHECK_DEADLOCK FALSE
