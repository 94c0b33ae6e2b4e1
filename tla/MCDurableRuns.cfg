\* Two request threads, the worker, a crash or a graceful stop.
SPECIFICATION FairSpec
CONSTANTS
  q1 = q1
  q2 = q2
  Requests <- MCTwoRequests
  MaxSteps = 1
  MaxAsks = 3
  MaxTasks = 3
  MaxCrashes = 1
INVARIANTS TypeOK OwedIsQueued AckAfterCheckpoint ReportsBounded
PROPERTIES QueuedRunSettles
CHECK_DEADLOCK FALSE
