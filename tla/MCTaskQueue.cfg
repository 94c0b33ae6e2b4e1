\* Two workers, three tasks two of which share a key, two callers: lapsing leases, stale
\* failure reports, crashes and a cancellation.
SPECIFICATION FairSpec
CONSTANTS
  t1 = t1  t2 = t2  t3 = t3  w1 = w1  w2 = w2  c1 = c1  c2 = c2  k = k
  Task = {t1, t2, t3}
  Worker = {w1, w2}
  Client = {c1, c2}
  NoTask = NoTask
  NoWorker = NoWorker
  NoKey = NoKey
  KeyOf <- MCSharedKey
  MaxAttempts = 2
  LeaseTTL = 1
  RetryDelays = {1}
  Reclaimers = {w1, w2}
  Cancellable = {t3}
  MaxTime = 3
INVARIANTS LeaseExclusive DeadOnlyExhausted KeyedOnce
PROPERTIES PoolSpec NoTaskLost
