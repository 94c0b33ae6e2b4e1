----------------------------- MODULE TaskQueue ------------------------------
(***************************************************************************)
(* DurableTaskQueue (durable/queue.py): a table of tasks leased to workers *)
(* for a bounded time.  Every action is one SQLite transaction, or one     *)
(* bare read: enqueue and fail read in one step and write in another, so   *)
(* other calls can come in between.  Workers follow the loops of the       *)
(* repository: reclaim what expired, lease one task, settle it (TrainerWorker *)
(* leases without reclaiming first).                                       *)
(***************************************************************************)
EXTENDS Integers, FiniteSets

CONSTANTS
    Task,           \* task rows that may come to exist (uuid4 ids)
    Worker,         \* lease owners, one per worker process
    Client,         \* callers of enqueue
    NoTask, NoWorker, NoKey,
    KeyOf,          \* the idempotency key each task is enqueued with
    MaxAttempts,
    LeaseTTL,       \* lease_seconds
    RetryDelays,    \* retry_in_seconds values passed to fail
    Reclaimers,     \* workers whose loop calls reclaim_expired before lease
    Cancellable,    \* tasks somebody may cancel
    MaxTime         \* bound: the clock stops here

ASSUME WorkerAssumption == NoWorker \notin Worker /\ Reclaimers \subseteq Worker
ASSUME TaskAssumption == NoTask \notin Task /\ Cancellable \subseteq Task
ASSUME NumberAssumption ==
    /\ MaxAttempts \in Nat \ {0}
    /\ LeaseTTL \in Nat
    /\ RetryDelays \subseteq Nat
    /\ MaxTime \in Nat

VARIABLES
    status, owner, expiry, attempts, available,   \* the tasks table
    now,        \* wall clock
    inserting,  \* per client: the row it is about to insert
    pc,         \* per worker: where its loop is
    held,       \* per worker: the task it works on
    seen,       \* per worker: what fail read before its write
    until,      \* history: the expiry of the lease each worker last got
    torn        \* history: tasks a stale failure report overwrote

tableVars  == <<status, owner, expiry, attempts, available>>
workerVars == <<pc, held, seen, until>>
vars == <<tableVars, now, inserting, workerVars, torn>>

NoTime == -1        \* lease_expires_at IS NULL
NothingSeen == [attempts |-> 0, at |-> 0]

TypeOK ==
    /\ status \in [Task -> {"absent", "pending", "leased", "done", "cancelled", "dead"}]
    /\ owner \in [Task -> Worker \cup {NoWorker}]
    /\ expiry \in [Task -> Nat \cup {NoTime}]
    /\ attempts \in [Task -> Nat]
    /\ available \in [Task -> Nat]
    /\ now \in Nat
    /\ inserting \in [Client -> Task \cup {NoTask}]
    /\ pc \in [Worker -> {"idle", "polled", "busy", "failing"}]
    /\ held \in [Worker -> Task \cup {NoTask}]
    /\ seen \in [Worker -> [attempts : Nat, at : Nat]]
    /\ until \in [Worker -> Nat \cup {NoTime}]
    /\ torn \subseteq Task

Init ==
    /\ status = [t \in Task |-> "absent"]
    /\ owner = [t \in Task |-> NoWorker]
    /\ expiry = [t \in Task |-> NoTime]
    /\ attempts = [t \in Task |-> 0]
    /\ available = [t \in Task |-> 0]
    /\ now = 0
    /\ inserting = [c \in Client |-> NoTask]
    /\ pc = [w \in Worker |-> "idle"]
    /\ held = [w \in Worker |-> NoTask]
    /\ seen = [w \in Worker |-> NothingSeen]
    /\ until = [w \in Worker |-> NoTime]
    /\ torn = {}
-----------------------------------------------------------------------------
\* enqueue

KeyTaken(t) ==
    /\ KeyOf[t] # NoKey
    /\ \E u \in Task : status[u] # "absent" /\ KeyOf[u] = KeyOf[t]

\* The lookup by idempotency key, outside the insert's transaction.  A taken
\* key returns the standing task and the call is over.
EnqueueLookup(c, t) ==
    /\ inserting[c] = NoTask
    /\ status[t] = "absent"
    /\ \A d \in Client : inserting[d] # t        \* uuid4: ids never collide
    /\ ~KeyTaken(t)
    /\ inserting' = [inserting EXCEPT ![c] = t]
    /\ UNCHANGED <<tableVars, now, workerVars, torn>>

\* Mutant: an INSERT with no UNIQUE constraint on the key.
EnqueueInsertNoUnique(c) ==
    LET t == inserting[c] IN
    /\ t # NoTask
    /\ inserting' = [inserting EXCEPT ![c] = NoTask]
    /\ status' = [status EXCEPT ![t] = "pending"]
    /\ available' = [available EXCEPT ![t] = now]
    /\ UNCHANGED <<owner, expiry, attempts, now, workerVars, torn>>

\* The INSERT.  A key taken since the lookup breaks the UNIQUE constraint and
\* the call raises, leaving the table as it was.
EnqueueInsert(c) ==
    LET t == inserting[c] IN
    /\ t # NoTask
    /\ inserting' = [inserting EXCEPT ![c] = NoTask]
    /\ IF KeyTaken(t)
         THEN UNCHANGED tableVars
         ELSE /\ status' = [status EXCEPT ![t] = "pending"]
              /\ available' = [available EXCEPT ![t] = now]
              /\ UNCHANGED <<owner, expiry, attempts>>
    /\ UNCHANGED <<now, workerVars, torn>>
-----------------------------------------------------------------------------
\* The worker loop

\* A worker with nothing in hand may lease; one that reclaims must have done so.
MayLease(w) == pc[w] = IF w \in Reclaimers THEN "polled" ELSE "idle"

\* Mutants: a lease that ends one moment early; a reclaim that skips tasks whose
\* attempts are spent.
ExpiredEarly(t) == status[t] = "leased" /\ expiry[t] # NoTime /\ expiry[t] <= now
ExpiredUnspent(t) ==
    /\ status[t] = "leased" /\ expiry[t] # NoTime /\ expiry[t] < now
    /\ attempts[t] < MaxAttempts

Expired(t) == status[t] = "leased" /\ expiry[t] # NoTime /\ expiry[t] < now

ReclaimExpired(w) ==
    LET S == {t \in Task : Expired(t)} IN
    /\ pc[w] = "idle"
    /\ w \in Reclaimers
    /\ pc' = [pc EXCEPT ![w] = "polled"]
    /\ status' = [t \in Task |-> IF t \in S THEN "pending" ELSE status[t]]
    /\ owner' = [t \in Task |-> IF t \in S THEN NoWorker ELSE owner[t]]
    /\ expiry' = [t \in Task |-> IF t \in S THEN NoTime ELSE expiry[t]]
    /\ available' = [t \in Task |-> IF t \in S THEN now ELSE available[t]]
    /\ UNCHANGED <<attempts, now, inserting, held, seen, until, torn>>

Leasable(t) == status[t] = "pending" /\ available[t] <= now
Oldest(t)   == Leasable(t) /\ \A u \in Task : Leasable(u) => available[t] <= available[u]

Lease(w) ==
    /\ MayLease(w)
    /\ now + LeaseTTL < MaxTime      \* bound: the clock can outlive the lease
    /\ \E t \in Task :
          /\ Oldest(t)
          /\ status' = [status EXCEPT ![t] = "leased"]
          /\ owner' = [owner EXCEPT ![t] = w]
          /\ expiry' = [expiry EXCEPT ![t] = now + LeaseTTL]
          /\ attempts' = [attempts EXCEPT ![t] = @ + 1]
          /\ held' = [held EXCEPT ![w] = t]
    /\ until' = [until EXCEPT ![w] = now + LeaseTTL]
    /\ pc' = [pc EXCEPT ![w] = "busy"]
    /\ UNCHANGED <<available, now, inserting, seen, torn>>

\* lease returns None: nothing pending is due.
LeaseNone(w) ==
    /\ pc[w] = "polled"
    /\ \/ \A t \in Task : ~Leasable(t)
       \/ now + LeaseTTL >= MaxTime
    /\ pc' = [pc EXCEPT ![w] = "idle"]
    /\ UNCHANGED <<tableVars, now, inserting, held, seen, until, torn>>

\* The guard every settling UPDATE carries, and fail's read checks.
Owns(w, t) == status[t] = "leased" /\ owner[t] = w

Heartbeat(w) ==
    /\ pc[w] = "busy"
    /\ Owns(w, held[w])
    /\ now + LeaseTTL < MaxTime
    /\ expiry' = [expiry EXCEPT ![held[w]] = now + LeaseTTL]
    /\ until' = [until EXCEPT ![w] = now + LeaseTTL]
    /\ UNCHANGED <<status, owner, attempts, available, now, inserting, pc, held, seen, torn>>

\* Worker w is through with its task and starts its loop again.
Drop(w) ==
    /\ pc' = [pc EXCEPT ![w] = "idle"]
    /\ held' = [held EXCEPT ![w] = NoTask]
    /\ seen' = [seen EXCEPT ![w] = NothingSeen]
    /\ until' = [until EXCEPT ![w] = NoTime]

\* Row t leaves the leased state: its owner and expiry become NULL.
Unlease(t, to) ==
    /\ status' = [status EXCEPT ![t] = to]
    /\ owner' = [owner EXCEPT ![t] = NoWorker]
    /\ expiry' = [expiry EXCEPT ![t] = NoTime]

Complete(w) ==
    /\ pc[w] = "busy"
    /\ IF Owns(w, held[w])
         THEN Unlease(held[w], "done") /\ UNCHANGED <<attempts, available>>
         ELSE UNCHANGED tableVars
    /\ Drop(w)
    /\ UNCHANGED <<now, inserting, torn>>

Release(w) ==
    /\ pc[w] = "busy"
    /\ IF Owns(w, held[w])
         THEN /\ Unlease(held[w], "pending")
              /\ attempts' = [attempts EXCEPT ![held[w]] = IF @ > 0 THEN @ - 1 ELSE 0]
              /\ available' = [available EXCEPT ![held[w]] = now]
         ELSE UNCHANGED tableVars
    /\ Drop(w)
    /\ UNCHANGED <<now, inserting, torn>>

\* fail, first half: the read.  Not the owner any more: the call returns None.
FailRead(w) ==
    /\ pc[w] = "busy"
    /\ IF Owns(w, held[w])
         THEN /\ pc' = [pc EXCEPT ![w] = "failing"]
              /\ seen' = [seen EXCEPT ![w] = [attempts |-> attempts[held[w]], at |-> now]]
              /\ UNCHANGED <<held, until>>
         ELSE Drop(w)
    /\ UNCHANGED <<tableVars, now, inserting, torn>>

\* Mutant: buries the task one attempt early.
FailWriteEarly(w) ==
    LET t == held[w] IN
    /\ pc[w] = "failing"
    /\ IF seen[w].attempts + 1 >= MaxAttempts
         THEN Unlease(t, "dead") /\ UNCHANGED available
         ELSE /\ Unlease(t, "pending")
              /\ \E d \in RetryDelays :
                    available' = [available EXCEPT ![t] = seen[w].at + d]
    /\ torn' = IF Owns(w, t) THEN torn ELSE torn \cup {t}
    /\ Drop(w)
    /\ UNCHANGED <<attempts, now, inserting>>

\* fail, second half: an UPDATE by task_id alone, decided on what was read.
FailWrite(w) ==
    LET t == held[w] IN
    /\ pc[w] = "failing"
    /\ IF seen[w].attempts >= MaxAttempts
         THEN Unlease(t, "dead") /\ UNCHANGED available
         ELSE /\ Unlease(t, "pending")
              /\ \E d \in RetryDelays :
                    available' = [available EXCEPT ![t] = seen[w].at + d]
    /\ torn' = IF Owns(w, t) THEN torn ELSE torn \cup {t}
    /\ Drop(w)
    /\ UNCHANGED <<attempts, now, inserting>>

\* The process dies and a new one with the same owner name starts over.
Crash(w) ==
    /\ pc[w] # "idle"
    /\ Drop(w)
    /\ UNCHANGED <<tableVars, now, inserting, torn>>
-----------------------------------------------------------------------------
\* Mutant: the row is cancelled but keeps its owner.
CancelKeepsOwner(t) ==
    /\ t \in Cancellable
    /\ status[t] \in {"pending", "leased"}
    /\ status' = [status EXCEPT ![t] = "cancelled"]
    /\ UNCHANGED <<owner, expiry, attempts, available, now, inserting, workerVars, torn>>

Cancel(t) ==
    /\ t \in Cancellable
    /\ status[t] \in {"pending", "leased"}
    /\ Unlease(t, "cancelled")
    /\ UNCHANGED <<attempts, available, now, inserting, workerVars, torn>>

Tick ==
    /\ now < MaxTime
    /\ now' = now + 1
    /\ UNCHANGED <<tableVars, inserting, workerVars, torn>>

\* One turn of a worker's loop (a heartbeat or a crash is not progress of it).
Loop(w) ==
    \/ ReclaimExpired(w) \/ Lease(w) \/ LeaseNone(w)
    \/ Complete(w) \/ Release(w) \/ FailRead(w) \/ FailWrite(w)

Next ==
    \/ \E c \in Client : EnqueueInsert(c) \/ \E t \in Task : EnqueueLookup(c, t)
    \/ \E w \in Worker : Loop(w) \/ Heartbeat(w) \/ Crash(w)
    \/ \E t \in Task : Cancel(t)
    \/ Tick

Spec == Init /\ [][Next]_vars

\* Time passes, a started enqueue ends, and every worker keeps polling.
Fairness ==
    /\ WF_vars(Tick)
    /\ \A c \in Client : WF_vars(EnqueueInsert(c))
    /\ \A w \in Worker : WF_vars(Loop(w))

FairSpec == Spec /\ Fairness
-----------------------------------------------------------------------------
\* PROPERTIES

\* A worker whose lease has not run out still owns its task: nobody reclaims,
\* re-leases or settles it under that worker (lease, heartbeat and
\* reclaim_expired against each other).  Cancelled and torn tasks excepted.
LeaseExclusive ==
    \A w \in Worker :
        LET t == held[w] IN
        t # NoTask /\ now <= until[w] /\ t \notin torn /\ status[t] # "cancelled"
            => Owns(w, t)

\* A task is buried only with its attempts spent, refunds by release, reclaims
\* and failure reports decided on an old read included.
DeadOnlyExhausted ==
    \A t \in Task : status[t] = "dead" => attempts[t] >= MaxAttempts

\* Two callers enqueueing under one idempotency key never make two tasks, although
\* both may find the key free.
KeyedOnce ==
    \A t, u \in Task :
        /\ t # u
        /\ status[t] # "absent" /\ status[u] # "absent"
        /\ KeyOf[t] # NoKey
        => KeyOf[t] # KeyOf[u]

\* A settled task is settled for good, unless a stale failure report tears it:
\* a late complete, release, heartbeat or reclaim never revives it.
SettledForGood ==
    [][\A t \in Task : status[t] \in {"done", "cancelled", "dead"} /\ t \notin torn'
            => status'[t] = status[t]]_vars

\* No task is lost with the worker that held it: a lease whose holder is gone
\* ends, so that another worker can have the task.
Orphaned(t) ==
    status[t] = "leased" /\ \A w \in Worker : ~(owner[t] = w /\ held[w] = t)

NoTaskLost == \A t \in Task : Orphaned(t) ~> ~Orphaned(t)

\* The queue implements the pool.
Pool == INSTANCE WorkPool WITH status <- status, owner <- owner, torn <- torn
PoolSpec == Pool!Spec
=============================================================================
