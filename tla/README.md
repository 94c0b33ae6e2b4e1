# Verification of the OoLu runtime, its marketplace and its project graph

These TLA+ modules model the parts of OoLu that must not go wrong while nobody looks: the
durable task queue, the phase machine of a run, the service and gateway lane that drive runs
in the background, the scheduler that walks a blueprint, the control plane that leases work
to remote workers, the orders and earnings money moves through, the kernel through which a
project's truth changes, and the audit chain. TLC checks them on small instances; the TLA+
proof system proves the safety properties of all of them for every value of their
constants. Paths below are under `src/src/oolu/` unless they start with `src/`.

## The system and its parts

A user asks for something in a conversation. The **gateway** (`gateway/app.py`, one
process, handlers in threads: `gateway/asgi.py`) turns it into a **run**: a `RunState` row
in the durable database. The **orchestrator** (`orchestrator/engine.py`) walks the run
through its phases, stopping for clarifications, confirmations, approvals and incidents.
The **durable service** (`durable/service.py`) stores the row after every step and keeps an
"advance" task per drive in the **task queue** (`durable/queue.py`); a **worker thread**
(`drive_queue`) leases tasks and drives their runs. When a run settles, the **run report
store** (`social.py`) says which conversation is owed a report. Everything that happens is
appended to a **hash-linked audit log** (`durable/audit.py`) that retention trims.

| component | state it keeps | operations that change it | what makes it correct |
|---|---|---|---|
| task queue | tasks: status, owner, expiry, attempts, availability | enqueue, lease, heartbeat, complete, fail, release, cancel, reclaim_expired | one worker per lease; no task lost; verdicts final; one task per key |
| orchestrator | phase, pause, brief, route, gates, counters of one run | every phase handler, apply_resume, apply_restart, abort | nothing runs without the gates of its own route; retries end; keys fresh |
| durable service | the run row, its tasks, its outbox rows | submit/resume/restart_async, process_next, checkpoint | accepted work is never lost; acknowledged after it is stored |
| gateway run lane | worker thread, request threads | enqueue/resume/cancel a run, auto-retry, report, boot recovery | a queued run settles; one report per arming; answers are kept |
| report store | per run: binding, reported_at | file, rearm, mark_reported | at most one report per arming |
| audit log | the chain | append, prune | always verifies; every trim attested |
| idempotency ledger (`durable/idempotency.py`), outbox | claims and results; messages | run, release; stage, relay | an effect once, or a claim that shows it was begun; a message at least once |
| skill scheduler (`orchestrator/scheduler.py`), gates | node states of a DAG, loops, repairs, futures | dispatch, result, timeout, repair, loop judgement | what became of each action is what its gates say; late results ignored; every route ends |
| worker control plane (`worker/`) | workers, leases, load, revocations | dispatch, post, poll, verify, consume, report, cancel, heartbeat | single use; no stopped lease runs; capacity; quarantine |
| handoffs (`handoffs.py`) | territory claims on a queue of its own | hand_off, claim, finish | one holder per territory |
| marketplace orders (`marketplace/orders.py`, `inventory.py`) | order, milestones, reservations, ledger lines | place, ship, deliver, accept, cancel, dispute, adjudicate, refund, webhooks, sweeps | stock conserved; money moves once; charge and cancellation exclude each other |
| billing (`billing/`) | earnings ledger, reserves, batches, disputes | charge and accrue, settle, uphold | nothing moved is unaccounted; nobody is overpaid |
| nodeplace, adhouse, metering | budgets, holds, events | hold, release, deliver, record | budgets hold |
| project graph (`projectgraph/`) | heads, history, grants, verdicts | propose, find, grant | whole changes from current bodies, inside walls and territory; true verdicts |
| actuation, registries | jobs, approvals, leases | approve, lease, execute | digest-bound changes only |
| identity | sessions, grants | sign in, refresh, revoke | a revoked session stays out |
| pulse, reminders | schedules | claim_due, fire | each due moment fires once |
| everything else (chat, press, explorer, planner, providers, runtime, skills, knowledge, desktop app) | rows, prompts, network | — | scoring, text and I/O |

How they meet: gateway threads and the worker share nothing but the database; each database
write is a transaction of its own (one lock per connection, `durable/connection.py`), so the
interesting interleavings are between transactions, and a crash may fall between any two.
The service calls the orchestrator in the worker's thread; the orchestrator calls back after
every step (`on_step`) and the hook stages the row, extends the lease and asks whether the
worker should stop. The gateway reads the settled run, retries a mechanical incident through
the service, or claims the report. At boot it re-queues what is owed.

Beside that lane stand four that share the process and the database but not the run's row.
An execution inside a run is a blueprint given to the **scheduler**, one runner loop and a pool
of threads; an action of it, or a marketplace job, may be dispatched by the **control plane**
to a worker on another machine, which asks the control plane whether its lease still stands
before it runs. **Orders** and **earnings** move money at a provider between database writes:
each request is a chain of transactions and provider calls, with a key on every call. The
**project graph** accepts proposals from people and agents, judged in the request threads
against what they read and committed in one transaction.

What is hard here: reads and writes in different transactions (`fail`, the idempotency
lookup, a revival that saves the row it read before, a proposal judged against bodies read
earlier), a worker that holds a copy of the row while requests change it, work staged in one
transaction and queued in the next, leases that lapse under a working holder or are stopped
between their check and their use, deliveries that come late or twice, timeouts whose thread
runs on, effects that happen before the step that records them is stored, retries, rebuilds
and loops that re-enter execution, money operations that come in any order over one balance,
and retention that cuts a chain while others append to it. `PROJECT.json` lists each at its
line.

## The modules

**`WorkPool`** is what the queue promises: tasks are added, taken by a worker, given back,
settled or withdrawn, whatever clocks, transactions and crashes do. Its one concession is
`Tear`: a stale failure report may settle a task or put it back whoever holds it.

**`TaskQueue`** is `DurableTaskQueue`, one action per transaction. `EnqueueLookup` and
`EnqueueInsert` split `enqueue` where the code does (the lookup is outside the insert's
transaction; a key taken in between breaks the UNIQUE constraint). `FailRead` and `FailWrite`
split `fail` the same way. The clock is a step (`Tick`); `Expired` is strict as in the SQL.
Workers loop: reclaim, lease, heartbeat, settle, or die (`Crash`); a worker outside
`Reclaimers` skips the reclaim, as the representative's trainer does. `Drop` is a worker that
gives up a task it no longer owns after a refused write. Ids never collide; payloads, results
and errors are left out.

**`WorkflowEngine`** is one run of `WorkflowOrchestrator`: an action per phase handler, per
kind of resume, `ApplyRestart`, and the worker's abort of a drive that raised. What the ports
answer is chosen: whether the brief is delegated, requirements are ready, terms resolve,
which route is planned (excluded or not, writing or not, 0 or 2 approvers, its capabilities
present or not), how an execution ends, whether a rebuild succeeds. What the default adapters
decide (who must confirm, what is retried) is computed as they compute it. `fn` is the node
function in the contract, which a revival rewrites. `earned` is a history variable: the
answers given about the route in hand, against which the recorded answers in `said` are
judged. `ranKeys` holds the attempts executed since intake; `restarts` and `rebuilt` count over
the whole run, which the code's own counter does not: a restart resets it.

**`DurableRuns`** puts one run in its process. Request threads submit, answer, revive and cancel,
each of them a read followed by separate writes; the worker thread leases, loads, steps,
executes, drains, aborts, checkpoints, acknowledges, looks again, retries a mechanical incident
or claims and delivers the report; the process crashes and boots. The phase machine is reduced to
`todo` steps left before a drive settles, the last but one of which executes its route under the
attempt's key: a retry counts on, a restart counts from one again, with a plan that is new or,
when the planner chose a blueprint it keeps, the old one. `worker.mem` and `req[q].mem` are the
copies of the row that threads hold. `cache` is what the executor remembers in memory and loses
in a crash. `decided`, `armings`, `delivered` and `torn` are history. The boot's reclaim is the
worker's `Reclaim`: tasks are counted as standing whether pending or leased.

**`AuditChain`** is `DurableAuditLog` with the threads of one or more processes. A hash is
the entry it belongs to (no collisions). Append is two steps, the SELECT of the tip and the
INSERT: the connection's lock makes them one for the threads of a process and for nobody
else. A prune is three: its boundary, its retention entry, its DELETE. An entry's time is
taken before its transaction, so the newest entry older than a cutoff may be any entry. A
crash rolls the open transaction back and ends the prunes of its process where they were.

**`DagRoute`** is one run of `DagRouteRunner`. The runner is one thread whose loop is the
variable `pc`: judge the loops whose tail settled, activate repairs and sweep until nothing
changes, submit what is ready, wait. `Start` and `End` are the pool's threads. `Collect` is one
return of the wait: every finished future and any set of overdue ones, in any order among
futures of one node. A timed-out future becomes a zombie that may still start or finish, and
the pool's exit (`Drained`) waits for it. A blueprint (`bp`) is chosen among those that pass
`GraphPreflight`; a guard holds on the evidence "yes"; an execution ends with "yes", "no" or "fail",
which stands for a failed value pipe, an exception and a broken postcondition too. Node ids are
numbers because the runner sorts them. `ran` is history: how often each key was handed to an
executor. (The names `DagInit`, `DagNext`, `DagSpec` and so on let one module prove about the
scheduler and the engine.)

**`LeaseBook`** is what single-use grants promise: issued once, used at most once, never used
after being withdrawn. **`ControlPlane`** takes no lock, as the code takes none: a dispatch is
`Select`, `AppendAssignment`, `Count` (the load is read) and `Raise` (it is written) in its
caller's thread, and a report is `ReportRead`, `Lower`, `Fail` and `Judge` in its reporter's;
what another thread wrote between a read and its write is lost, and `raisesLost` and `dropsLost`
count it. A posted assignment may time out (`TimeOut`) and arrive later, twice, or at a worker
that is not its audience (`Arrive` takes any lease ever posted); a polled one leaves its queue
once. The worker's verification is its checks, its question to the authority (`Ask`, which an
unreachable authority fails closed) and its `Consume`, three steps between which `CancelKey` and
`CancelTask` revoke and `WorkerDies` forgets what its threads were at. Its ledger survives when
it is a `LocalLeaseLedger`; the `InMemoryLeaseLedger` that the code builds by default does not,
and `forgot` counts such deaths of each lease. Whether a lease has expired is read from the clock
of the host that verifies it, about which nothing is assumed: any lease may be found expired.
`ran`, `forgot`, `stopped`, `raisesLost` and `dropsLost` are history. A token is the lease it
signs.

**`Orders`** is one order. Every request is what the code makes it: a read with its refusals,
then writes and provider calls one by one. A thread holds the steps it has still to make
(`todo`) and the copy of the record it read (`mem`), and every kind of step is an action, so
the module has one action per store operation and one short definition per request that lists
its steps. The unit it reserves is one of `Stock`, which other buyers take too; reservations
expire whenever they like. `ledger` holds the transactions posted, by their idempotency key,
with the cash and escrow they move; what is left belongs to the payees, fees and tax included.
Milestones are one unit of the price each. The gateway gives the service an escrow policy
without exceptions, so every order holds its money in escrow. `calm` is history: so far
requests came one at a time and none died.

**`Earnings`** is one noder. `charge_and_accrue`, `settle` and the refund webhook each run under
a key of the idempotency ledger; the claim, each read, each write and each processor call are
steps. The processor may accept, refuse, or lose its answer after or before it acted; an
exception other than a `PaymentError`, and a crash, leave the claim standing. A `PaymentError`
releases it, and may come after the money moved, for the adapter raises it for a failure of the
processor too (`TransferRefused`; the period is then `unheard`, a history variable). A receipt of
another status than paid (`TransferBounces`) is stored as failed and debited like any other
(`StoreReceipt`, `Debit`). An entry ages from held to payable to past the risk window (`Grow`).
The consumer's event may be excluded from charging; the noder may be unverified. Reserve amounts
are rounded as `round` does. `calm` is history as above. Left out because nothing reads what they
write: payout confirmations (a batch's status, so the status here is the one `settle` wrote) and
the dispute's own key, which is always fresh.

**`TruthLedger`** is what a project's truth promises: each change moves a whole set of objects,
each by one revision and from the body it really had. **`ProjectKernel`** is the kernel, its
store and the doors. A proposal is judged in its request's thread: `Territory`, `ReadBase` per
object, `Weigh` (the walls), `Gate` per advancing object, `Commit`, `RecordProposal`, `Audit`;
between any two of them another thread may commit, a grant be replaced, the process die. Only the
primary key of `graph_history` keeps racing commits apart, and `CommitRefused` is the one that
loses. A patch is the net effect of a proposal's operations on each object; a body is a status
and one value, which the walls judge or which says that a finding is open and blocking. A
proposal declares any revision, as the body of the request may: one the object has had, none, or
one it has yet to reach, up to `MaxAhead` ahead of it. Old values that are not the object's
refuse a proposal like a wrong revision. `find` is one more patch. `granted` is history, and
`skipped`: which objects were not there when the territory of a proposal was checked. Soft
constraints, warnings and reads are left out.

The `MC*` modules only give constants values. The theorems are in modules of their own:
`DurableStoreProofs` about `TaskQueue` and `AuditChain`, `OrchestratorProofs` about
`WorkflowEngine` and `DagRoute`, `DurableRunsProofs`, `ControlPlaneProofs`, `OrdersProofs`,
`EarningsProofs` and `ProjectKernelProofs` about the module each is named for, and `Sums` about
the finite sums with which the two ledgers' balances are written.

## What the runs check

| run | instance | shows |
|---|---|---|
| `queue` | 2 workers, 3 tasks (2 under one key), 2 callers, 2 attempts, leases of 1, clock to 3 | `LeaseExclusive`, `DeadOnlyExhausted`, `KeyedOnce`, the refinement `PoolSpec`, and `NoTaskLost` |
| `engine` | 1 automatic retry, 4 human retries, 0 or 2 approvers | `GatesEarned`, `FreshKeys`, `EffortBounded`, `PauseAtItsPhase`, `OverIsOver`, `DriveEnds` |
| `runs` | 2 request threads, 3 asks, 3 tasks, 1 crash or drain | `TypeOK`, `OwedIsQueued`, `AckAfterCheckpoint`, `ReportsBounded`, `QueuedRunSettles` |
| `runs_decision` | 1 request thread, no crash | violated: `DecisionsStick` |
| `dag` | 688 blueprints of 3 or 4 actions, 2 pool threads, 5 submissions, 1 timeout | `KeysRunOnce`, `GatesDecide`, `PassesApart`, `VerdictsStand`, `RouteEnds` |
| `control_plane` | 1 posting caller and 2 job dispatchers, a posted and a polled worker, capacity 1, quarantine at 1 failure, 2 leases, 1 key, 1 fault | `SingleUse`, `LoadsBounded`, `QuarantineHolds`, the refinement `BookSpec` |
| `orders` | 1 order with and without 2 milestones, 1 unit of stock, 2 threads, 6 requests, 1 crash | `StockConserved`, `LedgerWithinProvider`, `NoMoneyWhenCancelled`, `BooksSettle`, `FinalStays`, `FreezeHolds` |
| `orders_refund` | the same order, 1 thread, 7 requests | violated: `RefundReversesAll` |
| `earnings` | 2 events, 2 periods, 2 refund deliveries, 2 threads, 4 operations, 1 crash | `MoneyAccounted`, `NeverOverpaid`, `RefundSticks` |
| `projectgraph` | a part and a finding against it, 2 principals, 2 threads, 6 patches, revisions up to 1 ahead, 3 proposals, 1 grant, 1 crash | `WallsHold`, `TerritoryKept`, `VerdictsTrue`, the refinement `TruthSpec` |
| `audit` | 3 threads of one process, 6 entries, crashes | `ChainVerifies`, `TrimsAreAttested` |
| `audit_hosts` | 1 thread in each of 2 processes | violated: `ChainVerifies` |

Why the bounds are enough.

* *Queue*: every conflict is between two workers, or two callers, over one task; two attempts
  reach both verdicts of `fail`; a clock of 3 with leases of 1 lets a lease lapse, the next
  holder's lapse too, and a late report follow.
* *Engine*: four human retries pass the two failed ones that make a rebuild due, and then retry
  the rebuilt route and restart it.
* *Runs*: a conflict needs the worker and two requests (a revival that saves a row read before
  another request's answer); each request adds at most one task.
* *Dag*: all graphs of three actions with up to three guarded or plain edges and every choice of
  joins, all with up to two repairs, all with one loop; and of four actions the shapes that need
  four: nested loops, loops sharing a tail, a loop around a diamond or around another loop behind
  an any-join, a repair of two steps, a repair of a repair, actions that wait for each other
  through a repair. One timeout lets one zombie meet its successor; two passes of a loop and
  five submissions reach the backstop.
* *Control plane*: two leases under one key are a retry; two dispatchers choose the polled worker
  at once, fill it past its capacity, and one's update of its load is lost to the other's or to a
  report; a posted lease may arrive again after every step of its first delivery, the death of its
  worker included (several threads of one worker are the theorem's); one fault is a ledger lost or
  a missed heartbeat in any place.
* *Orders*: six requests place, deliver, settle, dispute and judge an order with one to spare;
  two threads overlap any two of them; one unit makes oversale and double release visible.
* *Earnings*: two events let a refund meet an entry already paid out; two periods let the second
  pay what the first left, or the same balance again; two refund deliveries are of one event, the
  other event's accrual standing beside it.
* *Project graph*: three proposals are a creation, and two rivals over the created object; the
  finding makes a change of two objects and an advance that must wait. A revision declared one
  ahead is that of an object about to be made, or about to be changed.
* *Audit*: two prunes overlapping an append need three threads; six entries let both prunes leave
  their retention entries and a third trim one of them.

Deadlock is checked for the queue and the audit chain, whose loops never end. Every other
instance stops for good reason, at its bounds, with its route over or its run finished, so its
cfg says `CHECK_DEADLOCK FALSE`; where stopping early would be a fault, a liveness property
says so (`DriveEnds`, `QueuedRunSettles`, `RouteEnds`).

Some properties are stated under a condition, because the code promises no more. `BooksSettle`,
`NeverOverpaid`, `RefundSticks` and the half of `LedgerWithinProvider` about refunds speak of
operations that came one at a time (`calm`), and `EscrowCovered` of milestone orders settled by
their milestones alone; the list of disagreements below says what happens otherwise. Four grant
what the code lets through and bound the rest: `FreezeHolds` the acceptance that had passed its
check before the failure was recorded, `TerritoryKept` an object made after the territory of its
change was checked, `LoadsBounded` the updates of a load that were lost, `SingleUse` one run more
for each death that lost a ledger (with the durable ledger `forgot` stays zero, and a lease runs
once). `NeverOverpaid` leaves out the transfers that were made and answered by an error;
`MoneyAccounted` counts those as on record when a failed batch has their amount, and does not
hold a receipt that said failed to what moved. `FreshKeys` is about the keys since intake; after
a restart it says nothing of the keys before it. `GatesDecide`, `PassesApart` and `VerdictsStand`
speak of `Regular` blueprints: no action that has a repair waits for another action, and no loop
contains an any-join. Elsewhere they are false. `MoneyAccounted`, `StockConserved`, `FinalStays`,
`FreezeHolds`, `SingleUse`, `KeysRunOnce`, `EffortBounded` and all of the project graph's hold of
every history, overlap and crashes included. The type invariant of `DurableRuns` (`TypeOK`) is
checked by TLC too, because it bounds the attempts a stale copy may start; those of `TaskQueue`,
`AuditChain` (`AuditTypeOK`), `WorkflowEngine`, `DagRoute` (`DagTypeOK`), `ControlPlane` and
`ProjectKernel` are proved.

Every property is broken by at least one mutated definition kept next to the original and marked
"Mutant": a reclaim one moment early, an acknowledgement before the checkpoint, a rebuild that
inherits the old confirmation, a region run again under the keys of its last pass, a lost answer
that releases its claim, a history row replaced when its key is taken, and so on.

### Fairness

`TaskQueue!Fairness`: the workers' loops keep turning and the clock advances; a crash, a
cancellation or an enqueue is never required. `WorkflowEngine!FairSpec`: `run()` is a `while`
loop, so an enabled phase step is taken; humans owe nothing. `DurableRuns!FairSpec`: the
worker thread polls forever and survives any drive's exception (`_worker_loop`), a restarted
process boots, and a request that began is run to its end; no new request, crash or drain is
assumed. `DagRoute!DagFairSpec`: the runner is a loop, the pool's threads take what is queued, and
an action that began ends some time: `Drained` waits for zombies, so a route with an action that
never returns never returns either. The other modules state no liveness: their requests may be
abandoned at any point by a crash.

### What the violated properties say

* `DecisionsStick`: the hook stages the pause, the human answers, and the worker then
  checkpoints its own copy, with the pause and without the answer. The drive the answer queued
  finds the run paused and does nothing.
* `RefundReversesAll`: `refund` keys the reversal of a settlement transaction by its kind. An
  order completed by its milestones has several releases; only the first is reversed, and the
  rest of escrow and of the payees' balances stay in the books of a refunded order.
* `ChainVerifies` with two processes: both read the same tip and both link to it; the log then
  fails `verify` although nobody touched it.

### Disagreements met and kept out of the properties

Each of these was reproduced while its module was written, and each explains a condition in a
property or a sentence of the model.

* *Queue*. `fail` checks the owner in one transaction and updates by `task_id` in another: a
  report that was in time when it read takes the task from its next holder (`Tear`). The
  trainer's loop (`representative/trainer/worker.py:94`) never reclaims, so a task leased when it
  died stays leased: `NoTaskLost` is false of `Reclaimers = {}`.
* *Engine*. Grounding lets a run with its own function through with unresolved terms that the
  preflight refuses. Under full delegation a model's rebuild runs unconfirmed. A retried incident
  executes the recorded route (`orchestrator/engine.py:716`), although the gateway has just
  rewritten its contract so that "a node built (or revised) since the failure now carries the
  route" (`gateway/app.py:11361`). `orchestrator/state.py:379` says that `rebuild_attempts` "caps
  the rebuild at one per run so a broken synthesis can never loop"; a restart resets the count
  (`orchestrator/engine.py:140`), so a run restarted after its rebuild may ask the model again:
  once more per restart, which is what `EffortBounded` says. The restart resets the attempts too
  (line 139), so its first execution is `exec:1` again, and only the ids of actions planned anew
  keep an executor from answering it with an outcome of before.
* *Runs*. A crash between the stage and the enqueue of an answer strands a run whose report had
  already landed: the boot scans only unreported runs (the exception in `OwedIsQueued`). Executors
  remember finished keys in memory only, so a crash between an effect and the stage of its step
  repeats it. The report is armed after the drive was queued: a worker that settles first finds
  nothing armed. A cancellation saved while a drive runs is overwritten by the drive's next stage
  (`gateway/app.py:11840`).
* *Dag*. A repaired action that was cancelled rather than failed may be judged before or after
  its repair wakes. And an action's future is settled under the action alone
  (`orchestrator/scheduler.py:644`): in a loop around another loop whose tail is an any-join, the
  tail may verify while the inner loop has an execution in flight; the outer loop continues, the
  region re-enters under fresh keys, and the old result becomes the status and the evidence of
  the new pass, in which its action has not run yet, although lines 79 and 80 say "every pass
  settles its own outcome". `Regular` leaves both out; keys stay unique without it
  (`KeysRunOnce`).
* *Orders*. An order with milestones that is also delivered whole, or judged, is settled twice:
  `accept_milestone` checks no order state and overdraws escrow. `deliver_milestone` that read
  the order before a cancellation captures on a cancelled order. A reservation expires after
  thirty minutes while its confirmed order lives on, and the unit is sold again. One refund key
  answers two requests with different amounts; two verdicts read at once both pay; a crash
  between a partial refund and its posting, followed by a full refund, gives back too much. A
  cancellation that read the record before the authorization was stored leaves it un-voided; a
  stale `update_record` in `mark_shipped` can erase `charge_ref`; a late captured event on an
  accepted order completes it without a release. `accept_milestone` looks for failures
  (`marketplace/orders.py:847`) and posts its tranche ten lines later; a `fail_milestone` that
  falls between has frozen "every unreleased tranche ... in escrow" (line 919;
  `marketplace/milestones.py:4`), and the tranche leaves all the same. `refund_unreleased` that
  read the lines before it then gives the buyer what the payee got, and takes escrow below zero.
  And an order whose milestone failed, put back to fulfilment by a verdict and delivered whole,
  is released whole, which looks at no milestone: `FreezeHolds` is about tranches.
* *Earnings*. The adapter raises `PaymentError` for every status of 400 or more
  (`billing/payout.py:92`), so a processor that failed after it made the transfer is taken for
  one that refused: the batch is marked failed, nothing is debited, and the claim is released
  (`billing/settlement.py:97`, 138), of which the docstring says "the ledger is never debited
  (the money never moved)" (line 52). A retry of the same period meets the first transfer under
  its key, but the next period, with a key of its own, pays the same balance again; with
  operations one at a time and none abandoned. A receipt of another status
  (`billing/payout.py:182`) is the reverse: its batch is stored as failed, and the noder is
  debited and told `"paid": True`. Overlapping settlements of two periods, or one after an
  abandoned claim, pay the same balance again. A refund webhook that died leaves a key that
  answers None for ever, so its redelivery is acknowledged without a claw-back; a refund between
  charge and accrual leaves the accrual; a declined charge leaves its claim; a result below the
  threshold or without verification is remembered for the whole period.
* *Control plane*. A task cancelled, lost or refused never lowers its worker's load, so capacity
  leaks until the worker looks full (`LoadsBounded` is one-sided for that reason). The loads and
  failures are changed without a lock (`worker/control_plane.py:141`, 154, 158): two dispatches
  that read one load write the same raised one, and a worker counts as freer than it is. And
  "leases are single-use against a ledger, so a duplicated lease cannot execute twice"
  (`worker/leases.py:10`) is true across the death of a worker only with `LocalLeaseLedger`; given
  no ledger the code builds an `InMemoryLeaseLedger` (`worker/http.py:162`; `assembly.py:217`, 280),
  whose worker runs a lease again that is delivered again after it died.
* *Project graph*. The loser of a commit race ends as a server error with no verdict and no audit
  entry, although `src/src/oolu/projectgraph/models.py:157` says "commit or reject, never silence".
  The advance gate reads the findings before the commit, so an object can climb past one filed in
  between. `src/src/oolu/projectgraph/models.py:145` promises of whoever is not the owner "everyone
  else starts with NOTHING ... Fail closed"; but the territory of an object that is not there is
  not checked, because "revision validation will name the missing object"
  (`projectgraph/kernel.py:195`). The revision is the number the caller declares
  (`projectgraph/models.py:115`): a proposal that declares the first revision of an object that
  its owner creates between the two reads passes both, and changes it without a grant. The branch
  that tolerates a wall "already failing" is unreachable: creates must pass,
  and hard constraints never change.

## What is proved

Every theorem holds for all values of the constants under the assumptions the modules name
(`WorkerAssumption`, `TaskAssumption`, `NumberAssumption`, `BoundAssumption`,
`HostAssumption`, `PatchAssumption`, `WorkersAssumption`, `NumbersAssumption`,
`PriceAssumption`, `BoundsAssumption`, `AmountAssumption`, `HookAssumption`, `NodesAssumption`,
`BlueprintsAssumption`, `LimitsAssumption`): sentinels are not members of their sets, numbers are
natural, awards are part of the price, a process has finitely many threads that dispatch, a patch
that creates an object gives its whole body, a blueprint's edges, joins and loops name its own
actions. The audit chain's theorems assume one process (`OneHost`). The bounds on asks, crashes,
timeouts or ids are constants like the others, so a theorem holds for each of their values. Each
inductive invariant was checked by TLC on the instance of the module's run before it was proved.

* **`TaskQueue`** (in `DurableStoreProofs`). `Inductive` shows an invariant that strengthens
  `LeaseExclusive` with what ties the table to the workers: a pending or settled task has no
  owner, an owner's `until` is never after the row's expiry unless the task is torn, and what
  `fail` read about a task's attempts is still a lower bound when it writes.
  `LeasesAreExclusive`, `DeadMeansExhausted`, `OneTaskPerKey`, `SettledStays` and `TypeCorrect`
  follow; `QueueImplementsPool` maps every step to a step of `WorkPool` or a stutter.
* **`WorkflowEngine`** (in `OrchestratorProofs`). `Inductive` strengthens `GatesEarned`: the
  recorded answers never say more than was earned by the route in hand, the evaluation in
  `control` is of that route from human control on, and a run at or past execution has passed its
  gates. The retries, the rebuild and the restart are the steps that need it. `RebuildsPaid` ties
  the rebuilds of the whole run to the counter that restarts reset. `GatesAreEarned`,
  `KeysAreFresh`, `EffortIsBounded`, `PausesAreHonest`, `FinishedStays` and `TypeCorrect` follow.
* **`AuditChain`** (in `DurableStoreProofs`), for the threads of one process (`OneHost`). The
  table is a suffix of all entries ever appended, each linked to its predecessor; the first is
  attested; a prune that has attested its cut and not made it still has its entry above the cut,
  whatever other prunes removed. `ChainAlwaysVerifies`, `TrimsStayAttested` and
  `AuditTypeCorrect` follow.
* **`DagRoute`** (in `OrchestratorProofs`). `DagInv` has four parts. `Typed`, with `Backstop`: what a
  turn submits stays within the limit, and reaches it when a ready action is refused. `Keyed`: a
  key is one future's, a waiting action's key is nobody's yet, and keys of passes to come have
  not run; `RunsOnce` follows for every blueprint. `Shape`: a tail that verified has its event or its
  loop is over, and an edge is the blueprint's own or comes from a repair. And for regular
  blueprints `Gated`: where an action is tells its status, and its verdict is what its gate says
  (`GateHolds`). A gate's answer is not stable by itself, for sources settle in any order, a loop
  may take a success back and a repair may replace a source. So the invariant carries what a
  verdict rests on (`Support`): answers that are final (`Fixed`: the source is settled, in no loop
  that goes on, and waits for no repair) and that decide the gate whatever the others come to.
  `NewVerdict` shows that a sweep or a submission reads only such answers, `PlainSupport` that steps
  which settle open actions leave them final, `TailIsOpen` that a tail gives nobody outside its
  loop a final answer before the loop is over. The step that needs most is the loop that goes on:
  `RegionClean` shows that when the tail of a loop without any-joins verified, every action of its
  region verified or was skipped, so nothing of the region is in flight when it re-enters.
  `DagTypes`, `PassesStayApart`, `GatesDecideTheRoute` and `VerdictsAreKept` follow.
* **`ProjectKernelProofs`**. `WallsHold` is not inductive: a commit lands bodies computed from
  bases read earlier. The strengthening says that an object's revisions on record are exactly
  those up to its current one (`HeadIsLast`); that a base a thread read is current as long as its
  revision is, and passed its walls (`BaseOk`); what each check a request has passed established
  and no rival can undo, the objects its territory looked past included (`JudgedOk`); and that a
  proposal's number is its own and its rows are what its verdict says (`IdsOk`, `VerdictsOk`).
  `CommitFacts` is the heart: the key of the history lets a commit through only if every base it
  was judged against is still current. `WallsAlwaysHold`, `TerritoryIsKept`, `VerdictsAreTrue`
  and `TypeCorrect` follow, and `CommitChanges` maps a commit to a change of the ledger of truth
  and every other step to a stutter, hence `KernelImplementsTruth`.
* **`DurableRunsProofs`**. Three facts make `OwedIsQueued` inductive: the worker's task is leased
  from the moment it has it until it is acknowledged (`HoldsLease`); a run that is active again
  when a worker is about to acknowledge has another task, an owner about to queue one, or was
  torn by a crash, and the checkpoint is announced (`ReadyToSettle`); and what a cancel or a
  revival is about to save over the run is not active (`SavesAtRest`). `TypeOK` is not inductive
  either: a copy of the run may be saved long after it was read, so the plans and attempts it
  counts are bounded together with the revivals that have still to read the run again
  (`TriesArePaid`). `ReportsPromised` counts an armed report and one in delivery against the
  armings. `OwedStaysQueued`, `AcknowledgedAfterCheckpoint`, `ReportsAreBounded` and
  `TypeCorrect` follow.
* **`ControlPlaneProofs`**. `SingleUse` needs to know where a lease is: two threads never hold one
  (`CallsApart`), a server holds one of its own worker (`ServersHold`), what ran is in the
  ledger of consumed leases or was forgotten by a death, and what was stopped is revoked and in no
  server that has passed its check (`RunsOnce`). `LoadsBounded` is an equation between sets in
  disguise: the load, the raises that were lost and the reports that came before the count cover
  the assignments counted and unfinished, which holds because a lease is reported once
  (`ReportedOnce`); and, the lowerings lost apart, a load can only be raised by a thread that
  chose the worker while it had room (`LoadsPromised`). Every write accounts for what changed since
  its read, in the one direction or the other. `LeasesAreSingleUse`, `LoadsStayBounded`,
  `QuarantineIsKept` and `TypeCorrect` follow, and `KeepsABook` maps every step to an issue, a use
  or a withdrawal of one lease or a stutter of `LeaseBook`.
* **`OrdersProofs`**. A request is the sequence of its remaining steps, so the invariant speaks of
  positions: a reservation is released or committed only behind the step that found or made it
  (`KnowsItsHold`), a capture of an order without milestones is ahead only behind the step that
  marks it delivered (`MoneyFollowsDelivery`), a posting of a capture directly behind the capture
  (`PostedWhatWasCaptured`), and no lawful step leaves a final state (`Lawful`). One lemma per
  request shows that its list starts so; taking a tail or dropping it keeps it so.
  `StockIsConserved`, `CancelledTookNoMoney` and `FinalIsFinal` follow, and `FrozenMeansFrozen`: a
  milestone that failed stays failed, an acceptance begins only where none did, and a tranche is
  posted only by a request that had begun to accept it (`TranchesPosted`). So does
  `CaptureIsPostedLast`, which is the half of `LedgerWithinProvider` that holds of every history.
  The books need a second invariant, `MoneyInv`, for requests that come one at a time. `Lines` says
  which lines the ledger can have; a refund gives back at most what the provider gave back under
  its key. Between requests the books are at `Rest`: either the order is over and the books show
  how it ended (`Settles`), or no money has gone back yet. Within the one request under way the
  order is at a `Point`: for each request that moves money, the positions of its list of steps and
  what the ledger and the provider show there (`Accepting`, `Closing`, `Refunding` and so on). A step
  leads from a point to the next or to rest. `TranchesSettle` adds what is particular to orders
  settled by their milestones. `LedgerStaysWithinProvider` and `BooksAgree` follow, with escrow,
  cash and refunds computed from the lines by the lemmas of `Sums`.
* **`EarningsProofs`**. An operation under way has the claim of its key and has it alone
  (`KeysHold`), so a step is its key's own or leaves the key as it was (`WhoseStep`), and each
  charge, settlement and refund is followed by itself: at which step its money has moved and its
  row is not posted (`ChargeIsSound`, `SettlementIsSound`, `Owes`), which batch it holds and what
  that batch says (`InHand`, `Fit`), and that ids of batches are never given twice (`BatchesHold`),
  so that a payout row names one batch, which was answered, for its amount (`DebitsHold`). What an
  error left on record as failed stays there (`RecordStays`), because a settled batch is never
  written again. In calm a claim belongs to a running operation,
  hence a refund that begins finds its accrual posted (`RefundIsSound`). `NoMoneyIsLost` and
  `RefundsTakeBack` follow. `PaidIsEarned` has an invariant about balances, `BalanceInv`: in calm
  one operation at most is under way (`OneAtATime`), what was debited never exceeds the accruals
  that left their holdback, what was transferred and answered never exceeds what was debited but for
  the transfer about to be, and what the operation read of a balance is still there when it acts on
  it (`BooksHold`).
* **`Sums`**. The fold behind `SumFunctionOnSet` is a recursive function, which its definition only
  chooses. The module shows that there is one and only one (`SomeRecursion`, `OneRecursion`), then
  what adding or taking a member, splitting, comparing and cancelling do to a sum. Each induction
  on the size of a set is made by taking a smallest set that is a counterexample (`Smallest`),
  which the well-founded order of the naturals provides.

Only model-checked:

* liveness (`NoTaskLost`, `DriveEnds`, `QueuedRunSettles`, `RouteEnds`): fairness and ENABLED are
  outside the prover's reach;
* the three violated properties, which are counterexamples;
* the bounds themselves: what a constant caps (requests, crashes, timeouts, ids) is a theorem's
  parameter, but nothing shows that the code's own limits are among its values.

## What is not modelled, and the plan

Not modelled because there is no protocol in it: prompts, parsing, scoring, sandboxes,
provider networking, cryptography, the browser client, and most of the gateway's handlers,
which validate a request and make one store call. Of the modelled parts: the synchronous doors
that drive a run in the request's thread, a second gateway process under `DurableRuns`,
restocking (an absolute write that ignores standing reservations), invoices, recurring orders
and requests for quotation, rejected disputes, several noders of one event, payout
confirmations, an operator's own quarantine, and filtered reads of the project graph.

What remains, in the order in which it should come:

1. **`OutboxRelay`** (`durable/outbox.py`): at-least-once relay with concurrent relays and a crash
   between delivery and mark.
2. **`BudgetHolds`** (`nodeplace/holds.py`, `adhouse/`): budgets under concurrent holds.
3. **`DurableRuns`** extended with the synchronous doors (`gateway/app.py:11480`) and a second
   gateway process on PostgreSQL, where a step longer than its lease is driven twice.
4. **`ActuationLifecycle`** (`actuation*/`): changes bound to digests under approvals that expire.
5. **`Handoffs`**, **`Pulse`**, **`Sessions`**: claims on a queue of their own, claim-before-fire,
   revocation.
