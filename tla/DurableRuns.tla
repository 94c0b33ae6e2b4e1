---------------------------- MODULE DurableRuns ----------------------------
(***************************************************************************)
(* One run of DurableWorkflowService (durable/service.py) inside a gateway  *)
(* process (gateway/app.py): request threads that submit, answer, revive   *)
(* and cancel it, the one worker thread that drains the queue, the report  *)
(* owed to the conversation that asked, and the process's crash and boot.   *)
(* Every stored thing is written by its own transaction; between two of    *)
(* them any other thread may run and the process may die.                  *)
(*                                                                         *)
(* A task here is an "advance" task of this run.  TaskQueue models the     *)
(* queue itself; only what the worker does with a task matters here.  The  *)
(* phase machine is WorkflowEngine: here an active run has `todo' steps    *)
(* left, the last but one of which executes its route.                     *)
(***************************************************************************)
EXTENDS Integers, FiniteSets

CONSTANTS
    Requests,       \* request threads
    MaxSteps,       \* bound: steps of a drive before it settles
    MaxAsks,        \* bound: requests handled
    MaxTasks,       \* bound: tasks enqueued
    MaxCrashes      \* bound: crashes and graceful stops

ASSUME BoundAssumption ==
    /\ MaxSteps \in Nat \ {0}
    /\ {MaxAsks, MaxTasks, MaxCrashes} \subseteq Nat

VARIABLES
    row,            \* the stored run
    tasks,          \* status of its advance tasks
    filed, armed,   \* its run_reports row exists; reported_at is NULL
    outbox,         \* tasks whose checkpoint was announced
    up,             \* the process runs
    worker,         \* the worker thread
    req,            \* the request threads
    cache,          \* keys the executor's in-memory _completed knows
    asks, crashes,
    decided,        \* history: answers and revivals the gateway returned 200 for
    armings, delivered,  \* history: reports promised, reports landed
    torn            \* history: a crash hit between a stage and its enqueue

storeVars == <<row, tasks, filed, armed, outbox>>
threadVars == <<up, worker, req, cache>>
boundVars == <<asks, crashes>>
historyVars == <<decided, armings, delivered, torn>>
vars == <<storeVars, threadVars, boundVars, historyVars>>

TaskIds  == 1 .. MaxTasks
Terminal == {"completed", "failed", "cancelled"}
Status   == {"none", "active", "paused", "incident"} \cup Terminal
Attempts == 1 .. MaxAsks + 1

\* What a thread holds of a run: its status, the steps left, the answers folded in, the
\* plan whose actions it executes and the attempt it is at.
Run == [st : Status, todo : Nat, answers : Nat, plan : Attempts, try : Attempts]
NoRun == [st |-> "none", todo |-> 0, answers |-> 0, plan |-> 1, try |-> 1]

\* run:exec:attempt, followed by the action's id, which comes with the plan.
Key(r) == <<r.plan, r.try>>

Idle == [pc |-> "idle", task |-> 0, mem |-> NoRun]
NoRequest == [pc |-> "idle", kind |-> "none", mem |-> NoRun]

TypeOK ==
    /\ row \in Run
    /\ tasks \in [TaskIds -> {"none", "pending", "leased", "done"}]
    /\ filed \in BOOLEAN /\ armed \in BOOLEAN
    /\ outbox \subseteq TaskIds
    /\ up \in BOOLEAN
    /\ worker \in [pc : {"idle", "load", "drive", "complete", "look", "judge", "retryStage",
                         "retryEnqueue", "deliver"},
                   task : 0 .. MaxTasks, mem : Run]
    /\ req \in [Requests -> [pc : {"idle", "save", "resave", "reread", "stage", "enqueue", "arm"},
                             kind : {"none", "submit", "answer", "revive", "cancel"},
                             mem : Run]]
    /\ cache \subseteq Attempts \X Attempts
    /\ asks \in 0 .. MaxAsks /\ crashes \in 0 .. MaxCrashes
    /\ decided \in Nat
    /\ armings \in Nat /\ delivered \in Nat
    /\ torn \in BOOLEAN

Init ==
    /\ row = NoRun /\ tasks = [t \in TaskIds |-> "none"]
    /\ filed = FALSE /\ armed = FALSE /\ outbox = {}
    /\ up = TRUE /\ worker = Idle /\ req = [q \in Requests |-> NoRequest] /\ cache = {}
    /\ asks = 0 /\ crashes = 0
    /\ decided = 0
    /\ armings = 0 /\ delivered = 0 /\ torn = FALSE
-----------------------------------------------------------------------------
Open == {t \in TaskIds : tasks[t] \in {"pending", "leased"}}

\* queue.enqueue of a keyless (or first) advance task.
NewTask(t) ==
    /\ tasks[t] = "none"
    /\ \A s \in TaskIds : s < t => tasks[s] # "none"
    /\ tasks' = [tasks EXCEPT ![t] = "pending"]

\* apply_resume and apply_restart on the row a thread read.  A restart counts attempts
\* from the beginning; the actions planned anew have new ids, unless the planner chooses
\* among blueprints it keeps.
Retried(r)   == [r EXCEPT !.st = "active", !.try = @ + 1]
Restarted(r) == {[r EXCEPT !.st = "active", !.plan = p, !.try = 1] : p \in {r.plan, r.plan + 1}}
Answered(r) == [r EXCEPT !.st = "active", !.answers = @ + 1]

Reportable(r) == r.st \in Terminal \cup {"incident"}

\* RunReportStore.file and rearm.
File  == filed' = TRUE /\ armed' = TRUE /\ armings' = armings + 1
Rearm == IF filed THEN UNCHANGED filed /\ armed' = TRUE /\ armings' = armings + 1
                  ELSE UNCHANGED <<filed, armed, armings>>
-----------------------------------------------------------------------------
\* REQUEST THREADS

\* Request q moves on; what it stores is said by the action.
At(q, pc) == up /\ req[q].pc = pc
Then(q, pc, mem) == req' = [req EXCEPT ![q] = [@ EXCEPT !.pc = pc, !.mem = mem]]
Return(q) == req' = [req EXCEPT ![q] = NoRequest]
Begin(q, pc, kind, mem) ==
    /\ At(q, "idle")
    /\ asks < MaxAsks
    /\ asks' = asks + 1
    /\ req' = [req EXCEPT ![q] = [pc |-> pc, kind |-> kind, mem |-> mem]]
    /\ UNCHANGED <<storeVars, up, worker, cache, crashes, historyVars>>

\* submit_async: prepare, save, enqueue; the chat lane then files the report.
BeginSubmit(q) ==
    /\ row.st = "none"
    /\ \A p \in Requests : req[p].kind # "submit"
    /\ \E n \in 1 .. MaxSteps :
          Begin(q, "stage", "submit", [NoRun EXCEPT !.st = "active", !.todo = n])

\* resume_async reads the row and folds the answer into its copy; an incident is
\* retried or aborted.
BeginAnswer(q) ==
    \/ /\ row.st \in {"paused", "incident"}
       /\ \E n \in 1 .. MaxSteps :
             LET folded == [Answered(row) EXCEPT !.todo = n]
             IN  Begin(q, "stage", "answer",
                       IF row.st = "incident" THEN Retried(folded) ELSE folded)
    \/ /\ row.st = "incident"
       /\ Begin(q, "stage", "answer", [Answered(row) EXCEPT !.st = "failed"])

\* _enqueue_intent_run finds the goal's failed or stuck run, rewrites its contract,
\* saves it, and only then lets restart_async or resume_async read it again.
BeginRevive(q) ==
    /\ row.st \in {"failed", "incident"}
    /\ Begin(q, "resave", "revive", row)

BeginCancel(q) ==
    /\ row.st \in {"active", "paused", "incident"}
    /\ Begin(q, "save", "cancel", [row EXCEPT !.st = "cancelled"])

Resave(q) ==
    /\ At(q, "resave")
    /\ row' = req[q].mem
    /\ Then(q, "reread", req[q].mem)
    /\ UNCHANGED <<tasks, filed, armed, outbox, up, worker, cache, boundVars, historyVars>>

Reread(q) ==
    /\ At(q, "reread")
    /\ IF row.st = req[q].mem.st
       THEN \E n \in 1 .. MaxSteps :
               LET folded == [Answered(row) EXCEPT !.todo = n]
               IN  \E revived \in IF row.st = "failed" THEN Restarted(folded)
                                                       ELSE {Retried(folded)} :
                      Then(q, "stage", revived)
       ELSE Return(q)                                  \* ResumeError: 422
    /\ UNCHANGED <<storeVars, up, worker, cache, boundVars, historyVars>>

Stage(q) ==
    /\ At(q, "stage")
    /\ row' = req[q].mem
    /\ Then(q, "enqueue", req[q].mem)
    /\ UNCHANGED <<tasks, filed, armed, outbox, up, worker, cache, boundVars, historyVars>>

Enqueue(q) ==
    /\ At(q, "enqueue")
    /\ \E t \in TaskIds : NewTask(t)
    /\ Then(q, "arm", req[q].mem)
    /\ UNCHANGED <<row, filed, armed, outbox, up, worker, cache, boundVars, historyVars>>

\* The report is armed, and the answer acknowledged, last.
Arm(q) ==
    /\ At(q, "arm")
    /\ IF req[q].kind = "answer" THEN Rearm ELSE File
    /\ decided' = IF req[q].kind = "submit" THEN decided ELSE decided + 1
    /\ Return(q)
    /\ UNCHANGED <<row, tasks, outbox, up, worker, cache, boundVars, delivered, torn>>

\* _cancel saves what it loaded, marked CANCELLED.
SaveCancel(q) ==
    /\ At(q, "save")
    /\ row' = req[q].mem
    /\ Return(q)
    /\ UNCHANGED <<tasks, filed, armed, outbox, up, worker, cache, boundVars, historyVars>>
-----------------------------------------------------------------------------
\* THE WORKER THREAD: drive_queue over process_next

On(pc) == up /\ worker.pc = pc
Go(pc, mem) == worker' = [worker EXCEPT !.pc = pc, !.mem = mem]
Rest == worker' = Idle

\* reclaim_expired: only a lease whose process died ever lapses with no holder.
Reclaim ==
    /\ On("idle")
    /\ \E t \in TaskIds :
          /\ tasks[t] = "leased"
          /\ tasks' = [tasks EXCEPT ![t] = "pending"]
    /\ UNCHANGED <<row, filed, armed, outbox, threadVars, boundVars, historyVars>>

Lease ==
    /\ On("idle")
    /\ \E t \in TaskIds :
          /\ tasks[t] = "pending"
          /\ \A s \in TaskIds : s < t => tasks[s] # "pending"
          /\ tasks' = [tasks EXCEPT ![t] = "leased"]
          /\ worker' = [worker EXCEPT !.pc = "load", !.task = t]
    /\ UNCHANGED <<row, filed, armed, outbox, up, req, cache, boundVars, historyVars>>

Load ==
    /\ On("load")
    /\ Go("drive", row)
    /\ UNCHANGED <<storeVars, up, req, cache, boundVars, historyVars>>

\* One engine step, then the hook stages the worker's copy.  The step that executes
\* must have had its outcome (Execute).
StepResults(r) ==
    IF r.todo > 0 THEN {[r EXCEPT !.todo = @ - 1]}
                  ELSE {[r EXCEPT !.st = s] : s \in {"paused", "incident"} \cup Terminal}

Driving == On("drive") /\ worker.mem.st = "active"

\* The executor runs the route under the attempt's key unless it remembers the key.
Execute ==
    /\ Driving
    /\ worker.mem.todo = 1
    /\ Key(worker.mem) \notin cache
    /\ cache' = cache \cup {Key(worker.mem)}
    /\ UNCHANGED <<storeVars, up, worker, req, boundVars, historyVars>>

\* Mutant: a step that keeps counting after the last one.
StepPast ==
    /\ Driving
    /\ worker.mem.todo = 1 => Key(worker.mem) \in cache
    /\ row' = [worker.mem EXCEPT !.todo = @ - 1]
    /\ Go("drive", row')
    /\ UNCHANGED <<tasks, filed, armed, outbox, up, req, cache, boundVars, historyVars>>

Step ==
    /\ Driving
    /\ worker.mem.todo = 1 => Key(worker.mem) \in cache
    /\ row' \in StepResults(worker.mem)
    /\ Go("drive", row')
    /\ UNCHANGED <<tasks, filed, armed, outbox, up, req, cache, boundVars, historyVars>>

\* Mutant: a drained task is acknowledged instead of handed back.
DrainAcks ==
    /\ Driving
    /\ crashes < MaxCrashes
    /\ crashes' = crashes + 1
    /\ worker.mem.todo = 1 => Key(worker.mem) \in cache
    /\ row' \in StepResults(worker.mem)
    /\ tasks' = [tasks EXCEPT ![worker.task] = "done"]
    /\ Rest
    /\ UNCHANGED <<filed, armed, outbox, up, req, cache, asks, historyVars>>

\* should_stop: the hook hands the lease back after its stage, whatever the step did.
Drain ==
    /\ Driving
    /\ crashes < MaxCrashes
    /\ crashes' = crashes + 1
    /\ worker.mem.todo = 1 => Key(worker.mem) \in cache
    /\ row' \in StepResults(worker.mem)
    /\ tasks' = [tasks EXCEPT ![worker.task] = "pending"]
    /\ Rest
    /\ UNCHANGED <<filed, armed, outbox, up, req, cache, asks, historyVars>>

\* Mutant: a drive that raised leaves its task to the reclaim, to raise again.
RaiseRetried ==
    /\ Driving
    /\ Rest
    /\ UNCHANGED <<storeVars, up, req, cache, boundVars, historyVars>>

\* A drive that raised: the run is aborted, the verdict not yet stored.
Raise ==
    /\ Driving
    /\ Go("drive", [worker.mem EXCEPT !.st = "failed"])
    /\ UNCHANGED <<storeVars, up, req, cache, boundVars, historyVars>>

\* Mutant: the task is acknowledged before its run is stored and announced.
CheckpointAfterAck ==
    /\ On("drive") /\ worker.mem.st # "active"
    /\ tasks' = [tasks EXCEPT ![worker.task] = "done"]
    /\ Go("complete", worker.mem)
    /\ UNCHANGED <<row, filed, armed, outbox, up, req, cache, boundVars, historyVars>>

\* The settled copy and its announcement commit together.
Checkpoint ==
    /\ On("drive") /\ worker.mem.st # "active"
    /\ row' = worker.mem
    /\ outbox' = outbox \cup {worker.task}
    /\ Go("complete", worker.mem)
    /\ UNCHANGED <<tasks, filed, armed, up, req, cache, boundVars, historyVars>>

Complete ==
    /\ On("complete")
    /\ tasks' = [tasks EXCEPT ![worker.task] = "done"]
    /\ Go("look", worker.mem)
    /\ UNCHANGED <<row, filed, armed, outbox, up, req, cache, boundVars, historyVars>>

\* drive_queue reads the run again for its bookkeeping.
Look ==
    /\ On("look")
    /\ Go("judge", row)
    /\ UNCHANGED <<storeVars, up, req, cache, boundVars, historyVars>>

\* _auto_retry_incident: a chat-born run's mechanical incident, under delegation;
\* resume_async reads the row once more and refuses one no longer at its incident.
AutoRetry ==
    /\ On("judge")
    /\ worker.mem.st = "incident" /\ filed
    /\ row.st = "incident"
    /\ asks < MaxAsks
    /\ asks' = asks + 1
    /\ \E n \in 1 .. MaxSteps : Go("retryStage", Retried([row EXCEPT !.todo = n]))
    /\ UNCHANGED <<storeVars, up, req, cache, crashes, historyVars>>

RetryStage ==
    /\ On("retryStage")
    /\ row' = worker.mem
    /\ Go("retryEnqueue", worker.mem)
    /\ UNCHANGED <<tasks, filed, armed, outbox, up, req, cache, boundVars, historyVars>>

RetryEnqueue ==
    /\ On("retryEnqueue")
    /\ \E t \in TaskIds : NewTask(t)
    /\ Rest
    /\ UNCHANGED <<row, filed, armed, outbox, up, req, cache, boundVars, historyVars>>

\* Mutant: the report is composed without claiming it.
ClaimReportUnmarked ==
    /\ On("judge")
    /\ IF armed /\ Reportable(worker.mem) THEN Go("deliver", worker.mem) ELSE Rest
    /\ UNCHANGED <<storeVars, up, req, cache, boundVars, historyVars>>

\* _report_run_outcome: mark_reported claims the report before it is composed.
ClaimReport ==
    /\ On("judge")
    /\ IF armed /\ Reportable(worker.mem)
       THEN armed' = FALSE /\ Go("deliver", worker.mem)
       ELSE UNCHANGED armed /\ Rest
    /\ UNCHANGED <<row, tasks, filed, outbox, up, req, cache, boundVars, historyVars>>

Deliver ==
    /\ On("deliver")
    /\ delivered' = delivered + 1
    /\ Rest
    /\ UNCHANGED <<storeVars, up, req, cache, boundVars, decided, armings, torn>>
-----------------------------------------------------------------------------
\* THE PROCESS

\* A write that makes the run active and whose task is not enqueued yet.
Owing == (\E q \in Requests : req[q].pc = "enqueue") \/ worker.pc = "retryEnqueue"

Crash ==
    /\ up /\ crashes < MaxCrashes
    /\ crashes' = crashes + 1
    /\ up' = FALSE
    /\ worker' = Idle /\ req' = [q \in Requests |-> NoRequest] /\ cache' = {}
    /\ torn' = (torn \/ Owing)
    /\ UNCHANGED <<storeVars, asks, decided, armings, delivered>>

\* _recover_owed_runs: among the reports still owed, a settled run gets its report, and
\* an active run with no standing task gets one.
Boot ==
    /\ ~up
    /\ up' = TRUE
    /\ IF armed /\ Reportable(row)
       THEN armed' = FALSE /\ delivered' = delivered + 1
       ELSE UNCHANGED <<armed, delivered>>
    /\ IF armed /\ row.st = "active" /\ Open = {}
       THEN \E t \in TaskIds : NewTask(t)
       ELSE UNCHANGED tasks
    /\ UNCHANGED <<row, filed, outbox, worker, req, cache, boundVars, decided,
                   armings, torn>>

Request(q) ==
    \/ BeginSubmit(q) \/ BeginAnswer(q) \/ BeginRevive(q) \/ BeginCancel(q)
    \/ Resave(q) \/ Reread(q) \/ Stage(q) \/ Enqueue(q) \/ Arm(q) \/ SaveCancel(q)

Work ==
    \/ Lease \/ Load \/ Execute \/ Step \/ Raise \/ Checkpoint \/ Complete
    \/ Look \/ AutoRetry \/ RetryStage \/ RetryEnqueue \/ ClaimReport \/ Deliver

Next == (\E q \in Requests : Request(q)) \/ Work \/ Reclaim \/ Drain \/ Crash \/ Boot

Spec == Init /\ [][Next]_vars

\* The worker loop polls and reclaims, a restarted process boots, and a request begun
\* runs to its end.
FairSpec ==
    /\ Spec
    /\ WF_vars(Work) /\ WF_vars(Reclaim) /\ WF_vars(Boot)
    /\ \A q \in Requests :
          WF_vars(Resave(q) \/ Reread(q) \/ Stage(q) \/ Enqueue(q) \/ Arm(q) \/ SaveCancel(q))
-----------------------------------------------------------------------------
\* PROPERTIES

\* An active run has a standing task, or a thread about to enqueue one, unless a crash
\* fell between a thread's stage and its enqueue: no other order of answers, stale
\* writes, drains, retries and restarts ever strands it.
OwedIsQueued == row.st = "active" => (Open # {} \/ Owing \/ torn)

\* A task is acknowledged only after a checkpoint of its run was stored and announced:
\* a crash anywhere in a drive leaves the task to be driven again.
AckAfterCheckpoint == \A t \in TaskIds : tasks[t] = "done" => t \in outbox

\* A report lands at most once per arming, through crashes between claim and delivery.
ReportsBounded == delivered <= armings

\* Accepted work survives the window and the process: an active run whose task waits in
\* the queue is driven until it pauses or ends.
QueuedRunSettles ==
    (row.st = "active" /\ \E t \in TaskIds : tasks[t] = "pending") ~> row.st # "active"

\* "The decision lands before anything else", "a second advance for the same run is a
\* harmless no-op drive" (durable/service.py): an answer the gateway acknowledged is in
\* the stored run.
DecisionsStick == decided <= row.answers
=============================================================================
