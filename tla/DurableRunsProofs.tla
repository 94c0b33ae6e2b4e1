-------------------------- MODULE DurableRunsProofs --------------------------
(***************************************************************************)
(* What DurableRuns keeps for any number of request threads, steps, asks,  *)
(* tasks and crashes.                                                      *)
(***************************************************************************)
EXTENDS DurableRuns, FiniteSetTheorems, TLAPS

WorkerPhases == {"idle", "load", "drive", "complete", "look", "judge", "retryStage",
                 "retryEnqueue", "deliver"}
RequestPhases == {"idle", "save", "resave", "reread", "stage", "enqueue", "arm"}
Kinds == {"none", "submit", "answer", "revive", "cancel"}
WorkerType == [pc : WorkerPhases, task : 0 .. MaxTasks, mem : Run]
RequestType == [pc : RequestPhases, kind : Kinds, mem : Run]

\* The revivals that have still to read the run again: each will start an attempt of
\* its own, which its ask has already paid for.
Reviving == {q \in Requests : req[q].pc \in {"resave", "reread"}}

\* The attempts and the plans a copy of the run counts.
Tries(r) == r.plan + r.try - 1
Within(r) == Tries(r) + Cardinality(Reviving) <= asks + 1

\* No copy of the run, wherever it is held, counts more of them than were asked for.
TriesArePaid ==
    /\ IsFiniteSet(Reviving)
    /\ Within(row) /\ Within(worker.mem)
    /\ \A q \in Requests : Within(req[q].mem)

\* The worker's task is leased from the moment it has it until it is acknowledged.
HoldsLease ==
    worker.pc \in {"load", "drive", "complete"} =>
        worker.task \in TaskIds /\ tasks[worker.task] = "leased"

\* A worker about to acknowledge has announced its checkpoint; and a run made active
\* since then has a task besides the one that is about to be settled.
ReadyToSettle ==
    worker.pc = "complete" =>
        /\ worker.task \in outbox
        /\ row.st = "active" => Owing \/ torn \/ \E t \in Open : t # worker.task

\* What a cancel or a revival is about to save over the run is not active.
SavesAtRest ==
    \A q \in Requests : req[q].pc \in {"save", "resave"} => req[q].mem.st # "active"

\* A report that is armed, and one being delivered, are among those promised.
One(b) == IF b THEN 1 ELSE 0
ReportsPromised == delivered + One(armed) + One(worker.pc = "deliver") <= armings

IInv ==
    /\ TypeOK
    /\ TriesArePaid
    /\ HoldsLease
    /\ ReadyToSettle
    /\ SavesAtRest
    /\ ReportsPromised
    /\ OwedIsQueued
    /\ AckAfterCheckpoint
-----------------------------------------------------------------------------
(* Types. *)

USE BoundAssumption

LEMMA NoRunTyped == NoRun \in Run /\ Idle \in WorkerType /\ NoRequest \in RequestType
<1>1. 1 \in Attempts
  BY DEF Attempts
<1>2. NoRun \in Run
  BY <1>1 DEF NoRun, Run, Status
<1> QED
  BY <1>2 DEF Idle, NoRequest, WorkerType, RequestType, WorkerPhases, RequestPhases, Kinds

\* The copies a thread makes of a run it read.
LEMMA CopiesTyped ==
    ASSUME NEW r \in Run
    PROVE  /\ \A n \in Nat : [r EXCEPT !.todo = n] \in Run
           /\ \A s \in Status : [r EXCEPT !.st = s] \in Run
           /\ Answered(r) \in Run
           /\ Tries(r) + 1 \in Attempts => Retried(r) \in Run /\ Restarted(r) \subseteq Run
<1>1. "active" \in Status
  BY DEF Status
<1>2. \A n \in Nat : [r EXCEPT !.todo = n] \in Run
  BY DEF Run
<1>3. \A s \in Status : [r EXCEPT !.st = s] \in Run
  BY DEF Run
<1>4. Answered(r) \in Run
  <2>1. Answered(r) = [r EXCEPT !.st = "active", !.answers = r.answers + 1]
    BY DEF Answered
  <2>2. r.answers + 1 \in Nat
    BY DEF Run
  <2> QED
    BY <1>1, <2>1, <2>2 DEF Run
<1>5. ASSUME Tries(r) + 1 \in Attempts PROVE Retried(r) \in Run /\ Restarted(r) \subseteq Run
  <2>1. r.try + 1 \in Attempts /\ {1, r.plan, r.plan + 1} \subseteq Attempts
    <3>1. r.try \in Nat \ {0} /\ r.plan \in Nat \ {0} /\ r.plan \in Attempts
      BY DEF Run, Attempts
    <3>2. r.plan + r.try <= MaxAsks + 1
      BY <1>5, <3>1 DEF Tries, Attempts
    <3> QED
      BY <3>1, <3>2 DEF Attempts
  <2>2. Retried(r) = [r EXCEPT !.st = "active", !.try = r.try + 1]
    BY DEF Retried
  <2>3. Retried(r) \in Run
    BY <1>1, <2>1, <2>2 DEF Run
  <2>4. ASSUME NEW p \in Attempts PROVE [r EXCEPT !.st = "active", !.plan = p, !.try = 1] \in Run
    BY <1>1, <2>1, <2>4 DEF Run
  <2> QED
    BY <2>1, <2>3, <2>4 DEF Restarted
<1> QED
  BY <1>2, <1>3, <1>4, <1>5

\* What the copies say.
LEMMA CopiesSay ==
    ASSUME NEW r \in Run
    PROVE  /\ \A n : Tries([r EXCEPT !.todo = n]) = Tries(r) /\ [r EXCEPT !.todo = n].st = r.st
           /\ \A s : Tries([r EXCEPT !.st = s]) = Tries(r) /\ [r EXCEPT !.st = s].st = s
           /\ Tries(Answered(r)) = Tries(r) /\ Answered(r).st = "active"
           /\ Tries(Retried(r)) = Tries(r) + 1 /\ Retried(r).st = "active"
           /\ \A s \in Restarted(r) : Tries(s) <= Tries(r) + 1 /\ s.st = "active"
<1>1. r.plan \in Nat /\ r.try \in Nat \ {0}
  BY DEF Run, Attempts
<1>2. /\ \A n : Tries([r EXCEPT !.todo = n]) = Tries(r) /\ [r EXCEPT !.todo = n].st = r.st
      /\ \A s : Tries([r EXCEPT !.st = s]) = Tries(r) /\ [r EXCEPT !.st = s].st = s
      /\ Tries(Answered(r)) = Tries(r) /\ Answered(r).st = "active"
  BY DEF Run, Answered, Tries
<1>3. Tries(Retried(r)) = Tries(r) + 1 /\ Retried(r).st = "active"
  BY <1>1 DEF Run, Retried, Tries
<1>4. ASSUME NEW s \in Restarted(r) PROVE Tries(s) <= Tries(r) + 1 /\ s.st = "active"
  <2>1. PICK p \in {r.plan, r.plan + 1} : s = [r EXCEPT !.st = "active", !.plan = p, !.try = 1]
    BY DEF Restarted
  <2>2. s.plan = p /\ s.try = 1 /\ s.st = "active"
    BY <2>1 DEF Run
  <2> QED
    BY <1>1, <2>1, <2>2 DEF Tries
<1> QED
  BY <1>2, <1>3, <1>4

\* The same of one copy.
LEMMA CopySaid ==
    ASSUME NEW r \in Run, NEW n \in Nat
    PROVE  [r EXCEPT !.todo = n] \in Run /\ Tries([r EXCEPT !.todo = n]) = Tries(r)
<1>1. [r EXCEPT !.todo = n].plan = r.plan /\ [r EXCEPT !.todo = n].try = r.try
  BY DEF Run
<1> QED
  BY <1>1, CopiesTyped DEF Tries

LEMMA StepTyped ==
    ASSUME NEW r \in Run, NEW s \in StepResults(r)
    PROVE  s \in Run /\ Tries(s) = Tries(r)
<1>1. CASE r.todo > 0
  <2>1. s = [r EXCEPT !.todo = r.todo - 1] /\ r.todo - 1 \in Nat
    BY <1>1 DEF StepResults, Run
  <2> QED
    BY <2>1, CopiesTyped, CopiesSay
<1>2. CASE ~(r.todo > 0)
  <2>1. PICK st \in {"paused", "incident"} \cup Terminal : s = [r EXCEPT !.st = st]
    BY <1>2 DEF StepResults
  <2>2. st \in Status
    BY DEF Status
  <2> QED
    BY <2>1, <2>2, CopiesTyped, CopiesSay
<1> QED
  BY <1>1, <1>2
-----------------------------------------------------------------------------
(* What the steps of a request, and of the worker, leave of the threads. *)

\* A request that goes on, or begins, or returns.
LEMMA RequestGoes ==
    ASSUME TypeOK, NEW q \in Requests, NEW pc \in RequestPhases, NEW k \in Kinds, NEW m \in Run,
           \/ Then(q, pc, m)
           \/ req' = [req EXCEPT ![q] = [pc |-> pc, kind |-> k, mem |-> m]]
    PROVE  /\ req' \in [Requests -> RequestType]
           /\ req'[q].pc = pc /\ req'[q].mem = m
           /\ \A p \in Requests \ {q} : req'[p] = req[p]
<1>1. req \in [Requests -> RequestType]
  BY DEF TypeOK, RequestType, RequestPhases, Kinds
<1>2. \E r \in RequestType : req' = [req EXCEPT ![q] = r] /\ r.pc = pc /\ r.mem = m
  <2>1. CASE Then(q, pc, m)
    <3>1. [req[q] EXCEPT !.pc = pc, !.mem = m] \in RequestType
      BY <1>1 DEF RequestType
    <3>2. /\ [req[q] EXCEPT !.pc = pc, !.mem = m].pc = pc
          /\ [req[q] EXCEPT !.pc = pc, !.mem = m].mem = m
      BY <1>1 DEF RequestType
    <3> QED
      BY <2>1, <3>1, <3>2 DEF Then
  <2>2. CASE req' = [req EXCEPT ![q] = [pc |-> pc, kind |-> k, mem |-> m]]
    <3>1. [pc |-> pc, kind |-> k, mem |-> m] \in RequestType
      BY DEF RequestType
    <3> QED
      BY <2>2, <3>1
  <2> QED
    BY <2>1, <2>2
<1> QED
  BY <1>1, <1>2

LEMMA RequestReturns ==
    ASSUME TypeOK, NEW q \in Requests, Return(q)
    PROVE  /\ req' \in [Requests -> RequestType]
           /\ req'[q].pc = "idle" /\ req'[q].mem = NoRun
           /\ \A p \in Requests \ {q} : req'[p] = req[p]
<1>1. req \in [Requests -> RequestType]
  BY DEF TypeOK, RequestType, RequestPhases, Kinds
<1>2. NoRequest \in RequestType /\ NoRequest.pc = "idle" /\ NoRequest.mem = NoRun
  BY NoRunTyped DEF NoRequest
<1>3. req' = [req EXCEPT ![q] = NoRequest]
  BY DEF Return
<1> QED
  BY <1>1, <1>2, <1>3

LEMMA WorkerGoes ==
    ASSUME TypeOK, NEW pc \in WorkerPhases, NEW m \in Run, Go(pc, m)
    PROVE  /\ worker' \in WorkerType
           /\ worker'.pc = pc /\ worker'.mem = m /\ worker'.task = worker.task
<1>1. worker \in WorkerType
  BY DEF TypeOK, WorkerType, WorkerPhases
<1> QED
  BY <1>1 DEF Go, WorkerType

LEMMA WorkerRests ==
    ASSUME Rest
    PROVE  worker' \in WorkerType /\ worker'.pc = "idle" /\ worker'.mem = NoRun
BY NoRunTyped DEF Rest, Idle

\* A task enqueued.
LEMMA TaskComes ==
    ASSUME TypeOK, NEW t \in TaskIds, NewTask(t)
    PROVE  /\ tasks' \in [TaskIds -> {"none", "pending", "leased", "done"}]
           /\ tasks[t] = "none" /\ tasks'[t] = "pending"
           /\ \A s \in TaskIds \ {t} : tasks'[s] = tasks[s]
BY DEF TypeOK, NewTask
-----------------------------------------------------------------------------
(* Type correctness, which needs to know that attempts are paid for. *)

LEMMA CountIsNat == TriesArePaid => Cardinality(Reviving) \in Nat
BY FS_CardinalityType DEF TriesArePaid

\* Another attempt of the stored run is an attempt, when an ask is left or was kept.
LEMMA OneMoreTry ==
    ASSUME TypeOK, TriesArePaid, asks < MaxAsks \/ Reviving # {}
    PROVE  Tries(row) + 1 \in Attempts /\ Tries(row) \in Attempts
<1>1. Cardinality(Reviving) \in Nat /\ (Cardinality(Reviving) = 0 => Reviving = {})
  BY CountIsNat, FS_EmptySet DEF TriesArePaid
<1>2. Tries(row) \in Nat \ {0} /\ asks \in Nat /\ asks <= MaxAsks
  BY DEF TypeOK, Run, Attempts, Tries
<1>3. Tries(row) + Cardinality(Reviving) <= asks + 1
  BY DEF TriesArePaid, Within
<1>4. Tries(row) + 1 <= MaxAsks + 1
  BY <1>1, <1>2, <1>3
<1> QED
  BY <1>2, <1>4 DEF Attempts

Begins(q) == BeginSubmit(q) \/ BeginAnswer(q) \/ BeginRevive(q) \/ BeginCancel(q)

\* What a request begins with: a copy of the run, or of one more attempt of it.
LEMMA Beginnings ==
    ASSUME TypeOK, TriesArePaid, NEW q \in Requests, Begins(q)
    PROVE  \E pc \in {"stage", "resave", "save"}, k \in Kinds, m \in Run :
              /\ Begin(q, pc, k, m)
              /\ Tries(m) <= Tries(row) + 1
              /\ pc = "resave" => Tries(m) = Tries(row) /\ m.st # "active"
              /\ pc = "save" => m.st # "active"
<1>1. row \in Run /\ Tries(row) \in Nat
  BY DEF TypeOK, Run, Attempts, Tries
<1>2. asks < MaxAsks
  BY DEF Begins, BeginSubmit, BeginAnswer, BeginRevive, BeginCancel, Begin
<1>3. Tries(row) + 1 \in Attempts
  BY <1>2, OneMoreTry
<1>4. CASE BeginSubmit(q)
  <2>1. PICK n \in 1 .. MaxSteps :
           Begin(q, "stage", "submit", [NoRun EXCEPT !.st = "active", !.todo = n])
    BY <1>4 DEF BeginSubmit
  <2> DEFINE m == [NoRun EXCEPT !.st = "active", !.todo = n]
  <2>2. m \in Run /\ Tries(m) = 1
    <3> DEFINE f == [NoRun EXCEPT !.st = "active"]
    <3>1. f \in Run /\ Tries(f) = 1
      <4>1. f.plan = 1 /\ f.try = 1
        BY DEF NoRun
      <4> QED
        BY <4>1, NoRunTyped, CopiesTyped DEF Status, Tries
    <3>2. m = [f EXCEPT !.todo = n]
      BY DEF NoRun
    <3>3. n \in Nat
      OBVIOUS
    <3> HIDE DEF f, m
    <3> QED
      BY <3>1, <3>2, <3>3, CopiesTyped, CopiesSay
  <2>3. 1 <= Tries(row) + 1 /\ "submit" \in Kinds
    BY <1>1 DEF Kinds
  <2>4. Begin(q, "stage", "submit", m)
    BY <2>1
  <2> HIDE DEF m
  <2> QED
    BY <2>2, <2>3, <2>4
<1>5. CASE BeginAnswer(q)
  <2>1. PICK n \in 1 .. MaxSteps :
           \/ Begin(q, "stage", "answer",
                    IF row.st = "incident" THEN Retried([Answered(row) EXCEPT !.todo = n])
                                           ELSE [Answered(row) EXCEPT !.todo = n])
           \/ Begin(q, "stage", "answer", [Answered(row) EXCEPT !.st = "failed"])
    BY <1>5 DEF BeginAnswer
  <2> DEFINE a == Answered(row)
             f == [a EXCEPT !.todo = n]
  <2>2. a \in Run /\ Tries(a) = Tries(row)
    BY <1>1, CopiesTyped, CopiesSay
  <2>3. f \in Run /\ Tries(f) = Tries(row)
    BY <2>2, CopySaid
  <2>4. Retried(f) \in Run /\ Tries(Retried(f)) = Tries(row) + 1
    BY <1>3, <2>3, CopiesTyped, CopiesSay
  <2>5. [a EXCEPT !.st = "failed"] \in Run /\ Tries([a EXCEPT !.st = "failed"]) = Tries(row)
    BY <2>2, CopiesTyped, CopiesSay DEF Status, Terminal
  <2>6. Tries(row) <= Tries(row) + 1 /\ "answer" \in Kinds
    BY <1>1 DEF Kinds
  <2>7. CASE Begin(q, "stage", "answer", [a EXCEPT !.st = "failed"])
    BY <2>5, <2>6, <2>7
  <2>8. CASE Begin(q, "stage", "answer", IF row.st = "incident" THEN Retried(f) ELSE f)
    <3>1. CASE row.st = "incident"
      <4>1. Begin(q, "stage", "answer", Retried(f))
        BY <2>8, <3>1
      <4> HIDE DEF f
      <4> QED
        BY <1>1, <2>4, <2>6, <4>1
    <3>2. CASE row.st # "incident"
      <4>1. Begin(q, "stage", "answer", f)
        BY <2>8, <3>2
      <4> HIDE DEF f
      <4> QED
        BY <1>1, <2>3, <2>6, <4>1
    <3> QED
      BY <3>1, <3>2
  <2> QED
    BY <2>1, <2>7, <2>8
<1>6. CASE BeginRevive(q)
  BY <1>1, <1>6 DEF BeginRevive, Kinds
<1>7. CASE BeginCancel(q)
  <2> DEFINE m == [row EXCEPT !.st = "cancelled"]
  <2>1. m \in Run /\ Tries(m) = Tries(row) /\ m.st = "cancelled"
    BY <1>1, CopiesTyped, CopiesSay DEF Status, Terminal
  <2>2. Begin(q, "save", "cancel", m)
    BY <1>7 DEF BeginCancel
  <2>3. Tries(row) <= Tries(row) + 1 /\ "cancel" \in Kinds
    BY <1>1 DEF Kinds
  <2> HIDE DEF m
  <2> QED
    BY <1>1, <2>1, <2>2, <2>3
<1> QED
  BY <1>4, <1>5, <1>6, <1>7 DEF Begins

\* What a revival goes on with.
LEMMA Rereads ==
    ASSUME TypeOK, TriesArePaid, NEW q \in Requests, Reread(q)
    PROVE  \/ Return(q)
           \/ \E m \in Run : Then(q, "stage", m) /\ Tries(m) <= Tries(row) + 1
<1>1. q \in Reviving
  BY DEF Reread, At, Reviving
<1>2. Tries(row) + 1 \in Attempts /\ row \in Run /\ Tries(row) \in Nat
  BY <1>1, OneMoreTry DEF TypeOK, Attempts
<1>3. CASE row.st = req[q].mem.st
  <2>1. PICK n \in 1 .. MaxSteps :
           \E m \in IF row.st = "failed" THEN Restarted([Answered(row) EXCEPT !.todo = n])
                                         ELSE {Retried([Answered(row) EXCEPT !.todo = n])} :
              Then(q, "stage", m)
    BY <1>3 DEF Reread
  <2> DEFINE a == Answered(row)
             f == [a EXCEPT !.todo = n]
  <2>2. a \in Run /\ Tries(a) = Tries(row)
    BY <1>2, CopiesTyped, CopiesSay
  <2>3. f \in Run /\ Tries(f) = Tries(row)
    BY <2>2, CopySaid
  <2>4. /\ Retried(f) \in Run /\ Tries(Retried(f)) = Tries(row) + 1
        /\ \A m \in Restarted(f) : m \in Run /\ Tries(m) <= Tries(row) + 1
    BY <1>2, <2>3, CopiesTyped, CopiesSay
  <2>5. PICK m \in Restarted(f) \cup {Retried(f)} : Then(q, "stage", m)
    BY <2>1
  <2> HIDE DEF f
  <2> QED
    BY <1>2, <2>4, <2>5
<1> QED
  BY <1>3 DEF Reread

\* What the worker retries an incident with.
LEMMA AutoRetries ==
    ASSUME TypeOK, TriesArePaid, AutoRetry
    PROVE  \E m \in Run : Go("retryStage", m) /\ Tries(m) = Tries(row) + 1
<1>1. Tries(row) + 1 \in Attempts /\ row \in Run
  BY OneMoreTry DEF TypeOK, AutoRetry
<1>2. PICK n \in 1 .. MaxSteps : Go("retryStage", Retried([row EXCEPT !.todo = n]))
  BY DEF AutoRetry
<1> DEFINE f == [row EXCEPT !.todo = n]
<1>3. f \in Run /\ Tries(f) = Tries(row)
  BY <1>1, CopySaid
<1>4. Retried(f) \in Run /\ Tries(Retried(f)) = Tries(row) + 1
  BY <1>1, <1>3, CopiesTyped, CopiesSay
<1> QED
  BY <1>2, <1>4

LEMMA TypeStep ==
    ASSUME TypeOK, TriesArePaid, HoldsLease, [Next]_vars
    PROVE  TypeOK'
<1> USE DEF storeVars, threadVars, boundVars, historyVars
<1>1. CASE UNCHANGED vars
  BY <1>1 DEF TypeOK, vars
<1>2. ASSUME NEW q \in Requests, Request(q) PROVE TypeOK'
  <2> USE DEF RequestType, RequestPhases, Kinds
  <2>1. CASE Begins(q)
    <3>1. PICK pc \in {"stage", "resave", "save"}, k \in Kinds, m \in Run : Begin(q, pc, k, m)
      BY <2>1, Beginnings
    <3>2. req' \in [Requests -> RequestType]
      BY <3>1, RequestGoes DEF Begin
    <3>3. asks' \in 0 .. MaxAsks
      BY <3>1 DEF Begin, TypeOK
    <3> QED
      BY <3>1, <3>2, <3>3 DEF Begin, TypeOK
  <2>2. req[q].mem \in Run
    BY DEF TypeOK
  <2>3. CASE Resave(q)
    BY <2>2, <2>3, RequestGoes DEF Resave, TypeOK
  <2>4. CASE Reread(q)
    <3>1. req' \in [Requests -> RequestType]
      BY <2>4, Rereads, RequestGoes, RequestReturns
    <3> QED
      BY <2>4, <3>1 DEF Reread, TypeOK
  <2>5. CASE Stage(q)
    BY <2>2, <2>5, RequestGoes DEF Stage, TypeOK
  <2>6. CASE Enqueue(q)
    BY <2>2, <2>6, RequestGoes, TaskComes DEF Enqueue, TypeOK
  <2>7. CASE Arm(q)
    <3>1. req' \in [Requests -> RequestType]
      BY <2>7, RequestReturns DEF Arm
    <3>2. filed' \in BOOLEAN /\ armed' \in BOOLEAN /\ armings' \in Nat
      <4>1. filed \in BOOLEAN /\ armed \in BOOLEAN /\ armings \in Nat /\ armings + 1 \in Nat
        BY DEF TypeOK
      <4>2. File \/ Rearm
        BY <2>7 DEF Arm
      <4>3. armings' \in Nat
        BY <4>1, <4>2 DEF File, Rearm
      <4>4. filed' \in BOOLEAN /\ armed' \in BOOLEAN
        BY <4>1, <4>2, Zenon DEF File, Rearm
      <4> QED
        BY <4>3, <4>4
    <3>3. decided' \in Nat
      BY <2>7 DEF Arm, TypeOK
    <3> QED
      BY <2>7, <3>1, <3>2, <3>3 DEF Arm, TypeOK
  <2>8. CASE SaveCancel(q)
    BY <2>2, <2>8, RequestReturns DEF SaveCancel, TypeOK
  <2> QED
    BY <1>2, <2>1, <2>3, <2>4, <2>5, <2>6, <2>7, <2>8 DEF Request, Begins
<1>3. ASSUME Work \/ Reclaim \/ Drain PROVE TypeOK'
  <2> USE DEF WorkerType, WorkerPhases
  <2>1. row \in Run /\ worker.mem \in Run
    BY DEF TypeOK
  <2>2. CASE Lease
    <3>1. worker' \in WorkerType
      <4>1. worker \in WorkerType
        BY DEF TypeOK
      <4>2. PICK t \in TaskIds : worker' = [worker EXCEPT !.pc = "load", !.task = t]
        BY <2>2 DEF Lease
      <4>3. t \in 0 .. MaxTasks
        BY DEF TaskIds
      <4> QED
        BY <4>1, <4>2, <4>3
    <3> QED
      BY <2>2, <3>1 DEF Lease, TypeOK
  <2>3. CASE Load \/ Look
    BY <2>1, <2>3, WorkerGoes DEF Load, Look, TypeOK
  <2>4. CASE Execute
    <3>1. Key(worker.mem) \in Attempts \X Attempts
      BY <2>1 DEF Run, Key
    <3> QED
      BY <2>4, <3>1 DEF Execute, TypeOK
  <2>5. CASE Step
    BY <2>1, <2>5, StepTyped, WorkerGoes DEF Step, TypeOK
  <2>6. CASE Raise
    <3>1. [worker.mem EXCEPT !.st = "failed"] \in Run
      BY <2>1, CopiesTyped DEF Status, Terminal
    <3> QED
      BY <2>6, <3>1, WorkerGoes DEF Raise, TypeOK
  <2>7. CASE Checkpoint \/ Complete
    <3>1. worker' \in WorkerType
      BY <2>1, <2>7, WorkerGoes DEF Checkpoint, Complete
    <3>2. Checkpoint => worker.task \in TaskIds
      <4> SUFFICES ASSUME Checkpoint PROVE worker.task \in TaskIds
        OBVIOUS
      <4> QED
        BY DEF Checkpoint, On, HoldsLease
    <3>3. outbox' \subseteq TaskIds
      BY <2>7, <3>2 DEF Checkpoint, Complete, TypeOK
    <3>4. tasks' \in [TaskIds -> {"none", "pending", "leased", "done"}]
      BY <2>7 DEF Checkpoint, Complete, TypeOK
    <3>5. row' \in Run
      BY <2>1, <2>7 DEF Checkpoint, Complete
    <3> QED
      BY <2>7, <3>1, <3>3, <3>4, <3>5 DEF Checkpoint, Complete, TypeOK
  <2>8. CASE AutoRetry
    <3>1. worker' \in WorkerType
      BY <2>8, AutoRetries, WorkerGoes
    <3>2. asks' \in 0 .. MaxAsks
      BY <2>8 DEF AutoRetry, TypeOK
    <3> QED
      BY <2>8, <3>1, <3>2 DEF AutoRetry, TypeOK
  <2>9. CASE RetryStage
    BY <2>1, <2>9, WorkerGoes DEF RetryStage, TypeOK
  <2>10. CASE RetryEnqueue
    BY <2>10, WorkerRests, TaskComes DEF RetryEnqueue, TypeOK
  <2>11. CASE ClaimReport
    BY <2>1, <2>11, WorkerGoes, WorkerRests DEF ClaimReport, TypeOK
  <2>12. CASE Deliver
    BY <2>12, WorkerRests DEF Deliver, TypeOK
  <2>13. CASE Reclaim
    BY <2>13 DEF Reclaim, TypeOK
  <2>14. CASE Drain
    <3>1. row' \in Run /\ worker' \in WorkerType
      BY <2>1, <2>14, StepTyped, WorkerRests DEF Drain
    <3>2. crashes' \in 0 .. MaxCrashes
      BY <2>14 DEF Drain, TypeOK
    <3> QED
      BY <2>14, <3>1, <3>2 DEF Drain, TypeOK
  <2> QED
    BY <1>3, <2>2, <2>3, <2>4, <2>5, <2>6, <2>7, <2>8, <2>9, <2>10, <2>11, <2>12, <2>13, <2>14
    DEF Work
<1>4. CASE Crash
  <2>1. worker' \in WorkerType /\ req' \in [Requests -> RequestType]
    BY <1>4, NoRunTyped DEF Crash
  <2>2. crashes' \in 0 .. MaxCrashes
    BY <1>4 DEF Crash, TypeOK
  <2> QED
    BY <1>4, <2>1, <2>2
    DEF Crash, TypeOK, WorkerType, WorkerPhases, RequestType, RequestPhases, Kinds, Owing
<1>5. CASE Boot
  <2>1. tasks' \in [TaskIds -> {"none", "pending", "leased", "done"}]
    BY <1>5, TaskComes DEF Boot, TypeOK
  <2>2. delivered \in Nat /\ delivered + 1 \in Nat
    BY DEF TypeOK
  <2>3. armed' \in BOOLEAN /\ delivered' \in Nat
    BY <1>5, <2>2, Zenon DEF Boot, TypeOK
  <2> QED
    BY <1>5, <2>1, <2>3 DEF Boot, TypeOK
<1> QED
  BY <1>1, <1>2, <1>3, <1>4, <1>5 DEF Next
-----------------------------------------------------------------------------
(* Attempts are paid for. *)

\* How the number of revivals moves when one request does.
LEMMA RevivingMoves ==
    ASSUME TriesArePaid, NEW q \in Requests,
           \A p \in Requests \ {q} : req'[p].pc = req[p].pc
    PROVE  /\ IsFiniteSet(Reviving') /\ Cardinality(Reviving') \in Nat
           /\ req[q].pc \notin {"resave", "reread"} =>
                 Cardinality(Reviving') <= Cardinality(Reviving) + 1
           /\ req[q].pc \in {"resave", "reread"} =>
                 Cardinality(Reviving') <= Cardinality(Reviving)
           /\ req'[q].pc \notin {"resave", "reread"} =>
                 Cardinality(Reviving') <= Cardinality(Reviving)
           /\ /\ req[q].pc \in {"resave", "reread"}
              /\ req'[q].pc \notin {"resave", "reread"}
              => Cardinality(Reviving') + 1 = Cardinality(Reviving)
<1> DEFINE R == Reviving
           S == Reviving'
           in == q \in R
           on == q \in S
<1>1. in <=> req[q].pc \in {"resave", "reread"}
  BY DEF Reviving
<1>2. on <=> req'[q].pc \in {"resave", "reread"}
  BY DEF Reviving
<1>3. S \in {R, R \cup {q}, R \ {q}}
  BY DEF Reviving
<1>4. IsFiniteSet(R) /\ Cardinality(R) \in Nat
  BY CountIsNat DEF TriesArePaid
<1>5. IsFiniteSet(S) /\ Cardinality(S) \in Nat
  <2>1. IsFiniteSet(R \cup {q}) /\ IsFiniteSet(R \ {q})
    BY <1>4, FS_AddElement, FS_RemoveElement
  <2>2. IsFiniteSet(S)
    BY <1>3, <1>4, <2>1
  <2> QED
    BY <2>2, FS_CardinalityType
<1>6. Cardinality(R \cup {q}) = IF in THEN Cardinality(R) ELSE Cardinality(R) + 1
  BY <1>4, FS_AddElement
<1>7. Cardinality(R \ {q}) = IF in THEN Cardinality(R) - 1 ELSE Cardinality(R)
  BY <1>4, FS_RemoveElement
<1>8. in => Cardinality(S) <= Cardinality(R)
  BY <1>3, <1>4, <1>6, <1>7
<1>9. ~on => S = R \ {q}
  BY <1>3
<1>10. Cardinality(S) <= Cardinality(R) + 1
  <2>1. CASE S = R
    BY <1>4, <2>1
  <2>2. CASE S = R \cup {q}
    BY <1>4, <1>6, <2>2
  <2>3. CASE S = R \ {q}
    BY <1>4, <1>7, <2>3
  <2> QED
    BY <1>3, <2>1, <2>2, <2>3
<1>11. ~on => Cardinality(S) <= Cardinality(R)
  BY <1>4, <1>7, <1>9
<1>12. in /\ ~on => Cardinality(S) + 1 = Cardinality(R)
  BY <1>4, <1>7, <1>9
<1> HIDE DEF R, S, in, on
<1>13. /\ IsFiniteSet(S) /\ Cardinality(S) \in Nat
       /\ req[q].pc \notin {"resave", "reread"} => Cardinality(S) <= Cardinality(R) + 1
       /\ req[q].pc \in {"resave", "reread"} => Cardinality(S) <= Cardinality(R)
       /\ req'[q].pc \notin {"resave", "reread"} => Cardinality(S) <= Cardinality(R)
       /\ req[q].pc \in {"resave", "reread"} /\ req'[q].pc \notin {"resave", "reread"}
          => Cardinality(S) + 1 = Cardinality(R)
  BY <1>1, <1>2, <1>5, <1>8, <1>10, <1>11, <1>12
<1> QED
  BY <1>13 DEF R, S

LEMMA StillPaid ==
    ASSUME TypeOK, TriesArePaid, asks' \in Nat,
           IsFiniteSet(Reviving'), Cardinality(Reviving') \in Nat,
           Cardinality(Reviving') + asks <= Cardinality(Reviving) + asks',
           row' = row \/ Tries(row') + Cardinality(Reviving') <= asks' + 1,
           worker'.mem = worker.mem
              \/ Tries(worker'.mem) + Cardinality(Reviving') <= asks' + 1,
           \A q \in Requests : \/ req'[q].mem = req[q].mem
                               \/ Tries(req'[q].mem) + Cardinality(Reviving') <= asks' + 1
    PROVE  TriesArePaid'
<1> DEFINE c == Cardinality(Reviving)
           d == Cardinality(Reviving')
<1>1. c \in Nat /\ d \in Nat /\ asks \in Nat
  BY CountIsNat DEF TypeOK
<1>2. \A r \in Run : Tries(r) + c <= asks + 1 => Tries(r) + d <= asks' + 1
  <2> SUFFICES ASSUME NEW r \in Run, Tries(r) + c <= asks + 1 PROVE Tries(r) + d <= asks' + 1
    OBVIOUS
  <2>1. Tries(r) \in Nat
    BY DEF Run, Attempts, Tries
  <2> HIDE DEF c, d
  <2> QED
    BY <1>1, <2>1 DEF c, d
<1>3. row \in Run /\ worker.mem \in Run /\ \A q \in Requests : req[q].mem \in Run
  BY DEF TypeOK
<1>4. Tries(row') + d <= asks' + 1
  BY <1>2, <1>3 DEF TriesArePaid, Within
<1>5. Tries(worker'.mem) + d <= asks' + 1
  BY <1>2, <1>3 DEF TriesArePaid, Within
<1>6. \A q \in Requests : Tries(req'[q].mem) + d <= asks' + 1
  BY <1>2, <1>3 DEF TriesArePaid, Within
<1> QED
  BY <1>4, <1>5, <1>6 DEF TriesArePaid, Within

LEMMA TriesStep ==
    ASSUME TypeOK, TriesArePaid, [Next]_vars
    PROVE  TriesArePaid'
<1> USE DEF storeVars, threadVars, boundVars, historyVars
<1> DEFINE c == Cardinality(Reviving)
           d == Cardinality(Reviving')
<1>1. /\ c \in Nat /\ IsFiniteSet(Reviving) /\ asks \in Nat
      /\ \A r \in Run : Tries(r) \in Nat \ {0}
      /\ row \in Run /\ worker.mem \in Run /\ \A q \in Requests : req[q].mem \in Run
  <2>1. \A r \in Run : Tries(r) \in Nat \ {0}
    BY DEF Run, Attempts, Tries
  <2>2. row \in Run /\ worker.mem \in Run /\ (\A q \in Requests : req[q].mem \in Run) /\ asks \in Nat
    BY DEF TypeOK
  <2> QED
    BY <2>1, <2>2, CountIsNat DEF TriesArePaid
<1>2. /\ Tries(row) + c <= asks + 1 /\ Tries(worker.mem) + c <= asks + 1
      /\ \A q \in Requests : Tries(req[q].mem) + c <= asks + 1
  BY DEF TriesArePaid, Within
<1>3. Tries(NoRun) = 1
  BY DEF NoRun, Tries
<1> HIDE DEF c, d
<1>4. ASSUME req' = req, asks' = asks, ~AutoRetry, ~Crash, ~\E q \in Requests : Request(q)
      PROVE  TriesArePaid'
  <2>1. Reviving' = Reviving
    BY <1>4 DEF Reviving
  <2>2. d = c /\ IsFiniteSet(Reviving')
    BY <1>1, <2>1 DEF c, d
  <2>3. CASE row' = row /\ worker'.mem \in {worker.mem, row, NoRun}
    <3>1. Tries(worker'.mem) + d <= asks' + 1
      BY <1>1, <1>2, <1>3, <1>4, <2>2, <2>3
    <3> QED
      BY <1>1, <1>4, <2>2, <2>3, <3>1, StillPaid DEF c, d
  <2>4. CASE /\ row' \in Run /\ Tries(row') = Tries(worker.mem)
             /\ worker'.mem \in {worker.mem, row', NoRun}
    <3>1. Tries(row') + d <= asks' + 1 /\ Tries(worker'.mem) + d <= asks' + 1
      BY <1>1, <1>2, <1>3, <1>4, <2>2, <2>4
    <3> QED
      BY <1>1, <1>4, <2>2, <2>4, <3>1, StillPaid DEF c, d
  <2>5. CASE row' = row /\ Tries(worker'.mem) = Tries(worker.mem)
    <3>1. Tries(worker'.mem) + d <= asks' + 1
      BY <1>1, <1>2, <1>4, <2>2, <2>5
    <3> QED
      BY <1>1, <1>4, <2>2, <2>5, <3>1, StillPaid DEF c, d
  <2>6. CASE UNCHANGED vars \/ Boot \/ Reclaim \/ Execute
    BY <2>3, <2>6 DEF vars, Boot, Reclaim, Execute
  <2>7. CASE Lease
    <3>1. worker'.mem = worker.mem
      BY <2>7 DEF Lease, TypeOK
    <3> QED
      BY <2>3, <2>7, <3>1 DEF Lease
  <2>8. CASE Load \/ Look
    BY <1>1, <2>3, <2>8, WorkerGoes DEF Load, Look, WorkerPhases
  <2>9. CASE Step \/ Drain
    <3>1. row' \in Run /\ Tries(row') = Tries(worker.mem)
      BY <1>1, <2>9, StepTyped DEF Step, Drain
    <3>2. worker'.mem \in {row', NoRun}
      BY <2>9, <3>1, WorkerGoes, WorkerRests DEF Step, Drain, WorkerPhases
    <3> QED
      BY <2>4, <3>1, <3>2
  <2>10. CASE Raise
    <3>1. /\ [worker.mem EXCEPT !.st = "failed"] \in Run
          /\ Tries([worker.mem EXCEPT !.st = "failed"]) = Tries(worker.mem)
      BY <1>1, CopiesTyped, CopiesSay DEF Status, Terminal
    <3> QED
      BY <2>5, <2>10, <3>1, WorkerGoes DEF Raise, WorkerPhases
  <2>11. CASE Checkpoint \/ RetryStage
    BY <1>1, <2>4, <2>11, WorkerGoes DEF Checkpoint, RetryStage, WorkerPhases
  <2>12. CASE Complete
    BY <1>1, <2>3, <2>12, WorkerGoes DEF Complete, WorkerPhases
  <2>13. CASE RetryEnqueue \/ Deliver
    BY <1>1, <2>3, <2>13, WorkerRests DEF RetryEnqueue, Deliver
  <2>14. CASE ClaimReport
    BY <1>1, <2>3, <2>14, WorkerGoes, WorkerRests DEF ClaimReport, WorkerPhases
  <2> QED
    BY <1>4, <2>6, <2>7, <2>8, <2>9, <2>10, <2>11, <2>12, <2>13, <2>14 DEF Next, Work
<1>5. CASE AutoRetry
  <2>1. Reviving' = Reviving
    BY <1>5 DEF AutoRetry, Reviving
  <2>2. d = c /\ IsFiniteSet(Reviving') /\ asks' = asks + 1 /\ row' = row /\ req' = req
    BY <1>1, <1>5, <2>1 DEF c, d, AutoRetry
  <2>3. PICK m \in Run : Go("retryStage", m) /\ Tries(m) = Tries(row) + 1
    BY <1>5, AutoRetries
  <2>4. worker'.mem = m
    BY <2>3, WorkerGoes DEF WorkerPhases
  <2>5. Tries(worker'.mem) + d <= asks' + 1
    BY <1>1, <1>2, <2>2, <2>3, <2>4
  <2> QED
    BY <1>1, <2>2, <2>5, StillPaid DEF c, d
<1>6. CASE Crash
  <2>1. Reviving' = {}
    BY <1>6 DEF Crash, Reviving, NoRequest
  <2>2. IsFiniteSet(Reviving') /\ d = 0
    BY <2>1, FS_EmptySet DEF d
  <2>3. /\ row' = row /\ asks' = asks /\ worker'.mem = NoRun
        /\ \A q \in Requests : req'[q].mem = NoRun
    BY <1>6 DEF Crash, Idle, NoRequest
  <2>4. Tries(NoRun) + d <= asks' + 1
    BY <1>1, <1>3, <2>2, <2>3
  <2>5. d \in Nat /\ asks' \in Nat /\ d + asks <= c + asks'
    BY <1>1, <2>2, <2>3
  <2> QED
    BY <2>2, <2>3, <2>4, <2>5, StillPaid DEF c, d
<1>7. ASSUME NEW q \in Requests, Request(q) PROVE TriesArePaid'
  <2>1. worker' = worker
    BY <1>7 DEF Request, BeginSubmit, BeginAnswer, BeginRevive, BeginCancel, Begin,
                 Resave, Reread, Stage, Enqueue, Arm, SaveCancel
  <2> DEFINE in == req[q].pc \in {"resave", "reread"}
             on == req'[q].pc \in {"resave", "reread"}
  <2>2. ASSUME \A p \in Requests \ {q} : req'[p] = req[p]
        PROVE  /\ IsFiniteSet(Reviving') /\ d \in Nat
               /\ ~in => d <= c + 1
               /\ in => d <= c
               /\ ~on => d <= c
               /\ in /\ ~on => d + 1 = c
    BY <2>2, RevivingMoves DEF c, d
  <2> HIDE DEF in, on
  <2>3. CASE Begins(q)
    <3>1. PICK pc \in {"stage", "resave", "save"}, k \in Kinds, m \in Run :
             /\ Begin(q, pc, k, m)
             /\ Tries(m) <= Tries(row) + 1
             /\ pc = "resave" => Tries(m) = Tries(row)
      BY <2>3, Beginnings
    <3>2. pc \in RequestPhases /\ req' = [req EXCEPT ![q] = [pc |-> pc, kind |-> k, mem |-> m]]
      BY <3>1 DEF Begin, RequestPhases
    <3>3. req'[q].pc = pc /\ req'[q].mem = m /\ \A p \in Requests \ {q} : req'[p] = req[p]
      BY <3>2, RequestGoes
    <3>4. asks' = asks + 1 /\ row' = row
      BY <3>1 DEF Begin, storeVars
    <3>5. ~in /\ (on => pc = "resave")
      BY <3>1, <3>3 DEF in, on, Begin, At
    <3>6. d <= c + 1 /\ (pc # "resave" => d <= c) /\ d \in Nat /\ IsFiniteSet(Reviving')
      BY <2>2, <3>3, <3>5
    <3>7. Tries(m) + d <= asks' + 1
      BY <1>1, <1>2, <3>1, <3>4, <3>6
    <3>8. d + asks <= c + asks' /\ asks' \in Nat
      BY <1>1, <3>4, <3>6
    <3> QED
      BY <2>1, <3>3, <3>4, <3>6, <3>7, <3>8, StillPaid DEF c, d
  <2>4. CASE Resave(q) \/ Stage(q) \/ Enqueue(q)
    <3>1. req[q].mem \in Run /\ asks' = asks
      BY <1>1, <2>4 DEF Resave, Stage, Enqueue
    <3>2. PICK pc \in RequestPhases : Then(q, pc, req[q].mem) /\ (~in => pc \in {"enqueue", "arm"})
      BY <2>4 DEF Resave, Stage, Enqueue, At, RequestPhases, in
    <3>3. /\ req'[q].pc = pc /\ \A p \in Requests \ {q} : req'[p] = req[p]
          /\ \A p \in Requests : req'[p].mem = req[p].mem
      BY <3>1, <3>2, RequestGoes DEF Kinds
    <3>4. d <= c /\ d \in Nat /\ IsFiniteSet(Reviving')
      BY <2>2, <3>2, <3>3 DEF on
    <3>5. row' \in {row, req[q].mem}
      BY <2>4 DEF Resave, Stage, Enqueue
    <3>6. Tries(row') + d <= asks' + 1
      BY <1>1, <1>2, <3>1, <3>4, <3>5
    <3>7. d + asks <= c + asks' /\ asks' \in Nat
      BY <1>1, <3>1, <3>4
    <3> QED
      BY <2>1, <3>3, <3>4, <3>6, <3>7, StillPaid DEF c, d
  <2>5. CASE Arm(q) \/ SaveCancel(q) \/ (Reread(q) /\ Return(q))
    <3>1. asks' = asks /\ row' \in {row, req[q].mem}
      BY <2>5 DEF Arm, SaveCancel, Reread
    <3>2. /\ req'[q].pc = "idle" /\ req'[q].mem = NoRun
          /\ \A p \in Requests \ {q} : req'[p] = req[p]
      BY <2>5, RequestReturns DEF Arm, SaveCancel
    <3>3. d <= c /\ d \in Nat /\ IsFiniteSet(Reviving')
      BY <2>2, <3>2 DEF on
    <3>4. Tries(row') + d <= asks' + 1 /\ Tries(NoRun) + d <= asks' + 1
      BY <1>1, <1>2, <1>3, <3>1, <3>3
    <3>5. d + asks <= c + asks' /\ asks' \in Nat
      BY <1>1, <3>1, <3>3
    <3> QED
      BY <2>1, <3>2, <3>3, <3>4, <3>5, StillPaid DEF c, d
  <2>6. ASSUME Reread(q), NEW m \in Run, Then(q, "stage", m), Tries(m) <= Tries(row) + 1
        PROVE  TriesArePaid'
    <3>1. asks' = asks /\ row' = row /\ in
      BY <2>6 DEF Reread, At, in
    <3>2. /\ req'[q].pc = "stage" /\ req'[q].mem = m
          /\ \A p \in Requests \ {q} : req'[p] = req[p]
      BY <2>6, RequestGoes DEF RequestPhases, Kinds
    <3>3. d + 1 = c /\ d \in Nat /\ IsFiniteSet(Reviving')
      BY <2>2, <3>1, <3>2 DEF on
    <3>4. Tries(m) + d <= asks' + 1 /\ d + asks <= c + asks' /\ asks' \in Nat
      BY <1>1, <1>2, <2>6, <3>1, <3>3
    <3> QED
      BY <2>1, <3>1, <3>2, <3>3, <3>4, StillPaid DEF c, d
  <2> QED
    BY <1>7, <2>3, <2>4, <2>5, <2>6, Rereads DEF Request, Begins
<1>8. \/ UNCHANGED vars \/ AutoRetry \/ Crash \/ \E q \in Requests : Request(q)
      \/ req' = req /\ asks' = asks
  BY DEF Next, Work, vars, Lease, Load, Execute, Step, Raise, Checkpoint, Complete, Look,
         RetryStage, RetryEnqueue, ClaimReport, Deliver, Reclaim, Drain, Boot
<1>9. UNCHANGED vars => req' = req /\ asks' = asks
  BY DEF vars
<1> QED
  BY <1>4, <1>5, <1>6, <1>7, <1>8, <1>9
-----------------------------------------------------------------------------
(* What each step leaves of the worker, the queue and the stored run. *)

\* A step of a request, of the boot or of the executor, or none, leaves the worker; it
\* leaves the queue too, or adds a task to it.
LEMMA WorkerLeft ==
    ASSUME TypeOK, UNCHANGED vars \/ Boot \/ Execute \/ \E q \in Requests : Request(q)
    PROVE  worker' = worker /\ (tasks' = tasks \/ \E t \in TaskIds : NewTask(t))
BY DEF vars, storeVars, threadVars, Boot, Execute, Request, BeginSubmit, BeginAnswer,
       BeginRevive, BeginCancel, Begin, Resave, Reread, Stage, Enqueue, Arm, SaveCancel

\* A step within a drive keeps the task; any other step of the worker leaves the drive.
LEMMA DriveKeepsTask ==
    ASSUME TypeOK, Load \/ Step \/ Raise \/ Checkpoint
    PROVE  /\ worker.pc \in {"load", "drive"} /\ worker'.task = worker.task /\ tasks' = tasks
           /\ Checkpoint <=> worker'.pc = "complete"
<1>1. row \in Run /\ worker.mem \in Run
  BY DEF TypeOK
<1>2. [worker.mem EXCEPT !.st = "failed"] \in Run
  BY <1>1, CopiesTyped DEF Status, Terminal
<1>3. Step => row' \in Run
  BY <1>1, StepTyped DEF Step
<1>4. PICK pc \in {"drive", "complete"}, m \in Run :
         Go(pc, m) /\ (Checkpoint => pc = "complete") /\ (~Checkpoint => pc = "drive")
  <2>1. CASE Checkpoint
    BY <1>1, <2>1 DEF Checkpoint
  <2>2. CASE ~Checkpoint
    BY <1>1, <1>2, <1>3, <2>2 DEF Load, Step, Raise
  <2> QED
    BY <2>1, <2>2
<1>5. worker'.task = worker.task /\ worker'.pc = pc
  BY <1>4, WorkerGoes DEF WorkerPhases
<1>6. worker.pc \in {"load", "drive"} /\ tasks' = tasks
  BY DEF Load, Step, Raise, Checkpoint, Driving, On, storeVars
<1>7. Checkpoint <=> worker'.pc = "complete"
  BY <1>4, <1>5
<1> QED
  BY <1>5, <1>6, <1>7

LEMMA OtherwiseNotDriving ==
    ASSUME TypeOK, TriesArePaid,
           \/ Complete \/ Look \/ AutoRetry \/ RetryStage \/ RetryEnqueue \/ ClaimReport
           \/ Deliver \/ Drain \/ Crash
    PROVE  worker'.pc \in WorkerPhases \ {"load", "drive", "complete"}
<1>1. row \in Run /\ worker.mem \in Run
  BY DEF TypeOK
<1>2. CASE AutoRetry
  BY <1>2, AutoRetries, WorkerGoes DEF WorkerPhases
<1>3. CASE Complete \/ Look \/ RetryStage
  BY <1>1, <1>3, WorkerGoes DEF Complete, Look, RetryStage, WorkerPhases
<1>4. CASE ClaimReport
  BY <1>1, <1>4, WorkerGoes, WorkerRests DEF ClaimReport, WorkerPhases
<1>5. CASE RetryEnqueue \/ Deliver \/ Drain
  BY <1>5, WorkerRests DEF RetryEnqueue, Deliver, Drain, WorkerPhases
<1>6. CASE Crash
  BY <1>6 DEF Crash, Idle, WorkerPhases
<1> QED
  BY <1>2, <1>3, <1>4, <1>5, <1>6

\* A task enqueued, leased or reclaimed leaves every standing task standing.
LEMMA StillOpen ==
    ASSUME TypeOK,
           tasks' = tasks \/ (\E t \in TaskIds : NewTask(t)) \/ Lease \/ Reclaim
    PROVE  Open \subseteq Open'
BY TaskComes DEF TypeOK, Lease, Reclaim, Open

LEMMA LeaseStep ==
    ASSUME TypeOK, TriesArePaid, HoldsLease, [Next]_vars
    PROVE  HoldsLease'
<1>1. CASE UNCHANGED vars \/ Boot \/ Execute \/ \E q \in Requests : Request(q)
  BY <1>1, WorkerLeft, TaskComes DEF HoldsLease
<1>2. CASE Load \/ Step \/ Raise \/ Checkpoint
  BY <1>2, DriveKeepsTask DEF HoldsLease
<1>3. CASE Reclaim
  BY <1>3 DEF Reclaim, On, threadVars, HoldsLease
<1>4. CASE Lease
  <2>1. PICK t \in TaskIds : /\ tasks' = [tasks EXCEPT ![t] = "leased"]
                             /\ worker' = [worker EXCEPT !.pc = "load", !.task = t]
    BY <1>4 DEF Lease
  <2>2. worker'.task = t /\ tasks'[t] = "leased"
    BY <2>1 DEF TypeOK
  <2> QED
    BY <2>2 DEF HoldsLease
<1>5. CASE \/ Complete \/ Look \/ AutoRetry \/ RetryStage \/ RetryEnqueue \/ ClaimReport
           \/ Deliver \/ Drain \/ Crash
  BY <1>5, OtherwiseNotDriving DEF HoldsLease
<1> QED
  BY <1>1, <1>2, <1>3, <1>4, <1>5 DEF Next, Work

LEMMA AckStep ==
    ASSUME TypeOK, ReadyToSettle, AckAfterCheckpoint, [Next]_vars
    PROVE  AckAfterCheckpoint'
<1> SUFFICES ASSUME NEW t \in TaskIds, tasks'[t] = "done" PROVE t \in outbox'
  BY DEF AckAfterCheckpoint
<1>1. outbox \subseteq outbox'
  BY DEF Next, Work, vars, storeVars, Lease, Load, Execute, Step, Raise, Checkpoint, Complete,
         Look, AutoRetry, RetryStage, RetryEnqueue, ClaimReport, Deliver, Reclaim, Drain, Boot,
         Crash, Request, BeginSubmit, BeginAnswer, BeginRevive, BeginCancel, Begin, Resave,
         Reread, Stage, Enqueue, Arm, SaveCancel
<1>2. CASE Complete
  <2>1. worker.task \in outbox
    BY <1>2 DEF Complete, On, ReadyToSettle
  <2>2. t = worker.task \/ tasks[t] = "done"
    BY <1>2 DEF Complete, TypeOK
  <2> QED
    BY <1>1, <2>1, <2>2 DEF AckAfterCheckpoint
<1>3. CASE tasks' = tasks \/ (\E s \in TaskIds : NewTask(s)) \/ Lease \/ Reclaim \/ Drain
  <2>1. tasks[t] = "done"
    BY <1>3, TaskComes DEF Lease, Reclaim, Drain, TypeOK
  <2> QED
    BY <1>1, <2>1 DEF AckAfterCheckpoint
<1> QED
  <2>1. CASE UNCHANGED vars \/ Boot \/ Execute \/ \E q \in Requests : Request(q)
    BY <1>3, <2>1, WorkerLeft
  <2>2. CASE \/ Load \/ Step \/ Raise \/ Checkpoint \/ Look \/ AutoRetry \/ RetryStage
             \/ RetryEnqueue \/ ClaimReport \/ Deliver \/ Crash
    BY <1>3, <2>2 DEF storeVars, Load, Step, Raise, Checkpoint, Look, AutoRetry, RetryStage,
                      RetryEnqueue, ClaimReport, Deliver, Crash
  <2> QED
    BY <1>2, <1>3, <2>1, <2>2 DEF Next, Work
-----------------------------------------------------------------------------
(* The stored run and its tasks. *)

\* What a request does to the stored run: it is left, saved at rest, or staged with a
\* task to follow.
LEMMA RequestsOwe ==
    ASSUME TypeOK, TriesArePaid, SavesAtRest, NEW q \in Requests, Request(q)
    PROVE  /\ worker' = worker /\ torn' = torn /\ outbox' = outbox
           /\ row' = row \/ row'.st # "active" \/ Owing'
           /\ Owing => Owing' \/ \E t \in TaskIds : NewTask(t)
<1>1. worker' = worker /\ torn' = torn /\ outbox' = outbox
  BY DEF storeVars, historyVars, Request, BeginSubmit, BeginAnswer, BeginRevive, BeginCancel,
         Begin, Resave, Reread, Stage, Enqueue, Arm, SaveCancel
<1>2. req[q].mem \in Run
  BY DEF TypeOK
<1>3. row' = row \/ row'.st # "active" \/ Owing'
  <2>1. CASE Resave(q) \/ SaveCancel(q)
    BY <2>1 DEF Resave, SaveCancel, SavesAtRest, At
  <2>2. CASE Stage(q)
    <3>1. req'[q].pc = "enqueue"
      BY <1>2, <2>2, RequestGoes DEF Stage, RequestPhases, Kinds
    <3> QED
      BY <3>1 DEF Owing
  <2>3. CASE ~(Resave(q) \/ SaveCancel(q) \/ Stage(q))
    BY <2>3 DEF storeVars, Request, BeginSubmit, BeginAnswer, BeginRevive, BeginCancel, Begin,
                Reread, Enqueue, Arm
  <2> QED
    BY <2>1, <2>2, <2>3
<1>4. ASSUME Owing PROVE Owing' \/ \E t \in TaskIds : NewTask(t)
  <2>1. CASE Enqueue(q)
    BY <2>1 DEF Enqueue
  <2>2. CASE ~Enqueue(q)
    <3>1. /\ req[q].pc # "enqueue"
          /\ \A p \in Requests \ {q} : req'[p] = req[p]
      BY <2>2 DEF Request, BeginSubmit, BeginAnswer, BeginRevive, BeginCancel, Begin, Resave,
                  Reread, Stage, Arm, SaveCancel, At, Then, Return, TypeOK
    <3> QED
      BY <1>1, <1>4, <3>1 DEF Owing
  <2> QED
    BY <2>1, <2>2
<1> QED
  BY <1>1, <1>3, <1>4

LEMMA SavesStep ==
    ASSUME TypeOK, TriesArePaid, SavesAtRest, [Next]_vars
    PROVE  SavesAtRest'
<1>1. ASSUME NEW q \in Requests, Request(q) PROVE SavesAtRest'
  <2>1. CASE Begins(q)
    <3>1. PICK pc \in {"stage", "resave", "save"}, k \in Kinds, m \in Run :
             /\ Begin(q, pc, k, m)
             /\ pc = "resave" => m.st # "active"
             /\ pc = "save" => m.st # "active"
      BY <2>1, Beginnings
    <3>2. pc \in RequestPhases /\ req' = [req EXCEPT ![q] = [pc |-> pc, kind |-> k, mem |-> m]]
      BY <3>1 DEF Begin, RequestPhases
    <3>3. req'[q].pc = pc /\ req'[q].mem = m /\ \A p \in Requests \ {q} : req'[p] = req[p]
      BY <3>2, RequestGoes
    <3> QED
      BY <3>1, <3>3 DEF SavesAtRest
  <2>2. CASE ~Begins(q)
    <3>1. /\ req'[q].pc \notin {"save", "resave"}
          /\ \A p \in Requests \ {q} : req'[p] = req[p]
      <4>1. req[q].mem \in Run
        BY DEF TypeOK
      <4>2. CASE Resave(q) \/ Stage(q) \/ Enqueue(q)
        BY <4>1, <4>2, RequestGoes DEF Resave, Stage, Enqueue, RequestPhases, Kinds
      <4>3. CASE Reread(q)
        BY <4>3, Rereads, RequestGoes, RequestReturns DEF RequestPhases, Kinds
      <4>4. CASE Arm(q) \/ SaveCancel(q)
        BY <4>4, RequestReturns DEF Arm, SaveCancel
      <4> QED
        BY <1>1, <2>2, <4>2, <4>3, <4>4 DEF Request, Begins
    <3> QED
      BY <3>1 DEF SavesAtRest
  <2> QED
    BY <2>1, <2>2
<1>2. CASE Crash
  BY <1>2 DEF Crash, SavesAtRest, NoRequest
<1>3. CASE req' = req
  BY <1>3 DEF SavesAtRest
<1> QED
  BY <1>1, <1>2, <1>3
  DEF Next, Work, vars, threadVars, Lease, Load, Execute, Step, Raise, Checkpoint, Complete,
      Look, AutoRetry, RetryStage, RetryEnqueue, ClaimReport, Deliver, Reclaim, Drain, Boot

\* What is said of a run made active: OwedIsQueued, and ReadyToSettle's second part.
LEMMA OwedStep ==
    ASSUME TypeOK, TriesArePaid, HoldsLease, ReadyToSettle, SavesAtRest, OwedIsQueued,
           [Next]_vars
    PROVE  OwedIsQueued'
<1> SUFFICES ASSUME row'.st = "active" PROVE Open' # {} \/ Owing' \/ torn'
  BY DEF OwedIsQueued
<1>1. row \in Run /\ worker.mem \in Run
  BY DEF TypeOK
<1>2. ASSUME NEW t \in TaskIds, NewTask(t) PROVE Open' # {}
  BY <1>2, TaskComes DEF Open
<1>3. ASSUME NEW q \in Requests, Request(q) PROVE Open' # {} \/ Owing' \/ torn'
  <2>1. tasks' = tasks \/ \E t \in TaskIds : NewTask(t)
    BY <1>3, WorkerLeft
  <2> QED
    BY <1>2, <1>3, <2>1, RequestsOwe DEF OwedIsQueued, Open
<1>4. CASE Step \/ Drain
  <2>1. worker.task \in TaskIds /\ tasks[worker.task] = "leased"
    BY <1>4 DEF Step, Drain, Driving, On, HoldsLease
  <2>2. tasks'[worker.task] \in {"leased", "pending"}
    BY <1>4, <2>1 DEF Step, Drain, TypeOK
  <2> QED
    BY <2>1, <2>2 DEF Open
<1>5. CASE Checkpoint
  BY <1>5 DEF Checkpoint
<1>6. CASE RetryStage
  <2>1. worker'.pc = "retryEnqueue"
    BY <1>1, <1>6, WorkerGoes DEF RetryStage, WorkerPhases
  <2> QED
    BY <2>1 DEF Owing
<1>7. CASE RetryEnqueue
  BY <1>2, <1>7 DEF RetryEnqueue
<1>8. CASE Crash
  BY <1>8 DEF Crash, storeVars, OwedIsQueued, Open
<1>9. CASE Complete
  <2>1. Owing \/ torn \/ \E t \in Open : t # worker.task
    BY <1>9 DEF Complete, On, ReadyToSettle
  <2>2. Owing => Owing'
    BY <1>9 DEF Complete, On, Owing
  <2>3. (\E t \in Open : t # worker.task) => Open' # {}
    BY <1>9 DEF Complete, Open, TypeOK
  <2> QED
    BY <1>9, <2>1, <2>2, <2>3 DEF Complete, historyVars
<1>10. CASE \/ UNCHANGED vars \/ Boot \/ Execute \/ Lease \/ Reclaim \/ Load \/ Raise \/ Look
            \/ AutoRetry \/ ClaimReport \/ Deliver
  <2>1. worker.pc # "retryEnqueue" \/ worker' = worker
    BY <1>10 DEF vars, storeVars, threadVars, historyVars, Boot, Execute, Lease, Reclaim, Load,
                 Raise, Look, AutoRetry, ClaimReport, Deliver, Driving, On
  <2>2. row' = row /\ torn' = torn /\ req' = req
    BY <1>10 DEF vars, storeVars, threadVars, historyVars, Boot, Execute, Lease, Reclaim, Load,
                 Raise, Look, AutoRetry, ClaimReport, Deliver
  <2>3. Owing => Owing'
    BY <2>1, <2>2 DEF Owing
  <2>4. tasks' = tasks \/ (\E t \in TaskIds : NewTask(t)) \/ Lease \/ Reclaim
    BY <1>10 DEF vars, storeVars, Boot, Execute, Load, Raise, Look, AutoRetry, ClaimReport,
                 Deliver
  <2> QED
    BY <2>2, <2>3, <2>4, StillOpen DEF OwedIsQueued
<1> QED
  BY <1>3, <1>4, <1>5, <1>6, <1>7, <1>8, <1>9, <1>10 DEF Next, Work

LEMMA ReadyStep ==
    ASSUME TypeOK, TriesArePaid, HoldsLease, ReadyToSettle, SavesAtRest, [Next]_vars
    PROVE  ReadyToSettle'
<1> SUFFICES ASSUME worker'.pc = "complete"
             PROVE  /\ worker'.task \in outbox'
                    /\ row'.st = "active" => \/ Owing' \/ torn'
                                             \/ \E t \in Open' : t # worker'.task
  BY DEF ReadyToSettle
<1>1. CASE Checkpoint
  BY <1>1, DriveKeepsTask DEF Checkpoint
<1>2. CASE UNCHANGED vars \/ Boot \/ Execute \/ \E q \in Requests : Request(q)
  <2>1. worker' = worker /\ (tasks' = tasks \/ \E t \in TaskIds : NewTask(t))
    BY <1>2, WorkerLeft
  <2>2. /\ worker.task \in outbox
        /\ row.st = "active" => Owing \/ torn \/ \E t \in Open : t # worker.task
    BY <2>1 DEF ReadyToSettle
  <2>3. tasks[worker.task] = "leased"
    BY <2>1 DEF HoldsLease
  <2>4. Open \subseteq Open'
    BY <2>1, StillOpen
  <2>5. (\E t \in TaskIds : NewTask(t)) => \E t \in Open' : t # worker.task
    BY <2>3, TaskComes DEF Open
  <2>6. CASE UNCHANGED vars \/ Boot \/ Execute
    <3>1. row' = row /\ torn' = torn /\ req' = req /\ outbox' = outbox
      BY <2>6 DEF vars, storeVars, threadVars, historyVars, Boot, Execute
    <3> QED
      BY <2>1, <2>2, <2>4, <3>1 DEF Owing
  <2>7. CASE \E q \in Requests : Request(q)
    BY <2>1, <2>2, <2>4, <2>5, <2>7, RequestsOwe
  <2> QED
    BY <1>2, <2>6, <2>7
<1>3. CASE Reclaim \/ Lease
  BY <1>3 DEF Reclaim, Lease, On, threadVars, TypeOK
<1>4. CASE Load \/ Step \/ Raise
  BY <1>1, <1>4, DriveKeepsTask
<1>5. CASE \/ Complete \/ Look \/ AutoRetry \/ RetryStage \/ RetryEnqueue \/ ClaimReport
           \/ Deliver \/ Drain \/ Crash
  BY <1>5, OtherwiseNotDriving
<1> QED
  BY <1>1, <1>2, <1>3, <1>4, <1>5 DEF Next, Work
-----------------------------------------------------------------------------
(* Reports. *)

LEMMA Ones == One(TRUE) = 1 /\ One(FALSE) = 0
BY DEF One

LEMMA ReportsStep ==
    ASSUME TypeOK, TriesArePaid, ReportsPromised, [Next]_vars
    PROVE  ReportsPromised'
<1> DEFINE a == One(armed)
           b == One(worker.pc = "deliver")
<1>1. /\ delivered \in Nat /\ armings \in Nat /\ a \in {0, 1} /\ b \in {0, 1}
      /\ delivered + a + b <= armings
  BY DEF TypeOK, One, ReportsPromised
<1>2. row \in Run /\ worker.mem \in Run
  BY DEF TypeOK
<1> HIDE DEF a, b
<1>3. CASE worker' = worker /\ UNCHANGED <<armed, armings, delivered>>
  BY <1>3 DEF ReportsPromised
<1>4. CASE /\ worker.pc # "deliver" /\ worker'.pc # "deliver"
           /\ UNCHANGED <<armed, armings, delivered>>
  BY <1>4 DEF ReportsPromised
<1>5. CASE UNCHANGED vars \/ Execute \/ Reclaim
  BY <1>3, <1>5 DEF vars, storeVars, threadVars, historyVars, Execute, Reclaim
<1>6. ASSUME NEW q \in Requests, Request(q) PROVE ReportsPromised'
  <2>1. worker' = worker /\ delivered' = delivered
    BY <1>6, WorkerLeft
    DEF historyVars, Request, BeginSubmit, BeginAnswer, BeginRevive, BeginCancel, Begin, Resave,
        Reread, Stage, Enqueue, Arm, SaveCancel
  <2>2. CASE Arm(q)
    <3>1. CASE armed' = TRUE /\ armings' = armings + 1
      <4>1. One(armed') = 1
        BY <3>1, Ones, Zenon
      <4>2. delivered + 1 + b <= armings + 1
        BY <1>1
      <4>3. One(worker.pc = "deliver")' = b
        BY <2>1 DEF b
      <4> QED
        BY <2>1, <3>1, <4>1, <4>2, <4>3 DEF ReportsPromised
    <3>2. CASE UNCHANGED <<armed, armings>>
      BY <1>3, <2>1, <3>2
    <3> QED
      BY <2>2, <3>1, <3>2, Zenon DEF Arm, File, Rearm
  <2>3. CASE ~Arm(q)
    <3>1. UNCHANGED <<armed, armings>>
      BY <1>6, <2>3 DEF storeVars, historyVars, Request, BeginSubmit, BeginAnswer, BeginRevive,
             BeginCancel, Begin, Resave, Reread, Stage, Enqueue, SaveCancel
    <3> QED
      BY <1>3, <2>1, <3>1
  <2> QED
    BY <2>2, <2>3
<1>7. CASE \/ Lease \/ Load \/ Step \/ Raise \/ Checkpoint \/ Complete \/ Look \/ AutoRetry
           \/ RetryStage \/ RetryEnqueue \/ Drain
  <2>1. worker.pc # "deliver" /\ UNCHANGED <<armed, armings, delivered>>
    BY <1>7 DEF storeVars, historyVars, Lease, Load, Step, Raise, Checkpoint, Complete, Look,
                AutoRetry, RetryStage, RetryEnqueue, Drain, Driving, On
  <2>2. worker'.pc # "deliver"
    <3>1. CASE Lease
      BY <3>1 DEF Lease, TypeOK
    <3>2. CASE Load \/ Step \/ Raise \/ Checkpoint
      <4>1. [worker.mem EXCEPT !.st = "failed"] \in Run
        BY <1>2, CopiesTyped DEF Status, Terminal
      <4> QED
        BY <1>2, <3>2, <4>1, StepTyped, WorkerGoes
        DEF Load, Step, Raise, Checkpoint, WorkerPhases
    <3>3. CASE Complete \/ Look \/ RetryStage
      BY <1>2, <3>3, WorkerGoes DEF Complete, Look, RetryStage, WorkerPhases
    <3>4. CASE AutoRetry
      BY <3>4, AutoRetries, WorkerGoes DEF WorkerPhases
    <3>5. CASE RetryEnqueue \/ Drain
      BY <3>5, WorkerRests DEF RetryEnqueue, Drain
    <3> QED
      BY <1>7, <3>1, <3>2, <3>3, <3>4, <3>5
  <2> QED
    BY <1>4, <2>1, <2>2
<1>8. CASE ClaimReport
  <2>1. b = 0 /\ UNCHANGED <<armings, delivered>>
    BY <1>8 DEF ClaimReport, On, historyVars, b, One
  <2>2. CASE armed /\ armed' = FALSE /\ Go("deliver", worker.mem)
    <3>1. a = 1
      BY <2>2, Ones, Zenon DEF a
    <3>2. One(armed') = 0
      BY <2>2, Ones, Zenon
    <3>3. One(worker.pc = "deliver")' \in {0, 1}
      BY DEF One
    <3>4. delivered + 0 + One(worker.pc = "deliver")' <= armings
      BY <1>1, <2>1, <3>1, <3>3
    <3> QED
      BY <2>1, <3>2, <3>4 DEF ReportsPromised
  <2>3. CASE UNCHANGED armed /\ Rest
    <3>1. worker'.pc # "deliver" /\ worker.pc # "deliver"
      BY <1>8, <2>3, WorkerRests DEF ClaimReport, On
    <3> QED
      BY <1>4, <2>1, <2>3, <3>1
  <2> QED
    BY <1>8, <2>2, <2>3, Zenon DEF ClaimReport
<1>9. CASE Deliver
  <2>1. b = 1 /\ worker'.pc = "idle"
    BY <1>9, WorkerRests DEF Deliver, On, b, One
  <2>2. delivered' = delivered + 1 /\ armings' = armings /\ armed' = armed
    BY <1>9 DEF Deliver, storeVars
  <2>3. One(armed') = a /\ One(worker.pc = "deliver")' = 0
    BY <2>1, <2>2 DEF One, a
  <2>4. delivered + 1 + a + 0 <= armings
    BY <1>1, <2>1
  <2> QED
    BY <2>2, <2>3, <2>4 DEF ReportsPromised
<1>10. CASE Crash
  <2>1. /\ UNCHANGED <<armed, armings, delivered>>
        /\ worker'.pc = "idle"
    BY <1>10 DEF Crash, storeVars, Idle
  <2>2. One(armed') = a /\ One(worker.pc = "deliver")' = 0
    BY <2>1 DEF One, a
  <2>3. delivered + a + 0 <= armings
    BY <1>1
  <2> QED
    BY <2>1, <2>2, <2>3 DEF ReportsPromised
<1>11. CASE Boot
  <2>1. worker' = worker /\ armings' = armings
    BY <1>11 DEF Boot
  <2>2. CASE armed /\ armed' = FALSE /\ delivered' = delivered + 1
    <3>1. a = 1
      BY <2>2, Ones, Zenon DEF a
    <3>2. One(armed') = 0
      BY <2>2, Ones, Zenon
    <3>3. One(worker.pc = "deliver")' = b
      BY <2>1 DEF b
    <3>4. delivered + 1 + 0 + b <= armings
      BY <1>1, <3>1
    <3>5. delivered' = delivered + 1
      BY <2>2
    <3> QED
      BY <2>1, <3>2, <3>3, <3>4, <3>5 DEF ReportsPromised
  <2>3. CASE UNCHANGED <<armed, delivered>>
    BY <1>3, <2>1, <2>3
  <2> QED
    BY <1>11, <2>2, <2>3, Zenon DEF Boot
<1> QED
  BY <1>5, <1>6, <1>7, <1>8, <1>9, <1>10, <1>11 DEF Next, Work
-----------------------------------------------------------------------------
(* The invariant, and what it says. *)

LEMMA InvariantHolds == Spec => []IInv
<1>1. Init => IInv
  <2> SUFFICES ASSUME Init PROVE IInv
    OBVIOUS
  <2>1. TypeOK
    <3>1. row \in Run /\ worker \in WorkerType /\ req \in [Requests -> RequestType]
      BY NoRunTyped DEF Init
    <3>2. tasks \in [TaskIds -> {"none", "pending", "leased", "done"}]
      BY DEF Init
    <3>3. /\ asks \in 0 .. MaxAsks /\ crashes \in 0 .. MaxCrashes
          /\ {decided, armings, delivered} \subseteq Nat
      BY DEF Init
    <3>4. {filed, armed, up, torn} \subseteq BOOLEAN /\ outbox \subseteq TaskIds
          /\ cache \subseteq Attempts \X Attempts
      BY DEF Init
    <3> QED
      BY <3>1, <3>2, <3>3, <3>4
      DEF TypeOK, WorkerType, WorkerPhases, RequestType, RequestPhases, Kinds
  <2>2. Reviving = {}
    BY DEF Init, Reviving, NoRequest
  <2>3. TriesArePaid
    BY <2>2, FS_EmptySet DEF Init, TriesArePaid, Within, Tries, NoRun, Idle, NoRequest
  <2>4. HoldsLease /\ ReadyToSettle /\ SavesAtRest /\ OwedIsQueued /\ AckAfterCheckpoint
    BY DEF Init, HoldsLease, ReadyToSettle, SavesAtRest, OwedIsQueued, AckAfterCheckpoint, Idle,
           NoRequest, NoRun
  <2>5. ReportsPromised
    BY DEF Init, ReportsPromised, One, Idle
  <2> QED
    BY <2>1, <2>3, <2>4, <2>5 DEF IInv
<1>2. IInv /\ [Next]_vars => IInv'
  BY TypeStep, TriesStep, LeaseStep, ReadyStep, SavesStep, ReportsStep, OwedStep, AckStep
  DEF IInv
<1> QED
  BY <1>1, <1>2, PTL DEF Spec

\* Everything the process, its threads and its stores hold is of its type: above all, no
\* thread, however stale its copy, stages more attempts of the run than were asked for.
THEOREM TypeCorrect == Spec => []TypeOK
BY InvariantHolds, PTL DEF IInv

\* An active run is never stranded by any interleaving of requests, drives, automatic
\* retries, drains, crashes between other writes, and boots: it has a standing task, a
\* thread about to enqueue one, or a crash fell between a stage and its enqueue.
THEOREM OwedStaysQueued == Spec => []OwedIsQueued
BY InvariantHolds, PTL DEF IInv

\* Whatever kills a drive, its task is acknowledged only once the run's checkpoint was
\* stored and announced in the outbox.
THEOREM AcknowledgedAfterCheckpoint == Spec => []AckAfterCheckpoint
BY InvariantHolds, PTL DEF IInv

\* The conversation that asked hears of its run at most once for each time the report was
\* armed, though the claim is written before the report is composed and may be lost.
THEOREM ReportsAreBounded == Spec => []ReportsBounded
<1>1. IInv => ReportsBounded
  <2> SUFFICES ASSUME IInv PROVE ReportsBounded
    OBVIOUS
  <2>1. delivered \in Nat /\ armings \in Nat
    BY DEF IInv, TypeOK
  <2>2. One(armed) \in {0, 1} /\ One(worker.pc = "deliver") \in {0, 1}
    BY DEF One
  <2>3. delivered + One(armed) + One(worker.pc = "deliver") <= armings
    BY DEF IInv, ReportsPromised
  <2> QED
    BY <2>1, <2>2, <2>3 DEF ReportsBounded
<1> QED
  BY <1>1, InvariantHolds, PTL
=============================================================================
