-------------------------- MODULE DurableStoreProofs ------------------------
(***************************************************************************)
(* The two tables of the durable store that threads and processes fight    *)
(* over, each on its own: the task queue, for every set of tasks, workers  *)
(* and clients, every lease time, delay and attempt budget; and the audit  *)
(* chain of one gateway process, for any number of its threads, whose      *)
(* overlapping prunes, appends and crashes leave a chain that verifies and *)
(* whose trims are attested.                                               *)
(***************************************************************************)
EXTENDS TaskQueue, AuditChain, TLAPS

\* The inductive invariant, part by part.

\* Owner and expiry are set exactly while the row is leased.
LeaseShape ==
    \A t \in Task :
        /\ status[t] = "leased" <=> owner[t] # NoWorker
        /\ status[t] = "leased" <=> expiry[t] # NoTime

\* A worker has a task in hand exactly while it works on it or fails it.
WorkerShape ==
    \A w \in Worker :
        /\ pc[w] \in {"busy", "failing"} <=> held[w] # NoTask
        /\ held[w] # NoTask => held[w] \in Task /\ status[held[w]] # "absent"

\* Rows about to be inserted are not there yet, and no two calls insert one row.
InsertShape ==
    /\ \A c \in Client : inserting[c] # NoTask => status[inserting[c]] = "absent"
    /\ \A c, d \in Client : inserting[c] = inserting[d] /\ inserting[c] # NoTask => c = d

\* A worker knows the expiry of the lease it holds.
KnownExpiry ==
    \A w \in Worker :
        held[w] # NoTask /\ Owns(w, held[w]) => expiry[held[w]] = until[w]

\* While a worker is failing a task, the attempts it read are still spent, and a
\* lease taken by somebody else since then has spent one more, so that its refund
\* cannot undercut them.
FailBudget ==
    \A w \in Worker :
        LET t == held[w] IN
        pc[w] = "failing" =>
            /\ attempts[t] >= seen[w].attempts
            /\ status[t] = "leased" /\ owner[t] # w => attempts[t] >= seen[w].attempts + 1

IInv ==
    /\ TypeOK
    /\ LeaseShape
    /\ WorkerShape
    /\ InsertShape
    /\ KnownExpiry
    /\ FailBudget
    /\ LeaseExclusive
    /\ DeadOnlyExhausted
    /\ KeyedOnce
-----------------------------------------------------------------------------
USE WorkerAssumption, TaskAssumption, NumberAssumption

LEMMA InitIInv == Init => IInv
BY DEF Init, IInv, TypeOK, LeaseShape, WorkerShape, InsertShape, KnownExpiry, FailBudget,
       LeaseExclusive, DeadOnlyExhausted, KeyedOnce, NoTime, NothingSeen, Owns

\* Typing of the two blocks most actions are made of.
LEMMA UnleaseTypes ==
    ASSUME TypeOK, NEW t \in Task, NEW to \in {"pending", "done", "cancelled", "dead"},
           Unlease(t, to)
    PROVE  /\ status' \in [Task -> {"absent", "pending", "leased", "done", "cancelled", "dead"}]
           /\ owner' \in [Task -> Worker \cup {NoWorker}]
           /\ expiry' \in [Task -> Nat \cup {NoTime}]
BY DEF Unlease, TypeOK

LEMMA DropTypes ==
    ASSUME TypeOK, NEW w \in Worker, Drop(w)
    PROVE  /\ pc' \in [Worker -> {"idle", "polled", "busy", "failing"}]
           /\ held' \in [Worker -> Task \cup {NoTask}]
           /\ seen' \in [Worker -> [attempts : Nat, at : Nat]]
           /\ until' \in [Worker -> Nat \cup {NoTime}]
BY DEF Drop, TypeOK, NothingSeen

LEMMA TypeStep == TypeOK /\ WorkerShape /\ [Next]_vars => TypeOK'
<1> SUFFICES ASSUME TypeOK, WorkerShape, [Next]_vars PROVE TypeOK'
  OBVIOUS
<1> USE DEF tableVars, workerVars
<1>1. ASSUME NEW c \in Client, EnqueueInsert(c) PROVE TypeOK'
  BY <1>1 DEF EnqueueInsert, TypeOK
<1>2. ASSUME NEW c \in Client, NEW t \in Task, EnqueueLookup(c, t) PROVE TypeOK'
  BY <1>2 DEF EnqueueLookup, TypeOK
<1>3. ASSUME NEW w \in Worker, ReclaimExpired(w) PROVE TypeOK'
  BY <1>3 DEF ReclaimExpired, TypeOK
<1>4. ASSUME NEW w \in Worker, Lease(w) PROVE TypeOK'
  BY <1>4 DEF Lease, TypeOK
<1>5. ASSUME NEW w \in Worker, LeaseNone(w) PROVE TypeOK'
  BY <1>5 DEF LeaseNone, TypeOK
<1>6. ASSUME NEW w \in Worker, Complete(w) PROVE TypeOK'
  <2>1. held[w] \in Task
    BY <1>6 DEF Complete, WorkerShape
  <2>2. CASE Owns(w, held[w])
    BY <1>6, <2>1, <2>2, UnleaseTypes, DropTypes DEF Complete, TypeOK
  <2>3. CASE ~Owns(w, held[w])
    BY <1>6, <2>3, DropTypes DEF Complete, TypeOK
  <2> QED
    BY <2>2, <2>3
<1>7. ASSUME NEW w \in Worker, Release(w) PROVE TypeOK'
  <2>1. held[w] \in Task
    BY <1>7 DEF Release, WorkerShape
  <2>2. CASE Owns(w, held[w])
    <3>1. Unlease(held[w], "pending") /\ Drop(w) /\ UNCHANGED <<now, inserting, torn>>
      BY <1>7, <2>2 DEF Release
    <3> DEFINE refunded == IF attempts[held[w]] > 0 THEN attempts[held[w]] - 1 ELSE 0
    <3>2. refunded \in Nat
      BY <2>1 DEF TypeOK
    <3>3. attempts' = [attempts EXCEPT ![held[w]] = refunded]
      BY <1>7, <2>2 DEF Release
    <3>4. available' \in [Task -> Nat]
      BY <1>7, <2>2 DEF Release, TypeOK
    <3> HIDE DEF refunded
    <3> QED
      BY <2>1, <3>1, <3>2, <3>3, <3>4, UnleaseTypes, DropTypes DEF TypeOK
  <2>3. CASE ~Owns(w, held[w])
    BY <1>7, <2>3, DropTypes DEF Release, TypeOK
  <2> QED
    BY <2>2, <2>3
<1>8. ASSUME NEW w \in Worker, FailRead(w) PROVE TypeOK'
  <2>1. held[w] \in Task
    BY <1>8 DEF FailRead, WorkerShape
  <2>2. CASE Owns(w, held[w])
    <3> DEFINE read == [attempts |-> attempts[held[w]], at |-> now]
    <3>1. read \in [attempts : Nat, at : Nat]
      BY <2>1 DEF TypeOK
    <3>2. seen' = [seen EXCEPT ![w] = read] /\ pc' = [pc EXCEPT ![w] = "failing"]
      BY <1>8, <2>2 DEF FailRead
    <3> HIDE DEF read
    <3> QED
      BY <1>8, <2>2, <3>1, <3>2 DEF FailRead, TypeOK
  <2>3. CASE ~Owns(w, held[w])
    BY <1>8, <2>3, DropTypes DEF FailRead, TypeOK
  <2> QED
    BY <2>2, <2>3
<1>9. ASSUME NEW w \in Worker, FailWrite(w) PROVE TypeOK'
  <2>1. held[w] \in Task
    BY <1>9 DEF FailWrite, WorkerShape
  <2>2. available' \in [Task -> Nat]
    <3>1. CASE seen[w].attempts >= MaxAttempts
      BY <1>9, <3>1 DEF FailWrite, TypeOK
    <3>2. CASE ~(seen[w].attempts >= MaxAttempts)
      <4>1. PICK d \in RetryDelays : available' = [available EXCEPT ![held[w]] = seen[w].at + d]
        BY <1>9, <3>2 DEF FailWrite
      <4>2. seen[w].at + d \in Nat
        BY DEF TypeOK
      <4> QED
        BY <2>1, <4>1, <4>2 DEF TypeOK
    <3> QED
      BY <3>1, <3>2
  <2>3. PICK to \in {"pending", "dead"} : Unlease(held[w], to)
    BY <1>9 DEF FailWrite
  <2>4. torn' \subseteq Task
    BY <1>9, <2>1 DEF FailWrite, TypeOK
  <2>5. Drop(w) /\ UNCHANGED <<attempts, now, inserting>>
    BY <1>9 DEF FailWrite
  <2> QED
    BY <2>1, <2>2, <2>3, <2>4, <2>5, UnleaseTypes, DropTypes DEF TypeOK
<1>10. ASSUME NEW w \in Worker, Heartbeat(w) PROVE TypeOK'
  BY <1>10 DEF Heartbeat, WorkerShape, TypeOK
<1>11. ASSUME NEW w \in Worker, Crash(w) PROVE TypeOK'
  BY <1>11, DropTypes DEF Crash, TypeOK
<1>12. ASSUME NEW t \in Task, Cancel(t) PROVE TypeOK'
  BY <1>12, UnleaseTypes DEF Cancel, TypeOK
<1>13. CASE Tick
  BY <1>13 DEF Tick, TypeOK
<1>14. CASE UNCHANGED vars
  BY <1>14 DEF vars, TypeOK
<1> QED
  BY <1>1, <1>2, <1>3, <1>4, <1>5, <1>6, <1>7, <1>8, <1>9, <1>10, <1>11, <1>12, <1>13, <1>14
     DEF Next, Loop

LEMMA LeaseShapeStep == IInv /\ TypeOK' /\ [Next]_vars => LeaseShape'
<1> SUFFICES ASSUME IInv, TypeOK', [Next]_vars PROVE LeaseShape'
  OBVIOUS
<1> USE DEF IInv, TypeOK, LeaseShape, NoTime, tableVars, workerVars
<1>1. ASSUME NEW c \in Client, EnqueueInsert(c) PROVE LeaseShape'
  BY <1>1 DEF EnqueueInsert, KeyTaken, InsertShape
<1>2. ASSUME NEW c \in Client, NEW x \in Task, EnqueueLookup(c, x) PROVE LeaseShape'
  BY <1>2 DEF EnqueueLookup
<1>3. ASSUME NEW w \in Worker, ReclaimExpired(w) PROVE LeaseShape'
  BY <1>3 DEF ReclaimExpired, Expired
<1>4. ASSUME NEW w \in Worker, Lease(w) PROVE LeaseShape'
  BY <1>4 DEF Lease, MayLease, Oldest, Leasable
<1>5. ASSUME NEW w \in Worker, LeaseNone(w) PROVE LeaseShape'
  BY <1>5 DEF LeaseNone
<1>6. ASSUME NEW w \in Worker, Complete(w) PROVE LeaseShape'
  BY <1>6 DEF Complete, Unlease, Drop
<1>7. ASSUME NEW w \in Worker, Release(w) PROVE LeaseShape'
  BY <1>7 DEF Release, Unlease, Drop
<1>8. ASSUME NEW w \in Worker, FailRead(w) PROVE LeaseShape'
  BY <1>8 DEF FailRead, Drop
<1>9. ASSUME NEW w \in Worker, FailWrite(w) PROVE LeaseShape'
  BY <1>9 DEF FailWrite, Unlease, Drop
<1>10. ASSUME NEW w \in Worker, Heartbeat(w) PROVE LeaseShape'
  BY <1>10 DEF Heartbeat, WorkerShape, Owns
<1>11. ASSUME NEW w \in Worker, Crash(w) PROVE LeaseShape'
  BY <1>11 DEF Crash, Drop
<1>12. ASSUME NEW x \in Task, Cancel(x) PROVE LeaseShape'
  BY <1>12 DEF Cancel, Unlease
<1>13. CASE Tick
  BY <1>13 DEF Tick
<1>14. CASE UNCHANGED vars
  BY <1>14 DEF vars
<1> QED
  BY <1>1, <1>2, <1>3, <1>4, <1>5, <1>6, <1>7, <1>8, <1>9, <1>10, <1>11, <1>12, <1>13, <1>14
     DEF Next, Loop

LEMMA WorkerShapeStep == IInv /\ TypeOK' /\ [Next]_vars => WorkerShape'
<1> SUFFICES ASSUME IInv, TypeOK', [Next]_vars PROVE WorkerShape'
  OBVIOUS
<1> USE DEF IInv, TypeOK, WorkerShape, LeaseShape, tableVars, workerVars
<1>1. ASSUME NEW c \in Client, EnqueueInsert(c) PROVE WorkerShape'
  BY <1>1 DEF EnqueueInsert, KeyTaken
<1>2. ASSUME NEW c \in Client, NEW x \in Task, EnqueueLookup(c, x) PROVE WorkerShape'
  BY <1>2 DEF EnqueueLookup
<1>3. ASSUME NEW w \in Worker, ReclaimExpired(w) PROVE WorkerShape'
  BY <1>3 DEF ReclaimExpired, Expired
<1>4. ASSUME NEW w \in Worker, Lease(w) PROVE WorkerShape'
  BY <1>4 DEF Lease, MayLease, Oldest, Leasable
<1>5. ASSUME NEW w \in Worker, LeaseNone(w) PROVE WorkerShape'
  BY <1>5 DEF LeaseNone
<1>6. ASSUME NEW w \in Worker, Complete(w) PROVE WorkerShape'
  BY <1>6 DEF Complete, Unlease, Drop
<1>7. ASSUME NEW w \in Worker, Release(w) PROVE WorkerShape'
  BY <1>7 DEF Release, Unlease, Drop
<1>8. ASSUME NEW w \in Worker, FailRead(w) PROVE WorkerShape'
  BY <1>8 DEF FailRead, Drop
<1>9. ASSUME NEW w \in Worker, FailWrite(w) PROVE WorkerShape'
  BY <1>9 DEF FailWrite, Unlease, Drop
<1>10. ASSUME NEW w \in Worker, Heartbeat(w) PROVE WorkerShape'
  BY <1>10 DEF Heartbeat
<1>11. ASSUME NEW w \in Worker, Crash(w) PROVE WorkerShape'
  BY <1>11 DEF Crash, Drop
<1>12. ASSUME NEW x \in Task, Cancel(x) PROVE WorkerShape'
  BY <1>12 DEF Cancel, Unlease
<1>13. CASE Tick
  BY <1>13 DEF Tick
<1>14. CASE UNCHANGED vars
  BY <1>14 DEF vars
<1> QED
  BY <1>1, <1>2, <1>3, <1>4, <1>5, <1>6, <1>7, <1>8, <1>9, <1>10, <1>11, <1>12, <1>13, <1>14
     DEF Next, Loop

LEMMA InsertShapeStep == IInv /\ TypeOK' /\ [Next]_vars => InsertShape'
<1> SUFFICES ASSUME IInv, TypeOK', [Next]_vars PROVE InsertShape'
  OBVIOUS
<1> USE DEF IInv, TypeOK, InsertShape, LeaseShape, WorkerShape, tableVars, workerVars
<1>1. ASSUME NEW c \in Client, EnqueueInsert(c) PROVE InsertShape'
  BY <1>1 DEF EnqueueInsert, KeyTaken
<1>2. ASSUME NEW c \in Client, NEW x \in Task, EnqueueLookup(c, x) PROVE InsertShape'
  BY <1>2 DEF EnqueueLookup
<1>3. ASSUME NEW w \in Worker, ReclaimExpired(w) PROVE InsertShape'
  BY <1>3 DEF ReclaimExpired, Expired
<1>4. ASSUME NEW w \in Worker, Lease(w) PROVE InsertShape'
  BY <1>4 DEF Lease, MayLease, Oldest, Leasable
<1>5. ASSUME NEW w \in Worker, LeaseNone(w) PROVE InsertShape'
  BY <1>5 DEF LeaseNone
<1>6. ASSUME NEW w \in Worker, Complete(w) PROVE InsertShape'
  BY <1>6 DEF Complete, Unlease, Drop
<1>7. ASSUME NEW w \in Worker, Release(w) PROVE InsertShape'
  BY <1>7 DEF Release, Unlease, Drop
<1>8. ASSUME NEW w \in Worker, FailRead(w) PROVE InsertShape'
  BY <1>8 DEF FailRead, Drop
<1>9. ASSUME NEW w \in Worker, FailWrite(w) PROVE InsertShape'
  BY <1>9 DEF FailWrite, Unlease, Drop
<1>10. ASSUME NEW w \in Worker, Heartbeat(w) PROVE InsertShape'
  BY <1>10 DEF Heartbeat
<1>11. ASSUME NEW w \in Worker, Crash(w) PROVE InsertShape'
  BY <1>11 DEF Crash, Drop
<1>12. ASSUME NEW x \in Task, Cancel(x) PROVE InsertShape'
  BY <1>12 DEF Cancel, Unlease
<1>13. CASE Tick
  BY <1>13 DEF Tick
<1>14. CASE UNCHANGED vars
  BY <1>14 DEF vars
<1> QED
  BY <1>1, <1>2, <1>3, <1>4, <1>5, <1>6, <1>7, <1>8, <1>9, <1>10, <1>11, <1>12, <1>13, <1>14
     DEF Next, Loop

LEMMA KnownExpiryStep == IInv /\ TypeOK' /\ [Next]_vars => KnownExpiry'
<1> SUFFICES ASSUME IInv, TypeOK', [Next]_vars PROVE KnownExpiry'
  OBVIOUS
<1> USE DEF IInv, TypeOK, KnownExpiry, WorkerShape, LeaseShape, InsertShape, Owns, tableVars, workerVars
<1>1. ASSUME NEW c \in Client, EnqueueInsert(c) PROVE KnownExpiry'
  BY <1>1 DEF EnqueueInsert, KeyTaken
<1>2. ASSUME NEW c \in Client, NEW x \in Task, EnqueueLookup(c, x) PROVE KnownExpiry'
  BY <1>2 DEF EnqueueLookup
<1>3. ASSUME NEW w \in Worker, ReclaimExpired(w) PROVE KnownExpiry'
  BY <1>3 DEF ReclaimExpired, Expired
<1>4. ASSUME NEW w \in Worker, Lease(w) PROVE KnownExpiry'
  BY <1>4 DEF Lease, MayLease, Oldest, Leasable
<1>5. ASSUME NEW w \in Worker, LeaseNone(w) PROVE KnownExpiry'
  BY <1>5 DEF LeaseNone
<1>6. ASSUME NEW w \in Worker, Complete(w) PROVE KnownExpiry'
  BY <1>6 DEF Complete, Unlease, Drop
<1>7. ASSUME NEW w \in Worker, Release(w) PROVE KnownExpiry'
  BY <1>7 DEF Release, Unlease, Drop
<1>8. ASSUME NEW w \in Worker, FailRead(w) PROVE KnownExpiry'
  BY <1>8 DEF FailRead, Drop
<1>9. ASSUME NEW w \in Worker, FailWrite(w) PROVE KnownExpiry'
  BY <1>9 DEF FailWrite, Unlease, Drop
<1>10. ASSUME NEW w \in Worker, Heartbeat(w) PROVE KnownExpiry'
  BY <1>10 DEF Heartbeat
<1>11. ASSUME NEW w \in Worker, Crash(w) PROVE KnownExpiry'
  BY <1>11 DEF Crash, Drop
<1>12. ASSUME NEW x \in Task, Cancel(x) PROVE KnownExpiry'
  BY <1>12 DEF Cancel, Unlease
<1>13. CASE Tick
  BY <1>13 DEF Tick
<1>14. CASE UNCHANGED vars
  BY <1>14 DEF vars
<1> QED
  BY <1>1, <1>2, <1>3, <1>4, <1>5, <1>6, <1>7, <1>8, <1>9, <1>10, <1>11, <1>12, <1>13, <1>14
     DEF Next, Loop

LEMMA FailBudgetStep == IInv /\ TypeOK' /\ [Next]_vars => FailBudget'
<1> SUFFICES ASSUME IInv, TypeOK', [Next]_vars PROVE FailBudget'
  OBVIOUS
<1> USE DEF IInv, TypeOK, FailBudget, WorkerShape, InsertShape, LeaseShape, Owns, tableVars, workerVars
<1>1. ASSUME NEW c \in Client, EnqueueInsert(c) PROVE FailBudget'
  BY <1>1 DEF EnqueueInsert, KeyTaken
<1>2. ASSUME NEW c \in Client, NEW x \in Task, EnqueueLookup(c, x) PROVE FailBudget'
  BY <1>2 DEF EnqueueLookup
<1>3. ASSUME NEW w \in Worker, ReclaimExpired(w) PROVE FailBudget'
  BY <1>3 DEF ReclaimExpired, Expired
<1>4. ASSUME NEW w \in Worker, Lease(w) PROVE FailBudget'
  BY <1>4 DEF Lease, MayLease, Oldest, Leasable
<1>5. ASSUME NEW w \in Worker, LeaseNone(w) PROVE FailBudget'
  BY <1>5 DEF LeaseNone
<1>6. ASSUME NEW w \in Worker, Complete(w) PROVE FailBudget'
  BY <1>6 DEF Complete, Unlease, Drop
<1>7. ASSUME NEW w \in Worker, Release(w) PROVE FailBudget'
  BY <1>7 DEF Release, Unlease, Drop
<1>8. ASSUME NEW w \in Worker, FailRead(w) PROVE FailBudget'
  BY <1>8 DEF FailRead, Drop
<1>9. ASSUME NEW w \in Worker, FailWrite(w) PROVE FailBudget'
  BY <1>9 DEF FailWrite, Unlease, Drop
<1>10. ASSUME NEW w \in Worker, Heartbeat(w) PROVE FailBudget'
  BY <1>10 DEF Heartbeat
<1>11. ASSUME NEW w \in Worker, Crash(w) PROVE FailBudget'
  BY <1>11 DEF Crash, Drop
<1>12. ASSUME NEW x \in Task, Cancel(x) PROVE FailBudget'
  BY <1>12 DEF Cancel, Unlease
<1>13. CASE Tick
  BY <1>13 DEF Tick
<1>14. CASE UNCHANGED vars
  BY <1>14 DEF vars
<1> QED
  BY <1>1, <1>2, <1>3, <1>4, <1>5, <1>6, <1>7, <1>8, <1>9, <1>10, <1>11, <1>12, <1>13, <1>14
     DEF Next, Loop

LEMMA LeaseExclusiveStep == IInv /\ TypeOK' /\ [Next]_vars => LeaseExclusive'
<1> SUFFICES ASSUME IInv, TypeOK', [Next]_vars PROVE LeaseExclusive'
  OBVIOUS
<1> USE DEF IInv, TypeOK, LeaseExclusive, KnownExpiry, WorkerShape, InsertShape, Owns, tableVars, workerVars
<1>1. ASSUME NEW c \in Client, EnqueueInsert(c) PROVE LeaseExclusive'
  BY <1>1 DEF EnqueueInsert, KeyTaken
<1>2. ASSUME NEW c \in Client, NEW x \in Task, EnqueueLookup(c, x) PROVE LeaseExclusive'
  BY <1>2 DEF EnqueueLookup
<1>3. ASSUME NEW w \in Worker, ReclaimExpired(w) PROVE LeaseExclusive'
  BY <1>3 DEF ReclaimExpired, Expired
<1>4. ASSUME NEW w \in Worker, Lease(w) PROVE LeaseExclusive'
  BY <1>4 DEF Lease, MayLease, Oldest, Leasable
<1>5. ASSUME NEW w \in Worker, LeaseNone(w) PROVE LeaseExclusive'
  BY <1>5 DEF LeaseNone
<1>6. ASSUME NEW w \in Worker, Complete(w) PROVE LeaseExclusive'
  BY <1>6 DEF Complete, Unlease, Drop
<1>7. ASSUME NEW w \in Worker, Release(w) PROVE LeaseExclusive'
  BY <1>7 DEF Release, Unlease, Drop
<1>8. ASSUME NEW w \in Worker, FailRead(w) PROVE LeaseExclusive'
  BY <1>8 DEF FailRead, Drop
<1>9. ASSUME NEW w \in Worker, FailWrite(w) PROVE LeaseExclusive'
  BY <1>9 DEF FailWrite, Unlease, Drop
<1>10. ASSUME NEW w \in Worker, Heartbeat(w) PROVE LeaseExclusive'
  BY <1>10 DEF Heartbeat
<1>11. ASSUME NEW w \in Worker, Crash(w) PROVE LeaseExclusive'
  BY <1>11 DEF Crash, Drop
<1>12. ASSUME NEW x \in Task, Cancel(x) PROVE LeaseExclusive'
  BY <1>12 DEF Cancel, Unlease
<1>13. CASE Tick
  <2> SUFFICES ASSUME NEW w \in Worker, held[w] # NoTask, now' <= until[w],
                      held[w] \notin torn, status[held[w]] # "cancelled"
               PROVE  Owns(w, held[w])
    BY <1>13 DEF Tick
  <2>1. now <= until[w]
    BY <1>13 DEF Tick, NoTime
  <2> QED
    BY <2>1
<1>14. CASE UNCHANGED vars
  BY <1>14 DEF vars
<1> QED
  BY <1>1, <1>2, <1>3, <1>4, <1>5, <1>6, <1>7, <1>8, <1>9, <1>10, <1>11, <1>12, <1>13, <1>14
     DEF Next, Loop

LEMMA DeadOnlyExhaustedStep == IInv /\ TypeOK' /\ [Next]_vars => DeadOnlyExhausted'
<1> SUFFICES ASSUME IInv, TypeOK', [Next]_vars PROVE DeadOnlyExhausted'
  OBVIOUS
<1> USE DEF IInv, TypeOK, DeadOnlyExhausted, FailBudget, WorkerShape, Owns, tableVars, workerVars
<1>1. ASSUME NEW c \in Client, EnqueueInsert(c) PROVE DeadOnlyExhausted'
  BY <1>1 DEF EnqueueInsert, KeyTaken
<1>2. ASSUME NEW c \in Client, NEW x \in Task, EnqueueLookup(c, x) PROVE DeadOnlyExhausted'
  BY <1>2 DEF EnqueueLookup
<1>3. ASSUME NEW w \in Worker, ReclaimExpired(w) PROVE DeadOnlyExhausted'
  BY <1>3 DEF ReclaimExpired, Expired
<1>4. ASSUME NEW w \in Worker, Lease(w) PROVE DeadOnlyExhausted'
  BY <1>4 DEF Lease, MayLease, Oldest, Leasable
<1>5. ASSUME NEW w \in Worker, LeaseNone(w) PROVE DeadOnlyExhausted'
  BY <1>5 DEF LeaseNone
<1>6. ASSUME NEW w \in Worker, Complete(w) PROVE DeadOnlyExhausted'
  BY <1>6 DEF Complete, Unlease, Drop
<1>7. ASSUME NEW w \in Worker, Release(w) PROVE DeadOnlyExhausted'
  BY <1>7 DEF Release, Unlease, Drop
<1>8. ASSUME NEW w \in Worker, FailRead(w) PROVE DeadOnlyExhausted'
  BY <1>8 DEF FailRead, Drop
<1>9. ASSUME NEW w \in Worker, FailWrite(w) PROVE DeadOnlyExhausted'
  BY <1>9 DEF FailWrite, Unlease, Drop
<1>10. ASSUME NEW w \in Worker, Heartbeat(w) PROVE DeadOnlyExhausted'
  BY <1>10 DEF Heartbeat
<1>11. ASSUME NEW w \in Worker, Crash(w) PROVE DeadOnlyExhausted'
  BY <1>11 DEF Crash, Drop
<1>12. ASSUME NEW x \in Task, Cancel(x) PROVE DeadOnlyExhausted'
  BY <1>12 DEF Cancel, Unlease
<1>13. CASE Tick
  BY <1>13 DEF Tick
<1>14. CASE UNCHANGED vars
  BY <1>14 DEF vars
<1> QED
  BY <1>1, <1>2, <1>3, <1>4, <1>5, <1>6, <1>7, <1>8, <1>9, <1>10, <1>11, <1>12, <1>13, <1>14
     DEF Next, Loop

LEMMA KeyedOnceStep == IInv /\ TypeOK' /\ [Next]_vars => KeyedOnce'
<1> SUFFICES ASSUME IInv, TypeOK', [Next]_vars PROVE KeyedOnce'
  OBVIOUS
<1> USE DEF IInv, TypeOK, KeyedOnce, WorkerShape, InsertShape, tableVars, workerVars
<1>1. ASSUME NEW c \in Client, EnqueueInsert(c) PROVE KeyedOnce'
  BY <1>1 DEF EnqueueInsert, KeyTaken
<1>2. ASSUME NEW c \in Client, NEW x \in Task, EnqueueLookup(c, x) PROVE KeyedOnce'
  BY <1>2 DEF EnqueueLookup
<1>3. ASSUME NEW w \in Worker, ReclaimExpired(w) PROVE KeyedOnce'
  BY <1>3 DEF ReclaimExpired, Expired
<1>4. ASSUME NEW w \in Worker, Lease(w) PROVE KeyedOnce'
  BY <1>4 DEF Lease, MayLease, Oldest, Leasable
<1>5. ASSUME NEW w \in Worker, LeaseNone(w) PROVE KeyedOnce'
  BY <1>5 DEF LeaseNone
<1>6. ASSUME NEW w \in Worker, Complete(w) PROVE KeyedOnce'
  BY <1>6 DEF Complete, Unlease, Drop
<1>7. ASSUME NEW w \in Worker, Release(w) PROVE KeyedOnce'
  BY <1>7 DEF Release, Unlease, Drop
<1>8. ASSUME NEW w \in Worker, FailRead(w) PROVE KeyedOnce'
  BY <1>8 DEF FailRead, Drop
<1>9. ASSUME NEW w \in Worker, FailWrite(w) PROVE KeyedOnce'
  BY <1>9 DEF FailWrite, Unlease, Drop
<1>10. ASSUME NEW w \in Worker, Heartbeat(w) PROVE KeyedOnce'
  BY <1>10 DEF Heartbeat
<1>11. ASSUME NEW w \in Worker, Crash(w) PROVE KeyedOnce'
  BY <1>11 DEF Crash, Drop
<1>12. ASSUME NEW x \in Task, Cancel(x) PROVE KeyedOnce'
  BY <1>12 DEF Cancel, Unlease
<1>13. CASE Tick
  BY <1>13 DEF Tick
<1>14. CASE UNCHANGED vars
  BY <1>14 DEF vars
<1> QED
  BY <1>1, <1>2, <1>3, <1>4, <1>5, <1>6, <1>7, <1>8, <1>9, <1>10, <1>11, <1>12, <1>13, <1>14
     DEF Next, Loop
-----------------------------------------------------------------------------
LEMMA StepIInv == IInv /\ [Next]_vars => IInv'
<1> SUFFICES ASSUME IInv, [Next]_vars PROVE IInv'
  OBVIOUS
<1>1. TypeOK'
  BY TypeStep DEF IInv
<1> QED
  BY <1>1, LeaseShapeStep, WorkerShapeStep, InsertShapeStep, KnownExpiryStep, FailBudgetStep,
     LeaseExclusiveStep, DeadOnlyExhaustedStep, KeyedOnceStep DEF IInv

\* The inductive invariant holds in every reachable state.
THEOREM Inductive == Spec => []IInv
BY InitIInv, StepIInv, PTL DEF Spec

\* Every variable keeps its type: no NULL where the code reads a value.
THEOREM TypeCorrect == Spec => []TypeOK
<1>1. IInv => TypeOK
  BY DEF IInv
<1> QED
  BY <1>1, Inductive, PTL

\* lease, heartbeat and reclaim_expired: a lease that has not run out is its
\* worker's, unless the task was cancelled or a stale failure report tore it.
THEOREM LeasesAreExclusive == Spec => []LeaseExclusive
<1>1. IInv => LeaseExclusive
  BY DEF IInv
<1> QED
  BY <1>1, Inductive, PTL

\* fail and release: a task is dead only with its attempt budget spent.
THEOREM DeadMeansExhausted == Spec => []DeadOnlyExhausted
<1>1. IInv => DeadOnlyExhausted
  BY DEF IInv
<1> QED
  BY <1>1, Inductive, PTL

\* enqueue: one task per idempotency key, however the calls interleave.
THEOREM OneTaskPerKey == Spec => []KeyedOnce
<1>1. IInv => KeyedOnce
  BY DEF IInv
<1> QED
  BY <1>1, Inductive, PTL

\* A status that leaves a settled value does so through a stale failure report.
LEMMA SettledStep ==
    IInv /\ [Next]_vars =>
        \A t \in Task : status[t] \in {"done", "cancelled", "dead"} /\ t \notin torn'
            => status'[t] = status[t]
<1> SUFFICES ASSUME IInv, [Next]_vars, NEW t \in Task,
                    status[t] \in {"done", "cancelled", "dead"}, t \notin torn'
             PROVE  status'[t] = status[t]
  OBVIOUS
<1> USE DEF IInv, TypeOK, WorkerShape, InsertShape, Owns, tableVars, workerVars
<1>1. ASSUME NEW c \in Client, EnqueueInsert(c) PROVE status'[t] = status[t]
  BY <1>1 DEF EnqueueInsert
<1>2. ASSUME NEW c \in Client, NEW x \in Task, EnqueueLookup(c, x) PROVE status'[t] = status[t]
  BY <1>2 DEF EnqueueLookup
<1>3. ASSUME NEW w \in Worker, ReclaimExpired(w) PROVE status'[t] = status[t]
  BY <1>3 DEF ReclaimExpired, Expired
<1>4. ASSUME NEW w \in Worker, Lease(w) PROVE status'[t] = status[t]
  BY <1>4 DEF Lease, MayLease, Oldest, Leasable
<1>5. ASSUME NEW w \in Worker, LeaseNone(w) PROVE status'[t] = status[t]
  BY <1>5 DEF LeaseNone
<1>6. ASSUME NEW w \in Worker, Complete(w) PROVE status'[t] = status[t]
  BY <1>6 DEF Complete, Unlease, Drop
<1>7. ASSUME NEW w \in Worker, Release(w) PROVE status'[t] = status[t]
  BY <1>7 DEF Release, Unlease, Drop
<1>8. ASSUME NEW w \in Worker, FailRead(w) PROVE status'[t] = status[t]
  BY <1>8 DEF FailRead, Drop
<1>9. ASSUME NEW w \in Worker, FailWrite(w) PROVE status'[t] = status[t]
  BY <1>9 DEF FailWrite, Unlease, Drop
<1>10. ASSUME NEW w \in Worker, Heartbeat(w) PROVE status'[t] = status[t]
  BY <1>10 DEF Heartbeat
<1>11. ASSUME NEW w \in Worker, Crash(w) PROVE status'[t] = status[t]
  BY <1>11 DEF Crash, Drop
<1>12. ASSUME NEW x \in Task, Cancel(x) PROVE status'[t] = status[t]
  BY <1>12 DEF Cancel, Unlease
<1>13. CASE Tick
  BY <1>13 DEF Tick
<1>14. CASE UNCHANGED vars
  BY <1>14 DEF vars
<1> QED
  BY <1>1, <1>2, <1>3, <1>4, <1>5, <1>6, <1>7, <1>8, <1>9, <1>10, <1>11, <1>12, <1>13, <1>14
     DEF Next, Loop

\* complete, release, heartbeat, cancel and reclaim_expired never revive a settled
\* task; only fail's second half can.
THEOREM SettledStays == Spec => SettledForGood
<1>1. IInv /\ [Next]_vars =>
        [\A t \in Task : status[t] \in {"done", "cancelled", "dead"} /\ t \notin torn'
            => status'[t] = status[t]]_vars
  BY SettledStep
<1> QED
  BY <1>1, Inductive, PTL DEF Spec, SettledForGood
-----------------------------------------------------------------------------
\* Every step of the queue is a step of the pool, or leaves the pool as it is.
LEMMA PoolStep == IInv /\ [Next]_vars => [Pool!Next]_(Pool!poolVars)
<1> SUFFICES ASSUME IInv, [Next]_vars PROVE [Pool!Next]_(Pool!poolVars)
  OBVIOUS
<1> USE DEF IInv, TypeOK, LeaseShape, WorkerShape, InsertShape, Owns, tableVars, workerVars,
            Pool!poolVars
<1>1. ASSUME NEW c \in Client, EnqueueInsert(c) PROVE Pool!Next \/ UNCHANGED Pool!poolVars
  <2>1. Pool!Add(inserting[c]) \/ UNCHANGED Pool!poolVars
    BY <1>1 DEF EnqueueInsert, Pool!Add
  <2>2. inserting[c] \in Task
    BY <1>1 DEF EnqueueInsert
  <2> QED
    BY <2>1, <2>2 DEF Pool!Next
<1>2. ASSUME NEW c \in Client, NEW x \in Task, EnqueueLookup(c, x) PROVE UNCHANGED Pool!poolVars
  BY <1>2 DEF EnqueueLookup
<1>3. ASSUME NEW w \in Worker, ReclaimExpired(w) PROVE Pool!Next \/ UNCHANGED Pool!poolVars
  <2> DEFINE S == {t \in Task : Expired(t)}
  <2>1. CASE S = {}
    BY <1>3, <2>1 DEF ReclaimExpired
  <2>2. CASE S # {}
    <3>1. Pool!GiveBack(S)
      BY <1>3, <2>2 DEF ReclaimExpired, Expired, Pool!GiveBack
    <3> QED
      BY <3>1 DEF Pool!Next
  <2> QED
    BY <2>1, <2>2
<1>4. ASSUME NEW w \in Worker, Lease(w) PROVE Pool!Next
  <2>1. PICK t \in Task : Oldest(t) /\ status' = [status EXCEPT ![t] = "leased"]
                                  /\ owner' = [owner EXCEPT ![t] = w]
    BY <1>4 DEF Lease
  <2>2. Pool!Take(w, t)
    BY <1>4, <2>1 DEF Lease, Oldest, Leasable, Pool!Take
  <2> QED
    BY <2>2 DEF Pool!Next
<1>5. ASSUME NEW w \in Worker, LeaseNone(w) PROVE UNCHANGED Pool!poolVars
  BY <1>5 DEF LeaseNone
<1>6. ASSUME NEW w \in Worker, Complete(w) PROVE Pool!Next \/ UNCHANGED Pool!poolVars
  <2>1. held[w] \in Task
    BY <1>6 DEF Complete
  <2>2. Pool!Settle(held[w], "done") \/ UNCHANGED Pool!poolVars
    BY <1>6 DEF Complete, Unlease, Pool!Settle
  <2> QED
    BY <2>1, <2>2 DEF Pool!Next
<1>7. ASSUME NEW w \in Worker, Release(w) PROVE Pool!Next \/ UNCHANGED Pool!poolVars
  <2>1. held[w] \in Task
    BY <1>7 DEF Release
  <2>2. Pool!GiveBack({held[w]}) \/ UNCHANGED Pool!poolVars
    BY <1>7, <2>1 DEF Release, Unlease, Pool!GiveBack
  <2> QED
    BY <2>1, <2>2 DEF Pool!Next
<1>8. ASSUME NEW w \in Worker, FailRead(w) PROVE UNCHANGED Pool!poolVars
  BY <1>8 DEF FailRead
<1>9. ASSUME NEW w \in Worker, FailWrite(w) PROVE Pool!Next
  <2>1. held[w] \in Task
    BY <1>9 DEF FailWrite
  <2>2. PICK to \in {"pending", "dead"} : Unlease(held[w], to)
    BY <1>9 DEF FailWrite
  <2>3. CASE ~Owns(w, held[w])
    <3>1. Pool!Tear(held[w], to)
      BY <1>9, <2>1, <2>2, <2>3 DEF FailWrite, Unlease, Pool!Tear
    <3> QED
      BY <2>1, <3>1 DEF Pool!Next
  <2>4. CASE Owns(w, held[w]) /\ to = "dead"
    <3>1. Pool!Settle(held[w], "dead")
      BY <1>9, <2>1, <2>2, <2>4 DEF FailWrite, Unlease, Pool!Settle
    <3> QED
      BY <2>1, <3>1 DEF Pool!Next
  <2>5. CASE Owns(w, held[w]) /\ to = "pending"
    <3>1. Pool!GiveBack({held[w]})
      BY <1>9, <2>1, <2>2, <2>5 DEF FailWrite, Unlease, Pool!GiveBack
    <3> QED
      BY <2>1, <3>1 DEF Pool!Next
  <2> QED
    BY <2>3, <2>4, <2>5
<1>10. ASSUME NEW w \in Worker, Heartbeat(w) PROVE UNCHANGED Pool!poolVars
  BY <1>10 DEF Heartbeat
<1>11. ASSUME NEW w \in Worker, Crash(w) PROVE UNCHANGED Pool!poolVars
  BY <1>11 DEF Crash
<1>12. ASSUME NEW x \in Task, Cancel(x) PROVE Pool!Next
  <2>1. Pool!Withdraw(x)
    BY <1>12 DEF Cancel, Unlease, Pool!Withdraw
  <2> QED
    BY <2>1 DEF Pool!Next
<1>13. CASE Tick
  BY <1>13 DEF Tick
<1>14. CASE UNCHANGED vars
  BY <1>14 DEF vars
<1> QED
  BY <1>1, <1>2, <1>3, <1>4, <1>5, <1>6, <1>7, <1>8, <1>9, <1>10, <1>11, <1>12, <1>13, <1>14
     DEF Next, Loop

\* The timed, two-transaction queue implements the pool: no schedule of its calls
\* shows a caller anything the pool would not.
THEOREM QueueImplementsPool == Spec => PoolSpec
<1>1. Init => Pool!Init
  BY DEF Init, Pool!Init
<1> QED
  BY <1>1, Inductive, PoolStep, PTL DEF Spec, PoolSpec, Pool!Spec
-----------------------------------------------------------------------------
(***************************************************************************)
(* THE AUDIT CHAIN.  The strengthening says that the table is a suffix of  *)
(* everything appended, each entry linked to its predecessor, and that a   *)
(* prune about to delete still has its attestation above its boundary.     *)
(***************************************************************************)

\* All callers share one connection and its lock.
OneHost == \A t, u \in Thread : HostOf[t] = HostOf[u]

Suffix ==
    /\ log \subseteq 1 .. last
    /\ \A s \in log : \A u \in 1 .. last : s <= u => u \in log
    /\ last # 0 => last \in log

Linked == \A s \in log : prev[s] = s - 1

StartAttested ==
    \A s \in log : s # 1 /\ s - 1 \notin log => \E r \in log : attests[r] = s - 1

LockHeld ==
    \A t \in Thread : InTransaction(t) =>
        /\ thread[t].tip = last
        /\ last < MaxEntries
        /\ \A u \in Thread : InTransaction(u) => u = t

CutsMade ==
    \A t \in Thread :
        /\ thread[t].pc \in {"bounded", "attesting", "attested"} => thread[t].cut \in 1 .. last
        /\ thread[t].pc = "attested" /\ thread[t].cut \in log =>
              \E r \in log : r > thread[t].cut /\ attests[r] = thread[t].cut

AuditInv ==
    /\ AuditTypeOK /\ Suffix /\ Linked /\ StartAttested /\ TrimsAreAttested
    /\ LockHeld /\ CutsMade
-----------------------------------------------------------------------------
\* The tip a transaction reads is the last entry ever appended.
LEMMA TipIsLast ==
    ASSUME AuditTypeOK, Suffix, NEW x \in 0 .. MaxEntries, IsTip(x)
    PROVE  x = last
  BY BoundAssumption DEF AuditTypeOK, Suffix, IsTip, Genesis, EntryIds

\* The table verifies in every state of the invariant.
LEMMA InvariantVerifies ==
    ASSUME AuditInv PROVE ChainVerifies
<1> SUFFICES ASSUME NEW s \in log
             PROVE  \/ First(s) /\ (prev[s] = Genesis \/ \E r \in log : attests[r] = prev[s])
                    \/ \E u \in log : Before(u, s) /\ prev[s] = u
  BY DEF ChainVerifies, Verify
<1>1. /\ s \in 1 .. last /\ prev[s] = s - 1 /\ last \in Nat
  BY BoundAssumption DEF AuditInv, AuditTypeOK, Suffix, Linked
<1>2. CASE s - 1 \in log
  <2>1. \A v \in log : v \in Int
    BY <1>1 DEF AuditInv, Suffix
  <2>2. Before(s - 1, s)
    BY <1>1, <1>2, <2>1 DEF Before
  <2> QED  BY <1>1, <1>2, <2>2
<1>3. CASE s - 1 \notin log
  <2>1. First(s)
    <3> SUFFICES ASSUME NEW u \in log, u < s PROVE FALSE
      BY <1>1 DEF First, AuditInv, Suffix
    <3>1. u \in 1 .. last /\ s - 1 \in 1 .. last /\ u <= s - 1
      BY <1>1 DEF AuditInv, Suffix
    <3> QED  BY <1>3, <3>1 DEF AuditInv, Suffix
  <2>2. CASE s = 1
    BY <1>1, <2>1, <2>2 DEF Genesis
  <2>3. CASE s # 1
    <3>1. \E r \in log : attests[r] = s - 1
      BY <1>3, <2>3 DEF AuditInv, StartAttested
    <3> QED  BY <1>1, <2>1, <3>1
  <2> QED  BY <2>2, <2>3
<1> QED  BY <1>2, <1>3
-----------------------------------------------------------------------------
\* What a thread's record may be.
ThreadType == [pc : {"idle", "linking", "bounded", "attesting", "attested"},
               tip : 0 .. MaxEntries, cut : 0 .. MaxEntries]

\* A thread that moves to a well-typed record leaves the state well typed.
LEMMA MoveTyped ==
    ASSUME AuditTypeOK, NEW t \in Thread, NEW r \in ThreadType,
           thread' = [thread EXCEPT ![t] = r],
           log' \subseteq EntryIds, last' \in 0 .. MaxEntries,
           prev' \in [EntryIds -> 0 .. MaxEntries],
           attests' \in [EntryIds -> 0 .. MaxEntries]
    PROVE  AuditTypeOK'
<1>1. thread \in [Thread -> ThreadType]  BY DEF AuditTypeOK, ThreadType
<1>2. thread' \in [Thread -> ThreadType]  BY <1>1
<1> QED  BY <1>2 DEF AuditTypeOK, ThreadType

LEMMA AtRestTyped == AtRest \in ThreadType
  BY BoundAssumption DEF AtRest, ThreadType, Genesis

\* Reading the tip: the transaction holds the lock, and the tip is the last entry.
LEMMA StepSelectTip ==
    ASSUME AuditInv, OneHost, NEW t \in Thread, SelectTip(t) PROVE AuditInv'
<1>1. PICK x \in 0 .. MaxEntries :
          /\ IsTip(x)
          /\ thread' = [thread EXCEPT ![t] =
                [thread[t] EXCEPT !.tip = x,
                    !.pc = IF thread[t].pc = "idle" THEN "linking" ELSE "attesting"]]
  BY DEF SelectTip
<1>2. x = last
  BY <1>1, TipIsLast DEF AuditInv
<1>3. \A u \in Thread : ~InTransaction(u)
  BY DEF SelectTip, LockFree, OneHost
<1> DEFINE moved == [thread[t] EXCEPT !.tip = x,
                       !.pc = IF thread[t].pc = "idle" THEN "linking" ELSE "attesting"]
<1>a. thread' = [thread EXCEPT ![t] = moved]
  BY <1>1
<1>b. thread[t] \in ThreadType
  BY DEF AuditInv, AuditTypeOK, ThreadType
<1>c. /\ moved \in ThreadType /\ moved.tip = x /\ moved.cut = thread[t].cut
      /\ moved.pc \in {"linking", "attesting"}
      /\ moved.pc = "attesting" => thread[t].pc = "bounded"
  BY <1>b DEF ThreadType, SelectTip
<1> HIDE DEF moved
<1>4. AuditTypeOK'
  BY <1>a, <1>c, MoveTyped DEF AuditInv, AuditTypeOK, SelectTip
<1>5. Suffix' /\ Linked' /\ StartAttested' /\ TrimsAreAttested'
  BY DEF AuditInv, SelectTip, Suffix, Linked, StartAttested, TrimsAreAttested
<1>d. \A u \in Thread : thread'[u] = IF u = t THEN moved ELSE thread[u]
  BY <1>a DEF AuditInv, AuditTypeOK
<1>6. LockHeld'
  BY <1>2, <1>3, <1>c, <1>d DEF SelectTip, LockHeld, InTransaction
<1>7. CutsMade'
  BY <1>c, <1>d DEF AuditInv, SelectTip, CutsMade
<1> QED  BY <1>4, <1>5, <1>6, <1>7 DEF AuditInv

\* An insert by the thread that holds the lock extends the chain by one link.
LEMMA AppendKeepsChain ==
    ASSUME AuditInv, NEW t \in Thread, InTransaction(t),
           NEW k \in 0 .. MaxEntries, AppendEntry(t, k)
    PROVE  /\ log' \subseteq EntryIds /\ last' \in 0 .. MaxEntries
           /\ prev' \in [EntryIds -> 0 .. MaxEntries]
           /\ attests' \in [EntryIds -> 0 .. MaxEntries]
           /\ Suffix' /\ Linked' /\ StartAttested' /\ TrimsAreAttested'
           /\ \A r \in log : attests'[r] = attests[r]
           /\ last + 1 \in log' /\ attests'[last + 1] = k
<1>1. /\ thread[t].tip = last /\ last \in Nat /\ last < MaxEntries
      /\ last + 1 \in EntryIds /\ last + 1 \notin log
  BY BoundAssumption DEF AuditInv, AuditTypeOK, LockHeld, Suffix, EntryIds, AppendEntry
<1>2. /\ last' = last + 1 /\ log' = log \cup {last + 1}
      /\ prev' = [prev EXCEPT ![last + 1] = last]
      /\ attests' = [attests EXCEPT ![last + 1] = k]
  BY <1>1 DEF AppendEntry
<1>3. /\ log' \subseteq EntryIds /\ last' \in 0 .. MaxEntries
      /\ prev' \in [EntryIds -> 0 .. MaxEntries]
      /\ attests' \in [EntryIds -> 0 .. MaxEntries]
  BY <1>1, <1>2, BoundAssumption DEF AuditInv, AuditTypeOK
<1>4. \A r \in log : attests'[r] = attests[r] /\ prev'[r] = prev[r]
  BY <1>1, <1>2 DEF AuditInv, AuditTypeOK
<1>5. attests'[last + 1] = k /\ prev'[last + 1] = last
  BY <1>1, <1>2 DEF AuditInv, AuditTypeOK
<1>6. Suffix'
  BY <1>1, <1>2 DEF AuditInv, Suffix
<1>7. Linked'
  BY <1>1, <1>2, <1>4, <1>5 DEF AuditInv, Linked
<1>8. StartAttested'
  <2> SUFFICES ASSUME NEW s \in log', s # 1, s - 1 \notin log'
               PROVE  \E r \in log' : attests'[r] = s - 1
    BY DEF StartAttested
  <2>1. s \in log
    BY <1>1, <1>2 DEF AuditInv, Suffix
  <2>2. PICK r \in log : attests[r] = s - 1
    BY <1>2, <2>1 DEF AuditInv, StartAttested
  <2> QED  BY <1>2, <1>4, <2>2
<1>9. TrimsAreAttested'
  <2> SUFFICES ASSUME NEW s \in 1 .. last', s \notin log'
               PROVE  \E r \in log' : attests'[r] >= s
    BY DEF TrimsAreAttested
  <2>1. s \in 1 .. last /\ s \notin log
    BY <1>1, <1>2
  <2>2. PICK r \in log : attests[r] >= s
    BY <2>1 DEF AuditInv, TrimsAreAttested
  <2> QED  BY <1>2, <1>4, <2>2
<1> QED  BY <1>2, <1>3, <1>4, <1>5, <1>6, <1>7, <1>8, <1>9

LEMMA StepInsertEvent ==
    ASSUME AuditInv, NEW t \in Thread, InsertEvent(t) PROVE AuditInv'
<1>1. InTransaction(t) /\ AppendEntry(t, 0) /\ 0 \in 0 .. MaxEntries
  BY BoundAssumption DEF InsertEvent, InTransaction
<1> DEFINE Kept == \A r \in log : attests'[r] = attests[r]
<1>2. /\ log' \subseteq EntryIds /\ last' \in 0 .. MaxEntries
      /\ prev' \in [EntryIds -> 0 .. MaxEntries]
      /\ attests' \in [EntryIds -> 0 .. MaxEntries]
      /\ Suffix' /\ Linked' /\ StartAttested' /\ TrimsAreAttested'
      /\ Kept
  BY <1>1, AppendKeepsChain
<1>3. AuditTypeOK'
  BY <1>2, BoundAssumption DEF AuditInv, AuditTypeOK, InsertEvent, AtRest, Genesis
<1>4. \A u \in Thread : ~InTransaction(u)'
  BY <1>1 DEF AuditInv, AuditTypeOK, LockHeld, InsertEvent, InTransaction, AtRest
<1>5. LockHeld'
  BY <1>4 DEF LockHeld
<1>6. CutsMade'
  BY <1>1, <1>2 DEF AuditInv, AuditTypeOK, CutsMade, InsertEvent, AppendEntry, AtRest, Suffix
<1> QED  BY <1>2, <1>3, <1>5, <1>6 DEF AuditInv

LEMMA StepInsertRetention ==
    ASSUME AuditInv, NEW t \in Thread, InsertRetention(t) PROVE AuditInv'
<1> DEFINE c == thread[t].cut
<1>1. InTransaction(t) /\ AppendEntry(t, c) /\ c \in 0 .. MaxEntries /\ c \in 1 .. last
  BY BoundAssumption DEF InsertRetention, InTransaction, AuditInv, AuditTypeOK, CutsMade
<1>2. /\ log' \subseteq EntryIds /\ last' \in 0 .. MaxEntries
      /\ prev' \in [EntryIds -> 0 .. MaxEntries]
      /\ attests' \in [EntryIds -> 0 .. MaxEntries]
      /\ Suffix' /\ Linked' /\ StartAttested' /\ TrimsAreAttested'
      /\ \A r \in log : attests'[r] = attests[r]
      /\ last + 1 \in log' /\ attests'[last + 1] = c
  BY <1>1, AppendKeepsChain
<1>3. thread' = [thread EXCEPT ![t] = [AtRest EXCEPT !.pc = "attested", !.cut = c]]
  BY DEF InsertRetention
<1>a. [AtRest EXCEPT !.pc = "attested", !.cut = c] \in ThreadType
  BY <1>1, AtRestTyped DEF ThreadType, AtRest
<1>4. AuditTypeOK'
  BY <1>2, <1>3, <1>a, MoveTyped DEF AuditInv
<1>5. \A u \in Thread : ~InTransaction(u)'
  BY <1>1, <1>3 DEF AuditInv, AuditTypeOK, LockHeld, InTransaction, AtRest
<1>6. LockHeld'
  BY <1>5 DEF LockHeld
<1>7. CutsMade'
  <2> SUFFICES ASSUME NEW u \in Thread PROVE
        /\ thread'[u].pc \in {"bounded", "attesting", "attested"} => thread'[u].cut \in 1 .. last'
        /\ thread'[u].pc = "attested" /\ thread'[u].cut \in log' =>
              \E r \in log' : r > thread'[u].cut /\ attests'[r] = thread'[u].cut
    BY DEF CutsMade
  <2>1. last' = last + 1 /\ log' = log \cup {last + 1} /\ last \in Nat
    BY <1>1 DEF AppendEntry, AuditInv, AuditTypeOK
  <2>2. CASE u = t
    <3>1. thread'[u].pc = "attested" /\ thread'[u].cut = c
      BY <1>3, <2>2 DEF AuditInv, AuditTypeOK, AtRest
    <3> HIDE DEF c
    <3> QED  BY <1>1, <1>2, <2>1, <3>1
  <2>3. CASE u # t
    <3>1. thread'[u] = thread[u]
      BY <1>3, <2>3 DEF AuditInv, AuditTypeOK
    <3>2. /\ thread[u].pc \in {"bounded", "attesting", "attested"} => thread[u].cut \in 1 .. last
          /\ thread[u].pc = "attested" /\ thread[u].cut \in log =>
                \E r \in log : r > thread[u].cut /\ attests[r] = thread[u].cut
      BY DEF AuditInv, CutsMade
    <3> QED  BY <1>2, <2>1, <3>1, <3>2
  <2> QED  BY <2>2, <2>3
<1> QED  BY <1>2, <1>4, <1>6, <1>7 DEF AuditInv

LEMMA StepSelectBoundary ==
    ASSUME AuditInv, NEW t \in Thread, SelectBoundary(t) PROVE AuditInv'
<1>1. PICK b \in log :
          thread' = [thread EXCEPT ![t] = [AtRest EXCEPT !.pc = "bounded", !.cut = b]]
  BY DEF SelectBoundary
<1>2. b \in 1 .. last /\ b \in 0 .. MaxEntries
  BY BoundAssumption DEF AuditInv, AuditTypeOK, Suffix, EntryIds
<1>a. [AtRest EXCEPT !.pc = "bounded", !.cut = b] \in ThreadType
  BY <1>2, AtRestTyped DEF ThreadType, AtRest
<1>3. AuditTypeOK'
  BY <1>1, <1>a, MoveTyped DEF AuditInv, AuditTypeOK, SelectBoundary
<1>4. Suffix' /\ Linked' /\ StartAttested' /\ TrimsAreAttested'
  BY DEF AuditInv, SelectBoundary, Suffix, Linked, StartAttested, TrimsAreAttested
<1>5. LockHeld'
  BY <1>1 DEF AuditInv, AuditTypeOK, SelectBoundary, LockHeld, InTransaction, AtRest
<1>6. CutsMade'
  BY <1>1, <1>2 DEF AuditInv, AuditTypeOK, SelectBoundary, CutsMade, AtRest
<1> QED  BY <1>3, <1>4, <1>5, <1>6 DEF AuditInv

\* A prune deletes up to a boundary that is gone already, or that its own entry, which
\* is above it, still attests.
LEMMA StepDeletePrefix ==
    ASSUME AuditInv, NEW t \in Thread, DeletePrefix(t) PROVE AuditInv'
<1> DEFINE c == thread[t].cut
<1>1. /\ thread[t].pc = "attested" /\ c \in 1 .. last
      /\ log' = {s \in log : s > c}
      /\ thread' = [thread EXCEPT ![t] = AtRest]
      /\ last' = last /\ prev' = prev /\ attests' = attests
      /\ last \in Nat /\ log \subseteq 1 .. last
  BY DEF DeletePrefix, AuditInv, CutsMade, AuditTypeOK, Suffix
<1>2. c \in log => \E r \in log : r > c /\ attests[r] = c
  BY <1>1 DEF AuditInv, CutsMade
<1>3. \A s \in log : \A u \in 1 .. last : s <= u => u \in log
  BY DEF AuditInv, Suffix
<1>4. AuditTypeOK'
  <2>1. log' \subseteq EntryIds
    BY <1>1 DEF AuditInv, AuditTypeOK
  <2> QED  BY <1>1, <2>1, AtRestTyped, MoveTyped DEF AuditInv, AuditTypeOK
<1> HIDE DEF c
<1>5. c \notin log => log' = log
  <2> SUFFICES ASSUME c \notin log, NEW s \in log PROVE s > c
    BY <1>1
  <2>1. s \in 1 .. last
    BY <1>1
  <2> QED  BY <1>1, <1>3, <2>1
<1>6. Suffix'
  <2>1. CASE c \in log
    <3>1. PICK r \in log : r > c
      BY <1>2, <2>1
    <3>2. r \in 1 .. last /\ last \in 1 .. last /\ last > c
      BY <1>1, <3>1
    <3>3. last \in log'
      BY <1>1, <1>3, <3>2
    <3>4. log' \subseteq 1 .. last
      BY <1>1
    <3>5. ASSUME NEW s \in log', NEW u \in 1 .. last, s <= u PROVE u \in log'
      BY <1>1, <1>3, <3>5
    <3> QED  BY <1>1, <3>3, <3>4, <3>5 DEF Suffix
  <2>2. CASE c \notin log
    BY <1>1, <1>5, <2>2 DEF AuditInv, Suffix
  <2> QED  BY <2>1, <2>2
<1>7. Linked'
  BY <1>1 DEF AuditInv, Linked
<1>8. StartAttested'
  <2>1. CASE c \in log
    <3> SUFFICES ASSUME NEW s \in log', s - 1 \notin log'
                 PROVE  \E r \in log' : attests'[r] = s - 1
      BY DEF StartAttested
    <3>1. s - 1 = c
      BY <1>1, <1>3, <2>1
    <3> QED  BY <1>1, <1>2, <2>1, <3>1
  <2>2. CASE c \notin log
    BY <1>1, <1>5, <2>2 DEF AuditInv, StartAttested
  <2> QED  BY <2>1, <2>2
<1>9. TrimsAreAttested'
  <2>1. CASE c \in log
    BY <1>1, <1>2, <1>3, <2>1 DEF TrimsAreAttested
  <2>2. CASE c \notin log
    BY <1>1, <1>5, <2>2 DEF AuditInv, TrimsAreAttested
  <2> QED  BY <2>1, <2>2
<1>10. LockHeld'
  BY <1>1 DEF AuditInv, AuditTypeOK, LockHeld, InTransaction, AtRest
<1>11. CutsMade'
  <2> SUFFICES ASSUME NEW u \in Thread PROVE
        /\ thread'[u].pc \in {"bounded", "attesting", "attested"} => thread'[u].cut \in 1 .. last
        /\ thread'[u].pc = "attested" /\ thread'[u].cut \in log' =>
              \E r \in log' : r > thread'[u].cut /\ attests[r] = thread'[u].cut
    BY <1>1 DEF CutsMade
  <2>1. CASE u = t
    BY <1>1, <2>1 DEF AuditInv, AuditTypeOK, AtRest
  <2>2. CASE u # t
    <3>1. thread'[u] = thread[u]
      BY <1>1, <2>2 DEF AuditInv, AuditTypeOK
    <3>2. /\ thread[u].pc \in {"bounded", "attesting", "attested"} => thread[u].cut \in 1 .. last
          /\ thread[u].pc = "attested" /\ thread[u].cut \in log =>
                \E r \in log : r > thread[u].cut /\ attests[r] = thread[u].cut
      BY DEF AuditInv, CutsMade
    <3> QED  BY <1>1, <3>1, <3>2
  <2> QED  BY <2>1, <2>2
<1> QED  BY <1>4, <1>6, <1>7, <1>8, <1>9, <1>10, <1>11 DEF AuditInv

LEMMA StepCrash ==
    ASSUME AuditInv, NEW h \in Host, HostCrash(h) PROVE AuditInv'
<1>1. AuditTypeOK'
  BY BoundAssumption DEF AuditInv, AuditTypeOK, HostCrash, AtRest, Genesis
<1>2. Suffix' /\ Linked' /\ StartAttested' /\ TrimsAreAttested'
  BY DEF AuditInv, HostCrash, Suffix, Linked, StartAttested, TrimsAreAttested
<1>3. LockHeld'
  BY DEF AuditInv, HostCrash, LockHeld, InTransaction, AtRest
<1>4. CutsMade'
  BY DEF AuditInv, HostCrash, CutsMade, AtRest
<1> QED  BY <1>1, <1>2, <1>3, <1>4 DEF AuditInv
-----------------------------------------------------------------------------
\* The invariant is inductive for the threads of one process.
THEOREM AuditInductive == ASSUME OneHost PROVE AuditSpec => []AuditInv
<1>1. AuditInit => AuditInv
  BY BoundAssumption DEF AuditInit, AuditInv, AuditTypeOK, Suffix, Linked, StartAttested,
     TrimsAreAttested, LockHeld, CutsMade, InTransaction, AtRest, Genesis, EntryIds
<1>2. AuditInv /\ [AuditNext]_auditVars => AuditInv'
  <2> SUFFICES ASSUME AuditInv, [AuditNext]_auditVars PROVE AuditInv'
    OBVIOUS
  <2>1. ASSUME NEW t \in Thread, SelectTip(t) PROVE AuditInv'
    BY <2>1, StepSelectTip
  <2>2. ASSUME NEW t \in Thread, InsertEvent(t) PROVE AuditInv'
    BY <2>2, StepInsertEvent
  <2>3. ASSUME NEW t \in Thread, SelectBoundary(t) PROVE AuditInv'
    BY <2>3, StepSelectBoundary
  <2>4. ASSUME NEW t \in Thread, InsertRetention(t) PROVE AuditInv'
    BY <2>4, StepInsertRetention
  <2>5. ASSUME NEW t \in Thread, DeletePrefix(t) PROVE AuditInv'
    BY <2>5, StepDeletePrefix
  <2>6. ASSUME NEW h \in Host, HostCrash(h) PROVE AuditInv'
    BY <2>6, StepCrash
  <2>7. CASE UNCHANGED auditVars
    BY <2>7 DEF auditVars, AuditInv, AuditTypeOK, Suffix, Linked, StartAttested, TrimsAreAttested,
       LockHeld, CutsMade, InTransaction
  <2> QED  BY <2>1, <2>2, <2>3, <2>4, <2>5, <2>6, <2>7 DEF AuditNext
<1> QED  BY <1>1, <1>2, PTL DEF AuditSpec

\* Every reachable state is well typed.
THEOREM AuditTypeCorrect == ASSUME OneHost PROVE AuditSpec => []AuditTypeOK
<1>1. AuditInv => AuditTypeOK  BY DEF AuditInv
<1> QED  BY <1>1, AuditInductive, PTL

\* In one process nothing the log does to itself breaks its chain (append, prune and
\* verify of durable/audit.py).
THEOREM ChainAlwaysVerifies == ASSUME OneHost PROVE AuditSpec => []ChainVerifies
<1>1. AuditInv => ChainVerifies  BY InvariantVerifies
<1> QED  BY <1>1, AuditInductive, PTL

\* What a prune removed is named by an entry that outlives it.
THEOREM TrimsStayAttested == ASSUME OneHost PROVE AuditSpec => []TrimsAreAttested
<1>1. AuditInv => TrimsAreAttested  BY DEF AuditInv
<1> QED  BY <1>1, AuditInductive, PTL
=============================================================================
