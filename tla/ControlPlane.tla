---------------------------- MODULE ControlPlane ----------------------------
(***************************************************************************)
(* The worker control plane (worker/control_plane.py), the leases it signs *)
(* (worker/leases.py, worker/ledger.py), the workers that verify them      *)
(* (worker/worker.py, worker/http.py, worker/local_agent.py) and the       *)
(* executor and job dispatcher that ask it for work (skills/remote.py,     *)
(* marketplace/jobdispatch.py).                                            *)
(*                                                                         *)
(* The control plane takes no lock, so a dispatch is four steps of its     *)
(* caller's thread, between which other threads run: choose a worker,      *)
(* append the assignment, read the worker's load, write it raised.  So is  *)
(* a report: read the load, write it lowered, count the failure, judge.    *)
(* What another thread wrote between a read and its write is lost.         *)
(* A posted assignment travels over HTTP: it may be lost, late or          *)
(* repeated, and its caller may time out.  A token is the lease it signs:  *)
(* signatures are not broken.  Whether a lease has expired is read from    *)
(* the clock of the host that verifies it, of which nothing is known.      *)
(***************************************************************************)
EXTENDS Integers, Sequences, FiniteSets

CONSTANTS
    Workers,      \* registered worker ids
    Polled,       \* those behind a LocalAgent, which polls; the others take POSTs
    Servers,      \* threads in which workers execute
    Host,         \* the worker a server thread belongs to
    Callers,      \* threads that dispatch
    Posting,      \* those that post their assignment (RemoteWorkerActionExecutor)
    Keys,         \* idempotency keys
    Capacity,     \* max_concurrency, the same for every worker
    Threshold,    \* failure_quarantine_threshold
    MaxLeases, MaxFaults, \* bounds
    None

ASSUME WorkersAssumption ==
    /\ Polled \subseteq Workers /\ Posting \subseteq Callers
    /\ IsFiniteSet(Workers) /\ IsFiniteSet(Callers)
    /\ Host \in [Servers -> Workers]
    /\ None \notin Workers \cup Keys
ASSUME NumbersAssumption ==
    /\ Capacity \in Nat \ {0} /\ Threshold \in Nat \ {0}
    /\ MaxLeases \in Nat /\ MaxFaults \in Nat

Leases == 1 .. MaxLeases

VARIABLES
    \* ControlPlane
    healthy,      \* workers whose last heartbeat said so
    quarantined,  \* worker ids that get no more work
    load,         \* worker -> assignments believed unfinished
    failures,     \* worker -> failures in a row
    pending,      \* worker -> leases to be polled
    counted,      \* leases whose dispatch has returned: counted, cancellable
    \* the ledgers
    revoked,      \* the control plane's
    consumed,     \* the workers'
    \* leases, callers, network, servers
    lease,        \* lease -> who it is for, for which key
    call,         \* caller -> where its dispatch is
    byKey,        \* _task_by_key
    completed,    \* _completed: keys whose success is cached
    posted,       \* leases whose POST was sent: it can arrive, and arrive again
    answer,       \* lease -> what its waiting POST was answered
    serve,        \* server -> the lease it verifies or runs
    report,       \* lease -> where the report of its result is
    faults,       \* ledgers lost
    \* history
    ran,          \* lease -> executions begun
    forgot,       \* lease -> deaths after which its worker no longer knew it was consumed
    stopped,      \* leases revoked before any server had asked about them
    raisesLost,   \* worker -> raises of its load that a stale write undid
    dropsLost     \* worker -> lowerings that a stale write undid

registry  == <<load, failures, quarantined, report, raisesLost, dropsLost>>
planeVars == <<healthy, pending, counted, registry>>
callVars  == <<call, byKey, completed, posted>>
history   == <<ran, forgot, stopped>>
vars == <<planeVars, revoked, consumed, lease, callVars, answer, serve, faults, history>>

NoLease  == [worker |-> None, key |-> None]
NoCall   == [pc |-> "idle", key |-> None, worker |-> None, lease |-> 0, ok |-> FALSE, seen |-> 0]
Free     == [pc |-> "free", lease |-> 0]
NoReport == [pc |-> "none", ok |-> FALSE, seen |-> 0]

TypeOK ==
    /\ healthy \subseteq Workers /\ quarantined \subseteq Workers
    /\ load \in [Workers -> Nat] /\ failures \in [Workers -> Nat]
    /\ pending \in [Workers -> Seq(Leases)]
    /\ counted \subseteq Leases /\ revoked \subseteq Leases /\ consumed \subseteq Leases
    /\ lease \in [Leases -> [worker : Workers \cup {None}, key : Keys \cup {None}]]
    /\ call \in [Callers -> [pc : {"idle", "append", "count", "raise", "post", "wait", "report",
                                   "finish"},
                             key : Keys \cup {None}, worker : Workers \cup {None},
                             lease : 0 .. MaxLeases, ok : BOOLEAN, seen : Nat]]
    /\ byKey \in [Keys -> 0 .. MaxLeases]
    /\ completed \subseteq Keys /\ posted \subseteq Leases
    /\ answer \in [Leases -> {"none", "ok", "bad"}]
    /\ serve \in [Servers -> [pc : {"free", "ask", "consume", "run", "done", "refused", "report"},
                              lease : 0 .. MaxLeases]]
    /\ report \in [Leases -> [pc : {"none", "lower", "fail", "judge", "done"},
                              ok : BOOLEAN, seen : Nat]]
    /\ faults \in 0 .. MaxFaults
    /\ ran \in [Leases -> Nat] /\ forgot \in [Leases -> Nat] /\ stopped \subseteq Leases
    /\ raisesLost \in [Workers -> Nat] /\ dropsLost \in [Workers -> Nat]

Init ==
    /\ healthy = Workers /\ quarantined = {} /\ load = [w \in Workers |-> 0] /\ failures = [w \in Workers |-> 0]
    /\ pending = [w \in Workers |-> <<>>] /\ counted = {}
    /\ revoked = {} /\ consumed = {}
    /\ lease = [l \in Leases |-> NoLease]
    /\ call = [c \in Callers |-> NoCall] /\ byKey = [k \in Keys |-> 0]
    /\ completed = {} /\ posted = {}
    /\ answer = [l \in Leases |-> "none"]
    /\ serve = [s \in Servers |-> Free]
    /\ report = [l \in Leases |-> NoReport]
    /\ faults = 0
    /\ ran = [l \in Leases |-> 0] /\ forgot = [l \in Leases |-> 0] /\ stopped = {}
    /\ raisesLost = [w \in Workers |-> 0] /\ dropsLost = [w \in Workers |-> 0]
-----------------------------------------------------------------------------
\* DISPATCH, in the caller's thread

CallAt(c, pc) == call[c].pc = pc
CallGoes(c, pc) == call' = [call EXCEPT ![c].pc = pc]
CallEnds(c) == call' = [call EXCEPT ![c] = NoCall]

\* available_capacity(w) > 0
HasRoom(w) == load[w] < Capacity

\* A job's capability is held by the polled workers, an action's by the others.
Capable(c) == IF c \in Posting THEN Workers \ Polled ELSE Polled

EligibleQuarantined(c) == {w \in Capable(c) : w \in healthy /\ HasRoom(w)}

Eligible(c) == {w \in Capable(c) : w \in healthy /\ w \notin quarantined /\ HasRoom(w)}

\* _select_worker: the least loaded eligible worker.  An execution whose key has
\* succeeded is answered from the cache; without a worker the caller is told BLOCKED.
Select(c) ==
    /\ CallAt(c, "idle")
    /\ \E k \in IF c \in Posting THEN Keys \ completed ELSE {None}, w \in Eligible(c) :
          /\ \A v \in Eligible(c) : load[w] <= load[v]
          /\ call' = [call EXCEPT ![c] = [pc |-> "append", key |-> k, worker |-> w,
                                          lease |-> 0, ok |-> FALSE, seen |-> 0]]
    /\ UNCHANGED <<planeVars, revoked, consumed, lease, byKey, completed, posted, answer,
                   serve, faults, history>>

\* The lease is signed and its assignment appended to the worker's queue.
AppendAssignment(c) ==
    /\ CallAt(c, "append")
    /\ \E l \in Leases :
          /\ lease[l] = NoLease
          /\ \A m \in Leases : m < l => lease[m] # NoLease
          /\ lease' = [lease EXCEPT ![l] = [worker |-> call[c].worker, key |-> call[c].key]]
          /\ pending' = [pending EXCEPT ![call[c].worker] = Append(pending[call[c].worker], l)]
          /\ call' = [call EXCEPT ![c].pc = "count", ![c].lease = l]
    /\ UNCHANGED <<healthy, counted, registry, revoked, consumed, byKey, completed,
                   posted, answer, serve, faults, history>>

\* The load is read,
Count(c) ==
    /\ CallAt(c, "count")
    /\ call' = [call EXCEPT ![c].pc = "raise", ![c].seen = load[call[c].worker]]
    /\ UNCHANGED <<planeVars, revoked, consumed, lease, byKey, completed, posted, answer, serve,
                   faults, history>>

Excess(m, n) == IF m > n THEN m - n ELSE 0

\* What a write of w's load, after a read that saw another value, undoes.
Loses(w, seen) ==
    /\ raisesLost' = [raisesLost EXCEPT ![w] = raisesLost[w] + Excess(load[w], seen)]
    /\ dropsLost' = [dropsLost EXCEPT ![w] = dropsLost[w] + Excess(seen, load[w])]

\* and written raised; the task becomes cancellable, and a job's dispatch ends here.
Raise(c) ==
    /\ CallAt(c, "raise")
    /\ load' = [load EXCEPT ![call[c].worker] = call[c].seen + 1]
    /\ Loses(call[c].worker, call[c].seen)
    /\ counted' = counted \cup {call[c].lease}
    /\ IF c \in Posting THEN call' = [call EXCEPT ![c].pc = "post", ![c].seen = 0]
                         ELSE CallEnds(c)
    /\ UNCHANGED <<healthy, quarantined, failures, pending, report, revoked, consumed, lease, byKey,
                   completed, posted, answer, serve, faults, history>>

\* transport.send: the task is filed under its key, then the request leaves.
Post(c) ==
    /\ CallAt(c, "post")
    /\ byKey' = [byKey EXCEPT ![call[c].key] = call[c].lease]
    /\ posted' = posted \cup {call[c].lease}
    /\ CallGoes(c, "wait")
    /\ UNCHANGED <<planeVars, revoked, consumed, lease, completed, answer, serve, faults,
                   history>>

\* The answer arrives, or the request times out: a failure to the caller either way.
Hear(c) ==
    /\ CallAt(c, "wait")
    /\ answer[call[c].lease] # "none"
    /\ call' = [call EXCEPT ![c].pc = "report", ![c].ok = (answer[call[c].lease] = "ok")]
    /\ answer' = [answer EXCEPT ![call[c].lease] = "none"]
    /\ UNCHANGED <<planeVars, revoked, consumed, lease, byKey, completed, posted, serve, faults,
                   history>>

TimeOut(c) ==
    /\ CallAt(c, "wait")
    /\ call' = [call EXCEPT ![c].pc = "report", ![c].ok = FALSE]
    /\ answer' = [answer EXCEPT ![call[c].lease] = "none"]
    /\ UNCHANGED <<planeVars, revoked, consumed, lease, byKey, completed, posted, serve, faults,
                   history>>
-----------------------------------------------------------------------------
\* report_result, in the thread that reports

Less(n) == IF n = 0 THEN 0 ELSE n - 1

\* The load is read.
ReportRead(l, ok) ==
    /\ report' = [report EXCEPT ![l] = [pc |-> "lower", ok |-> ok, seen |-> load[lease[l].worker]]]
    /\ UNCHANGED <<load, failures, quarantined, raisesLost, dropsLost>>

CallerReports(c) ==
    /\ CallAt(c, "report")
    /\ ReportRead(call[c].lease, call[c].ok)
    /\ CallGoes(c, "finish")
    /\ UNCHANGED <<healthy, pending, counted, revoked, consumed, lease, byKey, completed, posted,
                   answer, serve, faults, history>>

ReportAt(l, pc) == report[l].pc = pc
ReportGoes(l, pc, seen) == report' = [report EXCEPT ![l] = [NoReport EXCEPT !.pc = pc, !.seen = seen]]
PlaneStays ==
    UNCHANGED <<healthy, pending, counted, revoked, consumed, lease, callVars, answer, serve, faults,
               history>>

\* Mutant: a failure lowers the load twice.
LowerTwice(l) ==
    /\ ReportAt(l, "lower")
    /\ LET w == lease[l].worker
           n == Less(report[l].seen)
       IN  /\ load' = [load EXCEPT ![w] = IF report[l].ok THEN n ELSE Less(n)]
           /\ Loses(w, report[l].seen)
           /\ IF report[l].ok
              THEN failures' = [failures EXCEPT ![w] = 0] /\ ReportGoes(l, "done", 0)
              ELSE UNCHANGED failures /\ ReportGoes(l, "fail", failures[w])
    /\ UNCHANGED quarantined /\ PlaneStays

\* The load is written lowered; then a success clears the failures, and a failure reads
\* them.  (No other step reads a load and a failure count, so the two go together.)
Lower(l) ==
    /\ ReportAt(l, "lower")
    /\ LET w == lease[l].worker
       IN  /\ load' = [load EXCEPT ![w] = Less(report[l].seen)]
           /\ Loses(w, report[l].seen)
           /\ IF report[l].ok
              THEN failures' = [failures EXCEPT ![w] = 0] /\ ReportGoes(l, "done", 0)
              ELSE UNCHANGED failures /\ ReportGoes(l, "fail", failures[w])
    /\ UNCHANGED quarantined /\ PlaneStays

\* One failure more than was read is written,
Fail(l) ==
    /\ ReportAt(l, "fail")
    /\ failures' = [failures EXCEPT ![lease[l].worker] = report[l].seen + 1]
    /\ ReportGoes(l, "judge", 0)
    /\ UNCHANGED <<load, quarantined, raisesLost, dropsLost>> /\ PlaneStays

\* and the failures there are by now decide.
Judge(l) ==
    /\ ReportAt(l, "judge")
    /\ LET w == lease[l].worker
       IN  quarantined' = IF failures[w] >= Threshold THEN quarantined \cup {w} ELSE quarantined
    /\ ReportGoes(l, "done", 0)
    /\ UNCHANGED <<load, failures, raisesLost, dropsLost>> /\ PlaneStays

\* _finish: only a success is cached.
Finish(c) ==
    /\ CallAt(c, "finish") /\ ReportAt(call[c].lease, "done")
    /\ completed' = IF call[c].ok THEN completed \cup {call[c].key} ELSE completed
    /\ CallEnds(c)
    /\ UNCHANGED <<planeVars, revoked, consumed, lease, byKey, posted, answer, serve, faults,
                   history>>
-----------------------------------------------------------------------------
\* CANCELLATION: the lease is revoked, and the load stays

\* A server has had its answer about the lease, or is running it.
InHand(l) == \E s \in Servers : serve[s].pc \in {"consume", "run"} /\ serve[s].lease = l

Revoke(l) ==
    /\ revoked' = revoked \cup {l}
    /\ stopped' = IF ran[l] = 0 /\ ~InHand(l) THEN stopped \cup {l} ELSE stopped
    /\ UNCHANGED <<planeVars, consumed, lease, callVars, answer, serve, faults, ran, forgot>>

\* RemoteWorkerActionExecutor.cancel, by key; ControlPlane.cancel, by task.
CancelKey(k) == byKey[k] \in counted /\ Revoke(byKey[k])
CancelTask(l) == l \in counted /\ lease[l].worker \in Polled /\ Revoke(l)
-----------------------------------------------------------------------------
\* WORKERS: LeaseVerifier.verify, Worker.execute

ServerAt(s, pc) == serve[s].pc = pc
ServerGoes(s, pc) == serve' = [serve EXCEPT ![s].pc = pc]

\* The request gets one answer, if its caller still waits: any other goes to nobody.
Awaited(l) == answer[l] = "none" /\ \E c \in Callers : CallAt(c, "wait") /\ call[c].lease = l
Reply(l, a) == answer' = [answer EXCEPT ![l] = IF Awaited(l) THEN a ELSE answer[l]]

\* What the server does with a lease it will not run, or has run.
Answers(s, a) ==
    IF Host[s] \in Polled
    THEN ServerGoes(s, IF a = "ok" THEN "done" ELSE "refused") /\ UNCHANGED answer
    ELSE /\ serve' = [serve EXCEPT ![s] = Free]
         /\ Reply(serve[s].lease, a)

\* LeaseVerifier.verify, before it asks: the audience, and the clock.
Addressed(s, l) == lease[l].worker = Host[s]

\* A POST arrives, for the first time or again, at a worker that may not be its
\* audience (a shared base_url), or after the lease has expired.
Arrive(s) ==
    /\ ServerAt(s, "free") /\ Host[s] \notin Polled
    /\ \E l \in posted :
          \/ /\ Addressed(s, l)
             /\ serve' = [serve EXCEPT ![s] = [pc |-> "ask", lease |-> l]]
             /\ UNCHANGED answer
          \/ Reply(l, "bad") /\ UNCHANGED serve
    /\ UNCHANGED <<planeVars, revoked, consumed, lease, callVars, faults, history>>

\* LocalAgent.run_once: the oldest assignment leaves the queue; it has expired or not, or
\* is lost, when the agent does not hold the credential it names (a KeyError that nobody
\* catches).
Poll(s) ==
    /\ ServerAt(s, "free") /\ Host[s] \in Polled
    /\ pending[Host[s]] # <<>>
    /\ LET l == Head(pending[Host[s]])
       IN  \/ Addressed(s, l) /\ serve' = [serve EXCEPT ![s] = [pc |-> "ask", lease |-> l]]
           \/ serve' = [serve EXCEPT ![s] = [pc |-> "refused", lease |-> l]]
           \/ UNCHANGED serve
    /\ pending' = [pending EXCEPT ![Host[s]] = Tail(pending[Host[s]])]
    /\ UNCHANGED <<healthy, counted, registry, revoked, consumed, lease, callVars, answer, faults,
                   history>>

\* Mutant: an authority that cannot be reached is taken for a no.
AskFailOpen(s) ==
    /\ ServerAt(s, "ask")
    /\ ServerGoes(s, "consume")
    /\ UNCHANGED <<planeVars, revoked, consumed, lease, callVars, answer, faults, history>>

\* is_revoked, answered by the control plane; fail-closed when it cannot be reached.
Ask(s) ==
    /\ ServerAt(s, "ask")
    /\ \/ serve[s].lease \notin revoked /\ ServerGoes(s, "consume") /\ UNCHANGED answer
       \/ Answers(s, "bad")          \* revoked, or the authority is out of reach
    /\ UNCHANGED <<planeVars, revoked, consumed, lease, callVars, faults, history>>

\* Mutant: a replay is recorded and run again.
ConsumeAgain(s) ==
    /\ ServerAt(s, "consume")
    /\ consumed' = consumed \cup {serve[s].lease}
    /\ ran' = [ran EXCEPT ![serve[s].lease] = ran[serve[s].lease] + 1]
    /\ ServerGoes(s, "run")
    /\ UNCHANGED <<planeVars, revoked, lease, callVars, answer, faults, forgot, stopped>>

\* consume, then the isolation policy, then the run begins.
Consume(s) ==
    /\ ServerAt(s, "consume")
    /\ LET l == serve[s].lease
       IN  IF l \in consumed
           THEN Answers(s, "bad") /\ UNCHANGED <<consumed, ran>>
           ELSE /\ consumed' = consumed \cup {l}
                /\ \/ /\ ran' = [ran EXCEPT ![l] = ran[l] + 1]
                      /\ ServerGoes(s, "run")
                      /\ UNCHANGED answer
                   \/ Answers(s, "bad") /\ UNCHANGED ran       \* IsolationViolation
    /\ UNCHANGED <<planeVars, revoked, lease, callVars, faults, forgot, stopped>>

\* The run succeeds or fails; or it raises what the agent does not catch, and is reported
\* by nobody.
RunEnds(s) ==
    /\ ServerAt(s, "run")
    /\ \/ \E a \in {"ok", "bad"} : Answers(s, a)
       \/ Host[s] \in Polled /\ serve' = [serve EXCEPT ![s] = Free] /\ UNCHANGED answer
    /\ UNCHANGED <<planeVars, revoked, consumed, lease, callVars, faults, history>>

AgentReports(s) ==
    /\ serve[s].pc \in {"done", "refused"}
    /\ ReportRead(serve[s].lease, ServerAt(s, "done"))
    /\ ServerGoes(s, "report")
    /\ UNCHANGED <<healthy, pending, counted, revoked, consumed, lease, callVars, answer, faults,
                   history>>

AgentReturns(s) ==
    /\ ServerAt(s, "report") /\ ReportAt(serve[s].lease, "done")
    /\ serve' = [serve EXCEPT ![s] = Free]
    /\ UNCHANGED <<planeVars, revoked, consumed, lease, callVars, answer, faults, history>>

\* What w has consumed.
Consumed(w) == {l \in consumed : lease[l].worker = w}

\* The bound on workers that are down and ledgers that were lost.
FewFaults == faults + Cardinality(Workers \ healthy) < MaxFaults

\* A worker behind HTTP dies with what its threads were at (an agent lives in the plane's
\* process).  A LocalLeaseLedger remembers what the worker consumed; an InMemoryLeaseLedger,
\* which is what the code builds when it is given none, has lost it.
WorkerDies(w) ==
    /\ w \notin Polled
    /\ serve' = [s \in Servers |-> IF Host[s] = w THEN Free ELSE serve[s]]
    /\ \/ UNCHANGED <<consumed, forgot, faults>>
       \/ /\ Consumed(w) # {} /\ FewFaults
          /\ faults' = faults + 1
          /\ consumed' = consumed \ Consumed(w)
          /\ forgot' = [l \in Leases |-> IF l \in Consumed(w) THEN forgot[l] + 1 ELSE forgot[l]]
    /\ UNCHANGED <<planeVars, revoked, lease, callVars, answer, ran, stopped>>

Heartbeat(w) ==
    /\ IF w \in healthy THEN FewFaults /\ healthy' = healthy \ {w}
                        ELSE healthy' = healthy \cup {w}
    /\ UNCHANGED <<pending, counted, registry, revoked, consumed, lease, callVars, answer, serve,
                   faults, history>>

CallStep(c) ==
    \/ AppendAssignment(c) \/ Count(c) \/ Raise(c) \/ Post(c) \/ Hear(c) \/ TimeOut(c)
    \/ CallerReports(c) \/ Finish(c)

ServerStep(s) == Ask(s) \/ Consume(s) \/ RunEnds(s) \/ AgentReports(s) \/ AgentReturns(s)

Next ==
    \/ \E c \in Callers : Select(c) \/ CallStep(c)
    \/ \E s \in Servers : Arrive(s) \/ Poll(s) \/ ServerStep(s)
    \/ \E l \in Leases : Lower(l) \/ Fail(l) \/ Judge(l)
    \/ \E k \in Keys : CancelKey(k)
    \/ \E l \in Leases : CancelTask(l)
    \/ \E w \in Workers : Heartbeat(w) \/ WorkerDies(w)

Spec == Init /\ [][Next]_vars
-----------------------------------------------------------------------------
\* PROPERTIES

\* "leases are single-use against a ledger, so a duplicated lease cannot execute twice"
\* (worker/leases.py), "cancellation revokes the lease so the target worker's verification
\* fails" (worker/control_plane.py): whatever is posted again, however late it arrives, a
\* lease runs once, and once more for every death of its worker that lost the ledger; and
\* not at all, deaths or no, when it was revoked while no server had its answer about it.
SingleUse == \A l \in Leases : ran[l] <= 1 + forgot[l] /\ (l \in stopped => ran[l] = 0)

\* The leases whose report has lowered a load; those of w that the plane counts as
\* unfinished work, and those reported before their dispatch had counted them.
Reported == {l \in Leases : report[l].pc \in {"fail", "judge", "done"}}
Unfinished(w)    == {l \in counted \ Reported : lease[l].worker = w}
EarlyReported(w) == {l \in Reported \ counted : lease[l].worker = w}

\* The load a worker is judged by falls below its unfinished work only by the raises that
\* a stale write undid: a lost report, a dead agent or a cancellation can only make the
\* plane believe a worker busier than it is.  And since choosing and counting are not one
\* step a worker may be given more than its max_concurrency, but only one lease more for
\* every other thread that dispatches to it, and one for every lowering that was undone.
LoadsBounded ==
    \A w \in Workers :
        /\ load[w] + raisesLost[w] + Cardinality(EarlyReported(w)) >= Cardinality(Unfinished(w))
        /\ load[w] < Capacity + Cardinality({c \in Callers : w \in Capable(c)}) + dropsLost[w]

\* A worker out of the pool is chosen by nobody: its queue only grows by the dispatches
\* that had chosen it before.
ChosenBefore(w) == {c \in Callers : CallAt(c, "append") /\ call[c].worker = w}
QuarantineHolds ==
    [][\A w \in quarantined :
          /\ ChosenBefore(w)' \subseteq ChosenBefore(w)
          /\ w \in quarantined']_vars

\* The leases as a book of single-use grants.
StatusOf(l) == IF ran[l] > 0 THEN "used"
               ELSE IF l \in stopped THEN "void"
               ELSE IF lease[l] # NoLease THEN "granted" ELSE "none"
Book == INSTANCE LeaseBook WITH Grants <- Leases, status <- [l \in Leases |-> StatusOf(l)]
BookSpec == Book!Spec
=============================================================================
