--------------------------- MODULE WorkflowEngine ---------------------------
(***************************************************************************)
(* WorkflowOrchestrator (orchestrator/engine.py): one run walked through   *)
(* its phases.  Every action is one step() of the machine, one fold of     *)
(* human input (apply_resume), a restart in place, or the worker's abort   *)
(* of a drive that raised.  What the ports answer (briefs, grounding,      *)
(* routes, executions) is chosen; the default adapters' decisions          *)
(* (RiskBasedHumanControl, BoundedRetryRecovery, StatusOutcomeMonitor) are *)
(* the code's own.                                                         *)
(***************************************************************************)
EXTENDS Integers

CONSTANTS
    MaxRecovery,        \* max_recovery_attempts
    ApproverChoices,    \* approvers a route's reserved actions ask for, 0 for none
    MaxRetries          \* bound: retries and restarts the humans ask for

ASSUME BoundAssumption ==
    /\ MaxRecovery \in Nat
    /\ MaxRetries \in Nat
    /\ ApproverChoices \subseteq Nat

VARIABLES
    phase, pause,
    delegated,      \* the brief's authorization is fully_delegated
    fn,             \* the contract carries a node function
    compiled, grounded, route,
    control,        \* what the human-control evaluation asked for
    said,           \* what humans answered
    execution,      \* status of the last execution record
    recovery, userRetries, rebuilds,
    earned,         \* history: what was answered about the route in hand
    ranKeys,        \* history: attempts executed since intake
    retriesHere,    \* history: operator retries since intake
    restarts, rebuilt   \* history: restarts and rebuilds of the run, all intakes

planVars   == <<delegated, fn, compiled, grounded, route>>
gateVars   == <<control, said, earned>>
runVars    == <<restarts, rebuilt>>
effortVars == <<execution, recovery, userRetries, rebuilds, ranKeys, retriesHere, runVars>>
vars == <<phase, pause, planVars, gateVars, effortVars>>

Terminal == {"completed", "failed", "cancelled"}
Phase == {"intake", "clarification", "grounding", "route_optimization", "human_control",
          "confirmation", "approval", "execution", "monitoring", "recovery",
          "finalization"} \cup Terminal
PauseKind == {"clarification", "confirmation", "approval", "incident"}

NoRoute    == [kind |-> "none", excluded |-> FALSE, writes |-> FALSE,
               approvers |-> 0, capable |-> FALSE]
NoControl  == [evaluated |-> FALSE, confirm |-> FALSE, approvers |-> 0]
NothingSaid == [confirmation |-> "none", granted |-> 0, denied |-> FALSE]
NothingEarned == [confirm |-> FALSE, grants |-> 0]

Route == [kind : {"none", "planned", "function", "rebuilt"}, excluded : BOOLEAN,
          writes : BOOLEAN, approvers : Nat, capable : BOOLEAN]

TypeOK ==
    /\ phase \in Phase
    /\ pause \in PauseKind \cup {"none"}
    /\ delegated \in BOOLEAN
    /\ fn \in BOOLEAN
    /\ compiled \in {"none", "blocked", "clarifying", "ready"}
    /\ grounded \in {"none", "resolved", "unresolved"}
    /\ route \in Route
    /\ control \in [evaluated : BOOLEAN, confirm : BOOLEAN, approvers : Nat]
    /\ said \in [confirmation : {"none", "yes", "no"}, granted : Nat, denied : BOOLEAN]
    /\ execution \in {"none", "succeeded", "failed", "blocked"}
    /\ recovery \in Nat /\ userRetries \in Nat /\ rebuilds \in Nat
    /\ earned \in [confirm : BOOLEAN, grants : Nat]
    /\ ranKeys \subseteq Nat
    /\ retriesHere \in Nat /\ restarts \in Nat /\ rebuilt \in Nat

Init ==
    /\ phase = "intake" /\ pause = "none"
    /\ delegated = FALSE
    /\ fn \in BOOLEAN
    /\ compiled = "none" /\ grounded = "none" /\ route = NoRoute
    /\ control = NoControl /\ said = NothingSaid /\ earned = NothingEarned
    /\ execution = "none"
    /\ recovery = 0 /\ userRetries = 0 /\ rebuilds = 0
    /\ ranKeys = {} /\ retriesHere = 0 /\ restarts = 0 /\ rebuilt = 0
-----------------------------------------------------------------------------
\* step(): a run that is neither paused nor terminal stands at its phase.
At(p) == phase = p /\ pause = "none"

Go(p)   == phase' = p /\ UNCHANGED pause
Wait(k) == pause' = k /\ UNCHANGED phase

PhaseIntake ==
    /\ At("intake")
    /\ delegated' \in BOOLEAN
    /\ Go("clarification")
    /\ UNCHANGED <<fn, compiled, grounded, route, gateVars, effortVars>>

PhaseClarification ==
    /\ At("clarification")
    /\ \/ compiled' = "blocked"    /\ Go("failed")
       \/ compiled' = "clarifying" /\ Wait("clarification")
       \/ compiled' = "ready"      /\ Go("grounding")
    /\ UNCHANGED <<delegated, fn, grounded, route, gateVars, effortVars>>

\* Terms left unresolved fail the run, unless the contract carries a function.
PhaseGrounding ==
    /\ At("grounding")
    /\ grounded' \in {"resolved", "unresolved"}
    /\ IF grounded' = "unresolved" /\ ~fn THEN Go("failed") ELSE Go("route_optimization")
    /\ UNCHANGED <<delegated, fn, compiled, route, gateVars, effortVars>>

\* The node's own function outranks planning; it writes and is not reserved.
FunctionRoute(capable) ==
    [kind |-> "function", excluded |-> FALSE, writes |-> TRUE,
     approvers |-> 0, capable |-> capable]

PlannedRoutes ==
    [kind : {"planned"}, excluded : BOOLEAN, writes : BOOLEAN,
     approvers : ApproverChoices, capable : BOOLEAN]

PhaseRoute ==
    /\ At("route_optimization")
    /\ IF fn THEN \E c \in BOOLEAN : route' = FunctionRoute(c)
             ELSE route' \in PlannedRoutes
    /\ IF route'.excluded THEN Go("failed") ELSE Go("human_control")
    /\ earned' = NothingEarned
    /\ UNCHANGED <<delegated, fn, compiled, grounded, control, said, effortVars>>

\* RiskBasedHumanControl: delegation waives confirmation, never approval.
PhaseHumanControl ==
    /\ At("human_control")
    /\ control' = [evaluated |-> TRUE, confirm |-> route.writes /\ ~delegated,
                   approvers |-> route.approvers]
    /\ Go("confirmation")
    /\ UNCHANGED <<planVars, said, earned, effortVars>>

PhaseConfirmation ==
    /\ At("confirmation")
    /\ \/ ~control.confirm /\ Go("approval")
       \/ control.confirm /\ said.confirmation = "none" /\ Wait("confirmation")
       \/ control.confirm /\ said.confirmation = "no"   /\ Go("cancelled")
       \/ control.confirm /\ said.confirmation = "yes"  /\ Go("approval")
    /\ UNCHANGED <<planVars, gateVars, effortVars>>

PhaseApproval ==
    /\ At("approval")
    /\ \/ control.approvers = 0 /\ Go("execution")
       \/ control.approvers > 0 /\ said.denied /\ Go("cancelled")
       \/ ~said.denied /\ said.granted < control.approvers /\ Wait("approval")
       \/ /\ control.approvers > 0 /\ ~said.denied
          /\ said.granted >= control.approvers
          /\ Go("execution")
    /\ UNCHANGED <<planVars, gateVars, effortVars>>

\* assert_execution_preflight
Preflight ==
    /\ compiled = "ready"
    /\ grounded = "resolved"
    /\ route.kind # "none" /\ ~route.excluded /\ route.capable
    /\ control.evaluated
    /\ control.confirm => said.confirmation = "yes"
    /\ said.granted >= control.approvers

PhaseExecution ==
    /\ At("execution")
    /\ Preflight
    /\ execution' \in {"succeeded", "failed", "blocked"}
    /\ ranKeys' = ranKeys \cup {recovery + 1}       \* key run:exec:<attempt>
    /\ Go("monitoring")
    /\ UNCHANGED <<planVars, gateVars, recovery, userRetries, rebuilds, retriesHere, runVars>>

PhaseMonitoring ==
    /\ At("monitoring")
    /\ IF execution = "succeeded" THEN Go("finalization") ELSE Go("recovery")
    /\ UNCHANGED <<planVars, gateVars, effortVars>>

\* BoundedRetryRecovery: blocked executions and spent attempts escalate.
Retryable == execution # "blocked" /\ recovery < MaxRecovery

\* Mutants: an automatic retry that forgets to count itself, and one that counts the
\* attempts left.
RecoveryRetryUncounted ==
    /\ At("recovery")
    /\ Retryable
    /\ Go("execution")
    /\ UNCHANGED <<planVars, gateVars, effortVars>>

RecoveryRetry ==
    /\ At("recovery")
    /\ Retryable
    /\ recovery' = recovery + 1
    /\ Go("execution")
    /\ UNCHANGED <<planVars, gateVars, execution, userRetries, rebuilds, ranKeys, retriesHere,
                   runVars>>

\* Two operator retries failed, and no rebuild was tried since.
RebuildDue == ~Retryable /\ userRetries >= 2 /\ rebuilds = 0

\* The model's route replaces the one that failed and goes back to human control.
SwapRoute ==
    /\ route' = [kind |-> "rebuilt", excluded |-> FALSE, writes |-> TRUE,
                 approvers |-> 0, capable |-> TRUE]
    /\ control' = NoControl
    /\ earned' = NothingEarned
    /\ rebuilt' = rebuilt + 1
    /\ Go("human_control")
    /\ UNCHANGED <<delegated, fn, compiled, grounded, execution, userRetries,
                   ranKeys, retriesHere, restarts>>

\* Mutants: the new route inherits the old confirmation; it runs under the old key;
\* the rebuild is not counted.
RecoveryRebuildInherits ==
    /\ At("recovery") /\ RebuildDue /\ SwapRoute
    /\ rebuilds' = rebuilds + 1 /\ recovery' = recovery + 1
    /\ UNCHANGED said
RecoveryRebuildSameKey ==
    /\ At("recovery") /\ RebuildDue /\ SwapRoute
    /\ rebuilds' = rebuilds + 1 /\ UNCHANGED recovery
    /\ said' = [said EXCEPT !.confirmation = "none"]
RecoveryRebuildUncounted ==
    /\ At("recovery") /\ RebuildDue /\ SwapRoute
    /\ recovery' = recovery + 1 /\ UNCHANGED rebuilds
    /\ said' = [said EXCEPT !.confirmation = "none"]

RecoveryRebuild ==
    /\ At("recovery") /\ RebuildDue /\ SwapRoute
    /\ rebuilds' = rebuilds + 1
    /\ recovery' = recovery + 1          \* fresh keys for the new route
    /\ said' = [said EXCEPT !.confirmation = "none"]

\* No rebuild is due, or the rebuilder refused: an incident for the operator.
RecoveryEscalate ==
    /\ At("recovery")
    /\ ~Retryable
    /\ Wait("incident")
    /\ UNCHANGED <<planVars, gateVars, effortVars>>

PhaseFinalization ==
    /\ At("finalization")
    /\ Go("completed")
    /\ UNCHANGED <<planVars, gateVars, effortVars>>
-----------------------------------------------------------------------------
\* A handler raises (a refused preflight, a port's error): the worker aborts.
Abort ==
    /\ phase' = "failed"
    /\ pause' = "none"
    /\ UNCHANGED <<planVars, gateVars, effortVars>>

PreflightRefusal == At("execution") /\ ~Preflight /\ Abort
PortRaises       == At(phase) /\ phase \notin Terminal /\ Abort
-----------------------------------------------------------------------------
\* apply_resume: the input's kind must match the pause.

Resumed == pause' = "none"

ResumeClarification ==
    /\ pause = "clarification"
    /\ Resumed
    /\ UNCHANGED <<phase, planVars, gateVars, effortVars>>

ResumeConfirmation ==
    /\ pause = "confirmation"
    /\ \E answer \in {"yes", "no"} :
          /\ said' = [said EXCEPT !.confirmation = answer]
          /\ earned' = [earned EXCEPT !.confirm = (answer = "yes")]
    /\ Resumed
    /\ UNCHANGED <<phase, planVars, control, effortVars>>

ResumeApproval ==
    /\ pause = "approval"
    /\ \/ /\ said' = [said EXCEPT !.granted = @ + 1]
          /\ earned' = [earned EXCEPT !.grants = @ + 1]
       \/ /\ said' = [said EXCEPT !.denied = TRUE]
          /\ UNCHANGED earned
    /\ Resumed
    /\ UNCHANGED <<phase, planVars, control, effortVars>>

\* The operator's retry goes straight back to execution.  The gateway's revival
\* of an incident refreshes the contract's function first.
ResumeRetry ==
    /\ pause = "incident"
    /\ userRetries < MaxRetries
    /\ fn' \in BOOLEAN
    /\ recovery' = recovery + 1
    /\ userRetries' = userRetries + 1
    /\ retriesHere' = retriesHere + 1
    /\ phase' = "execution"
    /\ Resumed
    /\ UNCHANGED <<delegated, compiled, grounded, route, gateVars, execution, rebuilds, ranKeys,
                   runVars>>

\* Mutant: the aborted run keeps its pause.
ResumeAbortStillPaused ==
    /\ pause = "incident"
    /\ phase' = "failed"
    /\ UNCHANGED <<pause, planVars, gateVars, effortVars>>

ResumeAbort ==
    /\ pause = "incident"
    /\ phase' = "failed"
    /\ Resumed
    /\ UNCHANGED <<planVars, gateVars, effortVars>>

\* Everything the failed attempt left is reset, the counts of attempts and of rebuilds
\* too; only user_retries survives.  A revival refreshes the contract's function.
StartOver ==
    /\ userRetries < MaxRetries
    /\ userRetries' = userRetries + 1
    /\ restarts' = restarts + 1 /\ UNCHANGED rebuilt
    /\ recovery' = 0 /\ rebuilds' = 0 /\ retriesHere' = 0
    /\ fn' \in BOOLEAN
    /\ compiled' = "none" /\ grounded' = "none" /\ route' = NoRoute
    /\ control' = NoControl /\ said' = NothingSaid /\ earned' = NothingEarned
    /\ execution' = "none" /\ ranKeys' = {}
    /\ phase' = "intake" /\ pause' = "none"
    /\ UNCHANGED delegated

\* Mutant: any finished run can be restarted, a cancelled one too.
ApplyRestartAny == phase \in Terminal /\ StartOver

\* A FAILED run starts over in place.
ApplyRestart == phase = "failed" /\ StartOver
-----------------------------------------------------------------------------
Drive ==
    \/ PhaseIntake \/ PhaseClarification \/ PhaseGrounding \/ PhaseRoute
    \/ PhaseHumanControl \/ PhaseConfirmation \/ PhaseApproval
    \/ PhaseExecution \/ PhaseMonitoring
    \/ RecoveryRetry \/ RecoveryRebuild \/ RecoveryEscalate \/ PhaseFinalization
    \/ PreflightRefusal

Human ==
    \/ ResumeClarification \/ ResumeConfirmation \/ ResumeApproval
    \/ ResumeRetry \/ ResumeAbort \/ ApplyRestart

Next == Drive \/ PortRaises \/ Human

Spec == Init /\ [][Next]_vars

\* run() keeps stepping a run that is neither paused nor terminal.
FairSpec == Spec /\ WF_vars(Drive)
-----------------------------------------------------------------------------
\* PROPERTIES

\* Nothing executed, or finished, without the gates its own route asks for: the
\* evaluation is of this route, and the answers were given about this route, whatever
\* retries, rebuilds and restarts came before.
GatesEarned ==
    phase \in {"monitoring", "recovery", "finalization", "completed"} =>
        /\ control.confirm = (route.writes /\ ~delegated)
        /\ control.approvers = route.approvers
        /\ control.confirm => earned.confirm
        /\ earned.grants >= control.approvers

\* Every execution since intake runs under a key of its own, so an executor that
\* deduplicates by key never answers a retry with an old outcome.
FreshKeys == At("execution") => recovery + 1 \notin ranKeys

\* The machine's own effort is bounded.  Over the whole run the model is asked for a new
\* route once, and once more for each restart a person asked for (not "one per run":
\* apply_restart resets the count).  Since intake, attempts beyond the first are the
\* automatic retries, at most max_recovery_attempts, the rebuild, and one for each retry
\* an operator asked for.
EffortBounded ==
    /\ rebuilt <= 1 + restarts
    /\ recovery <= MaxRecovery + rebuilds + retriesHere

\* The inbox is honest: a run waits for an answer only at the phase that asked for it,
\* and never once it is over.
PauseAtItsPhase ==
    pause # "none" => phase = (IF pause = "incident" THEN "recovery" ELSE pause)

\* run() ends: left alone, a run pauses or is over; retries and rebuilds never loop.
DriveEnds == []<>(pause # "none" \/ phase \in Terminal)

\* A run that is over never comes back by a drive or an answer; only a failed one is
\* restarted, and then from the beginning.
OverIsOver ==
    [][(phase \in Terminal /\ phase' # phase)
          => (phase = "failed" /\ phase' = "intake")]_vars
=============================================================================
