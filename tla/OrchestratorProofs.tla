------------------------ MODULE OrchestratorProofs ------------------------
(***************************************************************************)
(* What the orchestrator keeps, for every retry limit, every number of     *)
(* approvers and every number of operator retries (WorkflowEngine), and     *)
(* for every set of blueprints, every pool, every backstop and every number *)
(* of timeouts (DagRoute).                                                  *)
(***************************************************************************)
EXTENDS WorkflowEngine, DagRoute, Sums, FiniteSetTheorems, TLAPS

-----------------------------------------------------------------------------
\* THE WORKFLOW ENGINE

\* The phases a run reaches only with a route that human control evaluated.
Evaluated == {"confirmation", "approval", "execution", "monitoring", "recovery",
              "finalization", "completed"}

\* The phases a run is in only after executing its last attempt's key.
AfterRun == {"monitoring", "recovery", "finalization", "completed", "failed", "cancelled"}

\* The control in hand is the one the route in hand asks for.
ControlIsOfRoute ==
    phase \in Evaluated =>
        /\ control.confirm = (route.writes /\ ~delegated)
        /\ control.approvers = route.approvers

\* What a run said was said about the route in hand, except approvals that outlive a
\* rebuild; and a rebuilt route asks for none.
SaidIsEarned ==
    /\ said.confirmation = "yes" => earned.confirm
    /\ route.kind # "rebuilt" => said.granted <= earned.grants
    /\ route.kind = "rebuilt" => route.approvers = 0

\* Before a route is chosen nothing was said.
NothingSaidEarly ==
    phase \in {"intake", "clarification", "grounding", "route_optimization"} =>
        said = NothingSaid

\* Keys only grow: the attempts executed are behind the next one.
KeysBehind ==
    /\ \A k \in ranKeys : k <= recovery + 1
    /\ phase \notin AfterRun => \A k \in ranKeys : k <= recovery

\* A rebuild is made once since intake, and every intake but the first is a restart.
RebuildsPaid ==
    /\ rebuilds <= 1
    /\ rebuilt <= restarts + rebuilds

IInv ==
    /\ TypeOK
    /\ ControlIsOfRoute
    /\ SaidIsEarned
    /\ NothingSaidEarly
    /\ KeysBehind
    /\ GatesEarned
    /\ RebuildsPaid
    /\ EffortBounded
    /\ PauseAtItsPhase
-----------------------------------------------------------------------------
\* Every step keeps the types.
LEMMA TypeStep == TypeOK /\ [Next]_vars => TypeOK'
<1> SUFFICES ASSUME TypeOK, [Next]_vars PROVE TypeOK'
  OBVIOUS
<1> USE BoundAssumption DEF TypeOK, planVars, gateVars, effortVars, runVars, At, Go, Wait,
           NoRoute, NoControl, NothingSaid, NothingEarned,
           Phase, PauseKind, Terminal, Route
<1>1. CASE PhaseIntake \/ PhaseClarification \/ PhaseGrounding
  BY <1>1 DEF PhaseIntake, PhaseClarification, PhaseGrounding
<1>2. CASE PhaseRoute
  <2>1. route' \in Route
    <3>1. CASE fn
      <4>1. PICK c \in BOOLEAN : route' = FunctionRoute(c)
        BY <1>2, <3>1 DEF PhaseRoute
      <4> QED
        BY <4>1 DEF FunctionRoute
    <3>2. CASE ~fn
      <4>1. route' \in PlannedRoutes
        BY <1>2, <3>2 DEF PhaseRoute
      <4> QED
        BY <4>1 DEF PlannedRoutes
    <3> QED
      BY <3>1, <3>2
  <2>2. phase' \in Phase /\ pause' \in PauseKind \cup {"none"}
    BY <1>2 DEF PhaseRoute
  <2> QED
    BY <1>2, <2>1, <2>2 DEF PhaseRoute
<1>3. CASE PhaseHumanControl \/ PhaseConfirmation
  <2>1. CASE PhaseHumanControl
    <3> DEFINE asks == route.writes /\ ~delegated
    <3>1. asks \in BOOLEAN /\ route.approvers \in Nat
      OBVIOUS
    <3>2. control' = [evaluated |-> TRUE, confirm |-> asks, approvers |-> route.approvers]
      BY <2>1 DEF PhaseHumanControl
    <3> HIDE DEF asks
    <3>3. control' \in [evaluated : BOOLEAN, confirm : BOOLEAN, approvers : Nat]
      BY <3>1, <3>2
    <3> QED
      BY <2>1, <3>3 DEF PhaseHumanControl
  <2>2. CASE PhaseConfirmation
    BY <2>2 DEF PhaseConfirmation
  <2> QED
    BY <1>3, <2>1, <2>2
<1>4. CASE PhaseApproval
  BY <1>4 DEF PhaseApproval
<1>5. CASE PhaseExecution
  BY <1>5 DEF PhaseExecution, Preflight
<1>6. CASE PhaseMonitoring \/ PhaseFinalization
  BY <1>6 DEF PhaseMonitoring, PhaseFinalization
<1>7. CASE RecoveryRetry \/ RecoveryEscalate
  <2>1. CASE RecoveryRetry
    BY <2>1 DEF RecoveryRetry, Retryable
  <2>2. CASE RecoveryEscalate
    BY <2>2 DEF RecoveryEscalate
  <2> QED
    BY <1>7, <2>1, <2>2
<1>8. CASE RecoveryRebuild
  BY <1>8 DEF RecoveryRebuild, RebuildDue, SwapRoute
<1>9. CASE PreflightRefusal \/ PortRaises
  BY <1>9 DEF PreflightRefusal, PortRaises, Abort
<1>10. CASE ResumeClarification \/ ResumeConfirmation
  <2>1. CASE ResumeClarification
    BY <2>1 DEF ResumeClarification, Resumed
  <2>2. CASE ResumeConfirmation
    <3>1. PICK answer \in {"yes", "no"} :
             /\ said' = [said EXCEPT !.confirmation = answer]
             /\ earned' = [earned EXCEPT !.confirm = (answer = "yes")]
      BY <2>2 DEF ResumeConfirmation
    <3> DEFINE yes == answer = "yes"
    <3>2. yes \in BOOLEAN
      OBVIOUS
    <3>3. earned' = [earned EXCEPT !.confirm = yes]
      BY <3>1
    <3> HIDE DEF yes
    <3>4. earned' \in [confirm : BOOLEAN, grants : Nat]
      BY <3>2, <3>3
    <3> QED
      BY <2>2, <3>1, <3>4 DEF ResumeConfirmation, Resumed
  <2> QED
    BY <1>10, <2>1, <2>2
<1>11. CASE ResumeApproval
  <2>1. CASE said' = [said EXCEPT !.granted = @ + 1] /\ earned' = [earned EXCEPT !.grants = @ + 1]
    BY <1>11, <2>1 DEF ResumeApproval, Resumed
  <2>2. CASE said' = [said EXCEPT !.denied = TRUE] /\ earned' = earned
    <3>1. said' \in [confirmation : {"none", "yes", "no"}, granted : Nat, denied : BOOLEAN]
      BY <2>2, Zenon
    <3> QED
      BY <1>11, <2>2, <3>1 DEF ResumeApproval, Resumed
  <2> QED
    BY <1>11, <2>1, <2>2 DEF ResumeApproval
<1>12. CASE ResumeRetry \/ ResumeAbort
  <2>1. CASE ResumeRetry
    BY <2>1 DEF ResumeRetry, Resumed
  <2>2. CASE ResumeAbort
    BY <2>2 DEF ResumeAbort, Resumed
  <2> QED
    BY <1>12, <2>1, <2>2
<1>13. CASE ApplyRestart
  BY <1>13 DEF ApplyRestart, StartOver
<1>14. CASE UNCHANGED vars
  BY <1>14 DEF vars
<1> QED
  BY <1>1, <1>2, <1>3, <1>4, <1>5, <1>6, <1>7,
     <1>8, <1>9, <1>10, <1>11, <1>12, <1>13, <1>14 DEF Next, Drive, Human

\* A new route meets human control before it is evaluated again.
LEMMA ControlStep == IInv /\ [Next]_vars => ControlIsOfRoute'
<1> SUFFICES ASSUME IInv, [Next]_vars PROVE ControlIsOfRoute'
  OBVIOUS
<1> USE BoundAssumption DEF IInv, TypeOK, planVars, gateVars, effortVars, runVars, At, Go, Wait,
           NoRoute, NoControl, NothingSaid, NothingEarned,
           ControlIsOfRoute, PauseAtItsPhase, Evaluated, Terminal
<1>1. CASE PhaseIntake \/ PhaseClarification \/ PhaseGrounding
  BY <1>1 DEF PhaseIntake, PhaseClarification, PhaseGrounding
<1>2. CASE PhaseRoute
  BY <1>2 DEF PhaseRoute, FunctionRoute, PlannedRoutes
<1>3. CASE PhaseHumanControl \/ PhaseConfirmation
  BY <1>3 DEF PhaseHumanControl, PhaseConfirmation
<1>4. CASE PhaseApproval
  BY <1>4 DEF PhaseApproval
<1>5. CASE PhaseExecution
  BY <1>5 DEF PhaseExecution, Preflight
<1>6. CASE PhaseMonitoring \/ PhaseFinalization
  BY <1>6 DEF PhaseMonitoring, PhaseFinalization
<1>7. CASE RecoveryRetry \/ RecoveryEscalate
  BY <1>7 DEF RecoveryRetry, RecoveryEscalate, Retryable
<1>8. CASE RecoveryRebuild
  BY <1>8 DEF RecoveryRebuild, RebuildDue, SwapRoute
<1>9. CASE PreflightRefusal \/ PortRaises
  BY <1>9 DEF PreflightRefusal, PortRaises, Abort
<1>10. CASE ResumeClarification \/ ResumeConfirmation
  BY <1>10 DEF ResumeClarification, ResumeConfirmation, Resumed
<1>11. CASE ResumeApproval
  BY <1>11 DEF ResumeApproval, Resumed
<1>12. CASE ResumeRetry \/ ResumeAbort
  BY <1>12 DEF ResumeRetry, ResumeAbort, Resumed
<1>13. CASE ApplyRestart
  BY <1>13 DEF ApplyRestart, StartOver
<1>14. CASE UNCHANGED vars
  BY <1>14 DEF vars
<1> QED
  BY <1>1, <1>2, <1>3, <1>4, <1>5, <1>6, <1>7,
     <1>8, <1>9, <1>10, <1>11, <1>12, <1>13, <1>14 DEF Next, Drive, Human

\* A new route is chosen with nothing said, or loses the confirmation.
LEMMA SaidStep == IInv /\ [Next]_vars => SaidIsEarned'
<1> SUFFICES ASSUME IInv, [Next]_vars PROVE SaidIsEarned'
  OBVIOUS
<1> USE BoundAssumption DEF IInv, TypeOK, planVars, gateVars, effortVars, runVars, At, Go, Wait,
           NoRoute, NoControl, NothingSaid, NothingEarned,
           SaidIsEarned, NothingSaidEarly, Terminal
<1>1. CASE PhaseIntake \/ PhaseClarification \/ PhaseGrounding
  BY <1>1 DEF PhaseIntake, PhaseClarification, PhaseGrounding
<1>2. CASE PhaseRoute
  BY <1>2 DEF PhaseRoute, FunctionRoute, PlannedRoutes
<1>3. CASE PhaseHumanControl \/ PhaseConfirmation
  BY <1>3 DEF PhaseHumanControl, PhaseConfirmation
<1>4. CASE PhaseApproval
  BY <1>4 DEF PhaseApproval
<1>5. CASE PhaseExecution
  BY <1>5 DEF PhaseExecution, Preflight
<1>6. CASE PhaseMonitoring \/ PhaseFinalization
  BY <1>6 DEF PhaseMonitoring, PhaseFinalization
<1>7. CASE RecoveryRetry \/ RecoveryEscalate
  BY <1>7 DEF RecoveryRetry, RecoveryEscalate, Retryable
<1>8. CASE RecoveryRebuild
  BY <1>8 DEF RecoveryRebuild, RebuildDue, SwapRoute
<1>9. CASE PreflightRefusal \/ PortRaises
  BY <1>9 DEF PreflightRefusal, PortRaises, Abort
<1>10. CASE ResumeClarification \/ ResumeConfirmation
  BY <1>10 DEF ResumeClarification, ResumeConfirmation, Resumed
<1>11. CASE ResumeApproval
  BY <1>11 DEF ResumeApproval, Resumed
<1>12. CASE ResumeRetry \/ ResumeAbort
  BY <1>12 DEF ResumeRetry, ResumeAbort, Resumed
<1>13. CASE ApplyRestart
  BY <1>13 DEF ApplyRestart, StartOver
<1>14. CASE UNCHANGED vars
  BY <1>14 DEF vars
<1> QED
  BY <1>1, <1>2, <1>3, <1>4, <1>5, <1>6, <1>7,
     <1>8, <1>9, <1>10, <1>11, <1>12, <1>13, <1>14 DEF Next, Drive, Human

\* Only a restart goes back before the route, and it forgets what was said.
LEMMA EarlyStep == IInv /\ [Next]_vars => NothingSaidEarly'
<1> SUFFICES ASSUME IInv, [Next]_vars PROVE NothingSaidEarly'
  OBVIOUS
<1> USE BoundAssumption DEF IInv, TypeOK, planVars, gateVars, effortVars, runVars, At, Go, Wait,
           NoRoute, NoControl, NothingSaid, NothingEarned,
           NothingSaidEarly, PauseAtItsPhase, Terminal
<1>1. CASE PhaseIntake \/ PhaseClarification \/ PhaseGrounding
  BY <1>1 DEF PhaseIntake, PhaseClarification, PhaseGrounding
<1>2. CASE PhaseRoute
  BY <1>2 DEF PhaseRoute, FunctionRoute, PlannedRoutes
<1>3. CASE PhaseHumanControl \/ PhaseConfirmation
  BY <1>3 DEF PhaseHumanControl, PhaseConfirmation
<1>4. CASE PhaseApproval
  BY <1>4 DEF PhaseApproval
<1>5. CASE PhaseExecution
  BY <1>5 DEF PhaseExecution, Preflight
<1>6. CASE PhaseMonitoring \/ PhaseFinalization
  BY <1>6 DEF PhaseMonitoring, PhaseFinalization
<1>7. CASE RecoveryRetry \/ RecoveryEscalate
  BY <1>7 DEF RecoveryRetry, RecoveryEscalate, Retryable
<1>8. CASE RecoveryRebuild
  BY <1>8 DEF RecoveryRebuild, RebuildDue, SwapRoute
<1>9. CASE PreflightRefusal \/ PortRaises
  BY <1>9 DEF PreflightRefusal, PortRaises, Abort
<1>10. CASE ResumeClarification \/ ResumeConfirmation
  BY <1>10 DEF ResumeClarification, ResumeConfirmation, Resumed
<1>11. CASE ResumeApproval
  BY <1>11 DEF ResumeApproval, Resumed
<1>12. CASE ResumeRetry \/ ResumeAbort
  BY <1>12 DEF ResumeRetry, ResumeAbort, Resumed
<1>13. CASE ApplyRestart
  BY <1>13 DEF ApplyRestart, StartOver
<1>14. CASE UNCHANGED vars
  BY <1>14 DEF vars
<1> QED
  BY <1>1, <1>2, <1>3, <1>4, <1>5, <1>6, <1>7,
     <1>8, <1>9, <1>10, <1>11, <1>12, <1>13, <1>14 DEF Next, Drive, Human

\* Every return to execution counts a recovery first.
LEMMA KeysStep == IInv /\ [Next]_vars => KeysBehind'
<1> SUFFICES ASSUME IInv, [Next]_vars PROVE KeysBehind'
  OBVIOUS
<1> USE BoundAssumption DEF IInv, TypeOK, planVars, gateVars, effortVars, runVars, At, Go, Wait,
           NoRoute, NoControl, NothingSaid, NothingEarned,
           KeysBehind, PauseAtItsPhase, AfterRun, Terminal
<1>1. CASE PhaseIntake \/ PhaseClarification \/ PhaseGrounding
  BY <1>1 DEF PhaseIntake, PhaseClarification, PhaseGrounding
<1>2. CASE PhaseRoute
  BY <1>2 DEF PhaseRoute, FunctionRoute, PlannedRoutes
<1>3. CASE PhaseHumanControl \/ PhaseConfirmation
  BY <1>3 DEF PhaseHumanControl, PhaseConfirmation
<1>4. CASE PhaseApproval
  BY <1>4 DEF PhaseApproval
<1>5. CASE PhaseExecution
  BY <1>5 DEF PhaseExecution, Preflight
<1>6. CASE PhaseMonitoring \/ PhaseFinalization
  BY <1>6 DEF PhaseMonitoring, PhaseFinalization
<1>7. CASE RecoveryRetry \/ RecoveryEscalate
  <2>1. CASE RecoveryRetry
    BY <2>1 DEF RecoveryRetry, Retryable
  <2>2. CASE RecoveryEscalate
    BY <2>2 DEF RecoveryEscalate
  <2> QED
    BY <1>7, <2>1, <2>2
<1>8. CASE RecoveryRebuild
  BY <1>8 DEF RecoveryRebuild, RebuildDue, SwapRoute
<1>9. CASE PreflightRefusal \/ PortRaises
  BY <1>9 DEF PreflightRefusal, PortRaises, Abort
<1>10. CASE ResumeClarification \/ ResumeConfirmation
  BY <1>10 DEF ResumeClarification, ResumeConfirmation, Resumed
<1>11. CASE ResumeApproval
  BY <1>11 DEF ResumeApproval, Resumed
<1>12. CASE ResumeRetry \/ ResumeAbort
  <2>1. CASE ResumeRetry
    BY <2>1 DEF ResumeRetry, Resumed
  <2>2. CASE ResumeAbort
    BY <2>2 DEF ResumeAbort, Resumed
  <2> QED
    BY <1>12, <2>1, <2>2
<1>13. CASE ApplyRestart
  BY <1>13 DEF ApplyRestart, StartOver
<1>14. CASE UNCHANGED vars
  BY <1>14 DEF vars
<1> QED
  BY <1>1, <1>2, <1>3, <1>4, <1>5, <1>6, <1>7,
     <1>8, <1>9, <1>10, <1>11, <1>12, <1>13, <1>14 DEF Next, Drive, Human

\* The preflight asks for the gates of the route in hand.
LEMMA GatesStep == IInv /\ [Next]_vars => GatesEarned'
<1> SUFFICES ASSUME IInv, [Next]_vars PROVE GatesEarned'
  OBVIOUS
<1> USE BoundAssumption DEF IInv, TypeOK, planVars, gateVars, effortVars, runVars, At, Go, Wait,
           NoRoute, NoControl, NothingSaid, NothingEarned,
           GatesEarned, ControlIsOfRoute, SaidIsEarned, PauseAtItsPhase, Evaluated, Route, Terminal
<1>1. CASE PhaseIntake \/ PhaseClarification \/ PhaseGrounding
  BY <1>1 DEF PhaseIntake, PhaseClarification, PhaseGrounding
<1>2. CASE PhaseRoute
  BY <1>2 DEF PhaseRoute, FunctionRoute, PlannedRoutes
<1>3. CASE PhaseHumanControl \/ PhaseConfirmation
  BY <1>3 DEF PhaseHumanControl, PhaseConfirmation
<1>4. CASE PhaseApproval
  BY <1>4 DEF PhaseApproval
<1>5. CASE PhaseExecution
  BY <1>5 DEF PhaseExecution, Preflight
<1>6. CASE PhaseMonitoring \/ PhaseFinalization
  BY <1>6 DEF PhaseMonitoring, PhaseFinalization
<1>7. CASE RecoveryRetry \/ RecoveryEscalate
  BY <1>7 DEF RecoveryRetry, RecoveryEscalate, Retryable
<1>8. CASE RecoveryRebuild
  BY <1>8 DEF RecoveryRebuild, RebuildDue, SwapRoute
<1>9. CASE PreflightRefusal \/ PortRaises
  BY <1>9 DEF PreflightRefusal, PortRaises, Abort
<1>10. CASE ResumeClarification \/ ResumeConfirmation
  BY <1>10 DEF ResumeClarification, ResumeConfirmation, Resumed
<1>11. CASE ResumeApproval
  BY <1>11 DEF ResumeApproval, Resumed
<1>12. CASE ResumeRetry \/ ResumeAbort
  BY <1>12 DEF ResumeRetry, ResumeAbort, Resumed
<1>13. CASE ApplyRestart
  BY <1>13 DEF ApplyRestart, StartOver
<1>14. CASE UNCHANGED vars
  BY <1>14 DEF vars
<1> QED
  BY <1>1, <1>2, <1>3, <1>4, <1>5, <1>6, <1>7,
     <1>8, <1>9, <1>10, <1>11, <1>12, <1>13, <1>14 DEF Next, Drive, Human

\* Each count of an attempt is an automatic retry, the rebuild or an operator's retry.
LEMMA EffortStep == IInv /\ [Next]_vars => RebuildsPaid' /\ EffortBounded'
<1> SUFFICES ASSUME IInv, [Next]_vars PROVE RebuildsPaid' /\ EffortBounded'
  OBVIOUS
<1> USE BoundAssumption DEF IInv, TypeOK, planVars, gateVars, effortVars, runVars, At, Go, Wait,
           NoRoute, NoControl, NothingSaid, NothingEarned,
           RebuildsPaid, EffortBounded, Terminal
<1>1. CASE PhaseIntake \/ PhaseClarification \/ PhaseGrounding
  BY <1>1 DEF PhaseIntake, PhaseClarification, PhaseGrounding
<1>2. CASE PhaseRoute
  BY <1>2 DEF PhaseRoute, FunctionRoute, PlannedRoutes
<1>3. CASE PhaseHumanControl \/ PhaseConfirmation
  BY <1>3 DEF PhaseHumanControl, PhaseConfirmation
<1>4. CASE PhaseApproval
  BY <1>4 DEF PhaseApproval
<1>5. CASE PhaseExecution
  BY <1>5 DEF PhaseExecution, Preflight
<1>6. CASE PhaseMonitoring \/ PhaseFinalization
  BY <1>6 DEF PhaseMonitoring, PhaseFinalization
<1>7. CASE RecoveryRetry \/ RecoveryEscalate
  BY <1>7 DEF RecoveryRetry, RecoveryEscalate, Retryable
<1>8. CASE RecoveryRebuild
  BY <1>8 DEF RecoveryRebuild, RebuildDue, SwapRoute
<1>9. CASE PreflightRefusal \/ PortRaises
  BY <1>9 DEF PreflightRefusal, PortRaises, Abort
<1>10. CASE ResumeClarification \/ ResumeConfirmation
  BY <1>10 DEF ResumeClarification, ResumeConfirmation, Resumed
<1>11. CASE ResumeApproval
  BY <1>11 DEF ResumeApproval, Resumed
<1>12. CASE ResumeRetry \/ ResumeAbort
  BY <1>12 DEF ResumeRetry, ResumeAbort, Resumed
<1>13. CASE ApplyRestart
  BY <1>13 DEF ApplyRestart, StartOver
<1>14. CASE UNCHANGED vars
  BY <1>14 DEF vars
<1> QED
  BY <1>1, <1>2, <1>3, <1>4, <1>5, <1>6, <1>7,
     <1>8, <1>9, <1>10, <1>11, <1>12, <1>13, <1>14 DEF Next, Drive, Human

\* A run moves only when it is not paused.
LEMMA PauseStep == IInv /\ [Next]_vars => PauseAtItsPhase'
<1> SUFFICES ASSUME IInv, [Next]_vars PROVE PauseAtItsPhase'
  OBVIOUS
<1> USE BoundAssumption DEF IInv, TypeOK, planVars, gateVars, effortVars, runVars, At, Go, Wait,
           NoRoute, NoControl, NothingSaid, NothingEarned,
           PauseAtItsPhase, Terminal
<1>1. CASE PhaseIntake \/ PhaseClarification \/ PhaseGrounding
  BY <1>1 DEF PhaseIntake, PhaseClarification, PhaseGrounding
<1>2. CASE PhaseRoute
  BY <1>2 DEF PhaseRoute, FunctionRoute, PlannedRoutes
<1>3. CASE PhaseHumanControl \/ PhaseConfirmation
  BY <1>3 DEF PhaseHumanControl, PhaseConfirmation
<1>4. CASE PhaseApproval
  BY <1>4 DEF PhaseApproval
<1>5. CASE PhaseExecution
  BY <1>5 DEF PhaseExecution, Preflight
<1>6. CASE PhaseMonitoring \/ PhaseFinalization
  BY <1>6 DEF PhaseMonitoring, PhaseFinalization
<1>7. CASE RecoveryRetry \/ RecoveryEscalate
  BY <1>7 DEF RecoveryRetry, RecoveryEscalate, Retryable
<1>8. CASE RecoveryRebuild
  BY <1>8 DEF RecoveryRebuild, RebuildDue, SwapRoute
<1>9. CASE PreflightRefusal \/ PortRaises
  BY <1>9 DEF PreflightRefusal, PortRaises, Abort
<1>10. CASE ResumeClarification \/ ResumeConfirmation
  BY <1>10 DEF ResumeClarification, ResumeConfirmation, Resumed
<1>11. CASE ResumeApproval
  BY <1>11 DEF ResumeApproval, Resumed
<1>12. CASE ResumeRetry \/ ResumeAbort
  BY <1>12 DEF ResumeRetry, ResumeAbort, Resumed
<1>13. CASE ApplyRestart
  BY <1>13 DEF ApplyRestart, StartOver
<1>14. CASE UNCHANGED vars
  BY <1>14 DEF vars
<1> QED
  BY <1>1, <1>2, <1>3, <1>4, <1>5, <1>6, <1>7,
     <1>8, <1>9, <1>10, <1>11, <1>12, <1>13, <1>14 DEF Next, Drive, Human

LEMMA InitInv == Init => IInv
<1> SUFFICES ASSUME Init PROVE IInv
  OBVIOUS
<1> USE BoundAssumption DEF Init, NoRoute, NoControl, NothingSaid, NothingEarned
<1>1. TypeOK
  BY DEF TypeOK, Phase, PauseKind, Route
<1>2. ControlIsOfRoute /\ GatesEarned
  BY DEF ControlIsOfRoute, GatesEarned, Evaluated
<1>3. SaidIsEarned /\ NothingSaidEarly
  BY DEF SaidIsEarned, NothingSaidEarly
<1>4. KeysBehind /\ RebuildsPaid /\ EffortBounded /\ PauseAtItsPhase
  BY DEF KeysBehind, RebuildsPaid, EffortBounded, PauseAtItsPhase
<1> QED
  BY <1>1, <1>2, <1>3, <1>4 DEF IInv

\* The invariant is inductive, whatever the ports answer and in whatever order people
\* answer, retry and restart.
THEOREM Inductive == Spec => []IInv
<1>1. IInv /\ [Next]_vars => IInv'
  BY TypeStep, ControlStep, SaidStep, EarlyStep, KeysStep, GatesStep, EffortStep, PauseStep
     DEF IInv
<1> QED
  BY InitInv, <1>1, PTL DEF Spec

\* Every recorded output of a run has its type.
THEOREM TypeCorrect == Spec => []TypeOK
BY Inductive, PTL DEF IInv

\* No route runs without the confirmation and the approvals given about that route,
\* through retries, rebuilds and restarts.
THEOREM GatesAreEarned == Spec => []GatesEarned
BY Inductive, PTL DEF IInv

\* No attempt runs under a key already used since intake.
THEOREM KeysAreFresh == Spec => []FreshKeys
<1>1. IInv => FreshKeys
  BY DEF IInv, TypeOK, KeysBehind, FreshKeys, AfterRun, At
<1> QED
  BY Inductive, <1>1, PTL

\* The machine retries within its budget, and asks the model for a new route at most once
\* for the run and once for each restart.
THEOREM EffortIsBounded == Spec => []EffortBounded
BY Inductive, PTL DEF IInv

\* A run is paused only at the phase that asked.
THEOREM PausesAreHonest == Spec => []PauseAtItsPhase
BY Inductive, PTL DEF IInv

\* A finished run is left only by the restart of a failed one.
THEOREM FinishedStays == Spec => OverIsOver
<1> DEFINE Left == (phase \in Terminal /\ phase' # phase)
                     => (phase = "failed" /\ phase' = "intake")
<1>1. IInv /\ [Next]_vars => [Left]_vars
  <2> SUFFICES ASSUME IInv, Next PROVE Left
    OBVIOUS
  <2> USE DEF IInv, PauseAtItsPhase, Terminal, At, Go, Wait, Left
  <2>1. CASE Drive
    BY <2>1 DEF Drive, PhaseIntake, PhaseClarification, PhaseGrounding, PhaseRoute,
                PhaseHumanControl, PhaseConfirmation, PhaseApproval, PhaseExecution,
                PhaseMonitoring, RecoveryRetry, RecoveryRebuild, RecoveryEscalate,
                PhaseFinalization, PreflightRefusal
  <2>2. CASE PortRaises
    BY <2>2 DEF PortRaises
  <2>3. CASE Human
    BY <2>3 DEF Human, ResumeClarification, ResumeConfirmation, ResumeApproval, ResumeRetry,
                ResumeAbort, ApplyRestart, StartOver
  <2> QED
    BY <2>1, <2>2, <2>3 DEF Next
<1> QED
  BY Inductive, <1>1, PTL DEF Spec, OverIsOver
-----------------------------------------------------------------------------
\* THE DAG SCHEDULER: BLUEPRINTS

BlueprintHolds == bp \in Blueprints /\ GraphPreflight(bp)

LEMMA BlueprintTypes ==
    ASSUME BlueprintHolds
    PROVE  /\ bp.nodes \subseteq Nat /\ IsFiniteSet(bp.nodes) /\ bp.nodes \subseteq Nodes
           /\ bp.anyJoins \subseteq bp.nodes
           /\ \A e \in bp.edges : /\ e = [source |-> e.source, target |-> e.target, guard |-> e.guard]
                                  /\ e.source \in bp.nodes /\ e.target \in bp.nodes
                                  /\ e.guard \in BOOLEAN
           /\ \A f \in bp.fallbacks : f.source \in bp.nodes /\ f.target \in bp.nodes
           /\ \A l \in bp.loops : l.tail \in bp.nodes /\ l.head \in bp.nodes /\ l.budget \in Nat
           /\ \A l \in bp.loops : Region(bp, l) \subseteq bp.nodes
<1>1. /\ bp.nodes \subseteq Nodes /\ bp.anyJoins \subseteq bp.nodes
      /\ bp.edges \subseteq [source : bp.nodes, target : bp.nodes, guard : BOOLEAN]
      /\ bp.fallbacks \subseteq [source : bp.nodes, target : bp.nodes]
      /\ \A l \in bp.loops : l.tail \in bp.nodes /\ l.head \in bp.nodes /\ l.budget \in Nat
  BY BlueprintsAssumption DEF BlueprintHolds
<1>2. bp.nodes \subseteq Nat /\ IsFiniteSet(bp.nodes)
  BY <1>1, NodesAssumption, FS_Subset
<1>3. \A l \in bp.loops : Region(bp, l) \subseteq bp.nodes
  BY <1>1 DEF Region
<1>4. \A e \in bp.edges : /\ e = [source |-> e.source, target |-> e.target, guard |-> e.guard]
                          /\ e.source \in bp.nodes /\ e.target \in bp.nodes /\ e.guard \in BOOLEAN
  BY <1>1
<1>5. \A f \in bp.fallbacks : f.source \in bp.nodes /\ f.target \in bp.nodes
  BY <1>1
<1> QED
  BY <1>1, <1>2, <1>3, <1>4, <1>5

\* What is reachable from a child is reachable.
LEMMA ReachesThrough ==
    ASSUME NEW b, NEW e \in b.edges, NEW m, e.target = m \/ Reaches(b, e.target, m)
    PROVE  Reaches(b, e.source, m)
<1> SUFFICES ASSUME NEW S \in SUBSET b.nodes, Children(b, e.source) \subseteq S,
                    \A s \in S : Children(b, s) \subseteq S
             PROVE  m \in S
  BY DEF Reaches
<1>1. e.target \in S
  BY DEF Children
<1> QED
  BY <1>1 DEF Reaches

\* A region is left only through its tail, nothing leads from the tail back into it, and no
\* repair touches it.
LEMMA Regions ==
    ASSUME BlueprintHolds, NEW l \in bp.loops
    PROVE  /\ l.tail \in Region(bp, l)
           /\ \A n \in Region(bp, l) : n = l.tail \/ Reaches(bp, n, l.tail)
           /\ \A e \in bp.edges :
                 /\ e.source \in Region(bp, l) /\ e.source # l.tail => e.target \in Region(bp, l)
                 /\ e.source = l.tail => e.target \notin Region(bp, l)
           /\ \A f \in bp.fallbacks : f.source \notin Region(bp, l) /\ f.target \notin Region(bp, l)
           /\ Region(bp, l) \cap RepairNodes(bp) = {}
<1>1. ~HasCycle(bp) /\ LoopsAreSound(bp)
  BY DEF BlueprintHolds, GraphPreflight
<1>2. l.tail \in Region(bp, l)
  BY DEF Region
<1>3. \A n \in Region(bp, l) : n = l.tail \/ Reaches(bp, n, l.tail)
  BY <1>1 DEF Region, LoopsAreSound
<1>4. \A f \in bp.fallbacks : f.source \notin Region(bp, l) /\ f.target \notin Region(bp, l)
  BY <1>1 DEF LoopsAreSound
<1>5. Region(bp, l) \cap RepairNodes(bp) = {}
  BY <1>4 DEF RepairNodes
<1>6. \A e \in bp.edges : e.source \in Region(bp, l) /\ e.source # l.tail => e.target \in Region(bp, l)
  BY <1>1 DEF LoopsAreSound
<1>7. ASSUME NEW e \in bp.edges, e.source = l.tail, e.target \in Region(bp, l) PROVE FALSE
  <2>1. Reaches(bp, e.source, l.tail)
    BY <1>3, <1>7, ReachesThrough
  <2>2. l.tail \in bp.nodes
    BY BlueprintTypes
  <2> QED
    BY <1>1, <1>7, <2>1, <2>2 DEF HasCycle
<1> QED
  BY <1>2, <1>3, <1>4, <1>5, <1>6, <1>7

LEMMA RepairFacts ==
    /\ \A n, t : t \in Triggers(bp, n) <=> n \in Repairs(bp, t)
    /\ \A n, t : n \in Repairs(bp, t) => n \in RepairNodes(bp)
    /\ \A n : n \in Repairs(bp, n) => n \in RepairNodes(bp)
<1>1. \A n, t : t \in Triggers(bp, n) <=> \E f \in bp.fallbacks : f.target = n /\ f.source = t
  BY DEF Triggers
<1>2. \A n, t : n \in Repairs(bp, t) <=> \E f \in bp.fallbacks : f.target = n /\ f.source = t
  BY DEF Repairs
<1>3. \A n : n \in RepairNodes(bp) <=> \E f \in bp.fallbacks : f.target = n
  BY DEF RepairNodes
<1> QED
  BY <1>1, <1>2, <1>3

-----------------------------------------------------------------------------
\* THE KEYS

Futures == running \cup zombies
Waiting == pending \cup dormant

\* A key is one future's; a waiting action's key is nobody's yet, and keys of passes to
\* come have not run.
Keyed ==
    /\ running \cap zombies = {}
    /\ \A f, g \in Futures : f.node = g.node /\ f.iter = g.iter => f = g
    /\ \A f \in Futures : f.node \in bp.nodes /\ f.iter \in 0 .. iteration[f.node]
    /\ \A n \in Waiting, f \in Futures : f.node = n => f.iter # iteration[n]
    /\ \A k \in DOMAIN ran : ran[k] \in {0, 1}
    /\ \A k \in DOMAIN ran : k[2] > iteration[k[1]] => ran[k] = 0
    /\ \A n \in Waiting : <<n, iteration[n]>> \in DOMAIN ran => ran[<<n, iteration[n]>>] = 0
    /\ \A f \in Futures :
          f.st = "queued" /\ <<f.node, f.iter>> \in DOMAIN ran => ran[<<f.node, f.iter>>] = 0

Typed == BlueprintHolds /\ DagTypeOK /\ IsFiniteSet(running) /\ dormant \subseteq RepairNodes(bp)

LEMMA TypedFacts ==
    ASSUME Typed
    PROVE  /\ status \in [bp.nodes -> Statuses] /\ evidence \in [bp.nodes -> {"none", "yes", "no"}]
           /\ into \in [bp.nodes -> SUBSET [source : bp.nodes, guard : BOOLEAN]]
           /\ pending \subseteq bp.nodes /\ dormant \subseteq bp.nodes
           /\ running \subseteq Future /\ zombies \subseteq Future
           /\ iteration \in [bp.nodes -> Nat]
           /\ ran \in [bp.nodes \X (0 .. MaxTotal) -> Nat]
BY DEF Typed, DagTypeOK
-----------------------------------------------------------------------------
\* The steps that leave the keys alone, or take futures away.
LEMMA KeyedShrinks ==
    ASSUME Typed, Keyed, bp' = bp, iteration' = iteration, ran' = ran,
           running' \cup zombies' \subseteq Futures, running' \cap zombies' = {},
           pending' \cup dormant' \subseteq Waiting
    PROVE  Keyed'
BY DEF Keyed, Futures, Waiting

LEMMA KeyedContinues ==
    ASSUME Typed, Keyed, NEW l \in bp.loops, JudgeContinue(l)
    PROVE  Keyed'
<1> DEFINE R == Region(bp, l)
<1>1. /\ UNCHANGED <<bp, running, zombies, ran, dormant>>
      /\ pending' = pending \cup R
      /\ iteration' = [n \in bp.nodes |-> IF n \in R THEN iteration[n] + 1 ELSE iteration[n]]
  BY DEF JudgeContinue, poolVars
<1>2. R \subseteq bp.nodes
  BY BlueprintTypes DEF Typed
<1>3. iteration \in [bp.nodes -> Nat] /\ ran \in [bp.nodes \X (0 .. MaxTotal) -> Nat] /\ pending \subseteq bp.nodes
      /\ dormant \subseteq bp.nodes
  BY TypedFacts
<1> HIDE DEF R
<1>4. Futures' = Futures /\ Waiting' = Waiting \cup R /\ DOMAIN ran' = DOMAIN ran
  BY <1>1 DEF Futures, Waiting
<1>5. /\ \A n \in bp.nodes : iteration[n] \in Nat /\ iteration'[n] \in Nat /\ iteration'[n] >= iteration[n]
      /\ \A n \in R : iteration'[n] > iteration[n]
      /\ \A n \in bp.nodes \ R : iteration'[n] = iteration[n]
  BY <1>1, <1>2, <1>3
<1>6. \A f \in Futures : f.node \in bp.nodes /\ f.iter \in Nat /\ f.iter <= iteration[f.node]
  BY <1>5 DEF Keyed
<1>7. \A k \in DOMAIN ran : k[1] \in bp.nodes /\ k[2] \in Nat
  BY <1>3
<1>8. \A n \in Waiting', f \in Futures' : f.node = n => f.iter # iteration'[n]
  <2> SUFFICES ASSUME NEW n \in Waiting', NEW f \in Futures, f.node = n PROVE f.iter # iteration'[n]
    BY <1>4
  <2>1. CASE n \in R
    BY <1>2, <1>5, <1>6, <2>1
  <2>2. CASE n \notin R
    <3>1. n \in Waiting /\ n \in bp.nodes
      BY <1>3, <1>4, <2>2 DEF Waiting
    <3> QED
      BY <1>5, <2>2, <3>1 DEF Keyed
  <2> QED
    BY <2>1, <2>2
<1>9. \A k \in DOMAIN ran' : k[2] > iteration'[k[1]] => ran'[k] = 0
  <2> SUFFICES ASSUME NEW k \in DOMAIN ran, k[2] > iteration'[k[1]] PROVE ran[k] = 0
    BY <1>1, <1>4
  <2>1. k[2] > iteration[k[1]]
    BY <1>5, <1>7
  <2> QED
    BY <2>1 DEF Keyed
<1>10. \A n \in Waiting' : <<n, iteration'[n]>> \in DOMAIN ran' => ran'[<<n, iteration'[n]>>] = 0
  <2> SUFFICES ASSUME NEW n \in Waiting', <<n, iteration'[n]>> \in DOMAIN ran
               PROVE  ran[<<n, iteration'[n]>>] = 0
    BY <1>1, <1>4
  <2>1. CASE n \in R
    BY <1>2, <1>5, <2>1 DEF Keyed
  <2>2. CASE n \notin R
    <3>1. n \in Waiting /\ n \in bp.nodes
      BY <1>3, <1>4, <2>2 DEF Waiting
    <3>2. iteration'[n] = iteration[n]
      BY <1>5, <2>2, <3>1
    <3> QED
      BY <3>1, <3>2 DEF Keyed
  <2> QED
    BY <2>1, <2>2
<1>11. \A f \in Futures' : f.node \in bp'.nodes /\ f.iter \in 0 .. iteration'[f.node]
  <2> SUFFICES ASSUME NEW f \in Futures
               PROVE  f.node \in bp.nodes /\ f.iter \in 0 .. iteration'[f.node]
    BY <1>1, <1>4
  <2>1. f.node \in bp.nodes /\ f.iter \in Nat /\ f.iter <= iteration[f.node]
    BY <1>6
  <2>2. iteration[f.node] \in Nat /\ iteration'[f.node] \in Nat
        /\ iteration'[f.node] >= iteration[f.node]
    BY <1>5, <2>1
  <2> QED
    BY <2>1, <2>2
<1>12. /\ running' \cap zombies' = {}
       /\ \A f, g \in Futures' : f.node = g.node /\ f.iter = g.iter => f = g
       /\ \A k \in DOMAIN ran' : ran'[k] \in {0, 1}
       /\ \A f \in Futures' :
             f.st = "queued" /\ <<f.node, f.iter>> \in DOMAIN ran' => ran'[<<f.node, f.iter>>] = 0
  BY <1>1, <1>4 DEF Keyed
<1> QED
  BY <1>8, <1>9, <1>10, <1>11, <1>12 DEF Keyed

LEMMA KeyedSubmits ==
    ASSUME Typed, Keyed, Submit
    PROVE  Keyed'
<1> DEFINE New == {[node |-> n, iter |-> iteration[n], no |-> submitted + Before(n) + 1,
                    st |-> "queued"] : n \in Allowed}
<1>1. /\ UNCHANGED <<bp, iteration, zombies, ran, dormant>>
      /\ pending' = pending \ Ready /\ running' = running \cup New
  BY DEF Submit, loopVars
<1>2. Allowed \subseteq Ready /\ Ready \subseteq pending
  BY DEF Allowed, Ready
<1>3. iteration \in [bp.nodes -> Nat] /\ pending \subseteq bp.nodes /\ dormant \cap pending = {}
  BY TypedFacts DEF Typed, DagTypeOK
<1>4. \A f \in New : f.node \in Allowed /\ f.iter = iteration[f.node] /\ f.st = "queued"
                     /\ f = [node |-> f.node, iter |-> iteration[f.node],
                             no |-> submitted + Before(f.node) + 1, st |-> "queued"]
  OBVIOUS
<1> HIDE DEF New
<1>5. Futures' = Futures \cup New /\ Waiting' \subseteq Waiting \ Allowed
  BY <1>1, <1>2, <1>3 DEF Futures, Waiting
<1>6. Allowed \subseteq Waiting /\ Allowed \subseteq bp.nodes
  BY <1>2, <1>3 DEF Waiting
<1>7. \A f \in New, g \in Futures : f.node = g.node => f.iter # g.iter
  BY <1>4, <1>6 DEF Keyed
<1>8. \A f, g \in New : f.node = g.node => f = g
  BY <1>4
<1>9. \A f, g \in Futures' : f.node = g.node /\ f.iter = g.iter => f = g
  BY <1>5, <1>7, <1>8 DEF Keyed
<1>10. running' \cap zombies' = {}
  BY <1>1, <1>7 DEF Keyed, Futures
<1>11. \A f \in Futures' : f.node \in bp'.nodes /\ f.iter \in 0 .. iteration'[f.node]
  BY <1>1, <1>3, <1>4, <1>5, <1>6 DEF Keyed
<1>12. \A n \in Waiting', f \in Futures' : f.node = n => f.iter # iteration'[n]
  BY <1>1, <1>4, <1>5 DEF Keyed
<1>13. \A f \in Futures' :
          f.st = "queued" /\ <<f.node, f.iter>> \in DOMAIN ran' => ran'[<<f.node, f.iter>>] = 0
  BY <1>1, <1>4, <1>5, <1>6 DEF Keyed
<1>14. /\ \A k \in DOMAIN ran' : ran'[k] \in {0, 1}
       /\ \A k \in DOMAIN ran' : k[2] > iteration'[k[1]] => ran'[k] = 0
       /\ \A n \in Waiting' : <<n, iteration'[n]>> \in DOMAIN ran' => ran'[<<n, iteration'[n]>>] = 0
  BY <1>1, <1>5 DEF Keyed
<1> QED
  BY <1>9, <1>10, <1>11, <1>12, <1>13, <1>14 DEF Keyed

\* A future that goes on keeps its key.
LEMMA KeyedGoesOn ==
    ASSUME Typed, Keyed, NEW f \in Futures,
           NEW g, g.node = f.node, g.iter = f.iter, g.st # "queued",
           Futures' = (Futures \ {f}) \cup {g}, running' \cap zombies' = {},
           UNCHANGED <<bp, iteration, pending, dormant>>,
           ran' = ran \/ (f.st = "queued" /\ ran' = [ran EXCEPT ![<<f.node, f.iter>>] = @ + 1])
    PROVE  Keyed'
<1>1. g.node = f.node /\ g.iter = f.iter /\ g.st # "queued"
  OBVIOUS
<1>2. Waiting' = Waiting /\ DOMAIN ran' = DOMAIN ran
  BY DEF Waiting
<1>3. \A h \in Futures' : (h \in Futures /\ h # f) \/ h = g
  OBVIOUS
<1>4. \A h, i \in Futures' : h.node = i.node /\ h.iter = i.iter => h = i
  <2>1. \A h, i \in Futures : h.node = i.node /\ h.iter = i.iter => h = i
    BY DEF Keyed
  <2> QED
    BY <1>1, <1>3, <2>1
<1>5. \A h \in Futures' : h.node \in bp'.nodes /\ h.iter \in 0 .. iteration'[h.node]
  BY <1>1 DEF Keyed
<1>6. \A n \in Waiting', h \in Futures' : h.node = n => h.iter # iteration'[n]
  <2>1. \A n \in Waiting, h \in Futures : h.node = n => h.iter # iteration[n]
    BY DEF Keyed
  <2>2. iteration' = iteration
    OBVIOUS
  <2> QED
    BY <1>1, <1>2, <1>3, <2>1, <2>2
<1> DEFINE key == <<f.node, f.iter>>
<1>7. \A k \in DOMAIN ran : k # key => ran'[k] = ran[k]
  OBVIOUS
<1>8. key \in DOMAIN ran => ran'[key] = ran[key] \/ (ran[key] = 0 /\ ran'[key] = 1)
  BY DEF Keyed
<1>9. \A k \in DOMAIN ran' : ran'[k] \in {0, 1}
  BY <1>2, <1>7, <1>8 DEF Keyed
<1>10. ~(key[2] > iteration[key[1]])
  <2>1. f.iter \in 0 .. iteration[f.node] /\ f.node \in bp.nodes /\ iteration[f.node] \in Nat
    BY TypedFacts DEF Keyed
  <2> QED
    BY <2>1
<1>11. \A k \in DOMAIN ran' : k[2] > iteration'[k[1]] => ran'[k] = 0
  BY <1>2, <1>7, <1>10 DEF Keyed
<1>12. \A n \in Waiting : <<n, iteration[n]>> # key
  BY DEF Keyed
<1>13. \A n \in Waiting' : <<n, iteration'[n]>> \in DOMAIN ran' => ran'[<<n, iteration'[n]>>] = 0
  BY <1>2, <1>7, <1>12 DEF Keyed
<1>14. \A h \in Futures' :
          h.st = "queued" /\ <<h.node, h.iter>> \in DOMAIN ran' => ran'[<<h.node, h.iter>>] = 0
  <2> SUFFICES ASSUME NEW h \in Futures', h.st = "queued", <<h.node, h.iter>> \in DOMAIN ran
               PROVE  ran'[<<h.node, h.iter>>] = 0
    BY <1>2
  <2>1. h \in Futures /\ h # f
    BY <1>1
  <2>2. <<h.node, h.iter>> # key
    BY <2>1 DEF Keyed
  <2> QED
    BY <1>7, <2>1, <2>2 DEF Keyed
<1> QED
  BY <1>4, <1>5, <1>6, <1>9, <1>11, <1>13, <1>14 DEF Keyed

LEMMA FutureGoesOn ==
    ASSUME NEW f \in Future, NEW s \in {"executing"} \cup Results, NEW g, g = [f EXCEPT !.st = s]
    PROVE  /\ g \in Future /\ g.node = f.node /\ g.iter = f.iter /\ g.st = s /\ g.st # "queued"
           /\ f.st \in {"queued", "executing"} \cup Results
BY DEF Future, Results

-----------------------------------------------------------------------------
\* THE BACKSTOP

\* A finite set of natural numbers that is not empty has a greatest element.
LEMMA GreatestNumber ==
    ASSUME NEW T, T \subseteq Nat, T # {}, IsFiniteSet(T)
    PROVE  \E x \in T : \A y \in T : y <= x
<1> DEFINE Has(u) == \E x \in u : \A y \in u : y <= x
           C == {u \in SUBSET T : u # {} /\ ~Has(u)}
<1> SUFFICES ASSUME C # {} PROVE FALSE
  OBVIOUS
<1>1. \A u \in C : IsFiniteSet(u)
  BY FS_Subset
<1> HIDE DEF C
<1>2. PICK u \in C : \A v \in C : Cardinality(u) <= Cardinality(v)
  BY <1>1, Smallest
<1>3. u \subseteq Nat /\ u # {} /\ ~Has(u) /\ u \subseteq T
  BY DEF C
<1>4. PICK x \in u : TRUE
  BY <1>3
<1>5. Cardinality(u \ {x}) < Cardinality(u) /\ Cardinality(u) \in Nat /\ Cardinality(u \ {x}) \in Nat
  BY <1>1, Without, FS_CardinalityType
<1>6. u \ {x} \notin C
  BY <1>2, <1>5
<1>7. u \ {x} = {} \/ Has(u \ {x})
  BY <1>3, <1>6 DEF C
<1>8. CASE u \ {x} = {}
  BY <1>3, <1>8
<1>9. CASE Has(u \ {x})
  <2>1. PICK y \in u \ {x} : \A z \in u \ {x} : z <= y
    BY <1>9
  <2>2. CASE x <= y
    BY <1>3, <2>1, <2>2
  <2>3. CASE ~(x <= y)
    BY <1>3, <2>1, <2>3
  <2> QED
    BY <2>2, <2>3
<1> QED
  BY <1>7, <1>8, <1>9

\* What is submitted in one turn stays within max_total_actions, and reaches it when a ready
\* action is refused.
LEMMA Backstop ==
    ASSUME Typed
    PROVE  /\ IsFiniteSet(Allowed) /\ Cardinality(Allowed) \in Nat
           /\ submitted + Cardinality(Allowed) <= MaxTotal
           /\ Ready # Allowed => submitted + Cardinality(Allowed) = MaxTotal
<1>1. Ready \subseteq Nat /\ IsFiniteSet(Ready) /\ Allowed \subseteq Ready
  <2>1. pending \subseteq Nat /\ IsFiniteSet(pending) /\ Ready \subseteq pending
    BY BlueprintTypes, TypedFacts, FS_Subset DEF Typed, Ready
  <2> QED
    BY <2>1, FS_Subset DEF Allowed
<1>2. submitted \in Nat /\ MaxTotal \in Nat /\ submitted <= MaxTotal
  BY LimitsAssumption DEF Typed, DagTypeOK
<1>3. IsFiniteSet(Allowed) /\ Cardinality(Allowed) \in Nat
  BY <1>1, FS_Subset, FS_CardinalityType
<1>4. \A n : IsFiniteSet({m \in Ready : m < n}) /\ Before(n) \in Nat
  <2> SUFFICES ASSUME NEW n PROVE IsFiniteSet({m \in Ready : m < n}) /\ Before(n) \in Nat
    OBVIOUS
  <2>1. IsFiniteSet({m \in Ready : m < n})
    BY <1>1, FS_Subset
  <2> QED
    BY <2>1, FS_CardinalityType DEF Before
<1>5. \A n \in Ready : n \in Allowed <=> submitted + Before(n) < MaxTotal
  BY DEF Allowed
<1>6. submitted + Cardinality(Allowed) <= MaxTotal
  <2>1. CASE Allowed = {}
    BY <1>2, <2>1, FS_EmptySet
  <2>2. CASE Allowed # {}
    <3>1. PICK a \in Allowed : \A y \in Allowed : y <= a
      BY <1>1, <1>3, <2>2, GreatestNumber
    <3> DEFINE B == {m \in Ready : m < a}
    <3>2. Allowed \subseteq B \cup {a}
      BY <1>1, <3>1
    <3>3. IsFiniteSet(B) /\ Before(a) = Cardinality(B) /\ a \notin B
      BY <1>1, <1>4, <3>1 DEF Before
    <3> HIDE DEF B
    <3>4. IsFiniteSet(B \cup {a}) /\ Cardinality(B \cup {a}) = Before(a) + 1
      BY <3>3, FS_AddElement
    <3>5. Cardinality(Allowed) <= Before(a) + 1
      BY <3>2, <3>4, FS_Subset
    <3>6. submitted + Before(a) < MaxTotal /\ Before(a) \in Nat
      BY <1>1, <1>4, <1>5, <3>1
    <3> QED
      BY <1>2, <1>3, <3>5, <3>6
  <2> QED
    BY <2>1, <2>2
<1>7. ASSUME Ready # Allowed PROVE submitted + Cardinality(Allowed) = MaxTotal
  <2>1. Ready \ Allowed # {} /\ Ready \ Allowed \subseteq Nat
    BY <1>1, <1>7
  <2>2. PICK n \in Ready \ Allowed : \A y \in Ready \ Allowed : n <= y
    BY <2>1, LeastNumber
  <2> DEFINE B == {m \in Ready : m < n}
  <2>3. B \subseteq Allowed
    <3> SUFFICES ASSUME NEW m \in Ready, m < n, m \notin Allowed PROVE FALSE
      OBVIOUS
    <3>1. n <= m /\ n \in Nat /\ m \in Nat
      BY <1>1, <2>2
    <3> QED
      BY <3>1
  <2>4. Cardinality(B) = Before(n)
    BY DEF Before
  <2> HIDE DEF B
  <2>5. Before(n) <= Cardinality(Allowed)
    BY <1>3, <2>3, <2>4, FS_Subset
  <2>6. ~(submitted + Before(n) < MaxTotal) /\ Before(n) \in Nat
    BY <1>4, <1>5, <2>2
  <2> QED
    BY <1>2, <1>3, <1>6, <2>5, <2>6
<1> QED
  BY <1>3, <1>6, <1>7
-----------------------------------------------------------------------------
\* TYPES

LEMMA TypedAtInit == DagInit => Typed
<1> SUFFICES ASSUME DagInit PROVE Typed
  OBVIOUS
<1>1. BlueprintHolds
  BY DEF DagInit, BlueprintHolds
<1>2. IsFiniteSet(running)
  BY FS_EmptySet DEF DagInit
<1>3. into \in [bp.nodes -> SUBSET [source : bp.nodes, guard : BOOLEAN]]
  <2>1. \A n \in bp.nodes :
           {[source |-> e.source, guard |-> e.guard] : e \in {x \in bp.edges : x.target = n}}
              \subseteq [source : bp.nodes, guard : BOOLEAN]
    BY <1>1, BlueprintTypes
  <2> QED
    BY <2>1 DEF DagInit
<1>4. RepairNodes(bp) \subseteq bp.nodes
  BY <1>1, BlueprintTypes DEF RepairNodes
<1>5. 0 \in 0 .. MaxTotal /\ 0 \in 0 .. MaxTimeouts
  BY LimitsAssumption
<1>6. DagTypeOK /\ dormant \subseteq RepairNodes(bp)
  BY <1>3, <1>4, <1>5 DEF DagInit, DagTypeOK, Statuses, Bad
<1> QED
  BY <1>1, <1>2, <1>6 DEF Typed

LEMMA TypedPlans ==
    ASSUME Typed, Submit
    PROVE  /\ running' \subseteq Future /\ IsFiniteSet(running')
           /\ submitted' \in 0 .. MaxTotal
<1> DEFINE New == {[node |-> n, iter |-> iteration[n], no |-> submitted + Before(n) + 1,
                    st |-> "queued"] : n \in Allowed}
           f == [n \in Allowed |-> [node |-> n, iter |-> iteration[n],
                                    no |-> submitted + Before(n) + 1, st |-> "queued"]]
<1>1. running' = running \cup New /\ submitted' = submitted + Cardinality(Allowed)
  BY DEF Submit
<1>2. Allowed \subseteq Ready /\ Ready \subseteq bp.nodes /\ bp.nodes \subseteq Nodes
  BY BlueprintTypes, TypedFacts DEF Allowed, Ready, Typed
<1>3. \A n \in Allowed : Before(n) \in Nat
  <2> SUFFICES ASSUME NEW n PROVE Cardinality({m \in Ready : m < n}) \in Nat
    BY DEF Before
  <2>1. IsFiniteSet(Ready)
    BY <1>2, BlueprintTypes, FS_Subset DEF Typed
  <2>2. IsFiniteSet({m \in Ready : m < n})
    BY <2>1, FS_Subset
  <2> QED
    BY <2>2, FS_CardinalityType
<1>4. submitted \in Nat /\ iteration \in [bp.nodes -> Nat]
  BY LimitsAssumption DEF Typed, DagTypeOK
<1>5. New \subseteq Future
  BY <1>2, <1>3, <1>4 DEF Future
<1>6. IsFiniteSet(New)
  <2>1. f \in Surjection(Allowed, New)
    BY DEF Surjection
  <2>2. IsFiniteSet(Allowed)
    BY Backstop
  <2> HIDE DEF f, New
  <2> QED
    BY <2>1, <2>2, FS_Surjection
<1>7. submitted' \in 0 .. MaxTotal
  BY <1>1, <1>4, Backstop, LimitsAssumption
<1> HIDE DEF New
<1> QED
  BY <1>1, <1>5, <1>6, <1>7, FS_Union, TypedFacts DEF Typed

LEMMA TypedCollects ==
    ASSUME Typed, Collect
    PROVE  DagTypeOK' /\ IsFiniteSet(running')
<1>0. DagTypeOK /\ IsFiniteSet(running) /\ BlueprintHolds
  BY DEF Typed
<1>1. PICK late \in SUBSET (running \ Done) :
         /\ timeouts + Cardinality(late) <= MaxTimeouts
         /\ timeouts' = timeouts + Cardinality(late)
         /\ zombies' = zombies \cup late
         /\ running' = running \ (late \cup Done)
         /\ \E S \in Settling(late \cup Done, late) :
               LET Of(n, r) == \E f \in S : f.node = n /\ f.st = r
                   In(n, B) == \E f \in S \cap B : f.node = n
               IN  /\ status' = [n \in bp.nodes |->
                                    IF In(n, late) \/ Of(n, "fail") THEN "failed"
                                    ELSE IF In(n, Done) THEN "succeeded" ELSE status[n]]
                   /\ evidence' = [n \in bp.nodes |->
                                    IF Of(n, "yes") THEN "yes"
                                    ELSE IF In(n, S) THEN "no" ELSE evidence[n]]
  BY DEF Collect
<1>2. status' \in [bp.nodes -> Statuses] /\ evidence' \in [bp.nodes -> {"none", "yes", "no"}]
  BY <1>0, <1>1 DEF DagTypeOK, Statuses, Bad
<1>3. timeouts' \in 0 .. MaxTimeouts
  <2>1. Cardinality(late) \in Nat
    BY <1>0, FS_Subset, FS_CardinalityType
  <2> QED
    BY <1>0, <1>1, <2>1, LimitsAssumption DEF DagTypeOK
<1>4. running' \subseteq Future /\ zombies' \subseteq Future /\ IsFiniteSet(running')
  BY <1>0, <1>1, FS_Subset DEF DagTypeOK
<1>5. /\ UNCHANGED <<bp, into, pending, dormant, iteration, passes, loopsDone, turnVars, submitted, ran>>
      /\ pc' = "top"
      /\ tailEvents' = tailEvents \cup UNION {TailsOf(f.node) : f \in {g \in Done : g.st # "fail"}}
  BY DEF Collect, Goto
<1>6. tailEvents' \subseteq bp.loops
  BY <1>0, <1>5 DEF DagTypeOK, TailsOf
<1> QED
  BY <1>0, <1>2, <1>3, <1>4, <1>5, <1>6 DEF DagTypeOK, turnVars

LEMMA TypedActivates ==
    ASSUME Typed, Activate
    PROVE  DagTypeOK' /\ running' = running
<1>0. DagTypeOK
  BY DEF Typed
<1>1. Woken \subseteq dormant /\ Retired \subseteq dormant /\ \A t : Substitutes(t) \subseteq Woken
  BY DEF Woken, Retired, Substitutes
<1>2. into' \in [bp.nodes -> SUBSET [source : bp.nodes, guard : BOOLEAN]]
  <2>1. \A n \in bp.nodes : \A e \in into[n] :
           {[source |-> r, guard |-> e.guard] : r \in Substitutes(e.source)}
              \subseteq [source : bp.nodes, guard : BOOLEAN]
    <3> SUFFICES ASSUME NEW n \in bp.nodes, NEW e \in into[n], NEW r \in Substitutes(e.source)
                 PROVE  r \in bp.nodes /\ e.guard \in BOOLEAN
      OBVIOUS
    <3>1. r \in bp.nodes
      BY <1>0, <1>1 DEF DagTypeOK
    <3>2. e \in [source : bp.nodes, guard : BOOLEAN]
      BY <1>0 DEF DagTypeOK
    <3> QED
      BY <3>1, <3>2
  <2>2. \A n \in bp.nodes :
           {e \in into[n] : Substitutes(e.source) = {}} \subseteq [source : bp.nodes, guard : BOOLEAN]
    BY <1>0 DEF DagTypeOK
  <2>3. into' = [n \in bp.nodes |->
                    {e \in into[n] : Substitutes(e.source) = {}} \cup
                    UNION {{[source |-> r, guard |-> e.guard] : r \in Substitutes(e.source)} :
                               e \in into[n]}]
    BY DEF Activate
  <2> QED
    BY <2>1, <2>2, <2>3
<1>3. status' \in [bp.nodes -> Statuses]
  BY <1>0 DEF Activate, DagTypeOK, Statuses
<1>4. /\ pending' \subseteq bp.nodes /\ dormant' \subseteq bp.nodes \ pending' /\ toSweep' \subseteq bp.nodes
      /\ changed' \in BOOLEAN /\ pc' = "sweep"
  BY <1>0, <1>1 DEF Activate, DagTypeOK, Goto
<1>5. UNCHANGED <<bp, evidence, loopVars, poolVars, progressed, submitted, timeouts, ran>>
  BY DEF Activate
<1> QED
  BY <1>0, <1>2, <1>3, <1>4, <1>5 DEF DagTypeOK, loopVars, poolVars

LEMMA TypedStarts ==
    ASSUME Typed, Start \/ End
    PROVE  DagTypeOK' /\ IsFiniteSet(running')
<1>0. DagTypeOK /\ IsFiniteSet(running)
  BY DEF Typed
<1> DEFINE g(f, s) == [f EXCEPT !.st = s]
<1>1. PICK f \in running \cup zombies, s \in {"executing"} \cup Results :
         /\ running' \subseteq running \cup {g(f, s)} /\ zombies' \subseteq zombies \cup {g(f, s)}
         /\ ran' = ran \/ ran' = [ran EXCEPT ![<<f.node, f.iter>>] = @ + 1]
         /\ UNCHANGED <<bp, pc, graphVars, loopVars, turnVars, submitted, timeouts>>
  BY DEF Start, End, Queued, Executing, Begun
<1>2. f \in Future
  BY <1>0 DEF DagTypeOK
<1>3. g(f, s) \in Future
  BY <1>1, <1>2, FutureGoesOn
<1>4. ran' \in [bp.nodes \X (0 .. MaxTotal) -> Nat]
  BY <1>0, <1>1 DEF DagTypeOK
<1>5. running' \subseteq Future /\ zombies' \subseteq Future /\ IsFiniteSet(running')
  <2>1. IsFiniteSet(running \cup {g(f, s)})
    BY <1>0, FS_AddElement
  <2> QED
    BY <1>0, <1>1, <1>3, <2>1, FS_Subset DEF DagTypeOK
<1>6. UNCHANGED <<bp, pc, graphVars, loopVars, turnVars, submitted, timeouts>>
  BY <1>1
<1> QED
  BY <1>0, <1>4, <1>5, <1>6 DEF DagTypeOK, graphVars, loopVars, turnVars

LEMMA Unmoved == [DagNext]_dagVars => bp' = bp
BY DEF DagNext, Runner, Turn, JudgeStale, JudgeContinue, JudgeExit, JudgeExhausted, JudgedAll,
       Activate, Sweep, Swept, Submit, NothingReady, Collect, Drained, Start, End, dagVars

LEMMA DormantShrinks ==
    ASSUME [DagNext]_dagVars
    PROVE  dormant' \subseteq dormant
BY DEF DagNext, Runner, Turn, JudgeStale, JudgeContinue, JudgeExit, JudgeExhausted, JudgedAll,
       Activate, Sweep, Swept, Submit, NothingReady, Collect, Drained, Start, End, dagVars,
       graphVars

LEMMA TypedStep == Typed /\ [DagNext]_dagVars => Typed'
<1> SUFFICES ASSUME Typed, [DagNext]_dagVars PROVE Typed'
  OBVIOUS
<1>0. /\ DagTypeOK /\ IsFiniteSet(running) /\ BlueprintHolds
      /\ \A l \in bp.loops : Region(bp, l) \subseteq bp.nodes
      /\ \A l \in bp.loops : l.tail \in bp.nodes
  BY BlueprintTypes DEF Typed
<1>1. BlueprintHolds' /\ dormant' \subseteq RepairNodes(bp)'
  BY <1>0, Unmoved, DormantShrinks DEF BlueprintHolds, Typed
<1> SUFFICES DagTypeOK' /\ IsFiniteSet(running')
  BY <1>1 DEF Typed
<1>2. CASE Turn \/ JudgedAll \/ Swept \/ Drained \/ UNCHANGED dagVars
  BY <1>0, <1>2 DEF Turn, JudgedAll, Swept, Drained, Goto, graphVars, loopVars, poolVars, turnVars,
                    dagVars, DagTypeOK
<1>3. ASSUME NEW l \in bp.loops, JudgeStale(l) \/ JudgeExit(l) PROVE DagTypeOK' /\ IsFiniteSet(running')
  <2>1. /\ UNCHANGED <<bp, pc, graphVars, iteration, poolVars, toSweep, changed, submitted, timeouts, ran>>
        /\ tailEvents' \subseteq tailEvents /\ loopsDone' \subseteq loopsDone \cup {l}
        /\ progressed' = progressed \/ progressed' = TRUE
        /\ passes' = passes \/ passes' = [passes EXCEPT ![l] = passes[l] + 1]
    BY <1>3 DEF JudgeStale, JudgeExit, turnVars
  <2>2. passes' \in [bp.loops -> Nat]
    BY <1>0, <2>1 DEF DagTypeOK
  <2> QED
    BY <1>0, <2>1, <2>2 DEF graphVars, poolVars, DagTypeOK
<1>4. ASSUME NEW l \in bp.loops, JudgeExhausted(l) PROVE DagTypeOK' /\ IsFiniteSet(running')
  BY <1>0, <1>4 DEF JudgeExhausted, SettleUnrun, graphVars, loopVars, poolVars, turnVars, DagTypeOK,
                    Statuses, Bad
<1>5. ASSUME NEW l \in bp.loops, JudgeContinue(l) PROVE DagTypeOK' /\ IsFiniteSet(running')
  <2>1. status' \in [bp.nodes -> Statuses] /\ evidence' \in [bp.nodes -> {"none", "yes", "no"}]
    BY <1>0, <1>5 DEF JudgeContinue, Statuses, DagTypeOK
  <2>2. pending' \subseteq bp.nodes /\ dormant' \subseteq bp.nodes \ pending'
    <3>1. dormant \cap Region(bp, l) = {}
      BY Regions DEF Typed
    <3> QED
      BY <1>0, <1>5, <3>1 DEF JudgeContinue, DagTypeOK
  <2>3. iteration' \in [bp.nodes -> Nat] /\ passes' \in [bp.loops -> Nat]
    BY <1>0, <1>5 DEF JudgeContinue, DagTypeOK
  <2>4. loopsDone' \subseteq bp.loops /\ tailEvents' \subseteq bp.loops /\ progressed' \in BOOLEAN
    BY <1>0, <1>5 DEF JudgeContinue, DagTypeOK
  <2>5. UNCHANGED <<bp, pc, into, running, zombies, toSweep, changed, submitted, timeouts, ran>>
    BY <1>5 DEF JudgeContinue, poolVars
  <2> QED
    BY <1>0, <2>1, <2>2, <2>3, <2>4, <2>5 DEF DagTypeOK
<1>6. ASSUME NEW n \in bp.nodes, Sweep(n) PROVE DagTypeOK' /\ IsFiniteSet(running')
  <2>1. status' \in [bp.nodes -> Statuses] /\ evidence' \in [bp.nodes -> {"none", "yes", "no"}]
    <3>1. \/ UNCHANGED <<status, evidence>>
          \/ \E v \in {"cancelled", "skipped"} : SettleUnrun({n}, v)
      BY <1>6 DEF Sweep
    <3> QED
      BY <1>0, <3>1 DEF SettleUnrun, DagTypeOK, Statuses, Bad
  <2>2. /\ pending' \subseteq pending /\ changed' \in BOOLEAN /\ toSweep' \subseteq toSweep
        /\ UNCHANGED <<bp, pc, into, dormant, loopVars, poolVars, progressed, submitted, timeouts, ran>>
    BY <1>0, <1>6 DEF Sweep, DagTypeOK
  <2> QED
    BY <1>0, <2>1, <2>2 DEF DagTypeOK, loopVars, poolVars
<1>7. CASE Submit
  <2>1. status' \in [bp.nodes -> Statuses] /\ evidence' \in [bp.nodes -> {"none", "yes", "no"}]
    BY <1>0, <1>7 DEF Submit, DagTypeOK, Statuses, Bad
  <2>2. /\ pending' \subseteq pending /\ pc' \in {"top", "wait"}
        /\ UNCHANGED <<bp, into, dormant, loopVars, zombies, turnVars, timeouts, ran>>
    BY <1>7 DEF Submit, Goto
  <2> QED
    BY <1>0, <1>7, <2>1, <2>2, TypedPlans DEF DagTypeOK, loopVars, turnVars
<1>8. CASE NothingReady
  BY <1>0, <1>8 DEF NothingReady, SettleUnrun, Goto, loopVars, poolVars, turnVars, DagTypeOK, Statuses, Bad
<1>9. CASE Collect
  BY <1>9, TypedCollects
<1>10. CASE Activate
  BY <1>0, <1>10, TypedActivates
<1>11. CASE Start \/ End
  BY <1>11, TypedStarts
<1> QED
  BY <1>2, <1>3, <1>4, <1>5, <1>6, <1>7, <1>8, <1>9, <1>10, <1>11 DEF DagNext, Runner

LEMMA TypedHolds == DagSpec => []Typed
BY TypedAtInit, TypedStep, PTL DEF DagSpec

-----------------------------------------------------------------------------
\* THE KEYS, STEP BY STEP

LEMMA KeyedAtInit == DagInit => Keyed
<1> SUFFICES ASSUME DagInit PROVE Keyed
  OBVIOUS
<1>1. Futures = {} /\ \A k \in DOMAIN ran : ran[k] = 0
  BY DEF DagInit, Futures
<1>2. running \cap zombies = {}
  BY DEF DagInit
<1> QED
  BY <1>1, <1>2 DEF Keyed

LEMMA KeyedStarts ==
    ASSUME Typed, Keyed, Start
    PROVE  Keyed'
<1>1. PICK f \in Queued :
         /\ running' = IF f \in running THEN (running \ {f}) \cup {Begun(f)} ELSE running
         /\ zombies' = IF f \in zombies THEN (zombies \ {f}) \cup {Begun(f)} ELSE zombies
         /\ ran' = [ran EXCEPT ![<<f.node, f.iter>>] = @ + 1]
  BY DEF Start
<1>2. UNCHANGED <<bp, iteration, pending, dormant>>
  BY DEF Start, graphVars, loopVars
<1>3. f \in Futures /\ f.st = "queued" /\ f \in Future
  BY TypedFacts DEF Queued, Futures
<1>4. PICK g : g = Begun(f)
  OBVIOUS
<1>5. g.node = f.node /\ g.iter = f.iter /\ g.st # "queued"
  BY <1>3, <1>4, FutureGoesOn DEF Begun
<1>6. \A h \in Futures : h.node = f.node /\ h.iter = f.iter => h = f
  BY <1>3 DEF Keyed
<1>7. g # f /\ g \notin Futures
  BY <1>3, <1>5, <1>6
<1>8. running \cap zombies = {}
  BY DEF Keyed
<1>9. Futures' = (Futures \ {f}) \cup {g}
  <2>1. CASE f \in running
    BY <1>1, <1>4, <1>8, <2>1 DEF Futures
  <2>2. CASE f \in zombies
    BY <1>1, <1>4, <1>8, <2>2 DEF Futures
  <2> QED
    BY <1>3, <2>1, <2>2 DEF Futures
<1>10. running' \cap zombies' = {}
  BY <1>1, <1>4, <1>7, <1>8 DEF Futures
<1>11. g.node = f.node
  BY <1>5
<1>12. g.iter = f.iter
  BY <1>5
<1>13. g.st # "queued"
  BY <1>5
<1>14. ran' = ran \/ (f.st = "queued" /\ ran' = [ran EXCEPT ![<<f.node, f.iter>>] = @ + 1])
  BY <1>1, <1>3
<1>15. f \in Futures
  BY <1>3
<1> QED
  BY <1>2, <1>9, <1>10, <1>11, <1>12, <1>13, <1>14, <1>15, KeyedGoesOn

LEMMA KeyedEnds ==
    ASSUME Typed, Keyed, End
    PROVE  Keyed'
<1>1. PICK f \in Executing :
         \/ /\ f \in zombies
            /\ zombies' = zombies \ {f} /\ UNCHANGED running
         \/ /\ f \in running
            /\ \E r \in Results : running' = (running \ {f}) \cup {[f EXCEPT !.st = r]}
            /\ UNCHANGED zombies
  BY DEF End
<1>2. UNCHANGED <<bp, iteration, pending, dormant, ran>>
  BY DEF End, graphVars, loopVars
<1>3. f \in Futures /\ f.st = "executing" /\ f \in Future
  BY TypedFacts DEF Executing, Futures
<1>4. running \cap zombies = {}
  BY DEF Keyed
<1>5. CASE f \in zombies
  <2>1. f \notin running
    BY <1>4, <1>5
  <2>2. running' \cup zombies' \subseteq Futures /\ running' \cap zombies' = {}
    BY <1>1, <1>4, <2>1 DEF Futures
  <2> QED
    BY <1>2, <2>2, KeyedShrinks DEF Waiting
<1>6. CASE f \notin zombies
  <2>1. PICK r \in Results : running' = (running \ {f}) \cup {[f EXCEPT !.st = r]}
    BY <1>1, <1>6
  <2>2. PICK g : g = [f EXCEPT !.st = r]
    OBVIOUS
  <2>3. g.node = f.node /\ g.iter = f.iter /\ g.st = r /\ g.st # "queued"
    BY <1>3, <2>2, FutureGoesOn
  <2>4. \A h \in Futures : h.node = f.node /\ h.iter = f.iter => h = f
    BY <1>3 DEF Keyed
  <2>5. g # f /\ g \notin Futures
    BY <1>3, <2>3, <2>4 DEF Results
  <2>6. Futures' = (Futures \ {f}) \cup {g} /\ running' \cap zombies' = {}
    BY <1>1, <1>4, <1>6, <2>1, <2>2, <2>5 DEF Futures
  <2>7. g.node = f.node
    BY <2>3
  <2>8. g.iter = f.iter
    BY <2>3
  <2>9. g.st # "queued"
    BY <2>3
  <2>10. ran' = ran /\ f \in Futures
    BY <1>2, <1>3
  <2> QED
    BY <1>2, <2>6, <2>7, <2>8, <2>9, <2>10, KeyedGoesOn
<1> QED
  BY <1>5, <1>6

LEMMA KeyedStep == Typed /\ Keyed /\ [DagNext]_dagVars => Keyed'
<1> SUFFICES ASSUME Typed, Keyed, [DagNext]_dagVars PROVE Keyed'
  OBVIOUS
<1>0. running \cap zombies = {} /\ dormant \subseteq bp.nodes /\ pending \subseteq bp.nodes
  BY TypedFacts DEF Keyed
<1>1. CASE Turn \/ JudgedAll \/ Swept \/ Drained \/ UNCHANGED dagVars
  BY <1>0, <1>1, KeyedShrinks DEF Turn, JudgedAll, Swept, Drained, graphVars, loopVars, poolVars,
                                  dagVars, Futures, Waiting
<1>2. ASSUME NEW l \in bp.loops, JudgeStale(l) \/ JudgeExit(l) \/ JudgeExhausted(l) PROVE Keyed'
  BY <1>0, <1>2, KeyedShrinks DEF JudgeStale, JudgeExit, JudgeExhausted, graphVars, poolVars,
                                  Futures, Waiting
<1>3. ASSUME NEW l \in bp.loops, JudgeContinue(l) PROVE Keyed'
  BY <1>3, KeyedContinues
<1>4. ASSUME NEW n \in bp.nodes, Sweep(n) PROVE Keyed'
  <2>1. pending' \subseteq pending
    BY <1>4 DEF Sweep
  <2>2. UNCHANGED <<bp, dormant, iteration, running, zombies, ran>>
    BY <1>4 DEF Sweep, loopVars, poolVars
  <2> QED
    BY <1>0, <2>1, <2>2, KeyedShrinks DEF Futures, Waiting
<1>5. CASE Submit
  BY <1>5, KeyedSubmits
<1>6. CASE NothingReady
  <2>1. pending' \subseteq pending /\ dormant' \subseteq dormant
    BY <1>6 DEF NothingReady
  <2>2. UNCHANGED <<bp, iteration, running, zombies, ran>>
    BY <1>6 DEF NothingReady, loopVars, poolVars
  <2> QED
    BY <1>0, <2>1, <2>2, KeyedShrinks DEF Futures, Waiting
<1>7. CASE Collect
  <2>1. UNCHANGED <<bp, iteration, ran, pending, dormant>>
    BY <1>7 DEF Collect
  <2>2. running' \cup zombies' \subseteq Futures /\ running' \cap zombies' = {}
    BY <1>0, <1>7 DEF Collect, Futures, Done
  <2> QED
    BY <2>1, <2>2, KeyedShrinks DEF Waiting
<1>8. CASE Activate
  <2>1. UNCHANGED <<bp, iteration, running, zombies, ran>>
    BY <1>8 DEF Activate, loopVars, poolVars
  <2>2. pending' \cup dormant' \subseteq Waiting
    BY <1>8 DEF Activate, Woken, Retired, Waiting
  <2> QED
    BY <1>0, <2>1, <2>2, KeyedShrinks DEF Futures
<1>9. CASE Start
  BY <1>9, KeyedStarts
<1>10. CASE End
  BY <1>10, KeyedEnds
<1> QED
  BY <1>1, <1>2, <1>3, <1>4, <1>5, <1>6, <1>7, <1>8, <1>9, <1>10 DEF DagNext, Runner

-----------------------------------------------------------------------------
\* THE SHAPE OF A RUN

\* An action without a status waits; a verified tail has its event, or its loop is over; an
\* edge is the blueprint's or comes from a repair.
Shape ==
    /\ \A n \in bp.nodes : status[n] = "none" => n \in Waiting
    /\ tailEvents \cap loopsDone = {}
    /\ \A l \in bp.loops : status[l.tail] = "succeeded" => l \in tailEvents \cup loopsDone
    /\ pc \notin {"top", "loops"} => tailEvents = {}
    /\ \A n \in bp.nodes : \A e \in into[n] :
          [source |-> e.source, target |-> n, guard |-> e.guard] \in bp.edges
            \/ e.source \in RepairNodes(bp)
    /\ \A e \in bp.edges : Repairs(bp, e.source) = {} =>
          [source |-> e.source, guard |-> e.guard] \in into[e.target]
    /\ \A n \in bp.nodes : Incoming(n) = {} => into[n] = {}

LEMMA ShapeAtInit == DagInit => Shape
<1> SUFFICES ASSUME DagInit PROVE Shape
  OBVIOUS
<1>0. \A e \in bp.edges : /\ e = [source |-> e.source, target |-> e.target, guard |-> e.guard]
                          /\ e.target \in bp.nodes
  BY BlueprintTypes, TypedAtInit DEF Typed
<1>1. \A n \in bp.nodes : into[n] = {[source |-> e.source, guard |-> e.guard] :
                                        e \in {x \in bp.edges : x.target = n}}
  BY DEF DagInit
<1>2. \A n \in bp.nodes : n \in Waiting
  BY DEF DagInit, Waiting
<1>3. \A l \in bp.loops : status[l.tail] # "succeeded"
  BY BlueprintTypes, TypedAtInit DEF DagInit, Typed
<1>4. tailEvents = {} /\ pc = "top"
  BY DEF DagInit
<1>5. \A n \in bp.nodes : \A e \in into[n] :
         [source |-> e.source, target |-> n, guard |-> e.guard] \in bp.edges
  <2> SUFFICES ASSUME NEW n \in bp.nodes, NEW e \in into[n]
               PROVE  [source |-> e.source, target |-> n, guard |-> e.guard] \in bp.edges
    OBVIOUS
  <2>1. PICK x \in bp.edges : x.target = n /\ e = [source |-> x.source, guard |-> x.guard]
    BY <1>1
  <2>2. e.source = x.source /\ e.guard = x.guard
    BY <2>1
  <2> QED
    BY <1>0, <2>1, <2>2
<1>6. \A e \in bp.edges : [source |-> e.source, guard |-> e.guard] \in into[e.target]
  BY <1>0, <1>1
<1>7. \A n \in bp.nodes : Incoming(n) = {} => into[n] = {}
  BY <1>1 DEF Incoming
<1> QED
  BY <1>2, <1>3, <1>4, <1>5, <1>6, <1>7 DEF Shape

\* The step changes no edge.
LEMMA ShapeKept ==
    ASSUME Typed, Shape, bp' = bp, into' = into, status' \in [bp.nodes -> Statuses],
           \A n \in bp.nodes : status'[n] = "none" => n \in Waiting',
           tailEvents' \cap loopsDone' = {},
           \A l \in bp.loops : status'[l.tail] = "succeeded" => l \in tailEvents' \cup loopsDone',
           pc' \notin {"top", "loops"} => tailEvents' = {}
    PROVE  Shape'
BY DEF Shape, Incoming

LEMMA ShapeActivates ==
    ASSUME Typed, Shape, Activate
    PROVE  Shape'
<1>0. /\ UNCHANGED <<bp, tailEvents, loopsDone>> /\ pc' = "sweep" /\ pc = "activate"
      /\ dormant' = dormant \ (Woken \cup Retired) /\ pending' = pending \cup Woken
      /\ status' = [n \in bp.nodes |->
                     IF n \notin Retired THEN status[n]
                     ELSE IF \A t \in Triggers(bp, n) : status[t] = "skipped"
                          THEN "skipped" ELSE "succeeded"]
      /\ into' = [n \in bp.nodes |->
                   {e \in into[n] : Substitutes(e.source) = {}} \cup
                   UNION {{[source |-> r, guard |-> e.guard] : r \in Substitutes(e.source)} :
                              e \in into[n]}]
  BY DEF Activate, loopVars, Goto
<1>1. /\ \A t : Substitutes(t) \subseteq RepairNodes(bp)
      /\ \A t : Repairs(bp, t) = {} => Substitutes(t) = {}
      /\ Woken \subseteq dormant /\ Retired \subseteq dormant
  <2>1. Woken \subseteq dormant /\ Retired \subseteq dormant
    BY DEF Woken, Retired
  <2>2. \A t : Substitutes(t) \subseteq Woken
    BY DEF Substitutes
  <2>3. \A t, n : n \in Substitutes(t) => t \in Triggers(bp, n)
    BY DEF Substitutes, Failed
  <2> QED
    BY <2>1, <2>2, <2>3, RepairFacts DEF Typed
<1>2. \A n \in bp.nodes : status'[n] = "none" => n \in Waiting'
  BY <1>0, <1>1 DEF Shape, Waiting
<1>3. \A l \in bp.loops : l.tail \in bp.nodes /\ l.tail \notin Retired
  BY <1>1, BlueprintTypes, Regions DEF Typed
<1>4. \A l \in bp.loops : status'[l.tail] = "succeeded" => l \in tailEvents' \cup loopsDone'
  <2> SUFFICES ASSUME NEW l \in bp.loops, status'[l.tail] = "succeeded"
               PROVE  l \in tailEvents \cup loopsDone
    BY <1>0
  <2>1. status'[l.tail] = status[l.tail]
    BY <1>0, <1>3
  <2> QED
    BY <2>1 DEF Shape
<1>5. \A n \in bp.nodes : \A e \in into'[n] :
         [source |-> e.source, target |-> n, guard |-> e.guard] \in bp.edges
            \/ e.source \in RepairNodes(bp)
  <2> SUFFICES ASSUME NEW n \in bp.nodes, NEW e \in into'[n], e.source \notin RepairNodes(bp)
               PROVE  [source |-> e.source, target |-> n, guard |-> e.guard] \in bp.edges
    OBVIOUS
  <2>1. \/ e \in into[n]
        \/ \E x \in into[n] : \E r \in Substitutes(x.source) : e = [source |-> r, guard |-> x.guard]
    BY <1>0
  <2>2. CASE e \in into[n]
    BY <2>2 DEF Shape
  <2>3. CASE \E x \in into[n] : \E r \in Substitutes(x.source) : e = [source |-> r, guard |-> x.guard]
    <3>1. PICK x \in into[n] : \E r \in Substitutes(x.source) : e = [source |-> r, guard |-> x.guard]
      BY <2>3
    <3>2. e.source \in Substitutes(x.source)
      BY <3>1
    <3> QED
      BY <1>1, <3>2
  <2> QED
    BY <2>1, <2>2, <2>3
<1>6. \A e \in bp.edges : Repairs(bp, e.source) = {} =>
         [source |-> e.source, guard |-> e.guard] \in into'[e.target]
  <2> SUFFICES ASSUME NEW e \in bp.edges, Repairs(bp, e.source) = {}
               PROVE  [source |-> e.source, guard |-> e.guard] \in into'[e.target]
    OBVIOUS
  <2>1. PICK x : x = [source |-> e.source, guard |-> e.guard]
    OBVIOUS
  <2>2. x \in into[e.target] /\ e.target \in bp.nodes
    BY <2>1, BlueprintTypes DEF Shape, Typed
  <2>3. x.source = e.source
    BY <2>1
  <2>4. Substitutes(x.source) = {}
    BY <1>1, <2>3
  <2> QED
    BY <1>0, <2>1, <2>2, <2>4
<1>7. \A n \in bp.nodes : Incoming(n) = {} => into'[n] = {}
  BY <1>0 DEF Shape
<1> QED
  BY <1>0, <1>2, <1>4, <1>5, <1>6, <1>7 DEF Shape, Incoming

LEMMA ShapeContinues ==
    ASSUME Typed, Shape, NEW l \in bp.loops, JudgeContinue(l)
    PROVE  Shape'
<1> DEFINE R == Region(bp, l)
<1>0. /\ UNCHANGED <<bp, into, dormant, pc>> /\ pc = "loops"
      /\ status' = [n \in bp.nodes |-> IF n \in R THEN "none" ELSE status[n]]
      /\ pending' = pending \cup R
      /\ loopsDone' = {k \in loopsDone : k = l \/ ~(Region(bp, k) \subseteq R)}
      /\ tailEvents' = {k \in tailEvents : k # l /\ k.tail \notin R}
  BY DEF JudgeContinue
<1>1. \A k \in bp.loops : k.tail \in bp.nodes /\ k.tail \in Region(bp, k)
  BY BlueprintTypes, Regions DEF Typed
<1>2. l.tail \in R
  BY <1>1
<1> HIDE DEF R
<1>3. \A n \in bp.nodes : status'[n] = "none" => n \in Waiting'
  BY <1>0 DEF Shape, Waiting
<1>4. \A k \in bp.loops : status'[k.tail] = "succeeded" => k \in tailEvents' \cup loopsDone'
  <2> SUFFICES ASSUME NEW k \in bp.loops, status'[k.tail] = "succeeded"
               PROVE  k \in tailEvents' \cup loopsDone'
    OBVIOUS
  <2>1. k.tail \notin R /\ status[k.tail] = "succeeded"
    BY <1>0, <1>1
  <2>2. k \in tailEvents \cup loopsDone /\ k # l /\ ~(Region(bp, k) \subseteq R)
    BY <1>1, <1>2, <2>1 DEF Shape
  <2> QED
    BY <1>0, <2>1, <2>2
<1>5. tailEvents' \cap loopsDone' = {}
  BY <1>0 DEF Shape
<1>6. status' \in [bp.nodes -> Statuses]
  BY <1>0, TypedFacts DEF Statuses
<1> QED
  BY <1>0, <1>3, <1>4, <1>5, <1>6, ShapeKept

LEMMA ShapeCollects ==
    ASSUME Typed, Shape, Collect
    PROVE  Shape'
<1>1. /\ UNCHANGED <<bp, into, pending, dormant, loopsDone>> /\ pc' = "top"
      /\ tailEvents' = tailEvents \cup UNION {TailsOf(f.node) : f \in {g \in Done : g.st # "fail"}}
      /\ \E late \in SUBSET (running \ Done) :
           \E S \in Settling(late \cup Done, late) :
                LET Of(n, r) == \E f \in S : f.node = n /\ f.st = r
                    In(n, B) == \E f \in S \cap B : f.node = n
                IN  status' = [n \in bp.nodes |->
                                     IF In(n, late) \/ Of(n, "fail") THEN "failed"
                                     ELSE IF In(n, Done) THEN "succeeded" ELSE status[n]]
  BY DEF Collect, Goto
<1>2. \A n \in bp.nodes :
         \/ status'[n] = "failed" \/ status'[n] = status[n]
         \/ status'[n] = "succeeded" /\ \E f \in Done : f.node = n /\ f.st # "fail"
  BY <1>1
<1>3. \A n \in bp.nodes : status'[n] = "none" => n \in Waiting'
  BY <1>1, <1>2 DEF Shape, Waiting
<1>4. tailEvents' \cap loopsDone' = {}
  BY <1>1 DEF Shape, TailsOf
<1>5. \A l \in bp.loops : status'[l.tail] = "succeeded" => l \in tailEvents' \cup loopsDone'
  <2> SUFFICES ASSUME NEW l \in bp.loops, status'[l.tail] = "succeeded", l \notin loopsDone
               PROVE  l \in tailEvents'
    BY <1>1
  <2>1. l.tail \in bp.nodes
    BY BlueprintTypes DEF Typed
  <2>2. CASE status'[l.tail] = status[l.tail]
    BY <1>1, <2>2 DEF Shape
  <2>3. CASE \E f \in Done : f.node = l.tail /\ f.st # "fail"
    <3>1. PICK f \in Done : f.node = l.tail /\ f.st # "fail"
      BY <2>3
    <3>2. l \in TailsOf(f.node)
      BY <3>1 DEF TailsOf
    <3> QED
      BY <1>1, <3>1, <3>2
  <2> QED
    BY <1>2, <2>1, <2>2, <2>3
<1>6. status' \in [bp.nodes -> Statuses]
  BY TypedCollects, <1>1 DEF DagTypeOK
<1> QED
  BY <1>1, <1>3, <1>4, <1>5, <1>6, ShapeKept

LEMMA ShapeStep == Typed /\ Shape /\ [DagNext]_dagVars => Shape'
<1> SUFFICES ASSUME Typed, Shape, [DagNext]_dagVars PROVE Shape'
  OBVIOUS
<1>0. /\ bp' = bp /\ status' \in [bp.nodes -> Statuses] /\ status \in [bp.nodes -> Statuses]
      /\ \A l \in bp.loops : l.tail \in bp.nodes
      /\ \A n \in bp.nodes : status[n] = "none" => n \in Waiting
      /\ tailEvents \cap loopsDone = {}
      /\ \A l \in bp.loops : status[l.tail] = "succeeded" => l \in tailEvents \cup loopsDone
      /\ pc \notin {"top", "loops"} => tailEvents = {}
  BY Unmoved, TypedStep, TypedFacts, BlueprintTypes DEF Typed, DagTypeOK, Shape
<1>1. CASE Turn \/ JudgedAll \/ Swept \/ Drained \/ Start \/ End \/ UNCHANGED dagVars
  <2>1. UNCHANGED <<into, status, pending, dormant, tailEvents, loopsDone>>
    BY <1>1 DEF Turn, JudgedAll, Swept, Drained, Start, End, dagVars, graphVars, loopVars
  <2>2. pc' \notin {"top", "loops"} => tailEvents' = {}
    BY <1>0, <1>1 DEF Turn, JudgedAll, Swept, Drained, Start, End, dagVars, graphVars, loopVars, Goto
  <2> QED
    BY <1>0, <2>1, <2>2, ShapeKept DEF Waiting
<1>2. ASSUME NEW l \in bp.loops, JudgeStale(l) \/ JudgeExit(l) PROVE Shape'
  <2>1. /\ UNCHANGED <<into, status, pending, dormant, pc>> /\ pc = "loops"
        /\ tailEvents' = tailEvents \ {l}
        /\ (loopsDone' = loopsDone /\ status[l.tail] # "succeeded") \/ loopsDone' = loopsDone \cup {l}
    BY <1>2 DEF JudgeStale, JudgeExit, graphVars, Live
  <2>2. tailEvents' \cap loopsDone' = {}
    BY <1>0, <2>1
  <2>3. \A k \in bp.loops : status'[k.tail] = "succeeded" => k \in tailEvents' \cup loopsDone'
    BY <1>0, <2>1
  <2> QED
    BY <1>0, <2>1, <2>2, <2>3, ShapeKept DEF Waiting
<1>3. ASSUME NEW l \in bp.loops, JudgeExhausted(l) PROVE Shape'
  <2>1. /\ UNCHANGED <<into, pending, dormant, pc>> /\ pc = "loops"
        /\ status' = [n \in bp.nodes |-> IF n \in {l.tail} THEN "failed" ELSE status[n]]
        /\ tailEvents' = tailEvents \ {l}
        /\ loopsDone' = loopsDone \cup {l}
    BY <1>3 DEF JudgeExhausted, SettleUnrun
  <2>2. tailEvents' \cap loopsDone' = {}
    BY <1>0, <2>1
  <2>3. \A k \in bp.loops : status'[k.tail] = "succeeded" => k \in tailEvents' \cup loopsDone'
    BY <1>0, <2>1
  <2>4. \A n \in bp.nodes : status'[n] = "none" => n \in Waiting'
    BY <1>0, <2>1 DEF Waiting
  <2> QED
    BY <1>0, <2>1, <2>2, <2>3, <2>4, ShapeKept
<1>4. ASSUME NEW l \in bp.loops, JudgeContinue(l) PROVE Shape'
  BY <1>4, ShapeContinues
<1>5. CASE Activate
  BY <1>5, ShapeActivates
<1>6. CASE Collect
  BY <1>6, ShapeCollects
<1>7. ASSUME /\ UNCHANGED <<into, tailEvents, loopsDone>> /\ pc \in {"sweep", "submit"}
             /\ \A n \in bp.nodes : status'[n] \in {status[n], "cancelled", "skipped", "planned"}
             /\ \A n \in Waiting : n \in Waiting' \/ status'[n] # "none"
      PROVE Shape'
  <2>1. \A n \in bp.nodes : status'[n] = "none" => n \in Waiting'
    BY <1>0, <1>7
  <2>2. \A k \in bp.loops : status'[k.tail] = "succeeded" => k \in tailEvents' \cup loopsDone'
    BY <1>0, <1>7
  <2>3. tailEvents' \cap loopsDone' = {} /\ (pc' \notin {"top", "loops"} => tailEvents' = {})
    BY <1>0, <1>7
  <2> QED
    BY <1>0, <1>7, <2>1, <2>2, <2>3, ShapeKept
<1>8. pending \subseteq bp.nodes /\ dormant \subseteq bp.nodes
  BY TypedFacts
<1>9. ASSUME NEW n \in bp.nodes, Sweep(n) PROVE Shape'
  <2>1. UNCHANGED <<into, tailEvents, loopsDone, dormant>> /\ pc = "sweep"
    BY <1>9 DEF Sweep, loopVars
  <2>2. \/ UNCHANGED <<status, pending>>
        \/ \E v \in {"cancelled", "skipped"} :
              /\ status' = [m \in bp.nodes |-> IF m \in {n} THEN v ELSE status[m]]
              /\ pending' = pending \ {n}
    BY <1>9 DEF Sweep, SettleUnrun
  <2>3. /\ \A m \in bp.nodes : status'[m] \in {status[m], "cancelled", "skipped"}
        /\ \A m \in Waiting : m \in Waiting' \/ status'[m] # "none"
    BY <1>8, <2>1, <2>2 DEF Waiting
  <2> QED
    BY <1>7, <2>1, <2>3
<1>10. CASE Submit
  <2>1. /\ UNCHANGED <<into, tailEvents, loopsDone, dormant>> /\ pc = "submit"
        /\ pending' = pending \ Ready
        /\ status' = [n \in bp.nodes |-> IF n \in Allowed THEN "planned"
                                         ELSE IF n \in Ready THEN "cancelled" ELSE status[n]]
    BY <1>10 DEF Submit, loopVars
  <2>2. /\ \A m \in bp.nodes : status'[m] \in {status[m], "cancelled", "planned"}
        /\ \A m \in Waiting : m \in Waiting' \/ status'[m] # "none"
    BY <1>8, <2>1 DEF Waiting
  <2> QED
    BY <1>7, <2>1, <2>2
<1>11. CASE NothingReady
  <2>1. UNCHANGED <<into, tailEvents, loopsDone>> /\ pc = "submit"
    BY <1>11 DEF NothingReady, loopVars
  <2>2. \/ UNCHANGED <<status, pending, dormant>>
        \/ /\ status' = [m \in bp.nodes |-> IF m \in pending \cup dormant THEN "cancelled" ELSE status[m]]
           /\ pending' = {} /\ dormant' = {}
    BY <1>11 DEF NothingReady, SettleUnrun
  <2>3. /\ \A m \in bp.nodes : status'[m] \in {status[m], "cancelled"}
        /\ \A m \in Waiting : m \in Waiting' \/ status'[m] # "none"
    BY <1>8, <2>2 DEF Waiting
  <2> QED
    BY <1>7, <2>1, <2>3
<1> QED
  BY <1>1, <1>2, <1>3, <1>4, <1>5, <1>6, <1>9, <1>10, <1>11 DEF DagNext, Runner

-----------------------------------------------------------------------------
\* WHAT A VERDICT RESTS ON

Settled(m) == status[m] \notin {"none", "planned"}

\* The loops that n, outside them, waits for through their tail m.
Over(m, n) == \A l \in bp.loops : l.tail = m /\ n \notin Region(bp, l) => l \in loopsDone

\* The edge's answer is final: its source is settled, in no loop that goes on, and waits for
\* no repair.
Fixed(n, e) ==
    /\ Settled(e.source)
    /\ status[e.source] = "succeeded" => Over(e.source, n)
    /\ status[e.source] \in Bad => Repairs(bp, e.source) \cap dormant = {}

\* Final answers that decide n's gate whatever the other sources come to.
Support(n) ==
    \/ \A e \in into[n] : Fixed(n, e)
    \/ n \notin bp.anyJoins /\ \E e \in into[n] : Fixed(n, e) /\ Admit(e) = "veto"
    \/ n \in bp.anyJoins /\ \E e \in into[n] : Fixed(n, e) /\ Admit(e) = "admit"

LEMMA Admits ==
    ASSUME NEW e
    PROVE  /\ Admit(e) \in {"veto", "decline", "wait", "admit"}
           /\ Admit(e) = "veto" <=> status[e.source] \in Bad
           /\ Admit(e) = "wait" <=> ~Settled(e.source)
           /\ status[e.source] \in Statuses /\ Admit(e) = "admit" => status[e.source] = "succeeded"
           /\ status[e.source] \in Statuses /\ Admit(e) = "decline" =>
                 status[e.source] \in {"skipped", "succeeded"}
<1>1. CASE status[e.source] \in Bad
  BY <1>1 DEF Admit, Settled, Bad
<1>2. CASE status[e.source] = "skipped"
  BY <1>2 DEF Admit, Settled, Bad
<1>3. CASE status[e.source] \in {"none", "planned"}
  BY <1>3 DEF Admit, Settled, Bad
<1>4. CASE status[e.source] \notin Bad \cup {"skipped", "none", "planned"}
  <2>1. Admit(e) = IF e.guard /\ evidence[e.source] # "yes" THEN "decline" ELSE "admit"
    BY <1>4 DEF Admit
  <2>2. Admit(e) \in {"decline", "admit"}
    BY <2>1
  <2> QED
    BY <1>4, <2>2 DEF Settled, Statuses
<1> QED
  BY <1>1, <1>2, <1>3, <1>4

LEMMA Joins ==
    ASSUME NEW n
    PROVE  /\ AllJoin(n) = "cancel" <=> \E e \in into[n] : Admit(e) = "veto"
           /\ AllJoin(n) = "wait" <=> /\ ~ \E e \in into[n] : Admit(e) = "veto"
                                      /\ \E e \in into[n] : Admit(e) = "wait"
           /\ AllJoin(n) = "ready" <=> \A e \in into[n] : Admit(e) = "admit"
           /\ AllJoin(n) \in {"cancel", "wait", "skip", "ready"}
           /\ AnyJoin(n) = "ready" <=> (\E e \in into[n] : Admit(e) = "admit") \/ into[n] = {}
           /\ AnyJoin(n) = "wait" <=> /\ ~ \E e \in into[n] : Admit(e) = "admit"
                                      /\ \E e \in into[n] : Admit(e) = "wait"
           /\ AnyJoin(n) = "cancel" <=> /\ into[n] # {}
                                        /\ ~ \E e \in into[n] : Admit(e) \in {"admit", "wait"}
                                        /\ \E e \in into[n] : Admit(e) = "veto"
           /\ AnyJoin(n) \in {"cancel", "wait", "skip", "ready"}
<1>1. \A e \in into[n] : Admit(e) \in {"veto", "decline", "wait", "admit"}
  BY Admits
<1>2. \A a : Some(n, a) <=> \E e \in into[n] : Admit(e) = a
  BY DEF Some
<1>3. /\ AllJoin(n) = "cancel" <=> Some(n, "veto")
      /\ AllJoin(n) = "wait" <=> ~Some(n, "veto") /\ Some(n, "wait")
      /\ AllJoin(n) = "ready" <=> ~Some(n, "veto") /\ ~Some(n, "wait") /\ ~Some(n, "decline")
      /\ AllJoin(n) \in {"cancel", "wait", "skip", "ready"}
  BY DEF AllJoin
<1>4. /\ AnyJoin(n) = "ready" <=> Some(n, "admit") \/ into[n] = {}
      /\ AnyJoin(n) = "wait" <=> ~(Some(n, "admit") \/ into[n] = {}) /\ ~Some(n, "admit") /\ Some(n, "wait")
      /\ AnyJoin(n) = "cancel" <=> /\ ~(Some(n, "admit") \/ into[n] = {}) /\ ~Some(n, "wait")
                                   /\ Some(n, "veto")
      /\ AnyJoin(n) \in {"cancel", "wait", "skip", "ready"}
  <2> DEFINE a == Some(n, "admit") \/ into[n] = {}
             w == Some(n, "wait")
             v == Some(n, "veto")
  <2>1. into[n] = {} => ~Some(n, "admit") /\ ~w /\ ~v
    BY <1>2
  <2>2. CASE a
    BY <2>1, <2>2 DEF AnyJoin
  <2>3. CASE ~a /\ w
    BY <2>3 DEF AnyJoin
  <2>4. CASE ~a /\ ~w /\ v
    BY <2>4 DEF AnyJoin
  <2>5. CASE ~a /\ ~w /\ ~v
    BY <2>5 DEF AnyJoin
  <2> QED
    BY <2>2, <2>3, <2>4, <2>5
<1>5. AllJoin(n) = "ready" <=> \A e \in into[n] : Admit(e) = "admit"
  BY <1>1, <1>2, <1>3
<1>6. AnyJoin(n) = "cancel" <=> /\ into[n] # {}
                                /\ ~ \E e \in into[n] : Admit(e) \in {"admit", "wait"}
                                /\ \E e \in into[n] : Admit(e) = "veto"
  BY <1>2, <1>4
<1>7. AnyJoin(n) = "wait" <=> /\ ~ \E e \in into[n] : Admit(e) = "admit"
                              /\ \E e \in into[n] : Admit(e) = "wait"
  BY <1>2, <1>4
<1> QED
  BY <1>2, <1>3, <1>4, <1>5, <1>6, <1>7

\* A gate with no incoming edge is open.
LEMMA OpenGate ==
    ASSUME NEW n, into[n] = {}
    PROVE  Readiness(n) = "ready"
BY Joins DEF Readiness

\* A final answer stays one.
LEMMA FixedStays ==
    ASSUME NEW n, NEW e, Fixed(n, e), bp' = bp,
           status'[e.source] = status[e.source], evidence'[e.source] = evidence[e.source],
           \A l \in loopsDone : l.tail = e.source => l \in loopsDone', dormant' \subseteq dormant
    PROVE  Fixed(n, e)' /\ Admit(e)' = Admit(e)
<1>1. Admit(e)' = Admit(e)
  BY DEF Admit
<1>2. Over(e.source, n) => Over(e.source, n)'
  BY DEF Over
<1> QED
  BY <1>1, <1>2 DEF Fixed, Settled

\* Where final answers stay, so does the gate's verdict.
LEMMA SupportStays ==
    ASSUME NEW n, Support(n), bp' = bp,
           \A e \in into[n] : Fixed(n, e) => e \in into'[n] /\ Fixed(n, e)' /\ Admit(e)' = Admit(e),
           (\A e \in into[n] : Fixed(n, e)) => into'[n] = into[n]
    PROVE  Support(n)' /\ Readiness(n)' = Readiness(n)
<1>1. CASE \A e \in into[n] : Fixed(n, e)
  <2>1. into'[n] = into[n] /\ \A e \in into[n] : Fixed(n, e)' /\ Admit(e)' = Admit(e)
    BY <1>1
  <2>2. \A a : Some(n, a)' <=> Some(n, a)
    BY <2>1 DEF Some
  <2>3. AllJoin(n)' = AllJoin(n) /\ AnyJoin(n)' = AnyJoin(n)
    BY <2>1, <2>2 DEF AllJoin, AnyJoin
  <2> QED
    BY <2>1, <2>3 DEF Readiness, Support
<1>2. CASE n \notin bp.anyJoins /\ \E e \in into[n] : Fixed(n, e) /\ Admit(e) = "veto"
  <2>1. PICK e \in into[n] : Fixed(n, e) /\ Admit(e) = "veto"
    BY <1>2
  <2>2. e \in into'[n] /\ Fixed(n, e)' /\ Admit(e)' = "veto"
    BY <2>1
  <2>3. AllJoin(n) = "cancel" /\ AllJoin(n)' = "cancel"
    <3>1. Some(n, "veto") /\ Some(n, "veto")'
      BY <2>1, <2>2 DEF Some
    <3> QED
      BY <3>1 DEF AllJoin
  <2> QED
    BY <1>2, <2>2, <2>3 DEF Readiness, Support
<1>3. CASE n \in bp.anyJoins /\ \E e \in into[n] : Fixed(n, e) /\ Admit(e) = "admit"
  <2>1. PICK e \in into[n] : Fixed(n, e) /\ Admit(e) = "admit"
    BY <1>3
  <2>2. e \in into'[n] /\ Fixed(n, e)' /\ Admit(e)' = "admit"
    BY <2>1
  <2>3. AnyJoin(n) = "ready" /\ AnyJoin(n)' = "ready"
    <3>1. Some(n, "admit") /\ Some(n, "admit")'
      BY <2>1, <2>2 DEF Some
    <3> QED
      BY <3>1 DEF AnyJoin
  <2> QED
    BY <1>3, <2>2, <2>3 DEF Readiness, Support
<1> QED
  BY <1>1, <1>2, <1>3 DEF Support

\* The answers a sweep or a submission reads are final.
LEMMA NewVerdict ==
    ASSUME Typed, Shape, pc \in {"sweep", "submit"},
           \A f \in bp.fallbacks : status[f.source] \in Bad => f.target \notin dormant,
           NEW n \in bp.nodes, Readiness(n) # "wait"
    PROVE  Support(n)
<1>1. ASSUME NEW e \in into[n], Settled(e.source) PROVE Fixed(n, e)
  <2>1. status[e.source] = "succeeded" => Over(e.source, n)
    BY DEF Shape, Over
  <2>2. status[e.source] \in Bad => Repairs(bp, e.source) \cap dormant = {}
    BY DEF Repairs
  <2> QED
    BY <1>1, <2>1, <2>2 DEF Fixed
<1>2. \A e \in into[n] : Admit(e) # "wait" => Fixed(n, e)
  BY <1>1, Admits
<1>3. CASE n \in bp.anyJoins
  <2>1. AnyJoin(n) # "wait"
    BY <1>3 DEF Readiness
  <2>2. (\E e \in into[n] : Admit(e) = "admit") \/ (\A e \in into[n] : Admit(e) # "wait")
    BY <2>1, Joins
  <2> QED
    BY <1>2, <1>3, <2>2 DEF Support
<1>4. CASE n \notin bp.anyJoins
  <2>1. AllJoin(n) # "wait"
    BY <1>4 DEF Readiness
  <2>2. (\E e \in into[n] : Admit(e) = "veto") \/ (\A e \in into[n] : Admit(e) # "wait")
    BY <2>1, Joins
  <2> QED
    BY <1>2, <1>4, <2>2 DEF Support
<1> QED
  BY <1>3, <1>4

-----------------------------------------------------------------------------
\* VERDICTS AND THEIR GATES

\* An action that was let through, or settled, is what its gate says; the backstop cancels
\* ready ones, and a route of mutual waits gives up on those that never were.
GateHolds(n) ==
    /\ \/ status[n] \in {"planned", "failed"}
       \/ status[n] = "succeeded" /\ n \notin RepairNodes(bp)
       => Support(n) /\ Readiness(n) = "ready"
    /\ status[n] = "skipped" /\ n \notin RepairNodes(bp) => Support(n) /\ Readiness(n) = "skip"
    /\ status[n] = "cancelled" /\ n \notin RepairNodes(bp) =>
          /\ pc \notin {"drain", "end"} => Support(n)
          /\ Readiness(n) = "cancel" \/ (Readiness(n) = "ready" /\ submitted = MaxTotal)

Verdicts == \A n \in bp.nodes : GateHolds(n)

\* Where an action is tells its status, and a future is of its node's present pass.
Placed ==
    /\ \A n \in Waiting : status[n] = "none"
    /\ \A f \in running : status[f.node] = "planned"
    /\ \A f \in zombies : status[f.node] = "failed"
    /\ \A f \in Futures : f.iter = iteration[f.node]
    /\ \A n \in bp.nodes : status[n] = "planned" => \E f \in running : f.node = n

\* What the sweeps have seen to by the time actions are submitted.
Sweeping ==
    /\ pc \in {"sweep", "submit"} =>
          \A f \in bp.fallbacks : status[f.source] \in Bad => f.target \notin dormant
    /\ pc = "sweep" => toSweep \subseteq pending
    /\ pc = "sweep" /\ ~changed =>
          \A n \in pending \ toSweep : Readiness(n) \notin {"cancel", "skip"}
    /\ pc = "submit" => \A n \in pending : Readiness(n) \notin {"cancel", "skip"}

Ending == pc \in {"drain", "end"} => running = {} /\ \A n \in bp.nodes : Settled(n)

Gated == Placed /\ Verdicts /\ Sweeping /\ Ending

LEMMA GatedAtInit == DagInit => Gated
<1> SUFFICES ASSUME DagInit PROVE Gated
  OBVIOUS
<1>1. /\ running = {} /\ zombies = {} /\ pc = "top"
      /\ \A n \in bp.nodes : status[n] = "none"
      /\ Waiting \subseteq bp.nodes
  BY TypedAtInit, TypedFacts DEF DagInit, Waiting
<1>2. Verdicts
  BY <1>1 DEF Verdicts, GateHolds
<1>3. Placed
  BY <1>1 DEF Placed, Futures
<1> QED
  BY <1>1, <1>2, <1>3 DEF Gated, Sweeping, Ending
-----------------------------------------------------------------------------
\* A step that settles only what was open, and takes no final answer's edge away.
Plain ==
    /\ bp' = bp
    /\ \A m \in bp.nodes : Settled(m) => status'[m] = status[m] /\ evidence'[m] = evidence[m]
    /\ loopsDone \subseteq loopsDone' /\ dormant' \subseteq dormant
    /\ \A k \in bp.nodes :
          /\ \A e \in into[k] : Fixed(k, e) => e \in into'[k]
          /\ (\A e \in into[k] : Fixed(k, e)) => into'[k] = into[k]
    /\ submitted = MaxTotal => submitted' = MaxTotal

LEMMA PlainSupport ==
    ASSUME Typed, Plain, NEW n \in bp.nodes, Support(n)
    PROVE  Support(n)' /\ Readiness(n)' = Readiness(n)
<1>1. ASSUME NEW e \in into[n], Fixed(n, e)
      PROVE  e \in into'[n] /\ Fixed(n, e)' /\ Admit(e)' = Admit(e)
  <2>1. e.source \in bp.nodes
    BY TypedFacts
  <2>2. Settled(e.source)
    BY <1>1 DEF Fixed
  <2>3. status'[e.source] = status[e.source] /\ evidence'[e.source] = evidence[e.source]
    BY <2>1, <2>2 DEF Plain
  <2>4. bp' = bp /\ dormant' \subseteq dormant /\ \A l \in loopsDone : l.tail = e.source => l \in loopsDone'
    BY DEF Plain
  <2>5. Fixed(n, e)' /\ Admit(e)' = Admit(e)
    BY <1>1, <2>3, <2>4, FixedStays
  <2> QED
    BY <1>1, <2>5 DEF Plain
<1>2. (\A e \in into[n] : Fixed(n, e)) => into'[n] = into[n]
  BY DEF Plain
<1>3. bp' = bp
  BY DEF Plain
<1> QED
  BY <1>1, <1>2, <1>3, SupportStays

\* A verdict that stands keeps its gate; a planned action ends.
LEMMA PlainVerdict ==
    ASSUME Typed, Plain, NEW n \in bp.nodes, GateHolds(n), pc \notin {"drain", "end"},
           \/ status'[n] = status[n]
           \/ status[n] = "planned" /\ status'[n] \in {"succeeded", "failed"}
    PROVE  GateHolds(n)'
<1>1. Support(n) => Support(n)' /\ Readiness(n)' = Readiness(n)
  BY PlainSupport
<1>2. RepairNodes(bp)' = RepairNodes(bp) /\ (submitted = MaxTotal => submitted' = MaxTotal)
  BY DEF Plain, RepairNodes
<1>3. CASE status'[n] = status[n]
  BY <1>1, <1>2, <1>3 DEF GateHolds
<1>4. CASE status[n] = "planned" /\ status'[n] \in {"succeeded", "failed"}
  BY <1>1, <1>2, <1>4 DEF GateHolds
<1> QED
  BY <1>3, <1>4

\* A step that touches nothing a gate reads.
LEMMA StillVerdicts ==
    ASSUME Verdicts, UNCHANGED <<bp, status, evidence, into, loopsDone, dormant, submitted>>,
           pc \in {"drain", "end"} => pc' \in {"drain", "end"}
    PROVE  Verdicts'
<1> SUFFICES ASSUME NEW n \in bp.nodes PROVE GateHolds(n)'
  BY DEF Verdicts
<1>1. GateHolds(n)
  BY DEF Verdicts
<1>2. Readiness(n)' = Readiness(n) /\ RepairNodes(bp)' = RepairNodes(bp)
  BY DEF Readiness, AllJoin, AnyJoin, Some, Admit, RepairNodes
<1>3. Support(n)' <=> Support(n)
  BY DEF Support, Fixed, Over, Settled, Admit
<1> QED
  BY <1>1, <1>2, <1>3 DEF GateHolds
-----------------------------------------------------------------------------
\* LOOPS

\* An edge that leaves a node of a loop's region leaves the tail, or stays in the region.
LEMMA RegionEdges ==
    ASSUME Typed, Shape, NEW l \in bp.loops, NEW n \in bp.nodes, NEW e \in into[n],
           e.source \in Region(bp, l)
    PROVE  e.source = l.tail <=> n \notin Region(bp, l)
<1>1. e.source \notin RepairNodes(bp)
  BY Regions DEF Typed
<1>2. PICK x : x = [source |-> e.source, target |-> n, guard |-> e.guard]
  OBVIOUS
<1>3. x \in bp.edges
  BY <1>1, <1>2 DEF Shape
<1>4. x.source = e.source /\ x.target = n
  BY <1>2
<1> QED
  BY <1>3, <1>4, Regions DEF Typed

\* Until its loop is over, a tail gives nobody a final answer.
LEMMA TailIsOpen ==
    ASSUME Typed, Shape, NEW l \in tailEvents, Live(l), NEW n \in bp.nodes, NEW e \in into[n],
           Fixed(n, e)
    PROVE  /\ e.source # l.tail
           /\ n \notin Region(bp, l) => e.source \notin Region(bp, l)
<1>1. l \in bp.loops /\ l \notin loopsDone /\ l.tail \in Region(bp, l)
  BY Regions DEF Typed, DagTypeOK, Shape
<1>2. ASSUME e.source = l.tail PROVE FALSE
  <2>1. n \notin Region(bp, l)
    BY <1>1, <1>2, RegionEdges
  <2>2. status[e.source] = "succeeded"
    BY <1>2 DEF Live
  <2>3. Over(e.source, n)
    BY <2>2 DEF Fixed
  <2> QED
    BY <1>1, <1>2, <2>1, <2>3 DEF Over
<1>3. ASSUME n \notin Region(bp, l), e.source \in Region(bp, l) PROVE FALSE
  BY <1>1, <1>2, <1>3, RegionEdges
<1> QED
  BY <1>2, <1>3

\* When a loop's tail verified, every action of its region did or was skipped.
LEMMA RegionClean ==
    ASSUME Typed, Shape, Verdicts, Regular, NEW l \in bp.loops, Live(l)
    PROVE  \A m \in Region(bp, l) : status[m] \in {"succeeded", "skipped"}
<1> DEFINE S == {m \in Region(bp, l) : status[m] \notin {"succeeded", "skipped"}}
<1>0. /\ Region(bp, l) \subseteq bp.nodes /\ Region(bp, l) \cap bp.anyJoins = {}
      /\ l.tail \notin S
  BY BlueprintTypes DEF Typed, Regular, Live
<1>1. ASSUME NEW m \in S, NEW c \in Children(bp, m) PROVE c \in S
  <2>1. PICK e \in bp.edges : e.source = m /\ e.target = c
    BY <1>1 DEF Children
  <2>2. c \in Region(bp, l)
    BY <1>0, <2>1, Regions DEF Typed
  <2>3. Repairs(bp, m) = {}
    BY Regions DEF Typed, Repairs
  <2>4. PICK x : x = [source |-> e.source, guard |-> e.guard]
    OBVIOUS
  <2>5. x \in into[c] /\ x.source = m
    BY <2>1, <2>3, <2>4 DEF Shape
  <2>6. status[m] \in Statuses /\ status[m] \notin {"succeeded", "skipped"}
    BY <1>0, TypedFacts
  <2>7. Admit(x) \in {"veto", "wait"}
    BY <2>5, <2>6, Admits
  <2>8. AllJoin(c) \in {"cancel", "wait"}
    BY <2>5, <2>7, Joins
  <2>9. Readiness(c) \in {"cancel", "wait"}
    BY <1>0, <2>2, <2>8 DEF Readiness
  <2>10. GateHolds(c) /\ c \notin RepairNodes(bp)
    BY <1>0, <2>2, Regions DEF Verdicts, Typed
  <2> QED
    BY <2>2, <2>9, <2>10 DEF GateHolds
<1>2. ASSUME NEW m \in S PROVE FALSE
  <2>1. Reaches(bp, m, l.tail)
    BY <1>0, <1>2, Regions DEF Typed
  <2>2. S \in SUBSET bp.nodes /\ Children(bp, m) \subseteq S /\ \A s \in S : Children(bp, s) \subseteq S
    BY <1>0, <1>1
  <2> HIDE DEF S
  <2>3. l.tail \in S
    BY <2>1, <2>2 DEF Reaches
  <2> QED
    BY <1>0, <2>3
<1> QED
  BY <1>2

-----------------------------------------------------------------------------
\* THE GATES, STEP BY STEP

LEMMA PlacedStays ==
    ASSUME Placed, UNCHANGED <<bp, status, iteration, pending, dormant>>,
           \A h \in running' : \E f \in running : h.node = f.node /\ h.iter = f.iter,
           \A h \in zombies' : \E f \in zombies : h.node = f.node /\ h.iter = f.iter,
           \A f \in running : \E h \in running' : h.node = f.node
    PROVE  Placed'
<1>1. \A n \in Waiting' : status'[n] = "none"
  BY DEF Placed, Waiting
<1>2. \A f \in running' : status'[f.node] = "planned"
  BY DEF Placed
<1>3. \A f \in zombies' : status'[f.node] = "failed"
  BY DEF Placed
<1>4. \A f \in Futures' : f.iter = iteration'[f.node]
  BY DEF Placed, Futures
<1>5. \A n \in bp'.nodes : status'[n] = "planned" => \E f \in running' : f.node = n
  <2> SUFFICES ASSUME NEW n \in bp.nodes, status[n] = "planned" PROVE \E f \in running' : f.node = n
    OBVIOUS
  <2>1. PICK f \in running : f.node = n
    BY DEF Placed
  <2> QED
    BY <2>1
<1> QED
  BY <1>1, <1>2, <1>3, <1>4, <1>5 DEF Placed

LEMMA SweepingStays ==
    ASSUME Sweeping, UNCHANGED <<bp, pc, status, evidence, into, pending, dormant, toSweep, changed>>
    PROVE  Sweeping'
<1>1. \A n : Readiness(n)' = Readiness(n)
  BY DEF Readiness, AllJoin, AnyJoin, Some, Admit
<1> QED
  BY <1>1 DEF Sweeping

\* Turning the loop, and closing the pool.
LEMMA GatedTurns ==
    ASSUME Typed, Shape, Gated, Turn \/ JudgedAll \/ Swept \/ Drained
    PROVE  Gated'
<1>0. Placed /\ Verdicts /\ Sweeping /\ Ending
  BY DEF Gated
<1>1. /\ UNCHANGED <<bp, status, evidence, into, pending, dormant, iteration, loopsDone, submitted>>
      /\ UNCHANGED <<running, zombies, toSweep>> /\ changed' = changed
  BY DEF Turn, JudgedAll, Swept, Drained, graphVars, loopVars, poolVars, turnVars
<1>2. Placed'
  BY <1>0, <1>1, PlacedStays
<1>3. /\ pc \in {"drain", "end"} => pc' \in {"drain", "end"}
      /\ pc' \in {"drain", "end"} => \/ pc \in {"drain", "end"}
                                     \/ pending = {} /\ dormant = {} /\ running = {}
      /\ pc' # "sweep"
      /\ pc' = "submit" => pc = "sweep" /\ ~changed /\ toSweep = {}
  BY DEF Turn, JudgedAll, Swept, Drained, Goto
<1>4. Verdicts'
  BY <1>0, <1>1, <1>3, StillVerdicts
<1>5. \A n : Readiness(n)' = Readiness(n)
  BY <1>1 DEF Readiness, AllJoin, AnyJoin, Some, Admit
<1>6. Sweeping'
  BY <1>0, <1>1, <1>3, <1>5 DEF Sweeping
<1>7. Ending'
  <2>1. pending = {} /\ dormant = {} /\ running = {} => \A n \in bp.nodes : Settled(n)
    BY <1>0 DEF Settled, Shape, Waiting, Placed
  <2>2. pc' \in {"drain", "end"} => running = {} /\ \A n \in bp.nodes : Settled(n)
    BY <1>0, <1>3, <2>1 DEF Ending
  <2> QED
    BY <1>1, <2>2 DEF Ending, Settled
<1> QED
  BY <1>2, <1>4, <1>6, <1>7 DEF Gated

LEMMA GatedStutters ==
    ASSUME Gated, UNCHANGED dagVars
    PROVE  Gated'
<1>0. Placed /\ Verdicts /\ Sweeping /\ Ending
  BY DEF Gated
<1>1. /\ UNCHANGED <<bp, pc, status, evidence, into, pending, dormant, iteration, loopsDone, submitted>>
      /\ UNCHANGED <<running, zombies, toSweep, changed>>
  BY DEF dagVars, graphVars, loopVars, poolVars, turnVars
<1>2. Placed' /\ Verdicts' /\ Sweeping'
  BY <1>0, <1>1, PlacedStays, StillVerdicts, SweepingStays
<1> QED
  BY <1>0, <1>1, <1>2 DEF Gated, Ending, Settled

\* The pool's threads.
LEMMA GatedRuns ==
    ASSUME Typed, Keyed, Gated, Start \/ End
    PROVE  Gated'
<1>0. Placed /\ Verdicts /\ Sweeping /\ Ending /\ running \cap zombies = {}
  BY DEF Gated, Keyed
<1>1. /\ UNCHANGED <<bp, pc, status, evidence, into, pending, dormant, iteration, loopsDone, submitted>>
      /\ UNCHANGED <<toSweep, changed>>
  BY DEF Start, End, graphVars, loopVars, turnVars
<1> DEFINE g(f, s) == [f EXCEPT !.st = s]
<1> DEFINE Goes(f, s) ==
              /\ running' \subseteq (running \ {f}) \cup {g(f, s)}
              /\ f \notin running => running' \subseteq running
              /\ zombies' \subseteq (zombies \ {f}) \cup {g(f, s)}
              /\ f \notin zombies => zombies' \subseteq zombies
              /\ running \ {f} \subseteq running'
              /\ f \in running => g(f, s) \in running'
<1>2. ASSUME Start
      PROVE \E f \in running \cup zombies, s \in {"executing"} \cup Results : Goes(f, s)
  <2>1. PICK f \in Queued :
           /\ running' = IF f \in running THEN (running \ {f}) \cup {Begun(f)} ELSE running
           /\ zombies' = IF f \in zombies THEN (zombies \ {f}) \cup {Begun(f)} ELSE zombies
    BY <1>2 DEF Start
  <2>2. Begun(f) = g(f, "executing") /\ f \in running \cup zombies
    BY DEF Begun, Queued
  <2> HIDE DEF g
  <2>3. Goes(f, "executing")
    BY <2>1, <2>2
  <2> QED
    BY <2>2, <2>3
<1>3. ASSUME End
      PROVE \E f \in running \cup zombies, s \in {"executing"} \cup Results : Goes(f, s)
  <2>1. PICK f \in Executing :
           \/ /\ f \in zombies
              /\ zombies' = zombies \ {f} /\ UNCHANGED running
           \/ /\ f \in running
              /\ \E r \in Results : running' = (running \ {f}) \cup {[f EXCEPT !.st = r]}
              /\ UNCHANGED zombies
    BY <1>3 DEF End
  <2>2. f \in running \cup zombies
    BY DEF Executing
  <2>3. CASE f \in zombies
    <3>1. zombies' = zombies \ {f} /\ running' = running /\ f \notin running
      BY <1>0, <2>1, <2>3
    <3> HIDE DEF g
    <3>2. Goes(f, "executing")
      BY <2>3, <3>1
    <3> QED
      BY <2>2, <3>2
  <2>4. CASE f \notin zombies
    <3>1. PICK r \in Results : running' = (running \ {f}) \cup {g(f, r)}
      BY <2>1, <2>4
    <3>2. zombies' = zombies
      BY <2>1, <2>4
    <3> HIDE DEF g
    <3>3. Goes(f, r)
      BY <2>2, <2>4, <3>1, <3>2
    <3> QED
      BY <2>2, <3>3
  <2> QED
    BY <2>3, <2>4
<1>4. PICK f \in running \cup zombies, s \in {"executing"} \cup Results : Goes(f, s)
  BY <1>2, <1>3
<1>5. f \in Future
  BY TypedFacts
<1>6. PICK h : h = g(f, s)
  OBVIOUS
<1>7. h.node = f.node /\ h.iter = f.iter
  BY <1>5, <1>6, FutureGoesOn
<1> HIDE DEF g
<1>8. \A i \in running' : \E j \in running : i.node = j.node /\ i.iter = j.iter
  BY <1>4, <1>6, <1>7
<1>9. \A i \in zombies' : \E j \in zombies : i.node = j.node /\ i.iter = j.iter
  BY <1>4, <1>6, <1>7
<1>10. \A j \in running : \E i \in running' : i.node = j.node
  BY <1>4, <1>6, <1>7
<1>11. Placed'
  BY <1>0, <1>1, <1>8, <1>9, <1>10, PlacedStays
<1>12. Verdicts' /\ Sweeping'
  BY <1>0, <1>1, StillVerdicts, SweepingStays
<1>13. Ending'
  <2>1. running = {} => running' = {}
    BY <1>8
  <2> QED
    BY <1>0, <1>1, <2>1 DEF Ending, Settled
<1> QED
  BY <1>11, <1>12, <1>13 DEF Gated

\* A loop is over, or its event was stale.
LEMMA GatedExits ==
    ASSUME Typed, Gated, NEW l \in bp.loops, JudgeStale(l) \/ JudgeExit(l)
    PROVE  Gated'
<1>0. Placed /\ Verdicts
  BY DEF Gated
<1>1. /\ UNCHANGED <<bp, pc, status, evidence, into, pending, dormant, iteration, submitted>>
      /\ UNCHANGED <<running, zombies>> /\ pc = "loops"
      /\ loopsDone' = loopsDone \/ loopsDone' = loopsDone \cup {l}
  BY DEF JudgeStale, JudgeExit, graphVars, poolVars
<1>2. Placed'
  BY <1>0, <1>1, PlacedStays
<1>3. Plain
  BY <1>1 DEF Plain
<1>4. Verdicts'
  BY <1>0, <1>1, <1>3, PlainVerdict DEF Verdicts
<1> QED
  BY <1>1, <1>2, <1>4 DEF Gated, Sweeping, Ending

LEMMA FuturesAreNodes ==
    ASSUME Keyed
    PROVE  \A f \in Futures : f.node \in bp.nodes
BY DEF Keyed

LEMMA GatedExhausts ==
    ASSUME Typed, Keyed, Shape, Gated, NEW l \in bp.loops, JudgeExhausted(l)
    PROVE  Gated'
<1>0. Placed /\ Verdicts
  BY DEF Gated
<1>1. /\ UNCHANGED <<bp, pc, into, pending, dormant, iteration, submitted, running, zombies>>
      /\ pc = "loops" /\ Live(l) /\ l \in tailEvents /\ loopsDone' = loopsDone \cup {l}
      /\ status' = [n \in bp.nodes |-> IF n \in {l.tail} THEN "failed" ELSE status[n]]
      /\ evidence' = [n \in bp.nodes |-> IF n \in {l.tail} THEN "no" ELSE evidence[n]]
  BY DEF JudgeExhausted, SettleUnrun, poolVars, Innermost
<1>2. /\ l.tail \in bp.nodes /\ status[l.tail] = "succeeded" /\ l.tail \notin RepairNodes(bp)
      /\ status'[l.tail] = "failed"
      /\ \A m \in bp.nodes \ {l.tail} : status'[m] = status[m] /\ evidence'[m] = evidence[m]
  BY <1>1, BlueprintTypes, Regions DEF Typed, Live
<1>3. \A n \in Waiting : n # l.tail
  BY <1>0, <1>2 DEF Placed
<1>4. \A f \in Futures : f.node \in bp.nodes /\ f.node # l.tail
  <2>1. \A f \in Futures : f \in Future /\ status[f.node] \in {"planned", "failed"}
    BY <1>0, TypedFacts DEF Placed, Futures
  <2>2. \A f \in Futures : f.node # l.tail
    BY <1>2, <2>1
  <2> QED
    BY <2>1, <2>2, FuturesAreNodes
<1>5. Placed'
  <2>1. \A n \in Waiting' : status'[n] = "none"
    BY <1>0, <1>1, <1>2, <1>3, TypedFacts DEF Placed, Waiting
  <2>2. /\ \A f \in running' : status'[f.node] = "planned"
        /\ \A f \in zombies' : status'[f.node] = "failed"
        /\ \A f \in Futures' : f.iter = iteration'[f.node]
    BY <1>0, <1>1, <1>2, <1>4 DEF Placed, Futures
  <2>3. \A n \in bp'.nodes : status'[n] = "planned" => \E f \in running' : f.node = n
    BY <1>0, <1>1, <1>2 DEF Placed
  <2> QED
    BY <2>1, <2>2, <2>3 DEF Placed
<1>6. ASSUME NEW n \in bp.nodes, Support(n)
      PROVE  Support(n)' /\ Readiness(n)' = Readiness(n)
  <2>1. ASSUME NEW e \in into[n], Fixed(n, e) PROVE Fixed(n, e)' /\ Admit(e)' = Admit(e)
    <3>1. e.source # l.tail /\ e.source \in bp.nodes
      BY <1>1, <2>1, TailIsOpen, TypedFacts
    <3>2. status'[e.source] = status[e.source] /\ evidence'[e.source] = evidence[e.source]
      BY <1>2, <3>1
    <3>3. \A k \in loopsDone : k.tail = e.source => k \in loopsDone'
      BY <1>1
    <3> QED
      BY <1>1, <2>1, <3>2, <3>3, FixedStays
  <2> QED
    BY <1>1, <1>6, <2>1, SupportStays
<1>7. Verdicts'
  <2> SUFFICES ASSUME NEW n \in bp.nodes PROVE GateHolds(n)'
    BY <1>1 DEF Verdicts
  <2>1. GateHolds(n) /\ RepairNodes(bp)' = RepairNodes(bp) /\ pc' = pc /\ submitted' = submitted
    BY <1>0, <1>1 DEF Verdicts, RepairNodes
  <2>2. Support(n) => Support(n)' /\ Readiness(n)' = Readiness(n)
    BY <1>6
  <2>3. CASE n = l.tail
    BY <1>2, <2>1, <2>2, <2>3 DEF GateHolds
  <2>4. CASE n # l.tail
    <3>1. status'[n] = status[n]
      BY <1>2, <2>4
    <3> QED
      BY <1>1, <2>1, <2>2, <3>1 DEF GateHolds
  <2> QED
    BY <2>3, <2>4
<1> QED
  BY <1>1, <1>5, <1>7 DEF Gated, Sweeping, Ending

LEMMA GatedContinues ==
    ASSUME Typed, Keyed, Shape, Gated, Regular, NEW l \in bp.loops, JudgeContinue(l)
    PROVE  Gated'
<1> DEFINE R == Region(bp, l)
<1>0. Placed /\ Verdicts
  BY DEF Gated
<1>1. /\ UNCHANGED <<bp, pc, into, dormant, submitted, running, zombies>>
      /\ pc = "loops" /\ Live(l) /\ l \in tailEvents
      /\ loopsDone' = {k \in loopsDone : k = l \/ ~(Region(bp, k) \subseteq R)}
      /\ pending' = pending \cup R
      /\ status' = [n \in bp.nodes |-> IF n \in R THEN "none" ELSE status[n]]
      /\ evidence' = [n \in bp.nodes |-> IF n \in R THEN "none" ELSE evidence[n]]
      /\ iteration' = [n \in bp.nodes |-> IF n \in R THEN iteration[n] + 1 ELSE iteration[n]]
  BY DEF JudgeContinue, poolVars, Innermost
<1>2. \A m \in R : status[m] \in {"succeeded", "skipped"}
  BY <1>0, <1>1, RegionClean
<1>3. R \subseteq bp.nodes /\ \A k \in bp.loops : k.tail \in Region(bp, k)
  BY BlueprintTypes, Regions DEF Typed
<1>4. ASSUME NEW n \in bp.nodes \ R, Support(n)
      PROVE  Support(n)' /\ Readiness(n)' = Readiness(n)
  <2>1. ASSUME NEW e \in into[n], Fixed(n, e) PROVE Fixed(n, e)' /\ Admit(e)' = Admit(e)
    <3>1. e.source \notin R /\ e.source \in bp.nodes
      BY <1>1, <2>1, TailIsOpen, TypedFacts
    <3> HIDE DEF R
    <3>2. status'[e.source] = status[e.source] /\ evidence'[e.source] = evidence[e.source]
      BY <1>1, <3>1
    <3>3. \A k \in loopsDone : k.tail = e.source => k \in loopsDone'
      <4> SUFFICES ASSUME NEW k \in loopsDone, k.tail = e.source PROVE k \in loopsDone'
        OBVIOUS
      <4>1. k.tail \in Region(bp, k)
        BY <1>3 DEF Typed, DagTypeOK
      <4> QED
        BY <1>1, <3>1, <4>1
    <3> QED
      BY <1>1, <2>1, <3>2, <3>3, FixedStays
  <2> QED
    BY <1>1, <1>4, <2>1, SupportStays
<1> HIDE DEF R
<1>5. /\ \A n \in R : status'[n] = "none"
      /\ \A n \in bp.nodes \ R : status'[n] = status[n] /\ iteration'[n] = iteration[n]
  BY <1>1, <1>3
<1>6. \A f \in Futures : f.node \in bp.nodes \ R
  <2>1. \A f \in Futures : f.node \in bp.nodes /\ status[f.node] \in {"planned", "failed"}
    BY <1>0, FuturesAreNodes DEF Placed, Futures
  <2> QED
    BY <1>2, <2>1
<1>7. Placed'
  <2>1. \A n \in Waiting' : status'[n] = "none"
    <3> SUFFICES ASSUME NEW n \in Waiting', n \notin R PROVE status'[n] = "none"
      BY <1>5
    <3>1. n \in Waiting /\ n \in bp.nodes
      BY <1>1, TypedFacts DEF Waiting
    <3> QED
      BY <1>0, <1>5, <3>1 DEF Placed
  <2>2. /\ \A f \in running' : status'[f.node] = "planned"
        /\ \A f \in zombies' : status'[f.node] = "failed"
        /\ \A f \in Futures' : f.iter = iteration'[f.node]
    BY <1>0, <1>1, <1>5, <1>6 DEF Placed, Futures
  <2>3. \A n \in bp'.nodes : status'[n] = "planned" => \E f \in running' : f.node = n
    BY <1>0, <1>1, <1>5 DEF Placed
  <2> QED
    BY <2>1, <2>2, <2>3 DEF Placed
<1>8. Verdicts'
  <2> SUFFICES ASSUME NEW n \in bp.nodes PROVE GateHolds(n)'
    BY <1>1 DEF Verdicts
  <2>1. CASE n \in R
    BY <1>5, <2>1 DEF GateHolds
  <2>2. CASE n \notin R
    <3>1. GateHolds(n) /\ RepairNodes(bp)' = RepairNodes(bp) /\ pc' = pc /\ submitted' = submitted
      BY <1>0, <1>1 DEF Verdicts, RepairNodes
    <3>2. Support(n) => Support(n)' /\ Readiness(n)' = Readiness(n)
      BY <1>4, <2>2
    <3>3. status'[n] = status[n]
      BY <1>5, <2>2
    <3> QED
      BY <1>1, <3>1, <3>2, <3>3 DEF GateHolds
  <2> QED
    BY <2>1, <2>2
<1> QED
  BY <1>1, <1>7, <1>8 DEF Gated, Sweeping, Ending

LEMMA GatedActivates ==
    ASSUME Typed, Keyed, Shape, Gated, Activate
    PROVE  Gated'
<1>0. Placed /\ Verdicts
  BY DEF Gated
<1>1. /\ UNCHANGED <<bp, evidence, loopsDone, submitted, iteration, running, zombies>>
      /\ pc = "activate" /\ pc' = "sweep" /\ toSweep' = pending'
      /\ dormant' = dormant \ (Woken \cup Retired) /\ pending' = pending \cup Woken
      /\ status' = [n \in bp.nodes |->
                     IF n \notin Retired THEN status[n]
                     ELSE IF \A t \in Triggers(bp, n) : status[t] = "skipped"
                          THEN "skipped" ELSE "succeeded"]
      /\ into' = [n \in bp.nodes |->
                   {e \in into[n] : Substitutes(e.source) = {}} \cup
                   UNION {{[source |-> r, guard |-> e.guard] : r \in Substitutes(e.source)} :
                              e \in into[n]}]
  BY DEF Activate, loopVars, poolVars, Goto
<1>2. /\ Woken \subseteq dormant /\ Retired \subseteq dormant /\ Woken \cap Retired = {}
      /\ pending \subseteq bp.nodes /\ dormant \subseteq bp.nodes /\ dormant \cap pending = {}
      /\ dormant \subseteq RepairNodes(bp)
  BY TypedFacts DEF Woken, Retired, Typed, DagTypeOK
<1>3. /\ \A n \in Retired : status[n] = "none" /\ status'[n] \in {"skipped", "succeeded"}
      /\ \A n \in bp.nodes \ Retired : status'[n] = status[n]
  BY <1>0, <1>1, <1>2 DEF Placed, Waiting
<1>4. ASSUME NEW k \in bp.nodes, NEW e \in into[k], Fixed(k, e) PROVE Substitutes(e.source) = {}
  <2> SUFFICES ASSUME NEW r \in Substitutes(e.source) PROVE FALSE
    OBVIOUS
  <2>1. r \in dormant /\ e.source \in Triggers(bp, r) /\ status[e.source] \in Bad
    BY <1>2 DEF Substitutes, Failed
  <2>2. r \in Repairs(bp, e.source)
    BY <2>1, RepairFacts
  <2> QED
    BY <1>4, <2>1, <2>2 DEF Fixed
<1>5. Plain
  <2>1. \A m \in bp.nodes : Settled(m) => status'[m] = status[m] /\ evidence'[m] = evidence[m]
    BY <1>1, <1>3 DEF Settled
  <2>2. ASSUME NEW k \in bp.nodes
        PROVE  /\ \A e \in into[k] : Fixed(k, e) => e \in into'[k]
               /\ (\A e \in into[k] : Fixed(k, e)) => into'[k] = into[k]
    <3>1. into'[k] = {e \in into[k] : Substitutes(e.source) = {}} \cup
                     UNION {{[source |-> r, guard |-> e.guard] : r \in Substitutes(e.source)} :
                              e \in into[k]}
      BY <1>1
    <3>2. \A e \in into[k] : Fixed(k, e) => e \in into'[k]
      BY <1>4, <3>1
    <3>3. ASSUME \A e \in into[k] : Fixed(k, e) PROVE into'[k] = into[k]
      <4>1. \A e \in into[k] : Substitutes(e.source) = {}
        BY <1>4, <3>3
      <4>2. into'[k] \subseteq into[k]
        BY <3>1, <4>1
      <4> QED
        BY <3>2, <3>3, <4>2
    <3> QED
      BY <3>2, <3>3
  <2>3. bp' = bp /\ loopsDone \subseteq loopsDone' /\ dormant' \subseteq dormant
        /\ (submitted = MaxTotal => submitted' = MaxTotal)
    BY <1>1
  <2> QED
    BY <2>1, <2>2, <2>3 DEF Plain
<1>6. \A f \in Futures : f.node \in bp.nodes \ Retired
  <2>1. \A f \in Futures : f.node \in bp.nodes /\ status[f.node] \in {"planned", "failed"}
    BY <1>0, FuturesAreNodes DEF Placed, Futures
  <2> QED
    BY <1>3, <2>1
<1>7. Placed'
  <2>1. \A n \in Waiting' : status'[n] = "none"
    <3> SUFFICES ASSUME NEW n \in Waiting' PROVE status'[n] = "none"
      OBVIOUS
    <3>1. n \in Waiting /\ n \in bp.nodes \ Retired
      BY <1>1, <1>2 DEF Waiting
    <3> QED
      BY <1>0, <1>3, <3>1 DEF Placed
  <2>2. /\ \A f \in running' : status'[f.node] = "planned"
        /\ \A f \in zombies' : status'[f.node] = "failed"
        /\ \A f \in Futures' : f.iter = iteration'[f.node]
    BY <1>0, <1>1, <1>3, <1>6 DEF Placed, Futures
  <2>3. \A n \in bp'.nodes : status'[n] = "planned" => \E f \in running' : f.node = n
    BY <1>0, <1>1, <1>3 DEF Placed
  <2> QED
    BY <2>1, <2>2, <2>3 DEF Placed
<1>8. Verdicts'
  <2> SUFFICES ASSUME NEW n \in bp.nodes PROVE GateHolds(n)'
    BY <1>1 DEF Verdicts
  <2>1. CASE n \in Retired
    <3>1. n \in RepairNodes(bp)'
      BY <1>1, <1>2, <2>1
    <3> QED
      BY <1>3, <2>1, <3>1 DEF GateHolds
  <2>2. CASE n \notin Retired
    <3>1. status'[n] = status[n] /\ GateHolds(n) /\ pc \notin {"drain", "end"}
      BY <1>0, <1>1, <1>3, <2>2 DEF Verdicts
    <3> QED
      BY <1>5, <3>1, PlainVerdict
  <2> QED
    BY <2>1, <2>2
<1>9. \A f \in bp.fallbacks : status'[f.source] \in Bad => f.target \notin dormant'
  <2> SUFFICES ASSUME NEW f \in bp.fallbacks, status'[f.source] \in Bad, f.target \in dormant'
               PROVE  FALSE
    OBVIOUS
  <2>1. f.source \in bp.nodes
    BY BlueprintTypes DEF Typed
  <2>2. status[f.source] \in Bad
    BY <1>3, <2>1 DEF Bad
  <2>3. f.source \in Failed(f.target)
    BY <2>2 DEF Failed, Triggers
  <2> QED
    BY <1>1, <2>3 DEF Woken
<1>10. Sweeping'
  BY <1>1, <1>9 DEF Sweeping
<1>11. Ending'
  BY <1>1 DEF Ending
<1> QED
  BY <1>7, <1>8, <1>10, <1>11 DEF Gated

\* The action of a repaired failure has nothing to wait for: no gate cancels it.
LEMMA TriggersAreOpen ==
    ASSUME Typed, Shape, Regular, NEW f \in bp.fallbacks
    PROVE  Readiness(f.source) = "ready"
<1>1. into[f.source] = {}
  BY BlueprintTypes DEF Regular, Shape, Typed
<1> QED
  BY <1>1, OpenGate

\* A step that settles waiting actions and nothing else.
LEMMA PlacedSettles ==
    ASSUME Typed, Keyed, Placed, UNCHANGED <<bp, iteration, running, zombies>>,
           NEW S, S \subseteq Waiting, Waiting' \subseteq Waiting \ S,
           \A n \in bp.nodes \ S : status'[n] = status[n],
           \A n \in S : status'[n] # "planned"
    PROVE  Placed'
<1>1. Waiting \subseteq bp.nodes
  BY TypedFacts DEF Waiting
<1>2. \A n \in Waiting' : status'[n] = "none"
  BY <1>1 DEF Placed
<1>3. \A f \in Futures : f.node \in bp.nodes \ S
  <2>1. \A f \in Futures : f.node \in bp.nodes /\ status[f.node] \in {"planned", "failed"}
    BY FuturesAreNodes DEF Placed, Futures
  <2> QED
    BY <2>1 DEF Placed
<1>4. /\ \A f \in running' : status'[f.node] = "planned"
      /\ \A f \in zombies' : status'[f.node] = "failed"
      /\ \A f \in Futures' : f.iter = iteration'[f.node]
  BY <1>3 DEF Placed, Futures
<1>5. \A n \in bp'.nodes : status'[n] = "planned" => \E f \in running' : f.node = n
  BY DEF Placed
<1> QED
  BY <1>2, <1>4, <1>5 DEF Placed

LEMMA GatedSweeps ==
    ASSUME Typed, Keyed, Shape, Gated, Regular, NEW n \in bp.nodes, Sweep(n)
    PROVE  Gated'
<1>0. Placed /\ Verdicts /\ Sweeping
  BY DEF Gated
<1>1. /\ UNCHANGED <<bp, pc, into, dormant, loopsDone, submitted, iteration, running, zombies>>
      /\ pc = "sweep" /\ n \in toSweep /\ toSweep' = toSweep \ {n}
  BY DEF Sweep, loopVars, poolVars
<1>2. n \in pending /\ status[n] = "none"
  BY <1>0, <1>1 DEF Sweeping, Placed, Waiting
<1>3. CASE Readiness(n) \notin {"cancel", "skip"}
  <2>1. UNCHANGED <<status, evidence, pending, changed>>
    BY <1>3 DEF Sweep
  <2>2. Placed' /\ Verdicts'
    BY <1>0, <1>1, <2>1, PlacedStays, StillVerdicts
  <2>3. \A m : Readiness(m)' = Readiness(m)
    BY <1>1, <2>1 DEF Readiness, AllJoin, AnyJoin, Some, Admit
  <2>4. Sweeping'
    BY <1>0, <1>1, <1>3, <2>1, <2>3 DEF Sweeping
  <2> QED
    BY <1>1, <2>2, <2>4 DEF Gated, Ending
<1>4. CASE Readiness(n) \in {"cancel", "skip"}
  <2> DEFINE v == IF Readiness(n) = "cancel" THEN "cancelled" ELSE "skipped"
  <2>1. /\ status' = [m \in bp.nodes |-> IF m \in {n} THEN v ELSE status[m]]
        /\ evidence' = [m \in bp.nodes |-> IF m \in {n} THEN "no" ELSE evidence[m]]
        /\ pending' = pending \ {n} /\ changed' = TRUE
    BY <1>4 DEF Sweep, SettleUnrun
  <2>2. status'[n] = v /\ \A m \in bp.nodes \ {n} : status'[m] = status[m] /\ evidence'[m] = evidence[m]
    BY <2>1
  <2>3. Plain
    <3>1. \A m \in bp.nodes : Settled(m) => status'[m] = status[m] /\ evidence'[m] = evidence[m]
      BY <1>2, <2>2 DEF Settled
    <3> QED
      BY <1>1, <3>1 DEF Plain
  <2>4. Placed'
    <3>1. {n} \subseteq Waiting /\ Waiting' \subseteq Waiting \ {n}
      BY <1>1, <1>2, <2>1 DEF Waiting, Typed, DagTypeOK
    <3>2. \A m \in bp.nodes \ {n} : status'[m] = status[m]
      BY <2>2
    <3>3. \A m \in {n} : status'[m] # "planned"
      BY <2>2
    <3>4. PICK S : S = {n}
      OBVIOUS
    <3> HIDE DEF v
    <3> QED
      BY <1>0, <1>1, <3>1, <3>2, <3>3, <3>4, PlacedSettles
  <2>5. GateHolds(n)'
    <3>1. Support(n)
      BY <1>0, <1>1, <1>4, NewVerdict DEF Sweeping
    <3>2. Support(n)' /\ Readiness(n)' = Readiness(n)
      BY <2>3, <3>1, PlainSupport
    <3> QED
      BY <1>4, <2>2, <3>2 DEF GateHolds
  <2>6. Verdicts'
    <3> SUFFICES ASSUME NEW m \in bp.nodes, m # n PROVE GateHolds(m)'
      BY <1>1, <2>5 DEF Verdicts
    <3>1. status'[m] = status[m] /\ GateHolds(m) /\ pc \notin {"drain", "end"}
      BY <1>0, <1>1, <2>2 DEF Verdicts
    <3> QED
      BY <2>3, <3>1, PlainVerdict
  <2>7. \A f \in bp.fallbacks : status'[f.source] \in Bad => f.target \notin dormant'
    <3> SUFFICES ASSUME NEW f \in bp.fallbacks, status'[f.source] \in Bad PROVE f.target \notin dormant
      BY <1>1
    <3>1. f.source # n /\ f.source \in bp.nodes
      BY <1>4, TriggersAreOpen, BlueprintTypes DEF Typed
    <3>2. status[f.source] \in Bad
      BY <2>2, <3>1
    <3> QED
      BY <1>0, <1>1, <3>2 DEF Sweeping
  <2>8. Sweeping'
    BY <1>0, <1>1, <2>1, <2>7 DEF Sweeping
  <2> QED
    BY <1>1, <2>4, <2>6, <2>8 DEF Gated, Ending
<1> QED
  BY <1>3, <1>4

LEMMA GatedSubmits ==
    ASSUME Typed, Keyed, Shape, Gated, Submit
    PROVE  Gated'
<1> DEFINE New == {[node |-> n, iter |-> iteration[n], no |-> submitted + Before(n) + 1,
                    st |-> "queued"] : n \in Allowed}
<1>0. Placed /\ Verdicts /\ Sweeping
  BY DEF Gated
<1>1. /\ UNCHANGED <<bp, into, dormant, loopsDone, iteration, zombies>>
      /\ pc = "submit" /\ pc' \in {"top", "wait"} /\ pending' = pending \ Ready
      /\ status' = [n \in bp.nodes |-> IF n \in Allowed THEN "planned"
                                       ELSE IF n \in Ready THEN "cancelled" ELSE status[n]]
      /\ evidence' = [n \in bp.nodes |-> IF n \in Ready \ Allowed THEN "no" ELSE evidence[n]]
      /\ running' = running \cup New
      /\ submitted' = submitted + Cardinality(Allowed)
  BY DEF Submit, loopVars, Goto
<1>2. /\ Allowed \subseteq Ready /\ Ready \subseteq pending /\ pending \subseteq bp.nodes
      /\ dormant \subseteq bp.nodes /\ pending \cap dormant = {}
      /\ \A n \in Ready : Readiness(n) = "ready" /\ status[n] = "none"
  BY <1>0, TypedFacts DEF Allowed, Ready, Placed, Waiting, Typed, DagTypeOK
<1>3. /\ \A n \in Allowed : status'[n] = "planned"
      /\ \A n \in Ready \ Allowed : status'[n] = "cancelled"
      /\ \A n \in bp.nodes \ Ready : status'[n] = status[n] /\ evidence'[n] = evidence[n]
  BY <1>1, <1>2
<1>4. /\ \A f \in New : f.node \in Allowed /\ f.iter = iteration[f.node]
      /\ \A n \in Allowed : \E f \in New : f.node = n
  <2>1. \A f \in New : f.node \in Allowed /\ f.iter = iteration[f.node]
    OBVIOUS
  <2>2. ASSUME NEW n \in Allowed PROVE \E f \in New : f.node = n
    <3>1. PICK g : g = [node |-> n, iter |-> iteration[n], no |-> submitted + Before(n) + 1,
                        st |-> "queued"]
      OBVIOUS
    <3>2. g \in New /\ g.node = n
      BY <3>1
    <3> QED
      BY <3>2
  <2> QED
    BY <2>1, <2>2
<1> HIDE DEF New
<1>5. submitted = MaxTotal => submitted' = MaxTotal
  BY <1>1, Backstop, LimitsAssumption DEF Typed, DagTypeOK
<1>6. Plain
  <2>1. \A m \in bp.nodes : Settled(m) => status'[m] = status[m] /\ evidence'[m] = evidence[m]
    BY <1>2, <1>3 DEF Settled
  <2> QED
    BY <1>1, <1>5, <2>1 DEF Plain
<1>7. \A f \in Futures : f.node \in bp.nodes \ Ready
  <2>1. \A f \in Futures : f.node \in bp.nodes /\ status[f.node] \in {"planned", "failed"}
    BY <1>0, FuturesAreNodes DEF Placed, Futures
  <2> QED
    BY <1>2, <2>1
<1>8. Placed'
  <2>1. \A n \in Waiting' : status'[n] = "none"
    <3> SUFFICES ASSUME NEW n \in Waiting' PROVE status'[n] = "none"
      OBVIOUS
    <3>1. n \in Waiting /\ n \in bp.nodes \ Ready
      BY <1>1, <1>2 DEF Waiting
    <3> QED
      BY <1>0, <1>3, <3>1 DEF Placed
  <2>2. \A f \in running' : status'[f.node] = "planned"
    BY <1>0, <1>1, <1>3, <1>4, <1>7 DEF Placed, Futures
  <2>3. \A f \in zombies' : status'[f.node] = "failed"
    BY <1>0, <1>1, <1>3, <1>7 DEF Placed, Futures
  <2>4. \A f \in Futures' : f.iter = iteration'[f.node]
    BY <1>0, <1>1, <1>4 DEF Placed, Futures
  <2>5. \A n \in bp'.nodes : status'[n] = "planned" => \E f \in running' : f.node = n
    <3> SUFFICES ASSUME NEW n \in bp.nodes, status'[n] = "planned" PROVE \E f \in running' : f.node = n
      BY <1>1
    <3>1. CASE n \in Allowed
      BY <1>1, <1>4, <3>1
    <3>2. CASE n \notin Allowed
      <4>1. status[n] = "planned"
        BY <1>3, <3>2
      <4> QED
        BY <1>0, <1>1, <4>1 DEF Placed
    <3> QED
      BY <3>1, <3>2
  <2> QED
    BY <2>1, <2>2, <2>3, <2>4, <2>5 DEF Placed
<1>9. Verdicts'
  <2> SUFFICES ASSUME NEW n \in bp.nodes PROVE GateHolds(n)'
    BY <1>1 DEF Verdicts
  <2>1. CASE n \notin Ready
    <3>1. status'[n] = status[n] /\ GateHolds(n) /\ pc \notin {"drain", "end"}
      BY <1>0, <1>1, <1>3, <2>1 DEF Verdicts
    <3> QED
      BY <1>6, <3>1, PlainVerdict
  <2>2. CASE n \in Ready
    <3>1. Support(n)
      BY <1>0, <1>1, <1>2, <2>2, NewVerdict DEF Sweeping
    <3>2. Support(n)' /\ Readiness(n)' = "ready"
      BY <1>2, <1>6, <2>2, <3>1, PlainSupport
    <3>3. n \in Allowed \/ submitted' = MaxTotal
      BY <1>1, <2>2, Backstop
    <3> QED
      BY <1>3, <2>2, <3>2, <3>3 DEF GateHolds
  <2> QED
    BY <2>1, <2>2
<1> QED
  BY <1>1, <1>8, <1>9 DEF Gated, Sweeping, Ending

LEMMA GatedGivesUp ==
    ASSUME Typed, Keyed, Shape, Gated, NothingReady
    PROVE  Gated'
<1>0. Placed /\ Verdicts /\ Sweeping
  BY DEF Gated
<1>1. UNCHANGED <<bp, into, loopsDone, iteration, running, zombies, submitted>> /\ pc = "submit" /\ Ready = {}
  BY DEF NothingReady, loopVars, poolVars
<1>2. CASE UNCHANGED <<status, evidence, pending, dormant>> /\ pc' \in {"top", "wait"}
  <2>1. Placed' /\ Verdicts'
    BY <1>0, <1>1, <1>2, PlacedStays, StillVerdicts
  <2> QED
    BY <1>2, <2>1 DEF Gated, Sweeping, Ending
<1>3. CASE /\ running = {} /\ SettleUnrun(Waiting, "cancelled")
           /\ pending' = {} /\ dormant' = {} /\ pc' = "drain"
  <2>1. /\ status' = [n \in bp.nodes |-> IF n \in Waiting THEN "cancelled" ELSE status[n]]
        /\ evidence' = [n \in bp.nodes |-> IF n \in Waiting THEN "no" ELSE evidence[n]]
        /\ Waiting' = {} /\ Waiting \subseteq bp.nodes /\ dormant \subseteq RepairNodes(bp)
    BY <1>3, TypedFacts DEF SettleUnrun, Waiting, Typed
  <2>2. /\ \A n \in Waiting : status'[n] = "cancelled"
        /\ \A n \in bp.nodes \ Waiting : /\ status'[n] = status[n] /\ evidence'[n] = evidence[n]
                                         /\ Settled(n)
    BY <1>0, <1>3, <2>1 DEF Shape, Placed, Settled
  <2>3. Plain
    <3>1. \A m \in bp.nodes : Settled(m) => status'[m] = status[m] /\ evidence'[m] = evidence[m]
      BY <1>0, <2>2 DEF Settled, Placed
    <3> QED
      BY <1>1, <1>3, <3>1 DEF Plain
  <2>4. Placed'
    <3>1. Waiting \subseteq Waiting /\ Waiting' \subseteq Waiting \ Waiting
      BY <2>1
    <3>2. /\ \A n \in bp.nodes \ Waiting : status'[n] = status[n]
          /\ \A n \in Waiting : status'[n] # "planned"
      BY <2>2
    <3> QED
      BY <1>0, <1>1, <3>1, <3>2, PlacedSettles
  <2>5. ASSUME NEW n \in pending PROVE Readiness(n)' = "cancel"
    <3>1. n \in bp.nodes /\ Readiness(n) = "wait"
      <4>1. Readiness(n) \notin {"cancel", "skip", "ready"} /\ n \in bp.nodes
        BY <1>0, <1>1, TypedFacts DEF Sweeping, Ready
      <4>2. Readiness(n) \in {"cancel", "wait", "skip", "ready"}
        BY Joins DEF Readiness
      <4> QED
        BY <4>1, <4>2
    <3>2. ASSUME NEW e \in into[n]
          PROVE  /\ Admit(e) = "wait" => Admit(e)' = "veto"
                 /\ Admit(e) # "wait" => Admit(e)' = Admit(e)
      <4>1. e.source \in bp.nodes
        BY <3>1, TypedFacts
      <4>2. CASE e.source \in Waiting
        <5>1. status'[e.source] = "cancelled"
          BY <2>2, <4>2
        <5>2. Admit(e)' = "veto"
          BY <5>1 DEF Admit, Bad
        <5>3. status[e.source] = "none"
          BY <1>0, <4>2 DEF Placed
        <5>4. Admit(e) = "wait"
          BY <5>3, Admits DEF Settled
        <5> QED
          BY <5>2, <5>4
      <4>3. CASE e.source \notin Waiting
        <5>1. status'[e.source] = status[e.source] /\ evidence'[e.source] = evidence[e.source]
              /\ Settled(e.source)
          BY <2>2, <4>1, <4>3
        <5>2. Admit(e)' = Admit(e)
          BY <5>1 DEF Admit
        <5>3. Admit(e) # "wait"
          BY <5>1, Admits
        <5> QED
          BY <5>2, <5>3
      <4> QED
        BY <4>2, <4>3
    <3>3. CASE n \notin bp.anyJoins
      <4>1. \E e \in into[n] : Admit(e) = "wait"
        BY <3>1, <3>3, Joins DEF Readiness
      <4>2. Some(n, "veto")'
        BY <1>1, <3>2, <4>1 DEF Some
      <4>3. AllJoin(n)' = "cancel"
        BY <4>2 DEF AllJoin
      <4> QED
        BY <1>1, <3>3, <4>3 DEF Readiness
    <3>4. CASE n \in bp.anyJoins
      <4>1. /\ \E e \in into[n] : Admit(e) = "wait"
            /\ ~ \E e \in into[n] : Admit(e) = "admit"
        BY <3>1, <3>4, Joins DEF Readiness
      <4>2. \A e \in into[n] : Admit(e)' \notin {"admit", "wait"}
        BY <3>2, <4>1
      <4>3. Some(n, "veto")' /\ ~Some(n, "admit")' /\ ~Some(n, "wait")' /\ into'[n] # {}
        BY <1>1, <3>2, <4>1, <4>2 DEF Some
      <4>4. AnyJoin(n)' = "cancel"
        BY <4>3 DEF AnyJoin
      <4> QED
        BY <1>1, <3>4, <4>4 DEF Readiness
    <3> QED
      BY <3>3, <3>4
  <2>6. Verdicts'
    <3> SUFFICES ASSUME NEW n \in bp.nodes PROVE GateHolds(n)'
      BY <1>1 DEF Verdicts
    <3>1. CASE n \notin Waiting
      <4>1. status'[n] = status[n] /\ GateHolds(n) /\ pc \notin {"drain", "end"}
        BY <1>0, <1>1, <2>2, <3>1 DEF Verdicts
      <4> QED
        BY <2>3, <4>1, PlainVerdict
    <3>2. CASE n \in pending
      <4>1. status'[n] = "cancelled"
        BY <2>2, <3>2 DEF Waiting
      <4> QED
        BY <1>3, <2>5, <3>2, <4>1 DEF GateHolds
    <3>3. CASE n \in dormant
      <4>1. status'[n] = "cancelled" /\ n \in RepairNodes(bp)'
        BY <1>1, <2>1, <2>2, <3>3 DEF Waiting
      <4> QED
        BY <4>1 DEF GateHolds
    <3> QED
      BY <3>1, <3>2, <3>3 DEF Waiting
  <2>7. Ending'
    BY <1>1, <1>3, <2>2 DEF Ending, Settled
  <2>8. Sweeping'
    BY <1>3 DEF Sweeping
  <2> QED
    BY <2>4, <2>6, <2>7, <2>8 DEF Gated
<1> QED
  BY <1>2, <1>3 DEF NothingReady, Goto, Waiting

LEMMA GatedCollects ==
    ASSUME Typed, Keyed, Shape, Gated, Collect
    PROVE  Gated'
<1>0. Placed /\ Verdicts /\ status \in [bp.nodes -> Statuses] /\ evidence \in [bp.nodes -> {"none", "yes", "no"}]
  BY TypedFacts DEF Gated
<1>1. UNCHANGED <<bp, into, pending, dormant, iteration, loopsDone, submitted>> /\ pc = "wait" /\ pc' = "top"
  BY DEF Collect, Goto
<1>2. PICK late \in SUBSET (running \ Done) :
         /\ zombies' = zombies \cup late
         /\ running' = running \ (late \cup Done)
         /\ \E S \in Settling(late \cup Done, late) :
               LET Of(n, r) == \E f \in S : f.node = n /\ f.st = r
                   In(n, B) == \E f \in S \cap B : f.node = n
               IN  /\ status' = [n \in bp.nodes |->
                                    IF In(n, late) \/ Of(n, "fail") THEN "failed"
                                    ELSE IF In(n, Done) THEN "succeeded" ELSE status[n]]
                   /\ evidence' = [n \in bp.nodes |->
                                    IF Of(n, "yes") THEN "yes"
                                    ELSE IF In(n, S) THEN "no" ELSE evidence[n]]
  BY DEF Collect
<1> DEFINE Batch == late \cup Done
<1>3. PICK S \in Settling(Batch, late) :
         /\ status' = [n \in bp.nodes |->
                         IF (\E f \in S \cap late : f.node = n) \/ (\E f \in S : f.node = n /\ f.st = "fail")
                         THEN "failed"
                         ELSE IF \E f \in S \cap Done : f.node = n THEN "succeeded" ELSE status[n]]
         /\ evidence' = [n \in bp.nodes |->
                         IF \E f \in S : f.node = n /\ f.st = "yes" THEN "yes"
                         ELSE IF \E f \in S \cap S : f.node = n THEN "no" ELSE evidence[n]]
  BY <1>2
<1>4. Batch \subseteq running /\ late \cap Done = {}
  BY DEF Done
<1>5. \A f, g \in Futures : f.node = g.node => f = g
  BY <1>0 DEF Placed, Keyed
<1>6. \A f \in Futures : f.node \in bp.nodes
  BY FuturesAreNodes
<1>7. S = Batch
  <2>1. S \subseteq Batch
    BY DEF Settling
  <2>2. ASSUME NEW f \in Batch PROVE f \in S
    <3> DEFINE mine == {g \in Batch : g.node = f.node}
    <3>1. f.node \in bp.nodes /\ mine = {f}
      BY <1>4, <1>5, <1>6 DEF Futures
    <3>2. Cardinality(S \cap mine) = 1
      <4>1. mine # {}
        BY <3>1
      <4> QED
        BY <3>1, <4>1 DEF Settling
    <3> HIDE DEF mine
    <3>3. S \cap mine # {}
      BY <3>2, FS_EmptySet
    <3> QED
      BY <3>1, <3>3
  <2> QED
    BY <2>1, <2>2
<1> HIDE DEF Batch
<1>8. /\ \A f \in late : status'[f.node] = "failed"
      /\ \A f \in Batch : status'[f.node] \in {"failed", "succeeded"}
      /\ \A n \in bp.nodes : (~ \E f \in Batch : f.node = n) =>
                                status'[n] = status[n] /\ evidence'[n] = evidence[n]
  <2>1. late \subseteq Batch /\ Done \subseteq Batch /\ Batch \subseteq late \cup Done
    BY DEF Batch
  <2>2. \A f \in late : status'[f.node] = "failed"
    BY <1>3, <1>4, <1>6, <1>7, <2>1 DEF Futures
  <2>3. \A f \in Done : status'[f.node] \in {"failed", "succeeded"}
    BY <1>3, <1>4, <1>6, <1>7, <2>1 DEF Futures
  <2>4. ASSUME NEW n \in bp.nodes, ~ \E f \in Batch : f.node = n
        PROVE  status'[n] = status[n] /\ evidence'[n] = evidence[n]
    BY <1>3, <1>7, <2>1, <2>4
  <2> QED
    BY <2>1, <2>2, <2>3, <2>4
<1>9. \A f \in Batch : f \in running /\ status[f.node] = "planned" /\ f.node \in bp.nodes
  BY <1>0, <1>4, <1>6 DEF Placed, Futures
<1>10. Plain
  <2>1. ASSUME NEW m \in bp.nodes, Settled(m) PROVE status'[m] = status[m] /\ evidence'[m] = evidence[m]
    <3>1. ~ \E f \in Batch : f.node = m
      BY <1>9, <2>1 DEF Settled
    <3> QED
      BY <1>8, <3>1
  <2> QED
    BY <1>1, <2>1 DEF Plain
<1>11. Placed'
  <2>1. \A n \in Waiting' : status'[n] = "none"
    <3> SUFFICES ASSUME NEW n \in Waiting PROVE status'[n] = "none"
      BY <1>1 DEF Waiting
    <3>1. n \in bp.nodes /\ status[n] = "none"
      BY <1>0, TypedFacts DEF Placed, Waiting
    <3>2. ~ \E f \in Batch : f.node = n
      BY <1>9, <3>1
    <3> QED
      BY <1>8, <3>1, <3>2
  <2>2. running' = running \ Batch
    BY <1>2 DEF Batch
  <2>3. ASSUME NEW f \in running' PROVE status'[f.node] = "planned"
    <3>1. f \in running /\ f \notin Batch /\ f.node \in bp.nodes
      BY <1>6, <2>2 DEF Futures
    <3>2. ~ \E g \in Batch : g.node = f.node
      BY <1>5, <1>9, <3>1 DEF Futures
    <3> QED
      BY <1>0, <1>8, <3>1, <3>2 DEF Placed
  <2>4. ASSUME NEW f \in zombies' PROVE status'[f.node] = "failed"
    <3>1. CASE f \in late
      BY <1>8, <3>1
    <3>2. CASE f \in zombies
      <4>1. status[f.node] = "failed" /\ f.node \in bp.nodes
        BY <1>0, <1>6, <3>2 DEF Placed, Futures
      <4>2. ~ \E g \in Batch : g.node = f.node
        BY <1>9, <4>1
      <4> QED
        BY <1>8, <4>1, <4>2
    <3> QED
      BY <1>2, <3>1, <3>2
  <2>5. \A f \in Futures' : f.iter = iteration'[f.node]
    BY <1>0, <1>1, <1>2 DEF Placed, Futures
  <2>6. ASSUME NEW n \in bp.nodes, status'[n] = "planned" PROVE \E f \in running' : f.node = n
    <3>1. ~ \E f \in Batch : f.node = n
      BY <1>8, <2>6
    <3>2. status[n] = "planned"
      BY <1>8, <2>6, <3>1
    <3> QED
      BY <1>0, <2>2, <3>1, <3>2 DEF Placed
  <2> QED
    BY <1>1, <2>1, <2>3, <2>4, <2>5, <2>6 DEF Placed
<1>12. Verdicts'
  <2> SUFFICES ASSUME NEW n \in bp.nodes PROVE GateHolds(n)'
    BY <1>1 DEF Verdicts
  <2>1. \/ status'[n] = status[n]
        \/ status[n] = "planned" /\ status'[n] \in {"succeeded", "failed"}
    BY <1>8, <1>9
  <2>2. GateHolds(n) /\ pc \notin {"drain", "end"}
    BY <1>0, <1>1 DEF Verdicts
  <2> QED
    BY <1>10, <2>1, <2>2, PlainVerdict
<1> QED
  BY <1>1, <1>11, <1>12 DEF Gated, Sweeping, Ending

LEMMA GatedStep == Typed /\ Keyed /\ Shape /\ Regular /\ Gated /\ [DagNext]_dagVars => Gated'
<1> SUFFICES ASSUME Typed, Keyed, Shape, Regular, Gated, [DagNext]_dagVars PROVE Gated'
  OBVIOUS
<1>1. CASE Turn \/ JudgedAll \/ Swept \/ Drained
  BY <1>1, GatedTurns
<1>2. CASE UNCHANGED dagVars
  BY <1>2, GatedStutters
<1>3. CASE Start \/ End
  BY <1>3, GatedRuns
<1>4. ASSUME NEW l \in bp.loops, JudgeStale(l) \/ JudgeExit(l) PROVE Gated'
  BY <1>4, GatedExits
<1>5. ASSUME NEW l \in bp.loops, JudgeExhausted(l) PROVE Gated'
  BY <1>5, GatedExhausts
<1>6. ASSUME NEW l \in bp.loops, JudgeContinue(l) PROVE Gated'
  BY <1>6, GatedContinues
<1>7. CASE Activate
  BY <1>7, GatedActivates
<1>8. ASSUME NEW n \in bp.nodes, Sweep(n) PROVE Gated'
  BY <1>8, GatedSweeps
<1>9. CASE Submit
  BY <1>9, GatedSubmits
<1>10. CASE NothingReady
  BY <1>10, GatedGivesUp
<1>11. CASE Collect
  BY <1>11, GatedCollects
<1> QED
  BY <1>1, <1>2, <1>3, <1>4, <1>5, <1>6, <1>7, <1>8, <1>9, <1>10, <1>11 DEF DagNext, Runner

\* The inductive invariant of a run.
DagInv == Typed /\ Keyed /\ Shape /\ (Regular => Gated)

LEMMA DagInvHolds == DagSpec => []DagInv
<1>1. DagInit => DagInv
  BY TypedAtInit, KeyedAtInit, ShapeAtInit, GatedAtInit DEF DagInv
<1>2. DagInv /\ [DagNext]_dagVars => DagInv'
  <2> SUFFICES ASSUME DagInv, [DagNext]_dagVars PROVE DagInv'
    OBVIOUS
  <2>1. Typed' /\ Keyed' /\ Shape'
    BY TypedStep, KeyedStep, ShapeStep DEF DagInv
  <2>2. Regular' <=> Regular
    BY Unmoved DEF Regular, Incoming
  <2>3. Regular => Gated'
    BY GatedStep DEF DagInv
  <2> QED
    BY <2>1, <2>2, <2>3 DEF DagInv
<1> QED
  BY <1>1, <1>2, PTL DEF DagSpec
-----------------------------------------------------------------------------
\* Every reachable state of a run is well typed.
THEOREM DagTypes == DagSpec => []DagTypeOK
<1>1. DagInv => DagTypeOK
  BY DEF DagInv, Typed
<1> QED
  BY <1>1, DagInvHolds, PTL

\* No idempotency key is handed to an executor twice: a future's key is its own, and a
\* re-entered action's key is of a pass nobody has begun.
THEOREM RunsOnce == DagSpec => []KeysRunOnce
<1>1. DagInv => KeysRunOnce
  BY DEF DagInv, Keyed, KeysRunOnce
<1> QED
  BY <1>1, DagInvHolds, PTL

\* An action that waits for a loop's tail is handed out once the loop is over: its gate
\* admitted the tail, and an answer it rests on is final.
LEMMA HandedOutLate ==
    ASSUME Typed, Shape, Gated, Regular, NEW f \in Futures, f.node \in bp.nodes,
           NEW e \in bp.edges, NEW l \in bp.loops,
           e.target = f.node, f.node \notin bp.anyJoins, e.source = l.tail,
           f.node \notin Region(bp, l)
    PROVE  l \in loopsDone
<1>0. PICK n \in bp.nodes : n = f.node
  OBVIOUS
<1>1. Repairs(bp, e.source) = {}
  BY Regions DEF Typed, Repairs
<1>2. PICK x : x = [source |-> e.source, guard |-> e.guard]
  OBVIOUS
<1>3. x \in into[n] /\ x.source = l.tail
  BY <1>0, <1>1, <1>2 DEF Shape
<1>4. status[n] \in {"planned", "failed"}
  BY <1>0 DEF Gated, Placed, Futures
<1>5. Support(n) /\ Readiness(n) = "ready"
  BY <1>4 DEF Gated, Verdicts, GateHolds
<1>6. \A y \in into[n] : Admit(y) = "admit"
  BY <1>0, <1>5, Joins DEF Readiness
<1>7. Fixed(n, x)
  BY <1>0, <1>3, <1>5, <1>6 DEF Support
<1>8. status[l.tail] = "succeeded"
  <2>1. Admit(x) = "admit" /\ status[x.source] \in Statuses
    BY <1>3, <1>6, BlueprintTypes, TypedFacts DEF Typed
  <2> QED
    BY <1>3, <2>1, Admits
<1>9. Over(l.tail, n)
  BY <1>3, <1>7, <1>8 DEF Fixed
<1> QED
  BY <1>0, <1>9 DEF Over

\* While a route is regular, whatever is in flight belongs to its action's present pass, and
\* two executions of one action are never at work together.
THEOREM PassesStayApart == DagSpec => []PassesApart
<1>1. DagInv => PassesApart
  <2> SUFFICES ASSUME DagInv, Regular
               PROVE  /\ NotMidLoop
                      /\ \A f, g \in Executing : f.node = g.node => f = g
                      /\ \A f \in running \cup zombies : f.iter = iteration[f.node]
    BY DEF PassesApart
  <2>0. Typed /\ Keyed /\ Shape /\ Gated
    BY DEF DagInv
  <2>1. \A f \in Futures : f.node \in bp.nodes
    BY <2>0, FuturesAreNodes
  <2>2. NotMidLoop
    <3> SUFFICES ASSUME NEW f \in Futures, NEW e \in bp.edges, NEW l \in bp.loops,
                        e.target = f.node, f.node \notin bp.anyJoins, e.source = l.tail,
                        f.node \notin Region(bp, l)
                 PROVE  l \in loopsDone
      BY DEF NotMidLoop, Futures
    <3> QED
      BY <2>0, <2>1, HandedOutLate
  <2>3. \A f \in Futures : f.iter = iteration[f.node]
    BY <2>0 DEF Gated, Placed
  <2>4. \A f, g \in Futures : f.node = g.node => f = g
    BY <2>0, <2>3 DEF Keyed
  <2> QED
    BY <2>2, <2>3, <2>4 DEF Executing, Futures
<1> QED
  BY <1>1, DagInvHolds, PTL

\* When a route is over, every action is what its gate says of the final verdicts of its
\* sources.
THEOREM GatesDecideTheRoute == DagSpec => []GatesDecide
<1>1. DagInv => GatesDecide
  <2> SUFFICES ASSUME DagInv, pc = "end", Regular, NEW n \in bp.nodes \ RepairNodes(bp)
               PROVE  CASE Readiness(n) = "ready" ->
                              \/ status[n] \in {"succeeded", "failed"}
                              \/ status[n] = "cancelled" /\ submitted = MaxTotal
                        [] Readiness(n) = "cancel" -> status[n] = "cancelled"
                        [] Readiness(n) = "skip" -> status[n] = "skipped"
                        [] OTHER -> FALSE
    BY DEF GatesDecide
  <2>1. Gated /\ status[n] \in Statuses
    BY TypedFacts DEF DagInv
  <2>2. status[n] \in {"succeeded", "skipped", "failed", "cancelled"}
    BY <2>1 DEF Gated, Ending, Settled, Statuses, Bad
  <2>3. GateHolds(n)
    BY <2>1 DEF Gated, Verdicts
  <2>4. CASE status[n] \in {"succeeded", "failed"}
    BY <2>3, <2>4 DEF GateHolds
  <2>5. CASE status[n] = "skipped"
    BY <2>3, <2>5 DEF GateHolds
  <2>6. CASE status[n] = "cancelled"
    BY <2>3, <2>6 DEF GateHolds
  <2> QED
    BY <2>2, <2>4, <2>5, <2>6
<1> QED
  BY <1>1, DagInvHolds, PTL

\* A verdict changes only where a loop is judged: what a sweep, a submission, a collection or
\* an activation settles was open, for what waits has no verdict and what runs is planned.
LEMMA OnlyJudgementsRevise ==
    ASSUME DagInv, [DagNext]_dagVars, Regular, NEW n \in bp.nodes,
           status[n] \notin {"none", "planned", status'[n]}
    PROVE  pc = "loops"
<1>0. Typed /\ Keyed /\ Shape /\ Gated /\ Placed /\ status \in [bp.nodes -> Statuses]
      /\ pending \subseteq bp.nodes
  BY TypedFacts DEF DagInv, Gated
<1>1. n \notin Waiting
  BY <1>0 DEF Placed
<1>2. CASE Turn \/ JudgedAll \/ Swept \/ Drained \/ Start \/ End \/ UNCHANGED dagVars
  BY <1>2 DEF Turn, JudgedAll, Swept, Drained, Start, End, dagVars, graphVars
<1>3. ASSUME NEW l \in bp.loops, JudgeStale(l) \/ JudgeContinue(l) \/ JudgeExit(l) \/ JudgeExhausted(l)
      PROVE  pc = "loops"
  BY <1>3 DEF JudgeStale, JudgeContinue, JudgeExit, JudgeExhausted
<1>4. CASE Activate
  <2>1. n \notin Retired
    BY <1>1 DEF Retired, Waiting
  <2> QED
    BY <1>4, <2>1 DEF Activate
<1>5. ASSUME NEW m \in bp.nodes, Sweep(m) PROVE FALSE
  <2>1. m \in pending
    BY <1>0, <1>5 DEF Gated, Sweeping, Sweep
  <2>2. m # n
    BY <1>1, <2>1 DEF Waiting
  <2>3. status' = status \/ \E v \in {"cancelled", "skipped"} :
           status' = [k \in bp.nodes |-> IF k \in {m} THEN v ELSE status[k]]
    BY <1>5 DEF Sweep, SettleUnrun
  <2> QED
    BY <2>2, <2>3
<1>6. CASE Submit
  <2>1. n \notin Ready /\ n \notin Allowed
    BY <1>1 DEF Ready, Allowed, Waiting
  <2>2. status' = [k \in bp.nodes |-> IF k \in Allowed THEN "planned"
                                      ELSE IF k \in Ready THEN "cancelled" ELSE status[k]]
    BY <1>6 DEF Submit
  <2> QED
    BY <2>1, <2>2
<1>7. CASE NothingReady
  <2>1. \/ status' = status
        \/ status' = [k \in bp.nodes |-> IF k \in Waiting THEN "cancelled" ELSE status[k]]
    BY <1>7 DEF NothingReady, SettleUnrun, Waiting
  <2> QED
    BY <1>1, <2>1
<1>8. CASE Collect
  <2>1. PICK late \in SUBSET (running \ Done) :
           \E S \in Settling(late \cup Done, late) :
              LET Of(k, r) == \E f \in S : f.node = k /\ f.st = r
                  In(k, B) == \E f \in S \cap B : f.node = k
              IN  /\ status' = [k \in bp.nodes |->
                                   IF In(k, late) \/ Of(k, "fail") THEN "failed"
                                   ELSE IF In(k, Done) THEN "succeeded" ELSE status[k]]
                  /\ evidence' = [k \in bp.nodes |->
                                   IF Of(k, "yes") THEN "yes"
                                   ELSE IF In(k, S) THEN "no" ELSE evidence[k]]
    BY <1>8 DEF Collect
  <2>3. PICK S \in Settling(late \cup Done, late) :
           status' = [k \in bp.nodes |->
                         IF (\E f \in S \cap late : f.node = k) \/ (\E f \in S : f.node = k /\ f.st = "fail")
                         THEN "failed"
                         ELSE IF \E f \in S \cap Done : f.node = k THEN "succeeded" ELSE status[k]]
    BY <2>1
  <2>4. S \subseteq running
    BY DEF Settling, Done
  <2>5. ~ \E f \in S : f.node = n
    BY <1>0, <2>4 DEF Placed
  <2> QED
    BY <2>3, <2>5
<1> QED
  BY <1>2, <1>3, <1>4, <1>5, <1>6, <1>7, <1>8 DEF DagNext, Runner

\* A recorded verdict is revised by the judgement of a loop only.
THEOREM VerdictsAreKept == DagSpec => VerdictsStand
<1>1. DagInv /\ [DagNext]_dagVars =>
        [Regular =>
           \A n \in bp.nodes :
              status[n] \notin {"none", "planned", status'[n]} => pc = "loops"]_dagVars
  BY OnlyJudgementsRevise
<1> QED
  BY <1>1, DagInvHolds, PTL DEF DagSpec, VerdictsStand
=============================================================================
