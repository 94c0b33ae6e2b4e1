------------------------------ MODULE DagRoute ------------------------------
(***************************************************************************)
(* One run of DagRouteRunner (orchestrator/scheduler.py): a blueprint's    *)
(* actions as a dependency graph, with guarded edges, any- and all-joins,  *)
(* repair branches (fallback edges) and bounded loops, judged by the gates *)
(* of orchestrator/gates.py.                                               *)
(*                                                                         *)
(* The runner is one thread; its loop is the phases of `pc`.  Around it a  *)
(* pool of MaxWorkers threads runs what it submitted.  A timed-out action  *)
(* is abandoned, not stopped: its future is a zombie, which may even start *)
(* later, and the pool's exit waits for it.                                *)
(*                                                                         *)
(* A guard is a predicate over evidence: here it holds on "yes".  A value  *)
(* pipe that fails, an exception and a broken postcondition all make a     *)
(* success a failure: an execution ends in one of Results.                 *)
(***************************************************************************)
EXTENDS Integers, FiniteSets

CONSTANTS
    Nodes,        \* action ids: numbers, for the runner sorts them
    Blueprints,   \* the blueprints a run may be given
    MaxWorkers,   \* threads of the pool
    MaxTotal,     \* max_total_actions
    MaxTimeouts   \* bound: actions that time out in one run

ASSUME NodesAssumption == Nodes \subseteq Nat /\ IsFiniteSet(Nodes)
\* _preflight: an edge of an unknown action is refused.
ASSUME BlueprintsAssumption ==
    \A b \in Blueprints :
        /\ b.nodes \subseteq Nodes /\ b.anyJoins \subseteq b.nodes
        /\ b.edges \subseteq [source : b.nodes, target : b.nodes, guard : BOOLEAN]
        /\ b.fallbacks \subseteq [source : b.nodes, target : b.nodes]
        /\ \A l \in b.loops : l.tail \in b.nodes /\ l.head \in b.nodes /\ l.budget \in Nat
ASSUME LimitsAssumption == MaxWorkers \in Nat \ {0} /\ MaxTotal \in Nat /\ MaxTimeouts \in Nat

Results == {"yes", "no", "fail"}

(***************************************************************************)
(* A blueprint: its actions, ordering edges, fallback edges, joins, loops. *)
(* A loop edge runs from tail to head; guarded says whether it carries a   *)
(* CONTINUE condition.                                                     *)
(***************************************************************************)
Edge == [source : Nodes, target : Nodes, guard : BOOLEAN]
Pair == [source : Nodes, target : Nodes]
Loop == [tail : Nodes, head : Nodes, guarded : BOOLEAN, budget : Nat \ {0}]

Children(b, n) == {e.target : e \in {x \in b.edges : x.source = n}}

\* m is reachable from n: in every set that holds n's children and is closed.
Reaches(b, n, m) ==
    \A S \in SUBSET b.nodes :
        (Children(b, n) \subseteq S /\ \A s \in S : Children(b, s) \subseteq S) => m \in S

HasCycle(b) == \E n \in b.nodes : Reaches(b, n, n)

\* Every node on a path from the loop's head to its tail.
Region(b, l) ==
    {l.head, l.tail} \cup {n \in b.nodes : Reaches(b, l.head, n) /\ Reaches(b, n, l.tail)}

\* derive_loops: a loop closes a path, regions nest or are apart, no repair touches a
\* region, and a region is left only through its tail.
LoopsAreSound(b) ==
    /\ \A l \in b.loops : l.head = l.tail \/ Reaches(b, l.head, l.tail)
    /\ \A l, k \in b.loops :
          l = k \/ Region(b, l) \cap Region(b, k) = {}
                \/ (Region(b, l) \subseteq Region(b, k)) # (Region(b, k) \subseteq Region(b, l))
    /\ \A l \in b.loops :
          /\ \A f \in b.fallbacks : {f.source, f.target} \cap Region(b, l) = {}
          /\ \A e \in b.edges :
                e.source \in Region(b, l) /\ e.source # l.tail => e.target \in Region(b, l)

GraphPreflight(b) == ~HasCycle(b) /\ LoopsAreSound(b)

Triggers(b, n) == {f.source : f \in {x \in b.fallbacks : x.target = n}}
Repairs(b, n)  == {f.target : f \in {x \in b.fallbacks : x.source = n}}
RepairNodes(b) == {f.target : f \in b.fallbacks}
-----------------------------------------------------------------------------
VARIABLES
    bp,         \* the blueprint
    pc,         \* where the runner's loop is
    status,     \* node -> status, "none" before it has one
    evidence,   \* node -> recorded evidence, "none" when nothing was recorded
    into,       \* node -> its incoming edges, which a substitution rewrites
    pending, dormant,
    running,    \* futures the runner waits for
    zombies,    \* futures it gave up on and the pool did not
    iteration,  \* node -> resets, part of its idempotency key
    passes,     \* loop -> completed passes
    loopsDone, tailEvents,
    submitted,
    toSweep,    \* nodes the present sweep has yet to look at
    changed,    \* this sweep, or the activation before it, settled something
    progressed, \* this turn of the loop did
    timeouts,   \* actions timed out
    ran         \* history: <<node, iteration>> -> executions begun

graphVars == <<status, evidence, into, pending, dormant>>
loopVars  == <<iteration, passes, loopsDone, tailEvents>>
poolVars  == <<running, zombies>>
turnVars  == <<toSweep, changed, progressed>>
dagVars == <<bp, pc, graphVars, loopVars, poolVars, turnVars, submitted, timeouts, ran>>

Bad == {"failed", "cancelled"}
Statuses == {"none", "planned", "succeeded", "skipped"} \cup Bad
Future == [node : Nodes, iter : Nat, no : Nat, st : {"queued", "executing"} \cup Results]

DagTypeOK ==
    /\ pc \in {"top", "loops", "activate", "sweep", "submit", "wait", "drain", "end"}
    /\ status \in [bp.nodes -> Statuses]
    /\ evidence \in [bp.nodes -> {"none", "yes", "no"}]
    /\ into \in [bp.nodes -> SUBSET [source : bp.nodes, guard : BOOLEAN]]
    /\ pending \subseteq bp.nodes /\ dormant \subseteq bp.nodes \ pending
    /\ running \subseteq Future /\ zombies \subseteq Future
    /\ iteration \in [bp.nodes -> Nat]
    /\ passes \in [bp.loops -> Nat]
    /\ loopsDone \subseteq bp.loops /\ tailEvents \subseteq bp.loops
    /\ submitted \in 0 .. MaxTotal
    /\ toSweep \subseteq bp.nodes /\ changed \in BOOLEAN /\ progressed \in BOOLEAN
    /\ timeouts \in 0 .. MaxTimeouts
    /\ ran \in [bp.nodes \X (0 .. MaxTotal) -> Nat]

DagInit ==
    /\ bp \in {b \in Blueprints : GraphPreflight(b)}
    /\ pc = "top"
    /\ status = [n \in bp.nodes |-> "none"] /\ evidence = [n \in bp.nodes |-> "none"]
    /\ into = [n \in bp.nodes |->
                  {[source |-> e.source, guard |-> e.guard] :
                        e \in {x \in bp.edges : x.target = n}}]
    /\ pending = bp.nodes \ RepairNodes(bp) /\ dormant = RepairNodes(bp)
    /\ running = {} /\ zombies = {}
    /\ iteration = [n \in bp.nodes |-> 0]
    /\ passes = [l \in bp.loops |-> 0] /\ loopsDone = {} /\ tailEvents = {}
    /\ submitted = 0
    /\ toSweep = {} /\ changed = FALSE /\ progressed = FALSE
    /\ timeouts = 0
    /\ ran = [k \in bp.nodes \X (0 .. MaxTotal) |-> 0]
-----------------------------------------------------------------------------
\* GATES

Admit(e) ==
    CASE status[e.source] \in Bad -> "veto"
      [] status[e.source] = "skipped" -> "decline"
      [] status[e.source] \in {"none", "planned"} -> "wait"
      [] OTHER -> IF e.guard /\ evidence[e.source] # "yes" THEN "decline" ELSE "admit"

Some(n, a) == \E e \in into[n] : Admit(e) = a

AllJoin(n) ==
    CASE Some(n, "veto") -> "cancel"
      [] ~Some(n, "veto") /\ Some(n, "wait") -> "wait"
      [] ~Some(n, "veto") /\ ~Some(n, "wait") /\ Some(n, "decline") -> "skip"
      [] OTHER -> "ready"

AnyJoin(n) ==
    CASE Some(n, "admit") \/ into[n] = {} -> "ready"
      [] ~Some(n, "admit") /\ Some(n, "wait") -> "wait"
      [] ~Some(n, "admit") /\ ~Some(n, "wait") /\ Some(n, "veto") -> "cancel"
      [] OTHER -> "skip"

\* Mutant: a decline settles an all-join before every source has settled.
HastyReadiness(n) ==
    IF n \in bp.anyJoins THEN AnyJoin(n)
    ELSE IF Some(n, "decline") /\ ~Some(n, "veto") THEN "skip" ELSE AllJoin(n)

\* Mutant: every join fires on its first branch.
ReadinessAny(n) == AnyJoin(n)

Readiness(n) == IF n \in bp.anyJoins THEN AnyJoin(n) ELSE AllJoin(n)

\* The nodes whose branch ended well: each verified, was not taken, or was repaired
\* whole.  (effective_ok: the least such set.)
EffectivelyOk(n) ==
    \A S \in SUBSET bp.nodes :
        (\A m \in bp.nodes :
            \/ status[m] \in {"succeeded", "skipped"}
            \/ Repairs(bp, m) # {} /\ Repairs(bp, m) \subseteq S
            => m \in S)
        => n \in S

RouteVerdict == \A n \in bp.nodes : EffectivelyOk(n)
-----------------------------------------------------------------------------
\* SETTLING

\* The loops whose tail has just verified.
TailsOf(n) == {l \in bp.loops \ loopsDone : l.tail = n}

\* settle() of nodes that never ran.
SettleUnrun(S, verdict) ==
    /\ status' = [n \in bp.nodes |-> IF n \in S THEN verdict ELSE status[n]]
    /\ evidence' = [n \in bp.nodes |-> IF n \in S THEN "no" ELSE evidence[n]]
-----------------------------------------------------------------------------
\* THE RUNNER'S LOOP

Goto(p) == pc' = p

\* while pending or running or dormant or tail_events
Turn ==
    /\ pc = "top"
    /\ IF pending = {} /\ dormant = {} /\ running = {} /\ tailEvents = {}
       THEN Goto("drain") /\ UNCHANGED progressed
       ELSE Goto("loops") /\ progressed' = FALSE
    /\ UNCHANGED <<bp, graphVars, loopVars, poolVars, toSweep, changed, submitted, timeouts, ran>>

Size(l) == Cardinality(Region(bp, l))
Innermost(l) == l \in tailEvents /\ \A k \in tailEvents : Size(l) <= Size(k)
Live(l) == status[l.tail] = "succeeded"
Holds(l) == l.guarded => evidence[l.tail] = "yes"
Spent(l) == passes[l] + 1 >= l.budget

\* A stale event: the success it recorded no longer stands.
JudgeStale(l) ==
    /\ pc = "loops" /\ Innermost(l) /\ ~Live(l)
    /\ tailEvents' = tailEvents \ {l}
    /\ UNCHANGED <<bp, pc, graphVars, iteration, passes, loopsDone, poolVars, turnVars, submitted,
                   timeouts, ran>>

\* Mutant: the region is run again under the keys of the last pass.
JudgeContinueSameKey(l) ==
    /\ pc = "loops" /\ Innermost(l) /\ Live(l) /\ Holds(l) /\ ~Spent(l)
    /\ status' = [n \in bp.nodes |-> IF n \in Region(bp, l) THEN "none" ELSE status[n]]
    /\ evidence' = [n \in bp.nodes |-> IF n \in Region(bp, l) THEN "none" ELSE evidence[n]]
    /\ pending' = pending \cup Region(bp, l)
    /\ passes' = [k \in bp.loops |->
                     IF k = l THEN passes[l] + 1
                     ELSE IF Region(bp, k) \subseteq Region(bp, l) THEN 0 ELSE passes[k]]
    /\ loopsDone' = {k \in loopsDone : ~(Region(bp, k) \subseteq Region(bp, l))}
    /\ tailEvents' = {k \in tailEvents : k # l /\ k.tail \notin Region(bp, l)}
    /\ progressed' = TRUE
    /\ UNCHANGED <<bp, pc, into, dormant, iteration, poolVars, toSweep, changed, submitted,
                   timeouts, ran>>

\* Continue: the region re-enters under fresh keys, and the loops nested in it get
\* fresh budgets.
JudgeContinue(l) ==
    /\ pc = "loops" /\ Innermost(l) /\ Live(l) /\ Holds(l) /\ ~Spent(l)
    /\ status' = [n \in bp.nodes |-> IF n \in Region(bp, l) THEN "none" ELSE status[n]]
    /\ evidence' = [n \in bp.nodes |-> IF n \in Region(bp, l) THEN "none" ELSE evidence[n]]
    /\ pending' = pending \cup Region(bp, l)
    /\ iteration' = [n \in bp.nodes |-> IF n \in Region(bp, l) THEN iteration[n] + 1
                                                               ELSE iteration[n]]
    /\ passes' = [k \in bp.loops |->
                     IF k = l THEN passes[l] + 1
                     ELSE IF Region(bp, k) \subseteq Region(bp, l) THEN 0 ELSE passes[k]]
    /\ loopsDone' = {k \in loopsDone : k = l \/ ~(Region(bp, k) \subseteq Region(bp, l))}
    /\ tailEvents' = {k \in tailEvents : k # l /\ k.tail \notin Region(bp, l)}
    /\ progressed' = TRUE
    /\ UNCHANGED <<bp, pc, into, dormant, poolVars, toSweep, changed, submitted, timeouts, ran>>

\* Exit: the guard stopped holding, or an unguarded loop has run its passes.
JudgeExit(l) ==
    /\ pc = "loops" /\ Innermost(l) /\ Live(l)
    /\ ~Holds(l) \/ (Spent(l) /\ ~l.guarded)
    /\ passes' = [passes EXCEPT ![l] = passes[l] + 1]
    /\ loopsDone' = loopsDone \cup {l}
    /\ tailEvents' = tailEvents \ {l}
    /\ progressed' = TRUE
    /\ UNCHANGED <<bp, pc, graphVars, iteration, poolVars, toSweep, changed, submitted, timeouts,
                   ran>>

\* Exhausted: the guard still holds and no budget is left; the tail fails loudly.
JudgeExhausted(l) ==
    /\ pc = "loops" /\ Innermost(l) /\ Live(l)
    /\ l.guarded /\ Holds(l) /\ Spent(l)
    /\ passes' = [passes EXCEPT ![l] = passes[l] + 1]
    /\ loopsDone' = loopsDone \cup {l}
    /\ tailEvents' = tailEvents \ {l}
    /\ SettleUnrun({l.tail}, "failed")
    /\ progressed' = TRUE
    /\ UNCHANGED <<bp, pc, into, pending, dormant, iteration, poolVars, toSweep, changed,
                   submitted, timeouts, ran>>

JudgedAll ==
    /\ pc = "loops" /\ tailEvents = {}
    /\ Goto("activate")
    /\ UNCHANGED <<bp, graphVars, loopVars, poolVars, turnVars, submitted, timeouts, ran>>

\* activate_fallbacks.  Edges sourced on a failed trigger move to all the repairs this
\* activation woke for it; a repair nobody needs is retired without an outcome.
Failed(n) == {t \in Triggers(bp, n) : status[t] \in Bad}
Woken   == {n \in dormant : Failed(n) # {}}
Retired == {n \in dormant \ Woken :
               \A t \in Triggers(bp, n) : status[t] \in {"succeeded", "skipped"}}
Substitutes(t) == {n \in Woken : t \in Failed(n)}

Activate ==
    /\ pc = "activate"
    /\ dormant' = dormant \ (Woken \cup Retired)
    /\ pending' = pending \cup Woken
    /\ status' = [n \in bp.nodes |->
                     IF n \notin Retired THEN status[n]
                     ELSE IF \A t \in Triggers(bp, n) : status[t] = "skipped"
                          THEN "skipped" ELSE "succeeded"]
    /\ into' = [n \in bp.nodes |->
                   {e \in into[n] : Substitutes(e.source) = {}} \cup
                   UNION {{[source |-> r, guard |-> e.guard] : r \in Substitutes(e.source)} :
                              e \in into[n]}]
    /\ changed' = (Woken \cup Retired # {})
    /\ toSweep' = pending'
    /\ Goto("sweep")
    /\ UNCHANGED <<bp, evidence, loopVars, poolVars, progressed, submitted, timeouts, ran>>

\* for node in sorted(pending): the verdict is taken when the node's turn comes, and a
\* node settled earlier in the sweep is settled for those after it.
Sweep(n) ==
    /\ pc = "sweep" /\ n \in toSweep /\ \A m \in toSweep : n <= m
    /\ toSweep' = toSweep \ {n}
    /\ CASE Readiness(n) = "cancel" -> SettleUnrun({n}, "cancelled")
         [] Readiness(n) = "skip" -> SettleUnrun({n}, "skipped")
         [] OTHER -> UNCHANGED <<status, evidence>>
    /\ IF Readiness(n) \in {"cancel", "skip"}
       THEN pending' = pending \ {n} /\ changed' = TRUE
       ELSE UNCHANGED <<pending, changed>>
    /\ UNCHANGED <<bp, pc, into, dormant, loopVars, poolVars, progressed, submitted, timeouts, ran>>

\* while changed
Swept ==
    /\ pc = "sweep" /\ toSweep = {}
    /\ Goto(IF changed THEN "activate" ELSE "submit")
    /\ progressed' = (progressed \/ changed)
    /\ UNCHANGED <<bp, graphVars, loopVars, poolVars, toSweep, changed, submitted, timeouts, ran>>

Ready == {n \in pending : Readiness(n) = "ready"}
Before(n) == Cardinality({m \in Ready : m < n})

\* The ready nodes are submitted in order; past max_total_actions they are cancelled.
Allowed == {n \in Ready : submitted + Before(n) < MaxTotal}

Submit ==
    /\ pc = "submit" /\ Ready # {}
    /\ pending' = pending \ Ready
    /\ status' = [n \in bp.nodes |-> IF n \in Allowed THEN "planned"
                                     ELSE IF n \in Ready THEN "cancelled" ELSE status[n]]
    /\ evidence' = [n \in bp.nodes |-> IF n \in Ready \ Allowed THEN "no" ELSE evidence[n]]
    /\ running' = running \cup {[node |-> n, iter |-> iteration[n],
                                 no |-> submitted + Before(n) + 1, st |-> "queued"] : n \in Allowed}
    /\ submitted' = submitted + Cardinality(Allowed)
    /\ Goto(IF running' = {} THEN "top" ELSE "wait")
    /\ UNCHANGED <<bp, into, dormant, loopVars, zombies, turnVars, timeouts, ran>>

\* Mutant: actions that wait for each other are waited for.
NothingReadyWaits ==
    /\ pc = "submit" /\ Ready = {}
    /\ Goto(IF running = {} THEN "top" ELSE "wait")
    /\ UNCHANGED <<bp, graphVars, loopVars, poolVars, turnVars, submitted, timeouts, ran>>

\* Nothing is ready: wait for what runs, look again after progress, or give up on
\* nodes that wait for each other.
NothingReady ==
    /\ pc = "submit" /\ Ready = {}
    /\ IF running = {} /\ ~progressed
       THEN /\ SettleUnrun(pending \cup dormant, "cancelled")
            /\ pending' = {} /\ dormant' = {}
            /\ Goto("drain")
       ELSE /\ Goto(IF running = {} THEN "top" ELSE "wait")
            /\ UNCHANGED <<status, evidence, pending, dormant>>
    /\ UNCHANGED <<bp, into, loopVars, poolVars, turnVars, submitted, timeouts, ran>>

Done == {f \in running : f.st \in Results}

\* The settles of one wait: one outcome stands per node, a result's before a timeout's.
Settling(batch, late) ==
    {S \in SUBSET batch :
        \A n \in bp.nodes :
            LET mine == {f \in batch : f.node = n}
                best == IF mine \subseteq late THEN mine ELSE mine \ late
            IN  IF mine = {} THEN TRUE ELSE Cardinality(S \cap mine) = 1 /\ S \cap mine \subseteq best}

\* The wait returns with every future done by then and with those past their deadline;
\* two futures of one node settle in either order.
Collect ==
    /\ pc = "wait"
    /\ \E late \in SUBSET (running \ Done) :
          /\ late \cup Done # {}
          /\ timeouts + Cardinality(late) <= MaxTimeouts
          /\ timeouts' = timeouts + Cardinality(late)
          /\ zombies' = zombies \cup late
          /\ running' = running \ (late \cup Done)
          /\ \E S \in Settling(late \cup Done, late) :
                LET Of(n, r) == \E f \in S : f.node = n /\ f.st = r
                    In(n, B) == \E f \in S \cap B : f.node = n
                IN  /\ status' = [n \in bp.nodes |->
                                     IF In(n, late) \/ Of(n, "fail") THEN "failed"
                                     ELSE IF In(n, Done) THEN "succeeded" ELSE status[n]]
                    /\ evidence' = [n \in bp.nodes |->
                                     IF Of(n, "yes") THEN "yes"
                                     ELSE IF In(n, S) THEN "no" ELSE evidence[n]]
    /\ tailEvents' = tailEvents \cup
                     UNION {TailsOf(f.node) : f \in {g \in Done : g.st # "fail"}}
    /\ Goto("top")
    /\ UNCHANGED <<bp, into, pending, dormant, iteration, passes, loopsDone, turnVars, submitted,
                   ran>>

\* The pool's exit waits for the zombies.
Drained ==
    /\ pc = "drain" /\ zombies = {}
    /\ Goto("end")
    /\ UNCHANGED <<bp, graphVars, loopVars, poolVars, turnVars, submitted, timeouts, ran>>
-----------------------------------------------------------------------------
\* THE POOL

Executing == {f \in running \cup zombies : f.st = "executing"}
Queued == {f \in running \cup zombies : f.st = "queued"}

Begun(f) == [f EXCEPT !.st = "executing"]

\* A thread takes the oldest future, abandoned or not.
Start ==
    /\ Cardinality(Executing) < MaxWorkers
    /\ \E f \in Queued :
          /\ \A g \in Queued : f.no <= g.no
          /\ running' = IF f \in running THEN (running \ {f}) \cup {Begun(f)} ELSE running
          /\ zombies' = IF f \in zombies THEN (zombies \ {f}) \cup {Begun(f)} ELSE zombies
          /\ ran' = [ran EXCEPT ![<<f.node, f.iter>>] = @ + 1]
    /\ UNCHANGED <<bp, pc, graphVars, loopVars, turnVars, submitted, timeouts>>

\* Mutant: the result of a zombie is collected.
EndHeard ==
    /\ \E f \in Executing, r \in Results :
          /\ running' = (running \ {f}) \cup {[f EXCEPT !.st = r]}
          /\ zombies' = zombies \ {f}
    /\ UNCHANGED <<bp, pc, graphVars, loopVars, turnVars, submitted, timeouts, ran>>

\* An execution ends; nobody reads the result of a zombie.
End ==
    /\ \E f \in Executing :
          \/ /\ f \in zombies
             /\ zombies' = zombies \ {f} /\ UNCHANGED running
          \/ /\ f \in running
             /\ \E r \in Results : running' = (running \ {f}) \cup {[f EXCEPT !.st = r]}
             /\ UNCHANGED zombies
    /\ UNCHANGED <<bp, pc, graphVars, loopVars, turnVars, submitted, timeouts, ran>>

Runner ==
    \/ Turn \/ JudgedAll \/ Activate \/ Swept \/ Submit \/ NothingReady \/ Collect \/ Drained
    \/ \E l \in bp.loops : JudgeStale(l) \/ JudgeContinue(l) \/ JudgeExit(l) \/ JudgeExhausted(l)
    \/ \E n \in bp.nodes : Sweep(n)

DagNext == Runner \/ Start \/ End

DagSpec == DagInit /\ [][DagNext]_dagVars

\* The runner is a loop, the pool's threads take what is queued, and an action ends.
DagFairSpec == DagSpec /\ WF_dagVars(Runner) /\ WF_dagVars(Start) /\ WF_dagVars(End)
-----------------------------------------------------------------------------
\* PROPERTIES

Incoming(n) == {e \in bp.edges : e.target = n}

\* Blueprints whose repaired actions fail by running, not by being cancelled, and whose
\* loops contain no any-join.
Regular ==
    /\ \A f \in bp.fallbacks : Incoming(f.source) = {}
    /\ \A l \in bp.loops : Region(bp, l) \cap bp.anyJoins = {}

\* "Loop passes key as {run}#i{n}:{action_id} so every pass settles its own outcome": no
\* idempotency key is ever handed to an executor twice, re-entries of nested loops,
\* timeouts and late starts included.
KeysRunOnce == \A k \in DOMAIN ran : ran[k] <= 1

\* "an outcome set must never ride a race" (orchestrator/gates.py): when the route is over,
\* what became of each action is what its gates say of the final verdicts of its sources,
\* whichever of them settled first.
GatesDecide ==
    pc = "end" /\ Regular =>
        \A n \in bp.nodes \ RepairNodes(bp) :
            CASE Readiness(n) = "ready" ->
                    \/ status[n] \in {"succeeded", "failed"}
                    \/ status[n] = "cancelled" /\ submitted = MaxTotal
              [] Readiness(n) = "cancel" -> status[n] = "cancelled"
              [] Readiness(n) = "skip" -> status[n] = "skipped"
              [] OTHER -> FALSE

\* "so nothing observes the tail between its settle and here": an action that waits for a
\* loop's tail from outside the loop is handed to the pool only once the loop is over.
NotMidLoop ==
    \A f \in running \cup zombies, e \in bp.edges, l \in bp.loops :
        (/\ e.target = f.node /\ f.node \notin bp.anyJoins
         /\ e.source = l.tail /\ f.node \notin Region(bp, l)) => l \in loopsDone

\* Nor do two passes of a loop, or a timed-out execution and its successor, run one action
\* at the same time: whatever is in flight belongs to its action's present pass.
PassesApart ==
    Regular =>
        /\ NotMidLoop
        /\ \A f, g \in Executing : f.node = g.node => f = g
        /\ \A f \in running \cup zombies : f.iter = iteration[f.node]

\* A verdict, once recorded, is only revised by the judgement of a loop: no late result of
\* a timed-out execution or of an earlier pass overwrites it.
VerdictsStand ==
    [][Regular =>
          \A n \in bp.nodes :
              status[n] \notin {"none", "planned", status'[n]} => pc = "loops"]_dagVars

\* Every route ends, with a verdict on every action, whatever the blueprint: mutual waits,
\* nested loops, repairs of repairs, the backstop.
RouteEnds == <>[](pc = "end" /\ \A n \in bp.nodes : status[n] \notin {"none", "planned"})
=============================================================================
