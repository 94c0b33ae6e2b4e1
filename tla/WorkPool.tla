------------------------------ MODULE WorkPool ------------------------------
(***************************************************************************)
(* What the durable task queue promises, without its clock, its attempt    *)
(* budget or its two-transaction calls: tasks sit in a pool, one worker at *)
(* a time holds a task, and a settled task stays settled.  The one         *)
(* exception is Tear, the write of a failure report whose row moved on     *)
(* after the report read it; a torn task carries no promise any more.      *)
(*                                                                         *)
(* TaskQueue implements this module; DurableRuns drives runs through it.   *)
(***************************************************************************)
CONSTANTS Task, Worker, NoWorker

VARIABLES
    status,     \* where each task is in its life
    owner,      \* who holds it, NoWorker when nobody does
    torn        \* tasks overwritten by a stale failure report

poolVars == <<status, owner, torn>>

Settled == {"done", "cancelled", "dead"}
Status  == {"absent", "pending", "leased"} \cup Settled

PoolTypeOK ==
    /\ status \in [Task -> Status]
    /\ owner \in [Task -> Worker \cup {NoWorker}]
    /\ torn \subseteq Task

Init ==
    /\ status = [t \in Task |-> "absent"]
    /\ owner = [t \in Task |-> NoWorker]
    /\ torn = {}
-----------------------------------------------------------------------------
Add(t) ==
    /\ status[t] = "absent"
    /\ status' = [status EXCEPT ![t] = "pending"]
    /\ UNCHANGED <<owner, torn>>

Take(w, t) ==
    /\ status[t] = "pending"
    /\ status' = [status EXCEPT ![t] = "leased"]
    /\ owner' = [owner EXCEPT ![t] = w]
    /\ UNCHANGED torn

\* Leased tasks go back to the pool: handed back, failed with attempts left,
\* or taken from holders whose leases ran out.
GiveBack(S) ==
    /\ S # {}
    /\ \A t \in S : status[t] = "leased"
    /\ status' = [t \in Task |-> IF t \in S THEN "pending" ELSE status[t]]
    /\ owner' = [t \in Task |-> IF t \in S THEN NoWorker ELSE owner[t]]
    /\ UNCHANGED torn

\* The holder settles its task: done, or dead once the attempts are spent.
Settle(t, verdict) ==
    /\ status[t] = "leased"
    /\ status' = [status EXCEPT ![t] = verdict]
    /\ owner' = [owner EXCEPT ![t] = NoWorker]
    /\ UNCHANGED torn

Withdraw(t) ==
    /\ status[t] \in {"pending", "leased"}
    /\ status' = [status EXCEPT ![t] = "cancelled"]
    /\ owner' = [owner EXCEPT ![t] = NoWorker]
    /\ UNCHANGED torn

Tear(t, to) ==
    /\ status[t] # "absent"
    /\ status' = [status EXCEPT ![t] = to]
    /\ owner' = [owner EXCEPT ![t] = NoWorker]
    /\ torn' = torn \cup {t}

Next ==
    \/ \E t \in Task :
          \/ Add(t)
          \/ \E w \in Worker : Take(w, t)
          \/ \E verdict \in {"done", "dead"} : Settle(t, verdict)
          \/ Withdraw(t)
          \/ \E to \in {"pending", "dead"} : Tear(t, to)
    \/ \E S \in SUBSET Task : GiveBack(S)

Spec == Init /\ [][Next]_poolVars
=============================================================================
