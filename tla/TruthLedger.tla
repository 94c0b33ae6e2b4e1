----------------------------- MODULE TruthLedger -----------------------------
(***************************************************************************)
(* What a project's truth promises, whoever keeps it: objects move only    *)
(* forward, each change moves a whole set of objects at once, every object *)
(* of the set by exactly one revision and from the body it really had, and *)
(* every revision stays on the record.  ProjectKernel implements it.       *)
(***************************************************************************)
EXTENDS Naturals

CONSTANTS Objects, Bodies, NoBody

VARIABLES now, record

Init ==
    /\ now = [o \in Objects |-> [rev |-> 0, body |-> NoBody]]
    /\ record = {}

Change(S) ==
    /\ \A o \in S : now'[o].rev = now[o].rev + 1 /\ now'[o].body \in Bodies
    /\ \A o \in Objects \ S : now'[o] = now[o]
    /\ record' = record \cup
         {[object |-> o, rev |-> now'[o].rev, body |-> now'[o].body,
           from |-> now[o].body] : o \in S}

Next == \E S \in (SUBSET Objects) \ {{}} : Change(S)

Spec == Init /\ [][Next]_<<now, record>>
=============================================================================
