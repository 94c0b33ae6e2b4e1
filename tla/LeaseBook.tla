------------------------------ MODULE LeaseBook ------------------------------
(***************************************************************************)
(* What a book of single-use grants promises, whoever keeps it: a grant is *)
(* issued once, used at most once, and one withdrawn before its use is     *)
(* never used.  ControlPlane implements it.                                *)
(***************************************************************************)
CONSTANT Grants

VARIABLE status

Init == status = [g \in Grants |-> "none"]

Becomes(g, from, to) ==
    /\ status[g] = from
    /\ status' = [status EXCEPT ![g] = to]

Issue(g)    == Becomes(g, "none", "granted")
Use(g)      == Becomes(g, "granted", "used")
Withdraw(g) == Becomes(g, "granted", "void")

Next == \E g \in Grants : Issue(g) \/ Use(g) \/ Withdraw(g)

Spec == Init /\ [][Next]_status
=============================================================================
