---------------------------- MODULE MCDurableRuns ----------------------------
(* Small instances of DurableRuns for TLC. *)
EXTENDS DurableRuns, TLC

CONSTANTS q1, q2
MCOneRequest  == {q1}
MCTwoRequests == {q1, q2}
RequestSymmetry == Permutations({q1, q2})
=============================================================================
