---------------------------- MODULE MCTaskQueue -----------------------------
(* Small instances of TaskQueue for TLC. *)
EXTENDS TaskQueue, TLC

CONSTANTS t1, t2, t3, w1, w2, c1, c2, k

\* Two of the tasks are submitted under one key: only one of them may come to exist.
MCSharedKey == [t \in Task |-> IF t = t3 THEN NoKey ELSE k]
MCNoKey     == [t \in Task |-> NoKey]

MCDelays == {0, 1}
MCSymmetry == Permutations(Worker)
=============================================================================
