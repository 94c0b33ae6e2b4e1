------------------------------ MODULE MCOrders ------------------------------
(* Orders on two request threads, with and without a payment schedule.     *)
EXTENDS Orders, TLC

CONSTANTS t1, t2

ThreadsAlike == Permutations(Threads)
=============================================================================
