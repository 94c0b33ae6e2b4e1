----------------------------- MODULE MCEarnings -----------------------------
(* Two events, two periods, two refunds of one event, on two threads.       *)
EXTENDS Earnings, TLC

CONSTANTS e1, e2, p1, p2, h1, h2, t1, t2

MCRefundOf == h1 :> e1 @@ h2 :> e1

Alike == Permutations(Threads) \cup Permutations(Periods) \cup Permutations(Hooks)
=============================================================================
