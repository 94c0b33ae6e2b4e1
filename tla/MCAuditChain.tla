---------------------------- MODULE MCAuditChain ----------------------------
EXTENDS AuditChain, TLC

CONSTANTS a, b, c, h1, h2

MCOneHost == [t \in Thread |-> h1]
MCTwoHosts == [t \in Thread |-> IF t = a THEN h1 ELSE h2]
ThreadSymmetry == Permutations(Thread)
=============================================================================
