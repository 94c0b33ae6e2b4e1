--------------------------- MODULE MCControlPlane ---------------------------
EXTENDS ControlPlane, TLC

CONSTANTS web, agent, s1, s2, c1, d1, d2, k1

MCWorkers == {web, agent}
MCServers == {s1, s2}
MCHost    == [s \in MCServers |-> IF s = s2 THEN agent ELSE web]
MCCallers == {c1, d1, d2}

\* The two dispatchers of jobs are alike.
Alike == Permutations({d1, d2})
=============================================================================
