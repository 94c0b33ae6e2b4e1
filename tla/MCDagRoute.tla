----------------------------- MODULE MCDagRoute -----------------------------
EXTENDS DagRoute

MCNodes == 1 .. 4

Small == 1 .. 3
Among(N, S) == {e \in S : e.source \in N /\ e.target \in N /\ e.source # e.target}

\* At most k edges, at most one from one action to another.
EdgeSets(k) ==
    {S \in SUBSET Among(Small, Edge) :
        /\ Cardinality(S) <= k
        /\ \A e, f \in S : (e.source = f.source /\ e.target = f.target) => e = f}
Joined(S) == {n \in Small : Cardinality({e \in S : e.target = n}) > 1}

\* Every blueprint of three actions with edges S, fallbacks F and loops L.
Joins(S, F, L) ==
    {[nodes |-> Small, edges |-> S, fallbacks |-> F, anyJoins |-> A, loops |-> L] :
        A \in SUBSET Joined(S)}

Gated == UNION {Joins(S, {}, {}) : S \in EdgeSets(3)}

FallbackSets == {F \in SUBSET Among(Small, Pair) : Cardinality(F) \in 1 .. 2}
Repaired == UNION {UNION {Joins(S, F, {}) : F \in FallbackSets} : S \in EdgeSets(1)}

AnyLoop == [tail : Small, head : {1}, guarded : BOOLEAN, budget : {2}]
Looped  == UNION {UNION {Joins(S, {}, {l}) : l \in AnyLoop} : S \in EdgeSets(2)}

E(s, t) == [source |-> s, target |-> t, guard |-> FALSE]
P(s, t) == [source |-> s, target |-> t]
L(t, h, g) == [tail |-> t, head |-> h, guarded |-> g, budget |-> 2]
Four(S, F, A, LL) == [nodes |-> MCNodes, edges |-> S, fallbacks |-> F, anyJoins |-> A, loops |-> LL]

\* A loop within a loop, with an action after both.
Nested == {Four({E(1, 2), E(2, 3), E(3, 4)}, {}, {}, {L(3, 1, g), L(2, 2, TRUE)}) : g \in BOOLEAN}
\* Two loops that share their tail, and a loop around a diamond.
Shared  == {Four({E(1, 2), E(2, 3), E(3, 4)}, {}, {}, {L(3, 1, g), L(3, 2, TRUE)}) : g \in BOOLEAN}
Diamond == {Four({E(1, 2), E(1, 3), E(2, 4), E(3, 4)}, {}, A, {L(4, 1, TRUE)}) : A \in {{}, {4}}}
\* A repair of two steps and a repair of a repair.
Deep   == {Four({E(1, 2)}, {P(1, 3), P(1, 4)}, {}, {}), Four({E(1, 2)}, {P(1, 3), P(3, 4)}, {}, {})}

\* Actions that wait for each other through a repair.
Mutual == {Four({E(1, 2), E(2, 3)}, {P(1, 3)}, {}, {}),
           Four({E(1, 2), E(2, 3), E(1, 4)}, {P(1, 3)}, {4}, {}),
           Four({E(1, 2), E(2, 3), E(1, 4)}, {P(1, 3), P(1, 4)}, {3}, {})}
\* A loop whose tail is an any-join, around another loop.
Racing == {Four({E(1, 2), E(2, 3), E(3, 4), E(1, 4)}, {}, {4}, {L(4, 1, TRUE), L(2, 2, TRUE)})}

MCBlueprints == Gated \cup Repaired \cup Looped \cup Nested \cup Shared \cup Diamond \cup Deep
                      \cup Mutual \cup Racing
=============================================================================
