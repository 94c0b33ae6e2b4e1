--------------------------- MODULE MCProjectKernel ---------------------------
(* One part of a project and a finding against it.                         *)
EXTENDS ProjectKernel, TLC

CONSTANTS part, issue, boss, critic, t1, t2

MCObjects == {part, issue}
MCTarget  == issue :> part
MCWalls   == [o \in MCObjects |->
                IF o = part THEN {"ok", "fine"} ELSE {"ok", "open"}]

Create(status, value) == [create |-> TRUE, status |-> status, value |-> value]
Set(value)            == [create |-> FALSE, status |-> Keep, value |-> value]
Become(status)        == [create |-> FALSE, status |-> status, value |-> Keep]

\* A patch from the operations it holds.
Patch(ops) == [o \in MCObjects |-> IF o \in DOMAIN ops THEN ops[o] ELSE Skip]

MCPatches ==
    {Patch(part :> Create("draft", "ok")),
     Patch(part :> Create("approved", "bad")),
     Patch(part :> Set("bad")),
     Patch(part :> Become("approved")),
     Patch(part :> Set("fine") @@ issue :> Create("draft", "open")),
     Patch(part :> Become("superseded") @@ issue :> Set("ok"))}

ThreadsAlike == Permutations(Threads)
=============================================================================
