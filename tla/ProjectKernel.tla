---------------------------- MODULE ProjectKernel ----------------------------
(***************************************************************************)
(* The project graph's transaction kernel and its store                    *)
(* (projectgraph/kernel.py, projectgraph/store.py) behind the gateway's    *)
(* doors, for one project.  Proposals are judged in the request threads;   *)
(* each read of the store is a step of its own, and only the commit writes *)
(* several rows in one transaction.  What keeps two racing commits apart   *)
(* is the primary key of graph_history and nothing else.                   *)
(*                                                                         *)
(* A patch is the net effect of its operations on each object.  A body is  *)
(* the object's status and one value: what its hard constraints judge, or, *)
(* for a finding, whether it is an open blocking one.  A declared revision *)
(* is any number the caller puts there; old values that are not those of   *)
(* the object refuse a proposal as a wrong revision does, and are not kept *)
(* apart from one.                                                         *)
(***************************************************************************)
EXTENDS Naturals

CONSTANTS
    Objects,       \* object ids of the project
    Target,        \* finding -> the object it is filed against
    Values,        \* what the walls tell apart in an object's parameters
    Open,          \* the value of a finding that is open and blocking
    Walls,         \* object -> the values that pass all its hard constraints
    Principals,    \* submitting principals
    Nobody,        \* no principal: the project is not claimed yet
    Threads,       \* request threads of the gateway
    Patches,       \* patches proposals carry
    NoBody, Skip, Keep,
    MaxAhead,      \* how far a declared revision may run ahead of the object
    MaxProposals, MaxGrants, MaxCrashes   \* bounds for TLC

Statuses == {"draft", "approved", "superseded"}
Advanced == {"approved"}
Bodies   == [status : Statuses, value : Values]
Ops      == [create : BOOLEAN, status : Statuses \cup {Keep},
             value : Values \cup {Keep}]
Version  == [rev : Nat, body : Bodies \cup {NoBody}]
Findings == DOMAIN Target

ASSUME PatchAssumption ==
    /\ Patches \subseteq [Objects -> Ops \cup {Skip}]
    /\ \A p \in Patches, o \in Objects :
         p[o] # Skip =>
           (p[o].create => p[o].status # Keep /\ p[o].value # Keep)
    /\ Skip \notin Ops
    /\ NoBody \notin Bodies
    /\ Nobody \notin Principals
    /\ Walls \in [Objects -> SUBSET Values]
    /\ Findings \subseteq Objects
    /\ MaxAhead \in Nat

VARIABLES
    owner,     \* graph_projects.owner
    grant,     \* graph_scopes: principal -> objects it may write
    head,      \* graph_objects: current revision and body of each object
    hist,      \* graph_history
    ledger,    \* graph_proposals: the verdicts recorded
    chain,     \* graph.committed and graph.rejected events of the audit log
    req,       \* request threads
    asked,     \* proposals submitted
    granted,   \* history: principal -> objects it was ever granted
    skipped,   \* history: objects that were not there when the territory of a
               \* proposal was checked
    grants, crashes

vars == <<owner, grant, head, hist, ledger, chain, req, asked, granted,
          skipped, grants, crashes>>

Absent == [rev |-> 0, body |-> NoBody]

Phases == {"idle", "territory", "read", "weigh", "gate", "commit", "record",
           "audit"}

Request == [pc : Phases, id : Nat, who : Principals \cup {Nobody},
            patch : [Objects -> Ops \cup {Skip}], seen : [Objects -> Nat],
            base : [Objects -> Version], left : SUBSET Objects,
            verdict : {"none", "committed", "rejected"}]

Idle == [pc |-> "idle", id |-> 0, who |-> Nobody,
         patch |-> [o \in Objects |-> Skip], seen |-> [o \in Objects |-> 0],
         base |-> [o \in Objects |-> Absent], left |-> {}, verdict |-> "none"]

Row == [object : Objects, rev : Nat, body : Bodies,
        from : Bodies \cup {NoBody}, by : Principals \cup {Nobody}, id : Nat]

Verdict == [id : Nat, verdict : {"committed", "rejected"},
            revisions : SUBSET (Objects \X Nat)]

Init ==
    /\ owner = Nobody
    /\ grant = [p \in Principals |-> {}]
    /\ head = [o \in Objects |-> Absent]
    /\ hist = {}
    /\ ledger = {} /\ chain = {}
    /\ req = [t \in Threads |-> Idle]
    /\ asked = 0
    /\ granted = [p \in Principals |-> {}] /\ skipped = {}
    /\ grants = 0 /\ crashes = 0

-----------------------------------------------------------------------------
Touched(patch) == {o \in Objects : patch[o] # Skip}

\* The body an operation leaves, given the one it starts from.
Applied(op, body) ==
    [status |-> IF op.status = Keep THEN body.status ELSE op.status,
     value  |-> IF op.value = Keep THEN body.value ELSE op.value]

Candidate(r, o) == Applied(r.patch[o], r.base[o].body)

Passes(o, body) == body.value \in Walls[o]

\* Mutant: a new object may fail its walls with a warning, like an old one.
WallStandsForOld(r, o) ==
    Passes(o, Candidate(r, o)) \/ r.base[o].rev = 0 \/ ~Passes(o, r.base[o].body)

\* _protect_constraints: a wall that fails on the candidate is tolerated only
\* when the base was already failing it.
WallStands(r, o) ==
    \/ Passes(o, Candidate(r, o))
    \/ r.base[o].rev > 0 /\ ~Passes(o, r.base[o].body)

\* _gate_advancement, the candidates it stops to look at.
Advancing(r, o) ==
    /\ o \notin Findings
    /\ Candidate(r, o).status \in Advanced
    /\ r.base[o].rev = 0 \/ r.base[o].body.status # Candidate(r, o).status

\* Open blocking findings against an object, as the issues subtree has them.
Blocking(o) ==
    {f \in Findings : Target[f] = o /\ head[f].rev > 0 /\ head[f].body.value = Open}

To(t, r) == req' = [req EXCEPT ![t] = r]

\* A refused request needs its number and no more.
Refusal(id) == [Idle EXCEPT !.pc = "record", !.verdict = "rejected", !.id = id]

Reject(t, r) == To(t, Refusal(r.id))

-----------------------------------------------------------------------------
(* The doors and the gauntlet. *)

Submitted(p, patch, seen) ==
    [pc |-> "territory", id |-> asked + 1, who |-> p, patch |-> patch,
     seen |-> [o \in Objects |-> IF o \in Touched(patch) THEN seen[o] ELSE 0],
     base |-> [o \in Objects |-> Absent], left |-> Touched(patch),
     verdict |-> "none"]

\* A proposal arrives with, for each object it changes, the revision it was
\* reasoned against: whatever number the body holds, one the object has yet to
\* reach included.  The first principal to touch the project owns it.
Propose(t, p, patch, seen) ==
    /\ req[t].pc = "idle" /\ asked < MaxProposals
    /\ Touched(patch) # {}
    /\ \A o \in Touched(patch) :
         seen[o] <= (IF patch[o].create THEN 0 ELSE head[o].rev + MaxAhead)
    /\ owner' = IF owner = Nobody THEN p ELSE owner
    /\ asked' = asked + 1
    /\ To(t, Submitted(p, patch, seen))
    /\ UNCHANGED <<grant, head, hist, ledger, chain, granted, skipped, grants,
                   crashes>>

\* Mutant: a grant over one of the objects is enough.
CoveredSome(r) ==
    r.who = owner \/ \E o \in Touched(r.patch) : o \in grant[r.who]

\* An object that is not there has no path to check: the revision check names it.
Covered(r) ==
    \/ r.who = owner
    \/ \A o \in Touched(r.patch) :
         r.patch[o].create \/ head[o].rev > 0 => o \in grant[r.who]

\* What a proposal that is not the owner's changes and the check looked past.
LookedPast(r) ==
    {<<r.id, o>> : o \in {x \in Touched(r.patch) :
                            ~r.patch[x].create /\ head[x].rev = 0 /\ r.who # owner}}

Territory(t) ==
    /\ req[t].pc = "territory"
    /\ \/ /\ Covered(req[t])
          /\ skipped' = skipped \cup LookedPast(req[t])
          /\ To(t, [req[t] EXCEPT !.pc = "read"])
       \/ ~Covered(req[t]) /\ Reject(t, req[t]) /\ UNCHANGED skipped
    /\ UNCHANGED <<owner, grant, head, hist, ledger, chain, asked, granted,
                   grants, crashes>>

\* A create needs a free id; anything else needs the revision it declared.
Fresh(r, o, version) ==
    IF r.patch[o].create THEN version.rev = 0
    ELSE version.rev > 0 /\ version.rev = r.seen[o]

ReadBase(t, o) ==
    /\ req[t].pc = "read" /\ o \in req[t].left
    /\ IF Fresh(req[t], o, head[o])
       THEN To(t, [req[t] EXCEPT
                     !.pc   = IF req[t].left = {o} THEN "weigh" ELSE "read",
                     !.base = [req[t].base EXCEPT ![o] = head[o]],
                     !.left = req[t].left \ {o}])
       ELSE Reject(t, req[t])
    /\ UNCHANGED <<owner, grant, head, hist, ledger, chain, asked, granted,
                   skipped, grants, crashes>>

Weigh(t) ==
    /\ req[t].pc = "weigh"
    /\ LET r == req[t]
           climbing == {o \in Touched(r.patch) : Advancing(r, o)}
       IN  IF \A o \in Touched(r.patch) : WallStands(r, o)
           THEN To(t, [r EXCEPT !.pc = IF climbing = {} THEN "commit" ELSE "gate",
                                !.left = climbing])
           ELSE Reject(t, r)
    /\ UNCHANGED <<owner, grant, head, hist, ledger, chain, asked, granted,
                   skipped, grants, crashes>>

Gate(t, o) ==
    /\ req[t].pc = "gate" /\ o \in req[t].left
    /\ IF Blocking(o) = {}
       THEN To(t, [req[t] EXCEPT
                     !.pc   = IF req[t].left = {o} THEN "commit" ELSE "gate",
                     !.left = req[t].left \ {o}])
       ELSE Reject(t, req[t])
    /\ UNCHANGED <<owner, grant, head, hist, ledger, chain, asked, granted,
                   skipped, grants, crashes>>

-----------------------------------------------------------------------------
(* apply_commit: one transaction, undone whole by a taken primary key. *)

Rows(r) ==
    {[object |-> o, rev |-> r.base[o].rev + 1, body |-> Candidate(r, o),
      from |-> r.base[o].body, by |-> r.who, id |-> r.id]
       : o \in Touched(r.patch)}

\* Mutant: the history row is replaced when its key is taken.
TakenNever(r) == FALSE

Taken(r) ==
    \E o \in Touched(r.patch), row \in hist :
       row.object = o /\ row.rev = r.base[o].rev + 1

Commit(t) ==
    /\ req[t].pc = "commit" /\ ~Taken(req[t])
    /\ LET r == req[t]
       IN /\ head' = [o \in Objects |->
                        IF o \in Touched(r.patch)
                        THEN [rev |-> r.base[o].rev + 1, body |-> Candidate(r, o)]
                        ELSE head[o]]
          /\ hist' = hist \cup Rows(r)
          /\ To(t, [r EXCEPT !.pc = "record", !.verdict = "committed"])
    /\ UNCHANGED <<owner, grant, ledger, chain, asked, granted, skipped, grants,
                   crashes>>

\* Mutant: the refused write is not noticed (INSERT OR IGNORE).
CommitIgnored(t) ==
    /\ req[t].pc = "commit" /\ Taken(req[t])
    /\ To(t, [req[t] EXCEPT !.pc = "record", !.verdict = "committed"])
    /\ UNCHANGED <<owner, grant, head, hist, ledger, chain, asked, granted,
                   skipped, grants, crashes>>

\* The insert into graph_history fails, the transaction rolls back, and the
\* request ends in the gateway's last-resort handler.
CommitRefused(t) ==
    /\ req[t].pc = "commit" /\ Taken(req[t])
    /\ To(t, Idle)
    /\ UNCHANGED <<owner, grant, head, hist, ledger, chain, asked, granted,
                   skipped, grants, crashes>>

Result(r) ==
    [id |-> r.id, verdict |-> r.verdict,
     revisions |-> IF r.verdict = "rejected" THEN {}
                   ELSE {<<o, r.base[o].rev + 1>> : o \in Touched(r.patch)}]

RecordProposal(t) ==
    /\ req[t].pc = "record"
    /\ ledger' = ledger \cup {Result(req[t])}
    /\ To(t, [req[t] EXCEPT !.pc = "audit"])
    /\ UNCHANGED <<owner, grant, head, hist, chain, asked, granted, skipped, grants,
                   crashes>>

Audit(t) ==
    /\ req[t].pc = "audit"
    /\ chain' = chain \cup {Result(req[t])}
    /\ To(t, Idle)
    /\ UNCHANGED <<owner, grant, head, hist, ledger, asked, granted, skipped, grants,
                   crashes>>

-----------------------------------------------------------------------------
\* The owner's grant replaces what the principal held.
Grant(p, S) ==
    /\ owner # Nobody /\ grants < MaxGrants
    /\ grant' = [grant EXCEPT ![p] = S]
    /\ granted' = [granted EXCEPT ![p] = granted[p] \cup S]
    /\ grants' = grants + 1
    /\ UNCHANGED <<owner, head, hist, ledger, chain, req, asked, skipped, crashes>>

Crash ==
    /\ crashes < MaxCrashes
    /\ crashes' = crashes + 1
    /\ req' = [t \in Threads |-> Idle]
    /\ UNCHANGED <<owner, grant, head, hist, ledger, chain, asked, granted, skipped,
                   grants>>

Next ==
    \/ \E t \in Threads, p \in Principals, patch \in Patches :
         \E seen \in [Touched(patch) -> 0 .. asked + MaxAhead] : Propose(t, p, patch, seen)
    \/ \E t \in Threads :
         \/ Territory(t) \/ Weigh(t) \/ Commit(t) \/ CommitRefused(t)
         \/ RecordProposal(t) \/ Audit(t)
         \/ \E o \in Objects : ReadBase(t, o) \/ Gate(t, o)
    \/ \E p \in Principals, S \in SUBSET Objects : Grant(p, S)
    \/ Crash

Spec == Init /\ [][Next]_vars

-----------------------------------------------------------------------------
TypeOK ==
    /\ owner \in Principals \cup {Nobody}
    /\ grant \in [Principals -> SUBSET Objects]
    /\ head \in [Objects -> Version]
    /\ hist \subseteq Row
    /\ ledger \subseteq Verdict /\ chain \subseteq Verdict
    /\ req \in [Threads -> Request]
    /\ asked \in Nat
    /\ granted \in [Principals -> SUBSET Objects]
    /\ skipped \subseteq Nat \X Objects
    /\ grants \in Nat /\ crashes \in Nat

\* The kernel implements the ledger of truth: however proposals interleave,
\* what lands moves whole sets of objects by one revision each, from the body
\* each really had (apply_commit's transaction and the key of graph_history).
Truth == INSTANCE TruthLedger WITH
            now <- head,
            record <- {[object |-> r.object, rev |-> r.rev, body |-> r.body,
                        from |-> r.from] : r \in hist}

TruthSpec == Truth!Spec

\* No revision ever committed fails a hard constraint of its object: what is
\* judged against a base read earlier is still true of what lands
\* (_protect_constraints against apply_commit).
WallsHold == \A r \in hist : Passes(r.object, r.body)

\* Whoever changed an object owns the project or was granted that object at
\* some time, however claims, grants and proposals race; or the object was not
\* there when the territory of the change was checked, and then the change found
\* it made by another (_validate_territory, ensure_project).
TerritoryKept ==
    \A r \in hist :
        \/ r.by = owner
        \/ r.object \in granted[r.by]
        \/ <<r.id, r.object>> \in skipped /\ r.rev > 1

\* The ledger tells the truth about the graph, and the audit chain about the
\* ledger: a proposal recorded as committed put every revision it names in the
\* history and no other, one recorded as rejected put none
\* (process, record_proposal).
VerdictsTrue ==
    /\ chain \subseteq ledger
    /\ \A v \in ledger :
         v.revisions = {<<r.object, r.rev>> : r \in {x \in hist : x.id = v.id}}
=============================================================================
