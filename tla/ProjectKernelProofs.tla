------------------------- MODULE ProjectKernelProofs -------------------------
(***************************************************************************)
(* What ProjectKernel keeps for every set of objects, principals, patches  *)
(* and request threads, and why it implements TruthLedger.                 *)
(***************************************************************************)
EXTENDS ProjectKernel, TLAPS

\* A thread's next request: the others keep theirs.
LEMMA ToMoves ==
    ASSUME NEW t \in Threads, NEW r \in Request,
           req \in [Threads -> Request], To(t, r)
    PROVE  /\ req' \in [Threads -> Request]
           /\ req'[t] = r
           /\ \A u \in Threads : u # t => req'[u] = req[u]
  BY DEF To

LEMMA IdleTyped == Idle \in Request
  BY DEF Idle, Request, Phases, Absent, Version

LEMMA RefusalTyped ==
    ASSUME NEW id \in Nat
    PROVE  /\ Refusal(id) \in Request
           /\ Refusal(id).id = id /\ Refusal(id).base = [o \in Objects |-> Absent]
           /\ Refusal(id).pc = "record" /\ Refusal(id).verdict = "rejected"
  BY DEF Refusal, Idle, Request, Phases, Absent, Version

LEMMA SubmittedTyped ==
    ASSUME asked \in Nat, NEW p \in Principals, NEW patch \in Patches,
           NEW seen \in [Touched(patch) -> 0 .. asked + MaxAhead]
    PROVE  Submitted(p, patch, seen) \in Request
<1>1. [o \in Objects |-> IF o \in Touched(patch) THEN seen[o] ELSE 0]
        \in [Objects -> Nat]
  BY PatchAssumption
<1>2. patch \in [Objects -> Ops \cup {Skip}]
  BY PatchAssumption
<1>3. Touched(patch) \subseteq Objects
  BY DEF Touched
<1>4. [o \in Objects |-> Absent] \in [Objects -> Version]
  BY DEF Absent, Version
<1> QED
  BY <1>1, <1>2, <1>3, <1>4 DEF Submitted, Request, Phases

\* What a read of one object puts into a thread.
Read(r, o) ==
    [r EXCEPT !.pc   = IF r.left = {o} THEN "weigh" ELSE "read",
              !.base = [r.base EXCEPT ![o] = head[o]],
              !.left = r.left \ {o}]

LEMMA ReadTyped ==
    ASSUME NEW r \in Request, NEW o \in Objects, head \in [Objects -> Version]
    PROVE  Read(r, o) \in Request
<1>1. [r.base EXCEPT ![o] = head[o]] \in [Objects -> Version]
  BY DEF Request
<1> QED
  BY <1>1 DEF Read, Request, Phases

\* An operation that was fresh leaves a body.
LEMMA AppliedTyped ==
    ASSUME NEW patch \in Patches, NEW o \in Touched(patch),
           NEW body \in Bodies \cup {NoBody}, patch[o].create \/ body \in Bodies
    PROVE  Applied(patch[o], body) \in Bodies
<1>1. patch[o] \in Ops
  BY PatchAssumption DEF Touched
<1>2. patch[o].create => patch[o].status # Keep /\ patch[o].value # Keep
  BY PatchAssumption DEF Touched
<1> QED
  BY <1>1, <1>2 DEF Applied, Ops, Bodies
-----------------------------------------------------------------------------
(* The strengthening: what each thread knows while its request is judged. *)

\* Every revision up to the current one is on the record, and none beyond it;
\* the current body passes its walls.
HeadIsLast ==
    /\ \A o \in Objects :
         /\ head[o].rev = 0 => head[o].body = NoBody
         /\ head[o].rev > 0 => head[o].body \in Bodies /\ Passes(o, head[o].body)
    /\ \A r \in hist : r.rev >= 1 /\ r.rev <= head[r.object].rev
    /\ \A o \in Objects : \A i \in 1 .. head[o].rev :
         \E r \in hist : r.object = o /\ r.rev = i

\* A body read is the current one as long as its revision is.
BaseOk(r) ==
    \A o \in Objects :
        /\ r.base[o].rev <= head[o].rev
        /\ r.base[o].rev = head[o].rev => r.base[o] = head[o]
        /\ r.base[o].rev > 0 => /\ r.base[o].body \in Bodies
                                /\ Passes(o, r.base[o].body)

ToRead == {"territory", "read"}
Judged == {"weigh", "gate", "commit"}

\* What the walls passed so far have established.
JudgedOk(r) ==
    /\ r.pc \in ToRead \cup Judged =>
         /\ r.patch \in Patches /\ Touched(r.patch) # {}
         /\ r.who \in Principals /\ owner # Nobody
    /\ r.pc = "territory" => r.left = Touched(r.patch)
    /\ r.pc = "read" => \A o \in Touched(r.patch) \ r.left : Fresh(r, o, r.base[o])
    /\ r.pc \in Judged => \A o \in Touched(r.patch) : Fresh(r, o, r.base[o])
    /\ r.pc \in {"gate", "commit"} => \A o \in Touched(r.patch) : WallStands(r, o)
    /\ r.pc \in {"read"} \cup Judged =>
         \/ r.who = owner
         \/ \A o \in Touched(r.patch) :
              o \in granted[r.who] \/ (~r.patch[o].create /\ <<r.id, o>> \in skipped)

ThreadsOk == \A t \in Threads : BaseOk(req[t]) /\ JudgedOk(req[t])

\* A proposal's number is its own until it ends.
IdsOk ==
    /\ \A t \in Threads : req[t].pc # "idle" => req[t].id \in 1 .. asked
    /\ \A t, u \in Threads : t # u /\ req[t].pc # "idle" /\ req[u].pc # "idle" =>
         req[t].id # req[u].id
    /\ \A r \in hist : r.id \in 1 .. asked
    /\ \A v \in ledger : v.id \in 1 .. asked

RowsIn(rows, id) == {<<r.object, r.rev>> : r \in {x \in rows : x.id = id}}
RowsOf(id) == RowsIn(hist, id)

\* Until it is decided a proposal has left nothing; then its result is true.
VerdictsOk ==
    \A t \in Threads :
        /\ req[t].pc \in ToRead \cup Judged =>
             RowsOf(req[t].id) = {} /\ \A v \in ledger : v.id # req[t].id
        /\ req[t].pc \in {"record", "audit"} =>
             /\ req[t].verdict \in {"committed", "rejected"}
             /\ Result(req[t]).revisions = RowsOf(req[t].id)
        /\ req[t].pc = "audit" => Result(req[t]) \in ledger

OwnerKept == hist # {} => owner # Nobody
Granted == \A p \in Principals : grant[p] \subseteq granted[p]
RowsByPrincipals == \A r \in hist : r.by \in Principals

IInv ==
    /\ TypeOK
    /\ HeadIsLast /\ WallsHold
    /\ ThreadsOk
    /\ IdsOk /\ VerdictsOk /\ VerdictsTrue
    /\ Granted /\ TerritoryKept /\ OwnerKept /\ RowsByPrincipals
-----------------------------------------------------------------------------
(* What a commit really does. *)

LEMMA CandidateTyped ==
    ASSUME TypeOK, ThreadsOk, NEW t \in Threads, req[t].pc \in Judged,
           NEW o \in Touched(req[t].patch)
    PROVE  Candidate(req[t], o) \in Bodies
<1> DEFINE r == req[t]
<1>1. r \in Request /\ o \in Objects
  BY DEF TypeOK, Touched
<1>2. r.patch \in Patches /\ Fresh(r, o, r.base[o])
  BY DEF ThreadsOk, JudgedOk, Judged
<1>3. r.base[o] \in Version
  BY <1>1 DEF Request
<1>4. r.patch[o].create \/ r.base[o].body \in Bodies
  BY <1>1, <1>2 DEF ThreadsOk, BaseOk, Fresh
<1>5. r.base[o].body \in Bodies \cup {NoBody}
  BY <1>3 DEF Version
<1> HIDE DEF r
<1>6. Applied(r.patch[o], r.base[o].body) \in Bodies
  BY <1>2, <1>4, <1>5, AppliedTyped DEF r
<1> QED
  BY <1>6 DEF Candidate, r

\* The key of the history lets a commit through only from the current
\* revision; and then what it writes passes every wall.
LEMMA CommitFacts ==
    ASSUME TypeOK, HeadIsLast, ThreadsOk, NEW t \in Threads, Commit(t),
           NEW o \in Touched(req[t].patch)
    PROVE  /\ o \in Objects
           /\ req[t].base[o] = head[o]
           /\ Candidate(req[t], o) \in Bodies
           /\ Passes(o, Candidate(req[t], o))
<1> DEFINE r == req[t]
<1>1. r \in Request /\ o \in Objects /\ r.pc = "commit" /\ ~Taken(r)
  BY DEF TypeOK, Touched, Commit
<1>2. r.base[o] \in Version /\ head[o] \in Version
  BY <1>1 DEF Request, TypeOK
<1>3. r.base[o].rev \in Nat /\ head[o].rev \in Nat
  BY <1>2 DEF Version
<1>4. BaseOk(r) /\ JudgedOk(r)
  BY DEF ThreadsOk
<1>5. r.base[o].rev = head[o].rev
  <2>1. r.base[o].rev <= head[o].rev
    BY <1>1, <1>4 DEF BaseOk
  <2>2. ~(r.base[o].rev + 1 \in 1 .. head[o].rev)
    <3> SUFFICES ASSUME r.base[o].rev + 1 \in 1 .. head[o].rev PROVE FALSE
      OBVIOUS
    <3>1. \E row \in hist : row.object = o /\ row.rev = r.base[o].rev + 1
      BY <1>1 DEF HeadIsLast
    <3> QED
      BY <1>1, <3>1 DEF Taken
  <2> QED
    BY <1>3, <2>1, <2>2
<1>6. r.base[o] = head[o]
  BY <1>1, <1>4, <1>5 DEF BaseOk
<1>7. Candidate(r, o) \in Bodies
  BY <1>1, CandidateTyped DEF Judged
<1>8. WallStands(r, o)
  BY <1>1, <1>4 DEF JudgedOk
<1>9. Passes(o, Candidate(r, o))
  BY <1>1, <1>4, <1>8 DEF WallStands, BaseOk
<1> QED
  BY <1>1, <1>6, <1>7, <1>9
-----------------------------------------------------------------------------
(* Where each step of a thread leaves it. *)

Others(t) == \A u \in Threads : u # t => req'[u] = req[u]

Kin(t) ==
    /\ req'[t].id = req[t].id /\ req'[t].who = req[t].who
    /\ req'[t].patch = req[t].patch /\ req'[t].seen = req[t].seen

Rejected(t) ==
    /\ req'[t].id = req[t].id /\ req'[t].base = [o \in Objects |-> Absent]
    /\ req'[t].pc = "record" /\ req'[t].verdict = "rejected"

Moved(t) == req' \in [Threads -> Request] /\ Others(t)

LEMMA RejectMoves ==
    ASSUME TypeOK, NEW t \in Threads, Reject(t, req[t])
    PROVE  Moved(t) /\ Rejected(t)
<1>1. req[t].id \in Nat
  BY DEF TypeOK, Request
<1>2. /\ Refusal(req[t].id) \in Request
      /\ Refusal(req[t].id).id = req[t].id
      /\ Refusal(req[t].id).base = [o \in Objects |-> Absent]
      /\ Refusal(req[t].id).pc = "record" /\ Refusal(req[t].id).verdict = "rejected"
  BY <1>1, RefusalTyped
<1>3. /\ req' \in [Threads -> Request] /\ req'[t] = Refusal(req[t].id)
      /\ Others(t)
  BY <1>2, ToMoves DEF Reject, TypeOK, Others
<1> QED
  BY <1>2, <1>3 DEF Moved, Rejected

LEMMA ProposeMoves ==
    ASSUME TypeOK, NEW t \in Threads, NEW p \in Principals, NEW patch \in Patches,
           NEW seen \in [Touched(patch) -> 0 .. asked + MaxAhead], Propose(t, p, patch, seen)
    PROVE  /\ Moved(t)
           /\ req'[t] = Submitted(p, patch, seen)
<1>1. Submitted(p, patch, seen) \in Request
  BY SubmittedTyped DEF TypeOK
<1> QED
  BY <1>1, ToMoves DEF Propose, TypeOK, Moved, Others

LEMMA TerritoryMoves ==
    ASSUME TypeOK, NEW t \in Threads, Territory(t)
    PROVE  /\ Moved(t)
           /\ \/ Rejected(t) /\ skipped' = skipped
              \/ /\ skipped' = skipped \cup LookedPast(req[t])
                 /\ Covered(req[t]) /\ Kin(t) /\ req'[t].base = req[t].base
                 /\ req'[t].left = req[t].left /\ req'[t].pc = "read"
<1> DEFINE s == [req[t] EXCEPT !.pc = "read"]
<1>1. req[t] \in Request
  BY DEF TypeOK
<1>2. s \in Request
  BY <1>1 DEF Request, Phases
<1>3. /\ s.id = req[t].id /\ s.who = req[t].who /\ s.patch = req[t].patch
      /\ s.seen = req[t].seen /\ s.base = req[t].base /\ s.left = req[t].left
      /\ s.pc = "read"
  BY <1>1 DEF Request
<1>4. CASE Covered(req[t])
  <2>1. To(t, s) /\ skipped' = skipped \cup LookedPast(req[t])
    BY <1>4 DEF Territory
  <2> HIDE DEF s
  <2>2. req' \in [Threads -> Request] /\ req'[t] = s /\ Others(t)
    BY <1>2, <2>1, ToMoves DEF TypeOK, Others
  <2> QED
    BY <1>3, <1>4, <2>1, <2>2 DEF Moved, Kin
<1>5. CASE ~Covered(req[t])
  BY <1>5, RejectMoves DEF Territory
<1> QED
  BY <1>4, <1>5

LEMMA ReadMoves ==
    ASSUME TypeOK, NEW t \in Threads, NEW o \in Objects, ReadBase(t, o)
    PROVE  /\ Moved(t)
           /\ \/ Rejected(t)
              \/ /\ Fresh(req[t], o, head[o]) /\ Kin(t)
                 /\ req'[t].base = [req[t].base EXCEPT ![o] = head[o]]
                 /\ req'[t].left = req[t].left \ {o}
                 /\ req'[t].pc = IF req[t].left = {o} THEN "weigh" ELSE "read"
<1> DEFINE s == Read(req[t], o)
<1>1. req[t] \in Request
  BY DEF TypeOK
<1>2. s \in Request
  BY <1>1, ReadTyped DEF TypeOK
<1>3. /\ s.id = req[t].id /\ s.who = req[t].who /\ s.patch = req[t].patch
      /\ s.seen = req[t].seen
      /\ s.base = [req[t].base EXCEPT ![o] = head[o]]
      /\ s.left = req[t].left \ {o}
      /\ s.pc = IF req[t].left = {o} THEN "weigh" ELSE "read"
  BY <1>1 DEF Request, Read
<1>4. CASE Fresh(req[t], o, head[o])
  <2>1. To(t, s)
    BY <1>4 DEF ReadBase, Read
  <2> HIDE DEF s
  <2>2. req' \in [Threads -> Request] /\ req'[t] = s /\ Others(t)
    BY <1>2, <2>1, ToMoves DEF TypeOK, Others
  <2> QED
    BY <1>3, <1>4, <2>2 DEF Moved, Kin
<1>5. CASE ~Fresh(req[t], o, head[o])
  BY <1>5, RejectMoves DEF ReadBase
<1> QED
  BY <1>4, <1>5

LEMMA WeighMoves ==
    ASSUME TypeOK, NEW t \in Threads, Weigh(t)
    PROVE  /\ Moved(t)
           /\ \/ Rejected(t)
              \/ /\ \A o \in Touched(req[t].patch) : WallStands(req[t], o)
                 /\ Kin(t) /\ req'[t].base = req[t].base
                 /\ req'[t].pc \in {"gate", "commit"}
<1> DEFINE climbing == {o \in Touched(req[t].patch) : Advancing(req[t], o)}
           s == [req[t] EXCEPT !.pc = IF climbing = {} THEN "commit" ELSE "gate",
                               !.left = climbing]
<1>1. req[t] \in Request /\ climbing \subseteq Objects
  BY DEF TypeOK, Touched
<1> HIDE DEF climbing
<1>2. s \in Request
  BY <1>1 DEF Request, Phases
<1>3. /\ s.id = req[t].id /\ s.who = req[t].who /\ s.patch = req[t].patch
      /\ s.seen = req[t].seen /\ s.base = req[t].base
      /\ s.pc \in {"gate", "commit"}
  BY <1>1 DEF Request
<1>4. CASE \A o \in Touched(req[t].patch) : WallStands(req[t], o)
  <2>1. To(t, s)
    BY <1>4 DEF Weigh, climbing
  <2> HIDE DEF s
  <2>2. req' \in [Threads -> Request] /\ req'[t] = s /\ Others(t)
    BY <1>2, <2>1, ToMoves DEF TypeOK, Others
  <2> QED
    BY <1>3, <1>4, <2>2 DEF Moved, Kin
<1>5. CASE ~\A o \in Touched(req[t].patch) : WallStands(req[t], o)
  BY <1>5, RejectMoves DEF Weigh
<1> QED
  BY <1>4, <1>5

LEMMA GateMoves ==
    ASSUME TypeOK, NEW t \in Threads, NEW o \in Objects, Gate(t, o)
    PROVE  /\ Moved(t)
           /\ \/ Rejected(t)
              \/ /\ Kin(t) /\ req'[t].base = req[t].base
                 /\ req'[t].pc \in {"gate", "commit"}
<1> DEFINE s == [req[t] EXCEPT !.pc = IF req[t].left = {o} THEN "commit" ELSE "gate",
                               !.left = req[t].left \ {o}]
<1>1. req[t] \in Request
  BY DEF TypeOK
<1>2. s \in Request
  BY <1>1 DEF Request, Phases
<1>3. /\ s.id = req[t].id /\ s.who = req[t].who /\ s.patch = req[t].patch
      /\ s.seen = req[t].seen /\ s.base = req[t].base
      /\ s.pc \in {"gate", "commit"}
  BY <1>1 DEF Request
<1>4. CASE Blocking(o) = {}
  <2>1. To(t, s)
    BY <1>4 DEF Gate
  <2> HIDE DEF s
  <2>2. req' \in [Threads -> Request] /\ req'[t] = s /\ Others(t)
    BY <1>2, <2>1, ToMoves DEF TypeOK, Others
  <2> QED
    BY <1>3, <2>2 DEF Moved, Kin
<1>5. CASE Blocking(o) # {}
  BY <1>5, RejectMoves DEF Gate
<1> QED
  BY <1>4, <1>5

LEMMA CommitMoves ==
    ASSUME TypeOK, NEW t \in Threads, Commit(t)
    PROVE  /\ Moved(t) /\ Kin(t) /\ req'[t].base = req[t].base
           /\ req'[t].pc = "record" /\ req'[t].verdict = "committed"
<1> DEFINE s == [req[t] EXCEPT !.pc = "record", !.verdict = "committed"]
<1>1. req[t] \in Request
  BY DEF TypeOK
<1>2. s \in Request
  BY <1>1 DEF Request, Phases
<1>3. /\ s.id = req[t].id /\ s.who = req[t].who /\ s.patch = req[t].patch
      /\ s.seen = req[t].seen /\ s.base = req[t].base
      /\ s.pc = "record" /\ s.verdict = "committed"
  BY <1>1 DEF Request
<1>4. To(t, s)
  BY DEF Commit
<1> HIDE DEF s
<1>5. req' \in [Threads -> Request] /\ req'[t] = s /\ Others(t)
  BY <1>2, <1>4, ToMoves DEF TypeOK, Others
<1> QED
  BY <1>3, <1>5 DEF Moved, Kin

LEMMA RecordMoves ==
    ASSUME TypeOK, NEW t \in Threads, RecordProposal(t)
    PROVE  /\ Moved(t) /\ Kin(t) /\ req'[t].base = req[t].base
           /\ req'[t].verdict = req[t].verdict /\ req'[t].pc = "audit"
<1> DEFINE s == [req[t] EXCEPT !.pc = "audit"]
<1>1. req[t] \in Request
  BY DEF TypeOK
<1>2. s \in Request
  BY <1>1 DEF Request, Phases
<1>3. /\ s.id = req[t].id /\ s.who = req[t].who /\ s.patch = req[t].patch
      /\ s.seen = req[t].seen /\ s.base = req[t].base
      /\ s.verdict = req[t].verdict /\ s.pc = "audit"
  BY <1>1 DEF Request
<1>4. To(t, s)
  BY DEF RecordProposal
<1> HIDE DEF s
<1>5. req' \in [Threads -> Request] /\ req'[t] = s /\ Others(t)
  BY <1>2, <1>4, ToMoves DEF TypeOK, Others
<1> QED
  BY <1>3, <1>5 DEF Moved, Kin

LEMMA EndMoves ==
    ASSUME TypeOK, NEW t \in Threads, To(t, Idle)
    PROVE  Moved(t) /\ req'[t] = Idle
  BY IdleTyped, ToMoves DEF TypeOK, Moved, Others

-----------------------------------------------------------------------------
(* Type correctness and the heads. *)

LEMMA ResultTyped ==
    ASSUME NEW r \in Request, r.verdict # "none"
    PROVE  Result(r) \in Verdict
<1>1. r.id \in Nat /\ r.verdict \in {"committed", "rejected"}
      /\ r.base \in [Objects -> Version]
  BY DEF Request
<1>2. \A o \in Touched(r.patch) : o \in Objects /\ r.base[o].rev + 1 \in Nat
  BY <1>1 DEF Touched, Version
<1> QED
  BY <1>1, <1>2 DEF Result, Verdict

LEMMA RowsTyped ==
    ASSUME TypeOK, HeadIsLast, ThreadsOk, NEW t \in Threads, Commit(t)
    PROVE  Rows(req[t]) \subseteq Row
<1>1. req[t] \in Request
  BY DEF TypeOK
<1>2. /\ req[t].who \in Principals \cup {Nobody} /\ req[t].id \in Nat
      /\ req[t].base \in [Objects -> Version]
  BY <1>1 DEF Request
<1>3. SUFFICES ASSUME NEW o \in Touched(req[t].patch)
               PROVE  [object |-> o, rev |-> req[t].base[o].rev + 1,
                       body |-> Candidate(req[t], o), from |-> req[t].base[o].body,
                       by |-> req[t].who, id |-> req[t].id] \in Row
  BY DEF Rows
<1>4. o \in Objects /\ Candidate(req[t], o) \in Bodies
  BY CommitFacts
<1>5. req[t].base[o].rev + 1 \in Nat /\ req[t].base[o].body \in Bodies \cup {NoBody}
  BY <1>2, <1>4 DEF Version
<1> QED
  BY <1>2, <1>4, <1>5 DEF Row

LEMMA HeadTyped ==
    ASSUME TypeOK, HeadIsLast, ThreadsOk, NEW t \in Threads, Commit(t)
    PROVE  head' \in [Objects -> Version]
<1>1. req[t] \in Request
  BY DEF TypeOK
<1>2. req[t].base \in [Objects -> Version]
  BY <1>1 DEF Request
<1>3. ASSUME NEW o \in Touched(req[t].patch)
      PROVE  [rev |-> req[t].base[o].rev + 1, body |-> Candidate(req[t], o)] \in Version
  <2>1. o \in Objects /\ Candidate(req[t], o) \in Bodies
    BY CommitFacts
  <2>2. req[t].base[o].rev + 1 \in Nat
    BY <1>2, <2>1 DEF Version
  <2> QED
    BY <2>1, <2>2 DEF Version
<1> QED
  BY <1>3 DEF Commit, TypeOK

LEMMA TypeStep ==
    ASSUME TypeOK, HeadIsLast, ThreadsOk, VerdictsOk, [Next]_vars
    PROVE  TypeOK'
<1>1. ASSUME NEW t \in Threads, NEW p \in Principals, NEW patch \in Patches,
             NEW seen \in [Touched(patch) -> 0 .. asked + MaxAhead], Propose(t, p, patch, seen)
      PROVE  TypeOK'
  BY <1>1, ProposeMoves DEF Moved, Propose, TypeOK
<1>2. ASSUME NEW t \in Threads, Territory(t) PROVE TypeOK'
  <2>1. req[t].id \in Nat /\ Touched(req[t].patch) \subseteq Objects
    BY DEF TypeOK, Request, Touched
  <2>2. LookedPast(req[t]) \subseteq Nat \X Objects
    BY <2>1 DEF LookedPast
  <2>3. Moved(t) /\ skipped' \subseteq Nat \X Objects
    BY <1>2, <2>2, TerritoryMoves DEF TypeOK
  <2> QED
    BY <1>2, <2>3 DEF Moved, Territory, TypeOK
<1>3. ASSUME NEW t \in Threads, Weigh(t) PROVE TypeOK'
  BY <1>3, WeighMoves DEF Moved, Weigh, TypeOK
<1>4. ASSUME NEW t \in Threads, Commit(t) PROVE TypeOK'
  BY <1>4, CommitMoves, RowsTyped, HeadTyped DEF Moved, Commit, TypeOK
<1>5. ASSUME NEW t \in Threads, CommitRefused(t) PROVE TypeOK'
  BY <1>5, EndMoves DEF Moved, CommitRefused, TypeOK
<1>6. ASSUME NEW t \in Threads, RecordProposal(t) PROVE TypeOK'
  <2>1. Result(req[t]) \in Verdict
    BY <1>6, ResultTyped DEF RecordProposal, VerdictsOk, TypeOK
  <2> QED
    BY <1>6, <2>1, RecordMoves DEF Moved, RecordProposal, TypeOK
<1>7. ASSUME NEW t \in Threads, Audit(t) PROVE TypeOK'
  <2>1. Result(req[t]) \in Verdict
    BY <1>7, ResultTyped DEF Audit, VerdictsOk, TypeOK
  <2> QED
    BY <1>7, <2>1, EndMoves DEF Moved, Audit, TypeOK
<1>8. ASSUME NEW t \in Threads, NEW o \in Objects, ReadBase(t, o) PROVE TypeOK'
  BY <1>8, ReadMoves DEF Moved, ReadBase, TypeOK
<1>9. ASSUME NEW t \in Threads, NEW o \in Objects, Gate(t, o) PROVE TypeOK'
  BY <1>9, GateMoves DEF Moved, Gate, TypeOK
<1>10. ASSUME NEW p \in Principals, NEW S \in SUBSET Objects, Grant(p, S)
       PROVE  TypeOK'
  <2>1. granted[p] \cup S \in SUBSET Objects
    BY DEF TypeOK
  <2> QED
    BY <1>10, <2>1 DEF Grant, TypeOK
<1>11. CASE Crash
  BY <1>11, IdleTyped DEF Crash, TypeOK
<1>12. CASE UNCHANGED vars
  BY <1>12 DEF vars, TypeOK
<1> QED
  BY <1>1, <1>2, <1>3, <1>4, <1>5, <1>6, <1>7, <1>8, <1>9, <1>10, <1>11, <1>12
  DEF Next

\* Only a commit touches the objects and their history.
LEMMA OnlyCommits ==
    ASSUME [Next]_vars, \A t \in Threads : ~Commit(t)
    PROVE  UNCHANGED <<head, hist>>
  BY DEF Next, Propose, Territory, Weigh, CommitRefused, RecordProposal, Audit,
         ReadBase, Gate, Grant, Crash, vars

\* The row a commit writes for an object.
NewRow(t, o) ==
    [object |-> o, rev |-> head[o].rev + 1, body |-> Candidate(req[t], o),
     from |-> head[o].body, by |-> req[t].who, id |-> req[t].id]

NewRows(t) == {NewRow(t, o) : o \in Touched(req[t].patch)}

\* What a commit writes, object by object.
LEMMA CommitWrites ==
    ASSUME TypeOK, HeadIsLast, ThreadsOk, NEW t \in Threads, Commit(t)
    PROVE  /\ \A o \in Touched(req[t].patch) :
                /\ o \in Objects /\ head[o].rev \in Nat
                /\ head'[o].rev = head[o].rev + 1
                /\ head'[o].body = Candidate(req[t], o)
                /\ Candidate(req[t], o) \in Bodies
                /\ Passes(o, Candidate(req[t], o))
           /\ \A o \in Objects \ Touched(req[t].patch) : head'[o] = head[o]
           /\ hist' = hist \cup NewRows(t)
<1>1. \A o \in Touched(req[t].patch) :
        /\ o \in Objects /\ req[t].base[o] = head[o]
        /\ Candidate(req[t], o) \in Bodies /\ Passes(o, Candidate(req[t], o))
  BY CommitFacts
<1>2. \A o \in Objects : head[o].rev \in Nat
  BY DEF TypeOK, Version
<1>3. \A o \in Touched(req[t].patch) :
        head'[o].rev = head[o].rev + 1 /\ head'[o].body = Candidate(req[t], o)
  BY <1>1 DEF Commit
<1>4. \A o \in Objects \ Touched(req[t].patch) : head'[o] = head[o]
  BY DEF Commit
<1>5. Rows(req[t]) = NewRows(t)
  BY <1>1, Zenon DEF Rows, NewRows, NewRow
<1>6. hist' = hist \cup Rows(req[t])
  BY DEF Commit
<1> QED
  BY <1>1, <1>2, <1>3, <1>4, <1>5, <1>6

LEMMA HeadStep ==
    ASSUME TypeOK, HeadIsLast, WallsHold, ThreadsOk, [Next]_vars
    PROVE  HeadIsLast' /\ WallsHold'
<1>1. CASE \A t \in Threads : ~Commit(t)
  <2>1. UNCHANGED <<head, hist>>
    BY <1>1, OnlyCommits
  <2> QED
    BY <2>1 DEF HeadIsLast, WallsHold, Passes
<1>2. ASSUME NEW t \in Threads, Commit(t) PROVE HeadIsLast' /\ WallsHold'
  <2> DEFINE T == Touched(req[t].patch)
             new == NewRows(t)
  <2>1. /\ \A o \in T : /\ o \in Objects /\ head'[o].rev = head[o].rev + 1
                        /\ head[o].rev \in Nat
                        /\ head'[o].body \in Bodies /\ Passes(o, head'[o].body)
        /\ \A o \in Objects \ T : head'[o] = head[o]
        /\ hist' = hist \cup new
    BY <1>2, CommitWrites
  <2>2. \A o \in T : /\ NewRow(t, o).object = o
                     /\ NewRow(t, o).rev = head'[o].rev
                     /\ NewRow(t, o).body = head'[o].body
    BY <1>2, CommitWrites DEF NewRow
  <2>3. /\ \A r \in new : \E o \in T : r = NewRow(t, o)
        /\ \A o \in T : NewRow(t, o) \in new
    BY DEF NewRows
  <2>4. \A o \in Objects : head[o].rev \in Nat
    BY DEF TypeOK, Version
  <2>5. \A r \in hist : r.object \in Objects /\ r.rev \in Nat
    BY DEF TypeOK, Row
  <2> HIDE DEF T, new
  <2>6. \A o \in Objects :
          /\ head'[o].rev = 0 => head'[o].body = NoBody
          /\ head'[o].rev > 0 => head'[o].body \in Bodies /\ Passes(o, head'[o].body)
    BY <2>1, <2>4 DEF HeadIsLast
  <2>7. \A r \in hist' : r.rev >= 1 /\ r.rev <= head'[r.object].rev
    <3>1. \A r \in new : r.rev >= 1 /\ r.rev <= head'[r.object].rev
      BY <2>1, <2>2, <2>3
    <3>2. \A r \in hist : r.rev >= 1 /\ r.rev <= head'[r.object].rev
      BY <2>1, <2>4, <2>5 DEF HeadIsLast
    <3> QED
      BY <2>1, <3>1, <3>2
  <2>8. ASSUME NEW o \in Objects, NEW i \in 1 .. head'[o].rev
        PROVE  \E r \in hist' : r.object = o /\ r.rev = i
    <3>1. CASE i \in 1 .. head[o].rev
      <4>1. \E r \in hist : r.object = o /\ r.rev = i
        BY <3>1 DEF HeadIsLast
      <4> QED
        BY <2>1, <4>1
    <3>2. CASE i \notin 1 .. head[o].rev
      <4>1. o \in T /\ i = head'[o].rev
        BY <3>2, <2>1, <2>4
      <4> QED
        BY <2>1, <2>2, <2>3, <4>1
    <3> QED
      BY <3>1, <3>2
  <2>9. WallsHold'
    <3>1. \A r \in new : Passes(r.object, r.body)
      BY <2>1, <2>2, <2>3
    <3> QED
      BY <2>1, <3>1 DEF WallsHold, Passes
  <2> QED
    BY <2>6, <2>7, <2>8, <2>9 DEF HeadIsLast, Passes
<1> QED
  BY <1>1, <1>2
-----------------------------------------------------------------------------
(* What the threads know stays true while the others move. *)

LEMMA Forward ==
    ASSUME TypeOK, HeadIsLast, ThreadsOk, [Next]_vars
    PROVE  \A o \in Objects : /\ head[o].rev \in Nat /\ head'[o].rev \in Nat
                              /\ head[o].rev <= head'[o].rev
                              /\ head'[o].rev = head[o].rev => head'[o] = head[o]
<1>1. \A o \in Objects : head[o].rev \in Nat
  BY DEF TypeOK, Version
<1>2. CASE \A t \in Threads : ~Commit(t)
  BY <1>1, <1>2, OnlyCommits
<1>3. ASSUME NEW t \in Threads, Commit(t), NEW o \in Objects
      PROVE  \/ head'[o] = head[o]
             \/ head'[o].rev = head[o].rev + 1
  BY <1>3, CommitWrites
<1> QED
  BY <1>1, <1>2, <1>3

LEMMA Settled ==
    ASSUME TypeOK, [Next]_vars
    PROVE  /\ owner # Nobody => owner' = owner
           /\ \A p \in Principals : granted[p] \subseteq granted'[p]
           /\ skipped \subseteq skipped'
<1>1. ASSUME NEW t \in Threads, NEW p \in Principals, NEW patch \in Patches,
             NEW seen \in [Touched(patch) -> 0 .. asked + MaxAhead], Propose(t, p, patch, seen)
      PROVE  /\ owner # Nobody => owner' = owner
             /\ granted' = granted /\ skipped' = skipped
  BY <1>1 DEF Propose
<1>2. ASSUME NEW p \in Principals, NEW S \in SUBSET Objects, Grant(p, S)
      PROVE  /\ owner' = owner /\ skipped' = skipped
             /\ \A q \in Principals : granted[q] \subseteq granted'[q]
  BY <1>2 DEF Grant, TypeOK
<1>3. CASE \E t \in Threads :
             \/ Territory(t) \/ Weigh(t) \/ Commit(t) \/ CommitRefused(t)
             \/ RecordProposal(t) \/ Audit(t)
             \/ \E o \in Objects : ReadBase(t, o) \/ Gate(t, o)
  BY <1>3 DEF Territory, Weigh, Commit, CommitRefused, RecordProposal, Audit,
              ReadBase, Gate
<1>4. CASE Crash \/ UNCHANGED vars
  BY <1>4 DEF Crash, vars
<1> QED
  BY <1>1, <1>2, <1>3, <1>4 DEF Next

\* A body once read stays a body the object has had.
LEMMA BaseKept ==
    ASSUME TypeOK, HeadIsLast, ThreadsOk, [Next]_vars, NEW t \in Threads,
           req'[t].base = req[t].base
    PROVE  BaseOk(req[t])'
<1>1. BaseOk(req[t])
  BY DEF ThreadsOk
<1>2. req[t] \in Request
  BY DEF TypeOK
<1>3. \A o \in Objects : req[t].base[o].rev \in Nat
  BY <1>2 DEF Request, Version
<1>4. \A o \in Objects : /\ head[o].rev \in Nat /\ head'[o].rev \in Nat
                         /\ head[o].rev <= head'[o].rev
                         /\ head'[o].rev = head[o].rev => head'[o] = head[o]
  BY Forward
<1> SUFFICES ASSUME NEW o \in Objects
             PROVE  /\ req'[t].base[o].rev <= head'[o].rev
                    /\ req'[t].base[o].rev = head'[o].rev => req'[t].base[o] = head'[o]
                    /\ req'[t].base[o].rev > 0 =>
                         /\ req'[t].base[o].body \in Bodies
                         /\ Passes(o, req'[t].base[o].body)
  BY DEF BaseOk, Passes
<1> QED
  BY <1>1, <1>3, <1>4 DEF BaseOk

\* So does what the walls have established, in a thread that keeps its phase.
LEMMA KnownKept ==
    ASSUME TypeOK, HeadIsLast, ThreadsOk, [Next]_vars, NEW t \in Threads,
           req[t].pc \in ToRead \cup Judged, Kin(t)
    PROVE  /\ req'[t].patch \in Patches /\ Touched(req'[t].patch) # {}
           /\ req'[t].who \in Principals /\ owner' # Nobody
           /\ Touched(req'[t].patch) = Touched(req[t].patch)
           /\ req[t].pc \in {"read"} \cup Judged =>
                \/ req'[t].who = owner'
                \/ \A o \in Touched(req'[t].patch) :
                     \/ o \in granted'[req'[t].who]
                     \/ ~req'[t].patch[o].create /\ <<req'[t].id, o>> \in skipped'
<1>1. JudgedOk(req[t])
  BY DEF ThreadsOk
<1>2. req[t] \in Request
  BY DEF TypeOK
<1>3. /\ req[t].patch \in Patches /\ Touched(req[t].patch) # {}
      /\ req[t].who \in Principals /\ owner # Nobody
  BY <1>1 DEF JudgedOk
<1>4. /\ owner' = owner /\ \A p \in Principals : granted[p] \subseteq granted'[p]
      /\ skipped \subseteq skipped'
  BY <1>3, Settled
<1>5. Touched(req'[t].patch) = Touched(req[t].patch)
  BY DEF Kin
<1>6. req[t].pc \in {"read"} \cup Judged =>
        \/ req[t].who = owner'
        \/ \A o \in Touched(req[t].patch) :
             \/ o \in granted'[req[t].who]
             \/ ~req[t].patch[o].create /\ <<req[t].id, o>> \in skipped'
  BY <1>1, <1>3, <1>4 DEF JudgedOk
<1> QED
  BY <1>3, <1>4, <1>5, <1>6 DEF Kin

\* Nothing read is a true reading of what has never been written.
LEMMA NothingRead ==
    ASSUME NEW version \in Version, version.rev = 0 => version.body = NoBody
    PROVE  /\ Absent.rev <= version.rev
           /\ Absent.rev = version.rev => Absent = version
           /\ ~(Absent.rev > 0)
  BY DEF Absent, Version

LEMMA ThreadsStep ==
    ASSUME TypeOK, HeadIsLast, WallsHold, ThreadsOk, VerdictsOk, Granted,
           [Next]_vars
    PROVE  ThreadsOk'
<1>a. TypeOK' /\ HeadIsLast'
  BY TypeStep, HeadStep
<1>b. ASSUME NEW u \in Threads, req'[u] = req[u]
      PROVE  BaseOk(req[u])' /\ JudgedOk(req[u])'
  <2>1. BaseOk(req[u])'
    BY <1>b, BaseKept
  <2>2. CASE req[u].pc \notin ToRead \cup Judged
    BY <1>b, <2>1, <2>2 DEF JudgedOk, ToRead, Judged
  <2>3. CASE req[u].pc \in ToRead \cup Judged
    <3>1. Kin(u) /\ JudgedOk(req[u])
      BY <1>b DEF Kin, ThreadsOk
    <3>3. req[u].pc \in {"read"} \cup Judged =>
            \/ req[u].who = owner'
            \/ \A o \in Touched(req[u].patch) :
                 \/ o \in granted'[req[u].who]
                 \/ ~req[u].patch[o].create /\ <<req[u].id, o>> \in skipped'
      BY <1>b, <2>3, <3>1, KnownKept
    <3>4. owner' # Nobody
      BY <1>b, <2>3, <3>1, KnownKept
    <3>5. /\ \A o : Fresh(req[u], o, req[u].base[o])' = Fresh(req[u], o, req[u].base[o])
          /\ \A o : WallStands(req[u], o)' = WallStands(req[u], o)
      BY <1>b DEF Fresh, WallStands, Candidate, Applied, Passes
    <3> QED
      BY <1>b, <2>1, <3>1, <3>3, <3>4, <3>5 DEF JudgedOk, Touched
  <2> QED
    BY <2>1, <2>2, <2>3
<1>c. ASSUME NEW u \in Threads, req'[u].pc \notin ToRead \cup Judged,
             req'[u].base = [o \in Objects |-> Absent]
      PROVE  BaseOk(req[u])' /\ JudgedOk(req[u])'
  <2>1. \A o \in Objects : /\ Absent.rev <= head'[o].rev
                           /\ Absent.rev = head'[o].rev => Absent = head'[o]
                           /\ ~(Absent.rev > 0)
    <3>1. \A o \in Objects : head'[o] \in Version
      BY <1>a DEF TypeOK
    <3>2. \A o \in Objects : head'[o].rev = 0 => head'[o].body = NoBody
      BY <1>a DEF HeadIsLast
    <3> QED
      BY <3>1, <3>2, NothingRead
  <2> QED
    BY <1>c, <2>1 DEF BaseOk, JudgedOk, ToRead, Judged, Passes
<1>i. Idle.pc \notin ToRead \cup Judged /\ Idle.base = [o \in Objects |-> Absent]
  BY DEF Idle, ToRead, Judged
<1>r. ASSUME NEW u \in Threads, Rejected(u)
      PROVE  BaseOk(req[u])' /\ JudgedOk(req[u])'
  BY <1>c, <1>r DEF Rejected, ToRead, Judged
<1>d. ASSUME NEW u \in Threads, Kin(u), req'[u].base = req[u].base,
             req'[u].pc \in {"record", "audit"}
      PROVE  BaseOk(req[u])' /\ JudgedOk(req[u])'
  <2>1. BaseOk(req[u])'
    BY <1>d, BaseKept
  <2> QED
    BY <1>d, <2>1 DEF JudgedOk, ToRead, Judged
<1>1. ASSUME NEW t \in Threads, NEW p \in Principals, NEW patch \in Patches,
             NEW seen \in [Touched(patch) -> 0 .. asked + MaxAhead], Propose(t, p, patch, seen)
      PROVE  ThreadsOk'
  <2> DEFINE r == Submitted(p, patch, seen)
  <2>1. Others(t) /\ req'[t] = r
    BY <1>1, ProposeMoves DEF Moved
  <2>2. /\ r.pc = "territory" /\ r.who = p /\ r.patch = patch
        /\ r.left = Touched(patch) /\ r.base = [o \in Objects |-> Absent]
        /\ r.seen = [o \in Objects |-> IF o \in Touched(patch) THEN seen[o] ELSE 0]
    BY DEF Submitted
  <2> HIDE DEF r
  <2>3. BaseOk(req[t])'
    <3>1. \A o \in Objects : head'[o] \in Version
      BY <1>a DEF TypeOK
    <3>2. \A o \in Objects : head'[o].rev = 0 => head'[o].body = NoBody
      BY <1>a DEF HeadIsLast
    <3>3. \A o \in Objects : r.base[o] = Absent
      BY <2>2
    <3> QED
      BY <2>1, <3>1, <3>2, <3>3, NothingRead DEF BaseOk
  <2>4. Touched(patch) # {} /\ owner' # Nobody /\ head' = head
    BY <1>1, PatchAssumption DEF Propose, TypeOK
  <2>5. JudgedOk(req[t])'
    BY <2>1, <2>2, <2>4 DEF JudgedOk, ToRead, Judged, Touched
  <2> QED
    BY <1>b, <2>1, <2>3, <2>5 DEF ThreadsOk, Others
<1>2. ASSUME NEW t \in Threads, Territory(t) PROVE ThreadsOk'
  <2>1. Others(t) /\ req[t].pc = "territory"
    BY <1>2, TerritoryMoves DEF Moved, Territory
  <2>2. CASE Rejected(t)
    BY <1>b, <1>r, <2>1, <2>2 DEF ThreadsOk, Others
  <2>3. CASE /\ skipped' = skipped \cup LookedPast(req[t])
             /\ Covered(req[t]) /\ Kin(t) /\ req'[t].base = req[t].base
             /\ req'[t].left = req[t].left /\ req'[t].pc = "read"
    <3>1. BaseOk(req[t])'
      BY <2>3, BaseKept
    <3>2. /\ req'[t].patch \in Patches /\ Touched(req'[t].patch) # {}
          /\ req'[t].who \in Principals /\ owner' # Nobody
          /\ Touched(req'[t].patch) = Touched(req[t].patch)
      BY <2>1, <2>3, KnownKept DEF ToRead
    <3>3. JudgedOk(req[t]) /\ req'[t].left = Touched(req'[t].patch)
      BY <2>1, <2>3, <3>2 DEF ThreadsOk, JudgedOk
    <3>4. \/ req[t].who = owner
          \/ \A o \in Touched(req[t].patch) :
               \/ o \in granted[req[t].who]
               \/ ~req[t].patch[o].create /\ <<req[t].id, o>> \in skipped'
      <4>1. CASE req[t].who = owner
        BY <4>1
      <4>2. ASSUME NEW o \in Touched(req[t].patch), req[t].who # owner
            PROVE  \/ o \in granted[req[t].who]
                   \/ ~req[t].patch[o].create /\ <<req[t].id, o>> \in skipped'
        <5>1. o \in Objects /\ head[o].rev \in Nat
          BY DEF TypeOK, Touched, Version
        <5>2. req[t].who \in Principals
          BY <2>1, <3>3 DEF JudgedOk, ToRead
        <5>3. CASE req[t].patch[o].create \/ head[o].rev > 0
          BY <2>3, <4>2, <5>2, <5>3 DEF Covered, Granted
        <5>4. CASE ~(req[t].patch[o].create \/ head[o].rev > 0)
          BY <2>3, <4>2, <5>1, <5>4 DEF LookedPast
        <5> QED
          BY <5>3, <5>4
      <4> QED
        BY <4>1, <4>2
    <3>5. owner' = owner /\ granted' = granted
      BY <1>2 DEF Territory
    <3>6. JudgedOk(req[t])'
      BY <2>3, <3>2, <3>3, <3>4, <3>5 DEF JudgedOk, ToRead, Judged, Kin, Touched
    <3> QED
      BY <1>b, <2>1, <3>1, <3>6 DEF ThreadsOk, Others
  <2> QED
    BY <1>2, <2>2, <2>3, TerritoryMoves
<1>3. ASSUME NEW t \in Threads, NEW o \in Objects, ReadBase(t, o) PROVE ThreadsOk'
  <2>1. Others(t) /\ req[t].pc = "read" /\ o \in req[t].left /\ head' = head
    BY <1>3, ReadMoves DEF Moved, ReadBase
  <2>2. CASE Rejected(t)
    BY <1>b, <1>r, <2>1, <2>2 DEF ThreadsOk, Others
  <2>3. CASE /\ Fresh(req[t], o, head[o]) /\ Kin(t)
             /\ req'[t].base = [req[t].base EXCEPT ![o] = head[o]]
             /\ req'[t].left = req[t].left \ {o}
             /\ req'[t].pc = IF req[t].left = {o} THEN "weigh" ELSE "read"
    <3>1. req[t] \in Request /\ BaseOk(req[t]) /\ JudgedOk(req[t])
      BY DEF TypeOK, ThreadsOk
    <3>2. \A x \in Objects : req'[t].base[x] = IF x = o THEN head[o] ELSE req[t].base[x]
      BY <2>3, <3>1 DEF Request
    <3>3. BaseOk(req[t])'
      <4> SUFFICES ASSUME NEW x \in Objects
                   PROVE  /\ req'[t].base[x].rev <= head[x].rev
                          /\ req'[t].base[x].rev = head[x].rev =>
                               req'[t].base[x] = head[x]
                          /\ req'[t].base[x].rev > 0 =>
                               /\ req'[t].base[x].body \in Bodies
                               /\ Passes(x, req'[t].base[x].body)
        BY <2>1 DEF BaseOk, Passes
      <4>1. head[x].rev \in Nat
        BY DEF TypeOK, Version
      <4>2. CASE x = o
        BY <3>2, <4>1, <4>2 DEF HeadIsLast
      <4>3. CASE x # o
        BY <3>1, <3>2, <4>3 DEF BaseOk
      <4> QED
        BY <4>2, <4>3
    <3>4. /\ req'[t].patch \in Patches /\ Touched(req'[t].patch) # {}
          /\ req'[t].who \in Principals /\ owner' # Nobody
          /\ Touched(req'[t].patch) = Touched(req[t].patch)
          /\ \/ req'[t].who = owner'
             \/ \A x \in Touched(req'[t].patch) :
                  \/ x \in granted'[req'[t].who]
                  \/ ~req'[t].patch[x].create /\ <<req'[t].id, x>> \in skipped'
      BY <2>1, <2>3, KnownKept DEF ToRead
    <3>5. \A x \in Touched(req[t].patch) \ req'[t].left :
            Fresh(req'[t], x, req'[t].base[x])
      <4> SUFFICES ASSUME NEW x \in Touched(req[t].patch) \ req'[t].left
                   PROVE  Fresh(req'[t], x, req'[t].base[x])
        OBVIOUS
      <4>1. x \in Objects
        BY DEF Touched
      <4>2. CASE x = o
        BY <2>3, <3>2, <4>2 DEF Fresh, Kin
      <4>3. CASE x # o
        <5>1. Fresh(req[t], x, req[t].base[x])
          BY <2>1, <2>3, <3>1, <4>3 DEF JudgedOk
        <5> QED
          BY <2>3, <3>2, <4>1, <4>3, <5>1 DEF Fresh, Kin
      <4> QED
        BY <4>2, <4>3
    <3>6. req'[t].pc = "weigh" => req'[t].left = {}
      BY <2>3
    <3>7. req'[t].pc \in {"read", "weigh"}
      BY <2>3
    <3>8. JudgedOk(req[t])'
      BY <3>4, <3>5, <3>6, <3>7 DEF JudgedOk, ToRead, Judged, Touched, Fresh
    <3> QED
      BY <1>b, <2>1, <3>3, <3>8 DEF ThreadsOk, Others
  <2> QED
    BY <1>3, <2>2, <2>3, ReadMoves
<1>e. ASSUME NEW u \in Threads, req[u].pc \in Judged,
             \A o \in Touched(req[u].patch) : WallStands(req[u], o),
             Kin(u), req'[u].base = req[u].base, req'[u].pc \in {"gate", "commit"}
      PROVE  BaseOk(req[u])' /\ JudgedOk(req[u])'
  <2>1. BaseOk(req[u])'
    BY <1>e, BaseKept
  <2>2. /\ req'[u].patch \in Patches /\ Touched(req'[u].patch) # {}
        /\ req'[u].who \in Principals /\ owner' # Nobody
        /\ \/ req'[u].who = owner'
           \/ \A o \in Touched(req'[u].patch) :
                \/ o \in granted'[req'[u].who]
                \/ ~req'[u].patch[o].create /\ <<req'[u].id, o>> \in skipped'
    BY <1>e, KnownKept DEF Judged
  <2>3. \A o \in Touched(req[u].patch) : Fresh(req[u], o, req[u].base[o])
    BY <1>e DEF ThreadsOk, JudgedOk
  <2>4. \A o \in Touched(req'[u].patch) :
          Fresh(req'[u], o, req'[u].base[o]) /\ WallStands(req'[u], o)
    BY <1>e, <2>3 DEF Kin, Fresh, WallStands, Candidate
  <2>5. JudgedOk(req[u])'
    BY <1>e, <2>2, <2>4
    DEF JudgedOk, ToRead, Judged, Touched, Fresh, WallStands, Candidate, Applied, Passes
  <2> QED
    BY <2>1, <2>5
<1>4. ASSUME NEW t \in Threads, Weigh(t) PROVE ThreadsOk'
  <2>1. Others(t) /\ req[t].pc \in Judged
    BY <1>4, WeighMoves DEF Moved, Weigh, Judged
  <2>2. CASE Rejected(t)
    BY <1>b, <1>r, <2>1, <2>2 DEF ThreadsOk, Others
  <2>3. CASE /\ \A x \in Touched(req[t].patch) : WallStands(req[t], x)
             /\ Kin(t) /\ req'[t].base = req[t].base
             /\ req'[t].pc \in {"gate", "commit"}
    BY <1>b, <1>e, <2>1, <2>3 DEF ThreadsOk, Others
  <2> QED
    BY <1>4, <2>2, <2>3, WeighMoves
<1>5. ASSUME NEW t \in Threads, NEW o \in Objects, Gate(t, o) PROVE ThreadsOk'
  <2>1. Others(t) /\ req[t].pc \in Judged
    BY <1>5, GateMoves DEF Moved, Gate, Judged
  <2>2. CASE Rejected(t)
    BY <1>b, <1>r, <2>1, <2>2 DEF ThreadsOk, Others
  <2>3. CASE /\ \A x \in Touched(req[t].patch) : WallStands(req[t], x)
             /\ Kin(t) /\ req'[t].base = req[t].base
             /\ req'[t].pc \in {"gate", "commit"}
    BY <1>b, <1>e, <2>1, <2>3 DEF ThreadsOk, Others
  <2>4. \A x \in Touched(req[t].patch) : WallStands(req[t], x)
    BY <1>5 DEF Gate, ThreadsOk, JudgedOk
  <2> QED
    BY <1>5, <2>2, <2>3, <2>4, GateMoves
<1>6. ASSUME NEW t \in Threads, Commit(t) PROVE ThreadsOk'
  BY <1>6, <1>b, <1>d, CommitMoves DEF ThreadsOk, Moved, Others, Commit
<1>7. ASSUME NEW t \in Threads, RecordProposal(t) PROVE ThreadsOk'
  BY <1>7, <1>b, <1>d, RecordMoves DEF ThreadsOk, Moved, Others, RecordProposal
<1>8. ASSUME NEW t \in Threads, CommitRefused(t) \/ Audit(t) PROVE ThreadsOk'
  <2>1. Others(t) /\ req'[t] = Idle
    BY <1>8, EndMoves DEF CommitRefused, Audit, Moved
  <2> QED
    BY <1>b, <1>c, <1>i, <2>1 DEF ThreadsOk, Others
<1>9. CASE (\E p \in Principals, S \in SUBSET Objects : Grant(p, S)) \/ UNCHANGED vars
  BY <1>9, <1>b DEF ThreadsOk, Grant, vars
<1>10. CASE Crash
  BY <1>10, <1>c, <1>i DEF ThreadsOk, Crash
<1> QED
  BY <1>1, <1>2, <1>3, <1>4, <1>5, <1>6, <1>7, <1>8, <1>9, <1>10 DEF Next
-----------------------------------------------------------------------------
(* Numbers, verdicts and territory. *)

\* A thread that is not idle after a step goes on with the proposal it had, or
\* has just taken the next number.
Carries(u) ==
    req'[u].pc # "idle" => req[u].pc # "idle" /\ req'[u].id = req[u].id

LEMMA CarriesOn ==
    ASSUME TypeOK, [Next]_vars
    PROVE  \/ asked' = asked /\ \A u \in Threads : Carries(u)
           \/ /\ asked' = asked + 1 /\ ledger' = ledger
              /\ \E t \in Threads : /\ req'[t].id = asked + 1 /\ req[t].pc = "idle"
                                    /\ \A u \in Threads \ {t} : Carries(u)
<1>1. ASSUME NEW t \in Threads, NEW p \in Principals, NEW patch \in Patches,
             NEW seen \in [Touched(patch) -> 0 .. asked + MaxAhead], Propose(t, p, patch, seen)
      PROVE  /\ asked' = asked + 1 /\ ledger' = ledger
             /\ req'[t].id = asked + 1 /\ req[t].pc = "idle"
             /\ \A u \in Threads \ {t} : Carries(u)
  <2>1. Submitted(p, patch, seen).id = asked + 1
    BY DEF Submitted
  <2> QED
    BY <1>1, <2>1, ProposeMoves DEF Propose, Moved, Others, Carries
<1>2. ASSUME NEW t \in Threads, Territory(t)
      PROVE  asked' = asked /\ \A u \in Threads : Carries(u)
  BY <1>2, TerritoryMoves DEF Territory, Moved, Others, Carries, Rejected, Kin
<1>3. ASSUME NEW t \in Threads, NEW o \in Objects, ReadBase(t, o)
      PROVE  asked' = asked /\ \A u \in Threads : Carries(u)
  BY <1>3, ReadMoves DEF ReadBase, Moved, Others, Carries, Rejected, Kin
<1>4. ASSUME NEW t \in Threads, Weigh(t)
      PROVE  asked' = asked /\ \A u \in Threads : Carries(u)
  BY <1>4, WeighMoves DEF Weigh, Moved, Others, Carries, Rejected, Kin
<1>5. ASSUME NEW t \in Threads, NEW o \in Objects, Gate(t, o)
      PROVE  asked' = asked /\ \A u \in Threads : Carries(u)
  BY <1>5, GateMoves DEF Gate, Moved, Others, Carries, Rejected, Kin
<1>6. ASSUME NEW t \in Threads, Commit(t)
      PROVE  asked' = asked /\ \A u \in Threads : Carries(u)
  BY <1>6, CommitMoves DEF Commit, Moved, Others, Carries, Kin
<1>7. ASSUME NEW t \in Threads, RecordProposal(t)
      PROVE  asked' = asked /\ \A u \in Threads : Carries(u)
  BY <1>7, RecordMoves DEF RecordProposal, Moved, Others, Carries, Kin
<1>8. ASSUME NEW t \in Threads, CommitRefused(t) \/ Audit(t)
      PROVE  asked' = asked /\ \A u \in Threads : Carries(u)
  <2>1. Others(t) /\ req'[t].pc = "idle" /\ asked' = asked
    BY <1>8, EndMoves DEF CommitRefused, Audit, Moved, Idle
  <2> QED
    BY <2>1 DEF Others, Carries
<1>9. CASE (\E p \in Principals, S \in SUBSET Objects : Grant(p, S)) \/ UNCHANGED vars
  BY <1>9 DEF Grant, vars, Carries
<1>10. CASE Crash
  BY <1>10 DEF Crash, Carries, Idle
<1> QED
  BY <1>1, <1>2, <1>3, <1>4, <1>5, <1>6, <1>7, <1>8, <1>9, <1>10 DEF Next

LEMMA NewRowCarries ==
    ASSUME NEW t \in Threads, NEW r \in NewRows(t)
    PROVE  /\ r.id = req[t].id /\ r.by = req[t].who
           /\ r.object \in Touched(req[t].patch)
           /\ r.rev = head[r.object].rev + 1
<1>1. PICK o \in Touched(req[t].patch) : r = NewRow(t, o)
  BY DEF NewRows
<1>2. /\ NewRow(t, o).id = req[t].id /\ NewRow(t, o).by = req[t].who
      /\ NewRow(t, o).object = o /\ NewRow(t, o).rev = head[o].rev + 1
  BY DEF NewRow
<1> QED
  BY <1>1, <1>2

\* Rows and verdicts carry the number of the proposal in hand.
LEMMA RecordsCarry ==
    ASSUME TypeOK, HeadIsLast, ThreadsOk, [Next]_vars
    PROVE  /\ \A r \in hist' : r \in hist \/
                \E t \in Threads : Commit(t) /\ r \in NewRows(t)
           /\ \A v \in ledger' : v \in ledger \/
                \E t \in Threads : RecordProposal(t) /\ v = Result(req[t])
           /\ hist \subseteq hist' /\ ledger \subseteq ledger'
<1>1. CASE \E t \in Threads : Commit(t)
  BY <1>1, CommitWrites DEF Commit
<1>2. CASE \A t \in Threads : ~Commit(t)
  <2>1. hist' = hist
    BY <1>2, OnlyCommits
  <2>2. ledger' = ledger \/ \E t \in Threads : RecordProposal(t)
    BY <1>2 DEF Next, Propose, Territory, Weigh, CommitRefused, Audit, ReadBase,
                Gate, Grant, Crash, vars
  <2> QED
    BY <2>1, <2>2 DEF RecordProposal
<1> QED
  BY <1>1, <1>2

LEMMA IdsStep ==
    ASSUME TypeOK, HeadIsLast, ThreadsOk, IdsOk, [Next]_vars
    PROVE  IdsOk'
<1>0. asked \in Nat
  BY DEF TypeOK
<1>1. \A r \in hist' : r.id \in 1 .. asked
  <2>1. ASSUME NEW t \in Threads, NEW r \in NewRows(t) PROVE r.id = req[t].id
    BY NewRowCarries
  <2> QED
    BY <2>1, RecordsCarry DEF IdsOk, Commit
<1>2. \A v \in ledger' : v.id \in 1 .. asked
  <2>1. \A t \in Threads : Result(req[t]).id = req[t].id
    BY DEF Result
  <2> QED
    BY <2>1, RecordsCarry DEF IdsOk, RecordProposal
<1>3. CASE asked' = asked /\ \A u \in Threads : Carries(u)
  BY <1>1, <1>2, <1>3 DEF IdsOk, Carries
<1>4. ASSUME NEW t \in Threads, asked' = asked + 1, req'[t].id = asked + 1,
             \A u \in Threads \ {t} : Carries(u)
      PROVE  IdsOk'
  BY <1>0, <1>1, <1>2, <1>4 DEF IdsOk, Carries
<1> QED
  BY <1>3, <1>4, CarriesOn

\* No other proposal's commit adds to what one has left in the history.
LEMMA RowsStay ==
    ASSUME TypeOK, HeadIsLast, ThreadsOk, [Next]_vars, NEW id,
           \A t \in Threads : Commit(t) => req[t].id # id
    PROVE  RowsIn(hist', id) = RowsIn(hist, id)
<1>1. \A r \in hist' : r.id = id => r \in hist
  BY RecordsCarry, NewRowCarries
<1>2. hist \subseteq hist'
  BY RecordsCarry
<1>3. {x \in hist' : x.id = id} = {x \in hist : x.id = id}
  BY <1>1, <1>2
<1> QED
  BY <1>3 DEF RowsIn

\* A commit leaves one row for every object of its patch, and names them all.
LEMMA CommitLeaves ==
    ASSUME TypeOK, HeadIsLast, ThreadsOk, VerdictsOk, NEW t \in Threads, Commit(t)
    PROVE  Result(req'[t]).revisions = RowsIn(hist', req[t].id)
<1> DEFINE T == Touched(req[t].patch)
           named == {<<o, head[o].rev + 1>> : o \in T}
<1>1. hist' = hist \cup NewRows(t)
  BY CommitWrites
<1>2. RowsIn(hist, req[t].id) = {}
  BY DEF VerdictsOk, Judged, Commit, RowsOf
<1>3. {x \in hist : x.id = req[t].id} = {}
  BY <1>2 DEF RowsIn
<1>4. \A x \in NewRows(t) : x.id = req[t].id
  BY NewRowCarries
<1>5. {x \in hist' : x.id = req[t].id} = NewRows(t)
  BY <1>1, <1>3, <1>4
<1>6. {<<x.object, x.rev>> : x \in NewRows(t)} = named
  <2>1. \A o \in T : NewRow(t, o).object = o /\ NewRow(t, o).rev = head[o].rev + 1
    BY DEF NewRow
  <2>2. NewRows(t) = {NewRow(t, o) : o \in T}
    BY DEF NewRows
  <2> QED
    BY <2>1, <2>2
<1>7. /\ req'[t].verdict = "committed" /\ req'[t].patch = req[t].patch
      /\ req'[t].base = req[t].base
  BY CommitMoves DEF Kin
<1>8. \A o \in T : req[t].base[o] = head[o]
  BY CommitFacts
<1>9. Touched(req'[t].patch) = T
  BY <1>7
<1>10. Result(req'[t]).revisions = {<<o, req[t].base[o].rev + 1>> : o \in T}
  BY <1>7, <1>9 DEF Result
<1>11. {<<o, req[t].base[o].rev + 1>> : o \in T} = named
  BY <1>8
<1> QED
  BY <1>5, <1>6, <1>10, <1>11 DEF RowsIn

\* What VerdictsOk says of one thread after the step.
VerdictOkNext(u) ==
    /\ req'[u].pc \in ToRead \cup Judged =>
         RowsIn(hist', req'[u].id) = {} /\ \A v \in ledger' : v.id # req'[u].id
    /\ req'[u].pc \in {"record", "audit"} =>
         /\ req'[u].verdict \in {"committed", "rejected"}
         /\ Result(req'[u]).revisions = RowsIn(hist', req'[u].id)
    /\ req'[u].pc = "audit" => Result(req'[u]) \in ledger'

\* A thread that did not move, or that is judged further.
LEMMA VerdictKept ==
    ASSUME TypeOK, HeadIsLast, ThreadsOk, IdsOk, VerdictsOk, [Next]_vars,
           NEW u \in Threads, req[u].pc # "idle", req'[u].id = req[u].id,
           ~Commit(u), ~RecordProposal(u),
           \/ req'[u] = req[u]
           \/ /\ req[u].pc \in ToRead \cup Judged
              /\ req'[u].pc \in ToRead \cup Judged \/ Rejected(u)
    PROVE  VerdictOkNext(u)
<1>1. \A t \in Threads : Commit(t) \/ RecordProposal(t) => req[t].id # req[u].id
  BY DEF IdsOk, Commit, RecordProposal
<1>2. RowsIn(hist', req[u].id) = RowsIn(hist, req[u].id)
  BY <1>1, RowsStay
<1>3. \A t \in Threads : Result(req[t]).id = req[t].id
  BY DEF Result
<1>4. \A v \in ledger' : v.id = req[u].id => v \in ledger
  BY <1>1, <1>3, RecordsCarry
<1>5. ledger \subseteq ledger'
  BY RecordsCarry
<1>6. CASE req'[u] = req[u]
  BY <1>2, <1>4, <1>5, <1>6 DEF VerdictsOk, VerdictOkNext, RowsOf
<1>7. CASE req[u].pc \in ToRead \cup Judged /\ req'[u].pc \in ToRead \cup Judged
  BY <1>2, <1>4, <1>7 DEF VerdictsOk, VerdictOkNext, RowsOf, ToRead, Judged
<1>8. CASE req[u].pc \in ToRead \cup Judged /\ Rejected(u)
  <2>1. Result(req'[u]).revisions = {}
    BY <1>8 DEF Result, Rejected
  <2>2. RowsIn(hist, req[u].id) = {}
    BY <1>8 DEF VerdictsOk, RowsOf
  <2> QED
    BY <1>2, <1>8, <2>1, <2>2 DEF VerdictOkNext, Rejected, ToRead, Judged
<1> QED
  BY <1>6, <1>7, <1>8

LEMMA VerdictsStep ==
    ASSUME TypeOK, HeadIsLast, ThreadsOk, IdsOk, VerdictsOk, [Next]_vars
    PROVE  VerdictsOk'
<1>0. SUFFICES \A u \in Threads : VerdictOkNext(u)
  BY DEF VerdictsOk, VerdictOkNext, RowsOf, RowsIn, Result, Touched
<1>i. ASSUME NEW u \in Threads, req'[u].pc = "idle" PROVE VerdictOkNext(u)
  BY <1>i DEF VerdictOkNext, ToRead, Judged
<1>b. ASSUME NEW u \in Threads, req'[u] = req[u] PROVE VerdictOkNext(u)
  <2>1. req'[u] = req[u]
    BY <1>b
  <2>2. CASE req[u].pc = "idle"
    BY <1>i, <2>1, <2>2
  <2>3. CASE req[u].pc # "idle"
    <3>1. ~Commit(u) /\ ~RecordProposal(u)
      <4>1. CASE Commit(u) \/ RecordProposal(u)
        <5>1. Kin(u) /\ req'[u].pc # req[u].pc
          BY <4>1, CommitMoves, RecordMoves DEF Commit, RecordProposal
        <5> QED
          BY <2>1, <5>1
      <4> QED
        BY <4>1
    <3> QED
      BY <2>1, <2>3, <3>1, VerdictKept
  <2> QED
    BY <2>2, <2>3
<1>1. ASSUME NEW t \in Threads, NEW p \in Principals, NEW patch \in Patches,
             NEW seen \in [Touched(patch) -> 0 .. asked + MaxAhead], Propose(t, p, patch, seen)
      PROVE  \A u \in Threads : VerdictOkNext(u)
  <2>1. /\ Submitted(p, patch, seen).id = asked + 1
        /\ Submitted(p, patch, seen).pc = "territory"
    BY DEF Submitted
  <2>2. /\ Others(t) /\ req'[t].id = asked + 1 /\ req'[t].pc = "territory"
        /\ hist' = hist /\ ledger' = ledger /\ asked \in Nat
    BY <1>1, <2>1, ProposeMoves DEF Moved, Propose, TypeOK
  <2>3. \A r \in hist : r.id # asked + 1
    BY <2>2 DEF IdsOk
  <2>4. \A v \in ledger : v.id # asked + 1
    BY <2>2 DEF IdsOk
  <2>5. RowsIn(hist', req'[t].id) = {}
    BY <2>2, <2>3 DEF RowsIn
  <2>6. VerdictOkNext(t)
    BY <2>2, <2>4, <2>5 DEF VerdictOkNext
  <2> QED
    BY <1>b, <2>2, <2>6 DEF Others
<1>2. ASSUME NEW t \in Threads, Territory(t)
      PROVE  \A u \in Threads : VerdictOkNext(u)
  <2>1. /\ Others(t) /\ req[t].pc \in ToRead \cup Judged /\ ~Commit(t) /\ ~RecordProposal(t)
        /\ req'[t].id = req[t].id
        /\ req'[t].pc \in ToRead \cup Judged \/ Rejected(t)
    BY <1>2, TerritoryMoves
    DEF Moved, Territory, Commit, RecordProposal, ToRead, Judged, Rejected, Kin
  <2>2. VerdictOkNext(t)
    BY <2>1, VerdictKept DEF ToRead, Judged
  <2> QED
    BY <1>b, <2>1, <2>2 DEF Others
<1>3. ASSUME NEW t \in Threads, NEW o \in Objects, ReadBase(t, o)
      PROVE  \A u \in Threads : VerdictOkNext(u)
  <2>1. /\ Others(t) /\ req[t].pc \in ToRead \cup Judged /\ ~Commit(t) /\ ~RecordProposal(t)
        /\ req'[t].id = req[t].id
        /\ req'[t].pc \in ToRead \cup Judged \/ Rejected(t)
    BY <1>3, ReadMoves
    DEF Moved, ReadBase, Commit, RecordProposal, ToRead, Judged, Rejected, Kin
  <2>2. VerdictOkNext(t)
    BY <2>1, VerdictKept DEF ToRead, Judged
  <2> QED
    BY <1>b, <2>1, <2>2 DEF Others
<1>4. ASSUME NEW t \in Threads, Weigh(t)
      PROVE  \A u \in Threads : VerdictOkNext(u)
  <2>1. /\ Others(t) /\ req[t].pc \in ToRead \cup Judged /\ ~Commit(t) /\ ~RecordProposal(t)
        /\ req'[t].id = req[t].id
        /\ req'[t].pc \in ToRead \cup Judged \/ Rejected(t)
    BY <1>4, WeighMoves
    DEF Moved, Weigh, Commit, RecordProposal, ToRead, Judged, Rejected, Kin
  <2>2. VerdictOkNext(t)
    BY <2>1, VerdictKept DEF ToRead, Judged
  <2> QED
    BY <1>b, <2>1, <2>2 DEF Others
<1>5. ASSUME NEW t \in Threads, NEW o \in Objects, Gate(t, o)
      PROVE  \A u \in Threads : VerdictOkNext(u)
  <2>1. /\ Others(t) /\ req[t].pc \in ToRead \cup Judged /\ ~Commit(t) /\ ~RecordProposal(t)
        /\ req'[t].id = req[t].id
        /\ req'[t].pc \in ToRead \cup Judged \/ Rejected(t)
    BY <1>5, GateMoves
    DEF Moved, Gate, Commit, RecordProposal, ToRead, Judged, Rejected, Kin
  <2>2. VerdictOkNext(t)
    BY <2>1, VerdictKept DEF ToRead, Judged
  <2> QED
    BY <1>b, <2>1, <2>2 DEF Others
<1>6. ASSUME NEW t \in Threads, Commit(t)
      PROVE  \A u \in Threads : VerdictOkNext(u)
  <2>1. /\ Others(t) /\ req'[t].id = req[t].id /\ req'[t].pc = "record"
        /\ req'[t].verdict = "committed"
    BY <1>6, CommitMoves DEF Moved, Kin
  <2>2. Result(req'[t]).revisions = RowsIn(hist', req[t].id)
    BY <1>6, CommitLeaves
  <2>3. VerdictOkNext(t)
    BY <2>1, <2>2 DEF VerdictOkNext, ToRead, Judged
  <2> QED
    BY <1>b, <2>1, <2>3 DEF Others
<1>7. ASSUME NEW t \in Threads, RecordProposal(t)
      PROVE  \A u \in Threads : VerdictOkNext(u)
  <2>1. /\ Others(t) /\ Kin(t) /\ req'[t].pc = "audit"
        /\ req'[t].base = req[t].base /\ req'[t].verdict = req[t].verdict
    BY <1>7, RecordMoves DEF Moved
  <2>2. req[t].pc = "record" /\ hist' = hist /\ Result(req[t]) \in ledger'
    BY <1>7 DEF RecordProposal
  <2>3. Result(req'[t]) = Result(req[t])
    BY <2>1 DEF Result, Kin
  <2>4. VerdictOkNext(t)
    BY <2>1, <2>2, <2>3 DEF VerdictOkNext, VerdictsOk, RowsOf, Kin, ToRead, Judged
  <2> QED
    BY <1>b, <2>1, <2>4 DEF Others
<1>8. ASSUME NEW t \in Threads, CommitRefused(t) \/ Audit(t)
      PROVE  \A u \in Threads : VerdictOkNext(u)
  <2>1. Others(t) /\ req'[t].pc = "idle"
    BY <1>8, EndMoves DEF CommitRefused, Audit, Moved, Idle
  <2> QED
    BY <1>b, <1>i, <2>1 DEF Others
<1>9. CASE (\E p \in Principals, S \in SUBSET Objects : Grant(p, S)) \/ UNCHANGED vars
  BY <1>9, <1>b DEF Grant, vars
<1>10. CASE Crash
  BY <1>10, <1>i DEF Crash, Idle
<1> QED
  BY <1>1, <1>2, <1>3, <1>4, <1>5, <1>6, <1>7, <1>8, <1>9, <1>10 DEF Next

\* A verdict told is never overtaken: the rows of a decided proposal are final.
LEMMA VerdictsTrueStep ==
    ASSUME TypeOK, HeadIsLast, ThreadsOk, VerdictsOk, VerdictsTrue, [Next]_vars
    PROVE  VerdictsTrue'
<1>1. ledger \subseteq ledger'
  BY RecordsCarry
<1>2. chain' \subseteq ledger'
  <2>1. chain' = chain \/ \E t \in Threads : Audit(t)
    BY DEF Next, Propose, Territory, Weigh, Commit, CommitRefused, RecordProposal,
           ReadBase, Gate, Grant, Crash, vars
  <2>2. ASSUME NEW t \in Threads, Audit(t) PROVE chain' \subseteq ledger
    BY <2>2 DEF Audit, VerdictsOk, VerdictsTrue
  <2> QED
    BY <1>1, <2>1, <2>2 DEF VerdictsTrue
<1>3. ASSUME NEW v \in ledger' PROVE v.revisions = RowsIn(hist', v.id)
  <2>1. CASE v \in ledger
    <3>1. \A t \in Threads : Commit(t) => req[t].id # v.id
      BY <2>1 DEF VerdictsOk, Commit, Judged
    <3>2. v.revisions = RowsIn(hist, v.id)
      BY <2>1 DEF VerdictsTrue, RowsIn
    <3> QED
      BY <3>1, <3>2, RowsStay
  <2>2. ASSUME NEW t \in Threads, RecordProposal(t), v = Result(req[t])
        PROVE  v.revisions = RowsIn(hist', v.id)
    <3>1. hist' = hist /\ req[t].pc = "record" /\ v.id = req[t].id
      BY <2>2 DEF RecordProposal, Result
    <3> QED
      BY <2>2, <3>1 DEF VerdictsOk, RowsOf
  <2> QED
    BY <2>1, <2>2, RecordsCarry
<1> QED
  BY <1>2, <1>3 DEF VerdictsTrue, RowsIn

\* Who writes was let in, and whoever was let in stays let in.
LEMMA TerritoryStep ==
    ASSUME TypeOK, HeadIsLast, ThreadsOk, Granted, TerritoryKept, OwnerKept,
           RowsByPrincipals, [Next]_vars
    PROVE  Granted' /\ TerritoryKept' /\ OwnerKept' /\ RowsByPrincipals'
<1>1. Granted'
  <2>1. ASSUME NEW p \in Principals, NEW S \in SUBSET Objects, Grant(p, S)
        PROVE  Granted'
    BY <2>1 DEF Grant, Granted, TypeOK
  <2>2. CASE \A p \in Principals, S \in SUBSET Objects : ~Grant(p, S)
    <3>1. grant' = grant /\ granted' = granted
      BY <2>2 DEF Next, Propose, Territory, Weigh, Commit, CommitRefused,
                  RecordProposal, Audit, ReadBase, Gate, Crash, vars
    <3> QED
      BY <3>1 DEF Granted
  <2> QED
    BY <2>1, <2>2
<1>2. ASSUME NEW t \in Threads, Commit(t), NEW r \in NewRows(t)
      PROVE  /\ r.by \in Principals /\ owner # Nobody
             /\ \/ r.by = owner
                \/ r.object \in granted[r.by]
                \/ <<r.id, r.object>> \in skipped /\ r.rev > 1
  <2> DEFINE o == r.object
  <2>1. /\ r.by = req[t].who /\ r.id = req[t].id /\ o \in Touched(req[t].patch)
        /\ r.rev = head[o].rev + 1
    BY NewRowCarries
  <2>2. JudgedOk(req[t]) /\ req[t].pc = "commit"
    BY <1>2 DEF ThreadsOk, Commit
  <2>3. Fresh(req[t], o, head[o]) /\ head[o].rev \in Nat
    BY <1>2, <2>1, <2>2, CommitFacts DEF JudgedOk, Judged, TypeOK, Version
  <2>4. ~req[t].patch[o].create => r.rev > 1
    BY <2>1, <2>3 DEF Fresh
  <2> QED
    BY <2>1, <2>2, <2>4 DEF JudgedOk, Judged
<1>3. /\ owner # Nobody => owner' = owner
      /\ \A p \in Principals : granted[p] \subseteq granted'[p]
      /\ skipped \subseteq skipped'
  BY Settled
<1>4. \A r \in hist' : r \in hist \/ \E t \in Threads : Commit(t) /\ r \in NewRows(t)
  BY RecordsCarry
<1>5. \A r \in hist' : r.by \in Principals /\ owner # Nobody
  BY <1>2, <1>4 DEF RowsByPrincipals, OwnerKept
<1>6. \A r \in hist' : \/ r.by = owner
                       \/ r.object \in granted[r.by]
                       \/ <<r.id, r.object>> \in skipped /\ r.rev > 1
  BY <1>2, <1>4 DEF TerritoryKept
<1> QED
  BY <1>1, <1>3, <1>5, <1>6 DEF TerritoryKept, OwnerKept, RowsByPrincipals

-----------------------------------------------------------------------------
(* The invariant, and what follows from it. *)

LEMMA InitIInv == Init => IInv
<1> SUFFICES ASSUME Init PROVE IInv
  OBVIOUS
<1>1. \A t \in Threads : req[t] = Idle
  BY DEF Init
<1>2. Idle.pc = "idle" /\ \A o \in Objects : Idle.base[o] = Absent
  BY DEF Idle
<1>3. \A o \in Objects : head[o] = Absent /\ Absent \in Version
  BY DEF Init, Absent, Version
<1>4. TypeOK
  BY <1>3, IdleTyped DEF Init, TypeOK
<1>5. HeadIsLast
  BY <1>3 DEF Init, HeadIsLast, Absent
<1>6. ThreadsOk
  <2>1. ASSUME NEW t \in Threads PROVE BaseOk(req[t])
    BY <1>1, <1>2, <1>3, <1>5, NothingRead DEF BaseOk, HeadIsLast
  <2>2. ASSUME NEW t \in Threads PROVE JudgedOk(req[t])
    BY <1>1, <1>2 DEF JudgedOk, ToRead, Judged
  <2> QED
    BY <2>1, <2>2 DEF ThreadsOk
<1>7. IdsOk /\ VerdictsOk /\ VerdictsTrue
  BY <1>1, <1>2 DEF Init, IdsOk, VerdictsOk, VerdictsTrue, ToRead, Judged
<1>8. WallsHold /\ Granted /\ TerritoryKept /\ OwnerKept /\ RowsByPrincipals
  BY DEF Init, WallsHold, Granted, TerritoryKept, OwnerKept, RowsByPrincipals
<1> QED
  BY <1>4, <1>5, <1>6, <1>7, <1>8 DEF IInv

LEMMA IInvStep == IInv /\ [Next]_vars => IInv'
<1> SUFFICES ASSUME IInv, [Next]_vars PROVE IInv'
  OBVIOUS
<1>1. TypeOK'
  BY TypeStep DEF IInv
<1>2. HeadIsLast' /\ WallsHold'
  BY HeadStep DEF IInv
<1>3. ThreadsOk'
  BY ThreadsStep DEF IInv
<1>4. IdsOk'
  BY IdsStep DEF IInv
<1>5. VerdictsOk'
  BY VerdictsStep DEF IInv
<1>6. VerdictsTrue'
  BY VerdictsTrueStep DEF IInv
<1>7. Granted' /\ TerritoryKept' /\ OwnerKept' /\ RowsByPrincipals'
  BY TerritoryStep DEF IInv
<1> QED
  BY <1>1, <1>2, <1>3, <1>4, <1>5, <1>6, <1>7 DEF IInv

LEMMA IInvAlways == Spec => []IInv
  BY InitIInv, IInvStep, PTL DEF Spec

\* The state of the kernel and its store stays well formed.
THEOREM TypeCorrect == Spec => []TypeOK
<1>1. IInv => TypeOK
  BY DEF IInv
<1> QED
  BY <1>1, IInvAlways, PTL

\* No revision that fails a hard constraint of its object is ever committed,
\* however many proposals race on however many threads.
THEOREM WallsAlwaysHold == Spec => []WallsHold
<1>1. IInv => WallsHold
  BY DEF IInv
<1> QED
  BY <1>1, IInvAlways, PTL

\* Whoever changed an object owned the project or had been granted the object,
\* unless the object came after the territory of the change was checked.
THEOREM TerritoryIsKept == Spec => []TerritoryKept
<1>1. IInv => TerritoryKept
  BY DEF IInv
<1> QED
  BY <1>1, IInvAlways, PTL

\* Verdicts recorded and audited say exactly what the proposal left in the
\* history.
THEOREM VerdictsAreTrue == Spec => []VerdictsTrue
<1>1. IInv => VerdictsTrue
  BY DEF IInv
<1> QED
  BY <1>1, IInvAlways, PTL

-----------------------------------------------------------------------------
(* The refinement: a commit is a change of the ledger of truth. *)

Entry(r) == [object |-> r.object, rev |-> r.rev, body |-> r.body, from |-> r.from]

LEMMA CommitChanges ==
    ASSUME TypeOK, HeadIsLast, ThreadsOk, NEW t \in Threads, Commit(t)
    PROVE  Truth!Next
<1> DEFINE T == Touched(req[t].patch)
           record == {Entry(r) : r \in hist}
           added == {[object |-> o, rev |-> head'[o].rev, body |-> head'[o].body,
                      from |-> head[o].body] : o \in T}
<1>1. T \in (SUBSET Objects) \ {{}}
  BY DEF ThreadsOk, JudgedOk, Judged, Commit, Touched
<1>2. /\ \A o \in T : head'[o].rev = head[o].rev + 1 /\ head'[o].body \in Bodies
      /\ \A o \in Objects \ T : head'[o] = head[o]
      /\ hist' = hist \cup NewRows(t)
  BY CommitWrites
<1>3. \A o \in T : Entry(NewRow(t, o)) =
        [object |-> o, rev |-> head'[o].rev, body |-> head'[o].body,
         from |-> head[o].body]
  BY CommitWrites DEF NewRow, Entry
<1>4. {Entry(r) : r \in NewRows(t)} = added
  <2>1. NewRows(t) = {NewRow(t, o) : o \in T}
    BY DEF NewRows
  <2> QED
    BY <1>3, <2>1
<1>5. {Entry(r) : r \in hist'} = record \cup added
  BY <1>2, <1>4
<1>6. {[object |-> r.object, rev |-> r.rev, body |-> r.body, from |-> r.from]
         : r \in hist'} =
      {[object |-> r.object, rev |-> r.rev, body |-> r.body, from |-> r.from]
         : r \in hist} \cup added
  BY <1>5 DEF Entry
<1> HIDE DEF T, record, added
<1> QED
  BY <1>1, <1>2, <1>6 DEF Truth!Next, Truth!Change, added

\* The kernel implements the ledger of truth for every set of objects and
\* patches: what lands moves whole sets of objects by one revision each, from
\* the bodies they really had.
THEOREM KernelImplementsTruth == Spec => TruthSpec
<1> DEFINE record == {[object |-> r.object, rev |-> r.rev, body |-> r.body,
                       from |-> r.from] : r \in hist}
<1>1. Init => Truth!Init
  BY DEF Init, Truth!Init, Absent
<1>2. IInv /\ [Next]_vars => [Truth!Next]_<<head, record>>
  <2> SUFFICES ASSUME IInv, [Next]_vars PROVE [Truth!Next]_<<head, record>>
    OBVIOUS
  <2>1. CASE \A t \in Threads : ~Commit(t)
    <3>1. head' = head /\ hist' = hist
      BY <2>1, OnlyCommits
    <3> QED
      BY <3>1
  <2>2. CASE \E t \in Threads : Commit(t)
    BY <2>2, CommitChanges DEF IInv
  <2> QED
    BY <2>1, <2>2
<1> QED
  BY <1>1, <1>2, IInvAlways, PTL DEF Spec, TruthSpec, Truth!Spec
=============================================================================
