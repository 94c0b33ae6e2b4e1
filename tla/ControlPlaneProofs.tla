-------------------------- MODULE ControlPlaneProofs --------------------------
(***************************************************************************)
(* What ControlPlane keeps for any number of workers, threads, leases,     *)
(* keys, capacities and faults.                                            *)
(***************************************************************************)
EXTENDS ControlPlane, FiniteSetTheorems, SequenceTheorems, TLAPS

CallPhases == {"idle", "append", "count", "raise", "post", "wait", "report", "finish"}
ServePhases == {"free", "ask", "consume", "run", "done", "refused", "report"}
ReportPhases == {"none", "lower", "fail", "judge", "done"}
LeaseType == [worker : Workers \cup {None}, key : Keys \cup {None}]
CallType == [pc : CallPhases, key : Keys \cup {None}, worker : Workers \cup {None},
             lease : 0 .. MaxLeases, ok : BOOLEAN, seen : Nat]
ServeType == [pc : ServePhases, lease : 0 .. MaxLeases]
ReportType == [pc : ReportPhases, ok : BOOLEAN, seen : Nat]

Issued == {l \in Leases : lease[l].worker # None}
Begun == {l \in Leases : report[l].pc # "none"}
Holds(c) == call[c].pc \notin {"idle", "append"}
Serves(s) == serve[s].pc # "free"

\* What a thread that dispatches holds: a worker able to do its work, and from the moment
\* its assignment is queued a lease of that worker which no other thread holds.
CallsHold ==
    \A c \in Callers :
        /\ call[c].pc # "idle" => call[c].worker \in Capable(c)
        /\ call[c].pc \in {"post", "wait", "report", "finish"} => c \in Posting
        /\ call[c].pc # "idle" /\ c \in Posting => call[c].key \in Keys
        /\ Holds(c) => /\ call[c].lease \in Issued
                       /\ lease[call[c].lease].worker = call[c].worker
                       /\ call[c].pc \in {"count", "raise"} <=> call[c].lease \notin counted
CallsApart ==
    \A c, d \in Callers :
        c # d /\ Holds(c) /\ Holds(d) => call[c].lease # call[d].lease

\* What a server holds: a lease of its own worker.
ServersHold ==
    \A s \in Servers :
        /\ Serves(s) => serve[s].lease \in Issued /\ lease[serve[s].lease].worker = Host[s]
        /\ Host[s] \notin Polled => serve[s].pc \notin {"done", "refused", "report"}

\* Whatever is said of a lease is said of one that was issued.
LeasesKnown ==
    /\ counted \cup Begun \cup posted \cup stopped \subseteq Issued
    /\ \A l \in Leases : l \notin Issued => lease[l] = NoLease /\ ran[l] = 0
    /\ \A w \in Workers : \A i \in 1 .. Len(pending[w]) :
          pending[w][i] \in Issued /\ lease[pending[w][i]].worker = w

\* What was run and is not forgotten is consumed; what was stopped is revoked, and no
\* server passed it.
RunsOnce ==
    \A l \in Leases :
        /\ ran[l] <= forgot[l] + (IF l \in consumed THEN 1 ELSE 0)
        /\ l \in stopped => ran[l] = 0 /\ l \in revoked /\ ~InHand(l)

\* A lease is in one place and the report of its result has not begun: in the hands of the
\* thread that posted it, or in its polled worker's queue, or in one of its servers.
ReportedOnce ==
    /\ \A c \in Posting : Holds(c) /\ call[c].pc # "finish" => call[c].lease \notin Begun
    /\ \A w \in Polled : \A i, j \in 1 .. Len(pending[w]) :
          /\ pending[w][i] \notin Begun
          /\ i # j => pending[w][i] # pending[w][j]
    /\ \A s \in Servers : Host[s] \in Polled /\ Serves(s) =>
          /\ serve[s].pc # "report" => serve[s].lease \notin Begun
          /\ \A i \in 1 .. Len(pending[Host[s]]) : pending[Host[s]][i] # serve[s].lease
          /\ \A u \in Servers : u # s /\ Serves(u) => serve[u].lease # serve[s].lease

\* The threads on their way to raise a worker's load, and those that may come to be.
Coming(w)  == {c \in Callers : /\ call[c].pc \in {"append", "count", "raise"}
                               /\ call[c].worker = w}
Reaching(w) == {c \in Callers : w \in Capable(c)}

LoadsPromised ==
    \A w \in Workers :
        /\ load[w] + raisesLost[w] + Cardinality(EarlyReported(w)) >= Cardinality(Unfinished(w))
        /\ load[w] + Cardinality(Coming(w)) < Capacity + Cardinality(Reaching(w)) + dropsLost[w]

IInv ==
    /\ TypeOK
    /\ CallsHold /\ CallsApart
    /\ ServersHold
    /\ LeasesKnown
    /\ RunsOnce
    /\ ReportedOnce
    /\ LoadsPromised
-----------------------------------------------------------------------------
(* How a thread that dispatches moves. *)

USE WorkersAssumption, NumbersAssumption

LEMMA NoneTyped ==
    /\ NoCall \in CallType /\ Free \in ServeType /\ NoLease \in LeaseType
    /\ NoReport \in ReportType
    /\ None \notin Workers /\ None \notin Keys
<1>1. None \notin Workers /\ None \notin Keys
  OBVIOUS
<1>2. 0 \in 0 .. MaxLeases
  OBVIOUS
<1> QED
  BY <1>1, <1>2 DEF NoCall, Free, NoLease, NoReport, CallType, ServeType, LeaseType, ReportType,
     CallPhases, ServePhases, ReportPhases

\* The threads and the servers, as TypeOK types them.
LEMMA ActorsTyped ==
    ASSUME TypeOK
    PROVE  /\ call \in [Callers -> CallType] /\ serve \in [Servers -> ServeType]
           /\ lease \in [Leases -> LeaseType] /\ report \in [Leases -> ReportType]
BY DEF TypeOK, CallType, CallPhases, ServeType, ServePhases, LeaseType, ReportType, ReportPhases

LEMMA CapableIsRegistered == \A c : Capable(c) \subseteq Workers
BY DEF Capable

\* Every action of a thread moves that thread alone: to a worker it chose, to a lease of
\* that worker, to a later phase of the same dispatch, or back to rest.
Chooses(c) ==
    /\ call[c].pc = "idle" /\ call'[c].pc = "append"
    /\ call'[c].worker \in Eligible(c)
    /\ c \in Posting => call'[c].key \in Keys
Signs(c) ==
    /\ call[c].pc = "append" /\ call'[c].pc = "count"
    /\ call'[c].worker = call[c].worker /\ call'[c].key = call[c].key
    /\ call'[c].lease \in Leases
Advances(c, from, to) ==
    /\ call[c].pc = from /\ call'[c].pc = to
    /\ call'[c].worker = call[c].worker /\ call'[c].key = call[c].key
    /\ call'[c].lease = call[c].lease
Rests(c, from) == call[c].pc = from /\ call'[c] = NoCall
OthersWait(c) == call' \in [Callers -> CallType] /\ \A d \in Callers \ {c} : call'[d] = call[d]

LEMMA CallsMove ==
    ASSUME TypeOK, CallsHold, NEW c \in Callers
    PROVE  /\ Select(c) => OthersWait(c) /\ Chooses(c)
           /\ AppendAssignment(c) => OthersWait(c) /\ Signs(c)
           /\ Count(c) => OthersWait(c) /\ Advances(c, "count", "raise")
           /\ Raise(c) => OthersWait(c) /\ IF c \in Posting THEN Advances(c, "raise", "post")
                                                           ELSE Rests(c, "raise")
           /\ Post(c) => OthersWait(c) /\ Advances(c, "post", "wait")
           /\ Hear(c) \/ TimeOut(c) => OthersWait(c) /\ Advances(c, "wait", "report")
           /\ CallerReports(c) => OthersWait(c) /\ Advances(c, "report", "finish")
           /\ Finish(c) => OthersWait(c) /\ Rests(c, "finish")
<1> USE ActorsTyped, NoneTyped DEF OthersWait, CallAt
<1>1. ASSUME Select(c) PROVE OthersWait(c) /\ Chooses(c)
  <2>1. PICK k \in (IF c \in Posting THEN Keys \ completed ELSE {None}), w \in Eligible(c) :
           call' = [call EXCEPT ![c] = [pc |-> "append", key |-> k, worker |-> w,
                                        lease |-> 0, ok |-> FALSE, seen |-> 0]]
    BY <1>1 DEF Select
  <2>2. w \in Workers /\ k \in Keys \cup {None} /\ (c \in Posting => k \in Keys)
    BY CapableIsRegistered DEF Eligible
  <2> DEFINE r == [pc |-> "append", key |-> k, worker |-> w, lease |-> 0, ok |-> FALSE,
                   seen |-> 0]
  <2>3. r \in CallType /\ r.pc = "append" /\ r.worker = w /\ r.key = k
    BY <2>2 DEF CallType, CallPhases
  <2>4. call' = [call EXCEPT ![c] = r]
    BY <2>1
  <2> HIDE DEF r
  <2> QED
    BY <1>1, <2>2, <2>3, <2>4 DEF Chooses, Select
<1>2. ASSUME AppendAssignment(c) PROVE OthersWait(c) /\ Signs(c)
  <2>1. PICK l \in Leases : call' = [call EXCEPT ![c].pc = "count", ![c].lease = l]
    BY <1>2 DEF AppendAssignment
  <2>2. l \in 0 .. MaxLeases
    BY DEF Leases
  <2> QED
    BY <1>2, <2>1, <2>2 DEF Signs, AppendAssignment, CallType, CallPhases
<1>3. ASSUME Count(c) PROVE OthersWait(c) /\ Advances(c, "count", "raise")
  <2>1. load[call[c].worker] \in Nat
    BY <1>3, CapableIsRegistered DEF Count, CallsHold, TypeOK
  <2>2. PICK n \in Nat : call' = [call EXCEPT ![c].pc = "raise", ![c].seen = n]
    BY <1>3, <2>1 DEF Count
  <2> DEFINE r == [call[c] EXCEPT !.pc = "raise", !.seen = n]
  <2>3. /\ r \in CallType /\ r.pc = "raise"
        /\ r.worker = call[c].worker /\ r.key = call[c].key /\ r.lease = call[c].lease
    BY DEF CallType, CallPhases
  <2>4. call' = [call EXCEPT ![c] = r]
    BY <2>2
  <2> HIDE DEF r
  <2> QED
    BY <1>3, <2>3, <2>4 DEF Count, Advances
<1>8. ASSUME Raise(c) PROVE OthersWait(c) /\ IF c \in Posting THEN Advances(c, "raise", "post")
                                                           ELSE Rests(c, "raise")
  BY <1>8 DEF Raise, CallEnds, Advances, Rests, CallType, CallPhases
<1>4. ASSUME Post(c) PROVE OthersWait(c) /\ Advances(c, "post", "wait")
  BY <1>4 DEF Post, CallGoes, Advances, CallType, CallPhases
<1>5. ASSUME Hear(c) \/ TimeOut(c) PROVE OthersWait(c) /\ Advances(c, "wait", "report")
  <2>1. PICK b \in BOOLEAN : call' = [call EXCEPT ![c].pc = "report", ![c].ok = b]
    BY <1>5 DEF Hear, TimeOut
  <2> QED
    BY <1>5, <2>1 DEF Hear, TimeOut, Advances, CallType, CallPhases
<1>6. ASSUME CallerReports(c) PROVE OthersWait(c) /\ Advances(c, "report", "finish")
  BY <1>6 DEF CallerReports, CallGoes, Advances, CallType, CallPhases
<1>7. ASSUME Finish(c) PROVE OthersWait(c) /\ Rests(c, "finish")
  BY <1>7 DEF Finish, CallEnds, Rests, CallType, CallPhases
<1> QED
  BY <1>1, <1>2, <1>3, <1>4, <1>5, <1>6, <1>7, <1>8

\* Every action of a server moves that server alone: it takes a lease, goes on with the
\* one it has, or is free.
Takes(s, l) == serve[s].pc = "free" /\ serve'[s].pc # "free" /\ serve'[s].lease = l
Serving(s, pcs) == serve'[s].pc \in pcs /\ serve'[s].lease = serve[s].lease
Frees(s) == serve'[s].pc = "free"
OthersServe(s) ==
    serve' \in [Servers -> ServeType] /\ \A u \in Servers \ {s} : serve'[u] = serve[u]

LEMMA ServersMove ==
    ASSUME TypeOK, NEW s \in Servers
    PROVE  /\ \A a \in {"ok", "bad"} : Answers(s, a) =>
                 /\ OthersServe(s)
                 /\ Frees(s) \/ (Host[s] \in Polled /\ Serving(s, {"done", "refused"}))
           /\ Arrive(s) => \/ serve' = serve
                           \/ \E l \in posted : /\ OthersServe(s) /\ Takes(s, l)
                                                /\ Addressed(s, l) /\ serve'[s].pc = "ask"
           /\ Poll(s) => \/ serve' = serve
                         \/ /\ OthersServe(s) /\ Takes(s, Head(pending[Host[s]]))
                            /\ serve'[s].pc \in {"ask", "refused"}
           /\ \A pc \in ServePhases : ServerGoes(s, pc) => OthersServe(s) /\ Serving(s, {pc})
           /\ serve' = [serve EXCEPT ![s] = Free] => OthersServe(s) /\ Frees(s)
           /\ RunEnds(s) => /\ OthersServe(s)
                            /\ Frees(s) \/ (Host[s] \in Polled /\ Serving(s, {"done", "refused"}))
           /\ AgentReports(s) => OthersServe(s) /\ Serving(s, {"report"})
           /\ AgentReturns(s) => OthersServe(s) /\ Frees(s)
<1> USE ActorsTyped, NoneTyped DEF OthersServe, ServerAt
<1>1. ASSUME NEW pc \in ServePhases, ServerGoes(s, pc) PROVE OthersServe(s) /\ Serving(s, {pc})
  BY <1>1 DEF ServerGoes, Serving, ServeType
<1>2. ASSUME serve' = [serve EXCEPT ![s] = Free] PROVE OthersServe(s) /\ Frees(s)
  BY <1>2 DEF Frees, Free
<1>3. ASSUME NEW a \in {"ok", "bad"}, Answers(s, a)
      PROVE  /\ OthersServe(s)
             /\ Frees(s) \/ (Host[s] \in Polled /\ Serving(s, {"done", "refused"}))
  BY <1>1, <1>2, <1>3 DEF Answers, Serving, ServePhases
<1>4. ASSUME NEW l \in Leases, NEW pc \in ServePhases \ {"free"}, serve[s].pc = "free",
             serve' = [serve EXCEPT ![s] = [pc |-> pc, lease |-> l]]
      PROVE  OthersServe(s) /\ Takes(s, l) /\ serve'[s].pc = pc
  <2> DEFINE r == [pc |-> pc, lease |-> l]
  <2>1. r \in ServeType /\ r.pc = pc /\ r.lease = l
    BY DEF ServeType, Leases
  <2>2. serve' = [serve EXCEPT ![s] = r]
    BY <1>4
  <2> HIDE DEF r
  <2> QED
    BY <1>4, <2>1, <2>2 DEF Takes
<1>5. ASSUME Arrive(s)
      PROVE  \/ serve' = serve
             \/ \E l \in posted : /\ OthersServe(s) /\ Takes(s, l)
                                  /\ Addressed(s, l) /\ serve'[s].pc = "ask"
  <2>1. CASE serve' # serve
    <3>1. PICK l \in posted : /\ Addressed(s, l)
                             /\ serve' = [serve EXCEPT ![s] = [pc |-> "ask", lease |-> l]]
      BY <1>5, <2>1 DEF Arrive
    <3>2. l \in Leases
      BY DEF TypeOK
    <3> QED
      BY <1>4, <1>5, <3>1, <3>2 DEF Arrive, ServePhases
  <2> QED
    BY <2>1
<1>6. ASSUME Poll(s)
      PROVE  \/ serve' = serve
             \/ /\ OthersServe(s) /\ Takes(s, Head(pending[Host[s]]))
                /\ serve'[s].pc \in {"ask", "refused"}
  <2> DEFINE l == Head(pending[Host[s]])
  <2>1. l \in Leases /\ serve[s].pc = "free"
    BY <1>6 DEF Poll, TypeOK
  <2>2. \/ serve' = [serve EXCEPT ![s] = [pc |-> "ask", lease |-> l]]
        \/ serve' = [serve EXCEPT ![s] = [pc |-> "refused", lease |-> l]]
        \/ serve' = serve
    BY <1>6 DEF Poll
  <2> HIDE DEF l
  <2> QED
    BY <1>4, <2>1, <2>2 DEF l, ServePhases
<1>7. ASSUME RunEnds(s)
      PROVE  /\ OthersServe(s)
             /\ Frees(s) \/ (Host[s] \in Polled /\ Serving(s, {"done", "refused"}))
  BY <1>2, <1>3, <1>7 DEF RunEnds
<1>8. ASSUME AgentReports(s) PROVE OthersServe(s) /\ Serving(s, {"report"})
  BY <1>1, <1>8 DEF AgentReports, ServePhases
<1>9. ASSUME AgentReturns(s) PROVE OthersServe(s) /\ Frees(s)
  BY <1>2, <1>9 DEF AgentReturns
<1> QED
  BY <1>1, <1>2, <1>3, <1>5, <1>6, <1>7, <1>8, <1>9

\* A death frees the threads of its worker, none of which an agent's, and makes no
\* execution the plane did not know of possible: what it forgets is counted.
LEMMA Deaths ==
    ASSUME TypeOK, NEW w \in Workers, WorkerDies(w)
    PROVE  /\ serve' \in [Servers -> ServeType]
           /\ \A s \in Servers : serve'[s] = serve[s] \/ (serve'[s] = Free /\ Host[s] \notin Polled)
           /\ consumed' \subseteq Leases /\ forgot' \in [Leases -> Nat]
           /\ \A l \in Leases : forgot'[l] + (IF l \in consumed' THEN 1 ELSE 0)
                                = forgot[l] + (IF l \in consumed THEN 1 ELSE 0)
           /\ faults' \in 0 .. MaxFaults
<1>1. /\ serve' \in [Servers -> ServeType]
      /\ \A s \in Servers : serve'[s] = serve[s] \/ (serve'[s] = Free /\ Host[s] \notin Polled)
  BY ActorsTyped, NoneTyped DEF WorkerDies
<1>2. consumed \subseteq Leases /\ forgot \in [Leases -> Nat] /\ faults \in 0 .. MaxFaults
  BY DEF TypeOK
<1>3. CASE UNCHANGED <<consumed, forgot, faults>>
  BY <1>1, <1>2, <1>3
<1>4. CASE /\ faults' = faults + 1 /\ FewFaults
           /\ consumed' = consumed \ Consumed(w)
           /\ forgot' = [l \in Leases |-> IF l \in Consumed(w) THEN forgot[l] + 1 ELSE forgot[l]]
  <2>1. consumed' \subseteq Leases /\ forgot' \in [Leases -> Nat]
    BY <1>2, <1>4
  <2>2. ASSUME NEW l \in Leases
        PROVE  forgot'[l] + (IF l \in consumed' THEN 1 ELSE 0)
             = forgot[l] + (IF l \in consumed THEN 1 ELSE 0)
    BY <1>2, <1>4 DEF Consumed
  <2>3. faults' \in 0 .. MaxFaults
    <3>1. IsFiniteSet(Workers \ healthy)
      BY FS_Subset DEF TypeOK
    <3>2. Cardinality(Workers \ healthy) \in Nat
      BY <3>1, FS_CardinalityType
    <3> QED
      BY <1>2, <1>4, <3>2 DEF FewFaults
  <2> QED
    BY <1>1, <2>1, <2>2, <2>3
<1> QED
  BY <1>3, <1>4 DEF WorkerDies
-----------------------------------------------------------------------------
(* Types. *)

\* A step of a report moves that report alone.
Says(l, pc) == /\ report' \in [Leases -> ReportType]
               /\ report'[l].pc = pc
               /\ \A m \in Leases \ {l} : report'[m] = report[m]

LEMMA ReportsMove ==
    ASSUME TypeOK, LeasesKnown, NEW l \in Leases
    PROVE  /\ \A ok \in BOOLEAN : l \in Issued /\ ReportRead(l, ok) => Says(l, "lower")
           /\ Lower(l) => /\ report[l].pc = "lower"
                          /\ Says(l, "done") \/ Says(l, "fail")
           /\ Fail(l) => report[l].pc = "fail" /\ Says(l, "judge")
           /\ Judge(l) => report[l].pc = "judge" /\ Says(l, "done")
<1>1. /\ report \in [Leases -> ReportType] /\ lease \in [Leases -> LeaseType]
      /\ load \in [Workers -> Nat] /\ failures \in [Workers -> Nat]
  BY ActorsTyped DEF TypeOK
<1>2. l \in Issued => lease[l].worker \in Workers
  BY <1>1 DEF Issued, LeaseType
<1>3. report[l].pc # "none" => l \in Issued
  BY DEF LeasesKnown, Begun
<1>4. ASSUME NEW pc \in ReportPhases, NEW seen \in Nat, ReportGoes(l, pc, seen) PROVE Says(l, pc)
  <2> DEFINE r == [NoReport EXCEPT !.pc = pc, !.seen = seen]
  <2>1. r \in ReportType /\ r.pc = pc
    BY NoneTyped DEF ReportType, NoReport
  <2>2. report' = [report EXCEPT ![l] = r]
    BY <1>4 DEF ReportGoes
  <2> HIDE DEF r
  <2> QED
    BY <1>1, <2>1, <2>2 DEF Says
<1>5. ASSUME NEW ok \in BOOLEAN, l \in Issued, ReportRead(l, ok) PROVE Says(l, "lower")
  <2> DEFINE r == [pc |-> "lower", ok |-> ok, seen |-> load[lease[l].worker]]
  <2>1. load[lease[l].worker] \in Nat
    BY <1>1, <1>2, <1>5
  <2>2. r \in ReportType /\ r.pc = "lower"
    BY <2>1 DEF ReportType, ReportPhases
  <2>3. report' = [report EXCEPT ![l] = r]
    BY <1>5 DEF ReportRead
  <2> HIDE DEF r
  <2> QED
    BY <1>1, <2>2, <2>3 DEF Says
<1>6. ASSUME Lower(l) PROVE report[l].pc = "lower" /\ (Says(l, "done") \/ Says(l, "fail"))
  <2>1. report[l].pc = "lower" /\ lease[l].worker \in Workers
    BY <1>2, <1>3, <1>6 DEF Lower, ReportAt
  <2>2. failures[lease[l].worker] \in Nat
    BY <1>1, <2>1
  <2>3. ReportGoes(l, "done", 0) \/ ReportGoes(l, "fail", failures[lease[l].worker])
    BY <1>6 DEF Lower
  <2> QED
    BY <1>4, <2>1, <2>2, <2>3 DEF ReportPhases
<1>7. ASSUME Fail(l) PROVE report[l].pc = "fail" /\ Says(l, "judge")
  BY <1>4, <1>7 DEF Fail, ReportAt, ReportPhases
<1>8. ASSUME Judge(l) PROVE report[l].pc = "judge" /\ Says(l, "done")
  BY <1>4, <1>8 DEF Judge, ReportAt, ReportPhases
<1> QED
  BY <1>5, <1>6, <1>7, <1>8

\* A write of a load never undoes less than nothing.
LEMMA LosesTyped ==
    ASSUME TypeOK, NEW w \in Workers, NEW seen \in Nat, Loses(w, seen)
    PROVE  /\ raisesLost' \in [Workers -> Nat] /\ dropsLost' \in [Workers -> Nat]
           /\ raisesLost'[w] = raisesLost[w] + Excess(load[w], seen)
           /\ dropsLost'[w] = dropsLost[w] + Excess(seen, load[w])
           /\ \A v \in Workers \ {w} : raisesLost'[v] = raisesLost[v] /\ dropsLost'[v] = dropsLost[v]
<1>1. \A m, n \in Nat : Excess(m, n) \in Nat
  BY DEF Excess
<1>2. /\ raisesLost \in [Workers -> Nat] /\ dropsLost \in [Workers -> Nat]
      /\ load[w] \in Nat
  BY DEF TypeOK
<1> DEFINE a == raisesLost[w] + Excess(load[w], seen)
           b == dropsLost[w] + Excess(seen, load[w])
<1>3. a \in Nat /\ b \in Nat
  <2>1. /\ Excess(load[w], seen) \in Nat /\ Excess(seen, load[w]) \in Nat
        /\ raisesLost[w] \in Nat /\ dropsLost[w] \in Nat
    BY <1>1, <1>2
  <2> QED
    BY <2>1
<1>4. raisesLost' = [raisesLost EXCEPT ![w] = a] /\ dropsLost' = [dropsLost EXCEPT ![w] = b]
  BY DEF Loses
<1> HIDE DEF a, b
<1>5. /\ raisesLost' \in [Workers -> Nat] /\ dropsLost' \in [Workers -> Nat]
      /\ raisesLost'[w] = a /\ dropsLost'[w] = b
      /\ \A v \in Workers \ {w} : raisesLost'[v] = raisesLost[v] /\ dropsLost'[v] = dropsLost[v]
  BY <1>2, <1>3, <1>4
<1> QED
  BY <1>5 DEF a, b

LEMMA AnswersTyped ==
    ASSUME TypeOK, NEW s \in Servers, NEW a \in {"ok", "bad"}, Answers(s, a)
    PROVE  answer' \in [Leases -> {"none", "ok", "bad"}]
<1>1. answer \in [Leases -> {"none", "ok", "bad"}]
  BY DEF TypeOK
<1>2. CASE UNCHANGED answer
  BY <1>1, <1>2
<1>3. CASE Reply(serve[s].lease, a)
  <2> DEFINE l == serve[s].lease
             v == IF Awaited(l) THEN a ELSE answer[l]
  <2>1. answer' = [answer EXCEPT ![l] = v]
    BY <1>3 DEF Reply
  <2>2. l \in Leases => v \in {"none", "ok", "bad"}
    BY <1>1
  <2> HIDE DEF l, v
  <2> QED
    BY <1>1, <2>1, <2>2
<1> QED
  BY <1>2, <1>3 DEF Answers

LEMMA TypeStep ==
    ASSUME TypeOK, CallsHold, ServersHold, LeasesKnown, [Next]_vars
    PROVE  TypeOK'
<1> USE DEF registry, planeVars, callVars, history
<1> USE DEF CallType, CallPhases, ServeType, ServePhases, LeaseType, ReportType, ReportPhases
<1>1. CASE UNCHANGED vars
  BY <1>1 DEF TypeOK, vars
<1>2. ASSUME NEW c \in Callers, Select(c) \/ CallStep(c) PROVE TypeOK'
  <2>1. call' \in [Callers -> CallType]
    BY <1>2, CallsMove DEF CallStep, OthersWait
  <2>2. /\ call[c].pc \notin {"idle", "append"} => call[c].lease \in Leases
        /\ call[c].pc # "idle" => call[c].worker \in Workers
        /\ call[c].pc \in {"post", "finish"} => call[c].key \in Keys
    BY CapableIsRegistered DEF CallsHold, Holds, Issued
  <2> HIDE DEF CallType
  <2>3. CASE Select(c)
    BY <2>1, <2>3 DEF Select, TypeOK, CallType
  <2>4. CASE AppendAssignment(c)
    <3>1. PICK l \in Leases :
             /\ lease' = [lease EXCEPT ![l] = [worker |-> call[c].worker, key |-> call[c].key]]
             /\ pending' = [pending EXCEPT ![call[c].worker] = Append(pending[call[c].worker], l)]
      BY <2>4 DEF AppendAssignment
    <3>2. call[c].worker \in Workers
      BY <2>2, <2>4 DEF AppendAssignment, CallAt
    <3>3. pending' \in [Workers -> Seq(Leases)]
      BY <3>1, <3>2 DEF TypeOK
    <3>4. lease' \in [Leases -> LeaseType]
      <4>1. call[c].key \in Keys \cup {None}
        BY DEF TypeOK
      <4> DEFINE r == [worker |-> call[c].worker, key |-> call[c].key]
      <4>2. r \in LeaseType
        BY <3>2, <4>1
      <4>3. lease \in [Leases -> LeaseType] /\ lease' = [lease EXCEPT ![l] = r]
        BY <3>1, ActorsTyped
      <4> HIDE DEF r, LeaseType
      <4> QED
        BY <4>2, <4>3
    <3> QED
      BY <2>1, <2>4, <3>3, <3>4 DEF AppendAssignment, TypeOK, CallType
  <2>5. CASE Count(c)
    BY <2>1, <2>5 DEF Count, TypeOK, CallType
  <2>10. CASE Raise(c)
    <3>1. /\ call[c].lease \in Leases /\ call[c].worker \in Workers /\ call[c].seen \in Nat
          /\ Loses(call[c].worker, call[c].seen)
      BY <2>2, <2>10, ActorsTyped DEF Raise, CallAt, CallType
    <3>2. load' \in [Workers -> Nat] /\ counted' \subseteq Leases
      <4>1. call[c].seen + 1 \in Nat
        BY <3>1
      <4> QED
        BY <2>10, <3>1, <4>1 DEF Raise, TypeOK
    <3>3. raisesLost' \in [Workers -> Nat] /\ dropsLost' \in [Workers -> Nat]
      BY <3>1, LosesTyped
    <3> QED
      BY <2>1, <2>10, <3>2, <3>3 DEF Raise, TypeOK, CallType
  <2>6. CASE Post(c)
    <3>1. byKey' \in [Keys -> 0 .. MaxLeases] /\ posted' \subseteq Leases
      BY <2>2, <2>6 DEF Post, CallAt, TypeOK, Leases
    <3> QED
      BY <2>1, <2>6, <3>1 DEF Post, TypeOK, CallType
  <2>7. CASE Hear(c) \/ TimeOut(c)
    <3>1. answer' \in [Leases -> {"none", "ok", "bad"}]
      BY <2>7 DEF Hear, TimeOut, TypeOK
    <3> QED
      BY <2>1, <2>7, <3>1 DEF Hear, TimeOut, TypeOK, CallType
  <2>8. CASE CallerReports(c)
    <3>1. /\ ReportRead(call[c].lease, call[c].ok)
          /\ call[c].lease \in Issued /\ call[c].lease \in Leases /\ call[c].ok \in BOOLEAN
      BY <2>8, ActorsTyped DEF CallerReports, CallAt, CallType, CallsHold, Holds, Issued
    <3>2. report' \in [Leases -> ReportType]
      BY <3>1, ReportsMove DEF Says
    <3> QED
      BY <2>1, <2>8, <3>1, <3>2 DEF CallerReports, ReportRead, TypeOK, CallType
  <2>9. CASE Finish(c)
    <3>1. completed' \subseteq Keys
      BY <2>2, <2>9 DEF Finish, CallAt, TypeOK
    <3> QED
      BY <2>1, <2>9, <3>1 DEF Finish, TypeOK, CallType
  <2> QED
    BY <1>2, <2>3, <2>4, <2>5, <2>6, <2>7, <2>8, <2>9, <2>10 DEF CallStep
<1>3. ASSUME NEW s \in Servers, Arrive(s) \/ Poll(s) \/ ServerStep(s)
      PROVE  TypeOK'
  <2>1. serve \in [Servers -> ServeType]
    BY ActorsTyped
  <2>2. serve[s].pc # "free" => serve[s].lease \in Leases
    BY DEF ServersHold, Serves, Issued
  <2> HIDE DEF ServeType
  <2>3. CASE Arrive(s)
    <3>1. serve' \in [Servers -> ServeType]
      BY <2>1, <2>3, ServersMove DEF OthersServe
    <3>2. answer' \in [Leases -> {"none", "ok", "bad"}]
      <4>1. PICK l \in posted : UNCHANGED answer \/ Reply(l, "bad")
        BY <2>3 DEF Arrive
      <4>2. /\ l \in Leases /\ answer \in [Leases -> {"none", "ok", "bad"}]
            /\ answer[l] \in {"none", "ok", "bad"}
        BY DEF TypeOK
      <4> QED
        BY <4>1, <4>2 DEF Reply
    <3> QED
      BY <2>3, <3>1, <3>2 DEF Arrive, TypeOK, ServeType
  <2>4. CASE Poll(s)
    <3>1. serve' \in [Servers -> ServeType]
      BY <2>1, <2>4, ServersMove DEF OthersServe
    <3>2. pending' \in [Workers -> Seq(Leases)]
      BY <2>4 DEF Poll, TypeOK
    <3> QED
      BY <2>4, <3>1, <3>2 DEF Poll, TypeOK, ServeType
  <2>5. CASE Ask(s)
    <3>1. serve' \in [Servers -> ServeType]
      BY <2>5, ServersMove DEF Ask, OthersServe
    <3>2. answer' \in [Leases -> {"none", "ok", "bad"}]
      BY <2>5, AnswersTyped DEF Ask, TypeOK
    <3> QED
      BY <2>5, <3>1, <3>2 DEF Ask, TypeOK, ServeType
  <2>6. CASE Consume(s)
    <3>1. serve[s].lease \in Leases
      BY <2>2, <2>6 DEF Consume, ServerAt
    <3>2. serve' \in [Servers -> ServeType]
      BY <2>6, ServersMove DEF Consume, OthersServe
    <3>3. answer' \in [Leases -> {"none", "ok", "bad"}]
      BY <2>6, AnswersTyped DEF Consume, TypeOK
    <3>4. consumed' \subseteq Leases /\ ran' \in [Leases -> Nat]
      <4>1. ran \in [Leases -> Nat] /\ ran[serve[s].lease] + 1 \in Nat /\ consumed \subseteq Leases
        BY <3>1 DEF TypeOK
      <4>2. consumed' \subseteq Leases
        BY <2>6, <3>1, <4>1 DEF Consume
      <4>3. \/ ran' = ran
            \/ ran' = [ran EXCEPT ![serve[s].lease] = ran[serve[s].lease] + 1]
        BY <2>6 DEF Consume
      <4> QED
        BY <3>1, <4>1, <4>2, <4>3
    <3> QED
      BY <2>6, <3>2, <3>3, <3>4 DEF Consume, TypeOK, ServeType
  <2>7. CASE RunEnds(s)
    <3>1. serve' \in [Servers -> ServeType]
      BY <2>7, ServersMove DEF OthersServe
    <3>2. answer' \in [Leases -> {"none", "ok", "bad"}]
      <4>1. (\E a \in {"ok", "bad"} : Answers(s, a)) \/ UNCHANGED answer
        BY <2>7 DEF RunEnds
      <4>2. answer' = answer => answer' \in [Leases -> {"none", "ok", "bad"}]
        BY DEF TypeOK
      <4> QED
        BY <4>1, <4>2, AnswersTyped
    <3> QED
      BY <2>7, <3>1, <3>2 DEF RunEnds, TypeOK, ServeType
  <2>8. CASE AgentReports(s)
    <3>1. serve' \in [Servers -> ServeType]
      BY <2>8, ServersMove DEF OthersServe
    <3>2. PICK ok \in BOOLEAN : ReportRead(serve[s].lease, ok)
      BY <2>8 DEF AgentReports, ServerAt
    <3>3. serve[s].lease \in Issued /\ serve[s].lease \in Leases
      BY <2>8 DEF AgentReports, ServersHold, Serves, Issued
    <3>4. report' \in [Leases -> ReportType]
      BY <3>2, <3>3, ReportsMove DEF Says
    <3> QED
      BY <2>8, <3>1, <3>2, <3>4 DEF AgentReports, ReportRead, TypeOK, ServeType
  <2>9. CASE AgentReturns(s)
    <3>1. serve' \in [Servers -> ServeType]
      BY <2>9, ServersMove DEF OthersServe
    <3> QED
      BY <2>9, <3>1 DEF AgentReturns, TypeOK, ServeType
  <2> QED
    BY <1>3, <2>3, <2>4, <2>5, <2>6, <2>7, <2>8, <2>9 DEF ServerStep
<1>7. ASSUME NEW w \in Workers, WorkerDies(w) PROVE TypeOK'
  BY <1>7, Deaths DEF WorkerDies, TypeOK
<1>8. ASSUME NEW l \in Leases, Lower(l) \/ Fail(l) \/ Judge(l) PROVE TypeOK'
  <2>1. report' \in [Leases -> ReportType]
    BY <1>8, ReportsMove DEF Says
  <2>2. report[l].pc # "none" /\ lease[l].worker \in Workers /\ report[l].seen \in Nat
    <3>1. report[l].pc # "none" /\ l \in Issued
      BY <1>8 DEF Lower, Fail, Judge, ReportAt, LeasesKnown, Begun
    <3>2. report[l] \in ReportType /\ lease[l] \in LeaseType
      BY ActorsTyped
    <3> QED
      BY <3>1, <3>2 DEF Issued
  <2>3. CASE Lower(l)
    <3>1. Less(report[l].seen) \in Nat /\ Loses(lease[l].worker, report[l].seen)
      BY <2>2, <2>3 DEF Lower, Less
    <3>2. load' \in [Workers -> Nat] /\ failures' \in [Workers -> Nat]
      <4> DEFINE n == Less(report[l].seen)
      <4>1. load' = [load EXCEPT ![lease[l].worker] = n] /\ n \in Nat
        BY <2>3, <3>1 DEF Lower
      <4>2. failures' = [failures EXCEPT ![lease[l].worker] = 0] \/ failures' = failures
        BY <2>3 DEF Lower
      <4>3. load \in [Workers -> Nat] /\ failures \in [Workers -> Nat]
        BY DEF TypeOK
      <4> HIDE DEF n
      <4>4. load' \in [Workers -> Nat]
        BY <2>2, <4>1, <4>3
      <4>5. failures' \in [Workers -> Nat]
        BY <2>2, <4>2, <4>3
      <4> QED
        BY <4>4, <4>5
    <3>3. raisesLost' \in [Workers -> Nat] /\ dropsLost' \in [Workers -> Nat]
      BY <2>2, <3>1, LosesTyped
    <3> QED
      BY <2>1, <2>3, <3>2, <3>3 DEF Lower, PlaneStays, TypeOK
  <2>4. CASE Fail(l)
    <3>1. failures' \in [Workers -> Nat]
      BY <2>2, <2>4 DEF Fail, TypeOK
    <3> QED
      BY <2>1, <2>4, <3>1 DEF Fail, PlaneStays, TypeOK
  <2>5. CASE Judge(l)
    <3>1. quarantined' \subseteq Workers
      BY <2>2, <2>5 DEF Judge, TypeOK
    <3> QED
      BY <2>1, <2>5, <3>1 DEF Judge, PlaneStays, TypeOK
  <2> QED
    BY <1>8, <2>3, <2>4, <2>5
<1>4. ASSUME NEW l, Revoke(l), l \in counted PROVE TypeOK'
  BY <1>4 DEF Revoke, TypeOK
<1>5. ASSUME NEW w \in Workers, Heartbeat(w) PROVE TypeOK'
  <2>1. healthy' \subseteq Workers
    BY <1>5 DEF Heartbeat, TypeOK
  <2> QED
    BY <1>5, <2>1 DEF Heartbeat, TypeOK
<1> QED
  BY <1>1, <1>2, <1>3, <1>4, <1>5, <1>7, <1>8 DEF Next, CancelKey, CancelTask
-----------------------------------------------------------------------------
(* What each step leaves alone. *)

CallerMoves == \E c \in Callers : Select(c) \/ CallStep(c)
ServerMoves == \E s \in Servers : Arrive(s) \/ Poll(s) \/ ServerStep(s)
ReportMoves == \E l \in Leases : Lower(l) \/ Fail(l) \/ Judge(l)
WorkerEnds == \E w \in Workers : WorkerDies(w)
Cancels == \E l \in counted : Revoke(l)

LEMMA CallersStay ==
    ASSUME TypeOK, [Next]_vars, ~CallerMoves
    PROVE  UNCHANGED <<call, lease, counted, posted>>
BY DEF Next, vars, planeVars, callVars, CallerMoves, Arrive, Poll, ServerStep, Ask, Consume,
       RunEnds, AgentReports, AgentReturns, WorkerDies, CancelKey, CancelTask, Revoke, Heartbeat,
       Lower, Fail, Judge, PlaneStays

LEMMA ServersStay ==
    ASSUME TypeOK, [Next]_vars, ~ServerMoves, ~WorkerEnds
    PROVE  UNCHANGED <<serve, consumed, ran, forgot>>
BY DEF Next, vars, history, ServerMoves, WorkerEnds, Select, CallStep, AppendAssignment, Count,
       Raise, Post, Hear, TimeOut, CallerReports, Finish, CancelKey, CancelTask, Revoke, Heartbeat,
       Lower, Fail, Judge, PlaneStays

\* A cancellation is of a lease whose dispatch has returned.
LEMMA StopsStay ==
    ASSUME TypeOK, [Next]_vars, ~Cancels
    PROVE  UNCHANGED <<revoked, stopped>>
BY DEF Next, vars, history, Cancels, Select, CallStep, AppendAssignment, Count, Raise, Post, Hear,
       TimeOut, CallerReports, Finish, Arrive, Poll, ServerStep, Ask, Consume, RunEnds,
       AgentReports, AgentReturns, WorkerDies, CancelKey, CancelTask, Heartbeat,
       Lower, Fail, Judge, PlaneStays

LEMMA ReportsStay ==
    ASSUME TypeOK, [Next]_vars, ~\E c \in Callers : CallerReports(c),
           ~\E s \in Servers : AgentReports(s), ~ReportMoves
    PROVE  report' = report
BY DEF Next, vars, planeVars, registry, Select, CallStep, AppendAssignment, Count, Raise, Post,
       Hear, TimeOut, Finish, Arrive, Poll, ServerStep, Ask, Consume, RunEnds, AgentReturns,
       WorkerDies, CancelKey, CancelTask, Revoke, Heartbeat, ReportMoves

LEMMA LoadsStay ==
    ASSUME TypeOK, [Next]_vars, ~\E c \in Callers : Raise(c), ~\E l \in Leases : Lower(l)
    PROVE  UNCHANGED <<load, raisesLost, dropsLost>>
BY DEF Next, vars, planeVars, registry, Select, CallStep, AppendAssignment, Count, Post, Hear,
       TimeOut, CallerReports, Finish, ReportRead, Arrive, Poll, ServerStep, Ask, Consume, RunEnds,
       AgentReports, AgentReturns, WorkerDies, CancelKey, CancelTask, Revoke, Heartbeat,
       Fail, Judge

LEMMA QueuesStay ==
    ASSUME TypeOK, [Next]_vars,
           ~\E c \in Callers : AppendAssignment(c), ~\E s \in Servers : Poll(s)
    PROVE  pending' = pending
BY DEF Next, vars, planeVars, Select, CallStep, Count, Raise, Post, Hear, TimeOut, CallerReports,
       Finish, Arrive, ServerStep, Ask, Consume, RunEnds, AgentReports, AgentReturns, WorkerDies,
       CancelKey, CancelTask, Revoke, Heartbeat, Lower, Fail, Judge, PlaneStays

LEMMA LeasesStay ==
    ASSUME TypeOK, [Next]_vars, ~\E c \in Callers : AppendAssignment(c)
    PROVE  lease' = lease
BY DEF Next, vars, Select, CallStep, Count, Raise, Post, Hear, TimeOut, CallerReports,
       Finish, Arrive, Poll, ServerStep, Ask, Consume, RunEnds, AgentReports, AgentReturns,
       WorkerDies, CancelKey, CancelTask, Revoke, Heartbeat, Lower, Fail, Judge, PlaneStays

\* A lease is signed once, for the worker that was chosen.
LEMMA Signing ==
    ASSUME TypeOK, CallsHold, NEW c \in Callers, AppendAssignment(c)
    PROVE  /\ call'[c].lease \in Leases \ Issued
           /\ call[c].worker \in Capable(c) /\ call[c].worker \in Workers
           /\ lease'[call'[c].lease].worker = call[c].worker
           /\ lease[call'[c].lease] = NoLease
           /\ \A m \in Leases : m # call'[c].lease => lease'[m] = lease[m]
           /\ Issued' = Issued \cup {call'[c].lease}
           /\ pending' = [pending EXCEPT ![call[c].worker] =
                             Append(pending[call[c].worker], call'[c].lease)]
<1>1. PICK l \in Leases :
         /\ lease[l] = NoLease
         /\ lease' = [lease EXCEPT ![l] = [worker |-> call[c].worker, key |-> call[c].key]]
         /\ pending' = [pending EXCEPT ![call[c].worker] = Append(pending[call[c].worker], l)]
         /\ call' = [call EXCEPT ![c].pc = "count", ![c].lease = l]
  BY DEF AppendAssignment
<1>2. call'[c].lease = l
  BY <1>1, ActorsTyped DEF CallType
<1>3. call[c].worker \in Capable(c) /\ call[c].worker \in Workers
  BY CapableIsRegistered DEF CallsHold, AppendAssignment, CallAt
<1>4. lease'[l].worker = call[c].worker /\ \A m \in Leases : m # l => lease'[m] = lease[m]
  BY <1>1, ActorsTyped
<1>5. l \notin Issued
  BY <1>1 DEF Issued, NoLease
<1>6. Issued' = Issued \cup {l}
  BY <1>3, <1>4, NoneTyped DEF Issued
<1> QED
  BY <1>1, <1>2, <1>3, <1>4, <1>5, <1>6

\* What was issued stays as it was issued.
LEMMA IssuedStay ==
    ASSUME TypeOK, CallsHold, [Next]_vars
    PROVE  Issued \subseteq Issued' /\ \A l \in Issued : lease'[l] = lease[l]
<1>1. CASE \E c \in Callers : AppendAssignment(c)
  BY <1>1, Signing DEF Issued
<1>2. CASE lease' = lease
  BY <1>2 DEF Issued
<1> QED
  BY <1>1, <1>2, LeasesStay
-----------------------------------------------------------------------------
(* What threads and servers hold. *)

LEMMA CallsStep ==
    ASSUME TypeOK, CallsHold, CallsApart, LeasesKnown, [Next]_vars
    PROVE  CallsHold' /\ CallsApart'
<1>1. Issued \subseteq Issued' /\ \A l \in Issued : lease'[l] = lease[l]
  BY IssuedStay
<1>2. CASE UNCHANGED <<call, counted>>
  <2>1. \A c : Capable(c)' = Capable(c)
    BY DEF Capable
  <2> QED
    BY <1>1, <1>2, <2>1 DEF CallsHold, CallsApart, Holds
<1>3. ASSUME NEW c \in Callers, Select(c) \/ CallStep(c)
      PROVE  CallsHold' /\ CallsApart'
  <2>1. \A d \in Callers : Capable(d)' = Capable(d)
    BY DEF Capable
  <2> DEFINE Good(d) ==
        /\ call'[d].pc # "idle" => call'[d].worker \in Capable(d)
        /\ call'[d].pc \in {"post", "wait", "report", "finish"} => d \in Posting
        /\ call'[d].pc # "idle" /\ d \in Posting => call'[d].key \in Keys
        /\ Holds(d)' => /\ call'[d].lease \in Issued'
                        /\ lease'[call'[d].lease].worker = call'[d].worker
                        /\ call'[d].pc \in {"count", "raise"} <=> call'[d].lease \notin counted'
  <2>2. OthersWait(c)
    BY <1>3, CallsMove DEF CallStep
  <2>3. SUFFICES /\ Good(c)
                 /\ \A d \in Callers \ {c} : Good(d)
                 /\ \A d \in Callers \ {c} :
                       Holds(c)' /\ Holds(d) => call'[c].lease # call[d].lease
    <3>1. CallsApart'
      BY <2>2, <2>3 DEF CallsApart, Holds, OthersWait
    <3>2. CallsHold'
      BY <2>1, <2>3 DEF CallsHold
    <3> QED
      BY <3>1, <3>2
  <2>4. /\ call[c].pc # "idle" => call[c].worker \in Capable(c)
        /\ call[c].pc \in {"post", "wait", "report", "finish"} => c \in Posting
        /\ call[c].pc # "idle" /\ c \in Posting => call[c].key \in Keys
        /\ Holds(c) => /\ call[c].lease \in Issued
                       /\ lease[call[c].lease].worker = call[c].worker
                       /\ call[c].pc \in {"count", "raise"} <=> call[c].lease \notin counted
    BY DEF CallsHold
  <2>5. \A d \in Callers \ {c} :
           /\ call'[d] = call[d]
           /\ Holds(d)' <=> Holds(d)
           /\ Holds(c) /\ Holds(d) => call[c].lease # call[d].lease
           /\ Holds(d) => call[d].lease \in Issued
    BY <2>2 DEF OthersWait, Holds, CallsApart, CallsHold
  <2>6. counted' \in {counted, counted \cup {call[c].lease}}
        /\ (counted' # counted => Raise(c) /\ Holds(c))
    BY <1>3 DEF Select, CallStep, AppendAssignment, Count, Raise, Post, Hear, TimeOut, CallerReports,
                Finish, planeVars, Holds, CallAt
  <2>7. ASSUME NEW d \in Callers \ {c} PROVE Good(d)
    <3>1. Holds(d) => (call[d].lease \in counted' <=> call[d].lease \in counted)
      BY <2>5, <2>6
    <3> QED
      BY <1>1, <2>5, <3>1 DEF CallsHold, Holds
  <2>8. CASE Select(c)
    <3>1. Chooses(c)
      BY <2>8, CallsMove
    <3> QED
      BY <2>7, <3>1 DEF Chooses, Holds, Eligible
  <2>9. CASE AppendAssignment(c)
    <3>1. Signs(c)
      BY <2>9, CallsMove
    <3>2. /\ call'[c].lease \in Issued' \ Issued
          /\ lease'[call'[c].lease].worker = call[c].worker
      BY <2>9, Signing
    <3>3. call'[c].lease \notin counted'
      BY <2>9, <3>2 DEF LeasesKnown, AppendAssignment
    <3> QED
      BY <2>4, <2>5, <2>7, <3>1, <3>2, <3>3 DEF Signs, Holds
  <2>14. CASE Count(c)
    <3>1. Advances(c, "count", "raise") /\ counted' = counted
      BY <2>14, CallsMove DEF Count, planeVars
    <3> QED
      BY <1>1, <2>4, <2>5, <2>7, <3>1 DEF Advances, Holds
  <2>10. CASE Raise(c)
    <3>1. IF c \in Posting THEN Advances(c, "raise", "post") ELSE Rests(c, "raise")
      BY <2>10, CallsMove
    <3>2. counted' = counted \cup {call[c].lease}
      BY <2>10 DEF Raise
    <3> QED
      BY <1>1, <2>4, <2>5, <2>7, <3>1, <3>2 DEF Advances, Rests, Holds, NoCall
  <2>11. ASSUME NEW from \in {"post", "wait", "report"}, NEW to \in {"wait", "report", "finish"},
                Advances(c, from, to), counted' = counted
         PROVE  /\ Good(c)
                /\ \A d \in Callers \ {c} :
                      Holds(c)' /\ Holds(d) => call'[c].lease # call[d].lease
    BY <1>1, <2>4, <2>5, <2>11 DEF Advances, Holds
  <2>12. CASE Post(c) \/ Hear(c) \/ TimeOut(c) \/ CallerReports(c)
    <3>1. counted' = counted
      BY <2>12 DEF Post, Hear, TimeOut, CallerReports, planeVars
    <3>2. \/ Advances(c, "post", "wait") \/ Advances(c, "wait", "report")
          \/ Advances(c, "report", "finish")
      BY <2>12, CallsMove
    <3> QED
      BY <2>7, <2>11, <3>1, <3>2
  <2>13. CASE Finish(c)
    <3>1. Rests(c, "finish")
      BY <2>13, CallsMove
    <3> QED
      BY <2>7, <3>1 DEF Rests, NoCall, Holds
  <2> QED
    BY <1>3, <2>8, <2>9, <2>10, <2>12, <2>13, <2>14 DEF CallStep
<1> QED
  BY <1>2, <1>3, CallersStay DEF CallerMoves

LEMMA ServersStep ==
    ASSUME TypeOK, CallsHold, ServersHold, LeasesKnown, [Next]_vars
    PROVE  ServersHold'
<1>1. Issued \subseteq Issued' /\ \A l \in Issued : lease'[l] = lease[l]
  BY IssuedStay
<1>2. CASE serve' = serve
  BY <1>1, <1>2 DEF ServersHold, Serves
<1>3. ASSUME NEW s \in Servers, Arrive(s) \/ Poll(s) \/ ServerStep(s), serve' # serve
      PROVE  ServersHold'
  <2> DEFINE Good(u) ==
        /\ Serves(u)' => serve'[u].lease \in Issued' /\ lease'[serve'[u].lease].worker = Host[u]
        /\ Host[u] \notin Polled => serve'[u].pc \notin {"done", "refused", "report"}
  <2>1. SUFFICES OthersServe(s) /\ Good(s)
    BY <1>1 DEF ServersHold, Serves, OthersServe
  <2>2. /\ Serves(s) => serve[s].lease \in Issued /\ lease[serve[s].lease].worker = Host[s]
        /\ Host[s] \notin Polled => serve[s].pc \notin {"done", "refused", "report"}
    BY DEF ServersHold
  <2>3. ASSUME OthersServe(s), Frees(s) PROVE Good(s)
    BY <2>3 DEF Frees, Serves
  <2>4. ASSUME Serves(s), OthersServe(s), NEW pcs, Serving(s, pcs),
               Host[s] \in Polled \/ pcs \cap {"done", "refused", "report"} = {}
        PROVE  Good(s)
    BY <1>1, <2>2, <2>4 DEF Serving, Serves
  <2>5. ASSUME NEW a \in {"ok", "bad"}, Answers(s, a), Serves(s) PROVE OthersServe(s) /\ Good(s)
    <3>1. OthersServe(s) /\ (Frees(s) \/ (Host[s] \in Polled /\ Serving(s, {"done", "refused"})))
      BY <2>5, ServersMove
    <3> QED
      BY <2>3, <2>4, <2>5, <3>1
  <2>6. ASSUME NEW pc \in {"consume", "run"}, ServerGoes(s, pc), Serves(s)
        PROVE  OthersServe(s) /\ Good(s)
    <3>1. OthersServe(s) /\ Serving(s, {pc})
      BY <2>6, ServersMove DEF ServePhases
    <3> QED
      BY <2>4, <2>6, <3>1
  <2>7. CASE Arrive(s)
    <3>1. PICK l \in posted : OthersServe(s) /\ Takes(s, l) /\ Addressed(s, l) /\ serve'[s].pc = "ask"
      BY <1>3, <2>7, ServersMove
    <3> QED
      BY <1>1, <3>1 DEF LeasesKnown, Takes, Addressed
  <2>8. CASE Poll(s)
    <3>1. OthersServe(s) /\ Takes(s, Head(pending[Host[s]]))
      BY <1>3, <2>8, ServersMove
    <3>2. Host[s] \in Polled /\ pending[Host[s]] # <<>> /\ Host[s] \in Workers
      BY <2>8 DEF Poll
    <3>3. 1 \in 1 .. Len(pending[Host[s]]) /\ Head(pending[Host[s]]) = pending[Host[s]][1]
      BY <3>2 DEF TypeOK
    <3>4. /\ Head(pending[Host[s]]) \in Issued
          /\ lease[Head(pending[Host[s]])].worker = Host[s]
      BY <3>2, <3>3 DEF LeasesKnown
    <3> QED
      BY <1>1, <3>1, <3>2, <3>4 DEF Takes
  <2>9. CASE Ask(s) \/ Consume(s)
    <3>1. Serves(s)
      BY <2>9 DEF Ask, Consume, ServerAt, Serves
    <3>2. \/ \E a \in {"ok", "bad"} : Answers(s, a)
          \/ \E pc \in {"consume", "run"} : ServerGoes(s, pc)
      BY <2>9 DEF Ask, Consume
    <3> QED
      BY <2>5, <2>6, <3>1, <3>2
  <2>10. CASE RunEnds(s)
    <3>1. Serves(s)
      BY <2>10 DEF RunEnds, ServerAt, Serves
    <3>2. OthersServe(s) /\ (Frees(s) \/ (Host[s] \in Polled /\ Serving(s, {"done", "refused"})))
      BY <2>10, ServersMove
    <3> QED
      BY <2>3, <2>4, <3>1, <3>2
  <2>11. CASE AgentReports(s)
    <3>1. Serves(s) /\ Host[s] \in Polled
      BY <2>2, <2>11 DEF AgentReports, Serves
    <3>2. OthersServe(s) /\ Serving(s, {"report"})
      BY <2>11, ServersMove
    <3> QED
      BY <2>4, <3>1, <3>2
  <2>12. CASE AgentReturns(s)
    BY <2>3, <2>12, ServersMove
  <2> QED
    BY <1>3, <2>7, <2>8, <2>9, <2>10, <2>11, <2>12 DEF ServerStep
<1>4. ASSUME NEW w \in Workers, WorkerDies(w) PROVE ServersHold'
  <2>1. \A s \in Servers : serve'[s] = serve[s] \/ serve'[s] = Free
    BY <1>4, Deaths
  <2> QED
    BY <1>1, <2>1 DEF ServersHold, Serves, Free
<1> QED
  BY <1>2, <1>3, <1>4, ServersStay DEF ServerMoves, WorkerEnds
-----------------------------------------------------------------------------
(* What is said of leases, and what was run. *)

\* A worker's queue with the oldest assignment taken, or with one more.
LEMMA TailOf ==
    ASSUME NEW q \in Seq(Leases), q # <<>>
    PROVE  /\ Len(q) \in Nat /\ 1 \in 1 .. Len(q) /\ Head(q) = q[1]
           /\ Tail(q) \in Seq(Leases) /\ Len(Tail(q)) = Len(q) - 1
           /\ \A i \in 1 .. Len(Tail(q)) : i + 1 \in 1 .. Len(q) /\ Tail(q)[i] = q[i + 1]
OBVIOUS

LEMMA AppendTo ==
    ASSUME NEW q \in Seq(Leases), NEW l \in Leases
    PROVE  /\ Len(q) \in Nat /\ Len(Append(q, l)) = Len(q) + 1
           /\ Append(q, l)[Len(q) + 1] = l
           /\ \A i \in 1 .. Len(q) : Append(q, l)[i] = q[i]
OBVIOUS

LEMMA KnownStep ==
    ASSUME TypeOK, CallsHold, ServersHold, LeasesKnown, [Next]_vars
    PROVE  LeasesKnown'
<1>1. Issued \subseteq Issued' /\ \A l \in Issued : lease'[l] = lease[l]
  BY IssuedStay
<1>2. /\ \A c \in Callers : Holds(c) => call[c].lease \in Issued
      /\ \A s \in Servers : Serves(s) => serve[s].lease \in Issued
  BY DEF CallsHold, ServersHold
<1>3. counted' \subseteq Issued
  <2>1. counted' = counted \/ \E c \in Callers : Holds(c) /\ counted' = counted \cup {call[c].lease}
    <3>1. CASE CallerMoves
      BY <3>1 DEF CallerMoves, Select, CallStep, AppendAssignment, Count, Raise, Post, Hear, TimeOut,
                  CallerReports, Finish, planeVars, Holds, CallAt
    <3> QED
      BY <3>1, CallersStay
  <2> QED
    BY <1>2, <2>1 DEF LeasesKnown
<1>4. posted' \subseteq Issued
  <2>1. posted' = posted \/ \E c \in Callers : Holds(c) /\ posted' = posted \cup {call[c].lease}
    <3>1. CASE CallerMoves
      BY <3>1 DEF CallerMoves, Select, CallStep, AppendAssignment, Count, Raise, Post, Hear, TimeOut,
                  CallerReports, Finish, Holds, CallAt
    <3> QED
      BY <3>1, CallersStay
  <2> QED
    BY <1>2, <2>1 DEF LeasesKnown
<1>5. Begun' \subseteq Issued
  <2>1. CASE \E c \in Callers : CallerReports(c)
    <3>1. PICK c \in Callers : CallerReports(c) /\ Holds(c)
      BY <2>1 DEF CallerReports, CallAt, Holds
    <3> QED
      BY <1>2, <3>1 DEF CallerReports, ReportRead, Begun, LeasesKnown, TypeOK
  <2>2. CASE \E s \in Servers : AgentReports(s)
    <3>1. PICK s \in Servers : AgentReports(s) /\ Serves(s)
      BY <2>2 DEF AgentReports, Serves
    <3> QED
      BY <1>2, <3>1 DEF AgentReports, ReportRead, Begun, LeasesKnown, TypeOK
  <2>3. CASE ReportMoves
    BY <2>3, ReportsMove DEF ReportMoves, Says, Begun, LeasesKnown
  <2>4. CASE report' = report
    BY <2>4 DEF Begun, LeasesKnown
  <2> QED
    BY <2>1, <2>2, <2>3, <2>4, ReportsStay
<1>6. stopped' \subseteq Issued
  <2>1. CASE Cancels
    BY <2>1 DEF Cancels, Revoke, LeasesKnown
  <2> QED
    BY <2>1, StopsStay DEF LeasesKnown
<1>7. ASSUME NEW l \in Leases, l \notin Issued' PROVE lease'[l] = NoLease /\ ran'[l] = 0
  <2>1. l \notin Issued /\ lease[l] = NoLease /\ ran[l] = 0
    BY <1>1, <1>7 DEF LeasesKnown
  <2>2. lease'[l] = NoLease
    <3>1. CASE \E c \in Callers : AppendAssignment(c)
      BY <1>7, <2>1, <3>1, Signing
    <3> QED
      BY <2>1, <3>1, LeasesStay
  <2>3. ran'[l] = 0
    <3>1. CASE ServerMoves
      <4>1. PICK s \in Servers : Arrive(s) \/ Poll(s) \/ ServerStep(s)
        BY <3>1 DEF ServerMoves
      <4>2. ran' = ran \/ (Serves(s) /\ ran' = [ran EXCEPT ![serve[s].lease] = ran[serve[s].lease] + 1])
        BY <4>1 DEF Arrive, Poll, ServerStep, Ask, Consume, RunEnds, AgentReports, AgentReturns,
                    history, Serves, ServerAt
      <4> QED
        BY <1>2, <2>1, <4>2 DEF TypeOK
    <3>2. CASE WorkerEnds
      BY <2>1, <3>2 DEF WorkerEnds, WorkerDies
    <3> QED
      BY <2>1, <3>1, <3>2, ServersStay
  <2> QED
    BY <2>2, <2>3
<1>8. ASSUME NEW w \in Workers, NEW i \in 1 .. Len(pending'[w])
      PROVE  pending'[w][i] \in Issued' /\ lease'[pending'[w][i]].worker = w
  <2>1. \A j \in 1 .. Len(pending[w]) :
           /\ pending[w][j] \in Issued /\ pending[w][j] \in Issued'
           /\ lease'[pending[w][j]].worker = w
    BY <1>1 DEF LeasesKnown
  <2>2. pending[w] \in Seq(Leases) /\ pending \in [Workers -> Seq(Leases)]
    BY DEF TypeOK
  <2>3. CASE \E c \in Callers : AppendAssignment(c)
    <3>1. PICK c \in Callers : AppendAssignment(c)
      BY <2>3
    <3> DEFINE v == call[c].worker
               l == call'[c].lease
    <3>2. /\ l \in Leases \ Issued /\ v \in Workers /\ lease'[l].worker = v
          /\ Issued' = Issued \cup {l}
          /\ pending' = [pending EXCEPT ![v] = Append(pending[v], l)]
      BY <3>1, Signing
    <3> HIDE DEF v, l
    <3>3. CASE w # v
      BY <1>8, <2>1, <2>2, <3>2, <3>3
    <3>4. CASE w = v
      <4>1. pending'[w] = Append(pending[w], l)
        BY <2>2, <3>2, <3>4
      <4>2. i \in 1 .. Len(pending[w]) \/ i = Len(pending[w]) + 1
        BY <1>8, <2>2, <3>2, <4>1, AppendTo
      <4> QED
        BY <2>1, <2>2, <3>2, <3>4, <4>1, <4>2, AppendTo
    <3> QED
      BY <3>3, <3>4
  <2>4. CASE \E s \in Servers : Poll(s)
    <3>1. PICK s \in Servers : Poll(s)
      BY <2>4
    <3>2. /\ pending[Host[s]] # <<>>
          /\ pending' = [pending EXCEPT ![Host[s]] = Tail(pending[Host[s]])]
      BY <3>1 DEF Poll
    <3>3. CASE w # Host[s]
      BY <1>8, <2>1, <2>2, <3>2, <3>3
    <3>4. CASE w = Host[s]
      <4>1. pending'[w] = Tail(pending[w]) /\ pending[w] # <<>>
        BY <2>2, <3>2, <3>4
      <4>2. i + 1 \in 1 .. Len(pending[w]) /\ pending'[w][i] = pending[w][i + 1]
        BY <1>8, <2>2, <4>1, TailOf
      <4> QED
        BY <2>1, <4>2
    <3> QED
      BY <3>3, <3>4
  <2> QED
    BY <1>8, <2>1, <2>3, <2>4, QueuesStay
<1> QED
  BY <1>1, <1>3, <1>4, <1>5, <1>6, <1>7, <1>8 DEF LeasesKnown

LEMMA RunsStep ==
    ASSUME TypeOK, ServersHold, LeasesKnown, RunsOnce, [Next]_vars
    PROVE  RunsOnce'
<1> DEFINE Known(l) == IF l \in consumed THEN 1 ELSE 0
<1> SUFFICES ASSUME NEW l \in Leases
             PROVE  /\ ran'[l] <= forgot'[l] + (IF l \in consumed' THEN 1 ELSE 0)
                    /\ l \in stopped' => ran'[l] = 0 /\ l \in revoked' /\ ~InHand(l)'
  BY DEF RunsOnce
<1>1. /\ ran[l] <= forgot[l] + Known(l) /\ ran[l] \in Nat /\ forgot[l] \in Nat
      /\ l \in stopped => ran[l] = 0 /\ l \in revoked /\ ~InHand(l)
  BY DEF RunsOnce, TypeOK
<1>2. CASE Cancels
  <2>1. PICK m \in counted : Revoke(m)
    BY <1>2 DEF Cancels
  <2>2. ran' = ran /\ forgot' = forgot /\ consumed' = consumed /\ InHand(l)' = InHand(l)
    BY <2>1 DEF Revoke, InHand
  <2>3. /\ revoked' = revoked \cup {m}
        /\ stopped' \subseteq stopped \cup {m}
        /\ m \in stopped' => m \in stopped \/ (ran[m] = 0 /\ ~InHand(m))
    BY <2>1 DEF Revoke
  <2> QED
    BY <1>1, <2>2, <2>3
<1>3. CASE ServerMoves /\ ~Cancels
  <2>1. PICK s \in Servers : Arrive(s) \/ Poll(s) \/ ServerStep(s)
    BY <1>3 DEF ServerMoves
  <2>2. revoked' = revoked /\ stopped' = stopped /\ forgot' = forgot
    <3>1. forgot' = forgot
      BY <2>1 DEF Arrive, Poll, ServerStep, Ask, Consume, RunEnds, AgentReports, AgentReturns, history
    <3> QED
      BY <1>3, <3>1, StopsStay
  <2>3. ASSUME OthersServe(s), serve'[s].pc \notin {"consume", "run"}
        PROVE  InHand(l)' => InHand(l)
    BY <2>3 DEF InHand, OthersServe
  <2>4. CASE Consume(s)
    <3> DEFINE m == serve[s].lease
    <3>1. InHand(m) /\ m \in Leases /\ serve[s].pc = "consume"
      BY <2>4 DEF Consume, ServerAt, InHand, ServersHold, Serves, Issued
    <3>2. \/ \E a \in {"ok", "bad"} : Answers(s, a)
          \/ ServerGoes(s, "run")
      BY <2>4 DEF Consume
    <3>3. OthersServe(s) /\ (Serving(s, {"run"}) \/ serve'[s].pc \in {"free", "done", "refused"})
      BY <3>2, ServersMove DEF ServePhases, Frees, Serving
    <3>4. InHand(l)' => InHand(l)
      BY <3>1, <3>3 DEF InHand, OthersServe, Serving
    <3>5. consumed \subseteq consumed'
      BY <2>4 DEF Consume
    <3>6. ran' = ran \/ (m \notin consumed /\ m \in consumed' /\ ran' = [ran EXCEPT ![m] = ran[m] + 1])
      BY <2>4 DEF Consume
    <3>7. m \notin stopped
      BY <3>1 DEF RunsOnce
    <3>8. CASE ran' = ran
      BY <1>1, <2>2, <3>4, <3>5, <3>8
    <3>9. CASE m \notin consumed /\ m \in consumed' /\ ran' = [ran EXCEPT ![m] = ran[m] + 1]
      <4>1. ran[m] <= forgot[m] /\ ran[m] \in Nat /\ forgot[m] \in Nat
        BY <3>1, <3>9 DEF RunsOnce, TypeOK
      <4>2. ran'[m] = ran[m] + 1 /\ \A k \in Leases : k # m => ran'[k] = ran[k]
        BY <3>1, <3>9, <4>1 DEF TypeOK
      <4> HIDE DEF m
      <4>3. CASE l = m
        BY <2>2, <3>7, <3>9, <4>1, <4>2, <4>3
      <4>4. CASE l # m
        BY <1>1, <2>2, <3>4, <3>5, <4>2, <4>4
      <4> QED
        BY <4>3, <4>4
    <3> QED
      BY <3>6, <3>8, <3>9
  <2>5. CASE ~Consume(s)
    <3>1. ran' = ran /\ consumed' = consumed
      BY <2>1, <2>5 DEF Arrive, Poll, ServerStep, Ask, RunEnds, AgentReports, AgentReturns, history
    <3>2. CASE Ask(s)
      <4>1. serve[s].pc = "ask"
        BY <3>2 DEF Ask, ServerAt
      <4>2. CASE \E a \in {"ok", "bad"} : Answers(s, a)
        <5>1. OthersServe(s) /\ serve'[s].pc \in {"free", "done", "refused"}
          BY <4>2, ServersMove DEF Frees, Serving
        <5> QED
          BY <1>1, <2>2, <2>3, <3>1, <5>1
      <4>3. CASE ServerGoes(s, "consume") /\ serve[s].lease \notin revoked
        <5>1. OthersServe(s) /\ Serving(s, {"consume"})
          BY <4>3, ServersMove DEF ServePhases
        <5>2. InHand(l)' => InHand(l) \/ l \notin revoked
          BY <4>3, <5>1 DEF InHand, OthersServe, Serving
        <5> QED
          BY <1>1, <2>2, <3>1, <5>2
      <4> QED
        BY <3>2, <4>2, <4>3 DEF Ask
    <3>3. CASE ~Ask(s)
      <4>1. serve' = serve \/ (OthersServe(s) /\ serve'[s].pc \notin {"consume", "run"})
        <5>1. CASE RunEnds(s) \/ AgentReports(s)
          BY <5>1, ServersMove DEF Frees, Serving
        <5>2. CASE Arrive(s) \/ Poll(s) \/ AgentReturns(s)
          BY <5>2, ServersMove DEF Frees
        <5> QED
          BY <2>1, <2>5, <3>3, <5>1, <5>2 DEF ServerStep
      <4>2. InHand(l)' => InHand(l)
        BY <2>3, <4>1 DEF InHand
      <4> QED
        BY <1>1, <2>2, <3>1, <4>2
    <3> QED
      BY <3>2, <3>3
  <2> QED
    BY <2>4, <2>5
<1>4. CASE WorkerEnds /\ ~Cancels
  <2>1. PICK w \in Workers : WorkerDies(w)
    BY <1>4 DEF WorkerEnds
  <2>2. /\ \A s \in Servers : serve'[s] = serve[s] \/ serve'[s] = Free
        /\ forgot'[l] + (IF l \in consumed' THEN 1 ELSE 0) = forgot[l] + Known(l)
        /\ forgot' \in [Leases -> Nat]
    BY <2>1, Deaths
  <2>3. InHand(l)' => InHand(l)
    BY <2>2 DEF InHand, Free
  <2>4. ran' = ran /\ revoked' = revoked /\ stopped' = stopped
    BY <2>1 DEF WorkerDies
  <2> QED
    BY <1>1, <2>2, <2>3, <2>4
<1>5. CASE ~ServerMoves /\ ~WorkerEnds /\ ~Cancels
  <2>1. UNCHANGED <<serve, consumed, ran, forgot, revoked, stopped>>
    BY <1>5, ServersStay, StopsStay
  <2> QED
    BY <1>1, <2>1 DEF InHand
<1> QED
  BY <1>2, <1>3, <1>4, <1>5
-----------------------------------------------------------------------------
(* A lease is in one place until its report has begun. *)

\* The lease whose report a step begins, with whoever reports it.
LEMMA ReportsAre ==
    ASSUME TypeOK, CallsHold, ServersHold, LeasesKnown, [Next]_vars
    PROVE  \/ Begun' = Begun
           \/ \E c \in Posting : /\ CallerReports(c) /\ call[c].pc = "report" /\ Holds(c)
                                 /\ call[c].worker \in Workers \ Polled
                                 /\ lease[call[c].lease].worker = call[c].worker
                                 /\ Begun' = Begun \cup {call[c].lease}
           \/ \E s \in Servers : /\ AgentReports(s) /\ Serves(s) /\ Host[s] \in Polled
                                 /\ lease[serve[s].lease].worker = Host[s]
                                 /\ Begun' = Begun \cup {serve[s].lease}
<1>1. ASSUME NEW l \in Issued, NEW ok \in BOOLEAN, ReportRead(l, ok) PROVE Begun' = Begun \cup {l}
  <2>1. l \in Leases
    BY DEF Issued
  <2>2. Says(l, "lower")
    BY <1>1, <2>1, ReportsMove
  <2> QED
    BY <2>1, <2>2 DEF Says, Begun
<1>2. ASSUME NEW c \in Callers, CallerReports(c)
      PROVE  /\ c \in Posting /\ call[c].pc = "report" /\ Holds(c)
             /\ call[c].worker \in Workers \ Polled
             /\ lease[call[c].lease].worker = call[c].worker
             /\ Begun' = Begun \cup {call[c].lease}
  <2>1. /\ c \in Posting /\ call[c].pc = "report" /\ Holds(c)
        /\ call[c].worker \in Workers \ Polled
        /\ call[c].lease \in Issued /\ lease[call[c].lease].worker = call[c].worker
    BY <1>2 DEF CallerReports, CallAt, CallsHold, Holds, Capable
  <2>2. call[c].ok \in BOOLEAN
    BY DEF TypeOK
  <2>3. Begun' = Begun \cup {call[c].lease}
    BY <1>1, <1>2, <2>1, <2>2 DEF CallerReports
  <2> QED
    BY <2>1, <2>3
<1>3. ASSUME NEW s \in Servers, AgentReports(s)
      PROVE  /\ Serves(s) /\ Host[s] \in Polled
             /\ lease[serve[s].lease].worker = Host[s]
             /\ Begun' = Begun \cup {serve[s].lease}
  <2>1. /\ Serves(s) /\ Host[s] \in Polled
        /\ serve[s].lease \in Issued /\ lease[serve[s].lease].worker = Host[s]
    BY <1>3 DEF AgentReports, ServersHold, Serves
  <2>2. ServerAt(s, "done") \in BOOLEAN
    BY DEF ServerAt
  <2>3. Begun' = Begun \cup {serve[s].lease}
    BY <1>1, <1>3, <2>1, <2>2 DEF AgentReports
  <2> QED
    BY <2>1, <2>3
<1>4. CASE ReportMoves
  BY <1>4, ReportsMove DEF ReportMoves, Says, Begun
<1>5. CASE report' = report
  BY <1>5 DEF Begun
<1> QED
  BY <1>2, <1>3, <1>4, <1>5, ReportsStay

LEMMA PostedReportedOnce ==
    ASSUME TypeOK, CallsHold, CallsApart, ServersHold, LeasesKnown, ReportedOnce, [Next]_vars,
           NEW c \in Posting, Holds(c)', call'[c].pc # "finish"
    PROVE  call'[c].lease \notin Begun'
<1>1. c \in Callers
  OBVIOUS
<1>2. CASE AppendAssignment(c)
  <2>1. call'[c].lease \notin Issued
    BY <1>2, Signing
  <2>2. Begun' = Begun
    BY <1>2 DEF AppendAssignment, registry, Begun
  <2> QED
    BY <2>1, <2>2 DEF LeasesKnown
<1>3. CASE ~AppendAssignment(c)
  <2>1. Holds(c) /\ call'[c].lease = call[c].lease /\ call[c].pc # "finish"
    <3>1. CASE call' = call
      BY <3>1 DEF Holds
    <3>2. CASE call' # call
      <4>1. PICK d \in Callers : Select(d) \/ CallStep(d)
        BY <3>2, CallersStay DEF CallerMoves
      <4>2. OthersWait(d)
        BY <4>1, CallsMove DEF CallStep
      <4>3. CASE d # c
        BY <1>1, <4>2, <4>3 DEF OthersWait, Holds
      <4>4. CASE d = c
        <5>1. ~Rests(c, "raise") /\ ~Rests(c, "finish") /\ ~Chooses(c)
          BY DEF Rests, NoCall, Chooses, Holds
        <5>2. \E from \in {"count", "raise", "post", "wait", "report"}, to \in CallPhases : Advances(c, from, to)
          BY <1>3, <4>1, <4>4, <5>1, CallsMove DEF CallStep, CallPhases
        <5> QED
          BY <5>2 DEF Advances, Holds
      <4> QED
        BY <4>3, <4>4
    <3> QED
      BY <3>1, <3>2
  <2>2. /\ call[c].lease \notin Begun
        /\ call[c].worker \in Workers \ Polled /\ lease[call[c].lease].worker = call[c].worker
    BY <1>1, <2>1 DEF ReportedOnce, CallsHold, Holds, Capable
  <2>3. ASSUME NEW d \in Posting, CallerReports(d), Holds(d), call[d].lease = call[c].lease
        PROVE  FALSE
    <3>1. d = c
      BY <1>1, <2>1, <2>3 DEF CallsApart
    <3>2. Advances(c, "report", "finish")
      BY <1>1, <2>3, <3>1, CallsMove
    <3> QED
      BY <3>2 DEF Advances
  <2> QED
    BY <2>1, <2>2, <2>3, ReportsAre
<1> QED
  BY <1>2, <1>3

\* The assignments of a polled worker's queue.
LEMMA QueuedReportedOnce ==
    ASSUME TypeOK, CallsHold, CallsApart, ServersHold, LeasesKnown, ReportedOnce, [Next]_vars,
           NEW w \in Polled, NEW i \in 1 .. Len(pending'[w]), NEW j \in 1 .. Len(pending'[w])
    PROVE  /\ pending'[w][i] \notin Begun'
           /\ i # j => pending'[w][i] # pending'[w][j]
<1>1. /\ w \in Workers /\ pending[w] \in Seq(Leases)
      /\ pending \in [Workers -> Seq(Leases)]
  BY DEF TypeOK
<1>2. \A m, n \in 1 .. Len(pending[w]) :
         /\ pending[w][m] \in Issued /\ lease[pending[w][m]].worker = w
         /\ pending[w][m] \notin Begun
         /\ m # n => pending[w][m] # pending[w][n]
  BY <1>1 DEF LeasesKnown, ReportedOnce
<1>3. \A m \in 1 .. Len(pending[w]) : pending[w][m] \notin Begun'
  BY <1>2, ReportsAre DEF ReportedOnce
<1>4. CASE \E c \in Callers : AppendAssignment(c)
  <2>1. PICK c \in Callers : AppendAssignment(c)
    BY <1>4
  <2> DEFINE v == call[c].worker
             l == call'[c].lease
  <2>2. l \in Leases \ Issued /\ v \in Workers /\ pending' = [pending EXCEPT ![v] = Append(pending[v], l)]
    BY <2>1, Signing
  <2>3. l \notin Begun'
    <3>1. Begun' = Begun
      BY <2>1 DEF AppendAssignment, registry, Begun
    <3> QED
      BY <2>2, <3>1 DEF LeasesKnown
  <2> HIDE DEF v, l
  <2>4. CASE v # w
    BY <1>1, <1>2, <1>3, <2>2, <2>4
  <2>5. CASE v = w
    <3>1. pending'[w] = Append(pending[w], l)
      BY <1>1, <2>2, <2>5
    <3>2. \A n \in 1 .. Len(pending'[w]) : n \in 1 .. Len(pending[w]) \/ n = Len(pending[w]) + 1
      BY <1>1, <2>2, <3>1, AppendTo
    <3>3. \A n \in 1 .. Len(pending[w]) : pending'[w][n] = pending[w][n]
      BY <1>1, <2>2, <3>1, AppendTo
    <3>4. pending'[w][Len(pending[w]) + 1] = l
      BY <1>1, <2>2, <3>1, AppendTo
    <3> QED
      BY <1>2, <1>3, <2>2, <2>3, <3>2, <3>3, <3>4
  <2> QED
    BY <2>4, <2>5
<1>5. CASE \E s \in Servers : Poll(s)
  <2>1. PICK s \in Servers : Poll(s)
    BY <1>5
  <2>2. /\ pending[Host[s]] # <<>>
        /\ pending' = [pending EXCEPT ![Host[s]] = Tail(pending[Host[s]])]
    BY <2>1 DEF Poll
  <2>3. CASE Host[s] # w
    BY <1>1, <1>2, <1>3, <2>2, <2>3
  <2>4. CASE Host[s] = w
    <3>1. pending'[w] = Tail(pending[w]) /\ pending[w] # <<>>
      BY <1>1, <2>2, <2>4
    <3>2. /\ i + 1 \in 1 .. Len(pending[w]) /\ pending'[w][i] = pending[w][i + 1]
          /\ j + 1 \in 1 .. Len(pending[w]) /\ pending'[w][j] = pending[w][j + 1]
      BY <1>1, <3>1, TailOf
    <3>3. i # j => i + 1 # j + 1
      BY <1>1, <3>1, TailOf
    <3> QED
      BY <1>2, <1>3, <3>2, <3>3
  <2> QED
    BY <2>3, <2>4
<1>6. CASE pending' = pending
  BY <1>2, <1>3, <1>6
<1> QED
  BY <1>4, <1>5, <1>6, QueuesStay

\* The leases of the servers that poll.
LEMMA ServedReportedOnce ==
    ASSUME TypeOK, CallsHold, CallsApart, ServersHold, LeasesKnown, ReportedOnce, [Next]_vars,
           NEW s \in Servers, Host[s] \in Polled, Serves(s)'
    PROVE  /\ serve'[s].pc # "report" => serve'[s].lease \notin Begun'
           /\ \A i \in 1 .. Len(pending'[Host[s]]) : pending'[Host[s]][i] # serve'[s].lease
           /\ \A u \in Servers : u # s /\ Serves(u)' => serve'[u].lease # serve'[s].lease
<1> DEFINE w == Host[s]
<1>1. /\ w \in Workers /\ pending[w] \in Seq(Leases)
      /\ pending \in [Workers -> Seq(Leases)]
  BY DEF TypeOK
<1>2. \A u \in Servers : Serves(u) => serve[u].lease \in Issued /\ lease[serve[u].lease].worker = Host[u]
  BY DEF ServersHold
<1>5. ASSUME NEW t \in Servers, Arrive(t) \/ Poll(t) \/ ServerStep(t)
      PROVE  serve' = serve \/ OthersServe(t)
  <2>1. CASE Arrive(t) \/ Poll(t) \/ AgentReports(t) \/ AgentReturns(t) \/ RunEnds(t)
    BY <2>1, ServersMove
  <2>2. CASE Ask(t) \/ Consume(t)
    BY <2>2, ServersMove DEF Ask, Consume, ServePhases
  <2> QED
    BY <1>5, <2>1, <2>2 DEF ServerStep
<1>3. CASE ~Serves(s)
  <2>1. ~WorkerEnds
    BY <1>3, Deaths DEF WorkerEnds, Free, Serves
  <2>2. PICK t \in Servers : Arrive(t) \/ Poll(t) \/ ServerStep(t)
    BY <1>3, <2>1, ServersStay DEF ServerMoves, Serves
  <2>9. t = s
    BY <1>3, <1>5, <2>2 DEF OthersServe, Serves
  <2>3. Poll(s) /\ serve' # serve
    BY <1>3, <2>2, <2>9
    DEF ServerStep, Arrive, Ask, Consume, RunEnds, AgentReports, AgentReturns, ServerAt, Serves
  <2>4. OthersServe(s) /\ serve'[s].lease = Head(pending[w])
    BY <2>3, ServersMove DEF Takes
  <2>5. pending[w] # <<>> /\ pending' = [pending EXCEPT ![w] = Tail(pending[w])] /\ Begun' = Begun
    BY <2>3 DEF Poll, registry, Begun
  <2>6. 1 \in 1 .. Len(pending[w]) /\ serve'[s].lease = pending[w][1]
    BY <1>1, <2>4, <2>5, TailOf
  <2>7. \A m \in 1 .. Len(pending[w]) :
           /\ lease[pending[w][m]].worker = w
           /\ pending[w][m] \notin Begun
           /\ m # 1 => pending[w][m] # pending[w][1]
    BY <1>1, <2>6 DEF LeasesKnown, ReportedOnce
  <2>8. \A i \in 1 .. Len(pending'[w]) : pending'[w][i] # serve'[s].lease
    <3> SUFFICES ASSUME NEW i \in 1 .. Len(pending'[w]) PROVE pending'[w][i] # pending[w][1]
      BY <2>6
    <3>1. pending'[w] = Tail(pending[w])
      BY <1>1, <2>5
    <3>2. i + 1 \in 1 .. Len(pending[w]) /\ pending'[w][i] = pending[w][i + 1] /\ i + 1 # 1
      BY <1>1, <2>5, <3>1, TailOf
    <3> QED
      BY <2>7, <3>2
  <2>10. ASSUME NEW u \in Servers, u # s, Serves(u)' PROVE serve'[u].lease # serve'[s].lease
    <3>1. serve'[u] = serve[u] /\ Serves(u)
      BY <2>4, <2>10 DEF OthersServe, Serves
    <3>2. CASE Host[u] = w
      BY <2>6, <3>1, <3>2 DEF ReportedOnce
    <3>3. CASE Host[u] # w
      BY <1>2, <2>6, <2>7, <3>1, <3>3
    <3> QED
      BY <3>2, <3>3
  <2> QED
    BY <2>5, <2>6, <2>7, <2>8, <2>10
<1>4. CASE Serves(s)
  <2>1. /\ serve[s].pc # "report" => serve[s].lease \notin Begun
        /\ \A i \in 1 .. Len(pending[w]) : pending[w][i] # serve[s].lease
        /\ \A u \in Servers : u # s /\ Serves(u) => serve[u].lease # serve[s].lease
    BY <1>4 DEF ReportedOnce
  <2>2. /\ serve'[s].lease = serve[s].lease
        /\ serve'[s].pc # "report" => serve[s].pc # "report" /\ ~AgentReports(s)
        /\ \A u \in Servers : u # s /\ Serves(u)' =>
              \/ serve'[u].lease = serve[u].lease /\ Serves(u)
              \/ \E l \in Issued : serve'[u].lease = l /\ lease[l].worker = Host[u] /\ Host[u] \notin Polled
              \/ Poll(u) /\ serve'[u].lease = Head(pending[Host[u]])
    <3>1. CASE ~ServerMoves /\ ~WorkerEnds
      <4>1. serve' = serve
        BY <3>1, ServersStay
      <4>2. ~AgentReports(s)
        BY <3>1 DEF ServerMoves, ServerStep
      <4> QED
        BY <4>1, <4>2 DEF Serves
    <3>2. CASE WorkerEnds
      <4>1. \A u \in Servers : serve'[u] = serve[u] \/ (serve'[u] = Free /\ Host[u] \notin Polled)
        BY <3>2, Deaths DEF WorkerEnds
      <4>2. AgentReports(s) => FALSE
        <5>1. serve'[s] = serve[s]
          BY <4>1
        <5>2. AgentReports(s) => serve[s].pc # "report" /\ serve'[s].pc = "report"
          BY ServersMove DEF AgentReports, Serving
        <5> QED
          BY <5>1, <5>2
      <4> QED
        BY <4>1, <4>2 DEF Serves, Free
    <3>3. CASE ServerMoves
      <4>1. PICK t \in Servers : Arrive(t) \/ Poll(t) \/ ServerStep(t)
        BY <3>3 DEF ServerMoves
      <4>2. \/ serve' = serve
            \/ /\ OthersServe(t)
               /\ \/ Frees(t)
                  \/ Serves(t) /\ serve'[t].lease = serve[t].lease
                  \/ /\ Arrive(t) /\ serve[t].pc = "free"
                     /\ \E l \in posted : serve'[t].lease = l /\ Addressed(t, l)
                  \/ Poll(t) /\ serve[t].pc = "free" /\ serve'[t].lease = Head(pending[Host[t]])
        <5>1. CASE Arrive(t) \/ Poll(t) \/ AgentReturns(t)
          BY <5>1, ServersMove DEF Takes
        <5>2. CASE Ask(t) \/ Consume(t) \/ RunEnds(t) \/ AgentReports(t)
          <6>1. Serves(t)
            BY <5>2 DEF Ask, Consume, RunEnds, AgentReports, ServerAt, Serves
          <6>2. CASE Ask(t) \/ Consume(t)
            <7>1. (\E a \in {"ok", "bad"} : Answers(t, a)) \/ \E pc \in ServePhases : ServerGoes(t, pc)
              BY <6>2 DEF Ask, Consume, ServePhases
            <7> QED
              BY <6>1, <7>1, ServersMove DEF Serving
          <6>3. CASE RunEnds(t) \/ AgentReports(t)
            BY <6>1, <6>3, ServersMove DEF Serving
          <6> QED
            BY <5>2, <6>2, <6>3
        <5> QED
          BY <4>1, <5>1, <5>2 DEF ServerStep
      <4>3. serve'[s].lease = serve[s].lease
        BY <1>4, <4>2 DEF OthersServe, Frees, Serves
      <4>4. ASSUME serve'[s].pc # "report" PROVE serve[s].pc # "report" /\ ~AgentReports(s)
        <5>1. AgentReports(s) => FALSE
          BY <4>4, ServersMove DEF Serving
        <5>2. ASSUME serve[s].pc = "report" PROVE FALSE
          <6>1. t = s
            BY <1>5, <4>1, <4>4, <5>2 DEF OthersServe
          <6>2. AgentReturns(s)
            BY <1>4, <4>1, <5>2, <6>1
            DEF ServerStep, Arrive, Poll, Ask, Consume, RunEnds, AgentReports, ServerAt
          <6> QED
            BY <1>4, <6>2, ServersMove DEF Frees, Serves
        <5> QED
          BY <5>1, <5>2
      <4>5. Arrive(t) => Host[t] \notin Polled
        BY DEF Arrive
      <4>6. \A l \in posted : Addressed(t, l) => l \in Issued /\ lease[l].worker = Host[t]
        BY DEF LeasesKnown, Addressed
      <4>7. ASSUME NEW u \in Servers, u # s, Serves(u)'
            PROVE  \/ serve'[u].lease = serve[u].lease /\ Serves(u)
                   \/ \E l \in Issued : serve'[u].lease = l /\ lease[l].worker = Host[u] /\ Host[u] \notin Polled
                   \/ Poll(u) /\ serve'[u].lease = Head(pending[Host[u]])
        <5>1. CASE u # t \/ serve' = serve
          BY <4>2, <4>7, <5>1 DEF OthersServe, Serves
        <5>2. CASE u = t /\ serve' # serve
          BY <4>2, <4>5, <4>6, <4>7, <5>2 DEF Frees, Serves
        <5> QED
          BY <5>1, <5>2
      <4> QED
        BY <4>3, <4>4, <4>7
    <3> QED
      BY <3>1, <3>2, <3>3
  <2>3. serve[s].lease \in Issued /\ lease[serve[s].lease].worker = w
    BY <1>2, <1>4
  <2>4. ASSUME serve'[s].pc # "report" PROVE serve[s].lease \notin Begun'
    <3>1. ASSUME NEW t \in Servers, AgentReports(t), Serves(t) PROVE serve[t].lease # serve[s].lease
      BY <2>1, <2>2, <2>4, <3>1
    <3> QED
      BY <2>1, <2>2, <2>3, <2>4, <3>1, ReportsAre
  <2>5. ASSUME NEW i \in 1 .. Len(pending'[w]) PROVE pending'[w][i] # serve[s].lease
    <3>1. CASE \E c \in Callers : AppendAssignment(c)
      <4>1. PICK c \in Callers : AppendAssignment(c)
        BY <3>1
      <4> DEFINE v == call[c].worker
                 l == call'[c].lease
      <4>2. l \in Leases \ Issued /\ v \in Workers /\ pending' = [pending EXCEPT ![v] = Append(pending[v], l)]
        BY <4>1, Signing
      <4> HIDE DEF v, l, w
      <4>3. CASE v # w
        BY <1>1, <2>1, <2>5, <4>2, <4>3
      <4>4. CASE v = w
        <5>1. pending'[w] = Append(pending[w], l)
          BY <1>1, <4>2, <4>4
        <5>2. i \in 1 .. Len(pending[w]) \/ i = Len(pending[w]) + 1
          BY <1>1, <2>5, <4>2, <5>1, AppendTo
        <5> QED
          BY <1>1, <2>1, <2>3, <4>2, <5>1, <5>2, AppendTo
      <4> QED
        BY <4>3, <4>4
    <3>2. CASE \E t \in Servers : Poll(t)
      <4>1. PICK t \in Servers : Poll(t)
        BY <3>2
      <4>2. /\ pending[Host[t]] # <<>>
            /\ pending' = [pending EXCEPT ![Host[t]] = Tail(pending[Host[t]])]
        BY <4>1 DEF Poll
      <4> HIDE DEF w
      <4>3. CASE Host[t] # w
        BY <1>1, <2>1, <2>5, <4>2, <4>3
      <4>4. CASE Host[t] = w
        <5>1. pending'[w] = Tail(pending[w]) /\ pending[w] # <<>>
          BY <1>1, <4>2, <4>4
        <5>2. i + 1 \in 1 .. Len(pending[w]) /\ pending'[w][i] = pending[w][i + 1]
          BY <1>1, <2>5, <5>1, TailOf
        <5> QED
          BY <2>1, <5>2
      <4> QED
        BY <4>3, <4>4
    <3>3. CASE pending' = pending
      BY <2>1, <2>5, <3>3
    <3> QED
      BY <3>1, <3>2, <3>3, QueuesStay
  <2>6. ASSUME NEW u \in Servers, u # s, Serves(u)' PROVE serve'[u].lease # serve[s].lease
    <3>1. CASE serve'[u].lease = serve[u].lease /\ Serves(u)
      BY <2>1, <2>6, <3>1
    <3>2. CASE \E l \in Issued : serve'[u].lease = l /\ lease[l].worker = Host[u] /\ Host[u] \notin Polled
      BY <2>3, <3>2
    <3>3. CASE Poll(u) /\ serve'[u].lease = Head(pending[Host[u]])
      <4>1. /\ Host[u] \in Polled /\ Host[u] \in Workers /\ pending[Host[u]] # <<>>
            /\ pending[Host[u]] \in Seq(Leases)
        BY <3>3 DEF Poll, TypeOK
      <4>2. 1 \in 1 .. Len(pending[Host[u]]) /\ serve'[u].lease = pending[Host[u]][1]
        BY <3>3, <4>1, TailOf
      <4>3. lease[serve'[u].lease].worker = Host[u]
        BY <4>1, <4>2 DEF LeasesKnown
      <4>4. CASE Host[u] = w
        BY <2>1, <4>2, <4>4
      <4>5. CASE Host[u] # w
        BY <2>3, <4>3, <4>5
      <4> QED
        BY <4>4, <4>5
    <3> QED
      BY <2>2, <2>6, <3>1, <3>2, <3>3
  <2> QED
    BY <2>2, <2>4, <2>5, <2>6
<1> QED
  BY <1>3, <1>4

LEMMA ReportedStep ==
    ASSUME TypeOK, CallsHold, CallsApart, ServersHold, LeasesKnown, ReportedOnce, [Next]_vars
    PROVE  ReportedOnce'
<1>1. \A c \in Posting : Holds(c)' /\ call'[c].pc # "finish" => call'[c].lease \notin Begun'
  BY PostedReportedOnce
<1>2. \A w \in Polled : \A i, j \in 1 .. Len(pending'[w]) :
         pending'[w][i] \notin Begun' /\ (i # j => pending'[w][i] # pending'[w][j])
  BY QueuedReportedOnce
<1>3. \A s \in Servers : Host[s] \in Polled /\ Serves(s)' =>
         /\ serve'[s].pc # "report" => serve'[s].lease \notin Begun'
         /\ \A i \in 1 .. Len(pending'[Host[s]]) : pending'[Host[s]][i] # serve'[s].lease
         /\ \A u \in Servers : u # s /\ Serves(u)' => serve'[u].lease # serve'[s].lease
  BY ServedReportedOnce
<1> QED
  BY <1>1, <1>2, <1>3 DEF ReportedOnce
-----------------------------------------------------------------------------
(* Loads. *)

LEMMA LoadSetsFinite ==
    ASSUME TypeOK, NEW w
    PROVE  /\ IsFiniteSet(Unfinished(w)) /\ IsFiniteSet(EarlyReported(w))
           /\ IsFiniteSet(Coming(w)) /\ IsFiniteSet(Reaching(w))
           /\ Cardinality(Unfinished(w)) \in Nat /\ Cardinality(EarlyReported(w)) \in Nat
           /\ Cardinality(Coming(w)) \in Nat /\ Cardinality(Reaching(w)) \in Nat
<1>1. IsFiniteSet(Leases)
  BY FS_Interval DEF Leases
<1>2. Unfinished(w) \subseteq Leases /\ EarlyReported(w) \subseteq Leases
  BY DEF TypeOK, Unfinished, EarlyReported, Reported
<1>3. Coming(w) \subseteq Callers /\ Reaching(w) \subseteq Callers
  BY DEF Coming, Reaching
<1>4. /\ IsFiniteSet(Unfinished(w)) /\ IsFiniteSet(EarlyReported(w))
      /\ IsFiniteSet(Coming(w)) /\ IsFiniteSet(Reaching(w))
  BY <1>1, <1>2, <1>3, FS_Subset
<1> QED
  BY <1>4, FS_CardinalityType

\* Signing a lease changes nothing in what is counted and reported.
LEMMA SigningLeaves ==
    ASSUME TypeOK, CallsHold, LeasesKnown, [Next]_vars, counted' = counted, Reported' = Reported,
           NEW w
    PROVE  Unfinished(w)' = Unfinished(w) /\ EarlyReported(w)' = EarlyReported(w)
<1>1. Reported \subseteq Begun
  BY DEF Reported, Begun
<1>2. \A l \in counted \cup Reported : lease'[l] = lease[l]
  BY <1>1, IssuedStay DEF LeasesKnown
<1> QED
  BY <1>2 DEF Unfinished, EarlyReported

\* What is reported, over a step.
LEMMA ReportedMoves ==
    ASSUME TypeOK, LeasesKnown, [Next]_vars
    PROVE  /\ \A l \in Leases : Lower(l) => Reported' = Reported \cup {l} /\ l \notin Reported
           /\ \A l \in Issued \ Begun, ok \in BOOLEAN : ReportRead(l, ok) => Reported' = Reported
           /\ \A l \in Leases : Fail(l) \/ Judge(l) => Reported' = Reported
           /\ report' = report => Reported' = Reported
<1>1. ASSUME NEW l \in Leases, NEW pc \in {"lower", "fail", "judge", "done"}, Says(l, pc)
      PROVE  Reported' = IF pc = "lower" THEN Reported \ {l} ELSE Reported \cup {l}
  BY <1>1 DEF Says, Reported
<1>2. ASSUME NEW l \in Leases, Lower(l) PROVE Reported' = Reported \cup {l} /\ l \notin Reported
  BY <1>1, <1>2, ReportsMove DEF Reported
<1>3. ASSUME NEW l \in Issued \ Begun, NEW ok \in BOOLEAN, ReportRead(l, ok) PROVE Reported' = Reported
  <2>1. l \in Leases /\ l \notin Reported
    BY DEF Issued, Begun, Reported
  <2> QED
    BY <1>1, <1>3, <2>1, ReportsMove
<1>4. ASSUME NEW l \in Leases, Fail(l) \/ Judge(l) PROVE Reported' = Reported
  BY <1>1, <1>4, ReportsMove DEF Reported
<1> QED
  BY <1>2, <1>3, <1>4 DEF Reported

\* What the write of a load adds to it and to what was undone: no raise and no lowering that
\* is not counted gets lost.
LEMMA Writes ==
    ASSUME TypeOK, NEW v \in Workers, NEW seen \in Nat, Loses(v, seen), NEW w \in Workers
    PROVE  /\ load' = [load EXCEPT ![v] = seen + 1] =>
                 LET n == IF w = v THEN 1 ELSE 0
                 IN  /\ load'[w] \in Nat
                     /\ load'[w] + raisesLost'[w] >= load[w] + raisesLost[w] + n
                     /\ load'[w] + dropsLost[w] <= load[w] + n + dropsLost'[w]
           /\ load' = [load EXCEPT ![v] = Less(seen)] =>
                 LET n == IF w = v THEN 1 ELSE 0
                 IN  /\ load'[w] \in Nat
                     /\ load'[w] + raisesLost'[w] + n >= load[w] + raisesLost[w]
                     /\ load'[w] + dropsLost[w] <= load[w] + dropsLost'[w]
<1>1. /\ load \in [Workers -> Nat] /\ raisesLost \in [Workers -> Nat] /\ dropsLost \in [Workers -> Nat]
      /\ load[v] \in Nat /\ load[w] \in Nat /\ raisesLost[w] \in Nat /\ dropsLost[w] \in Nat
  BY DEF TypeOK
<1>2. /\ raisesLost'[w] \in Nat /\ dropsLost'[w] \in Nat
      /\ raisesLost'[v] = raisesLost[v] + Excess(load[v], seen)
      /\ dropsLost'[v] = dropsLost[v] + Excess(seen, load[v])
      /\ w # v => raisesLost'[w] = raisesLost[w] /\ dropsLost'[w] = dropsLost[w]
  BY LosesTyped
<1>3. CASE w # v
  BY <1>1, <1>2, <1>3
<1>4. CASE w = v
  <2>1. /\ raisesLost'[w] = raisesLost[w] + (IF load[w] > seen THEN load[w] - seen ELSE 0)
        /\ dropsLost'[w] = dropsLost[w] + (IF seen > load[w] THEN seen - load[w] ELSE 0)
    BY <1>2, <1>4 DEF Excess
  <2>2. CASE load' = [load EXCEPT ![v] = seen + 1]
    <3>1. load'[w] = seen + 1
      BY <1>1, <1>4, <2>2
    <3>2. load' # [load EXCEPT ![v] = Less(seen)]
      <4>1. Less(seen) # seen + 1
        BY DEF Less
      <4> QED
        BY <1>1, <1>4, <3>1, <4>1
    <3> QED
      BY <1>1, <1>2, <1>4, <2>1, <3>1, <3>2
  <2>3. CASE load' = [load EXCEPT ![v] = Less(seen)]
    <3>1. load'[w] = IF seen = 0 THEN 0 ELSE seen - 1
      BY <1>1, <1>4, <2>3 DEF Less
    <3>2. load' # [load EXCEPT ![v] = seen + 1]
      BY <1>1, <1>4, <3>1
    <3> QED
      BY <1>1, <1>2, <1>4, <2>1, <3>1, <3>2
  <2> QED
    BY <1>1, <1>2, <2>2, <2>3
<1> QED
  BY <1>3, <1>4

\* A report that writes the load of its worker settles its lease.
LEMMA ReportLowers ==
    ASSUME TypeOK, LeasesKnown, LoadsPromised, [Next]_vars, NEW l \in Leases, Lower(l),
           NEW w \in Workers
    PROVE  /\ load'[w] + raisesLost'[w] + Cardinality(EarlyReported(w)') >= Cardinality(Unfinished(w)')
           /\ load'[w] + dropsLost[w] <= load[w] + dropsLost'[w]
           /\ load'[w] \in Nat /\ dropsLost'[w] \in Nat
<1> DEFINE U == Unfinished(w)
           E == EarlyReported(w)
           v == lease[l].worker
<1>1. /\ IsFiniteSet(U) /\ IsFiniteSet(E) /\ Cardinality(U) \in Nat /\ Cardinality(E) \in Nat
      /\ load[w] \in Nat /\ raisesLost[w] \in Nat /\ dropsLost[w] \in Nat
      /\ load[w] + raisesLost[w] + Cardinality(E) >= Cardinality(U)
  BY LoadSetsFinite DEF LoadsPromised, TypeOK
<1>2. l \in Issued /\ v \in Workers /\ report[l].seen \in Nat
  <2>1. l \in Issued
    BY DEF Lower, ReportAt, LeasesKnown, Begun
  <2>2. lease[l] \in LeaseType /\ report[l] \in ReportType
    BY ActorsTyped
  <2> QED
    BY <2>1, <2>2 DEF Issued, LeaseType, ReportType
<1>3. Reported' = Reported \cup {l} /\ l \notin Reported /\ lease' = lease /\ counted' = counted
  BY ReportedMoves DEF Lower, PlaneStays
<1> DEFINE n == IF w = v THEN 1 ELSE 0
<1>4. /\ load'[w] \in Nat /\ raisesLost'[w] \in Nat /\ dropsLost'[w] \in Nat
      /\ load'[w] + raisesLost'[w] + n >= load[w] + raisesLost[w]
      /\ load'[w] + dropsLost[w] <= load[w] + dropsLost'[w]
  <2>1. Loses(v, report[l].seen) /\ load' = [load EXCEPT ![v] = Less(report[l].seen)]
    BY DEF Lower
  <2>2. raisesLost'[w] \in Nat /\ dropsLost'[w] \in Nat
    BY <1>2, <2>1, LosesTyped
  <2> HIDE DEF v
  <2> QED
    BY <1>2, <2>1, <2>2, Writes
<1>5. CASE v # w
  <2>1. Unfinished(w)' = U /\ EarlyReported(w)' = E
    BY <1>3, <1>5 DEF Unfinished, EarlyReported
  <2> HIDE DEF U, E, v
  <2> QED
    BY <1>1, <1>4, <1>5, <2>1
<1>6. CASE v = w
  <2>3. CASE l \in counted
    <3>1. Unfinished(w)' = U \ {l} /\ l \in U /\ EarlyReported(w)' = E
      BY <1>3, <1>6, <2>3 DEF Unfinished, EarlyReported
    <3>2. Cardinality(Unfinished(w)') = Cardinality(U) - 1
      BY <1>1, <3>1, FS_RemoveElement
    <3> HIDE DEF U, E, v
    <3> QED
      BY <1>1, <1>4, <1>6, <3>1, <3>2
  <2>4. CASE l \notin counted
    <3>1. Unfinished(w)' = U /\ EarlyReported(w)' = E \cup {l} /\ l \notin E
      BY <1>3, <1>6, <2>4 DEF Unfinished, EarlyReported
    <3>2. Cardinality(EarlyReported(w)') = Cardinality(E) + 1
      BY <1>1, <3>1, FS_AddElement
    <3> HIDE DEF U, E, v
    <3> QED
      BY <1>1, <1>4, <1>6, <3>1, <3>2
  <2> QED
    BY <2>3, <2>4
<1> QED
  BY <1>4, <1>5, <1>6

LEMMA LoadsStep ==
    ASSUME TypeOK, CallsHold, CallsApart, ServersHold, LeasesKnown, ReportedOnce, LoadsPromised,
           [Next]_vars
    PROVE  LoadsPromised'
<1> SUFFICES ASSUME NEW w \in Workers
             PROVE  /\ load'[w] + raisesLost'[w] + Cardinality(EarlyReported(w)') >= Cardinality(Unfinished(w)')
                    /\ load'[w] + Cardinality(Coming(w)') < Capacity + Cardinality(Reaching(w)) + dropsLost'[w]
  <2>1. \A v : Reaching(v)' = Reaching(v)
    BY DEF Reaching, Capable
  <2> QED
    BY <2>1 DEF LoadsPromised
<1> DEFINE U == Unfinished(w)
           E == EarlyReported(w)
           C == Coming(w)
           R == Reaching(w)
<1>1. /\ IsFiniteSet(U) /\ IsFiniteSet(E) /\ IsFiniteSet(C) /\ IsFiniteSet(R)
      /\ Cardinality(U) \in Nat /\ Cardinality(E) \in Nat
      /\ Cardinality(C) \in Nat /\ Cardinality(R) \in Nat
      /\ load[w] \in Nat /\ raisesLost[w] \in Nat /\ dropsLost[w] \in Nat
      /\ load[w] + raisesLost[w] + Cardinality(E) >= Cardinality(U)
      /\ load[w] + Cardinality(C) < Capacity + Cardinality(R) + dropsLost[w]
  BY LoadSetsFinite DEF LoadsPromised, TypeOK
<1> HIDE DEF U, E, C, R
<1>2. ASSUME UNCHANGED <<load, raisesLost, dropsLost, counted>>, Reported' = Reported, Coming(w)' = C
      PROVE  /\ load'[w] + raisesLost'[w] + Cardinality(EarlyReported(w)') >= Cardinality(Unfinished(w)')
             /\ load'[w] + Cardinality(Coming(w)') < Capacity + Cardinality(R) + dropsLost'[w]
  <2>1. Unfinished(w)' = U /\ EarlyReported(w)' = E
    BY <1>2, SigningLeaves DEF U, E
  <2> QED
    BY <1>1, <1>2, <2>1
<1>3. ASSUME NEW c \in Callers, Select(c)
      PROVE  /\ load'[w] + raisesLost'[w] + Cardinality(EarlyReported(w)') >= Cardinality(Unfinished(w)')
             /\ load'[w] + Cardinality(Coming(w)') < Capacity + Cardinality(R) + dropsLost'[w]
  <2>1. OthersWait(c) /\ Chooses(c)
    BY <1>3, CallsMove
  <2>2. UNCHANGED <<load, raisesLost, dropsLost, counted, lease>> /\ Reported' = Reported
    BY <1>3, ReportedMoves DEF Select, planeVars, registry
  <2>3. CASE call'[c].worker # w
    <3>1. Coming(w)' = C
      BY <2>1, <2>3 DEF Coming, OthersWait, Chooses, C
    <3> QED
      BY <1>2, <2>2, <3>1
  <2>4. CASE call'[c].worker = w
    <3>1. load[w] < Capacity /\ c \in R
      BY <2>1, <2>4 DEF Chooses, Eligible, HasRoom, R, Reaching
    <3>2. \A d \in Callers : call[d].pc # "idle" => call[d].worker \in Capable(d)
      BY DEF CallsHold
    <3>3. Coming(w)' \subseteq R
      BY <2>1, <3>1, <3>2 DEF Coming, OthersWait, R, Reaching
    <3>4. IsFiniteSet(Coming(w)') /\ Cardinality(Coming(w)') <= Cardinality(R)
          /\ Cardinality(Coming(w)') \in Nat
      BY <1>1, <3>3, FS_Subset, FS_CardinalityType
    <3>5. Unfinished(w)' = U /\ EarlyReported(w)' = E
      BY <2>2 DEF U, E, Unfinished, EarlyReported
    <3> QED
      BY <1>1, <2>2, <3>1, <3>4, <3>5
  <2> QED
    BY <2>3, <2>4
<1>4. ASSUME NEW c \in Callers, AppendAssignment(c) \/ Count(c)
      PROVE  /\ UNCHANGED <<load, raisesLost, dropsLost, counted>> /\ Reported' = Reported
             /\ Coming(w)' = C
  <2>1. OthersWait(c) /\ (Signs(c) \/ Advances(c, "count", "raise"))
    BY <1>4, CallsMove
  <2>2. Coming(w)' = C
    BY <2>1 DEF Coming, OthersWait, Signs, Advances, C
  <2> QED
    BY <1>4, <2>2, ReportedMoves DEF AppendAssignment, Count, planeVars, registry
<1>5. ASSUME NEW c \in Callers, Raise(c)
      PROVE  /\ load'[w] + raisesLost'[w] + Cardinality(EarlyReported(w)') >= Cardinality(Unfinished(w)')
             /\ load'[w] + Cardinality(Coming(w)') < Capacity + Cardinality(R) + dropsLost'[w]
  <2> DEFINE v == call[c].worker
             l == call[c].lease
  <2>1. OthersWait(c) /\ call[c].pc = "raise" /\ call'[c].pc \notin {"append", "count", "raise"}
    BY <1>5, CallsMove DEF Advances, Rests, NoCall
  <2>2. /\ counted' = counted \cup {l} /\ lease' = lease /\ Reported' = Reported
    BY <1>5, ReportedMoves DEF Raise
  <2>3. v \in Workers /\ l \in Leases /\ l \notin counted /\ lease[l].worker = v
    BY <2>1, CapableIsRegistered DEF CallsHold, Holds, Issued
  <2>6. /\ load'[w] \in Nat /\ raisesLost'[w] \in Nat /\ dropsLost'[w] \in Nat
        /\ load'[w] + raisesLost'[w] >= load[w] + raisesLost[w] + (IF w = v THEN 1 ELSE 0)
        /\ load'[w] + dropsLost[w] <= load[w] + (IF w = v THEN 1 ELSE 0) + dropsLost'[w]
    <3>1. Loses(v, call[c].seen) /\ load' = [load EXCEPT ![v] = call[c].seen + 1]
      BY <1>5 DEF Raise
    <3>2. call[c].seen \in Nat
      BY DEF TypeOK
    <3>3. raisesLost'[w] \in Nat /\ dropsLost'[w] \in Nat
      BY <2>3, <3>1, <3>2, LosesTyped
    <3> HIDE DEF v
    <3> QED
      BY <2>3, <3>1, <3>2, <3>3, Writes
  <2> HIDE DEF l
  <2>4. CASE v # w
    <3>1. Unfinished(w)' = U /\ EarlyReported(w)' = E
      BY <2>2, <2>3, <2>4 DEF Unfinished, EarlyReported, U, E
    <3>2. Coming(w)' = C
      BY <2>1, <2>4 DEF Coming, OthersWait, C
    <3> HIDE DEF v
    <3> QED
      BY <1>1, <2>4, <2>6, <3>1, <3>2
  <2>5. CASE v = w
    <3>1. /\ load'[w] + raisesLost'[w] >= load[w] + raisesLost[w] + 1
          /\ load'[w] + dropsLost[w] <= load[w] + 1 + dropsLost'[w]
      BY <2>5, <2>6
    <3>2. Coming(w)' = C \ {c} /\ c \in C
      BY <2>1, <2>5 DEF Coming, OthersWait, C
    <3>3. Cardinality(Coming(w)') = Cardinality(C) - 1
      BY <1>1, <3>2, FS_RemoveElement
    <3>4. load'[w] + Cardinality(Coming(w)') < Capacity + Cardinality(R) + dropsLost'[w]
      BY <1>1, <2>6, <3>1, <3>3
    <3>5. CASE l \in Reported
      <4>1. Unfinished(w)' = U /\ EarlyReported(w)' = E \ {l} /\ l \in E
        BY <2>2, <2>3, <2>5, <3>5 DEF Unfinished, EarlyReported, U, E
      <4>2. Cardinality(EarlyReported(w)') = Cardinality(E) - 1
        BY <1>1, <4>1, FS_RemoveElement
      <4> QED
        BY <1>1, <2>6, <3>1, <3>4, <4>1, <4>2
    <3>6. CASE l \notin Reported
      <4>1. Unfinished(w)' = U \cup {l} /\ l \notin U /\ EarlyReported(w)' = E
        BY <2>2, <2>3, <2>5, <3>6 DEF Unfinished, EarlyReported, U, E
      <4>2. Cardinality(Unfinished(w)') = Cardinality(U) + 1
        BY <1>1, <4>1, FS_AddElement
      <4> QED
        BY <1>1, <2>6, <3>1, <3>4, <4>1, <4>2
    <3> QED
      BY <3>5, <3>6
  <2> QED
    BY <2>4, <2>5
<1>6. ASSUME NEW l \in Leases, Lower(l)
      PROVE  /\ load'[w] + raisesLost'[w] + Cardinality(EarlyReported(w)') >= Cardinality(Unfinished(w)')
             /\ load'[w] + Cardinality(Coming(w)') < Capacity + Cardinality(R) + dropsLost'[w]
  <2>1. /\ load'[w] + raisesLost'[w] + Cardinality(EarlyReported(w)') >= Cardinality(Unfinished(w)')
        /\ load'[w] + dropsLost[w] <= load[w] + dropsLost'[w]
        /\ load'[w] \in Nat /\ dropsLost'[w] \in Nat
    BY <1>6, ReportLowers
  <2>2. Coming(w)' = C
    BY <1>6 DEF Lower, PlaneStays, callVars, Coming, C
  <2> QED
    BY <1>1, <2>1, <2>2
<1>7. ASSUME NEW c \in Callers, CallerReports(c) PROVE Reported' = Reported /\ Coming(w)' = C
  <2>1. OthersWait(c) /\ Advances(c, "report", "finish")
    BY <1>7, CallsMove
  <2>2. Coming(w)' = C
    BY <2>1 DEF Coming, OthersWait, Advances, C
  <2>3. call[c].lease \in Issued \ Begun /\ call[c].ok \in BOOLEAN
    BY <2>1 DEF Advances, CallsHold, Holds, ReportedOnce, TypeOK
  <2>4. ReportRead(call[c].lease, call[c].ok)
    BY <1>7 DEF CallerReports
  <2> QED
    BY <2>2, <2>3, <2>4, ReportedMoves
<1>8. ASSUME NEW s \in Servers, AgentReports(s) PROVE Reported' = Reported /\ Coming(w)' = C
  <2>1. Coming(w)' = C
    BY <1>8 DEF AgentReports, callVars, Coming, C
  <2>2. serve[s].lease \in Issued \ Begun
    BY <1>8 DEF AgentReports, ServersHold, Serves, ReportedOnce
  <2>3. ReportRead(serve[s].lease, ServerAt(s, "done")) /\ ServerAt(s, "done") \in BOOLEAN
    BY <1>8 DEF AgentReports, ServerAt
  <2> QED
    BY <2>1, <2>2, <2>3, ReportedMoves
<1>10. CASE /\ ~\E c \in Callers : \/ Select(c) \/ AppendAssignment(c) \/ Count(c) \/ Raise(c)
            /\ ~\E l \in Leases : Lower(l)
  <2>1. UNCHANGED <<load, raisesLost, dropsLost>>
    BY <1>10, LoadsStay
  <2>2. counted' = counted /\ Coming(w)' = C
    <3>1. CASE CallerMoves
      <4>1. PICK c \in Callers : Post(c) \/ Hear(c) \/ TimeOut(c) \/ CallerReports(c) \/ Finish(c)
        BY <1>10, <3>1 DEF CallerMoves, CallStep
      <4>2. /\ OthersWait(c)
            /\ \/ Advances(c, "post", "wait") \/ Advances(c, "wait", "report")
               \/ Advances(c, "report", "finish") \/ Rests(c, "finish")
        BY <4>1, CallsMove
      <4>3. Coming(w)' = C
        BY <4>2 DEF Coming, OthersWait, Advances, Rests, NoCall, C
      <4> QED
        BY <4>1, <4>3 DEF Post, Hear, TimeOut, CallerReports, Finish, planeVars
    <3>2. CASE ~CallerMoves
      BY <3>2, CallersStay DEF Coming, C
    <3> QED
      BY <3>1, <3>2
  <2>3. Reported' = Reported
    <3>1. CASE ReportMoves
      BY <1>10, <3>1, ReportedMoves DEF ReportMoves
    <3> QED
      BY <1>7, <1>8, <3>1, ReportsStay, ReportedMoves
  <2>4. UNCHANGED <<load, raisesLost, dropsLost, counted>>
    BY <2>1, <2>2
  <2> QED
    BY <1>2, <2>2, <2>3, <2>4 DEF R
<1>11. CASE \E c \in Callers : AppendAssignment(c) \/ Count(c)
  BY <1>2, <1>4, <1>11 DEF R
<1> QED
  BY <1>3, <1>5, <1>6, <1>10, <1>11 DEF R
-----------------------------------------------------------------------------
(* The invariant, and what it says. *)

LEMMA InvariantHolds == Spec => []IInv
<1>1. Init => IInv
  <2> SUFFICES ASSUME Init PROVE IInv
    OBVIOUS
  <2>1. TypeOK
    <3>1. /\ call \in [Callers -> CallType] /\ serve \in [Servers -> ServeType]
          /\ lease \in [Leases -> LeaseType] /\ report \in [Leases -> ReportType]
      BY NoneTyped DEF Init
    <3>2. /\ load \in [Workers -> Nat] /\ failures \in [Workers -> Nat]
          /\ pending \in [Workers -> Seq(Leases)] /\ ran \in [Leases -> Nat]
          /\ answer \in [Leases -> {"none", "ok", "bad"}] /\ byKey \in [Keys -> 0 .. MaxLeases]
          /\ faults \in 0 .. MaxFaults /\ forgot \in [Leases -> Nat]
          /\ raisesLost \in [Workers -> Nat] /\ dropsLost \in [Workers -> Nat]
      BY DEF Init
    <3>3. /\ healthy \subseteq Workers
          /\ {quarantined, counted, revoked, consumed, completed, posted, stopped} = {{}}
      BY DEF Init
    <3> QED
      BY <3>1, <3>2, <3>3
      DEF TypeOK, CallType, CallPhases, ServeType, ServePhases, LeaseType, ReportType, ReportPhases
  <2>2. CallsHold /\ CallsApart /\ ServersHold
    BY DEF Init, CallsHold, CallsApart, ServersHold, Holds, Serves, NoCall, Free
  <2>3. LeasesKnown /\ RunsOnce /\ ReportedOnce
    <3>1. \A w \in Workers : Len(pending[w]) = 0
      BY DEF Init
    <3>2. Begun = {}
      BY DEF Init, Begun, NoReport
    <3> QED
      BY <3>1, <3>2
      DEF Init, LeasesKnown, RunsOnce, ReportedOnce, InHand, Holds, Serves, NoCall, Free
  <2>4. LoadsPromised
    <3> SUFFICES ASSUME NEW w \in Workers
                 PROVE  /\ load[w] + raisesLost[w] + Cardinality(EarlyReported(w))
                              >= Cardinality(Unfinished(w))
                        /\ load[w] + Cardinality(Coming(w))
                              < Capacity + Cardinality(Reaching(w)) + dropsLost[w]
      BY DEF LoadsPromised
    <3>1. /\ load[w] = 0 /\ raisesLost[w] = 0 /\ dropsLost[w] = 0
          /\ EarlyReported(w) = {} /\ Unfinished(w) = {} /\ Coming(w) = {}
      BY DEF Init, EarlyReported, Unfinished, Reported, Coming, NoCall, NoReport
    <3>2. Cardinality(Reaching(w)) \in Nat
      BY <2>1, LoadSetsFinite
    <3> QED
      BY <3>1, <3>2, FS_EmptySet
  <2> QED
    BY <2>1, <2>2, <2>3, <2>4 DEF IInv
<1>2. IInv /\ [Next]_vars => IInv'
  BY TypeStep, CallsStep, ServersStep, KnownStep, RunsStep, ReportedStep, LoadsStep DEF IInv
<1> QED
  BY <1>1, <1>2, PTL DEF Spec

\* What the plane, the ledgers, the threads and the servers hold is of its type.
THEOREM TypeCorrect == Spec => []TypeOK
BY InvariantHolds, PTL DEF IInv

\* However often an assignment is posted again, whoever dies and whenever it is cancelled,
\* a lease runs once, and once more for each death that lost its worker's ledger; and not at
\* all when it was revoked before a server had its answer.
THEOREM LeasesAreSingleUse == Spec => []SingleUse
<1>1. IInv => SingleUse
  <2> SUFFICES ASSUME IInv, NEW l \in Leases PROVE ran[l] <= 1 + forgot[l] /\ (l \in stopped => ran[l] = 0)
    BY DEF SingleUse
  <2>1. /\ ran[l] <= forgot[l] + (IF l \in consumed THEN 1 ELSE 0)
        /\ l \in stopped => ran[l] = 0
        /\ ran[l] \in Nat /\ forgot[l] \in Nat
    BY DEF IInv, RunsOnce, TypeOK
  <2> QED
    BY <2>1
<1> QED
  BY <1>1, InvariantHolds, PTL

\* The load the plane judges a worker by falls below the work it still has to do only by the
\* raises a stale write undid; and it rises above max_concurrency by no more than one for
\* every other thread that may dispatch to that worker, and one for every lowering undone.
THEOREM LoadsStayBounded == Spec => []LoadsBounded
<1>1. IInv => LoadsBounded
  <2> SUFFICES ASSUME IInv, NEW w \in Workers
               PROVE  /\ load[w] + raisesLost[w] + Cardinality(EarlyReported(w))
                            >= Cardinality(Unfinished(w))
                      /\ load[w] < Capacity + Cardinality(Reaching(w)) + dropsLost[w]
    BY DEF LoadsBounded, Reaching
  <2>1. /\ load[w] \in Nat /\ Cardinality(Coming(w)) \in Nat /\ Cardinality(Reaching(w)) \in Nat
        /\ dropsLost[w] \in Nat
        /\ load[w] + raisesLost[w] + Cardinality(EarlyReported(w)) >= Cardinality(Unfinished(w))
        /\ load[w] + Cardinality(Coming(w)) < Capacity + Cardinality(Reaching(w)) + dropsLost[w]
    BY LoadSetsFinite DEF IInv, LoadsPromised, TypeOK
  <2> QED
    BY <2>1
<1> QED
  BY <1>1, InvariantHolds, PTL

\* A worker in quarantine is chosen by no dispatch, and stays there.
THEOREM QuarantineIsKept == Spec => QuarantineHolds
<1> DEFINE Kept(w) == ChosenBefore(w)' \subseteq ChosenBefore(w) /\ w \in quarantined'
<1>1. ASSUME TypeOK, CallsHold, [Next]_vars, NEW w \in quarantined PROVE Kept(w)
  <2>1. w \in quarantined'
    BY <1>1 DEF Next, vars, planeVars, registry, Select, CallStep, AppendAssignment, Count, Raise,
       Post, Hear, TimeOut, CallerReports, Finish, ReportRead, Arrive, Poll, ServerStep, Ask,
       Consume, RunEnds, AgentReports, AgentReturns, WorkerDies, CancelKey, CancelTask, Revoke,
       Heartbeat, Lower, Fail, Judge
  <2>2. CASE CallerMoves
    <3>1. PICK c \in Callers : Select(c) \/ CallStep(c)
      BY <2>2 DEF CallerMoves
    <3>2. OthersWait(c)
      BY <1>1, <3>1, CallsMove DEF CallStep
    <3>3. CASE Select(c)
      <4>1. call'[c].worker # w
        BY <1>1, <3>3, CallsMove DEF Chooses, Eligible
      <4> QED
        BY <2>1, <3>2, <4>1 DEF ChosenBefore, OthersWait, CallAt
    <3>4. CASE ~Select(c)
      <4>1. call'[c].pc # "append"
        BY <1>1, <3>1, <3>4, CallsMove DEF CallStep, Signs, Advances, Rests, NoCall
      <4> QED
        BY <2>1, <3>2, <4>1 DEF ChosenBefore, OthersWait, CallAt
    <3> QED
      BY <3>3, <3>4
  <2>3. CASE ~CallerMoves
    BY <1>1, <2>1, <2>3, CallersStay DEF ChosenBefore, CallAt
  <2> QED
    BY <2>2, <2>3
<1>2. IInv /\ [Next]_vars =>
         [\A w \in quarantined :
             /\ ChosenBefore(w)' \subseteq ChosenBefore(w)
             /\ w \in quarantined']_vars
  BY <1>1 DEF IInv
<1> QED
  BY <1>2, InvariantHolds, PTL DEF Spec, QuarantineHolds

\* The plane, its ledgers and its workers together keep a book of single-use grants: a
\* lease is issued once, used at most once, and never after it was withdrawn in time.
THEOREM KeepsABook == Spec => BookSpec
<1> DEFINE status == [l \in Leases |-> StatusOf(l)]
<1>1. Init => Book!Init
  BY DEF Init, Book!Init, StatusOf
<1>2. ASSUME IInv, [Next]_vars
      PROVE  Book!Next \/ status' = status
  <2>1. /\ TypeOK /\ CallsHold /\ CallsApart /\ ServersHold /\ LeasesKnown /\ RunsOnce
    BY <1>2 DEF IInv
  <2>2. \A l \in Leases : l \in Issued <=> lease[l] # NoLease
    BY <2>1 DEF LeasesKnown, Issued, NoLease
  <2>3. ASSUME NEW l \in Leases, \A m \in Leases \ {l} : StatusOf(m)' = StatusOf(m),
               \/ StatusOf(l)' = StatusOf(l)
               \/ StatusOf(l) = "none" /\ StatusOf(l)' = "granted"
               \/ StatusOf(l) = "granted" /\ StatusOf(l)' \in {"used", "void"}
        PROVE  Book!Next \/ status' = status
    <3>1. CASE StatusOf(l)' = StatusOf(l)
      BY <2>3, <3>1
    <3>2. CASE StatusOf(l)' # StatusOf(l)
      <4>1. status' = [status EXCEPT ![l] = StatusOf(l)']
        BY <2>3
      <4> QED
        BY <2>3, <3>2, <4>1 DEF Book!Next, Book!Issue, Book!Use, Book!Withdraw, Book!Becomes
    <3> QED
      BY <3>1, <3>2
  <2>4. CASE \E c \in Callers : AppendAssignment(c)
    <3>1. PICK c \in Callers : AppendAssignment(c)
      BY <2>4
    <3>2. PICK l \in Leases \ Issued :
             /\ lease[l] = NoLease /\ lease'[l].worker \in Workers
             /\ \A m \in Leases : m # l => lease'[m] = lease[m]
      BY <2>1, <3>1, Signing
    <3>3. ran' = ran /\ stopped' = stopped
      BY <3>1 DEF AppendAssignment, history
    <3>4. l \notin stopped /\ ran[l] = 0
      BY <2>1, <3>2 DEF LeasesKnown
    <3>5. lease'[l] # NoLease
      BY <3>2, NoneTyped DEF NoLease
    <3>6. StatusOf(l) = "none" /\ StatusOf(l)' = "granted"
      BY <3>2, <3>3, <3>4, <3>5 DEF StatusOf
    <3>7. \A m \in Leases \ {l} : StatusOf(m)' = StatusOf(m)
      BY <3>2, <3>3 DEF StatusOf
    <3> QED
      BY <2>3, <3>2, <3>6, <3>7
  <2>5. CASE Cancels
    <3>1. PICK l \in counted : Revoke(l)
      BY <2>5 DEF Cancels
    <3>2. l \in Leases /\ lease[l] # NoLease /\ lease' = lease /\ ran' = ran
      BY <2>1, <2>2, <3>1 DEF LeasesKnown, Issued, Revoke
    <3>3. stopped' = stopped \/ (ran[l] = 0 /\ stopped' = stopped \cup {l})
      BY <3>1 DEF Revoke
    <3>4. ran[l] \in Nat
      BY <2>1, <3>2 DEF TypeOK
    <3>5. \A m \in Leases \ {l} : StatusOf(m)' = StatusOf(m)
      BY <3>2, <3>3 DEF StatusOf
    <3>6. \/ StatusOf(l)' = StatusOf(l)
          \/ StatusOf(l) = "granted" /\ StatusOf(l)' = "void"
      BY <3>2, <3>3, <3>4 DEF StatusOf
    <3> QED
      BY <2>3, <3>2, <3>5, <3>6
  <2>6. CASE /\ lease' = lease /\ stopped' = stopped
             /\ \E s \in Servers : Consume(s)
    <3>1. PICK s \in Servers : Consume(s)
      BY <2>6
    <3>2. PICK l \in Leases : l = serve[s].lease /\ lease[l] # NoLease /\ InHand(l)
      BY <2>1, <2>2, <3>1 DEF Consume, ServerAt, ServersHold, Serves, Issued, InHand
    <3>3. ran' = ran \/ (l \notin consumed /\ ran' = [ran EXCEPT ![l] = ran[l] + 1])
      BY <3>1, <3>2 DEF Consume
    <3>4. ran[l] \in Nat /\ l \notin stopped
      BY <2>1, <3>2 DEF RunsOnce, TypeOK
    <3>5. CASE ran' = ran
      BY <2>6, <3>5 DEF StatusOf
    <3>6. CASE l \notin consumed /\ ran' = [ran EXCEPT ![l] = ran[l] + 1]
      <4>1. ran'[l] > 0 /\ \A m \in Leases \ {l} : ran'[m] = ran[m]
        BY <2>1, <3>2, <3>4, <3>6 DEF TypeOK
      <4>2. StatusOf(l) \in {"granted", "used"} /\ StatusOf(l)' = "used"
        BY <3>2, <3>4, <4>1 DEF StatusOf
      <4>3. \A m \in Leases \ {l} : StatusOf(m)' = StatusOf(m)
        BY <2>6, <4>1 DEF StatusOf
      <4> QED
        BY <2>3, <3>2, <4>2, <4>3
    <3> QED
      BY <3>3, <3>5, <3>6
  <2>7. CASE UNCHANGED <<lease, stopped, ran>>
    BY <2>7 DEF StatusOf
  <2>8. CASE ~Cancels /\ ~\E c \in Callers : AppendAssignment(c)
    <3>1. lease' = lease /\ stopped' = stopped
      BY <1>2, <2>1, <2>8, LeasesStay, StopsStay
    <3>2. ran' = ran \/ \E s \in Servers : Consume(s)
      <4>1. CASE ServerMoves
        BY <4>1 DEF ServerMoves, Arrive, Poll, ServerStep, Ask, RunEnds, AgentReports,
                    AgentReturns, history
      <4>2. CASE WorkerEnds
        BY <4>2 DEF WorkerEnds, WorkerDies
      <4> QED
        BY <1>2, <2>1, <4>1, <4>2, ServersStay
    <3> QED
      BY <2>6, <2>7, <3>1, <3>2
  <2> QED
    BY <2>4, <2>5, <2>8
<1>3. IInv /\ [Next]_vars => [Book!Next]_status
  BY <1>2
<1> QED
  BY <1>1, <1>3, InvariantHolds, PTL DEF Spec, BookSpec, Book!Spec
=============================================================================
