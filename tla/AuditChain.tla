----------------------------- MODULE AuditChain -----------------------------
(***************************************************************************)
(* DurableAuditLog (durable/audit.py): the hash chain, its retention prune *)
(* and its verification, used by the threads of one or more gateway        *)
(* processes.  A connection's lock makes a transaction atomic among the    *)
(* threads of its own process only: append's SELECT of the tip takes no    *)
(* lock in the database, so it is a step of its own for everybody else.    *)
(* An entry's hash is the entry: it is named by its seq, genesis by 0.     *)
(* Entries carry the clock of a moment before their transaction, so the    *)
(* newest entry older than a cutoff may be any entry.                      *)
(***************************************************************************)
EXTENDS Integers, FiniteSets

CONSTANTS
    Thread,         \* callers of append and prune
    Host,           \* gateway processes on one database
    HostOf,         \* the process each thread runs in
    MaxEntries      \* bound: entries ever appended

ASSUME HostAssumption == HostOf \in [Thread -> Host]
ASSUME BoundAssumption == MaxEntries \in Nat

VARIABLES
    log,        \* seqs in the table
    last,       \* the AUTOINCREMENT counter
    prev,       \* prev_hash of each entry
    attests,    \* resume_prev_hash of each audit.retention entry, 0 for others
    thread      \* per thread: where it is, the tip it read, the boundary it read

auditVars == <<log, last, prev, attests, thread>>

EntryIds == 1 .. MaxEntries
Genesis == 0
AtRest == [pc |-> "idle", tip |-> Genesis, cut |-> 0]

AuditTypeOK ==
    /\ log \subseteq EntryIds
    /\ last \in 0 .. MaxEntries
    /\ prev \in [EntryIds -> 0 .. MaxEntries]
    /\ attests \in [EntryIds -> 0 .. MaxEntries]
    /\ thread \in [Thread -> [pc : {"idle", "linking", "bounded", "attesting", "attested"},
                              tip : 0 .. MaxEntries, cut : 0 .. MaxEntries]]

AuditInit ==
    /\ log = {} /\ last = 0
    /\ prev = [s \in EntryIds |-> Genesis]
    /\ attests = [s \in EntryIds |-> 0]
    /\ thread = [t \in Thread |-> AtRest]
-----------------------------------------------------------------------------
\* A transaction of t's process is open between append's SELECT and its INSERT.
InTransaction(u) == thread[u].pc \in {"linking", "attesting"}
LockFree(t) == \A u \in Thread : HostOf[u] = HostOf[t] => ~InTransaction(u)

\* The newest entry's hash, genesis for an empty table.
IsTip(x) ==
    \/ log = {} /\ x = Genesis
    \/ x \in log /\ \A s \in log : s <= x

\* append: SELECT hash ... ORDER BY seq DESC LIMIT 1, for an event or for the
\* audit.retention entry of a prune.
SelectTip(t) ==
    /\ LockFree(t)
    /\ thread[t].pc \in {"idle", "bounded"}
    /\ last < MaxEntries
    /\ \E x \in 0 .. MaxEntries :
          /\ IsTip(x)
          /\ thread' = [thread EXCEPT ![t] =
                [thread[t] EXCEPT !.tip = x,
                    !.pc = IF thread[t].pc = "idle" THEN "linking" ELSE "attesting"]]
    /\ UNCHANGED <<log, last, prev, attests>>

\* append's INSERT and commit, linked to the tip that was read.
AppendEntry(t, attested) ==
    /\ last < MaxEntries
    /\ last' = last + 1
    /\ log' = log \cup {last + 1}
    /\ prev' = [prev EXCEPT ![last + 1] = thread[t].tip]
    /\ attests' = [attests EXCEPT ![last + 1] = attested]

InsertEvent(t) ==
    /\ thread[t].pc = "linking"
    /\ AppendEntry(t, 0)
    /\ thread' = [thread EXCEPT ![t] = AtRest]

\* Mutant: the entry names the hash before the boundary.
InsertRetentionShort(t) ==
    /\ thread[t].pc = "attesting"
    /\ AppendEntry(t, thread[t].cut - 1)
    /\ thread' = [thread EXCEPT ![t] = [AtRest EXCEPT !.pc = "attested", !.cut = thread[t].cut]]

InsertRetention(t) ==
    /\ thread[t].pc = "attesting"
    /\ AppendEntry(t, thread[t].cut)
    /\ thread' = [thread EXCEPT ![t] = [AtRest EXCEPT !.pc = "attested", !.cut = thread[t].cut]]

\* prune reads its boundary: the newest entry whose time is before the cutoff.
SelectBoundary(t) ==
    /\ LockFree(t)
    /\ thread[t].pc = "idle"
    /\ \E b \in log :
          thread' = [thread EXCEPT ![t] = [AtRest EXCEPT !.pc = "bounded", !.cut = b]]
    /\ UNCHANGED <<log, last, prev, attests>>

\* Mutant: the cut is made before it is audited.
DeletePrefixFirst(t) ==
    /\ LockFree(t)
    /\ thread[t].pc = "bounded"
    /\ log' = {s \in log : s > thread[t].cut}
    /\ thread' = [thread EXCEPT ![t] = AtRest]
    /\ UNCHANGED <<last, prev, attests>>

\* DELETE ... WHERE seq <= boundary, after the retention entry committed.
DeletePrefix(t) ==
    /\ LockFree(t)
    /\ thread[t].pc = "attested"
    /\ log' = {s \in log : s > thread[t].cut}
    /\ thread' = [thread EXCEPT ![t] = AtRest]
    /\ UNCHANGED <<last, prev, attests>>

\* A process dies: its open transaction rolls back, its prunes end where they were.
HostCrash(h) ==
    /\ \E t \in Thread : HostOf[t] = h /\ thread[t].pc # "idle"
    /\ thread' = [t \in Thread |-> IF HostOf[t] = h THEN AtRest ELSE thread[t]]
    /\ UNCHANGED <<log, last, prev, attests>>

AuditNext ==
    \/ \E t \in Thread :
          \/ SelectTip(t) \/ InsertEvent(t)
          \/ SelectBoundary(t) \/ InsertRetention(t) \/ DeletePrefix(t)
    \/ \E h \in Host : HostCrash(h)

AuditSpec == AuditInit /\ [][AuditNext]_auditVars
-----------------------------------------------------------------------------
\* verify: a chain that starts at genesis, or at a boundary some surviving retention
\* entry names, each entry linked to the one before it.
First(s) == s \in log /\ \A u \in log : s <= u
Before(u, s) == u \in log /\ u < s /\ \A v \in log : v < s => v <= u

Verify ==
    \A s \in log :
        \/ First(s) /\ (prev[s] = Genesis \/ \E r \in log : attests[r] = prev[s])
        \/ \E u \in log : Before(u, s) /\ prev[s] = u
-----------------------------------------------------------------------------
\* PROPERTIES

\* Nothing the log's own operations do breaks the chain: between any two steps of
\* appends and overlapping prunes, and after a crash at any of them, the log verifies.
ChainVerifies == Verify

\* "The activity log stays honest about having been trimmed": every entry ever appended
\* is in the table, or a retention entry that is still there covers it.
TrimsAreAttested ==
    \A s \in 1 .. last : s \in log \/ \E r \in log : attests[r] >= s
=============================================================================
