---------------------------- MODULE EarningsProofs ----------------------------
(***************************************************************************)
(* What holds of a noder's earnings for any number of threads, events,     *)
(* periods and refunds: no money is unaccounted for, a refund that was     *)
(* acknowledged took the accrual back, and a noder is not paid more than   *)
(* what left its holdback.                                                 *)
(*                                                                         *)
(* All rest on the idempotency ledger: an operation under way holds the    *)
(* claim of its key alone, so what its key's rows, transfers and batches   *)
(* are is told by the step it is at.  The balance is then a matter of      *)
(* sums: what was transferred and answered is debited, but for the         *)
(* transfer in hand, and what was read of the balance is still there when  *)
(* it is used.                                                             *)
(***************************************************************************)
EXTENDS Earnings, FiniteSetTheorems, Sums, TLAPS

\* The steps of a charge, of a settlement before and after it has a batch and after the
\* transfer, and of a refund before and after its claw-back.
ChargePcs == {"charge", "accrue"}
EarlyPcs  == {"topup", "true_up", "balance", "kyc"}
BatchPcs  == {"transfer", "failed", "release"}
MovedPcs  == {"receipt", "bounced", "debit"}
TakenPcs  == {"shortfall", "draw", "uphold"}
Pcs == ChargePcs \cup EarlyPcs \cup BatchPcs \cup MovedPcs \cup TakenPcs
          \cup {"idle", "clawback", "finish"}

\* The state of a thread: its operation is of the kind its step belongs to.
IsThread(r) ==
    /\ r = [op |-> r.op, pc |-> r.pc, n |-> r.n, batch |-> r.batch]
    /\ r.pc \in Pcs
    /\ r.pc \in ChargePcs => r.op \in Charges
    /\ r.pc \in EarlyPcs \cup BatchPcs \cup MovedPcs => r.op \in Settlements
    /\ r.pc \in TakenPcs \cup {"clawback"} => r.op \in Refunds
    /\ r.pc = "finish" => r.op \in Keys

ThreadsHold == th = [t \in Threads |-> th[t]] /\ \A t \in Threads : IsThread(th[t])

Runs(t, k) == th[t].pc # "idle" /\ th[t].op = k

\* An operation under way has the claim of its key, and has it alone; while nothing
\* overlapped and nothing was abandoned, a claim is an operation's.
KeysHold ==
    /\ key \in [Keys -> {"free", "claimed", "done"}]
    /\ \A t \in Threads, k \in Keys : Runs(t, k) => key[k] = "claimed"
    /\ \A t, u \in Threads, k \in Keys : Runs(t, k) /\ Runs(u, k) => t = u
    /\ calm => \A k \in Keys : key[k] = "claimed" => \E t \in Threads : Runs(t, k)

\* A consumer that was charged and not accrued is the one a charge is about to accrue, or
\* one whose claim was abandoned.
ChargeIsSound(e) ==
    /\ Posted("accrual", e) # {} => e \in charged
    /\ e \in charged /\ Posted("accrual", e) = {} =>
          /\ key[<<"charge", e>>] = "claimed"
          /\ \A t \in Threads : Runs(t, <<"charge", e>>) => th[t].pc = "accrue"
    /\ \A t \in Threads : Runs(t, <<"charge", e>>) /\ th[t].pc = "accrue" => e \in charged

ChargesHold == \A e \in Events : ChargeIsSound(e)

\* Batches have ids of their own, the first numbers.
BatchesHold ==
    /\ IsFiniteSet(batches)
    /\ \A b \in batches :
          /\ b = [id |-> b.id, period |-> b.period, amount |-> b.amount, status |-> b.status]
          /\ b.id \in 1 .. Cardinality(batches) /\ b.period \in Periods
    /\ \A b, c \in batches : b.id = c.id => b = c

\* The payout rows of a period.
IsOf(r, b) == r.kind = "payout" /\ b.id = r.of
Debits(p) == {r \in ledger : \E b \in batches : IsOf(r, b) /\ b.period = p}

\* A payout row stands for a batch that was answered, with its amount; when the answer was
\* that it is paid, with what moved.
Stands(r, b) ==
    /\ IsOf(r, b) /\ b.status \in {"paid", "failed"} /\ r.amount = -b.amount
    /\ b.status = "paid" /\ b.period \notin unheard => r.amount = -moved[b.period]

DebitsHold == \A r \in ledger : r.kind = "payout" => \E b \in batches : Stands(r, b)

\* The batch a settlement has in its hands: its own, unmarked until it was answered.
Fit(t, p, b) ==
    /\ b.id = th[t].batch /\ b.period = p /\ b.amount = th[t].n
    /\ th[t].pc \in {"transfer", "receipt"} => b.status = "pending"
    /\ th[t].pc = "debit" => /\ b.status \in {"paid", "failed"}
                             /\ b.status = "paid" /\ p \notin unheard => moved[p] = th[t].n

InHand(t, p) ==
    /\ th[t].pc = "receipt" /\ p \notin unheard => moved[p] = th[t].n
    /\ th[t].pc \in BatchPcs \cup MovedPcs => \E b \in batches : Fit(t, p, b)

\* A settlement that still has to write down the money that moved.
Owes(t, p) ==
    \/ th[t].pc \in MovedPcs
    \/ th[t].pc = "failed" /\ p \in unheard /\ th[t].n = moved[p]

\* A period is debited once, when its settlement is over; money that moved and is not
\* debited is on record as failed, or its settlement is about to write it down, or was
\* abandoned with its claim.
SettlementIsSound(p) ==
    /\ \A r, s \in Debits(p) : r = s
    /\ Debits(p) # {} => /\ key[<<"settle", p>>] # "free"
                         /\ \A t \in Threads : Runs(t, <<"settle", p>>) => th[t].pc = "finish"
    /\ moved[p] # 0 /\ Debits(p) = {} =>
          \/ OnRecordAsFailed(p)
          \/ /\ key[<<"settle", p>>] = "claimed"
             /\ \A t \in Threads : Runs(t, <<"settle", p>>) => Owes(t, p)
    /\ \A t \in Threads : Runs(t, <<"settle", p>>) => InHand(t, p)

SettlementsHold ==
    moved = [p \in Periods |-> moved[p]] /\ \A p \in Periods : SettlementIsSound(p)

\* A refund is finished once upheld; when nothing overlaps and nothing is abandoned its
\* event was accrued before it began, and is clawed back once it looked.
RefundIsSound(h) ==
    /\ key[<<"refund", h>>] = "done" => h \in upheld
    /\ \A t \in Threads : Runs(t, <<"refund", h>>) /\ th[t].pc = "finish" => h \in upheld
    /\ calm => /\ key[<<"refund", h>>] = "done" => Posted("clawback", RefundOf[h]) # {}
               /\ \A t \in Threads : Runs(t, <<"refund", h>>) =>
                     /\ Posted("accrual", RefundOf[h]) # {}
                     /\ th[t].pc # "clawback" => Posted("clawback", RefundOf[h]) # {}

RefundsHold == \A h \in Hooks : RefundIsSound(h)

IInv ==
    /\ ThreadsHold /\ KeysHold /\ ChargesHold /\ BatchesHold /\ DebitsHold /\ SettlementsHold
    /\ RefundsHold
-----------------------------------------------------------------------------
\* OPERATIONS AND THEIR THREADS

LEMMA KindsApart ==
    /\ Charges \cap Settlements = {} /\ Charges \cap Refunds = {} /\ Settlements \cap Refunds = {}
    /\ \A e : e \in Events <=> <<"charge", e>> \in Charges
    /\ \A p : p \in Periods <=> <<"settle", p>> \in Settlements
    /\ \A h : h \in Hooks <=> <<"refund", h>> \in Refunds
    /\ Charges \subseteq Keys /\ Settlements \subseteq Keys /\ Refunds \subseteq Keys
<1>1. \A e, p, h : /\ <<"charge", e>> # <<"settle", p>> /\ <<"charge", e>> # <<"refund", h>>
                   /\ <<"settle", p>> # <<"refund", h>>
  OBVIOUS
<1>2. \A a, b : /\ <<"charge", a>> = <<"charge", b>> => a = b
                /\ <<"settle", a>> = <<"settle", b>> => a = b
                /\ <<"refund", a>> = <<"refund", b>> => a = b
  OBVIOUS
<1> QED
  BY <1>1, <1>2 DEF Charges, Settlements, Refunds, Keys

\* What an operation is of.
LEMMA OfWhom ==
    ASSUME NEW t \in Threads
    PROVE  /\ th[t].op \in Charges => Of(t) \in Events /\ th[t].op = <<"charge", Of(t)>>
           /\ th[t].op \in Settlements => Of(t) \in Periods /\ th[t].op = <<"settle", Of(t)>>
           /\ th[t].op \in Refunds => Of(t) \in Hooks /\ th[t].op = <<"refund", Of(t)>>
BY DEF Of, Charges, Settlements, Refunds

LEMMA IdleHolds == IsThread(Idle) /\ Idle.pc = "idle"
BY DEF IsThread, Idle, Pcs, ChargePcs, EarlyPcs, BatchPcs, MovedPcs, TakenPcs

\* The threads that run one of these operations are the ones that did, as they were.
Untouched(ops) ==
    \A u \in Threads, k \in ops : Runs(u, k)' => Runs(u, k) /\ th'[u] = th[u]

\* A thread changes.
LEMMA ThreadMoves ==
    ASSUME ThreadsHold, NEW t \in Threads, NEW q, IsThread(q), th' = [th EXCEPT ![t] = q]
    PROVE  /\ ThreadsHold' /\ th'[t] = q /\ \A u \in Threads \ {t} : th'[u] = th[u]
           /\ \A ops : q.pc = "idle" \/ q.op \notin ops => Untouched(ops)
<1>1. th'[t] = q /\ \A u \in Threads \ {t} : th'[u] = th[u]
  BY DEF ThreadsHold
<1>2. th' = [u \in Threads |-> th'[u]] /\ \A u \in Threads : IsThread(th'[u])
  BY <1>1 DEF ThreadsHold
<1>3. ThreadsHold'
  BY <1>2 DEF ThreadsHold
<1>4. \A ops : q.pc = "idle" \/ q.op \notin ops => Untouched(ops)
  BY <1>1 DEF Untouched, Runs
<1> QED
  BY <1>1, <1>3, <1>4

\* The operation goes on, at another step and with other values in its hands.
MovesTo(t, pc, n, b) == th' = [th EXCEPT ![t] = [op |-> th[t].op, pc |-> pc, n |-> n, batch |-> b]]

Fits(op, pc) ==
    /\ pc \in Pcs \ {"idle"}
    /\ pc \in ChargePcs => op \in Charges
    /\ pc \in EarlyPcs \cup BatchPcs \cup MovedPcs => op \in Settlements
    /\ pc \in TakenPcs \cup {"clawback"} => op \in Refunds
    /\ pc = "finish" => op \in Keys

LEMMA GoesOn ==
    ASSUME ThreadsHold, NEW t \in Threads, NEW pc, Goes(t, pc)
    PROVE  MovesTo(t, pc, th[t].n, th[t].batch)
<1>1. th' = [th EXCEPT ![t] = [th[t] EXCEPT !.pc = pc]]
  BY DEF Goes, ThreadsHold
<1>2. th[t] = [op |-> th[t].op, pc |-> th[t].pc, n |-> th[t].n, batch |-> th[t].batch]
  BY DEF ThreadsHold, IsThread
<1>3. [th[t] EXCEPT !.pc = pc] = [op |-> th[t].op, pc |-> pc, n |-> th[t].n, batch |-> th[t].batch]
  BY <1>2
<1> QED
  BY <1>1, <1>3 DEF MovesTo

\* The same when a value changes with the step.
LEMMA GoesWith ==
    ASSUME ThreadsHold, NEW t \in Threads, NEW pc, NEW x
    PROVE  /\ th' = [th EXCEPT ![t].pc = pc, ![t].n = x] => MovesTo(t, pc, x, th[t].batch)
           /\ th' = [th EXCEPT ![t].pc = pc, ![t].batch = x] => MovesTo(t, pc, th[t].n, x)
<1>1. /\ th = [u \in Threads |-> th[u]]
      /\ th[t] = [op |-> th[t].op, pc |-> th[t].pc, n |-> th[t].n, batch |-> th[t].batch]
  BY DEF ThreadsHold, IsThread
<1>2. ASSUME th' = [th EXCEPT ![t].pc = pc, ![t].n = x]
      PROVE  MovesTo(t, pc, x, th[t].batch)
  <2>1. th'[t] = [op |-> th[t].op, pc |-> pc, n |-> x, batch |-> th[t].batch]
    BY <1>1, <1>2
  <2>2. th' = [u \in Threads |-> th'[u]] /\ \A u \in Threads \ {t} : th'[u] = th[u]
    BY <1>1, <1>2
  <2> QED
    BY <1>1, <2>1, <2>2 DEF MovesTo
<1>3. ASSUME th' = [th EXCEPT ![t].pc = pc, ![t].batch = x]
      PROVE  MovesTo(t, pc, th[t].n, x)
  <2>1. th'[t] = [op |-> th[t].op, pc |-> pc, n |-> th[t].n, batch |-> x]
    BY <1>1, <1>3
  <2>2. th' = [u \in Threads |-> th'[u]] /\ \A u \in Threads \ {t} : th'[u] = th[u]
    BY <1>1, <1>3
  <2> QED
    BY <1>1, <2>1, <2>2 DEF MovesTo
<1> QED
  BY <1>2, <1>3

LEMMA Goings ==
    ASSUME ThreadsHold, NEW t \in Threads, th[t].pc # "idle", NEW pc, NEW n, NEW b,
           MovesTo(t, pc, n, b), Fits(th[t].op, pc)
    PROVE  /\ ThreadsHold'
           /\ th'[t].op = th[t].op /\ th'[t].pc = pc /\ th'[t].n = n /\ th'[t].batch = b
           /\ \A u \in Threads \ {t} : th'[u] = th[u]
           /\ \A u \in Threads, k \in Keys : Runs(u, k)' <=> Runs(u, k)
           /\ \A ops : th[t].op \notin ops => Untouched(ops)
<1> DEFINE q == [op |-> th[t].op, pc |-> pc, n |-> n, batch |-> b]
<1>1. q.op = th[t].op /\ q.pc = pc /\ q.n = n /\ q.batch = b
  OBVIOUS
<1>2. IsThread(q)
  BY DEF IsThread, Fits
<1>3. th' = [th EXCEPT ![t] = q]
  BY DEF MovesTo
<1> HIDE DEF q
<1>4. /\ ThreadsHold' /\ th'[t] = q /\ \A u \in Threads \ {t} : th'[u] = th[u]
      /\ \A ops : th[t].op \notin ops => Untouched(ops)
  BY <1>1, <1>2, <1>3, ThreadMoves
<1>5. \A u \in Threads, k \in Keys : Runs(u, k)' <=> Runs(u, k)
  BY <1>1, <1>4 DEF Runs, Fits
<1> QED
  BY <1>1, <1>4, <1>5

\* The operation is over, or given up.
LEMMA Endings ==
    ASSUME ThreadsHold, NEW t \in Threads, Ends(t)
    PROVE  /\ ThreadsHold' /\ th'[t].pc = "idle" /\ \A u \in Threads \ {t} : th'[u] = th[u]
           /\ \A u \in Threads, k \in Keys : Runs(u, k)' <=> Runs(u, k) /\ u # t
           /\ \A ops : Untouched(ops)
<1>1. /\ ThreadsHold' /\ th'[t] = Idle /\ \A u \in Threads \ {t} : th'[u] = th[u]
      /\ \A ops : Untouched(ops)
  BY IdleHolds, ThreadMoves DEF Ends
<1> QED
  BY <1>1, IdleHolds DEF Runs

\* What a step leaves its operation with.
LEMMA Moving ==
    ASSUME ThreadsHold, NEW t \in Threads, th[t].pc # "idle", NEW pc, NEW n, NEW b,
           MovesTo(t, pc, n, b), pc # "idle"
    PROVE  /\ th'[t].op = th[t].op /\ th'[t].pc = pc /\ th'[t].n = n /\ th'[t].batch = b
           /\ \A u \in Threads \ {t} : th'[u] = th[u]
           /\ \A u \in Threads : \A k : Runs(u, k)' => Runs(u, k)
<1>1. /\ th'[t] = [op |-> th[t].op, pc |-> pc, n |-> n, batch |-> b]
      /\ \A u \in Threads \ {t} : th'[u] = th[u]
  BY DEF MovesTo, ThreadsHold
<1>2. th'[t].op = th[t].op /\ th'[t].pc = pc /\ th'[t].n = n /\ th'[t].batch = b
  BY <1>1
<1>3. \A u \in Threads : \A k : Runs(u, k)' => Runs(u, k)
  BY <1>1, <1>2 DEF Runs
<1> QED
  BY <1>1, <1>2, <1>3

LEMMA Going ==
    ASSUME ThreadsHold, NEW t \in Threads, th[t].pc # "idle", NEW pc, Goes(t, pc), pc # "idle"
    PROVE  /\ th'[t].op = th[t].op /\ th'[t].pc = pc
           /\ th'[t].n = th[t].n /\ th'[t].batch = th[t].batch
           /\ \A u \in Threads \ {t} : th'[u] = th[u]
           /\ \A u \in Threads : \A k : Runs(u, k)' => Runs(u, k)
<1>1. MovesTo(t, pc, th[t].n, th[t].batch)
  BY GoesOn
<1> QED
  BY <1>1, Moving
-----------------------------------------------------------------------------
\* THE FAMILIES OF STEPS

ChargeStep(t) == Excluded(t) \/ Charge(t) \/ ChargeRaises(t) \/ Accrue(t)

SettleStep(t) ==
    \/ ReadReserve(t) \/ TrueUp(t) \/ ReadBalance(t) \/ Unverified(t) \/ AddBatch(t)
    \/ Transfer(t) \/ TransferRefused(t) \/ TransferLost(t) \/ MarkFailed(t) \/ ReleaseClaim(t)
    \/ TransferBounces(t) \/ StoreReceipt(t) \/ Debit(t)

RefundStep(t) == Clawback(t) \/ ReadShortfall(t) \/ Draw(t) \/ Uphold(t)

LEMMA Steps ==
    ASSUME [Next]_vars
    PROVE  \/ \E t \in Threads : \/ \E k \in Keys : Claim(t, k)
                                 \/ ChargeStep(t) \/ SettleStep(t) \/ RefundStep(t) \/ Finish(t)
           \/ \E r \in ledger : Grow(r)
           \/ Crash
           \/ UNCHANGED vars
BY DEF Next, ChargeStep, SettleStep, RefundStep

\* How the steps of a family change their thread.
Act(t) ==
    \/ \E pc, n, b : MovesTo(t, pc, n, b) /\ Fits(th[t].op, pc) /\ key' = key /\ calm' = calm
    \/ Ends(t) /\ key' = key /\ calm' = FALSE
    \/ Ends(t) /\ key' = [key EXCEPT ![th[t].op] = "free"] /\ calm' = calm

LEMMA ChargeActs ==
    ASSUME ThreadsHold, NEW t \in Threads, ChargeStep(t)
    PROVE  th[t].pc # "idle" /\ th[t].op \in Charges /\ Act(t)
<1>1. th[t].pc \in ChargePcs /\ th[t].op \in Charges
  BY DEF ChargeStep, Excluded, Charge, ChargeRaises, Accrue, At, ChargePcs, ThreadsHold, IsThread
<1>2. \A pc \in {"finish", "accrue"} : Fits(th[t].op, pc)
  BY <1>1, KindsApart DEF Fits, Pcs, ChargePcs, EarlyPcs, BatchPcs, MovedPcs, TakenPcs
<1>3. \/ \E pc \in {"finish", "accrue"} : Goes(t, pc) /\ key' = key /\ calm' = calm
      \/ Ends(t) /\ key' = key /\ calm' = FALSE
  BY DEF ChargeStep, Excluded, Charge, ChargeRaises, Accrue
<1> QED
  BY <1>1, <1>2, <1>3, GoesOn DEF Act, ChargePcs

LEMMA SettleActs ==
    ASSUME ThreadsHold, NEW t \in Threads, SettleStep(t)
    PROVE  th[t].pc # "idle" /\ th[t].op \in Settlements /\ Act(t)
<1>1. th[t].pc \in EarlyPcs \cup BatchPcs \cup MovedPcs /\ th[t].op \in Settlements
  BY DEF SettleStep, ReadReserve, TrueUp, ReadBalance, Unverified, AddBatch, Transfer,
         TransferRefused, TransferBounces, TransferLost, MarkFailed, ReleaseClaim, StoreReceipt,
         Debit, At,
         EarlyPcs, BatchPcs, MovedPcs, ThreadsHold, IsThread
<1>2. \A pc \in EarlyPcs \cup BatchPcs \cup MovedPcs \cup {"finish"} : Fits(th[t].op, pc)
  BY <1>1, KindsApart DEF Fits, Pcs, ChargePcs, EarlyPcs, BatchPcs, MovedPcs, TakenPcs
<1>3. CASE ReadReserve(t) \/ ReadBalance(t)
  <2>1. \E pc \in {"balance", "true_up", "finish", "kyc"} : \E n : MovesTo(t, pc, n, th[t].batch)
    BY <1>3, GoesWith DEF ReadReserve, ReadBalance
  <2> QED
    BY <1>1, <1>2, <1>3, <2>1 DEF Act, EarlyPcs, BatchPcs, MovedPcs, ReadReserve, ReadBalance
<1>4. CASE AddBatch(t)
  <2>1. \E b : MovesTo(t, "transfer", th[t].n, b)
    BY <1>4, GoesWith DEF AddBatch
  <2> QED
    BY <1>1, <1>2, <1>4, <2>1 DEF Act, EarlyPcs, BatchPcs, MovedPcs, AddBatch
<1>5. CASE ReleaseClaim(t) \/ TransferLost(t)
  BY <1>1, <1>5 DEF Act, EarlyPcs, BatchPcs, MovedPcs, ReleaseClaim, TransferLost
<1>6. CASE TrueUp(t) \/ Unverified(t) \/ Transfer(t) \/ TransferRefused(t)
              \/ TransferBounces(t) \/ MarkFailed(t) \/ StoreReceipt(t) \/ Debit(t)
  <2>1. \E pc \in {"balance", "finish", "receipt", "bounced", "failed", "release", "debit"} :
           Goes(t, pc) /\ key' = key /\ calm' = calm
    BY <1>6 DEF TrueUp, Unverified, Transfer, TransferRefused, TransferBounces, MarkFailed,
       StoreReceipt, Debit
  <2> QED
    BY <1>1, <1>2, <2>1, GoesOn DEF Act, EarlyPcs, BatchPcs, MovedPcs
<1> QED
  BY <1>3, <1>4, <1>5, <1>6 DEF SettleStep

LEMMA RefundActs ==
    ASSUME ThreadsHold, NEW t \in Threads, RefundStep(t)
    PROVE  th[t].pc # "idle" /\ th[t].op \in Refunds /\ Act(t)
<1>1. th[t].pc \in TakenPcs \cup {"clawback"} /\ th[t].op \in Refunds
  BY DEF RefundStep, Clawback, ReadShortfall, Draw, Uphold, At, TakenPcs, ThreadsHold, IsThread
<1>2. \A pc \in TakenPcs \cup {"finish"} : Fits(th[t].op, pc)
  BY <1>1, KindsApart DEF Fits, Pcs, ChargePcs, EarlyPcs, BatchPcs, MovedPcs, TakenPcs
<1>3. CASE ReadShortfall(t)
  <2>1. \E pc \in {"draw", "uphold"} : \E n : MovesTo(t, pc, n, th[t].batch)
    BY <1>3, GoesWith DEF ReadShortfall
  <2> QED
    BY <1>1, <1>2, <1>3, <2>1 DEF Act, TakenPcs, ReadShortfall
<1>4. CASE Clawback(t) \/ Draw(t) \/ Uphold(t)
  <2>1. \E pc \in {"shortfall", "uphold", "finish"} : Goes(t, pc) /\ key' = key /\ calm' = calm
    BY <1>4 DEF Clawback, Draw, Uphold
  <2> QED
    BY <1>1, <1>2, <2>1, GoesOn DEF Act, TakenPcs
<1> QED
  BY <1>3, <1>4 DEF RefundStep

LEMMA FinishActs ==
    ASSUME ThreadsHold, NEW t \in Threads, Finish(t)
    PROVE  /\ th[t].pc = "finish" /\ th[t].op \in Keys /\ Ends(t)
           /\ key' = [key EXCEPT ![th[t].op] = "done"] /\ calm' = calm
BY DEF Finish, At, ThreadsHold, IsThread

LEMMA Begun ==
    ASSUME NEW k, NEW pc, NEW q, q = [Idle EXCEPT !.op = k, !.pc = pc]
    PROVE  q = [op |-> k, pc |-> pc, n |-> 0, batch |-> 0]
BY DEF Idle

LEMMA FirstSteps ==
    /\ \A k \in Charges : First(k) = "charge"
    /\ \A k \in Settlements : First(k) = "topup"
    /\ \A k \in Refunds : First(k) = "clawback"
BY KindsApart DEF First

\* A claim is granted when the key is free, and begins the operation.
LEMMA ClaimActs ==
    ASSUME ThreadsHold, NEW t \in Threads, NEW k \in Keys, Claim(t, k), th' # th \/ key' # key
    PROVE  /\ th[t].pc = "idle" /\ key[k] = "free" /\ key' = [key EXCEPT ![k] = "claimed"]
           /\ ThreadsHold' /\ th'[t].op = k /\ th'[t].pc = First(k) /\ th'[t].pc # "idle"
           /\ \A u \in Threads \ {t} : th'[u] = th[u]
           /\ \A ops : k \notin ops => Untouched(ops)
<1>1. PICK q :
      /\ q = [Idle EXCEPT !.op = k, !.pc = First(k)]
      /\ th[t].pc = "idle" /\ key[k] = "free" /\ key' = [key EXCEPT ![k] = "claimed"]
      /\ th' = [th EXCEPT ![t] = q]
  BY DEF Claim, At
<1>2. q = [op |-> k, pc |-> First(k), n |-> 0, batch |-> 0]
  BY <1>1, Begun
<1>3. q.op = k /\ q.pc = First(k)
  BY <1>2
<1>4. /\ k \in Charges => First(k) = "charge"
      /\ k \in Settlements => First(k) = "topup"
      /\ k \in Refunds => First(k) = "clawback"
      /\ k \in Charges \/ k \in Settlements \/ k \in Refunds
  BY FirstSteps DEF Keys
<1>5. IsThread(q) /\ q.pc # "idle"
  BY <1>2, <1>3, <1>4 DEF IsThread, Pcs, ChargePcs, EarlyPcs, BatchPcs, MovedPcs, TakenPcs
<1>6. th' = [th EXCEPT ![t] = q]
  BY <1>1
<1>7. /\ ThreadsHold' /\ th'[t] = q /\ \A u \in Threads \ {t} : th'[u] = th[u]
      /\ \A ops : q.pc = "idle" \/ q.op \notin ops => Untouched(ops)
  BY <1>5, <1>6, ThreadMoves
<1> QED
  BY <1>1, <1>3, <1>5, <1>7

LEMMA CrashActs ==
    ASSUME Crash
    PROVE  /\ ThreadsHold' /\ \A t \in Threads : th'[t].pc = "idle"
           /\ \A ops : Untouched(ops)
           /\ UNCHANGED <<key, ledger, charged, moved, unheard, batches, upheld>> /\ calm' = FALSE
<1>1. /\ th' = [t \in Threads |-> Idle]
      /\ UNCHANGED <<key, ledger, charged, moved, unheard, batches, upheld>> /\ calm' = FALSE
  BY DEF Crash
<1>2. \A t \in Threads : th'[t] = Idle
  BY <1>1
<1>3. th' = [t \in Threads |-> th'[t]]
  BY <1>1
<1> QED
  BY <1>1, <1>2, <1>3, IdleHolds DEF ThreadsHold, Untouched, Runs

LEMMA NothingActs ==
    ASSUME (\E r \in ledger : Grow(r)) \/ UNCHANGED vars
    PROVE  UNCHANGED <<th, key, ledger, charged, moved, unheard, batches, upheld, calm>>
BY DEF Grow, vars

LEMMA ThreadsStep == ASSUME ThreadsHold, [Next]_vars PROVE ThreadsHold'
<1>1. ASSUME NEW t \in Threads, th[t].pc # "idle", Act(t) PROVE ThreadsHold'
  BY <1>1, Goings, Endings DEF Act
<1>2. ASSUME NEW t \in Threads, ChargeStep(t) \/ SettleStep(t) \/ RefundStep(t) PROVE ThreadsHold'
  BY <1>1, <1>2, ChargeActs, SettleActs, RefundActs
<1>3. ASSUME NEW t \in Threads, Finish(t) PROVE ThreadsHold'
  BY <1>3, FinishActs, Endings
<1>4. ASSUME NEW t \in Threads, NEW k \in Keys, Claim(t, k) PROVE ThreadsHold'
  <2>1. CASE th' = th
    BY <2>1 DEF ThreadsHold
  <2> QED
    BY <1>4, <2>1, ClaimActs
<1>5. CASE Crash
  BY <1>5, CrashActs
<1>6. CASE (\E r \in ledger : Grow(r)) \/ UNCHANGED vars
  BY <1>6, NothingActs DEF ThreadsHold
<1> QED
  BY <1>2, <1>3, <1>4, <1>5, <1>6, Steps
-----------------------------------------------------------------------------
\* THE CLAIMS

LEMMA KeysStep == ASSUME ThreadsHold, KeysHold, [Next]_vars PROVE KeysHold'
<1>1. \A t \in Threads : th[t].pc # "idle" => th[t].op \in Keys /\ Runs(t, th[t].op)
  BY KindsApart DEF ThreadsHold, IsThread, Runs, Pcs
\* An operation that ends leaves its claim to whoever comes next, or stored for good.
<1>2. ASSUME NEW t \in Threads, th[t].pc # "idle", Ends(t), NEW v \in {"free", "done"},
             key' = [key EXCEPT ![th[t].op] = v], calm' = calm
      PROVE  KeysHold'
  <2>1. \A u \in Threads, k \in Keys : Runs(u, k)' <=> Runs(u, k) /\ u # t
    BY <1>2, Endings
  <2>2. Runs(t, th[t].op) /\ th[t].op \in Keys
    BY <1>1, <1>2
  <2>3. /\ key' \in [Keys -> {"free", "claimed", "done"}] /\ key'[th[t].op] = v
        /\ \A k \in Keys \ {th[t].op} : key'[k] = key[k]
    BY <1>2, <2>2 DEF KeysHold
  <2>4. \A u \in Threads, k \in Keys : Runs(u, k)' => key'[k] = "claimed"
    BY <2>1, <2>2, <2>3 DEF KeysHold
  <2>5. \A u, w \in Threads, k \in Keys : Runs(u, k)' /\ Runs(w, k)' => u = w
    BY <2>1 DEF KeysHold
  <2>6. calm' => \A k \in Keys : key'[k] = "claimed" => \E u \in Threads : Runs(u, k)'
    <3> SUFFICES ASSUME calm, NEW k \in Keys, key'[k] = "claimed"
                 PROVE  \E u \in Threads : Runs(u, k)'
      BY <1>2
    <3>1. k # th[t].op /\ key[k] = "claimed"
      BY <2>2, <2>3
    <3>2. PICK u \in Threads : Runs(u, k)
      BY <3>1 DEF KeysHold
    <3>3. u # t
      BY <3>1, <3>2 DEF Runs
    <3> QED
      BY <2>1, <3>2, <3>3
  <2> QED
    BY <2>3, <2>4, <2>5, <2>6 DEF KeysHold
<1>3. ASSUME NEW t \in Threads, th[t].pc # "idle", Act(t) PROVE KeysHold'
  <2>1. CASE \E pc, n, b : MovesTo(t, pc, n, b) /\ Fits(th[t].op, pc) /\ key' = key /\ calm' = calm
    <3>1. \A u \in Threads, k \in Keys : Runs(u, k)' <=> Runs(u, k)
      BY <1>3, <2>1, Goings
    <3> QED
      BY <2>1, <3>1 DEF KeysHold
  <2>2. CASE Ends(t) /\ key' = key /\ calm' = FALSE
    <3>1. \A u \in Threads, k \in Keys : Runs(u, k)' <=> Runs(u, k) /\ u # t
      BY <2>2, Endings
    <3> QED
      BY <2>2, <3>1 DEF KeysHold
  <2>3. CASE Ends(t) /\ key' = [key EXCEPT ![th[t].op] = "free"] /\ calm' = calm
    BY <1>2, <1>3, <2>3
  <2> QED
    BY <1>3, <2>1, <2>2, <2>3 DEF Act
<1>4. ASSUME NEW t \in Threads, ChargeStep(t) \/ SettleStep(t) \/ RefundStep(t) PROVE KeysHold'
  BY <1>3, <1>4, ChargeActs, SettleActs, RefundActs
<1>5. ASSUME NEW t \in Threads, Finish(t) PROVE KeysHold'
  BY <1>2, <1>5, FinishActs
<1>6. ASSUME NEW t \in Threads, NEW k \in Keys, Claim(t, k) PROVE KeysHold'
  <2>1. calm' => calm
    BY <1>6 DEF Claim
  <2>2. CASE th' = th /\ key' = key
    BY <2>1, <2>2 DEF KeysHold, Runs
  <2>3. CASE th' # th \/ key' # key
    <3>1. /\ th[t].pc = "idle" /\ key[k] = "free" /\ key' = [key EXCEPT ![k] = "claimed"]
          /\ th'[t].op = k /\ th'[t].pc # "idle" /\ \A u \in Threads \ {t} : th'[u] = th[u]
      BY <1>6, <2>3, ClaimActs
    <3>2. /\ key' \in [Keys -> {"free", "claimed", "done"}] /\ key'[k] = "claimed"
          /\ \A j \in Keys \ {k} : key'[j] = key[j]
      BY <3>1 DEF KeysHold
    <3>3. \A u \in Threads, j \in Keys :
             Runs(u, j)' <=> \/ u = t /\ j = k
                             \/ u # t /\ j # k /\ Runs(u, j)
      BY <3>1 DEF Runs, KeysHold
    <3>4. \A j \in Keys : ~Runs(t, j)
      BY <3>1 DEF Runs
    <3>5. \A u \in Threads, j \in Keys : Runs(u, j)' => key'[j] = "claimed"
      BY <3>2, <3>3 DEF KeysHold
    <3>6. \A u, w \in Threads, j \in Keys : Runs(u, j)' /\ Runs(w, j)' => u = w
      BY <3>3 DEF KeysHold
    <3>7. calm' => \A j \in Keys : key'[j] = "claimed" => \E u \in Threads : Runs(u, j)'
      BY <2>1, <3>2, <3>3, <3>4 DEF KeysHold
    <3> QED
      BY <3>2, <3>5, <3>6, <3>7 DEF KeysHold
  <2> QED
    BY <2>2, <2>3
<1>7. CASE Crash
  BY <1>7, CrashActs DEF KeysHold, Runs
<1>8. CASE (\E r \in ledger : Grow(r)) \/ UNCHANGED vars
  BY <1>8, NothingActs DEF KeysHold, Runs
<1> QED
  BY <1>4, <1>5, <1>6, <1>7, <1>8, Steps
-----------------------------------------------------------------------------
\* THE LEDGER

\* A post adds its row, unless a row of the same kind is there for the same event.
LEMMA Posting ==
    ASSUME NEW row, NEW when, Post(row, when)
    PROVE  /\ ledger' = ledger \/ ledger' = ledger \cup {row}
           /\ Posted(row.kind, row.of) = {} => ledger' = ledger \cup {row}
           /\ Posted(row.kind, row.of)' # {}
           /\ \A kind, of : Posted(kind, of) \subseteq Posted(kind, of)'
           /\ \A kind, of : kind # row.kind \/ of # row.of => Posted(kind, of)' = Posted(kind, of)
<1>1. \/ ledger' = ledger /\ Posted(row.kind, row.of) # {}
      \/ ledger' = ledger \cup {row}
  BY DEF Post
<1>2. Posted(row.kind, row.of)' # {} /\ (Posted(row.kind, row.of) = {} => ledger' = ledger \cup {row})
  BY <1>1 DEF Posted
<1>3. ASSUME NEW kind, NEW of
      PROVE  /\ Posted(kind, of) \subseteq Posted(kind, of)'
             /\ kind # row.kind \/ of # row.of => Posted(kind, of)' = Posted(kind, of)
  BY <1>1 DEF Posted
<1> QED
  BY <1>1, <1>2, <1>3

OpStep(t) == ChargeStep(t) \/ SettleStep(t) \/ RefundStep(t)

\* What each step writes.
LEMMA StepPosts ==
    ASSUME NEW t \in Threads, OpStep(t)
    PROVE  \/ ledger' = ledger /\ age' = age
           \/ Accrue(t) /\ Post(Row("accrual", Of(t), Share, 0), "held")
           \/ TrueUp(t) /\ Post(Row("reserve", NoRef, th[t].n, Cardinality(ledger)), "payable")
           \/ Debit(t) /\ Post(Row("payout", th[t].batch, -th[t].n, 0), "payable")
           \/ Clawback(t) /\ Post(Row("clawback", RefundOf[Of(t)], -Share, 0), "payable")
           \/ Draw(t) /\ Post(Row("reserve", RefundOf[Of(t)], -th[t].n, 0), "payable")
BY DEF OpStep, ChargeStep, SettleStep, RefundStep, Excluded, Charge, ChargeRaises, Accrue,
       ReadReserve, TrueUp, ReadBalance, Unverified, AddBatch, Transfer, TransferRefused,
       TransferBounces, TransferLost, MarkFailed, ReleaseClaim, StoreReceipt, Debit, Clawback,
       ReadShortfall, Draw, Uphold

LEMMA RowFields ==
    \A kind, of, amount, n :
       LET r == Row(kind, of, amount, n) IN r.kind = kind /\ r.of = of /\ r.amount = amount
BY DEF Row

\* Rows stay, and only an accrual, a claw-back and a debit add one of their kind.
LEMMA StepAppends ==
    ASSUME NEW t \in Threads, OpStep(t)
    PROVE  /\ \A kind, of : Posted(kind, of) \subseteq Posted(kind, of)'
           /\ \A of : ~Accrue(t) \/ of # Of(t) => Posted("accrual", of)' = Posted("accrual", of)
           /\ \A of : ~Debit(t) \/ of # th[t].batch => Posted("payout", of)' = Posted("payout", of)
<1>1. CASE ledger' = ledger
  BY <1>1 DEF Posted
<1>2. ASSUME NEW kind, NEW of, NEW amount, NEW n, NEW when, Post(Row(kind, of, amount, n), when)
      PROVE  /\ \A k, o : Posted(k, o) \subseteq Posted(k, o)'
             /\ \A k, o : k # kind \/ o # of => Posted(k, o)' = Posted(k, o)
  <2>1. PICK row : row = Row(kind, of, amount, n) /\ Post(row, when)
    BY <1>2
  <2>2. row.kind = kind /\ row.of = of
    BY <2>1, RowFields
  <2> QED
    BY <2>1, <2>2, Posting
<1> QED
  BY <1>1, <1>2, StepPosts

LEMMA StepCharges ==
    ASSUME NEW t \in Threads, OpStep(t)
    PROVE  /\ charged' = charged \/ charged' = charged \cup {Of(t)}
           /\ ~Charge(t) /\ ~ChargeRaises(t) => charged' = charged
           /\ upheld \subseteq upheld'
BY DEF OpStep, ChargeStep, SettleStep, RefundStep, Excluded, Charge, ChargeRaises, Accrue,
       ReadReserve, TrueUp, ReadBalance, Unverified, AddBatch, Transfer, TransferRefused,
       TransferBounces, TransferLost, MarkFailed, ReleaseClaim, StoreReceipt, Debit, Clawback,
       ReadShortfall, Draw, Uphold

LEMMA StepActs ==
    ASSUME ThreadsHold, NEW t \in Threads, OpStep(t)
    PROVE  th[t].pc # "idle" /\ th[t].op \in Keys /\ Act(t)
BY ChargeActs, SettleActs, RefundActs, KindsApart DEF OpStep
-----------------------------------------------------------------------------
\* A KEY, AND WHOSE STEP IT IS

\* A step of another operation, or of none.
Away(k) ==
    /\ Untouched({k}) /\ key'[k] = key[k] /\ (calm' => calm)
    /\ \/ \E t \in Threads : OpStep(t) /\ th[t].op # k
       \/ UNCHANGED <<ledger, charged, moved, unheard, batches, upheld>>

LEMMA WhoseStep ==
    ASSUME ThreadsHold, KeysHold, [Next]_vars, NEW k \in Keys
    PROVE  \/ \E t \in Threads : Runs(t, k) /\ (OpStep(t) \/ Finish(t))
           \/ \E t \in Threads : Claim(t, k) /\ (th' # th \/ key' # key)
           \/ Away(k)
<1>1. ASSUME NEW t \in Threads, OpStep(t), th[t].op # k PROVE Away(k)
  <2>1. th[t].pc # "idle" /\ th[t].op \in Keys /\ Act(t)
    BY <1>1, StepActs
  <2>2. Untouched({k})
    BY <1>1, <2>1, Goings, Endings DEF Act
  <2>3. key'[k] = key[k] /\ (calm' => calm)
    BY <1>1, <2>1 DEF Act, KeysHold
  <2> QED
    BY <1>1, <2>2, <2>3 DEF Away
<1>2. ASSUME NEW t \in Threads, OpStep(t), th[t].op = k PROVE Runs(t, k)
  BY <1>2, StepActs DEF Runs
<1>3. ASSUME NEW t \in Threads, Finish(t) PROVE Runs(t, k) \/ Away(k)
  <2>1. CASE th[t].op = k
    BY <1>3, <2>1, FinishActs DEF Runs
  <2>2. CASE th[t].op # k
    <3>1. Untouched({k}) /\ key'[k] = key[k] /\ (calm' => calm)
      BY <1>3, <2>2, FinishActs, Endings DEF KeysHold
    <3> QED
      BY <1>3, <3>1 DEF Away, Finish
  <2> QED
    BY <2>1, <2>2
<1>4. ASSUME NEW t \in Threads, NEW j \in Keys, Claim(t, j)
      PROVE  (j = k /\ (th' # th \/ key' # key)) \/ Away(k)
  <2>1. UNCHANGED <<ledger, charged, moved, unheard, batches, upheld>> /\ (calm' => calm)
    BY <1>4 DEF Claim
  <2>2. CASE th' = th /\ key' = key
    BY <2>1, <2>2 DEF Away, Untouched, Runs
  <2>3. CASE (th' # th \/ key' # key) /\ j # k
    <3>1. Untouched({k}) /\ key'[k] = key[k]
      BY <1>4, <2>3, ClaimActs DEF KeysHold
    <3> QED
      BY <2>1, <3>1 DEF Away
  <2> QED
    BY <2>2, <2>3
<1>5. CASE Crash
  BY <1>5, CrashActs DEF Away
<1>6. CASE (\E r \in ledger : Grow(r)) \/ UNCHANGED vars
  BY <1>6, NothingActs DEF Away, Untouched, Runs
<1> QED
  BY <1>1, <1>2, <1>3, <1>4, <1>5, <1>6, Steps DEF OpStep
-----------------------------------------------------------------------------
\* CHARGES

LEMMA ChargeAway ==
    ASSUME ThreadsHold, NEW e \in Events, ChargeIsSound(e), Away(<<"charge", e>>)
    PROVE  ChargeIsSound(e)'
<1> DEFINE k == <<"charge", e>>
<1>1. /\ \A u \in Threads : Runs(u, k)' => Runs(u, k) /\ th'[u] = th[u]
      /\ key'[k] = key[k]
  BY DEF Away, Untouched
<1>2. Posted("accrual", e)' = Posted("accrual", e) /\ (e \in charged' <=> e \in charged)
  <2>1. CASE \E t \in Threads : OpStep(t) /\ th[t].op # k
    <3>1. PICK t \in Threads : OpStep(t) /\ th[t].op # k
      BY <2>1
    <3>2. Accrue(t) \/ Charge(t) \/ ChargeRaises(t) => Of(t) # e
      BY <3>1, OfWhom, ChargeActs DEF ChargeStep
    <3> QED
      BY <3>1, <3>2, StepAppends, StepCharges
  <2>2. CASE UNCHANGED <<ledger, charged, moved, unheard, batches, upheld>>
    BY <2>2 DEF Posted
  <2> QED
    BY <2>1, <2>2 DEF Away
<1> QED
  BY <1>1, <1>2 DEF ChargeIsSound

LEMMA ChargesStep ==
    ASSUME ThreadsHold, KeysHold, ChargesHold, [Next]_vars
    PROVE  ChargesHold'
<1> SUFFICES ASSUME NEW e \in Events PROVE ChargeIsSound(e)'
  BY DEF ChargesHold
<1> DEFINE k == <<"charge", e>>
<1>1. k \in Charges /\ k \in Keys /\ ChargeIsSound(e)
  BY KindsApart DEF ChargesHold
<1>2. CASE Away(k)
  BY <1>1, <1>2, ChargeAway
<1>3. ASSUME NEW t \in Threads, Claim(t, k), th' # th \/ key' # key PROVE ChargeIsSound(e)'
  <2>1. /\ key[k] = "free" /\ th'[t].pc = First(k) /\ \A u \in Threads \ {t} : th'[u] = th[u]
    BY <1>1, <1>3, ClaimActs
  <2>2. th'[t].pc = "charge"
    BY <1>1, <2>1, FirstSteps
  <2>3. Posted("accrual", e)' = Posted("accrual", e) /\ charged' = charged
    BY <1>3 DEF Claim, Posted
  <2>4. \A u \in Threads : ~Runs(u, k)
    BY <1>1, <2>1 DEF KeysHold
  <2> QED
    BY <1>1, <2>1, <2>2, <2>3, <2>4 DEF ChargeIsSound, Runs
<1>4. ASSUME NEW t \in Threads, Runs(t, k), OpStep(t) \/ Finish(t) PROVE ChargeIsSound(e)'
  <2>1. th[t].op = k /\ Of(t) = e /\ key[k] = "claimed" /\ \A u \in Threads : Runs(u, k) => u = t
    BY <1>1, <1>4 DEF Runs, Of, KeysHold
  <2>2. CASE Finish(t)
    <3>1. /\ th[t].pc = "finish" /\ \A u \in Threads : ~Runs(u, k)'
      BY <1>1, <2>1, <2>2, FinishActs, Endings
    <3>2. Posted("accrual", e)' = Posted("accrual", e) /\ charged' = charged
      BY <2>2 DEF Finish, Posted
    <3> QED
      BY <1>1, <1>4, <3>1, <3>2 DEF ChargeIsSound
  <2>3. CASE OpStep(t)
    <3>1. ChargeStep(t)
      BY <1>1, <2>1, <2>3, SettleActs, RefundActs, KindsApart DEF OpStep
    <3>2. CASE Excluded(t)
      <4>1. /\ th[t].pc = "charge" /\ Goes(t, "finish")
            /\ key' = key /\ charged' = charged /\ ledger' = ledger
        BY <3>2 DEF Excluded, At
      <4>2. th'[t].pc = "finish" /\ \A u \in Threads : Runs(u, k)' => Runs(u, k)
        BY <4>1, Going
      <4>3. Posted("accrual", e)' = Posted("accrual", e)
        BY <4>1 DEF Posted
      <4> QED
        BY <1>1, <1>4, <2>1, <4>1, <4>2, <4>3 DEF ChargeIsSound
    <3>3. CASE Charge(t)
      <4>1. /\ th[t].pc = "charge" /\ Goes(t, "accrue")
            /\ key' = key /\ charged' = charged \cup {e} /\ ledger' = ledger
        BY <2>1, <3>3 DEF Charge, At
      <4>2. th'[t].pc = "accrue" /\ \A u \in Threads : Runs(u, k)' => Runs(u, k)
        BY <4>1, Going
      <4>3. Posted("accrual", e)' = Posted("accrual", e)
        BY <4>1 DEF Posted
      <4> QED
        BY <1>1, <2>1, <4>1, <4>2, <4>3 DEF ChargeIsSound
    <3>4. CASE ChargeRaises(t)
      <4>1. /\ (charged' = charged \/ charged' = charged \cup {e}) /\ key' = key
            /\ Posted("accrual", e)' = Posted("accrual", e) /\ Ends(t)
        BY <2>1, <3>4 DEF ChargeRaises, Posted
      <4>2. \A u \in Threads : ~Runs(u, k)'
        BY <1>1, <2>1, <4>1, Endings
      <4> QED
        BY <1>1, <2>1, <4>1, <4>2 DEF ChargeIsSound
    <3>5. CASE Accrue(t)
      <4>1. PICK row : row = Row("accrual", e, Share, 0) /\ Post(row, "held")
        BY <2>1, <3>5 DEF Accrue
      <4>2. Posted("accrual", e)' # {}
        BY <4>1, RowFields, Posting
      <4>3. charged' = charged /\ th[t].pc = "accrue" /\ Goes(t, "finish")
        BY <3>5 DEF Accrue, At
      <4>4. th'[t].pc = "finish" /\ \A u \in Threads : Runs(u, k)' => Runs(u, k)
        BY <4>3, Going
      <4> QED
        BY <1>1, <1>4, <2>1, <4>2, <4>3, <4>4 DEF ChargeIsSound
    <3> QED
      BY <3>1, <3>2, <3>3, <3>4, <3>5 DEF ChargeStep
  <2> QED
    BY <1>4, <2>2, <2>3
<1> QED
  BY <1>1, <1>2, <1>3, <1>4, WhoseStep
-----------------------------------------------------------------------------
\* REFUNDS

LEMMA AwayKeeps ==
    ASSUME NEW k, Away(k)
    PROVE  /\ \A kind, of : Posted(kind, of) # {} => Posted(kind, of)' # {}
           /\ upheld \subseteq upheld'
<1>1. CASE \E t \in Threads : OpStep(t) /\ th[t].op # k
  BY <1>1, StepAppends, StepCharges
<1>2. CASE UNCHANGED <<ledger, charged, moved, unheard, batches, upheld>>
  BY <1>2 DEF Posted
<1> QED
  BY <1>1, <1>2 DEF Away

LEMMA RefundAway ==
    ASSUME NEW h \in Hooks, RefundIsSound(h), Away(<<"refund", h>>)
    PROVE  RefundIsSound(h)'
<1> DEFINE k == <<"refund", h>>
<1>1. /\ \A u \in Threads : Runs(u, k)' => Runs(u, k) /\ th'[u] = th[u]
      /\ key'[k] = key[k] /\ (calm' => calm)
  BY DEF Away, Untouched
<1>2. /\ \A kind, of : Posted(kind, of) # {} => Posted(kind, of)' # {}
      /\ upheld \subseteq upheld'
  BY AwayKeeps
<1> QED
  BY <1>1, <1>2 DEF RefundIsSound

\* When nothing is under way and nothing was abandoned, what was charged is accrued.
LEMMA CalmIsAccrued ==
    ASSUME KeysHold, ChargesHold, calm, \A u \in Threads : th[u].pc = "idle",
           NEW e \in charged, e \in Events
    PROVE  Posted("accrual", e) # {}
<1>1. <<"charge", e>> \in Keys
  BY KindsApart
<1>2. key[<<"charge", e>>] # "claimed"
  BY <1>1 DEF KeysHold, Runs
<1> QED
  BY <1>2 DEF ChargesHold, ChargeIsSound

LEMMA RefundsStep ==
    ASSUME ThreadsHold, KeysHold, ChargesHold, RefundsHold, [Next]_vars
    PROVE  RefundsHold'
<1> SUFFICES ASSUME NEW h \in Hooks PROVE RefundIsSound(h)'
  BY DEF RefundsHold
<1> DEFINE k == <<"refund", h>>
           e == RefundOf[h]
<1>1. k \in Refunds /\ k \in Keys /\ k[2] = h /\ RefundIsSound(h) /\ e \in Events
  BY KindsApart, HookAssumption DEF RefundsHold
<1>2. CASE Away(k)
  BY <1>1, <1>2, RefundAway
<1>3. ASSUME NEW t \in Threads, Claim(t, k), th' # th \/ key' # key PROVE RefundIsSound(h)'
  <2>1. /\ key[k] = "free" /\ key' = [key EXCEPT ![k] = "claimed"]
        /\ th'[t].pc = First(k) /\ \A u \in Threads \ {t} : th'[u] = th[u]
    BY <1>1, <1>3, ClaimActs
  <2>2. th'[t].pc = "clawback"
    BY <1>1, <2>1, FirstSteps
  <2>3. key'[k] # "done"
    BY <1>1, <2>1 DEF KeysHold
  <2>4. \A u \in Threads : ~Runs(u, k)
    BY <1>1, <2>1 DEF KeysHold
  <2>5. Posted("accrual", e)' = Posted("accrual", e)
    BY <1>3 DEF Claim, Posted
  <2>6. calm' => calm /\ (\A u \in Threads : th[u].pc = "idle") /\ e \in charged
    BY <1>1, <1>3 DEF Claim, At
  <2>7. calm' => Posted("accrual", e)' # {}
    BY <1>1, <2>5, <2>6, CalmIsAccrued
  <2>8. \A u \in Threads : Runs(u, k)' => u = t
    BY <2>1, <2>4 DEF Runs
  <2> QED
    BY <2>2, <2>3, <2>7, <2>8 DEF RefundIsSound
<1>4. ASSUME NEW t \in Threads, Runs(t, k), OpStep(t) \/ Finish(t) PROVE RefundIsSound(h)'
  <2>1. th[t].op = k /\ Of(t) = h /\ key[k] = "claimed" /\ \A u \in Threads : Runs(u, k) => u = t
    BY <1>1, <1>4 DEF Runs, Of, KeysHold
  <2>2. CASE Finish(t)
    <3>1. /\ th[t].pc = "finish" /\ calm' = calm /\ \A u \in Threads : ~Runs(u, k)'
      BY <1>1, <2>1, <2>2, FinishActs, Endings
    <3>2. (\A kind, of : Posted(kind, of)' = Posted(kind, of)) /\ upheld' = upheld
      BY <2>2 DEF Finish, Posted
    <3> QED
      BY <1>1, <1>4, <3>1, <3>2 DEF RefundIsSound
  <2>3. CASE OpStep(t)
    <3>1. RefundStep(t)
      BY <1>1, <2>1, <2>3, ChargeActs, SettleActs, KindsApart DEF OpStep
    <3>2. th[t].pc # "idle"
      BY <1>4 DEF Runs
    <3>3. /\ \A kind, of : Posted(kind, of) # {} => Posted(kind, of)' # {}
          /\ upheld \subseteq upheld'
      BY <2>3, StepAppends, StepCharges
    \* What a step of the refund has to show.
    <3>4. ASSUME NEW pc, th'[t].pc = pc, key' = key, calm' = calm,
                 \A u \in Threads : Runs(u, k)' => Runs(u, k),
                 pc = "finish" => h \in upheld',
                 calm => pc # "clawback" /\ Posted("clawback", e)' # {}
          PROVE  RefundIsSound(h)'
      <4>1. key'[k] = "claimed" /\ \A u \in Threads : Runs(u, k)' => u = t
        BY <2>1, <3>4
      <4>2. calm => Posted("accrual", e)' # {}
        BY <1>1, <1>4, <3>3 DEF RefundIsSound
      <4> QED
        BY <3>4, <4>1, <4>2 DEF RefundIsSound
    <3>5. CASE Clawback(t)
      <4>1. PICK hit \in BOOLEAN :
               /\ hit <=> Posted("accrual", e) # {} /\ Posted("clawback", e) = {}
               /\ hit => Post(Row("clawback", e, -Share, 0), "payable")
               /\ Goes(t, IF hit THEN "shortfall" ELSE "uphold")
               /\ key' = key /\ calm' = calm
        BY <2>1, <3>5 DEF Clawback
      <4>2. PICK pc \in {"shortfall", "uphold"} : Goes(t, pc)
        BY <4>1
      <4>3. th'[t].pc = pc /\ \A u \in Threads : Runs(u, k)' => Runs(u, k)
        BY <3>2, <4>2, Going
      <4>4. hit => Posted("clawback", e)' # {}
        <5> SUFFICES ASSUME hit PROVE Posted("clawback", e)' # {}
          OBVIOUS
        <5>1. PICK row : row = Row("clawback", e, -Share, 0) /\ Post(row, "payable")
          BY <4>1
        <5> QED
          BY <5>1, RowFields, Posting
      <4>5. calm => Posted("accrual", e) # {}
        BY <1>1, <1>4 DEF RefundIsSound
      <4>6. calm => Posted("clawback", e)' # {}
        BY <3>3, <4>1, <4>4, <4>5
      <4> QED
        BY <3>4, <4>1, <4>2, <4>3, <4>6
    <3>6. ASSUME th[t].pc # "clawback" PROVE calm => Posted("clawback", e)' # {}
      BY <1>1, <1>4, <3>3, <3>6 DEF RefundIsSound
    <3>7. CASE ReadShortfall(t)
      <4>1. th[t].pc = "shortfall" /\ key' = key /\ calm' = calm
        BY <3>7 DEF ReadShortfall, At
      <4>2. PICK pc \in {"draw", "uphold"} : \E n : MovesTo(t, pc, n, th[t].batch)
        BY <3>7, GoesWith DEF ReadShortfall
      <4>3. th'[t].pc = pc /\ \A u \in Threads : Runs(u, k)' => Runs(u, k)
        BY <3>2, <4>2, Moving
      <4> QED
        BY <3>4, <3>6, <4>1, <4>2, <4>3
    <3>8. CASE Draw(t)
      <4>1. th[t].pc = "draw" /\ key' = key /\ calm' = calm /\ Goes(t, "uphold")
        BY <3>8 DEF Draw, At
      <4>2. th'[t].pc = "uphold" /\ \A u \in Threads : Runs(u, k)' => Runs(u, k)
        BY <4>1, Going
      <4> QED
        BY <3>4, <3>6, <4>1, <4>2
    <3>9. CASE Uphold(t)
      <4>1. /\ th[t].pc = "uphold" /\ key' = key /\ calm' = calm /\ Goes(t, "finish")
            /\ h \in upheld'
        BY <2>1, <3>9 DEF Uphold, At
      <4>2. th'[t].pc = "finish" /\ \A u \in Threads : Runs(u, k)' => Runs(u, k)
        BY <4>1, Going
      <4> QED
        BY <3>4, <3>6, <4>1, <4>2
    <3> QED
      BY <3>1, <3>5, <3>7, <3>8, <3>9 DEF RefundStep
  <2> QED
    BY <1>4, <2>2, <2>3
<1> QED
  BY <1>1, <1>2, <1>3, <1>4, WhoseStep
-----------------------------------------------------------------------------
\* BATCHES

\* A batch keeps its id, its period and its amount, whatever becomes of it.
SameBatch(b, c) == b.id = c.id /\ b.period = c.period /\ b.amount = c.amount

LEMMA Marked ==
    ASSUME BatchesHold, NEW t \in Threads, NEW status, NEW b \in batches, NEW c,
           c = IF b.id = th[t].batch THEN [b EXCEPT !.status = status] ELSE b
    PROVE  /\ c = [id |-> c.id, period |-> c.period, amount |-> c.amount, status |-> c.status]
           /\ SameBatch(b, c)
           /\ c.status = IF b.id = th[t].batch THEN status ELSE b.status
<1>1. b = [id |-> b.id, period |-> b.period, amount |-> b.amount, status |-> b.status]
  BY DEF BatchesHold
<1>2. CASE b.id = th[t].batch
  <2>1. c = [id |-> b.id, period |-> b.period, amount |-> b.amount, status |-> status]
    BY <1>1, <1>2
  <2>2. c.id = b.id /\ c.period = b.period /\ c.amount = b.amount /\ c.status = status
    BY <2>1
  <2> QED
    BY <1>2, <2>1, <2>2 DEF SameBatch
<1>3. CASE b.id # th[t].batch
  BY <1>1, <1>3 DEF SameBatch
<1> QED
  BY <1>2, <1>3

\* Marking a batch leaves as many batches, with the ids they had.
LEMMA Marking ==
    ASSUME BatchesHold, NEW t \in Threads, NEW status, UpdateBatch(t, status)
    PROVE  /\ BatchesHold'
           /\ \A b \in batches : \E c \in batches' :
                 SameBatch(b, c) /\ c.status = IF b.id = th[t].batch THEN status ELSE b.status
           /\ \A c \in batches' : \E b \in batches : SameBatch(b, c)
<1> DEFINE F(b) == IF b.id = th[t].batch THEN [b EXCEPT !.status = status] ELSE b
           f == [b \in batches |-> F(b)]
<1>1. batches' = {F(b) : b \in batches}
  BY DEF UpdateBatch
<1>2. ASSUME NEW b \in batches
      PROVE  /\ F(b) = [id |-> F(b).id, period |-> F(b).period,
                        amount |-> F(b).amount, status |-> F(b).status]
             /\ SameBatch(b, F(b))
             /\ F(b).status = IF b.id = th[t].batch THEN status ELSE b.status
  <2>1. PICK c : c = F(b)
    OBVIOUS
  <2>2. c = IF b.id = th[t].batch THEN [b EXCEPT !.status = status] ELSE b
    BY <2>1
  <2>3. /\ c = [id |-> c.id, period |-> c.period, amount |-> c.amount, status |-> c.status]
        /\ SameBatch(b, c)
        /\ c.status = IF b.id = th[t].batch THEN status ELSE b.status
    BY <2>2, Marked
  <2> HIDE DEF F
  <2> QED
    BY <2>1, <2>3
<1> HIDE DEF F
<1>3. f \in Bijection(batches, batches')
  <2>1. f \in [batches -> batches'] /\ \A c \in batches' : \E b \in batches : f[b] = c
    BY <1>1
  <2>2. \A b, c \in batches : f[b] = f[c] => b = c
    BY <1>2 DEF SameBatch, BatchesHold
  <2> QED
    BY <2>1, <2>2 DEF Bijection, Injection, Surjection, IsInjective
<1>4. IsFiniteSet(batches') /\ Cardinality(batches') = Cardinality(batches)
  BY <1>3, FS_Bijection DEF BatchesHold, ExistsBijection
<1>5. /\ \A b \in batches : \E c \in batches' :
            SameBatch(b, c) /\ c.status = IF b.id = th[t].batch THEN status ELSE b.status
      /\ \A c \in batches' : \E b \in batches : SameBatch(b, c)
  BY <1>1, <1>2
<1>6. \A c \in batches' :
         /\ c = [id |-> c.id, period |-> c.period, amount |-> c.amount, status |-> c.status]
         /\ c.id \in 1 .. Cardinality(batches') /\ c.period \in Periods
  BY <1>1, <1>2, <1>4 DEF SameBatch, BatchesHold
<1>7. \A c, d \in batches' : c.id = d.id => c = d
  BY <1>1, <1>2 DEF SameBatch, BatchesHold
<1> QED
  BY <1>4, <1>5, <1>6, <1>7 DEF BatchesHold

\* A new batch takes the next id.
LEMMA Adding ==
    ASSUME BatchesHold, NEW p \in Periods, NEW amount, NEW b,
           b = [id |-> Cardinality(batches) + 1, period |-> p,
                amount |-> amount, status |-> "pending"],
           batches' = batches \cup {b}
    PROVE  /\ BatchesHold' /\ b.id = Cardinality(batches) + 1 /\ b.period = p
           /\ \A c \in batches : c.id # b.id
<1>1. /\ b.id = Cardinality(batches) + 1 /\ b.period = p
      /\ b = [id |-> b.id, period |-> b.period, amount |-> b.amount, status |-> b.status]
  OBVIOUS
<1>2. Cardinality(batches) \in Nat
  BY FS_CardinalityType DEF BatchesHold
<1>3. \A c \in batches : c.id # b.id /\ c.id \in 1 .. Cardinality(batches)
  BY <1>1, <1>2 DEF BatchesHold
<1>4. IsFiniteSet(batches') /\ Cardinality(batches') = Cardinality(batches) + 1
  BY <1>3, FS_AddElement DEF BatchesHold
<1>5. \A c \in batches' : c.id \in 1 .. Cardinality(batches')
  BY <1>1, <1>2, <1>3, <1>4
<1>6. \A c, d \in batches' : c.id = d.id => c = d
  BY <1>3 DEF BatchesHold
<1>7. \A c \in batches' :
         /\ c = [id |-> c.id, period |-> c.period, amount |-> c.amount, status |-> c.status]
         /\ c.period \in Periods
  BY <1>1 DEF BatchesHold
<1> QED
  BY <1>1, <1>3, <1>4, <1>5, <1>6, <1>7 DEF BatchesHold

LEMMA StepBatches ==
    ASSUME NEW t \in Threads, OpStep(t)
    PROVE  AddBatch(t) \/ MarkFailed(t) \/ StoreReceipt(t) \/ batches' = batches
BY DEF OpStep, ChargeStep, SettleStep, RefundStep, Excluded, Charge, ChargeRaises, Accrue,
       ReadReserve, TrueUp, ReadBalance, Unverified, AddBatch, Transfer, TransferRefused,
       TransferBounces, TransferLost, MarkFailed, ReleaseClaim, StoreReceipt, Debit, Clawback,
       ReadShortfall, Draw, Uphold

Marks(t) == MarkFailed(t) \/ StoreReceipt(t)

\* The status of a receipt.
Answer(t) == IF At(t, "receipt") THEN "paid" ELSE "failed"

\* Batches stay, are marked by the settlement that made them, and are made by settlements.
LEMMA BatchesFlow ==
    ASSUME ThreadsHold, BatchesHold, NEW t \in Threads, OpStep(t)
    PROVE  /\ BatchesHold'
           /\ \A b \in batches : \E c \in batches' :
                 /\ SameBatch(b, c)
                 /\ (Marks(t) /\ b.id = th[t].batch) \/ c.status = b.status
                 /\ b.id = th[t].batch =>
                       /\ MarkFailed(t) => c.status = "failed"
                       /\ StoreReceipt(t) => c.status = Answer(t)
           /\ \A c \in batches' :
                 \/ \E b \in batches : SameBatch(b, c)
                 \/ AddBatch(t) /\ c.id = Cardinality(batches) + 1 /\ c.period = Of(t)
<1>1. CASE batches' = batches /\ ~Marks(t)
  BY <1>1 DEF BatchesHold, SameBatch, Marks
<1>2. CASE AddBatch(t)
  <2>1. th[t].op \in Settlements /\ ~Marks(t)
    BY <1>2, SettleActs DEF SettleStep, AddBatch, Marks, MarkFailed, StoreReceipt, At
  <2>2. PICK b : /\ b = [id |-> Cardinality(batches) + 1, period |-> Of(t),
                         amount |-> th[t].n, status |-> "pending"]
                 /\ batches' = batches \cup {b}
    BY <1>2 DEF AddBatch
  <2>3. /\ BatchesHold' /\ b.id = Cardinality(batches) + 1 /\ b.period = Of(t)
    BY <2>1, <2>2, OfWhom, Adding
  <2> QED
    BY <1>2, <2>1, <2>2, <2>3 DEF SameBatch, Marks
<1>3. CASE Marks(t)
  <2>1. CASE StoreReceipt(t)
    <3>1. UpdateBatch(t, Answer(t)) /\ ~MarkFailed(t)
      BY <2>1 DEF StoreReceipt, MarkFailed, Answer, At
    <3> QED
      BY <1>3, <2>1, <3>1, Marking
  <2>2. CASE MarkFailed(t)
    <3>1. UpdateBatch(t, "failed") /\ ~StoreReceipt(t)
      BY <2>2 DEF MarkFailed, StoreReceipt, At
    <3> QED
      BY <1>3, <2>2, <3>1, Marking
  <2> QED
    BY <1>3, <2>1, <2>2 DEF Marks
<1> QED
  BY <1>1, <1>2, <1>3, StepBatches DEF Marks

LEMMA BatchesStep == ASSUME ThreadsHold, BatchesHold, [Next]_vars PROVE BatchesHold'
<1>1. ASSUME NEW t \in Threads, OpStep(t) PROVE BatchesHold'
  BY <1>1, BatchesFlow
<1>2. CASE batches' = batches
  BY <1>2 DEF BatchesHold
<1>3. ASSUME NEW t \in Threads, Finish(t) \/ \E k \in Keys : Claim(t, k) PROVE batches' = batches
  BY <1>3 DEF Finish, Claim
<1>4. CASE Crash \/ (\E r \in ledger : Grow(r)) \/ UNCHANGED vars
  BY <1>2, <1>4, CrashActs, NothingActs
<1> QED
  BY <1>1, <1>2, <1>3, <1>4, Steps DEF OpStep
-----------------------------------------------------------------------------
\* SETTLEMENTS

\* What a settlement that is not over has in its hands.
LEMMA InSettlement ==
    ASSUME SettlementsHold, NEW p \in Periods, NEW t \in Threads, Runs(t, <<"settle", p>>),
           th[t].pc # "finish"
    PROVE  /\ Debits(p) = {} /\ InHand(t, p)
           /\ moved[p] # 0 => OnRecordAsFailed(p) \/ Owes(t, p)
BY DEF SettlementsHold, SettlementIsSound

\* A step of a settlement is its thread's, before it is over.
LEMMA SettleStepRuns ==
    ASSUME ThreadsHold, NEW t \in Threads, SettleStep(t)
    PROVE  Of(t) \in Periods /\ th[t].op = <<"settle", Of(t)>> /\ Runs(t, <<"settle", Of(t)>>)
BY SettleActs, OfWhom DEF Runs

\* The batch in hand is the period's.
LEMMA HandIsOfPeriod ==
    ASSUME ThreadsHold, SettlementsHold, BatchesHold, NEW t \in Threads, SettleStep(t),
           th[t].pc \in BatchPcs \cup MovedPcs, NEW b \in batches, b.id = th[t].batch
    PROVE  b.period = Of(t) /\ Fit(t, Of(t), b)
<1>1. /\ Of(t) \in Periods /\ Runs(t, <<"settle", Of(t)>>)
  BY SettleStepRuns
<1>2. th[t].pc # "finish"
  BY DEF BatchPcs, MovedPcs
<1>3. InHand(t, Of(t))
  BY <1>1, <1>2, InSettlement
<1>4. PICK d \in batches : Fit(t, Of(t), d)
  BY <1>3 DEF InHand
<1>5. d = b
  BY <1>4 DEF BatchesHold, Fit
<1> QED
  BY <1>4, <1>5 DEF Fit

Sends(t) == Transfer(t) \/ TransferRefused(t) \/ TransferBounces(t) \/ TransferLost(t)
Moves(t) == Sends(t) /\ Moved(t)

LEMMA StepMoves ==
    ASSUME NEW t \in Threads, OpStep(t)
    PROVE  Moves(t) \/ moved' = moved
BY DEF Moves, Sends, OpStep, ChargeStep, SettleStep, RefundStep, Excluded, Charge, ChargeRaises,
       Accrue, ReadReserve, TrueUp, ReadBalance, Unverified, AddBatch, Transfer, TransferRefused,
       TransferBounces, TransferLost, MarkFailed, ReleaseClaim, StoreReceipt, Debit, Clawback,
       ReadShortfall, Draw, Uphold

\* Only an error that came after the transfer goes unheard.
LEMMA StepHears ==
    ASSUME NEW t \in Threads, OpStep(t)
    PROVE  \/ unheard' = unheard
           \/ TransferRefused(t) /\ Moved(t) /\ unheard' = unheard \cup {Of(t)}
BY DEF OpStep, ChargeStep, SettleStep, RefundStep, Excluded, Charge, ChargeRaises,
       Accrue, ReadReserve, TrueUp, ReadBalance, Unverified, AddBatch, Transfer, TransferRefused,
       TransferBounces, TransferLost, MarkFailed, ReleaseClaim, StoreReceipt, Debit, Clawback,
       ReadShortfall, Draw, Uphold

LEMMA MovedOf ==
    ASSUME SettlementsHold, NEW t \in Threads, Of(t) \in Periods, Moved(t)
    PROVE  /\ moved' = [p \in Periods |-> moved'[p]]
           /\ moved'[Of(t)] = IF moved[Of(t)] = 0 THEN th[t].n ELSE moved[Of(t)]
           /\ \A p \in Periods \ {Of(t)} : moved'[p] = moved[p]
BY DEF SettlementsHold, Moved

\* A transfer is a period's whose settlement is under way.
LEMMA MovesFlow ==
    ASSUME ThreadsHold, SettlementsHold, NEW t \in Threads, OpStep(t)
    PROVE  /\ moved' = [p \in Periods |-> moved'[p]]
           /\ \A p \in Periods : (Moves(t) /\ p = Of(t)) \/ moved'[p] = moved[p]
           /\ \A p \in Periods : moved[p] # 0 => moved'[p] = moved[p]
<1>1. CASE moved' = moved
  BY <1>1 DEF SettlementsHold
<1>2. CASE Moves(t)
  BY <1>2, SettleStepRuns, MovedOf DEF Moves, Sends, SettleStep
<1> QED
  BY <1>1, <1>2, StepMoves

\* A failed batch that tells of money that moved stays.
LEMMA RecordStays ==
    ASSUME ThreadsHold, BatchesHold, SettlementsHold, NEW t \in Threads, OpStep(t),
           NEW p \in Periods, moved[p] # 0, OnRecordAsFailed(p)
    PROVE  OnRecordAsFailed(p)'
<1>1. p \in unheard' /\ moved'[p] = moved[p]
  BY StepHears, MovesFlow DEF OnRecordAsFailed
<1>2. PICK b \in batches : b.period = p /\ b.status = "failed" /\ b.amount = moved[p]
  BY DEF OnRecordAsFailed
<1>3. PICK c \in batches' :
         /\ SameBatch(b, c)
         /\ (Marks(t) /\ b.id = th[t].batch) \/ c.status = b.status
         /\ b.id = th[t].batch => /\ MarkFailed(t) => c.status = "failed"
                                  /\ StoreReceipt(t) => c.status = Answer(t)
  BY BatchesFlow
<1>4. StoreReceipt(t) /\ b.id = th[t].batch => Answer(t) = "failed"
  <2>1. SUFFICES ASSUME StoreReceipt(t), b.id = th[t].batch, th[t].pc = "receipt" PROVE FALSE
    BY DEF Answer, At
  <2>2. SettleStep(t) /\ th[t].pc \in MovedPcs
    BY <2>1 DEF SettleStep, MovedPcs
  <2>3. Fit(t, Of(t), b)
    BY <2>1, <2>2, HandIsOfPeriod
  <2> QED
    BY <1>2, <2>1, <2>3 DEF Fit
<1>5. c.status = "failed"
  BY <1>2, <1>3, <1>4 DEF Marks
<1> QED
  BY <1>1, <1>2, <1>3, <1>5 DEF OnRecordAsFailed, SameBatch

\* The row a settlement's debit would add.
Debited(t, r) == Debit(t) /\ r.of = th[t].batch /\ r.amount = -th[t].n

LEMMA PayoutRows ==
    ASSUME NEW t \in Threads, OpStep(t)
    PROVE  /\ ledger \subseteq ledger'
           /\ \A r \in ledger' : r.kind = "payout" => r \in ledger \/ Debited(t, r)
<1>1. CASE ledger' = ledger
  BY <1>1
<1>2. ASSUME NEW row, NEW when, Post(row, when), row.kind # "payout" \/ Debited(t, row)
      PROVE  /\ ledger \subseteq ledger'
             /\ \A r \in ledger' : r.kind = "payout" => r \in ledger \/ Debited(t, r)
  <2>1. ledger' = ledger \/ ledger' = ledger \cup {row}
    BY <1>2, Posting
  <2> QED
    BY <1>2, <2>1
<1>3. ASSUME NEW kind \in {"accrual", "reserve", "clawback"}, NEW of, NEW amount, NEW n, NEW when,
             Post(Row(kind, of, amount, n), when)
      PROVE  /\ ledger \subseteq ledger'
             /\ \A r \in ledger' : r.kind = "payout" => r \in ledger \/ Debited(t, r)
  <2>1. PICK row : row = Row(kind, of, amount, n) /\ Post(row, when)
    BY <1>3
  <2>2. row.kind # "payout"
    BY <2>1, RowFields
  <2> QED
    BY <1>2, <2>1, <2>2
<1>4. CASE Debit(t) /\ Post(Row("payout", th[t].batch, -th[t].n, 0), "payable")
  <2>1. PICK row : row = Row("payout", th[t].batch, -th[t].n, 0) /\ Post(row, "payable")
    BY <1>4
  <2>2. Debited(t, row)
    BY <1>4, <2>1, RowFields DEF Debited
  <2> QED
    BY <1>2, <2>1, <2>2
<1>5. CASE \/ Post(Row("accrual", Of(t), Share, 0), "held")
           \/ Post(Row("reserve", NoRef, th[t].n, Cardinality(ledger)), "payable")
           \/ Post(Row("clawback", RefundOf[Of(t)], -Share, 0), "payable")
           \/ Post(Row("reserve", RefundOf[Of(t)], -th[t].n, 0), "payable")
  BY <1>3, <1>5
<1> QED
  BY <1>1, <1>4, <1>5, StepPosts

LEMMA SettlementAway ==
    ASSUME ThreadsHold, BatchesHold, SettlementsHold, NEW p \in Periods, Away(<<"settle", p>>)
    PROVE  SettlementIsSound(p)'
<1> DEFINE k == <<"settle", p>>
<1>1. /\ \A u \in Threads : Runs(u, k)' => Runs(u, k) /\ th'[u] = th[u]
      /\ key'[k] = key[k] /\ SettlementIsSound(p)
  BY DEF Away, Untouched, SettlementsHold
<1>2. ASSUME Debits(p)' = Debits(p), moved'[p] = moved[p], p \in unheard' <=> p \in unheard,
             moved[p] # 0 /\ OnRecordAsFailed(p) => OnRecordAsFailed(p)',
             \A u \in Threads : Runs(u, k)' => InHand(u, p)'
      PROVE  SettlementIsSound(p)'
  <2>1. \A u \in Threads : Runs(u, k)' /\ Owes(u, p) => Owes(u, p)'
    BY <1>1, <1>2 DEF Owes
  <2> QED
    BY <1>1, <1>2, <2>1 DEF SettlementIsSound
<1>3. CASE UNCHANGED <<ledger, charged, moved, unheard, batches, upheld>>
  <2>1. /\ Debits(p)' = Debits(p) /\ moved'[p] = moved[p] /\ (p \in unheard' <=> p \in unheard)
        /\ OnRecordAsFailed(p) => OnRecordAsFailed(p)'
    BY <1>3 DEF Debits, OnRecordAsFailed
  <2>2. \A u \in Threads : Runs(u, k)' => InHand(u, p)'
    BY <1>1, <1>3 DEF SettlementIsSound, InHand, Fit
  <2> QED
    BY <1>2, <2>1, <2>2
<1>4. ASSUME NEW t \in Threads, OpStep(t), th[t].op # k PROVE SettlementIsSound(p)'
  <2>1. SettleStep(t) => Of(t) # p
    BY <1>4, SettleStepRuns
  <2>2. /\ Marks(t) \/ Debit(t) \/ AddBatch(t) \/ Moves(t) => SettleStep(t)
        /\ Marks(t) \/ Debit(t) => th[t].pc \in BatchPcs \cup MovedPcs
    BY DEF SettleStep, Marks, Moves, Sends, StoreReceipt, MarkFailed, Debit, At, BatchPcs, MovedPcs
  <2>3. Marks(t) \/ Debit(t) => \A b \in batches : b.id = th[t].batch => b.period # p
    BY <2>1, <2>2, HandIsOfPeriod
  <2>4. \A b \in batches : b.period = p =>
           \E c \in batches' : SameBatch(b, c) /\ c.status = b.status
    <3> SUFFICES ASSUME NEW b \in batches, b.period = p
                 PROVE  \E c \in batches' : SameBatch(b, c) /\ c.status = b.status
      OBVIOUS
    <3>1. PICK c \in batches' : SameBatch(b, c)
                                /\ ((Marks(t) /\ b.id = th[t].batch) \/ c.status = b.status)
      BY <1>4, BatchesFlow
    <3> QED
      BY <2>3, <3>1
  <2>5. \A c \in batches' : c.period = p => \E b \in batches : SameBatch(b, c)
    BY <1>4, <2>1, <2>2, BatchesFlow
  <2>6. Debits(p)' \subseteq Debits(p)
    <3> SUFFICES ASSUME NEW r \in ledger', NEW c \in batches', IsOf(r, c), c.period = p
                 PROVE  r \in Debits(p)
      BY DEF Debits, IsOf
    <3>1. PICK b \in batches : SameBatch(b, c)
      BY <2>5
    <3>2. IsOf(r, b) /\ b.period = p
      BY <3>1 DEF IsOf, SameBatch
    <3>3. r \in ledger
      BY <1>4, <2>3, <3>2, PayoutRows DEF IsOf, Debited
    <3> QED
      BY <3>2, <3>3 DEF Debits
  <2>7. Debits(p) \subseteq Debits(p)'
    <3> SUFFICES ASSUME NEW r \in ledger, NEW b \in batches, IsOf(r, b), b.period = p
                 PROVE  r \in Debits(p)'
      BY DEF Debits
    <3>1. PICK c \in batches' : SameBatch(b, c)
      BY <2>4
    <3>2. IsOf(r, c) /\ c.period = p /\ r \in ledger'
      BY <1>4, <3>1, PayoutRows DEF IsOf, SameBatch
    <3> QED
      BY <3>2 DEF Debits, IsOf
  <2>8. moved'[p] = moved[p] /\ (p \in unheard' <=> p \in unheard)
    <3>1. TransferRefused(t) => SettleStep(t)
      BY DEF SettleStep
    <3> QED
      BY <1>4, <2>1, <2>2, <3>1, MovesFlow, StepHears
  <2>9. ASSUME NEW u \in Threads, Runs(u, k)' PROVE InHand(u, p)'
    <3>1. InHand(u, p) /\ th'[u] = th[u]
      BY <1>1, <2>9 DEF SettlementIsSound
    <3> QED
      BY <2>4, <2>8, <3>1 DEF InHand, Fit, SameBatch
  <2> QED
    BY <1>2, <1>4, <2>6, <2>7, <2>8, <2>9, RecordStays
<1> QED
  BY <1>3, <1>4 DEF Away

LEMMA DebitsStep ==
    ASSUME ThreadsHold, BatchesHold, DebitsHold, SettlementsHold, [Next]_vars
    PROVE  DebitsHold'
<1>1. CASE ledger' = ledger /\ batches' = batches /\ moved' = moved /\ unheard' = unheard
  BY <1>1 DEF DebitsHold, Stands, IsOf
<1>2. ASSUME NEW t \in Threads, OpStep(t) PROVE DebitsHold'
  <2> SUFFICES ASSUME NEW r \in ledger', r.kind = "payout"
               PROVE  \E c \in batches' : Stands(r, c)'
    BY DEF DebitsHold, Stands, IsOf
  <2>1. CASE r \in ledger
    <3>1. PICK b \in batches : Stands(r, b)
      BY <2>1 DEF DebitsHold
    <3>2. b.period \in Periods /\ Debits(b.period) # {}
      BY <2>1, <3>1 DEF BatchesHold, Debits, Stands
    <3>3. SettleStep(t) => Of(t) # b.period
      <4> SUFFICES ASSUME SettleStep(t), Of(t) = b.period PROVE FALSE
        OBVIOUS
      <4>1. Runs(t, <<"settle", b.period>>)
        BY SettleStepRuns
      <4>2. th[t].pc # "finish"
        BY DEF SettleStep, ReadReserve, TrueUp, ReadBalance, Unverified, AddBatch, Transfer,
               TransferRefused, TransferBounces, TransferLost, MarkFailed, ReleaseClaim,
               StoreReceipt, Debit, At
      <4> QED
        BY <3>2, <4>1, <4>2, InSettlement
    <3>4. Marks(t) => b.id # th[t].batch
      <4>1. Marks(t) => SettleStep(t) /\ th[t].pc \in BatchPcs \cup MovedPcs
        BY DEF SettleStep, Marks, StoreReceipt, MarkFailed, At, BatchPcs, MovedPcs
      <4> QED
        BY <3>3, <4>1, HandIsOfPeriod
    <3>5. PICK c \in batches' : SameBatch(b, c)
                                /\ ((Marks(t) /\ b.id = th[t].batch) \/ c.status = b.status)
      BY <1>2, BatchesFlow
    <3>6. /\ moved'[b.period] = moved[b.period]
          /\ b.period \notin unheard' => b.period \notin unheard
      <4>1. Moves(t) => SettleStep(t)
        BY DEF SettleStep, Moves, Sends
      <4> QED
        BY <1>2, <3>2, <3>3, <4>1, MovesFlow, StepHears
    <3>7. c.id = b.id /\ c.period = b.period /\ c.amount = b.amount /\ c.status = b.status
      BY <3>4, <3>5 DEF SameBatch
    <3> QED
      BY <3>1, <3>6, <3>7 DEF IsOf, Stands
  <2>2. CASE r \notin ledger
    <3>1. Debit(t) /\ r.of = th[t].batch /\ r.amount = -th[t].n
      BY <1>2, <2>2, PayoutRows DEF Debited
    <3>2. /\ SettleStep(t) /\ th[t].pc = "debit" /\ moved' = moved /\ batches' = batches
          /\ unheard' = unheard
      BY <3>1 DEF SettleStep, Debit, At
    <3>3. Of(t) \in Periods /\ InHand(t, Of(t))
      BY <3>2, SettleStepRuns, InSettlement
    <3>4. PICK b \in batches : Fit(t, Of(t), b)
      BY <3>2, <3>3 DEF InHand, MovedPcs
    <3>5. Stands(r, b)
      BY <2>2, <3>1, <3>2, <3>4 DEF Fit, Stands, IsOf
    <3> QED
      BY <3>2, <3>5 DEF Stands, IsOf
  <2> QED
    BY <2>1, <2>2
<1>3. ASSUME NEW t \in Threads, Finish(t) \/ \E k \in Keys : Claim(t, k)
      PROVE  ledger' = ledger /\ batches' = batches /\ moved' = moved /\ unheard' = unheard
  BY <1>3 DEF Finish, Claim
<1>4. CASE Crash \/ (\E r \in ledger : Grow(r)) \/ UNCHANGED vars
  BY <1>1, <1>4, CrashActs, NothingActs
<1> QED
  BY <1>1, <1>2, <1>3, <1>4, Steps DEF OpStep

\* Only a debit makes a period debited.
LEMMA NoDebits ==
    ASSUME ThreadsHold, BatchesHold, DebitsHold, NEW t \in Threads, OpStep(t), ~Debit(t),
           NEW p \in Periods, Debits(p) = {}
    PROVE  Debits(p)' = {}
<1> SUFFICES ASSUME NEW r \in ledger', NEW c \in batches', IsOf(r, c), c.period = p
             PROVE  FALSE
  BY DEF Debits
<1>1. r \in ledger /\ r.kind = "payout"
  BY PayoutRows DEF IsOf, Debited
<1>2. CASE \E b \in batches : SameBatch(b, c)
  BY <1>1, <1>2 DEF SameBatch, IsOf, Debits
<1>3. CASE c.id = Cardinality(batches) + 1
  <2>1. PICK b \in batches : b.id = r.of
    BY <1>1 DEF DebitsHold, Stands, IsOf
  <2>2. b.id \in 1 .. Cardinality(batches) /\ Cardinality(batches) \in Nat
    BY FS_CardinalityType DEF BatchesHold
  <2>3. b.id = Cardinality(batches) + 1
    BY <1>3, <2>1 DEF IsOf
  <2>4. \A n \in Nat : n + 1 \notin 1 .. n
    OBVIOUS
  <2> QED
    BY <2>2, <2>3, <2>4
<1> QED
  BY <1>2, <1>3, BatchesFlow

\* The batch in hand stays there, and takes the status it is marked with.
LEMMA HandStays ==
    ASSUME ThreadsHold, BatchesHold, NEW t \in Threads, SettleStep(t), NEW p \in Periods,
           InHand(t, p), th[t].pc \in BatchPcs \cup MovedPcs,
           th'[t].batch = th[t].batch, th'[t].n = th[t].n
    PROVE  \E c \in batches' :
              /\ c.id = th'[t].batch /\ c.period = p /\ c.amount = th'[t].n
              /\ MarkFailed(t) => c.status = "failed"
              /\ StoreReceipt(t) => c.status = Answer(t)
<1>1. PICK b \in batches : Fit(t, p, b)
  BY DEF InHand
<1>2. PICK c \in batches' : /\ SameBatch(b, c)
                            /\ b.id = th[t].batch => /\ MarkFailed(t) => c.status = "failed"
                                                     /\ StoreReceipt(t) => c.status = Answer(t)
  BY BatchesFlow DEF OpStep
<1> QED
  BY <1>1, <1>2 DEF SameBatch, Fit

LEMMA SettlementOwn ==
    ASSUME ThreadsHold, KeysHold, BatchesHold, DebitsHold, SettlementsHold,
           NEW p \in Periods, NEW t \in Threads, Runs(t, <<"settle", p>>), SettleStep(t)
    PROVE  SettlementIsSound(p)'
<1> DEFINE k == <<"settle", p>>
<1>1. k \in Settlements /\ k \in Keys
  BY KindsApart
<1>2. /\ th[t].pc # "idle" /\ th[t].op = k /\ Of(t) = p /\ key[k] = "claimed"
      /\ \A u \in Threads : Runs(u, k) => u = t
  BY <1>1 DEF Runs, Of, KeysHold
<1>3. th[t].pc \in EarlyPcs \cup BatchPcs \cup MovedPcs
  BY DEF SettleStep, ReadReserve, TrueUp, ReadBalance, Unverified, AddBatch, Transfer,
         TransferRefused, TransferBounces, TransferLost, MarkFailed, ReleaseClaim, StoreReceipt,
         Debit, At,
         EarlyPcs, BatchPcs, MovedPcs
<1>4. /\ Debits(p) = {} /\ InHand(t, p)
      /\ moved[p] # 0 => OnRecordAsFailed(p) \/ Owes(t, p)
  <2>1. th[t].pc # "finish"
    BY <1>3 DEF EarlyPcs, BatchPcs, MovedPcs
  <2> QED
    BY <2>1, InSettlement
<1>5. OpStep(t) /\ (~Debit(t) => Debits(p)' = {})
  BY <1>4, NoDebits DEF OpStep
<1>r. moved[p] # 0 /\ OnRecordAsFailed(p) => moved'[p] # 0 /\ OnRecordAsFailed(p)'
  BY <1>5, RecordStays, MovesFlow
\* The settlement goes on.
<1>6. ASSUME Debits(p)' = {}, key' = key, \A u \in Threads : Runs(u, k)' => Runs(u, k),
             moved'[p] # 0 => OnRecordAsFailed(p)' \/ Owes(t, p)', InHand(t, p)'
      PROVE  SettlementIsSound(p)'
  <2>1. \A u \in Threads : Runs(u, k)' => u = t
    BY <1>2, <1>6
  <2> QED
    BY <1>2, <1>6, <2>1 DEF SettlementIsSound
<1>7. ASSUME Ends(t), Debits(p)' = {},
             moved'[p] # 0 => OnRecordAsFailed(p)' \/ key'[k] = "claimed"
      PROVE  SettlementIsSound(p)'
  <2>1. \A u \in Threads : ~Runs(u, k)'
    BY <1>1, <1>2, <1>7, Endings
  <2> QED
    BY <1>7, <2>1 DEF SettlementIsSound
<1>8. CASE ReadReserve(t) \/ ReadBalance(t)
  <2>1. /\ key' = key /\ moved' = moved /\ ~Debit(t) /\ ~Owes(t, p)
    BY <1>8 DEF ReadReserve, ReadBalance, Debit, At, Owes, MovedPcs
  <2>2. PICK pc \in {"balance", "true_up", "finish", "kyc"} : \E n : MovesTo(t, pc, n, th[t].batch)
    BY <1>8, GoesWith DEF ReadReserve, ReadBalance
  <2>3. th'[t].pc = pc /\ \A u \in Threads : Runs(u, k)' => Runs(u, k)
    BY <1>2, <2>2, Moving
  <2>4. InHand(t, p)'
    BY <2>2, <2>3 DEF InHand, BatchPcs, MovedPcs
  <2> QED
    BY <1>4, <1>5, <1>6, <1>r, <2>1, <2>3, <2>4
<1>9. CASE TrueUp(t) \/ Unverified(t)
  <2>1. /\ key' = key /\ moved' = moved /\ ~Debit(t) /\ ~Owes(t, p)
    BY <1>9 DEF TrueUp, Unverified, Debit, At, Owes, MovedPcs
  <2>2. PICK pc \in {"balance", "finish"} : Goes(t, pc)
    BY <1>9 DEF TrueUp, Unverified
  <2>3. th'[t].pc = pc /\ \A u \in Threads : Runs(u, k)' => Runs(u, k)
    BY <1>2, <2>2, Going
  <2>4. InHand(t, p)'
    BY <2>2, <2>3 DEF InHand, BatchPcs, MovedPcs
  <2> QED
    BY <1>4, <1>5, <1>6, <1>r, <2>1, <2>3, <2>4
<1>10. CASE AddBatch(t)
  <2>1. /\ th[t].pc = "kyc" /\ key' = key /\ moved' = moved /\ ~Debit(t) /\ ~Owes(t, p)
    BY <1>10 DEF AddBatch, Debit, At, Owes, MovedPcs
  <2>2. PICK id, b :
           /\ b = [id |-> id, period |-> p, amount |-> th[t].n, status |-> "pending"]
           /\ batches' = batches \cup {b}
           /\ th' = [th EXCEPT ![t].pc = "transfer", ![t].batch = id]
    BY <1>2, <1>10 DEF AddBatch
  <2>3. MovesTo(t, "transfer", th[t].n, id)
    BY <2>2, GoesWith
  <2>4. /\ th'[t].pc = "transfer" /\ th'[t].batch = id /\ th'[t].n = th[t].n
        /\ \A u \in Threads : Runs(u, k)' => Runs(u, k)
    BY <1>2, <2>3, Moving
  <2>5. /\ b.id = id /\ b.period = p /\ b.amount = th[t].n /\ b.status = "pending"
        /\ b \in batches'
    BY <2>2
  <2>6. InHand(t, p)'
    BY <2>4, <2>5 DEF InHand, Fit
  <2> QED
    BY <1>4, <1>5, <1>6, <1>r, <2>1, <2>4, <2>6
\* The answers to a transfer that leave the settlement something to write down.
<1>11. CASE Transfer(t) \/ TransferBounces(t) \/ TransferRefused(t)
  <2>1. /\ th[t].pc = "transfer" /\ key' = key /\ batches' = batches /\ ~Debit(t)
        /\ ~Owes(t, p)
    BY <1>11 DEF Transfer, TransferBounces, TransferRefused, Debit, At, Owes, MovedPcs
  <2>2. PICK pc \in {"receipt", "bounced", "failed"} :
           /\ Goes(t, pc) /\ (pc = "receipt" <=> Transfer(t))
           /\ pc = "failed" <=> TransferRefused(t)
    <3>1. /\ Transfer(t) => Goes(t, "receipt")
          /\ TransferBounces(t) => Goes(t, "bounced")
          /\ TransferRefused(t) => Goes(t, "failed")
      BY DEF Transfer, TransferBounces, TransferRefused
    <3>2. \A a, b \in {"receipt", "bounced", "failed"} : Goes(t, a) /\ Goes(t, b) => a = b
      <4> SUFFICES ASSUME NEW a \in {"receipt", "bounced", "failed"},
                          NEW b \in {"receipt", "bounced", "failed"}, Goes(t, a), Goes(t, b)
                   PROVE  a = b
        OBVIOUS
      <4>1. th'[t].pc = a /\ th'[t].pc = b
        BY <2>1, Going
      <4> QED
        BY <4>1
    <3> QED
      BY <1>11, <3>1, <3>2
  <2>3. /\ th'[t].pc = pc /\ th'[t].n = th[t].n /\ th'[t].batch = th[t].batch
        /\ \A u \in Threads : Runs(u, k)' => Runs(u, k)
    BY <1>2, <2>2, Going
  <2>4. moved[p] # 0 => OnRecordAsFailed(p)
    BY <1>4, <2>1
  <2>5. \/ moved' = moved /\ ~Transfer(t)
        \/ Moved(t) /\ (TransferRefused(t) => unheard' = unheard \cup {p})
    BY <1>2, <1>11, <2>2 DEF Transfer, TransferBounces, TransferRefused
  <2>6. Moved(t) /\ moved[p] = 0 => moved'[p] = th'[t].n
    BY <1>2, <2>3, MovedOf
  <2>7. moved'[p] # 0 => OnRecordAsFailed(p)' \/ Owes(t, p)'
    <3>1. CASE moved[p] # 0
      BY <1>r, <2>4, <3>1
    <3>2. CASE moved[p] = 0 /\ moved'[p] # 0
      <4>1. Moved(t) /\ moved'[p] = th'[t].n
        BY <2>5, <2>6, <3>2
      <4>2. pc = "failed" => p \in unheard'
        BY <2>2, <2>5, <3>2
      <4> QED
        BY <2>3, <4>1, <4>2 DEF Owes, MovedPcs
    <3> QED
      BY <3>1, <3>2
  <2>8. InHand(t, p)'
    <3>1. PICK b \in batches : Fit(t, p, b)
      BY <1>4, <2>1 DEF InHand, BatchPcs
    <3>2. Fit(t, p, b)'
      BY <2>1, <2>3, <3>1 DEF Fit
    <3>3. pc = "receipt" /\ p \notin unheard' => moved'[p] = th'[t].n
      <4> SUFFICES ASSUME pc = "receipt", p \notin unheard' PROVE moved'[p] = th'[t].n
        OBVIOUS
      <4>1. Transfer(t) /\ unheard' = unheard
        BY <2>2 DEF Transfer
      <4>2. moved[p] = 0
        BY <2>4, <4>1 DEF OnRecordAsFailed
      <4> QED
        BY <2>5, <2>6, <4>1, <4>2
    <3> QED
      BY <2>1, <2>3, <3>2, <3>3 DEF InHand
  <2> QED
    BY <1>5, <1>6, <2>1, <2>3, <2>7, <2>8
<1>12. CASE MarkFailed(t)
  <2>1. /\ th[t].pc = "failed" /\ key' = key /\ moved' = moved /\ unheard' = unheard
        /\ Goes(t, "release") /\ ~Debit(t)
    BY <1>12 DEF MarkFailed, Debit, At
  <2>2. /\ th'[t].pc = "release" /\ th'[t].n = th[t].n /\ th'[t].batch = th[t].batch
        /\ \A u \in Threads : Runs(u, k)' => Runs(u, k)
    BY <1>2, <2>1, Going
  <2>3. PICK c \in batches' : /\ c.id = th'[t].batch /\ c.period = p /\ c.amount = th'[t].n
                              /\ c.status = "failed"
    BY <1>4, <1>12, <2>1, <2>2, HandStays DEF BatchPcs
  <2>4. InHand(t, p)'
    BY <2>2, <2>3 DEF InHand, Fit
  \* The record is there before the claim goes.
  <2>5. moved'[p] # 0 => OnRecordAsFailed(p)'
    <3>1. CASE OnRecordAsFailed(p)
      BY <1>r, <2>1, <3>1
    <3>2. CASE moved[p] # 0 /\ Owes(t, p)
      BY <2>1, <2>2, <2>3, <3>2 DEF Owes, MovedPcs, OnRecordAsFailed
    <3> QED
      BY <1>4, <2>1, <3>1, <3>2
  <2> QED
    BY <1>5, <1>6, <2>1, <2>2, <2>4, <2>5
<1>13. CASE StoreReceipt(t)
  <2>1. /\ th[t].pc \in {"receipt", "bounced"} /\ key' = key /\ moved' = moved
        /\ unheard' = unheard /\ Goes(t, "debit") /\ ~Debit(t)
    BY <1>13 DEF StoreReceipt, Debit, At
  <2>2. /\ th'[t].pc = "debit" /\ th'[t].n = th[t].n /\ th'[t].batch = th[t].batch
        /\ \A u \in Threads : Runs(u, k)' => Runs(u, k)
    BY <2>1, Going
  <2>3. PICK c \in batches' : /\ c.id = th'[t].batch /\ c.period = p /\ c.amount = th'[t].n
                              /\ c.status = Answer(t)
    BY <1>4, <1>13, <2>1, <2>2, HandStays DEF MovedPcs
  <2>4. /\ Answer(t) \in {"paid", "failed"}
        /\ Answer(t) = "paid" /\ p \notin unheard => moved[p] = th[t].n
    BY <1>4, <2>1 DEF Answer, At, InHand
  <2>5. InHand(t, p)'
    BY <2>1, <2>2, <2>3, <2>4 DEF InHand, Fit
  <2> QED
    BY <1>5, <1>6, <2>1, <2>2, <2>5 DEF Owes, MovedPcs
<1>14. CASE TransferLost(t)
  <2>1. Ends(t) /\ key' = key /\ ~Debit(t)
    BY <1>14 DEF TransferLost, Debit, At
  <2> QED
    BY <1>2, <1>5, <1>7, <2>1
<1>15. CASE ReleaseClaim(t)
  <2>1. Ends(t) /\ moved' = moved /\ th[t].pc = "release" /\ ~Debit(t)
    BY <1>15 DEF ReleaseClaim, Debit, At
  <2>2. moved'[p] # 0 => OnRecordAsFailed(p)'
    BY <1>4, <1>r, <2>1 DEF Owes, MovedPcs
  <2> QED
    BY <1>5, <1>7, <2>1, <2>2
<1>16. CASE Debit(t)
  <2>1. /\ th[t].pc = "debit" /\ key' = key /\ batches' = batches /\ Goes(t, "finish")
        /\ Post(Row("payout", th[t].batch, -th[t].n, 0), "payable")
    BY <1>16 DEF Debit, At
  <2>2. th'[t].pc = "finish" /\ \A u \in Threads : Runs(u, k)' => u = t
    BY <1>2, <2>1, Going
  <2>3. PICK b \in batches : b.id = th[t].batch /\ b.period = p
    BY <1>4, <2>1 DEF InHand, Fit, MovedPcs
  <2>4. PICK row : row = Row("payout", th[t].batch, -th[t].n, 0) /\ Post(row, "payable")
    BY <2>1
  <2>5. row.kind = "payout" /\ row.of = th[t].batch
    BY <2>4, RowFields
  <2>6. Posted(row.kind, row.of) = {}
    BY <1>4, <2>3, <2>5 DEF Posted, Debits, IsOf
  <2>7. ledger' = ledger \cup {row}
    BY <2>4, <2>6, Posting
  <2>8. Debits(p)' = {row}
    BY <1>4, <2>1, <2>3, <2>5, <2>7 DEF Debits, IsOf
  <2>9. \A u \in Threads : Runs(u, k)' => InHand(u, p)'
    BY <2>2 DEF InHand, MovedPcs, BatchPcs
  <2> QED
    BY <1>2, <2>1, <2>2, <2>8, <2>9 DEF SettlementIsSound
<1> QED
  BY <1>8, <1>9, <1>10, <1>11, <1>12, <1>13, <1>14, <1>15, <1>16 DEF SettleStep

LEMMA SettlementsStep ==
    ASSUME ThreadsHold, KeysHold, BatchesHold, DebitsHold, SettlementsHold, [Next]_vars
    PROVE  SettlementsHold'
<1>1. moved' = [p \in Periods |-> moved'[p]]
  <2>1. CASE moved' = moved
    BY <2>1 DEF SettlementsHold
  <2>2. ASSUME NEW t \in Threads, OpStep(t) PROVE moved' = [p \in Periods |-> moved'[p]]
    BY <2>2, MovesFlow
  <2>3. ASSUME NEW t \in Threads, Finish(t) \/ \E k \in Keys : Claim(t, k) PROVE moved' = moved
    BY <2>3 DEF Finish, Claim
  <2>4. CASE Crash \/ (\E r \in ledger : Grow(r)) \/ UNCHANGED vars
    BY <2>1, <2>4, CrashActs, NothingActs
  <2> QED
    BY <2>1, <2>2, <2>3, <2>4, Steps DEF OpStep
<1>2. ASSUME NEW p \in Periods PROVE SettlementIsSound(p)'
  <2> DEFINE k == <<"settle", p>>
  <2>1. k \in Settlements /\ k \in Keys /\ SettlementIsSound(p)
    BY KindsApart DEF SettlementsHold
  <2>2. CASE Away(k)
    BY <2>2, SettlementAway
  <2>3. ASSUME NEW t \in Threads, Claim(t, k), th' # th \/ key' # key
        PROVE  SettlementIsSound(p)'
    <3>1. /\ key[k] = "free" /\ key' = [key EXCEPT ![k] = "claimed"]
          /\ th'[t].pc = First(k) /\ \A u \in Threads \ {t} : th'[u] = th[u]
      BY <2>1, <2>3, ClaimActs
    <3>2. th'[t].pc = "topup"
      BY <2>1, <3>1, FirstSteps
    <3>3. ledger' = ledger /\ batches' = batches /\ moved' = moved /\ unheard' = unheard
      BY <2>3 DEF Claim
    <3>4. Debits(p)' = Debits(p) /\ (OnRecordAsFailed(p) => OnRecordAsFailed(p)')
      BY <3>3 DEF Debits, OnRecordAsFailed
    <3>5. Debits(p) = {} /\ (moved[p] # 0 => OnRecordAsFailed(p))
      BY <2>1, <3>1 DEF SettlementIsSound
    <3>6. \A u \in Threads : Runs(u, k)' => u = t
      BY <2>1, <3>1 DEF KeysHold, Runs
    <3>7. InHand(t, p)'
      BY <3>2 DEF InHand, BatchPcs, MovedPcs
    <3> QED
      BY <3>3, <3>4, <3>5, <3>6, <3>7 DEF SettlementIsSound
  <2>4. ASSUME NEW t \in Threads, Runs(t, k), OpStep(t) \/ Finish(t)
        PROVE  SettlementIsSound(p)'
    <3>1. CASE OpStep(t)
      <4>1. SettleStep(t)
        BY <2>1, <2>4, <3>1, ChargeActs, RefundActs, KindsApart DEF OpStep, Runs
      <4> QED
        BY <2>4, <4>1, SettlementOwn
    <3>2. CASE Finish(t)
      <4>1. /\ th[t].pc = "finish" /\ th[t].op = k /\ Ends(t)
            /\ key' = [key EXCEPT ![k] = "done"]
        BY <2>4, <3>2, FinishActs DEF Runs
      <4>2. key'[k] = "done"
        BY <2>1, <4>1 DEF KeysHold
      <4>3. \A u \in Threads : ~Runs(u, k)'
        BY <2>1, <2>4, <4>1, Endings DEF KeysHold
      <4>4. ledger' = ledger /\ batches' = batches /\ moved' = moved /\ unheard' = unheard
        BY <3>2 DEF Finish
      <4>5. Debits(p)' = Debits(p) /\ (OnRecordAsFailed(p) => OnRecordAsFailed(p)')
        BY <4>4 DEF Debits, OnRecordAsFailed
      <4>6. moved[p] # 0 /\ Debits(p) = {} => OnRecordAsFailed(p)
        BY <2>1, <2>4, <4>1 DEF SettlementIsSound, Owes, MovedPcs
      <4> QED
        BY <2>1, <4>2, <4>3, <4>4, <4>5, <4>6 DEF SettlementIsSound
    <3> QED
      BY <2>4, <3>1, <3>2
  <2> QED
    BY <2>1, <2>2, <2>3, <2>4, WhoseStep
<1> QED
  BY <1>1, <1>2 DEF SettlementsHold
-----------------------------------------------------------------------------
\* THE INVARIANT

LEMMA IInvInit == ASSUME Init PROVE IInv
<1>1. /\ key = [k \in Keys |-> "free"] /\ ledger = {} /\ charged = {} /\ batches = {}
      /\ moved = [p \in Periods |-> 0] /\ upheld = {} /\ th = [t \in Threads |-> Idle]
  BY DEF Init
<1>2. ThreadsHold
  <2>1. th = [t \in Threads |-> th[t]] /\ \A t \in Threads : th[t] = Idle
    BY <1>1
  <2> QED
    BY <2>1, IdleHolds DEF ThreadsHold
<1>3. \A t \in Threads : \A k : ~Runs(t, k)
  BY <1>1, IdleHolds DEF Runs
<1>4. /\ \A k \in Keys : key[k] = "free"
      /\ key \in [Keys -> {"free", "claimed", "done"}]
  BY <1>1
<1>5. KeysHold
  BY <1>3, <1>4 DEF KeysHold
<1>6. \A kind, of : Posted(kind, of) = {}
  BY <1>1 DEF Posted
<1>7. ChargesHold
  BY <1>1, <1>3, <1>6 DEF ChargesHold, ChargeIsSound
<1>8. BatchesHold
  BY <1>1, FS_EmptySet DEF BatchesHold
<1>9. DebitsHold
  BY <1>1 DEF DebitsHold
<1>10. \A p : Debits(p) = {}
  BY <1>1 DEF Debits
<1>11. moved = [p \in Periods |-> moved[p]] /\ \A p \in Periods : moved[p] = 0
  BY <1>1
<1>12. SettlementsHold
  BY <1>3, <1>10, <1>11 DEF SettlementsHold, SettlementIsSound
<1>13. RefundsHold
  <2>1. \A h \in Hooks : key[<<"refund", h>>] # "done"
    BY <1>4, KindsApart
  <2> QED
    BY <1>3, <2>1 DEF RefundsHold, RefundIsSound
<1> QED
  BY <1>2, <1>5, <1>7, <1>8, <1>9, <1>12, <1>13 DEF IInv

LEMMA IInvStep == ASSUME IInv, [Next]_vars PROVE IInv'
BY ThreadsStep, KeysStep, ChargesStep, BatchesStep, DebitsStep, SettlementsStep, RefundsStep
   DEF IInv

THEOREM Invariant == Spec => []IInv
BY IInvInit, IInvStep, PTL DEF Spec
-----------------------------------------------------------------------------
\* WHAT THE INVARIANT MEANS

LEMMA BatchOfDebit ==
    ASSUME BatchesHold, NEW r, NEW b \in batches, b.id = r.of
    PROVE  BatchOf(r) = b
BY DEF BatchesHold, BatchOf

LEMMA DebitsOfPeriod ==
    ASSUME BatchesHold, DebitsHold, NEW p \in Periods
    PROVE  PayoutsOf(p) = Debits(p)
<1>1. ASSUME NEW r \in ledger, r.kind = "payout"
      PROVE  BatchOf(r).period = p <=> \E b \in batches : IsOf(r, b) /\ b.period = p
  <2>1. PICK b \in batches : IsOf(r, b)
    BY <1>1 DEF DebitsHold, Stands
  <2>2. BatchOf(r) = b
    BY <2>1, BatchOfDebit DEF IsOf
  <2>3. \A c \in batches : IsOf(r, c) => c = b
    BY <2>1 DEF IsOf, BatchesHold
  <2> QED
    BY <2>1, <2>2, <2>3
<1> QED
  BY <1>1 DEF PayoutsOf, Debits, IsOf

LEMMA MoneyIsAccounted == ASSUME IInv PROVE MoneyAccounted
<1>1. ASSUME NEW e \in Events
      PROVE  /\ Posted("accrual", e) # {} => e \in charged
             /\ e \in charged => Posted("accrual", e) # {} \/ key[<<"charge", e>>] = "claimed"
  BY DEF IInv, ChargesHold, ChargeIsSound
<1>2. ASSUME NEW p \in Periods
      PROVE  /\ Cardinality(PayoutsOf(p)) <= 1
             /\ \A r \in PayoutsOf(p) :
                  /\ BatchOf(r).status # "pending" /\ r.amount = -BatchOf(r).amount
                  /\ BatchOf(r).status = "paid" /\ p \notin unheard => r.amount = -moved[p]
             /\ moved[p] > 0 => \/ PayoutsOf(p) # {} \/ key[<<"settle", p>>] = "claimed"
                                \/ OnRecordAsFailed(p)
  <2>1. PayoutsOf(p) = Debits(p)
    BY DebitsOfPeriod DEF IInv
  <2>2. Cardinality(Debits(p)) <= 1
    <3>1. \A r, s \in Debits(p) : r = s
      BY DEF IInv, SettlementsHold, SettlementIsSound
    <3>2. Debits(p) = {} \/ \E r : Debits(p) = {r}
      BY <3>1
    <3>3. CASE Debits(p) = {}
      <4>1. Cardinality(Debits(p)) = 0
        BY <3>3, FS_EmptySet
      <4> QED
        BY <4>1
    <3>4. CASE \E r : Debits(p) = {r}
      <4>1. Cardinality(Debits(p)) = 1
        BY <3>4, FS_Singleton
      <4> QED
        BY <4>1
    <3> QED
      BY <3>2, <3>3, <3>4
  <2>3. ASSUME NEW r \in Debits(p)
        PROVE  /\ BatchOf(r).status # "pending" /\ r.amount = -BatchOf(r).amount
               /\ BatchOf(r).status = "paid" /\ p \notin unheard => r.amount = -moved[p]
    <3>1. PICK c \in batches : IsOf(r, c) /\ c.period = p
      BY DEF Debits
    <3>2. r \in ledger /\ r.kind = "payout"
      BY <3>1 DEF Debits, IsOf
    <3>3. PICK b \in batches : Stands(r, b)
      BY <3>2 DEF IInv, DebitsHold
    <3>4. b = c /\ BatchOf(r) = b
      BY <3>1, <3>3, BatchOfDebit DEF IInv, BatchesHold, Stands, IsOf
    <3> QED
      BY <3>1, <3>3, <3>4 DEF Stands
  <2>4. moved[p] > 0 => Debits(p) # {} \/ key[<<"settle", p>>] = "claimed" \/ OnRecordAsFailed(p)
    <3>1. moved[p] > 0 => moved[p] # 0
      OBVIOUS
    <3> QED
      BY <3>1 DEF IInv, SettlementsHold, SettlementIsSound
  <2> QED
    BY <2>1, <2>2, <2>3, <2>4
<1> QED
  BY <1>1, <1>2 DEF MoneyAccounted

\* No money is unaccounted for, whatever overlaps, raises or crashes: what was charged is
\* accrued, and what was transferred is debited once, for what moved unless the receipt said
\* failed, or the claim that shows it unfinished stands, or the transfer was answered by an
\* error and a failed batch tells its amount (charge_and_accrue, settle,
\* IdempotencyLedger.run, StripeConnectAdapter.payout).
THEOREM NoMoneyIsLost == Spec => []MoneyAccounted
BY Invariant, MoneyIsAccounted, PTL

LEMMA RefundsStick == ASSUME IInv PROVE RefundSticks
BY DEF IInv, RefundsHold, RefundIsSound, RefundSticks

\* While operations come one at a time and none is abandoned, a refund that was
\* acknowledged took its event's accrual back (_processor_webhook, uphold).
THEOREM RefundsTakeBack == Spec => []RefundSticks
BY Invariant, RefundsStick, PTL
-----------------------------------------------------------------------------
\* THE BALANCE

\* The earnings out of their holdback, and what was transferred and answered.
Gained == SumOf({r \in Payable : r.kind = "accrual"})
Sent == {p \in Periods : moved[p] # 0} \ unheard
Given == SumFunctionOnSet(moved, Sent)

RowsHold ==
    /\ IsFiniteSet(ledger) /\ age = [r \in ledger |-> age[r]]
    /\ \A r \in ledger :
          /\ r.amount \in Int /\ r.n \in Nat /\ r.n < Cardinality(ledger)
          /\ r.kind = "accrual" => r.amount >= 0
          /\ r.kind = "clawback" => r.amount <= 0

\* The steps of a payout, from the balance that was read to the debit.
Kept == {"kyc", "transfer"} \cup MovedPcs

\* A balance to pay out is more than nothing.
HandsHold ==
    \A t \in Threads : /\ th[t].n \in Int
                       /\ th[t].pc \in Kept => th[t].n > 0

SentHold == IsFiniteSet(Sent) /\ \A p \in Periods : moved[p] \in Nat

\* While nothing overlapped, one operation at most is under way.
OneAtATime ==
    calm => \A t, u \in Threads : th[t].pc # "idle" /\ th[u].pc # "idle" => t = u

\* While nothing overlapped and nothing was abandoned, what was paid was gained, the books
\* tell of all that was given but for the transfer about to be debited, and what an
\* operation read of the balance is still there when it acts on it.
BooksHold ==
    calm =>
      /\ Paid <= Gained /\ Reserved >= 0
      /\ (\A t \in Threads : th[t].pc \notin MovedPcs) => Given <= Paid
      /\ \A t \in Threads :
            /\ th[t].pc \in MovedPcs => Given <= Paid + th[t].n
            /\ th[t].pc = "true_up" => Reserved + th[t].n >= 0
            /\ th[t].pc = "draw" => th[t].n <= Reserved
            /\ th[t].pc \in Kept => Paid + th[t].n <= Gained

BalanceInv == IInv /\ RowsHold /\ HandsHold /\ SentHold /\ OneAtATime /\ BooksHold

\* The rows the balances are sums of.
Accrued   == {r \in Payable : r.kind = "accrual"}
InReserve == {r \in ledger : r.kind = "reserve"}
Payouts   == {r \in ledger : r.kind = "payout"}

LEMMA SumsOfRows ==
    ASSUME RowsHold, NEW rows \in SUBSET ledger
    PROVE  /\ IsFiniteSet(rows) /\ \A r \in rows : Amount[r] = r.amount /\ Amount[r] \in Int
           /\ SumOf(rows) \in Int
<1>1. IsFiniteSet(rows)
  BY FS_Subset DEF RowsHold
<1>2. \A r \in rows : Amount[r] = r.amount /\ Amount[r] \in Int
  BY DEF RowsHold, Amount
<1> QED
  BY <1>1, <1>2, SumInt DEF SumOf

LEMMA Balances ==
    ASSUME RowsHold
    PROVE  /\ Gained = SumOf(Accrued) /\ Gained \in Int
           /\ Reserved = SumOf(InReserve) /\ Reserved \in Int
           /\ Paid = -SumOf(Payouts) /\ Paid \in Int
           /\ Available \in Int /\ Available <= (Gained - Reserved) - Paid
           /\ SumOf(AtRisk) \in Int
<1>1. /\ Accrued \in SUBSET ledger /\ InReserve \in SUBSET ledger /\ Payouts \in SUBSET ledger
      /\ Payable \in SUBSET ledger /\ AtRisk \in SUBSET ledger /\ Accrued \in SUBSET Payable
  BY DEF Accrued, InReserve, Payouts, Payable, AtRisk, Earned
<1>2. PICK a \in Int, b \in Int, c \in Int, d \in Int :
         a = SumOf(Accrued) /\ b = SumOf(InReserve) /\ c = SumOf(Payouts) /\ d = SumOf(Payable)
  BY <1>1, SumsOfRows
<1>3. SumOf(AtRisk) \in Int
  BY <1>1, SumsOfRows
<1>4. d <= a
  <2>1. \A r \in Payable : Amount[r] \in Int
    BY <1>1, SumsOfRows
  <2>2. \A r \in Payable \ Accrued : Amount[r] <= 0
    <3>1. \A r \in Payable \ Accrued : r \in ledger /\ r.kind = "clawback"
      BY DEF Payable, Accrued, Earned
    <3> QED
      BY <1>1, <3>1, SumsOfRows DEF RowsHold
  <2>3. IsFiniteSet(Payable)
    BY <1>1, SumsOfRows
  <2>4. SumFunctionOnSet(Amount, Payable) <= SumFunctionOnSet(Amount, Accrued)
    BY <1>1, <2>1, <2>2, <2>3, SumPart
  <2> QED
    BY <1>2, <2>4 DEF SumOf
<1>5. Gained = a /\ Reserved = b /\ Paid = -c
  BY <1>2 DEF Gained, Accrued, Reserved, InReserve, Paid, Payouts
<1>6. Available = (d - b) - (-c)
  BY <1>2, <1>5 DEF Available
<1> QED
  BY <1>2, <1>3, <1>4, <1>5, <1>6

\* The same rows of the same age, the same balances.
LEMMA SameBooks ==
    ASSUME ledger' = ledger, age' = age
    PROVE  /\ Gained' = Gained /\ Reserved' = Reserved /\ Paid' = Paid
           /\ RowsHold => RowsHold'
<1>1. Amount' = Amount
  BY DEF Amount
<1>2. Payable' = Payable
  BY DEF Payable, Earned
<1> QED
  BY <1>1, <1>2 DEF Gained, Reserved, Paid, SumOf, RowsHold

LEMMA SameGiven ==
    ASSUME moved' = moved, unheard' = unheard PROVE Given' = Given /\ Sent' = Sent
BY DEF Given, Sent

\* The sums of a ledger that was given a row.
LEMMA OneRowMore ==
    ASSUME RowsHold, NEW row, row \notin ledger, row.amount \in Int, ledger' = ledger \cup {row},
           NEW rows \in SUBSET ledger
    PROVE  /\ SumFunctionOnSet(Amount', rows) = SumOf(rows)
           /\ SumFunctionOnSet(Amount', rows \cup {row}) = SumOf(rows) + row.amount
<1>1. IsFiniteSet(rows) /\ \A r \in rows : Amount[r] = r.amount /\ Amount[r] \in Int
  BY SumsOfRows
<1>2. \A r \in rows \cup {row} : Amount'[r] = r.amount
  BY DEF Amount
<1>3. SumFunctionOnSet(Amount', rows) = SumOf(rows)
  <2>1. \A r \in rows : Amount'[r] = Amount[r]
    BY <1>1, <1>2
  <2> QED
    BY <1>1, <2>1, SumSame DEF SumOf
<1>4. (\A r \in rows \cup {row} : Amount'[r] \in Int) /\ Amount'[row] = row.amount
  BY <1>1, <1>2
<1>5. SumFunctionOnSet(Amount', rows \cup {row})
        = Amount'[row] + SumFunctionOnSet(Amount', rows)
  <2>1. row \notin rows
    OBVIOUS
  <2>2. PICK f : f = Amount'
    OBVIOUS
  <2> QED
    BY <1>1, <1>4, <2>1, <2>2, SumAdd
<1>6. PICK a \in Int : a = SumOf(rows)
  BY SumsOfRows
<1> QED
  BY <1>3, <1>4, <1>5, <1>6

\* A row that the ledger did not have.
LEMMA NewRow ==
    ASSUME RowsHold, NEW row, row \notin ledger, row.amount \in Int, NEW when,
           ledger' = ledger \cup {row},
           age' = [r \in ledger \cup {row} |-> IF r = row THEN when ELSE age[r]],
           row.kind = "accrual" => when = "held"
    PROVE  /\ Gained' = Gained
           /\ Reserved' = IF row.kind = "reserve" THEN Reserved + row.amount ELSE Reserved
           /\ Paid' = IF row.kind = "payout" THEN Paid - row.amount ELSE Paid
<1>1. /\ Accrued \in SUBSET ledger /\ InReserve \in SUBSET ledger /\ Payouts \in SUBSET ledger
  BY DEF Accrued, InReserve, Payouts, Payable, Earned
<1>2. /\ {r \in Payable' : r.kind = "accrual"} = Accrued
      /\ {r \in ledger' : r.kind = "reserve"}
           = IF row.kind = "reserve" THEN InReserve \cup {row} ELSE InReserve
      /\ {r \in ledger' : r.kind = "payout"}
           = IF row.kind = "payout" THEN Payouts \cup {row} ELSE Payouts
  <2>1. \A r \in ledger : age'[r] = age[r]
    OBVIOUS
  <2>2. age'[row] = when
    OBVIOUS
  <2>3. {r \in Payable' : r.kind = "accrual"} = Accrued
    BY <2>1, <2>2 DEF Accrued, Payable, Earned
  <2> QED
    BY <2>3 DEF InReserve, Payouts
<1>3. \A rows \in SUBSET ledger :
         /\ SumFunctionOnSet(Amount', rows) = SumOf(rows)
         /\ SumFunctionOnSet(Amount', rows \cup {row}) = SumOf(rows) + row.amount
  BY OneRowMore
<1>4. Gained' = SumOf(Accrued)
  BY <1>1, <1>2, <1>3 DEF Gained, SumOf
<1>5. Reserved' = IF row.kind = "reserve" THEN SumOf(InReserve) + row.amount ELSE SumOf(InReserve)
  BY <1>1, <1>2, <1>3 DEF Reserved, SumOf
<1>6. Paid' = -(IF row.kind = "payout" THEN SumOf(Payouts) + row.amount ELSE SumOf(Payouts))
  BY <1>1, <1>2, <1>3 DEF Paid, SumOf
<1>7. /\ Gained = SumOf(Accrued)
      /\ Reserved = SumOf(InReserve)
      /\ Paid = -SumOf(Payouts)
  BY Balances
<1>8. PICK c \in Int : c = SumOf(Payouts)
  BY <1>1, SumsOfRows
<1>9. Paid' = IF row.kind = "payout" THEN Paid - row.amount ELSE Paid
  BY <1>6, <1>7, <1>8
<1> QED
  BY <1>4, <1>5, <1>7, <1>9

\* Earnings that ripen.
LEMMA GrowBooks ==
    ASSUME RowsHold, NEW r \in ledger, Grow(r)
    PROVE  /\ RowsHold' /\ Gained <= Gained' /\ Gained' \in Int
           /\ Reserved' = Reserved /\ Paid' = Paid
<1>1. /\ ledger' = ledger
      /\ age' = [age EXCEPT ![r] = IF age[r] = "held" THEN "payable" ELSE "past"]
  BY DEF Grow
<1>2. age' = [x \in ledger |-> age'[x]] /\ \A x \in ledger : age[x] # "held" => age'[x] # "held"
  BY <1>1 DEF RowsHold
<1>3. Amount' = Amount
  BY <1>1 DEF Amount
<1>4. RowsHold'
  BY <1>1, <1>2 DEF RowsHold
<1>5. Accrued \in SUBSET Accrued' /\ Accrued' \in SUBSET ledger
  BY <1>1, <1>2 DEF Accrued, Payable, Earned
<1>6. SumOf(Accrued) <= SumOf(Accrued') /\ SumOf(Accrued') \in Int
  <2>1. PICK more : more = Accrued'
    OBVIOUS
  <2>2. IsFiniteSet(more) /\ \A x \in more : Amount[x] = x.amount /\ Amount[x] \in Int
    BY <1>5, <2>1, SumsOfRows
  <2>3. \A x \in more : x.amount >= 0
    BY <1>1, <1>5, <2>1 DEF RowsHold, Accrued
  <2>4. SumFunctionOnSet(Amount, Accrued) <= SumFunctionOnSet(Amount, more)
    BY <1>5, <2>1, <2>2, <2>3, SumPart
  <2>5. SumOf(more) \in Int
    BY <1>5, <2>1, SumsOfRows
  <2> QED
    BY <2>1, <2>4, <2>5 DEF SumOf
<1>7. Gained = SumOf(Accrued) /\ Gained' = SumOf(Accrued')
  BY <1>3 DEF Gained, Accrued, SumOf
<1>8. Reserved' = Reserved /\ Paid' = Paid
  BY <1>1, <1>3 DEF Reserved, Paid, SumOf
<1> QED
  BY <1>4, <1>6, <1>7, <1>8

\* What a post leaves of the ledger's rows.
LEMMA PostRows ==
    ASSUME RowsHold, NEW row, NEW when, Post(row, when), row.amount \in Int,
           row.n = 0 \/ row.n = Cardinality(ledger),
           row.kind = "accrual" => row.amount >= 0, row.kind = "clawback" => row.amount <= 0
    PROVE  RowsHold'
<1>1. CASE ledger' = ledger /\ age' = age
  BY <1>1, SameBooks
<1>2. CASE /\ ledger' = ledger \cup {row}
           /\ age' = [r \in ledger \cup {row} |-> IF r = row THEN when ELSE age[r]]
  <2>1. IsFiniteSet(ledger') /\ Cardinality(ledger) \in Nat /\ Cardinality(ledger') \in Nat
    BY <1>2, FS_AddElement, FS_CardinalityType DEF RowsHold
  <2>2. /\ Cardinality(ledger) <= Cardinality(ledger')
        /\ row \notin ledger => Cardinality(ledger') = Cardinality(ledger) + 1
    BY <1>2, <2>1, FS_Subset, FS_AddElement DEF RowsHold
  <2>3. ASSUME NEW r \in ledger' PROVE r.n \in Nat /\ r.n < Cardinality(ledger')
    <3>1. CASE r \in ledger
      <4>1. r.n \in Nat /\ r.n < Cardinality(ledger)
        BY <3>1 DEF RowsHold
      <4> QED
        BY <2>1, <2>2, <4>1
    <3>2. CASE r \notin ledger
      BY <1>2, <2>1, <2>2, <3>2
    <3> QED
      BY <3>1, <3>2
  <2>4. age' = [r \in ledger' |-> age'[r]]
    BY <1>2
  <2>5. ASSUME NEW r \in ledger'
        PROVE  /\ r.amount \in Int
               /\ r.kind = "accrual" => r.amount >= 0
               /\ r.kind = "clawback" => r.amount <= 0
    BY <1>2 DEF RowsHold
  <2> QED
    BY <2>1, <2>3, <2>4, <2>5 DEF RowsHold
<1> QED
  BY <1>1, <1>2 DEF Post

LEMMA RowParts ==
    \A kind, of, amount, n :
       LET r == Row(kind, of, amount, n)
       IN  r.kind = kind /\ r.of = of /\ r.amount = amount /\ r.n = n
BY DEF Row

LEMMA RowsStep ==
    ASSUME ThreadsHold, RowsHold, HandsHold, [Next]_vars PROVE RowsHold'
<1>1. ASSUME ledger' = ledger, age' = age PROVE RowsHold'
  BY <1>1, SameBooks
<1>2. ASSUME NEW t \in Threads, OpStep(t) PROVE RowsHold'
  <2>1. Share \in Int /\ Share >= 0 /\ -Share \in Int /\ -Share <= 0
    BY AmountAssumption
  <2>2. th[t].n \in Int /\ -th[t].n \in Int
    BY DEF HandsHold
  <2>3. ASSUME NEW kind, NEW of, NEW amount \in Int, NEW n, NEW when,
               Post(Row(kind, of, amount, n), when), n = 0 \/ n = Cardinality(ledger),
               kind = "accrual" => amount >= 0, kind = "clawback" => amount <= 0
        PROVE  RowsHold'
    <3>1. PICK row : row = Row(kind, of, amount, n) /\ Post(row, when)
      BY <2>3
    <3>2. row.kind = kind /\ row.amount = amount /\ row.n = n
      BY <3>1, RowParts
    <3> QED
      BY <2>3, <3>1, <3>2, PostRows
  <2>4. CASE Post(Row("accrual", Of(t), Share, 0), "held")
    BY <2>1, <2>3, <2>4
  <2>5. CASE Post(Row("reserve", NoRef, th[t].n, Cardinality(ledger)), "payable")
    BY <2>2, <2>3, <2>5
  <2>6. CASE Post(Row("payout", th[t].batch, -th[t].n, 0), "payable")
    BY <2>2, <2>3, <2>6
  <2>7. CASE Post(Row("clawback", RefundOf[Of(t)], -Share, 0), "payable")
    BY <2>1, <2>3, <2>7
  <2>8. CASE Post(Row("reserve", RefundOf[Of(t)], -th[t].n, 0), "payable")
    BY <2>2, <2>3, <2>8
  <2> QED
    BY <1>1, <1>2, <2>4, <2>5, <2>6, <2>7, <2>8, StepPosts
<1>3. ASSUME NEW t \in Threads, Finish(t) \/ \E k \in Keys : Claim(t, k) PROVE RowsHold'
  BY <1>1, <1>3 DEF Finish, Claim
<1>4. CASE Crash \/ UNCHANGED vars
  BY <1>1, <1>4 DEF Crash, vars
<1>5. ASSUME NEW r \in ledger, Grow(r) PROVE RowsHold'
  BY <1>5, GrowBooks
<1> QED
  BY <1>2, <1>3, <1>4, <1>5, Steps DEF OpStep

\* The rounding of a reserve.
LEMMA TargetIsNat == ASSUME RowsHold PROVE Target \in Nat
<1>1. SumOf(AtRisk) \in Int
  BY Balances
<1>2. ASSUME NEW n \in Nat PROVE Part(n) \in Nat
  <2>1. ReservePart \in Nat \ {0}
    BY AmountAssumption
  <2>2. n \div ReservePart \in Nat
    BY <2>1
  <2> QED
    BY <2>2 DEF Part
<1> QED
  BY <1>1, <1>2 DEF Target

\* A thread that keeps what it has in its hands, or puts it down.
LEMMA HandsMove ==
    ASSUME HandsHold, NEW t \in Threads, \A u \in Threads \ {t} : th'[u] = th[u],
           th'[t].n \in Int, th'[t].pc \in Kept => th'[t].n > 0
    PROVE  HandsHold'
BY DEF HandsHold, Kept

LEMMA HandsStep ==
    ASSUME ThreadsHold, RowsHold, HandsHold, [Next]_vars PROVE HandsHold'
<1>1. ASSUME NEW t \in Threads, Ends(t) PROVE HandsHold'
  <2>1. th'[t] = Idle /\ \A u \in Threads \ {t} : th'[u] = th[u]
    BY <1>1 DEF Ends, ThreadsHold
  <2>2. Idle.n = 0 /\ Idle.pc = "idle"
    BY DEF Idle
  <2> QED
    BY <2>1, <2>2, HandsMove DEF Kept, MovedPcs
<1>2. ASSUME NEW t \in Threads, NEW pc, Goes(t, pc), th[t].pc # "idle", pc # "idle",
             pc \in Kept => th[t].pc \in Kept
      PROVE  HandsHold'
  <2>1. /\ th'[t].pc = pc /\ th'[t].n = th[t].n /\ \A u \in Threads \ {t} : th'[u] = th[u]
    BY <1>2, Going
  <2> QED
    BY <1>2, <2>1, HandsMove DEF HandsHold, Kept
<1>3. ASSUME NEW t \in Threads, NEW pc, NEW n \in Int, NEW b, MovesTo(t, pc, n, b),
             th[t].pc # "idle", pc # "idle", pc \in Kept => n > 0
      PROVE  HandsHold'
  <2>1. /\ th'[t].pc = pc /\ th'[t].n = n /\ \A u \in Threads \ {t} : th'[u] = th[u]
    BY <1>3, Moving
  <2> QED
    BY <1>3, <2>1, HandsMove
<1>4. ASSUME NEW t \in Threads, OpStep(t) PROVE HandsHold'
  <2>1. th[t].pc # "idle"
    BY <1>4, StepActs
  <2>2. /\ Reserved \in Int /\ Available \in Int /\ Target \in Nat
    BY Balances, TargetIsNat
  <2>3. CASE ReadReserve(t)
    <3>1. \E pc \in {"balance", "true_up"} : MovesTo(t, pc, Target - Reserved, th[t].batch)
      BY <2>3, GoesWith DEF ReadReserve
    <3>2. Target - Reserved \in Int
      BY <2>2
    <3> QED
      BY <1>3, <2>1, <3>1, <3>2 DEF Kept, MovedPcs
  <2>4. CASE ReadBalance(t)
    <3>1. \/ MovesTo(t, "finish", Available, th[t].batch)
          \/ MovesTo(t, "kyc", Available, th[t].batch) /\ ~(Available < MinPayout)
      BY <2>4, GoesWith DEF ReadBalance
    <3>2. ~(Available < MinPayout) => Available > 0
      BY <2>2, AmountAssumption
    <3> QED
      BY <1>3, <2>1, <2>2, <3>1, <3>2 DEF Kept, MovedPcs
  <2>5. CASE AddBatch(t)
    <3>1. th[t].pc = "kyc" /\ \E b : MovesTo(t, "transfer", th[t].n, b)
      BY <2>5, GoesWith DEF AddBatch, At
    <3>2. th[t].n \in Int /\ th[t].n > 0
      BY <3>1 DEF HandsHold, Kept
    <3> QED
      BY <1>3, <2>1, <3>1, <3>2 DEF Kept
  <2>6. CASE ReadShortfall(t)
    <3> DEFINE draw == IF Reserved < -Available THEN Reserved ELSE -Available
    <3>1. \E pc \in {"draw", "uphold"} : MovesTo(t, pc, draw, th[t].batch)
      BY <2>6, GoesWith DEF ReadShortfall
    <3>2. draw \in Int
      BY <2>2
    <3> QED
      BY <1>3, <2>1, <3>1, <3>2 DEF Kept, MovedPcs
  <2>7. CASE Transfer(t) \/ TransferBounces(t) \/ StoreReceipt(t)
    <3>1. /\ th[t].pc \in {"transfer", "receipt", "bounced"}
          /\ Goes(t, "receipt") \/ Goes(t, "bounced") \/ Goes(t, "debit")
      BY <2>7 DEF Transfer, TransferBounces, StoreReceipt, At
    <3> QED
      BY <1>2, <2>1, <3>1 DEF Kept, MovedPcs
  <2>8. CASE ChargeRaises(t) \/ TransferLost(t) \/ ReleaseClaim(t)
    BY <1>1, <2>8 DEF ChargeRaises, TransferLost, ReleaseClaim
  <2>9. CASE Excluded(t) \/ Charge(t) \/ Accrue(t) \/ TrueUp(t) \/ Unverified(t)
             \/ TransferRefused(t) \/ MarkFailed(t) \/ Debit(t) \/ Clawback(t) \/ Draw(t)
             \/ Uphold(t)
    <3>1. \E pc \in {"finish", "accrue", "balance", "failed", "release", "shortfall", "uphold"} :
             Goes(t, pc)
      BY <2>9 DEF Excluded, Charge, Accrue, TrueUp, Unverified, TransferRefused, MarkFailed,
         Debit, Clawback, Draw, Uphold
    <3> QED
      BY <1>2, <2>1, <3>1 DEF Kept, MovedPcs
  <2> QED
    BY <1>4, <2>3, <2>4, <2>5, <2>6, <2>7, <2>8, <2>9
       DEF OpStep, ChargeStep, SettleStep, RefundStep
<1>5. ASSUME NEW t \in Threads, Finish(t) PROVE HandsHold'
  BY <1>1, <1>5 DEF Finish
<1>6. ASSUME th' = th PROVE HandsHold'
  BY <1>6 DEF HandsHold
<1>7. ASSUME NEW t \in Threads, NEW k \in Keys, Claim(t, k) PROVE HandsHold'
  <2>1. CASE th' = th
    BY <1>6, <2>1
  <2>2. ASSUME th' # th PROVE HandsHold'
    <3>1. PICK q : q = [Idle EXCEPT !.op = k, !.pc = First(k)] /\ th' = [th EXCEPT ![t] = q]
      BY <1>7, <2>2 DEF Claim
    <3>2. q = [op |-> k, pc |-> First(k), n |-> 0, batch |-> 0]
      BY <3>1, Begun
    <3>3. q.n = 0 /\ q.pc = First(k)
      BY <3>2
    <3>4. First(k) \in {"charge", "topup", "clawback"}
      BY FirstSteps DEF Keys
    <3>5. th'[t] = q /\ \A u \in Threads \ {t} : th'[u] = th[u]
      BY <3>1 DEF ThreadsHold
    <3> QED
      BY <3>3, <3>4, <3>5, HandsMove DEF Kept, MovedPcs
  <2> QED
    BY <2>1, <2>2
<1>8. CASE Crash
  <2>1. \A t \in Threads : th'[t] = Idle
    BY <1>8 DEF Crash
  <2>2. Idle.n = 0 /\ Idle.pc = "idle"
    BY DEF Idle
  <2> QED
    BY <2>1, <2>2 DEF HandsHold, Kept, MovedPcs
<1>9. CASE (\E r \in ledger : Grow(r)) \/ UNCHANGED vars
  BY <1>6, <1>9, NothingActs
<1> QED
  BY <1>4, <1>5, <1>7, <1>8, <1>9, Steps DEF OpStep

LEMMA SentStep ==
    ASSUME ThreadsHold, SettlementsHold, HandsHold, SentHold, [Next]_vars PROVE SentHold'
<1>1. ASSUME moved' = moved, unheard' = unheard PROVE SentHold'
  BY <1>1 DEF SentHold, Sent
<1>2. ASSUME NEW t \in Threads, OpStep(t), Moves(t) PROVE SentHold'
  <2>1. th[t].pc = "transfer" /\ Moved(t) /\ Of(t) \in Periods
    BY <1>2, SettleStepRuns DEF Moves, Sends, Transfer, TransferRefused, TransferBounces,
       TransferLost, At, SettleStep
  <2>2. th[t].n \in Nat
    BY <2>1 DEF HandsHold, Kept
  <2>3. /\ moved'[Of(t)] = IF moved[Of(t)] = 0 THEN th[t].n ELSE moved[Of(t)]
        /\ \A p \in Periods \ {Of(t)} : moved'[p] = moved[p]
    BY <2>1, MovedOf
  <2>4. \A p \in Periods : moved'[p] \in Nat
    BY <2>1, <2>2, <2>3 DEF SentHold
  <2>5. Sent' \subseteq Sent \cup {Of(t)}
    BY <1>2, <2>1, <2>3, StepHears DEF Sent
  <2>6. IsFiniteSet(Sent \cup {Of(t)})
    BY FS_AddElement DEF SentHold
  <2>7. IsFiniteSet(Sent')
    BY <2>5, <2>6, FS_Subset
  <2> QED
    BY <2>4, <2>7 DEF SentHold
<1>3. ASSUME NEW t \in Threads, OpStep(t) PROVE SentHold'
  <2>1. Moves(t) \/ (moved' = moved /\ unheard' = unheard)
    BY <1>3, StepMoves, StepHears DEF Moves, Sends
  <2> QED
    BY <1>1, <1>2, <1>3, <2>1
<1>4. ASSUME NEW t \in Threads, Finish(t) \/ \E k \in Keys : Claim(t, k) PROVE SentHold'
  BY <1>1, <1>4 DEF Finish, Claim
<1>5. CASE Crash \/ (\E r \in ledger : Grow(r)) \/ UNCHANGED vars
  BY <1>1, <1>5, CrashActs, NothingActs
<1> QED
  BY <1>3, <1>4, <1>5, Steps DEF OpStep

LEMMA AloneStep ==
    ASSUME ThreadsHold, OneAtATime, [Next]_vars PROVE OneAtATime'
<1>1. ASSUME NEW t \in Threads, th[t].pc # "idle", \A u \in Threads \ {t} : th'[u] = th[u],
             calm' => calm
      PROVE  OneAtATime'
  BY <1>1 DEF OneAtATime
<1>2. ASSUME NEW t \in Threads, OpStep(t) PROVE OneAtATime'
  <2>1. th[t].pc # "idle" /\ Act(t)
    BY <1>2, StepActs
  <2>2. \A u \in Threads \ {t} : th'[u] = th[u]
    <3>1. th' = [th EXCEPT ![t] = th'[t]]
      BY <2>1 DEF Act, MovesTo, Ends, ThreadsHold
    <3> QED
      BY <3>1 DEF ThreadsHold
  <2>3. calm' => calm
    BY <2>1 DEF Act
  <2> QED
    BY <1>1, <2>1, <2>2, <2>3
<1>3. ASSUME NEW t \in Threads, Finish(t) PROVE OneAtATime'
  <2>1. th[t].pc = "finish" /\ Ends(t) /\ calm' = calm
    BY <1>3, FinishActs
  <2> QED
    BY <1>1, <2>1, Endings
<1>4. ASSUME NEW t \in Threads, NEW k \in Keys, Claim(t, k) PROVE OneAtATime'
  <2>1. calm' => \A u \in Threads : th[u].pc = "idle"
    BY <1>4 DEF Claim, At
  <2>2. \A u \in Threads \ {t} : th'[u] = th[u]
    BY <1>4, ClaimActs
  <2> QED
    BY <2>1, <2>2 DEF OneAtATime
<1>5. CASE Crash
  BY <1>5, CrashActs DEF OneAtATime
<1>6. CASE (\E r \in ledger : Grow(r)) \/ UNCHANGED vars
  BY <1>6, NothingActs DEF OneAtATime
<1> QED
  BY <1>2, <1>3, <1>4, <1>5, <1>6, Steps DEF OpStep
-----------------------------------------------------------------------------
\* THE BOOKS

\* What the balance has to say of the step the operation is at.
Point(r) ==
    /\ IF r.pc \in MovedPcs THEN Given <= Paid + r.n ELSE Given <= Paid
    /\ r.pc = "true_up" => Reserved + r.n >= 0
    /\ r.pc = "draw" => r.n <= Reserved
    /\ r.pc \in Kept => Paid + r.n <= Gained

LEMMA BooksOpen ==
    ASSUME BooksHold, OneAtATime, calm, NEW t \in Threads, th[t].pc # "idle"
    PROVE  /\ Paid <= Gained /\ Reserved >= 0 /\ Point(th[t])
           /\ \A u \in Threads \ {t} : th[u].pc = "idle"
<1>1. \A u \in Threads \ {t} : th[u].pc = "idle"
  BY DEF OneAtATime
<1>2. th[t].pc \notin MovedPcs => \A u \in Threads : th[u].pc \notin MovedPcs
  BY <1>1 DEF MovedPcs
<1> QED
  BY <1>1, <1>2 DEF BooksHold, Point

LEMMA BooksShut ==
    ASSUME NEW t \in Threads, \A u \in Threads \ {t} : th'[u].pc = "idle",
           Paid' <= Gained', Reserved' >= 0, Point(th[t])'
    PROVE  BooksHold'
<1>1. \A u \in Threads \ {t} : th'[u].pc \notin MovedPcs \cup Kept \cup {"true_up", "draw"}
  BY DEF MovedPcs, Kept
<1>2. th'[t].pc \notin MovedPcs => Given' <= Paid'
  BY DEF Point
<1> QED
  BY <1>1, <1>2 DEF BooksHold, Point

\* Steps that leave the balance, and where none of it is in hand.
Plain == Pcs \ (Kept \cup {"true_up", "draw"})

LEMMA BooksPass ==
    ASSUME BooksHold, OneAtATime, calm, NEW t \in Threads, th[t].pc # "idle",
           \A u \in Threads \ {t} : th'[u] = th[u], th'[t].pc \in Plain, th[t].pc \notin MovedPcs,
           Gained' = Gained, Paid' = Paid, Given' = Given, Reserved' >= 0
    PROVE  BooksHold'
<1>1. /\ Paid <= Gained /\ Point(th[t]) /\ \A u \in Threads \ {t} : th[u].pc = "idle"
  BY BooksOpen
<1>2. Given <= Paid
  BY <1>1 DEF Point
<1>3. Point(th[t])'
  BY <1>2 DEF Point, Plain, Kept
<1> QED
  BY <1>1, <1>3, BooksShut

\* A transfer that was answered adds to what was given what it moved, if it did.
LEMMA Sending ==
    ASSUME ThreadsHold, SettlementsHold, HandsHold, SentHold, NEW t \in Threads,
           Transfer(t) \/ TransferBounces(t)
    PROVE  Given \in Int /\ (Given' = Given \/ Given' = Given + th[t].n)
<1>1. /\ th[t].pc = "transfer" /\ (moved' = moved \/ Moved(t)) /\ unheard' = unheard
      /\ Of(t) \in Periods
  BY SettleStepRuns DEF Transfer, TransferBounces, At, SettleStep
<1>2. th[t].n \in Nat /\ th[t].n # 0
  BY <1>1 DEF HandsHold, Kept
<1>3. IsFiniteSet(Sent) /\ Sent \subseteq Periods /\ \A p \in Sent : moved[p] \in Int
  BY DEF SentHold, Sent
<1>4. PICK s \in Int : s = SumFunctionOnSet(moved, Sent)
  BY <1>3, SumInt
<1>5. CASE moved' = moved
  BY <1>1, <1>4, <1>5, SameGiven DEF Given
<1>6. CASE Moved(t) /\ moved[Of(t)] # 0
  <2>1. moved' = moved
    <3>1. \A p \in Periods : moved'[p] = moved[p]
      BY <1>1, <1>6, MovedOf
    <3> QED
      BY <1>1, <1>6, <3>1, MovedOf DEF SettlementsHold
  <2> QED
    BY <1>5, <2>1
<1>7. CASE Moved(t) /\ moved[Of(t)] = 0
  <2>1. /\ moved'[Of(t)] = th[t].n
        /\ \A p \in Periods \ {Of(t)} : moved'[p] = moved[p]
    BY <1>1, <1>7, MovedOf
  <2>2. Of(t) \notin Sent
    BY <1>7 DEF Sent
  <2>3. \A p \in Sent : moved'[p] = moved[p]
    BY <1>3, <2>1, <2>2
  <2>4. SumFunctionOnSet(moved', Sent) = s
    BY <1>3, <1>4, <2>3, SumSame
  <2>5. CASE Of(t) \in unheard
    <3>1. Sent' = Sent
      BY <1>1, <2>1, <2>5 DEF Sent
    <3> QED
      BY <1>4, <2>4, <3>1 DEF Given
  <2>6. CASE Of(t) \notin unheard
    <3>1. Sent' = Sent \cup {Of(t)}
      BY <1>1, <1>2, <2>1, <2>6 DEF Sent
    <3>2. \A p \in Sent \cup {Of(t)} : moved'[p] \in Int
      BY <1>2, <1>3, <2>1, <2>3
    <3>3. PICK f : f = moved'
      OBVIOUS
    <3>4. SumFunctionOnSet(moved', Sent \cup {Of(t)})
            = moved'[Of(t)] + SumFunctionOnSet(moved', Sent)
      BY <1>3, <2>2, <3>2, <3>3, SumAdd
    <3> QED
      BY <1>2, <1>4, <2>1, <2>4, <3>1, <3>4 DEF Given
  <2> QED
    BY <2>5, <2>6
<1> QED
  BY <1>1, <1>5, <1>6, <1>7

\* One that was answered by an error adds nothing.
LEMMA SendingUnheard ==
    ASSUME ThreadsHold, SettlementsHold, HandsHold, SentHold, NEW t \in Threads,
           TransferRefused(t)
    PROVE  Given' = Given
<1>1. CASE moved' = moved /\ unheard' = unheard
  BY <1>1, SameGiven
<1>2. CASE Moved(t) /\ unheard' = unheard \cup {Of(t)}
  <2>1. /\ th[t].pc = "transfer" /\ Of(t) \in Periods /\ Runs(t, <<"settle", Of(t)>>)
    BY SettleStepRuns DEF TransferRefused, At, SettleStep
  <2>2. moved[Of(t)] # 0 => Of(t) \in unheard
    BY <2>1, InSettlement DEF OnRecordAsFailed, Owes, MovedPcs
  <2>3. \A p \in Periods \ {Of(t)} : moved'[p] = moved[p]
    BY <1>2, <2>1, MovedOf
  <2>4. Of(t) \notin Sent /\ Sent' = Sent /\ Sent \subseteq Periods
    BY <1>2, <2>1, <2>2, <2>3 DEF Sent
  <2>5. IsFiniteSet(Sent) /\ \A p \in Sent : moved[p] \in Int /\ moved'[p] = moved[p]
    BY <2>3, <2>4 DEF SentHold
  <2>6. SumFunctionOnSet(moved', Sent) = SumFunctionOnSet(moved, Sent)
    BY <2>5, SumSame
  <2> QED
    BY <2>4, <2>6 DEF Given
<1> QED
  BY <1>1, <1>2 DEF TransferRefused

\* The steps that neither post nor transfer, nor read the balance.
LEMMA BooksQuietly ==
    ASSUME ThreadsHold, SettlementsHold, HandsHold, SentHold, BooksHold, OneAtATime, calm,
           NEW t \in Threads,
           \/ Excluded(t) \/ Charge(t) \/ Unverified(t) \/ TransferRefused(t) \/ MarkFailed(t)
           \/ Uphold(t) \/ ReleaseClaim(t) \/ Finish(t)
    PROVE  BooksHold'
<1>1. /\ ledger' = ledger /\ age' = age
      /\ TransferRefused(t) \/ (moved' = moved /\ unheard' = unheard)
  BY DEF Excluded, Charge, Unverified, TransferRefused, MarkFailed, Uphold, ReleaseClaim, Finish
<1>2. Gained' = Gained /\ Paid' = Paid /\ Given' = Given /\ Reserved' = Reserved
  BY <1>1, SameBooks, SameGiven, SendingUnheard
<1>3. /\ th[t].pc \in {"charge", "kyc", "transfer", "failed", "uphold", "release", "finish"}
      /\ \/ \E pc \in {"finish", "accrue", "failed", "release"} : Goes(t, pc)
         \/ Ends(t)
  BY DEF Excluded, Charge, Unverified, TransferRefused, MarkFailed, Uphold, ReleaseClaim,
         Finish, At
<1>4. /\ th'[t].pc \in {"finish", "accrue", "failed", "release", "idle"}
      /\ \A u \in Threads \ {t} : th'[u] = th[u]
  BY <1>3, Going, Endings
<1>5. th'[t].pc \in Plain /\ th[t].pc \notin MovedPcs /\ th[t].pc # "idle"
  BY <1>3, <1>4 DEF Plain, Kept, Pcs, ChargePcs, EarlyPcs, BatchPcs, MovedPcs, TakenPcs
<1>6. Reserved >= 0
  BY <1>5, BooksOpen
<1> QED
  BY <1>2, <1>4, <1>5, <1>6, BooksPass

\* The steps that read the balance.
LEMMA BooksRead ==
    ASSUME ThreadsHold, RowsHold, BooksHold, OneAtATime, calm, NEW t \in Threads,
           ReadReserve(t) \/ ReadBalance(t) \/ ReadShortfall(t)
    PROVE  BooksHold'
<1>1. ledger' = ledger /\ age' = age /\ moved' = moved /\ unheard' = unheard
  BY DEF ReadReserve, ReadBalance, ReadShortfall
<1>2. Gained' = Gained /\ Paid' = Paid /\ Given' = Given /\ Reserved' = Reserved
  BY <1>1, SameBooks, SameGiven
<1>3. th[t].pc \in {"topup", "balance", "shortfall"}
  BY DEF ReadReserve, ReadBalance, ReadShortfall, At
<1>4. th[t].pc # "idle" /\ th[t].pc \notin MovedPcs
  BY <1>3 DEF MovedPcs
<1>5. /\ Paid <= Gained /\ Reserved >= 0 /\ Given <= Paid
      /\ \A u \in Threads \ {t} : th[u].pc = "idle"
  BY <1>4, BooksOpen DEF Point
<1>6. /\ Gained \in Int /\ Reserved \in Int /\ Paid \in Int /\ Available \in Int
      /\ Available <= (Gained - Reserved) - Paid /\ Target \in Nat
  BY Balances, TargetIsNat
<1>7. ASSUME NEW pc \in {"balance", "true_up", "finish", "kyc", "draw", "uphold"}, NEW n,
             MovesTo(t, pc, n, th[t].batch),
             pc = "true_up" => Reserved + n >= 0, pc = "draw" => n <= Reserved,
             pc = "kyc" => Paid + n <= Gained
      PROVE  BooksHold'
  <2>1. /\ th'[t].pc = pc /\ th'[t].n = n /\ \A u \in Threads \ {t} : th'[u] = th[u]
    BY <1>4, <1>7, Moving
  <2>2. Point(th[t])'
    BY <1>2, <1>5, <1>7, <2>1 DEF Point, Kept, MovedPcs
  <2> QED
    BY <1>2, <1>5, <2>1, <2>2, BooksShut
<1>8. CASE ReadReserve(t)
  <2>1. \/ MovesTo(t, "balance", Target - Reserved, th[t].batch)
        \/ MovesTo(t, "true_up", Target - Reserved, th[t].batch)
    BY <1>8, GoesWith DEF ReadReserve
  <2>2. Reserved + (Target - Reserved) >= 0
    BY <1>6
  <2> QED
    BY <1>7, <2>1, <2>2
<1>9. CASE ReadBalance(t)
  <2>1. \/ MovesTo(t, "finish", Available, th[t].batch)
        \/ MovesTo(t, "kyc", Available, th[t].batch)
    BY <1>9, GoesWith DEF ReadBalance
  <2>2. Paid + Available <= Gained
    BY <1>5, <1>6
  <2> QED
    BY <1>7, <2>1, <2>2
<1>10. CASE ReadShortfall(t)
  <2> DEFINE draw == IF Reserved < -Available THEN Reserved ELSE -Available
  <2>1. \/ MovesTo(t, "draw", draw, th[t].batch)
        \/ MovesTo(t, "uphold", draw, th[t].batch)
    BY <1>10, GoesWith DEF ReadShortfall
  <2>2. draw <= Reserved
    BY <1>6
  <2> QED
    BY <1>7, <2>1, <2>2
<1> QED
  BY <1>8, <1>9, <1>10

\* The steps of a payout that post nothing.
LEMMA BooksSend ==
    ASSUME ThreadsHold, SettlementsHold, RowsHold, HandsHold, SentHold, BooksHold, OneAtATime,
           calm, NEW t \in Threads,
           AddBatch(t) \/ Transfer(t) \/ TransferBounces(t) \/ StoreReceipt(t)
    PROVE  BooksHold'
<1>1. ledger' = ledger /\ age' = age
  BY DEF AddBatch, Transfer, TransferBounces, StoreReceipt
<1>2. Gained' = Gained /\ Paid' = Paid /\ Reserved' = Reserved
  BY <1>1, SameBooks
<1>3. th[t].pc \in Kept /\ th[t].pc # "idle"
  BY DEF AddBatch, Transfer, TransferBounces, StoreReceipt, At, Kept, MovedPcs
<1>4. /\ Paid <= Gained /\ Reserved >= 0 /\ Point(th[t])
      /\ \A u \in Threads \ {t} : th[u].pc = "idle"
  BY <1>3, BooksOpen
<1>5. CASE AddBatch(t)
  <2>1. /\ th[t].pc = "kyc" /\ moved' = moved /\ unheard' = unheard
        /\ \E b : MovesTo(t, "transfer", th[t].n, b)
    BY <1>5, GoesWith DEF AddBatch, At
  <2>2. /\ th'[t].pc = "transfer" /\ th'[t].n = th[t].n
        /\ \A u \in Threads \ {t} : th'[u] = th[u]
    BY <1>3, <2>1, Moving
  <2>3. Given' = Given
    BY <2>1, SameGiven
  <2>4. Point(th[t])'
    BY <1>2, <1>4, <2>1, <2>2, <2>3 DEF Point, Kept, MovedPcs
  <2> QED
    BY <1>2, <1>4, <2>2, <2>4, BooksShut
<1>6. CASE Transfer(t) \/ TransferBounces(t)
  <2>1. th[t].pc = "transfer" /\ \E pc \in {"receipt", "bounced"} : Goes(t, pc)
    BY <1>6 DEF Transfer, TransferBounces, At
  <2>2. /\ th'[t].pc \in {"receipt", "bounced"} /\ th'[t].n = th[t].n
        /\ \A u \in Threads \ {t} : th'[u] = th[u]
    BY <1>3, <2>1, Going
  <2>3. PICK g, h \in Int, m \in Nat :
           g = Given /\ h = Given' /\ m = th[t].n /\ (h = g \/ h = g + m)
    <3>1. th[t].n \in Nat
      BY <2>1 DEF HandsHold, Kept
    <3> QED
      BY <1>6, <3>1, Sending
  <2>4. Given <= Paid /\ Paid + th[t].n <= Gained /\ Paid \in Int
    BY <1>4, <2>1, Balances DEF Point, Kept, MovedPcs
  <2>5. h <= Paid + m
    BY <2>3, <2>4
  <2>6. Given' <= Paid' + th'[t].n /\ Paid' + th'[t].n <= Gained'
    BY <1>2, <2>2, <2>3, <2>4, <2>5
  <2>7. Point(th[t])'
    BY <2>2, <2>6 DEF Point, MovedPcs
  <2> QED
    BY <1>2, <1>4, <2>2, <2>7, BooksShut
<1>7. CASE StoreReceipt(t)
  <2>1. /\ th[t].pc \in {"receipt", "bounced"} /\ moved' = moved /\ unheard' = unheard
        /\ Goes(t, "debit")
    BY <1>7 DEF StoreReceipt, At
  <2>2. /\ th'[t].pc = "debit" /\ th'[t].n = th[t].n
        /\ \A u \in Threads \ {t} : th'[u] = th[u]
    BY <1>3, <2>1, Going
  <2>3. Given' = Given
    BY <2>1, SameGiven
  <2>4. Point(th[t])'
    BY <1>2, <1>4, <2>1, <2>2, <2>3 DEF Point, Kept, MovedPcs
  <2> QED
    BY <1>2, <1>4, <2>2, <2>4, BooksShut
<1> QED
  BY <1>5, <1>6, <1>7

\* What a post does to the balance.
LEMMA PostBooks ==
    ASSUME RowsHold, NEW kind, NEW of, NEW amount \in Int, NEW n, NEW when, NEW row,
           row = Row(kind, of, amount, n), Post(row, when),
           kind = "accrual" => when = "held" /\ of # NoRef
    PROVE  \/ ledger' = ledger /\ age' = age
           \/ of = NoRef /\ row \in ledger
           \/ /\ Gained' = Gained
              /\ Reserved' = IF kind = "reserve" THEN Reserved + amount ELSE Reserved
              /\ Paid' = IF kind = "payout" THEN Paid - amount ELSE Paid
<1>1. row.kind = kind /\ row.of = of /\ row.amount = amount
  BY RowParts
<1>2. CASE row \notin ledger
  BY <1>1, <1>2, NewRow DEF Post
<1>3. CASE row \in ledger
  <2>1. Posted(row.kind, row.of) # {}
    BY <1>3 DEF Posted
  <2> QED
    BY <1>1, <1>3, <2>1 DEF Post
<1> QED
  BY <1>2, <1>3

\* The posts of a charge and of a claw-back take nothing from what was gained.
LEMMA BooksEarn ==
    ASSUME ThreadsHold, RowsHold, BooksHold, OneAtATime, calm, NEW t \in Threads,
           Accrue(t) \/ Clawback(t)
    PROVE  BooksHold'
<1>1. /\ th[t].pc \in {"accrue", "clawback"} /\ th[t].pc # "idle" /\ moved' = moved
      /\ unheard' = unheard
  BY DEF Accrue, Clawback, At
<1>2. Share \in Int /\ -Share \in Int
  BY AmountAssumption
<1>3. Gained' = Gained /\ Paid' = Paid /\ Reserved' = Reserved
  <2>1. ASSUME ledger' = ledger, age' = age
        PROVE  Gained' = Gained /\ Paid' = Paid /\ Reserved' = Reserved
    BY <2>1, SameBooks
  <2>2. CASE Accrue(t)
    <3>1. PICK row : row = Row("accrual", Of(t), Share, 0) /\ Post(row, "held")
      BY <2>2 DEF Accrue
    <3>2. Of(t) # NoRef
      <4>1. Of(t) \in Events
        BY <2>2, ChargeActs, OfWhom DEF ChargeStep
      <4> QED
        BY <4>1, HookAssumption
    <3> QED
      BY <1>2, <2>1, <3>1, <3>2, PostBooks
  <2>3. CASE Clawback(t) /\ ~(ledger' = ledger /\ age' = age)
    <3>1. PICK row, e :
             /\ row = Row("clawback", e, -Share, 0) /\ Post(row, "payable")
             /\ Posted("clawback", e) = {}
      BY <2>3 DEF Clawback
    <3>2. row.kind = "clawback" /\ row.of = e
      BY <3>1, RowParts
    <3>3. row \notin ledger
      BY <3>1, <3>2 DEF Posted
    <3> QED
      BY <1>2, <2>1, <3>1, <3>3, PostBooks
  <2> QED
    BY <2>1, <2>2, <2>3
<1>4. /\ th'[t].pc \in {"finish", "shortfall", "uphold"}
      /\ \A u \in Threads \ {t} : th'[u] = th[u]
  <2>1. \E pc \in {"finish", "shortfall", "uphold"} : Goes(t, pc)
    BY DEF Accrue, Clawback
  <2> QED
    BY <1>1, <2>1, Going
<1>5. th'[t].pc \in Plain /\ th[t].pc \notin MovedPcs
  BY <1>1, <1>4 DEF Plain, Kept, Pcs, ChargePcs, EarlyPcs, BatchPcs, MovedPcs, TakenPcs
<1>6. Reserved >= 0
  BY <1>1, BooksOpen
<1> QED
  BY <1>1, <1>3, <1>4, <1>5, <1>6, SameGiven, BooksPass

\* The posts to the reserve leave it above nothing.
LEMMA BooksReserve ==
    ASSUME ThreadsHold, RowsHold, HandsHold, BooksHold, OneAtATime, calm, NEW t \in Threads,
           TrueUp(t) \/ Draw(t)
    PROVE  BooksHold'
<1>1. /\ th[t].pc \in {"true_up", "draw"} /\ th[t].pc # "idle" /\ moved' = moved
      /\ unheard' = unheard
  BY DEF TrueUp, Draw, At
<1>2. th[t].n \in Int /\ -th[t].n \in Int /\ Reserved \in Int
  BY Balances DEF HandsHold
<1>3. Reserved >= 0 /\ Point(th[t])
  BY <1>1, BooksOpen
<1>4. Gained' = Gained /\ Paid' = Paid /\ Reserved' >= 0
  <2>1. ASSUME ledger' = ledger, age' = age
        PROVE  Gained' = Gained /\ Paid' = Paid /\ Reserved' >= 0
    BY <1>3, <2>1, SameBooks
  <2>2. CASE TrueUp(t)
    <3>1. PICK row : row = Row("reserve", NoRef, th[t].n, Cardinality(ledger))
                     /\ Post(row, "payable")
      BY <2>2 DEF TrueUp
    <3>2. row.n = Cardinality(ledger) /\ Cardinality(ledger) \in Nat
      BY <3>1, RowParts, FS_CardinalityType DEF RowsHold
    <3>3. row \notin ledger
      BY <3>2 DEF RowsHold
    <3>4. Reserved + th[t].n >= 0
      BY <1>3, <2>2 DEF Point, TrueUp, At
    <3> QED
      BY <1>2, <2>1, <3>1, <3>3, <3>4, PostBooks
  <2>3. CASE Draw(t)
    <3>1. PICK row : row = Row("reserve", RefundOf[Of(t)], -th[t].n, 0) /\ Post(row, "payable")
      BY <2>3 DEF Draw
    <3>2. RefundOf[Of(t)] # NoRef
      <4>1. Of(t) \in Hooks
        BY <2>3, RefundActs, OfWhom DEF RefundStep
      <4> QED
        BY <4>1, HookAssumption
    <3>3. Reserved + (-th[t].n) >= 0
      BY <1>2, <1>3, <2>3 DEF Point, Draw, At
    <3> QED
      BY <1>2, <2>1, <3>1, <3>2, <3>3, PostBooks
  <2> QED
    BY <2>2, <2>3
<1>5. /\ th'[t].pc \in {"balance", "uphold"} /\ \A u \in Threads \ {t} : th'[u] = th[u]
  <2>1. \E pc \in {"balance", "uphold"} : Goes(t, pc)
    BY DEF TrueUp, Draw
  <2> QED
    BY <1>1, <2>1, Going
<1>6. th'[t].pc \in Plain /\ th[t].pc \notin MovedPcs
  BY <1>1, <1>5 DEF Plain, Kept, Pcs, ChargePcs, EarlyPcs, BatchPcs, MovedPcs, TakenPcs
<1> QED
  BY <1>1, <1>4, <1>5, <1>6, SameGiven, BooksPass

\* The debit makes the books tell of the transfer.
LEMMA BooksDebit ==
    ASSUME ThreadsHold, SettlementsHold, RowsHold, HandsHold, BooksHold, OneAtATime, calm,
           NEW t \in Threads, Debit(t)
    PROVE  BooksHold'
<1>1. /\ th[t].pc = "debit" /\ th[t].pc # "idle" /\ moved' = moved /\ unheard' = unheard
      /\ Goes(t, "finish")
  BY DEF Debit, At
<1>2. PICK row : row = Row("payout", th[t].batch, -th[t].n, 0) /\ Post(row, "payable")
  BY DEF Debit
<1>3. Of(t) \in Periods /\ Runs(t, <<"settle", Of(t)>>)
  BY SettleStepRuns DEF SettleStep
<1>4. Debits(Of(t)) = {} /\ InHand(t, Of(t))
  BY <1>1, <1>3, InSettlement
<1>5. PICK b \in batches : b.id = th[t].batch /\ b.period = Of(t)
  BY <1>1, <1>4 DEF InHand, Fit, MovedPcs
<1>6. row.kind = "payout" /\ row.of = th[t].batch /\ row.amount = -th[t].n
  BY <1>2, RowParts
<1>7. Posted("payout", th[t].batch) = {} /\ row \notin ledger
  BY <1>4, <1>5, <1>6 DEF Posted, Debits, IsOf
<1>8. th[t].n \in Int /\ -th[t].n \in Int /\ Paid \in Int
  BY Balances DEF HandsHold
<1>9. /\ ledger' = ledger \cup {row}
      /\ age' = [r \in ledger \cup {row} |-> IF r = row THEN "payable" ELSE age[r]]
  BY <1>2, <1>6, <1>7 DEF Post
<1>10. Gained' = Gained /\ Reserved' = Reserved /\ Paid' = Paid - (-th[t].n)
  BY <1>6, <1>7, <1>8, <1>9, NewRow
<1>11. /\ Paid <= Gained /\ Reserved >= 0 /\ Point(th[t])
       /\ \A u \in Threads \ {t} : th[u].pc = "idle"
  BY <1>1, BooksOpen
<1>12. Given <= Paid + th[t].n /\ Paid + th[t].n <= Gained /\ Given' = Given
  BY <1>1, <1>11, SameGiven DEF Point, Kept, MovedPcs
<1>13. th'[t].pc = "finish" /\ \A u \in Threads \ {t} : th'[u] = th[u]
  BY <1>1, Going
<1>14. Paid' = Paid + th[t].n
  BY <1>8, <1>10
<1>15. Point(th[t])'
  BY <1>12, <1>13, <1>14 DEF Point, Kept, MovedPcs
<1> QED
  BY <1>10, <1>11, <1>12, <1>13, <1>14, <1>15, BooksShut

LEMMA BooksStep ==
    ASSUME ThreadsHold, SettlementsHold, RowsHold, HandsHold, SentHold, BooksHold, OneAtATime,
           [Next]_vars
    PROVE  BooksHold'
<1>1. SUFFICES ASSUME calm' PROVE BooksHold'
  BY DEF BooksHold
<1>2. ASSUME NEW t \in Threads, OpStep(t) \/ Finish(t) PROVE BooksHold'
  <2>1. CASE calm
    BY <1>2, <2>1, BooksQuietly, BooksRead, BooksSend, BooksEarn, BooksReserve, BooksDebit, <1>1
       DEF OpStep, ChargeStep, SettleStep, RefundStep, ChargeRaises, TransferLost
  <2>2. CASE ~calm
    <3>1. OpStep(t) => Act(t)
      BY StepActs
    <3> QED
      BY <1>1, <1>2, <2>2, <3>1, FinishActs DEF Act
  <2> QED
    BY <2>1, <2>2
<1>3. ASSUME NEW t \in Threads, NEW k \in Keys, Claim(t, k) PROVE BooksHold'
  <2>1. /\ ledger' = ledger /\ age' = age /\ moved' = moved /\ unheard' = unheard /\ calm
        /\ \A u \in Threads : th[u].pc = "idle"
    BY <1>1, <1>3 DEF Claim, At
  <2>2. Gained' = Gained /\ Paid' = Paid /\ Given' = Given /\ Reserved' = Reserved
    BY <2>1, SameBooks, SameGiven
  <2>3. Paid <= Gained /\ Reserved >= 0 /\ Given <= Paid
    BY <2>1 DEF BooksHold, MovedPcs
  <2>4. \A u \in Threads \ {t} : th'[u] = th[u]
    BY <1>3, ClaimActs
  <2>5. th'[t].pc \in {"idle", "charge", "topup", "clawback"}
    BY <1>3, <2>1, ClaimActs, FirstSteps DEF Keys
  <2>6. Point(th[t])'
    BY <2>2, <2>3, <2>5 DEF Point, Kept, MovedPcs
  <2> QED
    BY <2>1, <2>2, <2>3, <2>4, <2>6, BooksShut
<1>4. ASSUME NEW r \in ledger, Grow(r) PROVE BooksHold'
  <2>1. Gained <= Gained' /\ Gained' \in Int /\ Reserved' = Reserved /\ Paid' = Paid
    BY <1>4, GrowBooks
  <2>2. th' = th /\ moved' = moved /\ unheard' = unheard /\ calm
    BY <1>1, <1>4 DEF Grow
  <2>3. PICK a \in Int, b \in Int : a = Gained /\ b = Gained'
    BY <2>1, Balances
  <2>4. Given \in Int /\ Paid \in Int
    <3>1. Given \in Int
      <4>1. \A p \in Sent : moved[p] \in Int
        BY DEF SentHold, Sent
      <4> QED
        BY <4>1, SumInt DEF SentHold, Given
    <3> QED
      BY <3>1, Balances
  <2>5. ASSUME NEW n \in Int, n <= a PROVE n <= b
    BY <2>1, <2>3, <2>5
  <2>6. \A t \in Threads : Paid + th[t].n \in Int
    BY <2>4 DEF HandsHold
  <2> QED
    BY <2>1, <2>2, <2>3, <2>4, <2>5, <2>6, SameGiven DEF BooksHold
<1>5. CASE Crash
  BY <1>1, <1>5 DEF Crash
<1>6. CASE UNCHANGED vars
  <2>1. /\ ledger' = ledger /\ age' = age /\ moved' = moved /\ unheard' = unheard
        /\ th' = th /\ calm' = calm
    BY <1>6 DEF vars
  <2> QED
    BY <2>1, SameBooks, SameGiven DEF BooksHold
<1> QED
  BY <1>2, <1>3, <1>4, <1>5, <1>6, Steps DEF OpStep

LEMMA BalanceInit == ASSUME Init PROVE BalanceInv
<1>1. /\ ledger = {} /\ age = [r \in {} |-> "held"] /\ moved = [p \in Periods |-> 0]
      /\ th = [t \in Threads |-> Idle]
  BY DEF Init
<1>2. RowsHold
  BY <1>1, FS_EmptySet DEF RowsHold
<1>3. Idle.n = 0 /\ Idle.pc = "idle"
  BY DEF Idle
<1>4. \A t \in Threads : th[t].n = 0 /\ th[t].pc = "idle"
  BY <1>1, <1>3
<1>5. HandsHold /\ OneAtATime
  BY <1>4 DEF HandsHold, OneAtATime, Kept, MovedPcs
<1>6. Sent = {} /\ SentHold
  <2>1. Sent = {} /\ \A p \in Periods : moved[p] = 0
    BY <1>1 DEF Sent
  <2> QED
    BY <2>1, FS_EmptySet DEF SentHold
<1>7. /\ Accrued = {} /\ InReserve = {} /\ Payouts = {}
  BY <1>1 DEF Accrued, InReserve, Payouts, Payable, Earned
<1>8. Gained = 0 /\ Reserved = 0 /\ Paid = 0 /\ Given = 0
  <2>1. SumOf({}) = 0 /\ SumFunctionOnSet(moved, {}) = 0
    BY SumEmpty DEF SumOf
  <2>2. Gained = SumOf(Accrued) /\ Reserved = SumOf(InReserve) /\ Paid = -SumOf(Payouts)
    BY <1>2, Balances
  <2> QED
    BY <1>6, <1>7, <2>1, <2>2 DEF Given
<1>9. BooksHold
  BY <1>4, <1>8 DEF BooksHold, Kept, MovedPcs
<1> QED
  BY <1>2, <1>5, <1>6, <1>9, IInvInit DEF BalanceInv

LEMMA BalanceStep == ASSUME BalanceInv, [Next]_vars PROVE BalanceInv'
BY IInvStep, RowsStep, HandsStep, SentStep, AloneStep, BooksStep DEF BalanceInv, IInv

LEMMA BooksNeverOverpay == ASSUME BalanceInv PROVE NeverOverpaid
<1>1. Given \in Int /\ Gained \in Int /\ Paid \in Int /\ \A t \in Threads : th[t].n \in Int
  <2>1. \A p \in Sent : moved[p] \in Int
    BY DEF BalanceInv, SentHold, Sent
  <2> QED
    BY <2>1, Balances, SumInt DEF BalanceInv, SentHold, HandsHold, Given
<1>2. calm => Gained >= Given /\ Reserved >= 0
  <2>1. ASSUME calm, \A t \in Threads : th[t].pc \notin MovedPcs PROVE Gained >= Given
    BY <1>1, <2>1 DEF BalanceInv, BooksHold
  <2>2. ASSUME calm, NEW t \in Threads, th[t].pc \in MovedPcs PROVE Gained >= Given
    <3>1. Given <= Paid + th[t].n /\ Paid + th[t].n <= Gained
      BY <2>2 DEF BalanceInv, BooksHold, Kept
    <3> QED
      BY <1>1, <3>1
  <2> QED
    BY <2>1, <2>2 DEF BalanceInv, BooksHold
<1> QED
  BY <1>2 DEF NeverOverpaid, Gained, Given, Sent

\* While operations come one at a time and none is abandoned, the noder is never paid more
\* than the earnings that left their holdback, but for the transfers that were made and
\* answered by an error, for every share, reserve and minimum payout (_top_up_reserve,
\* BalanceProjection.balance, the reserve draws of uphold).
THEOREM PaidIsEarned == Spec => []NeverOverpaid
<1>1. Init => BalanceInv
  BY BalanceInit
<1>2. BalanceInv /\ [Next]_vars => BalanceInv'
  BY BalanceStep
<1>3. BalanceInv => NeverOverpaid
  BY BooksNeverOverpay
<1> QED
  BY <1>1, <1>2, <1>3, PTL DEF Spec
===============================================================================
