------------------------------- MODULE Earnings -------------------------------
(***************************************************************************)
(* What one noder earns and is paid: the charge of a metering event        *)
(* (billing/charging.py), the settlement of a period (billing/settlement)  *)
(* and the claw-back a refund brings (billing/disputes.py, the processor   *)
(* webhook of gateway/app.py), over the earnings ledger (billing/ledger),  *)
(* the idempotency ledger (durable/idempotency.py) and the processor.      *)
(*                                                                         *)
(* Every operation runs in a thread under a key of the idempotency ledger: *)
(* the claim, each read, each write and each call of the processor are     *)
(* steps of their own, and an exception or a crash leaves the claim.       *)
(* A confirmation of a payout only rewrites its batch's status, which no   *)
(* operation reads back: it is left out; a status is the one settle wrote. *)
(* A dispute is opened and upheld by the same webhook: its own key is      *)
(* fresh, so its claim never fails and is left out.                        *)
(***************************************************************************)
EXTENDS Integers, FiniteSets, FiniteSetsExt

CONSTANTS
    Threads,
    Events,       \* metering events with a gross
    Periods,      \* settlement periods
    Hooks,        \* refund deliveries
    RefundOf,     \* delivery -> the event it refunds
    NoRef,        \* the event_id of a true-up: none
    Share,        \* what an event accrues to the noder
    ReservePart,  \* the reserve holds one part in this many
    MinPayout,
    MaxAsks, MaxCrashes    \* bounds for TLC

ASSUME AmountAssumption ==
    Share \in Nat \ {0} /\ ReservePart \in Nat \ {0} /\ MinPayout \in Nat \ {0}
ASSUME HookAssumption == RefundOf \in [Hooks -> Events] /\ NoRef \notin Events

VARIABLES
    key,       \* idempotency: operation -> "free", "claimed" or "done"
    ledger,    \* earnings_entries
    age,       \* ledger row -> "held", "payable" or "past" the risk window
    charged,   \* processor: events whose consumer was charged
    moved,     \* processor: period -> amount transferred under its key
    unheard,   \* history: periods whose transfer was made and answered by an error
    batches,   \* payout_batches
    upheld,    \* deliveries whose dispute is upheld
    th,        \* the threads
    asks, crashes,
    calm       \* history: nothing overlapped, no claim was abandoned

vars == <<key, ledger, age, charged, moved, unheard, batches, upheld, th, asks,
          crashes, calm>>

Charges     == {<<"charge", e>> : e \in Events}
Settlements == {<<"settle", p>> : p \in Periods}
Refunds     == {<<"refund", h>> : h \in Hooks}
Keys        == Charges \cup Settlements \cup Refunds

Kinds == {"accrual", "clawback", "reserve", "payout"}
\* n tells true-ups apart: their event_id is NULL, which is never a duplicate.
Row(kind, of, amount, n) == [kind |-> kind, of |-> of, amount |-> amount, n |-> n]

Idle == [op |-> <<>>, pc |-> "idle", n |-> 0, batch |-> 0]

Init ==
    /\ key = [k \in Keys |-> "free"]
    /\ ledger = {} /\ age = [r \in {} |-> "held"]
    /\ charged = {} /\ moved = [p \in Periods |-> 0] /\ unheard = {} /\ batches = {}
    /\ upheld = {}
    /\ th = [t \in Threads |-> Idle]
    /\ asks = 0 /\ crashes = 0 /\ calm = TRUE

-----------------------------------------------------------------------------
(* The earnings ledger and its projection. *)

Posted(kind, of) == {r \in ledger : r.kind = kind /\ r.of = of}

Amount == [r \in ledger |-> r.amount]
SumOf(rows) == SumFunctionOnSet(Amount, rows)

Earned   == {r \in ledger : r.kind \in {"accrual", "clawback"}}
Payable  == {r \in Earned : age[r] # "held"}
AtRisk   == {r \in Earned : age[r] = "payable"}
Reserved == SumOf({r \in ledger : r.kind = "reserve"})
Paid     == -SumOf({r \in ledger : r.kind = "payout"})

\* Mutant: earnings still in their holdback count as available.
AvailableEarly == SumOf(Earned) - Reserved - Paid

Available == SumOf(Payable) - Reserved - Paid

\* append: INSERT OR IGNORE under UNIQUE (event_id, noder, kind).
Post(row, when) ==
    IF row.of # NoRef /\ Posted(row.kind, row.of) # {}
    THEN UNCHANGED <<ledger, age>>
    ELSE /\ ledger' = ledger \cup {row}
         /\ age' = [r \in ledger \cup {row} |-> IF r = row THEN when ELSE age[r]]

\* The holdback of an accrual ends, and the risk window of a row.
Grow(r) ==
    /\ r \in Earned /\ age[r] # "past"
    /\ age' = [age EXCEPT ![r] = IF age[r] = "held" THEN "payable" ELSE "past"]
    /\ UNCHANGED <<key, ledger, charged, moved, unheard, batches, upheld, th,
                   asks, crashes, calm>>

-----------------------------------------------------------------------------
(* Operations under a key. *)

At(t, pc) == th[t].pc = pc
Of(t)     == th[t].op[2]
Goes(t, pc) == th' = [th EXCEPT ![t].pc = pc]
Ends(t)   == th' = [th EXCEPT ![t] = Idle]

First(k) == CASE k \in Charges -> "charge"
              [] k \in Settlements -> "topup"
              [] k \in Refunds -> "clawback"

\* run: claim the key, or answer what is stored for it.  The processor refunds
\* what it charged; it may deliver the same event again.
Claim(t, k) ==
    /\ At(t, "idle") /\ asks < MaxAsks
    /\ k \in Refunds => RefundOf[k[2]] \in charged
    /\ asks' = asks + 1
    /\ calm' = (calm /\ \A u \in Threads : At(u, "idle"))
    /\ IF key[k] = "free"
       THEN /\ key' = [key EXCEPT ![k] = "claimed"]
            /\ th' = [th EXCEPT ![t] = [Idle EXCEPT !.op = k, !.pc = First(k)]]
       ELSE UNCHANGED <<key, th>>
    /\ UNCHANGED <<ledger, age, charged, moved, unheard, batches, upheld,
                   crashes>>

Finish(t) ==
    /\ At(t, "finish")
    /\ key' = [key EXCEPT ![th[t].op] = "done"]
    /\ Ends(t)
    /\ UNCHANGED <<ledger, age, charged, moved, unheard, batches, upheld, asks,
                   crashes, calm>>

\* charge_and_accrue
Excluded(t) ==
    /\ At(t, "charge")
    /\ Goes(t, "finish")
    /\ UNCHANGED <<key, ledger, age, charged, moved, unheard, batches, upheld,
                   asks, crashes, calm>>

Charge(t) ==
    /\ At(t, "charge")
    /\ charged' = charged \cup {Of(t)}
    /\ Goes(t, "accrue")
    /\ UNCHANGED <<key, ledger, age, moved, unheard, batches, upheld, asks,
                   crashes, calm>>

\* The processor declines, or its answer is lost: nothing releases the claim.
ChargeRaises(t) ==
    /\ At(t, "charge")
    /\ \/ UNCHANGED charged
       \/ charged' = charged \cup {Of(t)}
    /\ Ends(t) /\ calm' = FALSE
    /\ UNCHANGED <<key, ledger, age, moved, unheard, batches, upheld, asks,
                   crashes>>

Accrue(t) ==
    /\ At(t, "accrue")
    /\ Post(Row("accrual", Of(t), Share, 0), "held")
    /\ Goes(t, "finish")
    /\ UNCHANGED <<key, charged, moved, unheard, batches, upheld, asks,
                   crashes, calm>>

-----------------------------------------------------------------------------
(* settle *)

\* round: to the nearest, halves to the even.
Part(n) ==
    LET q == n \div ReservePart
        r == 2 * (n % ReservePart)
    IN  IF r > ReservePart \/ (r = ReservePart /\ q % 2 = 1) THEN q + 1 ELSE q

Target == IF SumOf(AtRisk) > 0 THEN Part(SumOf(AtRisk)) ELSE 0

ReadReserve(t) ==
    /\ At(t, "topup")
    /\ LET delta == Target - Reserved
       IN  th' = [th EXCEPT ![t].pc = IF delta = 0 THEN "balance" ELSE "true_up",
                            ![t].n = delta]
    /\ UNCHANGED <<key, ledger, age, charged, moved, unheard, batches, upheld,
                   asks, crashes, calm>>

TrueUp(t) ==
    /\ At(t, "true_up")
    /\ Post(Row("reserve", NoRef, th[t].n, Cardinality(ledger)), "payable")
    /\ Goes(t, "balance")
    /\ UNCHANGED <<key, charged, moved, unheard, batches, upheld, asks,
                   crashes, calm>>

ReadBalance(t) ==
    /\ At(t, "balance")
    /\ th' = [th EXCEPT ![t].pc = IF Available < MinPayout THEN "finish" ELSE "kyc",
                        ![t].n = Available]
    /\ UNCHANGED <<key, ledger, age, charged, moved, unheard, batches, upheld,
                   asks, crashes, calm>>

Unverified(t) ==
    /\ At(t, "kyc")
    /\ Goes(t, "finish")
    /\ UNCHANGED <<key, ledger, age, charged, moved, unheard, batches, upheld,
                   asks, crashes, calm>>

AddBatch(t) ==
    /\ At(t, "kyc")
    /\ LET id == Cardinality(batches) + 1
       IN /\ batches' = batches \cup {[id |-> id, period |-> Of(t),
                                       amount |-> th[t].n, status |-> "pending"]}
          /\ th' = [th EXCEPT ![t].pc = "transfer", ![t].batch = id]
    /\ UNCHANGED <<key, ledger, age, charged, moved, unheard, upheld, asks,
                   crashes, calm>>

\* The processor answers a key it knows with the first transfer.
Moved(t) == moved' = [moved EXCEPT ![Of(t)] = IF @ = 0 THEN th[t].n ELSE @]

UpdateBatch(t, status) ==
    batches' = {IF b.id = th[t].batch THEN [b EXCEPT !.status = status] ELSE b
                  : b \in batches}

Transfer(t) ==
    /\ At(t, "transfer")
    /\ Moved(t)
    /\ Goes(t, "receipt")
    /\ UNCHANGED <<key, ledger, age, charged, unheard, batches, upheld, asks,
                   crashes, calm>>

\* PaymentError, which the adapter raises for every status of 400 or more: a
\* refusal moved nothing, a failure of the processor's own may have.  The batch
\* is marked failed either way, then the claim is released.
TransferRefused(t) ==
    /\ At(t, "transfer")
    /\ \/ UNCHANGED <<moved, unheard>>
       \/ Moved(t) /\ unheard' = unheard \cup {Of(t)}
    /\ Goes(t, "failed")
    /\ UNCHANGED <<key, ledger, age, charged, batches, upheld, asks, crashes, calm>>

MarkFailed(t) ==
    /\ At(t, "failed")
    /\ UpdateBatch(t, "failed")
    /\ Goes(t, "release")
    /\ UNCHANGED <<key, ledger, age, charged, moved, unheard, upheld, asks,
                   crashes, calm>>

ReleaseClaim(t) ==
    /\ At(t, "release")
    /\ key' = [key EXCEPT ![th[t].op] = "free"]
    /\ Ends(t)
    /\ UNCHANGED <<ledger, age, charged, moved, unheard, batches, upheld, asks,
                   crashes, calm>>

\* Mutant: a lost answer releases the claim like a refusal.
TransferLostReleases(t) ==
    /\ At(t, "transfer")
    /\ UNCHANGED moved \/ Moved(t)
    /\ Goes(t, "release") /\ calm' = FALSE
    /\ UNCHANGED <<key, ledger, age, charged, unheard, batches, upheld, asks,
                   crashes>>

\* Any other exception: the money may have moved, and the claim stays.
TransferLost(t) ==
    /\ At(t, "transfer")
    /\ UNCHANGED moved \/ Moved(t)
    /\ Ends(t) /\ calm' = FALSE
    /\ UNCHANGED <<key, ledger, age, charged, unheard, batches, upheld, asks,
                   crashes>>

\* A receipt of some other status: failed to the adapter, whatever it moved.
TransferBounces(t) ==
    /\ At(t, "transfer")
    /\ UNCHANGED moved \/ Moved(t)
    /\ Goes(t, "bounced")
    /\ UNCHANGED <<key, ledger, age, charged, unheard, batches, upheld, asks,
                   crashes, calm>>

\* Stored and debited whatever its status.
StoreReceipt(t) ==
    /\ At(t, "receipt") \/ At(t, "bounced")
    /\ UpdateBatch(t, IF At(t, "receipt") THEN "paid" ELSE "failed")
    /\ Goes(t, "debit")
    /\ UNCHANGED <<key, ledger, age, charged, moved, unheard, upheld, asks,
                   crashes, calm>>

Debit(t) ==
    /\ At(t, "debit")
    /\ Post(Row("payout", th[t].batch, -th[t].n, 0), "payable")
    /\ Goes(t, "finish")
    /\ UNCHANGED <<key, charged, moved, unheard, batches, upheld, asks,
                   crashes, calm>>

-----------------------------------------------------------------------------
(* refund: open a dispute and uphold it. *)

\* Mutant: only what has become available is taken back.
ClawbackPayable(t) ==
    /\ At(t, "clawback")
    /\ LET e == RefundOf[Of(t)]
           hit == Posted("accrual", e) \cap Payable # {} /\ Posted("clawback", e) = {}
       IN /\ IF hit THEN Post(Row("clawback", e, -Share, 0), "payable")
                    ELSE UNCHANGED <<ledger, age>>
          /\ Goes(t, IF hit THEN "shortfall" ELSE "uphold")
    /\ UNCHANGED <<key, charged, moved, unheard, batches, upheld, asks,
                   crashes, calm>>

\* _apply_clawback
Clawback(t) ==
    /\ At(t, "clawback")
    /\ LET e == RefundOf[Of(t)]
           hit == Posted("accrual", e) # {} /\ Posted("clawback", e) = {}
       IN /\ IF hit THEN Post(Row("clawback", e, -Share, 0), "payable")
                    ELSE UNCHANGED <<ledger, age>>
          /\ Goes(t, IF hit THEN "shortfall" ELSE "uphold")
    /\ UNCHANGED <<key, charged, moved, unheard, batches, upheld, asks,
                   crashes, calm>>

ReadShortfall(t) ==
    /\ At(t, "shortfall")
    /\ LET shortfall == -Available
           draw == IF Reserved < shortfall THEN Reserved ELSE shortfall
       IN  th' = [th EXCEPT ![t].pc = IF draw > 0 THEN "draw" ELSE "uphold",
                            ![t].n = draw]
    /\ UNCHANGED <<key, ledger, age, charged, moved, unheard, batches, upheld,
                   asks, crashes, calm>>

Draw(t) ==
    /\ At(t, "draw")
    /\ Post(Row("reserve", RefundOf[Of(t)], -th[t].n, 0), "payable")
    /\ Goes(t, "uphold")
    /\ UNCHANGED <<key, charged, moved, unheard, batches, upheld, asks,
                   crashes, calm>>

Uphold(t) ==
    /\ At(t, "uphold")
    /\ upheld' = upheld \cup {Of(t)}
    /\ Goes(t, "finish")
    /\ UNCHANGED <<key, ledger, age, charged, moved, unheard, batches, asks,
                   crashes, calm>>

Crash ==
    /\ crashes < MaxCrashes /\ \E t \in Threads : ~At(t, "idle")
    /\ th' = [t \in Threads |-> Idle]
    /\ crashes' = crashes + 1 /\ calm' = FALSE
    /\ UNCHANGED <<key, ledger, age, charged, moved, unheard, batches, upheld,
                   asks>>

Next ==
    \/ \E t \in Threads :
         \/ \E k \in Keys : Claim(t, k)
         \/ Excluded(t) \/ Charge(t) \/ ChargeRaises(t) \/ Accrue(t)
         \/ ReadReserve(t) \/ TrueUp(t) \/ ReadBalance(t) \/ Unverified(t)
         \/ AddBatch(t) \/ Transfer(t) \/ TransferRefused(t) \/ TransferLost(t)
         \/ TransferBounces(t) \/ StoreReceipt(t) \/ Debit(t)
         \/ MarkFailed(t) \/ ReleaseClaim(t)
         \/ Clawback(t) \/ ReadShortfall(t) \/ Draw(t) \/ Uphold(t)
         \/ Finish(t)
    \/ \E r \in ledger : Grow(r)
    \/ Crash

Spec == Init /\ [][Next]_vars

-----------------------------------------------------------------------------
BatchOf(row) == CHOOSE b \in batches : b.id = row.of
PayoutsOf(p) == {r \in ledger : r.kind = "payout" /\ BatchOf(r).period = p}

\* What an error that came after the transfer leaves: a failed batch alone.
OnRecordAsFailed(p) ==
    /\ p \in unheard
    /\ \E b \in batches :
          b.period = p /\ b.status = "failed" /\ b.amount = moved[p]

\* No money is unaccounted for, whatever overlaps, raises or crashes: a charge
\* is accrued, or its claim stands and shows it unfinished; a transfer is
\* debited once, for what moved unless its receipt said failed, or its claim
\* stands, or it was answered by an error and a failed batch has its amount; no
\* row is without its charge or its answered batch (settle, charge_and_accrue,
\* IdempotencyLedger.run, StripeConnectAdapter.payout).
MoneyAccounted ==
    /\ \A e \in Events :
         /\ Posted("accrual", e) # {} => e \in charged
         /\ e \in charged => Posted("accrual", e) # {} \/ key[<<"charge", e>>] = "claimed"
    /\ \A p \in Periods :
         /\ Cardinality(PayoutsOf(p)) <= 1
         /\ \A r \in PayoutsOf(p) :
              /\ BatchOf(r).status # "pending" /\ r.amount = -BatchOf(r).amount
              /\ BatchOf(r).status = "paid" /\ p \notin unheard => r.amount = -moved[p]
         /\ moved[p] > 0 => \/ PayoutsOf(p) # {} \/ key[<<"settle", p>>] = "claimed"
                            \/ OnRecordAsFailed(p)

\* While operations come one at a time and none is abandoned, the noder is
\* never paid more than the earnings that left their holdback, but for the
\* transfers that were made and answered by an error (_top_up_reserve,
\* BalanceProjection.balance, the reserve draws of uphold).
NeverOverpaid ==
    calm => /\ SumOf({r \in Payable : r.kind = "accrual"})
                 >= SumFunctionOnSet(moved, {p \in Periods : moved[p] # 0} \ unheard)
            /\ Reserved >= 0

\* While operations come one at a time and none is abandoned, a refund that was
\* acknowledged took its event's accrual back (_processor_webhook, uphold).
RefundSticks ==
    calm => \A h \in Hooks :
              key[<<"refund", h>>] = "done" =>
                /\ h \in upheld
                /\ Posted("accrual", RefundOf[h]) # {} =>
                     Posted("clawback", RefundOf[h]) # {}
=============================================================================
