-------------------------------- MODULE Orders --------------------------------
(***************************************************************************)
(* One marketplace order (marketplace/orders.py) with its milestones, the  *)
(* shelf its unit comes from (marketplace/inventory.py), its lines in the  *)
(* double-entry ledger (billing/doubleentry.py, billing/escrow.py) and the *)
(* payment provider (billing/psp.py: FakePsp).                             *)
(*                                                                         *)
(* A request runs in a thread of the gateway.  It reads the order, then    *)
(* makes its writes and its provider calls one by one, each a transaction  *)
(* of its own: a request is the sequence of steps it has still to make,    *)
(* `todo`, and the copy of the record it read, `mem`.  Between any two     *)
(* steps other threads run, and the process may die.                       *)
(*                                                                         *)
(* The gateway always gives the service an escrow policy without           *)
(* exceptions, so every order holds its money in escrow.  Fees and tax     *)
(* leave escrow together with the seller's share: `payee` is all three.    *)
(* Each milestone is one unit of the price.                                *)
(***************************************************************************)
EXTENDS Integers, Sequences, FiniteSetsExt

CONSTANTS
    Threads,      \* request threads
    Price,        \* total_micros, in units; the number of milestones, if any
    Milestoned,   \* subset of BOOLEAN: may the offer have a payment schedule
    Stock,        \* units on the shelf
    Awards,       \* amounts a partial refund may award
    MaxAsks,      \* bound: requests that get past their first read
    MaxCrashes    \* bound: crashes of the process

ASSUME PriceAssumption == Price \in Nat \ {0} /\ Awards \subseteq 1 .. Price
ASSUME BoundsAssumption == Stock \in Nat /\ MaxAsks \in Nat /\ MaxCrashes \in Nat

Final  == {"cancelled", "refunded", "resolved"}
States == {"none", "payment_authorizing", "confirmed", "fulfilling", "delivered", "accepted",
           "completed", "cancellation_pending", "refund_pending", "disputed"} \cup Final

VARIABLES
    state,        \* the order's state column
    rec,          \* its payload: auth_ref, charge_ref, delivered_at are set
    schedule,     \* the offer has milestones
    ms,           \* the milestone book
    spent,        \* the intent's authorization is spent
    ledger,       \* transactions posted for the order
    authorized, captured, voided, back,   \* the provider; back: refund key -> amount
    available, res, others,   \* the shelf, reservations, units held by other buyers
    th,           \* the threads
    asks, crashes,
    calm          \* history: so far nothing overlapped and nothing crashed

orderVars == <<state, rec, ms>>
pspVars   == <<authorized, captured, voided, back>>
shelfVars == <<available, res, others>>
boundVars == <<asks, crashes, calm>>
vars == <<orderVars, schedule, spent, ledger, pspVars, shelfVars, th, boundVars>>

Milestones   == 1 .. Price
Reservations == 1 .. 2
RefundKeys   == {"refund", "unreleased", "full", "partial"}

\* A transaction: cash in, escrow owed; the rest is owed to the payees.
Key(name, of, m) == [name |-> name, of |-> of, m |-> m]
Txn(key, kind, cash, escrow) == [key |-> key, kind |-> kind, cash |-> cash, escrow |-> escrow]

CashOf   == [x \in ledger |-> x.cash]
EscrowOf == [x \in ledger |-> x.escrow]
PayeeOf  == [x \in ledger |-> x.cash - x.escrow]
Kind(k) == {x \in ledger : x.kind = k}

Cash   == SumFunctionOnSet(CashOf, ledger)
Escrow == SumFunctionOnSet(EscrowOf, ledger)

\* _order_position, and the two sums of refund_unreleased.
Captured == SumFunctionOnSet(CashOf, Kind("capture"))
Refunded == -SumFunctionOnSet(CashOf, Kind("refund"))
Released == SumFunctionOnSet(PayeeOf, Kind("capture") \cup Kind("release"))
Unreleased == Captured - SumFunctionOnSet(PayeeOf, Kind("release"))

NoRecord == [auth |-> FALSE, charge |-> FALSE, at |-> FALSE]
Idle == [todo |-> <<>>, mem |-> NoRecord, hold |-> 0, m |-> 0, amount |-> 0, undo |-> {}]

Init ==
    /\ state = "none" /\ rec = NoRecord /\ schedule \in Milestoned
    /\ ms = [m \in Milestones |-> "none"]
    /\ spent = FALSE /\ ledger = {}
    /\ authorized = FALSE /\ captured = FALSE /\ voided = FALSE
    /\ back = [k \in RefundKeys |-> 0]
    /\ available = Stock /\ res = [r \in Reservations |-> "none"] /\ others = 0
    /\ th = [t \in Threads |-> Idle]
    /\ asks = 0 /\ crashes = 0 /\ calm = TRUE
-----------------------------------------------------------------------------
\* STEPS OF A REQUEST

Do(what)      == [do |-> what, from |-> {}, to |-> "", must |-> FALSE]
On(what, key) == [do |-> what, from |-> {}, to |-> key, must |-> FALSE]
\* set_state with its expected states; a refusal ends the request, or goes unnoticed.
Must(from, to) == [do |-> "set", from |-> from, to |-> to, must |-> TRUE]
Set(from, to)  == [do |-> "set", from |-> from, to |-> to, must |-> FALSE]

At(t, what) == th[t].todo # <<>> /\ Head(th[t].todo).do = what
Goes(t, r)  == LET rest == Tail(th[t].todo)
               IN  th' = [th EXCEPT ![t] = IF rest = <<>> THEN Idle ELSE [r EXCEPT !.todo = rest]]
Moves(t)    == Goes(t, th[t])
Ends(t)     == th' = [th EXCEPT ![t] = Idle]
Turns(t, todo) == th' = [th EXCEPT ![t].todo = todo]

\* Mutant: the expected states are not looked at.
SetBlind(t) ==
    /\ At(t, "set")
    /\ state' = Head(th[t].todo).to
    /\ Moves(t)
    /\ UNCHANGED <<rec, ms, schedule, spent, ledger, pspVars, shelfVars, boundVars>>

SetState(t) ==
    /\ At(t, "set")
    /\ LET s == Head(th[t].todo)
       IN  IF state \in s.from
           THEN state' = s.to /\ Moves(t)
           ELSE UNCHANGED state /\ IF s.must THEN Ends(t) ELSE Moves(t)
    /\ UNCHANGED <<rec, ms, schedule, spent, ledger, pspVars, shelfVars, boundVars>>

\* update_record: the whole record, as the request has it.
Store(t) ==
    /\ At(t, "store")
    /\ rec' = th[t].mem
    /\ Moves(t)
    /\ UNCHANGED <<state, ms, schedule, spent, ledger, pspVars, shelfVars, boundVars>>

\* The same after a capture, with its charge_ref.
Charge(t) ==
    /\ At(t, "charge")
    /\ rec' = [th[t].mem EXCEPT !.charge = TRUE]
    /\ Goes(t, [th[t] EXCEPT !.mem.charge = TRUE])
    /\ UNCHANGED <<state, ms, schedule, spent, ledger, pspVars, shelfVars, boundVars>>

\* The record is read again, and a charge found in it ends the request.
Reread(t) ==
    /\ At(t, "reread")
    /\ IF rec.charge THEN Ends(t) ELSE Goes(t, [th[t] EXCEPT !.mem = rec])
    /\ UNCHANGED <<orderVars, schedule, spent, ledger, pspVars, shelfVars, boundVars>>
-----------------------------------------------------------------------------
\* PLACEMENT

Reserve(t) ==
    /\ At(t, "reserve")
    /\ IF available = 0
       THEN Ends(t) /\ UNCHANGED <<available, res>>
       ELSE \E r \in Reservations :
               /\ res[r] = "none" /\ \A q \in Reservations : q < r => res[q] # "none"
               /\ res' = [res EXCEPT ![r] = "reserved"]
               /\ available' = available - 1
               /\ Goes(t, [th[t] EXCEPT !.hold = r])
    /\ UNCHANGED <<orderVars, schedule, spent, ledger, pspVars, others, boundVars>>

\* authorize_execution: an intent is authorized once, or refused.
Authorize(t) ==
    /\ At(t, "spine")
    /\ \/ ~spent /\ spent' = TRUE /\ Moves(t)
       \/ UNCHANGED spent /\ Turns(t, <<Do("release")>>)
    /\ UNCHANGED <<orderVars, schedule, ledger, pspVars, shelfVars, boundVars>>

Add(t) ==
    /\ At(t, "add")
    /\ IF state = "none"
       THEN state' = "payment_authorizing" /\ Moves(t)
       ELSE UNCHANGED state /\ Ends(t)
    /\ UNCHANGED <<rec, ms, schedule, spent, ledger, pspVars, shelfVars, boundVars>>

Seed(t) ==
    /\ At(t, "seed")
    /\ ms' = IF schedule THEN [m \in Milestones |-> "pending"] ELSE ms
    /\ Moves(t)
    /\ UNCHANGED <<state, rec, schedule, spent, ledger, pspVars, shelfVars, boundVars>>

\* The provider authorizes, or declines.
Pay(t) ==
    /\ At(t, "authorize")
    /\ \/ authorized' = TRUE /\ Goes(t, [th[t] EXCEPT !.mem.auth = TRUE])
       \/ UNCHANGED authorized
          /\ Turns(t, <<Set({"payment_authorizing"}, "cancelled"), Do("release")>>)
    /\ UNCHANGED <<orderVars, schedule, spent, ledger, captured, voided, back, shelfVars, boundVars>>
-----------------------------------------------------------------------------
\* THE SHELF

\* for_holder: a reservation of this intent that still stands.
Find(t) ==
    /\ At(t, "find")
    /\ IF \E r \in Reservations : res[r] = "reserved"
       THEN \E r \in Reservations : res[r] = "reserved" /\ Goes(t, [th[t] EXCEPT !.hold = r])
       ELSE Ends(t)
    /\ UNCHANGED <<orderVars, schedule, spent, ledger, pspVars, shelfVars, boundVars>>

\* Mutant: the release does not look at the reservation's state again.
ReleaseTwice(t) ==
    /\ At(t, "release")
    /\ res' = [res EXCEPT ![th[t].hold] = "released"]
    /\ available' = available + 1
    /\ Ends(t)
    /\ UNCHANGED <<orderVars, schedule, spent, ledger, pspVars, others, boundVars>>

Release(t) ==
    /\ At(t, "release")
    /\ IF res[th[t].hold] = "reserved"
       THEN res' = [res EXCEPT ![th[t].hold] = "released"] /\ available' = available + 1
       ELSE UNCHANGED <<res, available>>
    /\ Ends(t)
    /\ UNCHANGED <<orderVars, schedule, spent, ledger, pspVars, others, boundVars>>

Commit(t) ==
    /\ At(t, "commit")
    /\ res' = IF res[th[t].hold] = "reserved" THEN [res EXCEPT ![th[t].hold] = "committed"] ELSE res
    /\ Ends(t)
    /\ UNCHANGED <<orderVars, schedule, spent, ledger, pspVars, available, others, boundVars>>

\* sweep_expired: thirty minutes after it was made, whatever became of the order.
Expire(r) ==
    /\ res[r] = "reserved"
    /\ res' = [res EXCEPT ![r] = "released"]
    /\ available' = available + 1
    /\ UNCHANGED <<orderVars, schedule, spent, ledger, pspVars, others, th, boundVars>>

\* Another buyer's reservation.
OtherBuys ==
    /\ available > 0
    /\ available' = available - 1 /\ others' = others + 1
    /\ UNCHANGED <<orderVars, schedule, spent, ledger, pspVars, res, th, boundVars>>
-----------------------------------------------------------------------------
\* MONEY

\* Append-only, once per key: the first post stands.
Post(x) == ledger' = IF \E y \in ledger : y.key = x.key THEN ledger ELSE ledger \cup {x}

\* psp.capture, once per key; without an authorization the request is refused.
Capture(t) ==
    /\ At(t, "capture")
    /\ IF th[t].mem.auth THEN captured' = TRUE /\ Moves(t) ELSE UNCHANGED captured /\ Ends(t)
    /\ UNCHANGED <<orderVars, schedule, spent, ledger, authorized, voided, back, shelfVars, boundVars>>

PostCapture(t) ==
    /\ At(t, "post_capture")
    /\ Post(Txn(Key("capture", "", 0), "capture", Price, Price))
    /\ Moves(t)
    /\ UNCHANGED <<orderVars, schedule, spent, pspVars, shelfVars, boundVars>>

\* What a release takes out of escrow: the whole, or one tranche.
PostRelease(t) ==
    /\ At(t, "post_release")
    /\ Post(Txn(Key("release", "", th[t].m), "release", 0, IF th[t].m = 0 THEN -Price ELSE -1))
    /\ Moves(t)
    /\ UNCHANGED <<orderVars, schedule, spent, pspVars, shelfVars, boundVars>>

PostReject(t) ==
    /\ At(t, "post_reject")
    /\ Post(Txn(Key("reject", "", 0), "release", 0, -th[t].amount))
    /\ Moves(t)
    /\ UNCHANGED <<orderVars, schedule, spent, pspVars, shelfVars, boundVars>>

\* The award leaves escrow as far as escrow goes, and the seller's payable for the rest.
PostRefund(t) ==
    /\ At(t, "post_refund")
    /\ Post(Txn(Key(Head(th[t].todo).to, "", 0), "refund", -th[t].amount, -th[t].m))
    /\ Moves(t)
    /\ UNCHANGED <<orderVars, schedule, spent, pspVars, shelfVars, boundVars>>

Void(t) ==
    /\ At(t, "void")
    /\ voided' = (voided \/ th[t].mem.auth)
    /\ Moves(t)
    /\ UNCHANGED <<orderVars, schedule, spent, ledger, authorized, captured, back, shelfVars, boundVars>>

\* psp.refund, once per key.
Refund(t) ==
    /\ At(t, "refund")
    /\ LET k == Head(th[t].todo).to
       IN  back' = [back EXCEPT ![k] = IF back[k] = 0 THEN th[t].amount ELSE back[k]]
    /\ Moves(t)
    /\ UNCHANGED <<orderVars, schedule, spent, ledger, authorized, captured, voided, shelfVars,
                   boundVars>>

\* The settlement transactions to reverse are read, then reversed one by one: under a
\* key per kind by refund and its webhook, under a key per transaction by adjudicate.
Settled(t) ==
    /\ At(t, "settled")
    /\ LET settled == Kind("capture") \cup Kind("release")
       IN  IF settled = {} THEN Ends(t) ELSE Goes(t, [th[t] EXCEPT !.undo = settled])
    /\ UNCHANGED <<orderVars, schedule, spent, ledger, pspVars, shelfVars, boundVars>>

UndoKey(how, x) ==
    IF how = "refund" THEN Key("refund", x.kind, 0) ELSE Key("full", x.key.name, x.key.m)

Undo(t) ==
    /\ At(t, "undo")
    /\ IF th[t].undo = {}
       THEN Moves(t) /\ UNCHANGED ledger
       ELSE \E x \in th[t].undo :
               /\ Post(Txn(UndoKey(Head(th[t].todo).to, x), "refund", -x.cash, -x.escrow))
               /\ th' = [th EXCEPT ![t].undo = th[t].undo \ {x}]
    /\ UNCHANGED <<orderVars, schedule, spent, pspVars, shelfVars, boundVars>>
-----------------------------------------------------------------------------
\* MILESTONES

\* MilestoneBook.set_state.
SetMilestone(t) ==
    /\ At(t, "milestone")
    /\ LET s == Head(th[t].todo)
       IN  IF ms[th[t].m] \in s.from
           THEN ms' = [ms EXCEPT ![th[t].m] = s.to] /\ Moves(t)
           ELSE UNCHANGED ms /\ IF s.must THEN Ends(t) ELSE Moves(t)
    /\ UNCHANGED <<state, rec, schedule, spent, ledger, pspVars, shelfVars, boundVars>>

\* all(m.state == "released")
Look(t) ==
    /\ At(t, "look")
    /\ IF \A m \in Milestones : ms[m] = "released" THEN Moves(t) ELSE Ends(t)
    /\ UNCHANGED <<orderVars, schedule, spent, ledger, pspVars, shelfVars, boundVars>>

Frozen == \E m \in Milestones : ms[m] = "failed"
MustMilestone(from, to) == [do |-> "milestone", from |-> from, to |-> to, must |-> TRUE]
-----------------------------------------------------------------------------
\* REQUESTS: the read, its refusals, and the steps it leads to

Busy == {t \in Threads : th[t].todo # <<>>}

Begins(t, todo, mem, m, amount) ==
    /\ th[t].todo = <<>> /\ asks < MaxAsks
    /\ asks' = asks + 1
    /\ th' = [th EXCEPT ![t] = [todo |-> todo, mem |-> mem, hold |-> 0, m |-> m,
                                amount |-> amount, undo |-> {}]]
    /\ calm' = (calm /\ Busy = {})
    /\ UNCHANGED <<orderVars, schedule, spent, ledger, pspVars, shelfVars, crashes>>

Begin(t, todo) == Begins(t, todo, rec, 0, 0)

\* Mutant: the ledger is written before the provider is asked.
CaptureStepsLate == <<Do("post_capture"), Do("capture"), Do("charge")>>
CaptureSteps == <<Do("capture"), Do("post_capture"), Do("charge")>>
Extras       == <<Do("find"), Do("commit")>>

PlaceOrder(t) ==
    /\ state = "none"
    /\ Begin(t, <<Do("reserve"), Do("spine"), Do("add"), Do("seed"), Do("authorize"), Do("store"),
                  Set({"payment_authorizing"}, "confirmed")>>)

MarkShipped(t) ==
    state # "none" /\ Begin(t, <<Must({"confirmed"}, "fulfilling"), Do("store")>>)

MarkDelivered(t) ==
    /\ state # "none"
    /\ \E evidence \in BOOLEAN :
          Begins(t, <<Must({"fulfilling"}, "delivered"), Do("store")>> \o
                       (IF evidence THEN CaptureSteps ELSE <<>>),
                 [rec EXCEPT !.at = TRUE], 0, 0)

AttachEvidence(t) ==
    /\ state = "delivered"
    /\ Begin(t, <<Do("store")>> \o (IF rec.charge THEN <<>> ELSE CaptureSteps))

ReleaseSteps == <<Must({"delivered"}, "accepted"), Do("post_release"),
                  Set({"accepted"}, "completed")>> \o Extras

Accept(t) == rec.charge /\ Begin(t, ReleaseSteps)

\* sweep_acceptance_timeouts, for this order.
AutoAccept(t) == state = "delivered" /\ rec.charge /\ rec.at /\ Begin(t, ReleaseSteps)

DeliverMilestone(t, m) ==
    /\ schedule /\ state \in {"confirmed", "fulfilling"} /\ ~Frozen
    /\ Begins(t, <<MustMilestone({"pending"}, "delivered"), Set({"confirmed"}, "fulfilling"),
                   Do("reread")>> \o CaptureSteps, rec, m, 0)

\* Mutant: a failed sibling does not freeze the others.
AcceptUnfrozen(t, m) ==
    /\ ms[m] = "delivered" /\ rec.charge
    /\ Begins(t, <<Do("post_release"),
                   [MustMilestone({"delivered"}, "released") EXCEPT !.must = FALSE],
                   Do("look"), Set({"fulfilling"}, "completed")>> \o Extras, rec, m, 0)

AcceptMilestone(t, m) ==
    /\ ~Frozen /\ ms[m] = "delivered" /\ rec.charge
    /\ Begins(t, <<Do("post_release"),
                   [MustMilestone({"delivered"}, "released") EXCEPT !.must = FALSE],
                   Do("look"), Set({"fulfilling"}, "completed")>> \o Extras, rec, m, 0)

FailMilestone(t, m) ==
    /\ schedule /\ state # "none"
    /\ Begins(t, <<MustMilestone({"pending", "delivered"}, "failed"),
                   Set({"confirmed", "fulfilling"}, "disputed")>>, rec, m, 0)

RefundUnreleased(t) ==
    /\ state = "disputed" /\ rec.charge /\ Unreleased > 0
    /\ Begins(t, <<On("refund", "unreleased"), On("post_refund", "unreleased"), Do("store"),
                   Set({"disputed"}, "resolved")>>, rec, Unreleased, Unreleased)

\* Mutant: a delivered order can still be cancelled.
CancelLate(t) ==
    /\ state # "none"
    /\ Begin(t, <<Must({"payment_authorizing", "confirmed", "delivered"}, "cancellation_pending"),
                  Do("void"), Set({"cancellation_pending"}, "cancelled"), Do("find"), Do("release")>>)

Cancel(t) ==
    /\ state # "none"
    /\ Begin(t, <<Must({"payment_authorizing", "confirmed"}, "cancellation_pending"), Do("void"),
                  Set({"cancellation_pending"}, "cancelled"), Do("find"), Do("release")>>)

RefundOrder(t) ==
    /\ rec.charge
    /\ Begins(t, <<Must({"completed"}, "refund_pending"), On("refund", "refund"), Do("settled"),
                   On("undo", "refund"), Do("store"), Set({"refund_pending"}, "refunded")>>,
              rec, 0, Price)

OpenDispute(t) ==
    state # "none" /\ Begin(t, <<Must({"delivered", "accepted", "completed"}, "disputed")>>)
ResolveDispute(t) == state # "none" /\ Begin(t, <<Must({"disputed"}, "resolved")>>)
-----------------------------------------------------------------------------
\* ADJUDICATION, on the position the ledger shows when the verdict is read

Replace(t) == state = "disputed" /\ Begin(t, <<Set({"disputed"}, "fulfilling")>>)

Remaining == Escrow

\* Entries that do not balance are refused.
Reject(t) ==
    /\ state = "disputed"
    /\ \/ Remaining <= 0 /\ Begin(t, <<Set({"disputed"}, "resolved")>>)
       \/ /\ Remaining > 0 /\ Escrow = Price - Released
          /\ Begins(t, <<Do("post_reject"), Set({"disputed"}, "resolved")>>, rec, 0, Remaining)

FullRefund(t) ==
    /\ state = "disputed" /\ Refunded = 0 /\ Captured > 0 /\ rec.charge
    /\ Begins(t, <<On("refund", "full"), Do("settled"), On("undo", "full"), Do("store"),
                   Set({"disputed"}, "refunded")>>, rec, 0, Captured)

Least(a, b) == IF a < b THEN a ELSE b

\* Mutant: the order goes back to completed, where it may be refunded once more.
PartialReopens(t, award) ==
    /\ state = "disputed" /\ award <= Captured - Refunded /\ rec.charge
    /\ Begins(t, <<On("refund", "partial"), On("post_refund", "partial"), Do("store"),
                   Set({"disputed"}, "completed")>>, rec, Least(award, Remaining), award)

PartialRefund(t, award) ==
    /\ state = "disputed" /\ award <= Captured - Refunded /\ rec.charge
    /\ Begins(t, <<On("refund", "partial"), On("post_refund", "partial"), Do("store"),
                   Set({"disputed"}, "resolved")>>, rec, Least(award, Remaining), award)
-----------------------------------------------------------------------------
\* PROVIDER EVENTS, late and repeated as they come

CapturedEvent(t) ==
    /\ captured /\ state = "accepted"
    /\ Begin(t, CaptureSteps \o <<Set({"accepted"}, "completed")>> \o Extras)

RefundedEvent(t) ==
    /\ \E k \in RefundKeys : back[k] > 0
    /\ state = "refund_pending"
    /\ Begin(t, <<Do("settled"), On("undo", "refund"), Set({"refund_pending"}, "refunded")>>)
-----------------------------------------------------------------------------
Crash ==
    /\ crashes < MaxCrashes /\ Busy # {}
    /\ crashes' = crashes + 1 /\ calm' = FALSE
    /\ th' = [t \in Threads |-> Idle]
    /\ UNCHANGED <<orderVars, schedule, spent, ledger, pspVars, shelfVars, asks>>

Step(t) ==
    \/ SetState(t) \/ Store(t) \/ Charge(t) \/ Reread(t)
    \/ Reserve(t) \/ Authorize(t) \/ Add(t) \/ Seed(t) \/ Pay(t)
    \/ Find(t) \/ Release(t) \/ Commit(t)
    \/ Capture(t) \/ PostCapture(t) \/ PostRelease(t) \/ PostReject(t) \/ PostRefund(t)
    \/ Void(t) \/ Refund(t) \/ Settled(t) \/ Undo(t)
    \/ SetMilestone(t) \/ Look(t)

Request(t) ==
    \/ PlaceOrder(t) \/ MarkShipped(t) \/ MarkDelivered(t) \/ AttachEvidence(t)
    \/ Accept(t) \/ AutoAccept(t) \/ Cancel(t) \/ RefundOrder(t)
    \/ \E m \in Milestones : DeliverMilestone(t, m) \/ AcceptMilestone(t, m) \/ FailMilestone(t, m)
    \/ RefundUnreleased(t) \/ OpenDispute(t) \/ ResolveDispute(t)
    \/ Replace(t) \/ Reject(t) \/ FullRefund(t) \/ \E a \in Awards : PartialRefund(t, a)
    \/ CapturedEvent(t) \/ RefundedEvent(t)

Next ==
    \/ \E t \in Threads : Step(t) \/ Request(t)
    \/ \E r \in Reservations : Expire(r)
    \/ OtherBuys
    \/ Crash

Spec == Init /\ [][Next]_vars
-----------------------------------------------------------------------------
TypeOK ==
    /\ state \in States /\ schedule \in Milestoned
    /\ DOMAIN rec = DOMAIN NoRecord /\ \A f \in DOMAIN rec : rec[f] \in BOOLEAN
    /\ ms \in [Milestones -> {"none", "pending", "delivered", "released", "failed"}]
    /\ {spent, authorized, captured, voided, calm} \subseteq BOOLEAN
    /\ back \in [RefundKeys -> 0 .. Price]
    /\ available \in 0 .. Stock /\ others \in 0 .. Stock
    /\ res \in [Reservations -> {"none", "reserved", "committed", "released"}]
    /\ \A t \in Threads : th[t].m \in -Price * Price .. Price /\ th[t].hold \in Reservations \cup {0}
    /\ asks \in 0 .. MaxAsks /\ crashes \in 0 .. MaxCrashes

\* Units are neither made nor lost: what is on the shelf, in another buyer's hands or under
\* a reservation of this order is the stock, whoever releases, expires or commits it.
Held == {r \in Reservations : res[r] \in {"reserved", "committed"}}
StockConserved == available + others + Cardinality(Held) = Stock

\* The ledger never tells of money the provider has not moved: the capture is posted after
\* the provider captured; and of requests that neither overlap nor die the refunds posted
\* add up to at most what it gave back.
LedgerWithinProvider ==
    /\ Kind("capture") # {} => captured
    /\ calm => Refunded <= SumFunctionOnSet(back, RefundKeys)

\* An order that is cancelled, or being cancelled, has taken no money: under every race of
\* shipping, delivery and cancellation the charge and the cancellation exclude each other.
\* (Not so with milestones: a delivery that read the order before it was cancelled captures.)
NoMoneyWhenCancelled == state \in {"cancelled", "cancellation_pending"} /\ ~schedule => ~captured

\* A cancelled or refunded order stays so, and a resolved one too, whatever request, sweep
\* or late event was under way when it ended.
FinalStays == [][(state \in Final) => state' = state]_vars

\* Requests that neither overlap nor die, and a milestone order that only its milestones
\* and their failure have settled (delivered whole, or judged, it is settled a second time).
Keys == {x.key : x \in ledger}
ByMilestone == {Key("release", "", m) : m \in Milestones} \cup
               {Key("capture", "", 0)} \cup (IF Frozen THEN {Key("unreleased", "", 0)} ELSE {})
OneWay == calm /\ (schedule => ~rec.at /\ Keys \subseteq ByMilestone)

\* Between requests the escrow account is never below zero: no release, award or refund
\* pays out money that an earlier one paid already.
EscrowCovered == OneWay /\ Busy = {} => Escrow >= 0

\* The books agree with the order: a completed order has paid out all of its escrow and
\* kept its cash, a refunded one has given everything back, an order nobody has delivered
\* or that is cancelled has moved nothing; and the buyer is never given back more than was
\* charged, through whichever of the four ways.
BooksSettle ==
    /\ EscrowCovered
    /\ calm => SumFunctionOnSet(back, RefundKeys) <= Price
    /\ calm /\ Busy = {} /\ ~schedule =>
          /\ state = "completed" => Escrow = 0 /\ Cash = Price
          /\ state = "refunded" => Escrow = 0 /\ Cash = 0
          /\ state \in {"none", "confirmed", "cancelled"} => ledger = {}

\* What the failure of a milestone freezes.  An acceptance that had looked for failures
\* before this one was recorded still posts its tranche after it; but those are all: what
\* has been let out of escrow tranche by tranche, or is on its way out, never grows again,
\* whatever is accepted, delivered, put back to fulfilment or judged later.
Tranches  == {m \in Milestones : Key("release", "", m) \in Keys}
LettingGo == {t \in Threads : At(t, "post_release") /\ th[t].m # 0}
LetGo     == Tranches \cup {th[t].m : t \in LettingGo}
FreezeHolds == [][Frozen => LetGo' \subseteq LetGo]_vars

\* refund: an order its milestones completed has no line left that its refund did not reverse.
RefundReversesAll ==
    calm /\ Busy = {} /\ state = "refunded" /\ ~rec.at => Escrow = 0 /\ Cash = 0
==============
