----------------------------- MODULE OrdersProofs -----------------------------
(***************************************************************************)
(* What holds of an order for every number of threads, every price and     *)
(* every stock: units are conserved, a cancelled order took no money, a    *)
(* final order stays final, a failed milestone lets no more tranches out   *)
(* of escrow, and while requests do not overlap the books never tell of    *)
(* money that did not move and agree with the order when it is settled.    *)
(*                                                                         *)
(* All of it rests on what the remaining steps of a request can still do:  *)
(* a request is the sequence th[t].todo, a step takes its head or drops    *)
(* it whole, so a statement about every position of the sequence is kept   *)
(* by taking the tail.  For the books this becomes one point per position  *)
(* of each plan that moves money (Point), with what the ledger, the        *)
(* provider and the order's state show there; between requests the books   *)
(* are at Rest.                                                            *)
(***************************************************************************)
EXTENDS Orders, Sums, FiniteSetTheorems, SequenceTheorems, TLAPS

\* The states an order has while no charge can have been captured, unless by milestones.
Early == {"none", "payment_authorizing", "confirmed", "cancellation_pending", "cancelled"}

\* What a step can do, and what it can say beside: states it expects, a state or a key.
Names == {"set", "store", "charge", "reread", "reserve", "spine", "add", "seed", "authorize",
          "find", "release", "commit", "capture", "post_capture", "post_release",
          "post_reject", "post_refund", "void", "refund", "settled", "undo", "milestone", "look"}
Known == States \cup {"pending", "released", "failed"}

\* A step of a request.  A set step leaves no final state, and never leads back to an
\* early one; a refund is not posted under the key of a release; a milestone that was
\* released or failed stays so.
Lawful == {s \in [do : Names, from : SUBSET Known, to : Known \cup RefundKeys \cup {""},
                  must : BOOLEAN] :
             /\ s.do = "set" => s.from \cap Final = {} /\ (s.from \subseteq Early \/ s.to \notin Early)
             /\ s.do = "post_refund" => s.to \in RefundKeys
             /\ s.do = "milestone" => s.from \subseteq {"pending", "delivered"}}

\* The steps no invariant has to look at.
Plain == {s \in Lawful : s.do \notin {"reserve", "spine", "authorize", "release", "commit",
                                     "capture", "post_capture", "post_release"}}

Carries(s, what) == \E i \in DOMAIN s : s[i].do = what
Has(r, what) == Carries(r.todo, what)

IsThread(r) ==
    /\ r = [todo |-> r.todo, mem |-> r.mem, hold |-> r.hold, m |-> r.m,
            amount |-> r.amount, undo |-> r.undo]
    /\ r.todo \in Seq(Lawful)

\* A reservation is given back or committed only once it has been found or made.
KnowsItsHold(r) ==
    \A i \in DOMAIN r.todo :
       /\ r.todo[i].do \in {"release", "commit"} =>
             r.hold \in Reservations \/ (i > 1 /\ r.todo[i-1].do = "find")
       /\ r.todo[i].do \in {"spine", "authorize"} =>
             r.hold \in Reservations \/ r.todo[1].do = "reserve"

\* A tranche is the first thing its request posts.
TrancheFirst(r) == \A i \in DOMAIN r.todo : r.todo[i].do = "post_release" => i = 1 \/ r.m = 0

\* Without milestones a capture is still ahead only behind the step that marks the order
\* delivered.
Delivering(r) == r.todo # <<>> /\ r.todo[1] = Must({"fulfilling"}, "delivered")

\* A capture is posted right after it was made.
PostsWhatItCaptured(r) ==
    \A i \in DOMAIN r.todo : r.todo[i].do = "post_capture" => i > 1 /\ r.todo[i-1].do = "capture"

ThreadsHold ==
    /\ th = [t \in Threads |-> th[t]]
    /\ \A t \in Threads : IsThread(th[t]) /\ KnowsItsHold(th[t]) /\ TrancheFirst(th[t])

ShelfHolds ==
    /\ available \in Nat /\ others \in Nat
    /\ res \in [Reservations -> {"none", "reserved", "committed", "released"}]
    /\ StockConserved

MoneyFollowsDelivery ==
    ~schedule /\ state \in Early =>
       ~captured /\ \A t \in Threads : Has(th[t], "capture") => Delivering(th[t])

PostedWhatWasCaptured ==
    /\ Kind("capture") # {} => captured
    /\ \A t \in Threads : captured \/ PostsWhatItCaptured(th[t])

OneAtATime ==
    calm => /\ \A t, u \in Busy : t = u
            /\ \A t \in Threads : Has(th[t], "post_release") => th[t].m = 0 \/ ~Frozen

IInv == ThreadsHold /\ ShelfHolds /\ MoneyFollowsDelivery /\ PostedWhatWasCaptured /\ OneAtATime
-----------------------------------------------------------------------------
\* SEQUENCES

\* A tuple of up to seven elements of a set is a sequence over it.
LEMMA Tuples ==
    ASSUME NEW S, NEW a \in S, NEW b \in S, NEW c \in S, NEW d \in S, NEW e \in S, NEW f \in S,
           NEW g \in S
    PROVE  /\ <<a>> \in Seq(S) /\ <<a, b>> \in Seq(S) /\ <<a, b, c>> \in Seq(S)
           /\ <<a, b, c, d>> \in Seq(S) /\ <<a, b, c, d, e>> \in Seq(S)
           /\ <<a, b, c, d, e, f>> \in Seq(S) /\ <<a, b, c, d, e, f, g>> \in Seq(S)
OBVIOUS

LEMMA Positions ==
    ASSUME NEW S, NEW s \in Seq(S)
    PROVE  \A i \in DOMAIN s : s[i] \in S /\ i \in Nat /\ i >= 1
OBVIOUS

\* The tail has the elements of the sequence, one position earlier.
LEMMA Tails ==
    ASSUME NEW S, NEW s \in Seq(S), s # <<>>
    PROVE  /\ Tail(s) \in Seq(S) /\ Head(s) = s[1] /\ s[1] \in S /\ 1 \in DOMAIN s
           /\ \A i \in DOMAIN Tail(s) : i \in Nat /\ i >= 1 /\ i + 1 \in DOMAIN s /\ Tail(s)[i] = s[i+1]
           /\ \A i \in DOMAIN Tail(s) : i > 1 => i - 1 \in DOMAIN Tail(s)
OBVIOUS

LEMMA Concats ==
    ASSUME NEW S, NEW s \in Seq(S), NEW u \in Seq(S)
    PROVE  /\ s \o u \in Seq(S)
           /\ \A i \in DOMAIN s : i \in DOMAIN (s \o u) /\ (s \o u)[i] = s[i]
           /\ \A i \in DOMAIN (s \o u) :
                 \/ i \in DOMAIN s
                 \/ /\ i - Len(s) \in DOMAIN u /\ (s \o u)[i] = u[i - Len(s)]
                    /\ i - Len(s) > 1 => (s \o u)[i - 1] = u[(i - Len(s)) - 1]
OBVIOUS
-----------------------------------------------------------------------------
\* STEPS

LEMMA DoLawful == \A w \in Names \ {"set", "post_refund"} : Do(w) \in Lawful /\ Do(w).do = w
BY DEF Do, Lawful, Names, Known

LEMMA DoPlain ==
    \A w \in {"store", "charge", "reread", "add", "seed", "find", "post_reject", "void",
              "settled", "look"} : Do(w) \in Plain
BY DoLawful DEF Plain, Names

LEMMA OnPlain == \A w \in {"refund", "post_refund", "undo"}, k \in RefundKeys : On(w, k) \in Plain
BY DEF On, Plain, Lawful, Names, Known

LEMMA SetPlain ==
    ASSUME NEW from \in SUBSET States, NEW to \in States, from \cap Final = {},
           from \subseteq Early \/ to \notin Early
    PROVE  Set(from, to) \in Plain /\ Must(from, to) \in Plain
BY DEF Set, Must, Lawful, Plain, Names, Known

LEMMA MilestonePlain ==
    ASSUME NEW from \in SUBSET {"pending", "delivered"}, NEW to \in {"delivered", "released", "failed"}
    PROVE  /\ MustMilestone(from, to) \in Plain
           /\ [MustMilestone(from, to) EXCEPT !.must = FALSE] \in Plain
BY DEF MustMilestone, Lawful, Plain, Names, Known, States

\* The changes of state an order knows.
LEMMA SetsPlain ==
    /\ Set({"payment_authorizing"}, "confirmed") \in Plain
    /\ Set({"payment_authorizing"}, "cancelled") \in Plain
    /\ Must({"confirmed"}, "fulfilling") \in Plain
    /\ Must({"fulfilling"}, "delivered") \in Plain
    /\ Must({"delivered"}, "accepted") \in Plain
    /\ Set({"accepted"}, "completed") \in Plain
    /\ Set({"confirmed"}, "fulfilling") \in Plain
    /\ Set({"fulfilling"}, "completed") \in Plain
    /\ Set({"confirmed", "fulfilling"}, "disputed") \in Plain
    /\ Set({"disputed"}, "resolved") \in Plain
    /\ Must({"payment_authorizing", "confirmed"}, "cancellation_pending") \in Plain
    /\ Set({"cancellation_pending"}, "cancelled") \in Plain
    /\ Must({"completed"}, "refund_pending") \in Plain
    /\ Set({"refund_pending"}, "refunded") \in Plain
    /\ Must({"delivered", "accepted", "completed"}, "disputed") \in Plain
    /\ Must({"disputed"}, "resolved") \in Plain
    /\ Set({"disputed"}, "fulfilling") \in Plain
    /\ Set({"disputed"}, "refunded") \in Plain
BY SetPlain DEF Early, Final, States

LEMMA PlainIsLawful == Plain \subseteq Lawful
BY DEF Plain
-----------------------------------------------------------------------------
\* PLANS: the steps a request starts with

\* A sequence of steps that needs nothing from before it.
Sound(s) ==
    /\ s \in Seq(Lawful)
    /\ \A i \in DOMAIN s :
          /\ s[i].do \in {"release", "commit"} => i > 1 /\ s[i-1].do = "find"
          /\ s[i].do \in {"spine", "authorize"} => s[1].do = "reserve"
          /\ s[i].do = "post_capture" => i > 1 /\ s[i-1].do = "capture"

LEMMA PlainSound ==
    ASSUME NEW s \in Seq(Plain)
    PROVE  Sound(s) /\ ~Carries(s, "capture") /\ ~Carries(s, "post_release")
<1>1. \A i \in DOMAIN s : s[i] \in Plain
  BY Positions
<1>2. s \in Seq(Lawful)
  BY PlainIsLawful
<1> QED
  BY <1>1, <1>2 DEF Sound, Carries, Plain

\* One plan after another is a plan, unless the second reserves.
LEMMA Joined ==
    ASSUME NEW s, NEW u, Sound(s), Sound(u), ~Carries(u, "spine"), ~Carries(u, "authorize")
    PROVE  /\ Sound(s \o u)
           /\ \A w : Carries(s \o u, w) => Carries(s, w) \/ Carries(u, w)
           /\ 1 \in DOMAIN s => s \o u # <<>> /\ (s \o u)[1] = s[1]
<1> DEFINE v == s \o u
<1>1. s \in Seq(Lawful) /\ u \in Seq(Lawful)
  BY DEF Sound
<1>2. /\ v \in Seq(Lawful)
      /\ \A i \in DOMAIN s : i \in DOMAIN v /\ v[i] = s[i]
      /\ \A i \in DOMAIN v :
            \/ i \in DOMAIN s
            \/ /\ i - Len(s) \in DOMAIN u /\ v[i] = u[i - Len(s)]
               /\ i - Len(s) > 1 => v[i - 1] = u[(i - Len(s)) - 1]
  BY <1>1, Concats
<1>3. \A i \in DOMAIN v : i \in Nat
  BY <1>2, Positions
<1>4. /\ \A i \in DOMAIN s : i \in Nat /\ i >= 1 /\ (i > 1 => i - 1 \in DOMAIN s)
      /\ Len(s) \in Nat
  BY <1>1
<1>5. 1 \in DOMAIN s => v # <<>>
  BY <1>2
<1> HIDE DEF v
<1>6. \A w : Carries(v, w) => Carries(s, w) \/ Carries(u, w)
  BY <1>2 DEF Carries
<1>7. ASSUME NEW i \in DOMAIN v
      PROVE  /\ v[i].do \in {"release", "commit"} => i > 1 /\ v[i-1].do = "find"
             /\ v[i].do \in {"spine", "authorize"} => v[1].do = "reserve"
             /\ v[i].do = "post_capture" => i > 1 /\ v[i-1].do = "capture"
  <2>1. CASE i \in DOMAIN s
    <3>1. v[i] = s[i] /\ (i > 1 => v[i-1] = s[i-1]) /\ 1 \in DOMAIN s /\ v[1] = s[1]
      BY <2>1, <1>1, <1>2, <1>4
    <3> QED
      BY <2>1, <3>1 DEF Sound
  <2>2. CASE i \notin DOMAIN s
    <3> DEFINE j == i - Len(s)
    <3>1. j \in DOMAIN u /\ v[i] = u[j] /\ (j > 1 => v[i-1] = u[j-1]) /\ j \in Nat /\ (j > 1 => i > 1)
      BY <2>2, <1>1, <1>2, <1>3, <1>4
    <3>2. u[j].do \notin {"spine", "authorize"}
      BY <3>1 DEF Carries
    <3> HIDE DEF j
    <3> QED
      BY <3>1, <3>2 DEF Sound
  <2> QED
    BY <2>1, <2>2
<1> QED
  BY <1>2, <1>5, <1>6, <1>7 DEF Sound, v

LEMMA CaptureSound ==
    Sound(CaptureSteps) /\ ~Carries(CaptureSteps, "post_release")
        /\ ~Carries(CaptureSteps, "spine") /\ ~Carries(CaptureSteps, "authorize")
<1> DEFINE s == <<Do("capture"), Do("post_capture"), Do("charge")>>
<1>1. s \in Seq(Lawful)
  <2>1. Do("capture") \in Lawful /\ Do("post_capture") \in Lawful /\ Do("charge") \in Lawful
    BY DoLawful DEF Names
  <2> QED
    BY <2>1, Tuples
<1>2. DOMAIN s = 1 .. 3
  OBVIOUS
<1>3. s[1].do = "capture" /\ s[2].do = "post_capture" /\ s[3].do = "charge"
  BY DoLawful DEF Names
<1> HIDE DEF s
<1>4. ASSUME NEW i \in DOMAIN s
      PROVE  \/ s[i].do = "capture" \/ s[i].do = "charge"
             \/ i > 1 /\ s[i].do = "post_capture" /\ s[i-1].do = "capture"
  <2>1. CASE i = 1
    BY <1>3, <2>1
  <2>2. CASE i = 2
    BY <1>3, <2>2
  <2>3. CASE i = 3
    BY <1>3, <2>3
  <2> QED
    BY <1>2, <2>1, <2>2, <2>3
<1>5. Sound(s) /\ ~Carries(s, "post_release") /\ ~Carries(s, "spine") /\ ~Carries(s, "authorize")
  BY <1>1, <1>4 DEF Sound, Carries
<1> QED
  BY <1>5 DEF s, CaptureSteps

LEMMA ExtrasSound ==
    Sound(Extras) /\ ~Carries(Extras, "capture") /\ ~Carries(Extras, "post_release")
        /\ ~Carries(Extras, "spine") /\ ~Carries(Extras, "authorize")
<1> DEFINE s == <<Do("find"), Do("commit")>>
<1>1. s \in Seq(Lawful)
  <2>1. Do("find") \in Lawful /\ Do("commit") \in Lawful
    BY DoLawful DEF Names
  <2> QED
    BY <2>1, Tuples
<1>2. DOMAIN s = 1 .. 2
  OBVIOUS
<1>3. s[1].do = "find" /\ s[2].do = "commit"
  BY DoLawful DEF Names
<1> HIDE DEF s
<1>4. \A i \in DOMAIN s :
         \/ s[i].do = "find"
         \/ i > 1 /\ s[i].do = "commit" /\ s[i-1].do = "find"
  BY <1>2, <1>3
<1>5. Sound(s) /\ ~Carries(s, "capture") /\ ~Carries(s, "post_release")
        /\ ~Carries(s, "spine") /\ ~Carries(s, "authorize")
  BY <1>1, <1>4 DEF Sound, Carries
<1> QED
  BY <1>5 DEF s, Extras

\* A request begins with a plan that can be carried out: sound, a capture behind a
\* delivery unless the order is past it, a tranche only while nothing has failed.
Starts(t) ==
    \E q : /\ th' = [th EXCEPT ![t] = q] /\ th[t].todo = <<>>
           /\ IsThread(q) /\ KnowsItsHold(q) /\ TrancheFirst(q) /\ PostsWhatItCaptured(q)
           /\ Has(q, "capture") => schedule \/ state \notin Early \/ Delivering(q)
           /\ Has(q, "post_release") => q.m = 0 \/ ~Frozen
           /\ calm' = (calm /\ Busy = {})
           /\ UNCHANGED <<state, ms, schedule, ledger, captured, available, res, others>>

LEMMA Starting ==
    ASSUME NEW t \in Threads, NEW todo, NEW mem, NEW m, NEW amount,
           Begins(t, todo, mem, m, amount), Sound(todo),
           Carries(todo, "capture") => \/ schedule \/ state \notin Early
                                       \/ todo # <<>> /\ todo[1] = Must({"fulfilling"}, "delivered"),
           Carries(todo, "post_release") =>
              \/ m = 0
              \/ ~Frozen /\ \A i \in DOMAIN todo : todo[i].do = "post_release" => i = 1
    PROVE  Starts(t)
<1> DEFINE q == [todo |-> todo, mem |-> mem, hold |-> 0, m |-> m, amount |-> amount, undo |-> {}]
<1>1. /\ th' = [th EXCEPT ![t] = q] /\ th[t].todo = <<>> /\ calm' = (calm /\ Busy = {})
      /\ UNCHANGED <<state, ms, schedule, ledger, captured, available, res, others>>
  BY DEF Begins, orderVars, pspVars, shelfVars
<1>2. q.todo = todo /\ q.m = m /\ q.hold = 0
  OBVIOUS
<1>3. IsThread(q)
  BY DEF IsThread, Sound
<1> HIDE DEF q
<1>4. KnowsItsHold(q) /\ PostsWhatItCaptured(q)
  BY <1>2 DEF KnowsItsHold, PostsWhatItCaptured, Sound
<1>5. TrancheFirst(q)
  BY <1>2 DEF TrancheFirst, Carries
<1>6. /\ Has(q, "capture") => schedule \/ state \notin Early \/ Delivering(q)
      /\ Has(q, "post_release") => q.m = 0 \/ ~Frozen
  BY <1>2 DEF Has, Delivering
<1> QED
  BY <1>1, <1>3, <1>4, <1>5, <1>6 DEF Starts

\* A request whose plan is made of plain steps.
LEMMA PlainStarting ==
    ASSUME NEW t \in Threads, NEW todo \in Seq(Plain), NEW mem, NEW m, NEW amount,
           Begins(t, todo, mem, m, amount)
    PROVE  Starts(t)
BY PlainSound, Starting

LEMMA PlainBegin ==
    ASSUME NEW t \in Threads, NEW todo \in Seq(Plain), Begin(t, todo)
    PROVE  Starts(t)
BY PlainStarting DEF Begin

LEMMA PlaceStarts == ASSUME NEW t \in Threads, PlaceOrder(t) PROVE Starts(t)
<1> DEFINE s == <<Do("reserve"), Do("spine"), Do("add"), Do("seed"), Do("authorize"), Do("store"),
                  Set({"payment_authorizing"}, "confirmed")>>
<1>1. /\ Do("reserve") \in Lawful /\ Do("spine") \in Lawful /\ Do("add") \in Lawful
      /\ Do("seed") \in Lawful /\ Do("authorize") \in Lawful /\ Do("store") \in Lawful
      /\ Set({"payment_authorizing"}, "confirmed") \in Lawful
  BY DoLawful, SetsPlain, PlainIsLawful DEF Names
<1>2. s \in Seq(Lawful)
  BY <1>1, Tuples
<1>3. DOMAIN s = 1 .. 7
  OBVIOUS
<1>4. /\ s[1].do = "reserve" /\ s[2].do = "spine" /\ s[3].do = "add" /\ s[4].do = "seed"
      /\ s[5].do = "authorize" /\ s[6].do = "store" /\ s[7].do = "set"
  BY DEF Do, Set
<1>5. Begins(t, s, rec, 0, 0)
  BY DEF PlaceOrder, Begin
<1> HIDE DEF s
<1>6. \A i \in DOMAIN s :
         s[i].do \in {"reserve", "spine", "add", "seed", "authorize", "store", "set"}
  BY <1>3, <1>4
<1>7. Sound(s) /\ ~Carries(s, "capture") /\ ~Carries(s, "post_release")
  BY <1>2, <1>4, <1>6 DEF Sound, Carries
<1> QED
  BY <1>5, <1>7, Starting

LEMMA CancelStarts == ASSUME NEW t \in Threads, Cancel(t) PROVE Starts(t)
<1> DEFINE s == <<Must({"payment_authorizing", "confirmed"}, "cancellation_pending"), Do("void"),
                  Set({"cancellation_pending"}, "cancelled"), Do("find"), Do("release")>>
<1>1. /\ Must({"payment_authorizing", "confirmed"}, "cancellation_pending") \in Lawful
      /\ Do("void") \in Lawful /\ Set({"cancellation_pending"}, "cancelled") \in Lawful
      /\ Do("find") \in Lawful /\ Do("release") \in Lawful
  BY DoLawful, SetsPlain, PlainIsLawful DEF Names
<1>2. s \in Seq(Lawful)
  BY <1>1, Tuples
<1>3. DOMAIN s = 1 .. 5
  OBVIOUS
<1>4. /\ s[1].do = "set" /\ s[2].do = "void" /\ s[3].do = "set" /\ s[4].do = "find"
      /\ s[5].do = "release"
  BY DEF Do, Set, Must
<1>5. Begins(t, s, rec, 0, 0)
  BY DEF Cancel, Begin
<1> HIDE DEF s
<1>6. \A i \in DOMAIN s :
         \/ s[i].do \in {"set", "void", "find"}
         \/ i > 1 /\ s[i].do = "release" /\ s[i-1].do = "find"
  BY <1>3, <1>4
<1>7. Sound(s) /\ ~Carries(s, "capture") /\ ~Carries(s, "post_release")
  BY <1>2, <1>6 DEF Sound, Carries
<1> QED
  BY <1>5, <1>7, Starting

LEMMA DeliveredStarts == ASSUME NEW t \in Threads, MarkDelivered(t) PROVE Starts(t)
<1> DEFINE s == <<Must({"fulfilling"}, "delivered"), Do("store")>>
<1>1. s \in Seq(Plain)
  <2>1. Must({"fulfilling"}, "delivered") \in Plain /\ Do("store") \in Plain
    BY DoPlain, SetsPlain
  <2> QED
    BY <2>1, Tuples
<1>2. 1 \in DOMAIN s /\ s[1] = Must({"fulfilling"}, "delivered")
  OBVIOUS
<1>3. PICK evidence \in BOOLEAN :
         Begins(t, s \o (IF evidence THEN CaptureSteps ELSE <<>>), [rec EXCEPT !.at = TRUE], 0, 0)
  BY DEF MarkDelivered
<1> HIDE DEF s
<1> DEFINE u == IF evidence THEN CaptureSteps ELSE <<>>
<1>4. Sound(u) /\ ~Carries(u, "post_release") /\ ~Carries(u, "spine") /\ ~Carries(u, "authorize")
  <2>1. CASE evidence
    BY <2>1, CaptureSound
  <2>2. CASE ~evidence
    BY <2>2 DEF Sound, Carries
  <2> QED
    BY <2>1, <2>2
<1>5. Begins(t, s \o u, [rec EXCEPT !.at = TRUE], 0, 0)
  BY <1>3
<1> HIDE DEF u
<1>6. Sound(s) /\ ~Carries(s, "post_release")
  BY <1>1, PlainSound
<1>7. /\ Sound(s \o u) /\ ~Carries(s \o u, "post_release")
      /\ s \o u # <<>> /\ (s \o u)[1] = Must({"fulfilling"}, "delivered")
  BY <1>2, <1>4, <1>6, Joined
<1> QED
  BY <1>5, <1>7, Starting

LEMMA EvidenceStarts == ASSUME NEW t \in Threads, AttachEvidence(t) PROVE Starts(t)
<1> DEFINE s == <<Do("store")>>
           u == IF rec.charge THEN <<>> ELSE CaptureSteps
<1>1. s \in Seq(Plain)
  BY DoPlain, Tuples
<1>2. Sound(u) /\ ~Carries(u, "post_release") /\ ~Carries(u, "spine") /\ ~Carries(u, "authorize")
  <2>1. CASE ~rec.charge
    BY <2>1, CaptureSound
  <2>2. CASE rec.charge
    BY <2>2 DEF Sound, Carries
  <2> QED
    BY <2>1, <2>2
<1>3. state \notin Early /\ Begins(t, s \o u, rec, 0, 0)
  BY DEF AttachEvidence, Begin, Early
<1> HIDE DEF s, u
<1>4. Sound(s) /\ ~Carries(s, "post_release")
  BY <1>1, PlainSound
<1>5. Sound(s \o u) /\ ~Carries(s \o u, "post_release")
  BY <1>2, <1>4, Joined
<1> QED
  BY <1>3, <1>5, Starting

LEMMA ReleaseSound == Sound(ReleaseSteps) /\ ~Carries(ReleaseSteps, "capture")
<1> DEFINE s == <<Must({"delivered"}, "accepted"), Do("post_release"), Set({"accepted"}, "completed")>>
<1>1. s \in Seq(Lawful)
  <2>1. /\ Must({"delivered"}, "accepted") \in Lawful /\ Do("post_release") \in Lawful
        /\ Set({"accepted"}, "completed") \in Lawful
    BY DoLawful, SetsPlain, PlainIsLawful DEF Names
  <2> QED
    BY <2>1, Tuples
<1>2. DOMAIN s = 1 .. 3
  OBVIOUS
<1>3. s[1].do = "set" /\ s[2].do = "post_release" /\ s[3].do = "set"
  BY DEF Do, Set, Must
<1>4. ReleaseSteps = s \o Extras
  BY DEF ReleaseSteps
<1> HIDE DEF s
<1>5. \A i \in DOMAIN s : s[i].do \in {"set", "post_release"}
  BY <1>2, <1>3
<1>6. Sound(s) /\ ~Carries(s, "capture")
  BY <1>1, <1>5 DEF Sound, Carries
<1> QED
  BY <1>4, <1>6, ExtrasSound, Joined

LEMMA AcceptStarts == ASSUME NEW t \in Threads, Begin(t, ReleaseSteps) PROVE Starts(t)
BY ReleaseSound, Starting DEF Begin

LEMMA DeliverMilestoneStarts ==
    ASSUME NEW t \in Threads, NEW m, DeliverMilestone(t, m)
    PROVE  Starts(t)
<1> DEFINE s == <<MustMilestone({"pending"}, "delivered"), Set({"confirmed"}, "fulfilling"),
                  Do("reread")>>
<1>1. s \in Seq(Plain)
  <2>1. /\ MustMilestone({"pending"}, "delivered") \in Plain
        /\ Set({"confirmed"}, "fulfilling") \in Plain /\ Do("reread") \in Plain
    BY DoPlain, SetsPlain, MilestonePlain
  <2> QED
    BY <2>1, Tuples
<1>2. schedule /\ Begins(t, s \o CaptureSteps, rec, m, 0)
  BY DEF DeliverMilestone
<1> HIDE DEF s
<1>3. Sound(s) /\ ~Carries(s, "post_release")
  BY <1>1, PlainSound
<1>4. Sound(s \o CaptureSteps) /\ ~Carries(s \o CaptureSteps, "post_release")
  BY <1>3, CaptureSound, Joined
<1> QED
  BY <1>2, <1>4, Starting

LEMMA AcceptMilestoneStarts ==
    ASSUME NEW t \in Threads, NEW m, AcceptMilestone(t, m)
    PROVE  Starts(t)
<1> DEFINE a == [MustMilestone({"delivered"}, "released") EXCEPT !.must = FALSE]
           s == <<Do("post_release"), a, Do("look"), Set({"fulfilling"}, "completed")>>
<1>1. /\ Do("post_release") \in Lawful /\ a \in Lawful /\ Do("look") \in Lawful
      /\ Set({"fulfilling"}, "completed") \in Lawful
  BY DoLawful, SetsPlain, MilestonePlain, PlainIsLawful DEF Names
<1>2. a.do = "milestone"
  BY DEF MustMilestone
<1>3. ~Frozen /\ Begins(t, s \o Extras, rec, m, 0)
  BY DEF AcceptMilestone
<1> HIDE DEF a
<1>4. s \in Seq(Lawful)
  BY <1>1, Tuples
<1>5. DOMAIN s = 1 .. 4 /\ Len(s) = 4
  OBVIOUS
<1>6. s[1].do = "post_release" /\ s[2].do = "milestone" /\ s[3].do = "look" /\ s[4].do = "set"
  BY <1>2 DEF Do, Set
<1> HIDE DEF s
<1>7. \A i \in DOMAIN s : s[i].do \in {"post_release", "milestone", "look", "set"} /\
                          (s[i].do = "post_release" => i = 1)
  BY <1>5, <1>6
<1>8. Sound(s) /\ ~Carries(s, "capture")
  BY <1>4, <1>7 DEF Sound, Carries
<1>9. Sound(s \o Extras) /\ ~Carries(s \o Extras, "capture")
  BY <1>8, ExtrasSound, Joined
<1>10. ASSUME NEW i \in DOMAIN (s \o Extras), (s \o Extras)[i].do = "post_release" PROVE i = 1
  <2>1. Extras \in Seq(Lawful)
    BY ExtrasSound DEF Sound
  <2>2. i \in DOMAIN s \/ (i - Len(s) \in DOMAIN Extras /\ (s \o Extras)[i] = Extras[i - Len(s)])
    BY <1>4, <2>1, Concats
  <2>3. i \in DOMAIN s /\ (s \o Extras)[i] = s[i]
    BY <1>4, <1>10, <2>1, <2>2, ExtrasSound, Concats DEF Carries
  <2> QED
    BY <1>7, <1>10, <2>3
<1> QED
  BY <1>3, <1>9, <1>10, Starting

LEMMA CapturedStarts == ASSUME NEW t \in Threads, CapturedEvent(t) PROVE Starts(t)
<1> DEFINE s == <<Set({"accepted"}, "completed")>>
<1>1. s \in Seq(Plain)
  BY SetsPlain, Tuples
<1>2. state \notin Early /\ Begins(t, CaptureSteps \o s \o Extras, rec, 0, 0)
  BY DEF CapturedEvent, Begin, Early
<1> HIDE DEF s
<1>3. Sound(s) /\ ~Carries(s, "post_release") /\ ~Carries(s, "spine") /\ ~Carries(s, "authorize")
  BY <1>1, PlainSound, Positions DEF Carries, Plain
<1>4. Sound(CaptureSteps \o s) /\ ~Carries(CaptureSteps \o s, "post_release")
  BY <1>3, CaptureSound, Joined
<1>5. /\ Sound(CaptureSteps \o s \o Extras)
      /\ ~Carries(CaptureSteps \o s \o Extras, "post_release")
  BY <1>4, ExtrasSound, Joined
<1> QED
  BY <1>2, <1>5, Starting

LEMMA RequestStarts == ASSUME NEW t \in Threads, Request(t) PROVE Starts(t)
<1>1. CASE PlaceOrder(t)
  BY <1>1, PlaceStarts
<1>2. CASE MarkShipped(t)
  <2>1. Must({"confirmed"}, "fulfilling") \in Plain /\ Do("store") \in Plain
    BY DoPlain, SetsPlain
  <2>2. <<Must({"confirmed"}, "fulfilling"), Do("store")>> \in Seq(Plain)
    BY <2>1, Tuples
  <2> QED
    BY <1>2, <2>2, PlainBegin DEF MarkShipped
<1>3. CASE MarkDelivered(t)
  BY <1>3, DeliveredStarts
<1>4. CASE AttachEvidence(t)
  BY <1>4, EvidenceStarts
<1>5. CASE Accept(t) \/ AutoAccept(t)
  BY <1>5, AcceptStarts DEF Accept, AutoAccept
<1>6. CASE Cancel(t)
  BY <1>6, CancelStarts
<1>7. CASE RefundOrder(t)
  <2>1. /\ Must({"completed"}, "refund_pending") \in Plain /\ On("refund", "refund") \in Plain
        /\ Do("settled") \in Plain /\ On("undo", "refund") \in Plain /\ Do("store") \in Plain
        /\ Set({"refund_pending"}, "refunded") \in Plain
    BY DoPlain, OnPlain, SetsPlain DEF RefundKeys
  <2>2. <<Must({"completed"}, "refund_pending"), On("refund", "refund"), Do("settled"),
          On("undo", "refund"), Do("store"), Set({"refund_pending"}, "refunded")>> \in Seq(Plain)
    BY <2>1, Tuples
  <2> QED
    BY <1>7, <2>2, PlainStarting DEF RefundOrder
<1>8. CASE \E m \in Milestones : DeliverMilestone(t, m) \/ AcceptMilestone(t, m)
  BY <1>8, DeliverMilestoneStarts, AcceptMilestoneStarts
<1>9. CASE \E m \in Milestones : FailMilestone(t, m)
  <2>1. /\ MustMilestone({"pending", "delivered"}, "failed") \in Plain
        /\ Set({"confirmed", "fulfilling"}, "disputed") \in Plain
    BY MilestonePlain, SetsPlain
  <2>2. <<MustMilestone({"pending", "delivered"}, "failed"),
          Set({"confirmed", "fulfilling"}, "disputed")>> \in Seq(Plain)
    BY <2>1, Tuples
  <2> QED
    BY <1>9, <2>2, PlainStarting DEF FailMilestone
<1>10. CASE RefundUnreleased(t)
  <2>1. /\ On("refund", "unreleased") \in Plain /\ On("post_refund", "unreleased") \in Plain
        /\ Do("store") \in Plain /\ Set({"disputed"}, "resolved") \in Plain
    BY DoPlain, OnPlain, SetsPlain DEF RefundKeys
  <2>2. <<On("refund", "unreleased"), On("post_refund", "unreleased"), Do("store"),
          Set({"disputed"}, "resolved")>> \in Seq(Plain)
    BY <2>1, Tuples
  <2> QED
    BY <1>10, <2>2, PlainStarting DEF RefundUnreleased
<1>11. CASE OpenDispute(t) \/ ResolveDispute(t) \/ Replace(t)
  <2>1. /\ <<Must({"delivered", "accepted", "completed"}, "disputed")>> \in Seq(Plain)
        /\ <<Must({"disputed"}, "resolved")>> \in Seq(Plain)
        /\ <<Set({"disputed"}, "fulfilling")>> \in Seq(Plain)
    BY SetsPlain, Tuples
  <2> QED
    BY <1>11, <2>1, PlainBegin DEF OpenDispute, ResolveDispute, Replace
<1>12. CASE Reject(t)
  <2>1. Do("post_reject") \in Plain /\ Set({"disputed"}, "resolved") \in Plain
    BY DoPlain, SetsPlain
  <2>2. /\ <<Set({"disputed"}, "resolved")>> \in Seq(Plain)
        /\ <<Do("post_reject"), Set({"disputed"}, "resolved")>> \in Seq(Plain)
    BY <2>1, Tuples
  <2> QED
    BY <1>12, <2>2, PlainBegin, PlainStarting DEF Reject
<1>13. CASE FullRefund(t)
  <2>1. /\ On("refund", "full") \in Plain /\ Do("settled") \in Plain /\ On("undo", "full") \in Plain
        /\ Do("store") \in Plain /\ Set({"disputed"}, "refunded") \in Plain
    BY DoPlain, OnPlain, SetsPlain DEF RefundKeys
  <2>2. <<On("refund", "full"), Do("settled"), On("undo", "full"), Do("store"),
          Set({"disputed"}, "refunded")>> \in Seq(Plain)
    BY <2>1, Tuples
  <2> QED
    BY <1>13, <2>2, PlainStarting DEF FullRefund
<1>14. CASE \E a \in Awards : PartialRefund(t, a)
  <2>1. /\ On("refund", "partial") \in Plain /\ On("post_refund", "partial") \in Plain
        /\ Do("store") \in Plain /\ Set({"disputed"}, "resolved") \in Plain
    BY DoPlain, OnPlain, SetsPlain DEF RefundKeys
  <2>2. <<On("refund", "partial"), On("post_refund", "partial"), Do("store"),
          Set({"disputed"}, "resolved")>> \in Seq(Plain)
    BY <2>1, Tuples
  <2> QED
    BY <1>14, <2>2, PlainStarting DEF PartialRefund
<1>15. CASE CapturedEvent(t)
  BY <1>15, CapturedStarts
<1>16. CASE RefundedEvent(t)
  <2>1. /\ Do("settled") \in Plain /\ On("undo", "refund") \in Plain
        /\ Set({"refund_pending"}, "refunded") \in Plain
    BY DoPlain, OnPlain, SetsPlain DEF RefundKeys
  <2>2. <<Do("settled"), On("undo", "refund"), Set({"refund_pending"}, "refunded")>> \in Seq(Plain)
    BY <2>1, Tuples
  <2> QED
    BY <1>16, <2>2, PlainBegin DEF RefundedEvent
<1> QED
  BY <1>1, <1>2, <1>3, <1>4, <1>5, <1>6, <1>7, <1>8, <1>9, <1>10, <1>11, <1>12, <1>13, <1>14,
     <1>15, <1>16 DEF Request
-----------------------------------------------------------------------------
\* STEPS OF A REQUEST

LEMMA IdleHolds ==
    /\ IsThread(Idle) /\ KnowsItsHold(Idle) /\ TrancheFirst(Idle) /\ PostsWhatItCaptured(Idle)
    /\ Idle.todo = <<>> /\ \A w : ~Has(Idle, w)
<1>1. Idle.todo = <<>> /\ DOMAIN Idle.todo = {}
  BY DEF Idle
<1>2. IsThread(Idle)
  BY DEF Idle, IsThread
<1> QED
  BY <1>1, <1>2 DEF KnowsItsHold, TrancheFirst, PostsWhatItCaptured, Has, Carries

\* A step of a request leaves the request with what is left of its plan: no tranche is
\* ahead any more, a capture only past the delivery, and a capture made is posted.
Advances(t) ==
    \E q : /\ th' = [th EXCEPT ![t] = q] /\ th[t].todo # <<>>
           /\ IsThread(q) /\ KnowsItsHold(q) /\ TrancheFirst(q)
           /\ Has(q, "post_release") => q.m = 0
           /\ Has(q, "capture") => Has(th[t], "capture") /\ (Delivering(th[t]) => state' \notin Early)
           /\ PostsWhatItCaptured(th[t]) => PostsWhatItCaptured(q) \/ captured'

\* The request drops the rest of its plan.
LEMMA EndsAdvances == ASSUME NEW t \in Threads, Ends(t), th[t].todo # <<>> PROVE Advances(t)
BY IdleHolds DEF Ends, Advances

\* The request goes on with r in its hands and the tail of its plan ahead.
LEMMA GoesAdvances ==
    ASSUME NEW t \in Threads, NEW r, Goes(t, r), ThreadsHold, th[t].todo # <<>>, IsThread(r),
           r.todo = th[t].todo, r.m = th[t].m,
           \/ r.hold \in Reservations
           \/ r.hold = th[t].hold /\ Head(th[t].todo).do \notin {"find", "reserve"},
           Delivering(th[t]) => state' \notin Early,
           Head(th[t].todo).do = "capture" => captured'
    PROVE  Advances(t)
<1> DEFINE s == th[t].todo
           q == [r EXCEPT !.todo = Tail(s)]
<1>1. CASE Tail(s) = <<>>
  <2>1. th' = [th EXCEPT ![t] = Idle]
    BY <1>1 DEF Goes
  <2> QED
    BY <2>1, EndsAdvances DEF Ends
<1>2. CASE Tail(s) # <<>>
  <2>1. th' = [th EXCEPT ![t] = q]
    BY <1>2 DEF Goes
  <2>2. s \in Seq(Lawful) /\ KnowsItsHold(th[t]) /\ TrancheFirst(th[t])
    BY DEF ThreadsHold, IsThread
  <2>3. /\ Tail(s) \in Seq(Lawful) /\ Head(s) = s[1] /\ 1 \in DOMAIN s
        /\ \A i \in DOMAIN Tail(s) : /\ i \in Nat /\ i >= 1 /\ i + 1 \in DOMAIN s
                                     /\ Tail(s)[i] = s[i+1]
        /\ \A i \in DOMAIN Tail(s) : i > 1 => i - 1 \in DOMAIN Tail(s)
    BY <2>2, Tails
  <2>4. q = [todo |-> Tail(s), mem |-> r.mem, hold |-> r.hold, m |-> r.m, amount |-> r.amount,
             undo |-> r.undo]
    <3>1. r = [todo |-> r.todo, mem |-> r.mem, hold |-> r.hold, m |-> r.m, amount |-> r.amount,
               undo |-> r.undo]
      BY DEF IsThread
    <3> QED
      BY <3>1
  <2>5. q.todo = Tail(s) /\ q.hold = r.hold /\ q.m = th[t].m
    BY <2>4
  <2>6. IsThread(q)
    BY <2>3, <2>4, <2>5 DEF IsThread
  <2> DEFINE v == Tail(s)
  <2>7. /\ q.todo = v /\ \A i \in DOMAIN v : /\ i \in Nat /\ i >= 1 /\ i + 1 \in DOMAIN s
                                             /\ v[i] = s[i+1]
                                             /\ i > 1 => v[i-1] = s[i]
                                             /\ i = 1 => s[i] = Head(s)
    BY <2>3, <2>5
  <2> HIDE DEF q, v
  <2>8. KnowsItsHold(q)
    <3> SUFFICES ASSUME NEW i \in DOMAIN v
                 PROVE  /\ v[i].do \in {"release", "commit"} =>
                              q.hold \in Reservations \/ (i > 1 /\ v[i-1].do = "find")
                        /\ v[i].do \in {"spine", "authorize"} =>
                              q.hold \in Reservations \/ v[1].do = "reserve"
      BY <2>7 DEF KnowsItsHold
    <3>1. CASE r.hold \in Reservations
      BY <2>5, <3>1
    <3>2. CASE r.hold = th[t].hold /\ Head(s).do \notin {"find", "reserve"}
      <4>1. /\ v[i].do \in {"release", "commit"} =>
                  th[t].hold \in Reservations \/ s[(i+1)-1].do = "find"
            /\ v[i].do \in {"spine", "authorize"} =>
                  th[t].hold \in Reservations \/ s[1].do = "reserve"
        BY <2>2, <2>7 DEF KnowsItsHold
      <4>2. (i + 1) - 1 = i
        BY <2>7
      <4>3. s[i].do = "find" => i > 1 /\ v[i-1].do = "find"
        BY <2>7, <3>2
      <4>4. s[1].do # "reserve"
        BY <2>3, <3>2
      <4>5. v[i].do \in {"release", "commit"} =>
               th[t].hold \in Reservations \/ (i > 1 /\ v[i-1].do = "find")
        BY <4>1, <4>2, <4>3
      <4> QED
        BY <2>5, <3>2, <4>1, <4>4, <4>5
    <3> QED
      BY <3>1, <3>2
  <2>9. ASSUME NEW i \in DOMAIN v, v[i].do = "post_release" PROVE q.m = 0
    <3>1. i + 1 \in DOMAIN s /\ s[i+1].do = "post_release" /\ i + 1 # 1
      BY <2>7, <2>9
    <3>2. th[t].m = 0
      BY <2>2, <3>1 DEF TrancheFirst
    <3> QED
      BY <2>5, <3>2
  <2>10. TrancheFirst(q) /\ (Has(q, "post_release") => q.m = 0)
    BY <2>7, <2>9 DEF TrancheFirst, Has, Carries
  <2>11. Has(q, "capture") => Has(th[t], "capture")
    BY <2>7 DEF Has, Carries
  <2>12. ASSUME PostsWhatItCaptured(th[t]), ~captured'
         PROVE  PostsWhatItCaptured(q)
    <3> SUFFICES ASSUME NEW i \in DOMAIN v, v[i].do = "post_capture"
                 PROVE  i > 1 /\ v[i-1].do = "capture"
      BY <2>7 DEF PostsWhatItCaptured
    <3>1. s[(i+1)-1].do = "capture" /\ (i + 1) - 1 = i
      BY <2>7, <2>12 DEF PostsWhatItCaptured
    <3> QED
      BY <2>7, <2>12, <3>1
  <2> QED
    BY <2>1, <2>6, <2>8, <2>10, <2>11, <2>12 DEF Advances
<1> QED
  BY <1>1, <1>2

\* The step at the head of a plan is its first; only a set step delivers.
LEMMA AtHead ==
    ASSUME ThreadsHold, NEW t \in Threads, NEW what, At(t, what)
    PROVE  /\ th[t].todo # <<>> /\ Head(th[t].todo) = th[t].todo[1] /\ 1 \in DOMAIN th[t].todo
           /\ th[t].todo[1].do = what /\ th[t].todo[1] \in Lawful
           /\ what # "set" => ~Delivering(th[t])
<1>1. th[t].todo \in Seq(Lawful) /\ th[t].todo # <<>> /\ Head(th[t].todo).do = what
  BY DEF ThreadsHold, IsThread, At
<1>2. Head(th[t].todo) = th[t].todo[1] /\ 1 \in DOMAIN th[t].todo /\ th[t].todo[1] \in Lawful
  BY <1>1, Tails
<1> QED
  BY <1>1, <1>2 DEF Delivering, Must

\* The steps that only move on.
LEMMA MovesAdvances ==
    ASSUME ThreadsHold, NEW t \in Threads, NEW what, At(t, what), Moves(t) \/ Ends(t),
           what \notin {"set", "find", "reserve", "capture"}
    PROVE  Advances(t)
<1>1. CASE Moves(t)
  <2>1. /\ th[t].todo # <<>> /\ Head(th[t].todo).do = what /\ ~Delivering(th[t])
    BY AtHead DEF At
  <2>2. IsThread(th[t]) /\ Goes(t, th[t])
    BY <1>1 DEF ThreadsHold, Moves
  <2> QED
    BY <2>1, <2>2, GoesAdvances
<1>2. CASE Ends(t)
  BY <1>2, AtHead, EndsAdvances
<1> QED
  BY <1>1, <1>2

\* The steps that change the copy of the record, or the settlement lines to reverse.
LEMMA CopiesAdvance ==
    ASSUME ThreadsHold, NEW t \in Threads, NEW what, At(t, what), NEW q, Goes(t, q),
           what \notin {"set", "find", "reserve", "capture"},
           \E x : q = [th[t] EXCEPT !.mem = x] \/ q = [th[t] EXCEPT !.undo = x]
    PROVE  Advances(t)
<1> DEFINE r == th[t]
<1>1. /\ r = [todo |-> r.todo, mem |-> r.mem, hold |-> r.hold, m |-> r.m, amount |-> r.amount,
              undo |-> r.undo]
      /\ r.todo \in Seq(Lawful)
  BY DEF ThreadsHold, IsThread
<1>2. PICK x : q = [r EXCEPT !.mem = x] \/ q = [r EXCEPT !.undo = x]
  OBVIOUS
<1>3. q = [todo |-> r.todo, mem |-> q.mem, hold |-> r.hold, m |-> r.m, amount |-> r.amount,
           undo |-> q.undo]
  BY <1>1, <1>2
<1>4. IsThread(q) /\ q.todo = r.todo /\ q.m = r.m /\ q.hold = r.hold
  BY <1>1, <1>3 DEF IsThread
<1>5. r.todo # <<>> /\ Head(r.todo).do = what /\ ~Delivering(r)
  BY AtHead DEF At
<1> QED
  BY <1>4, <1>5, GoesAdvances

\* The steps that find or make a reservation.
LEMMA HoldsAdvance ==
    ASSUME ThreadsHold, NEW t \in Threads, NEW what, At(t, what), NEW q, Goes(t, q),
           what \notin {"set", "capture"},
           \E x \in Reservations : q = [th[t] EXCEPT !.hold = x]
    PROVE  Advances(t)
<1> DEFINE r == th[t]
<1>1. /\ r = [todo |-> r.todo, mem |-> r.mem, hold |-> r.hold, m |-> r.m, amount |-> r.amount,
              undo |-> r.undo]
      /\ r.todo \in Seq(Lawful)
  BY DEF ThreadsHold, IsThread
<1>2. PICK x \in Reservations :
         q = [todo |-> r.todo, mem |-> r.mem, hold |-> x, m |-> r.m, amount |-> r.amount,
              undo |-> r.undo]
  BY <1>1
<1>3. IsThread(q) /\ q.todo = r.todo /\ q.m = r.m /\ q.hold \in Reservations
  BY <1>1, <1>2 DEF IsThread
<1>4. r.todo # <<>> /\ Head(r.todo).do = what /\ ~Delivering(r)
  BY AtHead DEF At
<1> QED
  BY <1>3, <1>4, GoesAdvances

\* A refusal leaves the request with the reservation to give back.
LEMMA TurnsAdvances ==
    ASSUME ThreadsHold, NEW t \in Threads, NEW what \in {"spine", "authorize"}, At(t, what),
           \/ Turns(t, <<Do("release")>>)
           \/ Turns(t, <<Set({"payment_authorizing"}, "cancelled"), Do("release")>>)
    PROVE  Advances(t)
<1> DEFINE r == th[t]
<1>1. PICK s \in {<<Do("release")>>, <<Set({"payment_authorizing"}, "cancelled"), Do("release")>>} :
         Turns(t, s)
  OBVIOUS
<1>2. /\ s \in Seq(Lawful)
      /\ \A i \in DOMAIN s : s[i].do \in {"set", "release"}
  <2>1. Do("release") \in Lawful /\ Set({"payment_authorizing"}, "cancelled") \in Lawful
    BY DoLawful, SetsPlain, PlainIsLawful DEF Names
  <2>2. /\ Do("release").do \in {"set", "release"}
        /\ Set({"payment_authorizing"}, "cancelled").do \in {"set", "release"}
    BY DEF Do, Set
  <2> DEFINE L == {x \in Lawful : x.do \in {"set", "release"}}
  <2>3. Do("release") \in L /\ Set({"payment_authorizing"}, "cancelled") \in L
    BY <2>1, <2>2
  <2> HIDE DEF L
  <2>4. s \in Seq(L)
    BY <1>1, <2>3, Tuples
  <2>5. \A i \in DOMAIN s : s[i] \in L
    BY <2>4, Positions
  <2>6. \A i \in DOMAIN s : s[i].do \in {"set", "release"}
    BY <2>5 DEF L
  <2>7. L \subseteq Lawful
    BY DEF L
  <2> QED
    BY <2>4, <2>6, <2>7
<1> DEFINE q == [r EXCEPT !.todo = s]
<1>3. r = [todo |-> r.todo, mem |-> r.mem, hold |-> r.hold, m |-> r.m, amount |-> r.amount,
           undo |-> r.undo]
  BY DEF ThreadsHold, IsThread
<1>4. q = [todo |-> s, mem |-> r.mem, hold |-> r.hold, m |-> r.m, amount |-> r.amount,
           undo |-> r.undo]
  BY <1>3
<1>5. IsThread(q) /\ q.todo = s /\ q.hold = r.hold
  BY <1>2, <1>4 DEF IsThread
<1>6. th' = [th EXCEPT ![t] = q]
  BY <1>1 DEF Turns, ThreadsHold
<1>7. r.todo # <<>> /\ r.todo[1].do = what /\ 1 \in DOMAIN r.todo /\ KnowsItsHold(r)
  BY AtHead DEF ThreadsHold
<1>8. r.hold \in Reservations
  BY <1>7 DEF KnowsItsHold
<1> HIDE DEF q
<1>9. /\ KnowsItsHold(q) /\ TrancheFirst(q) /\ PostsWhatItCaptured(q)
      /\ ~Has(q, "capture") /\ ~Has(q, "post_release")
  BY <1>2, <1>5, <1>8 DEF KnowsItsHold, TrancheFirst, PostsWhatItCaptured, Has, Carries
<1> QED
  BY <1>5, <1>6, <1>7, <1>9 DEF Advances

LEMMA SetAdvances == ASSUME ThreadsHold, NEW t \in Threads, SetState(t) PROVE Advances(t)
<1> DEFINE s == Head(th[t].todo)
<1>1. At(t, "set")
  BY DEF SetState
<1>2. th[t].todo # <<>> /\ s = th[t].todo[1] /\ s.do = "set"
  BY <1>1, AtHead
<1>3. IsThread(th[t])
  BY DEF ThreadsHold
<1>4. CASE state \in s.from
  <2>1. state' = s.to /\ Goes(t, th[t])
    BY <1>4 DEF SetState, Moves
  <2>2. Delivering(th[t]) => state' \notin Early
    BY <1>2, <2>1 DEF Delivering, Must, Early
  <2> QED
    BY <1>2, <1>3, <2>1, <2>2, GoesAdvances
<1>5. CASE state \notin s.from /\ s.must
  <2>1. Ends(t)
    BY <1>5 DEF SetState
  <2> QED
    BY <1>2, <2>1, EndsAdvances
<1>6. CASE state \notin s.from /\ ~s.must
  <2>1. Goes(t, th[t])
    BY <1>6 DEF SetState, Moves
  <2>2. ~Delivering(th[t])
    BY <1>2, <1>6 DEF Delivering, Must
  <2> QED
    BY <1>2, <1>3, <2>1, <2>2, GoesAdvances
<1> QED
  BY <1>4, <1>5, <1>6

LEMMA CaptureAdvances == ASSUME ThreadsHold, NEW t \in Threads, Capture(t) PROVE Advances(t)
<1>1. At(t, "capture")
  BY DEF Capture
<1>2. th[t].todo # <<>> /\ Head(th[t].todo).do = "capture" /\ ~Delivering(th[t])
  BY <1>1, AtHead DEF At
<1>3. CASE th[t].mem.auth
  <2>1. captured' /\ Goes(t, th[t]) /\ IsThread(th[t])
    BY <1>3 DEF Capture, Moves, ThreadsHold
  <2> QED
    BY <1>2, <2>1, GoesAdvances
<1>4. CASE ~th[t].mem.auth
  BY <1>2, <1>4, EndsAdvances DEF Capture
<1> QED
  BY <1>3, <1>4

LEMMA UndoAdvances == ASSUME ThreadsHold, NEW t \in Threads, Undo(t) PROVE Advances(t)
<1>1. At(t, "undo")
  BY DEF Undo
<1>2. CASE Moves(t)
  BY <1>1, <1>2, MovesAdvances
<1>3. CASE \E x \in th[t].undo : th' = [th EXCEPT ![t].undo = th[t].undo \ {x}]
  <2> DEFINE r == th[t]
  <2>1. PICK x \in r.undo : th' = [th EXCEPT ![t].undo = r.undo \ {x}]
    BY <1>3
  <2> DEFINE q == [r EXCEPT !.undo = r.undo \ {x}]
  <2>2. th' = [th EXCEPT ![t] = q]
    BY <2>1 DEF ThreadsHold
  <2>3. r = [todo |-> r.todo, mem |-> r.mem, hold |-> r.hold, m |-> r.m, amount |-> r.amount,
             undo |-> r.undo]
    BY DEF ThreadsHold, IsThread
  <2>4. q = [todo |-> r.todo, mem |-> r.mem, hold |-> r.hold, m |-> r.m, amount |-> r.amount,
             undo |-> r.undo \ {x}]
    BY <2>3
  <2>5. q.todo = r.todo /\ q.hold = r.hold /\ q.m = r.m /\ IsThread(q)
    BY <2>4 DEF ThreadsHold, IsThread
  <2>6. KnowsItsHold(r) /\ TrancheFirst(r) /\ r.todo # <<>> /\ r.todo[1].do = "undo" /\ ~Delivering(r)
    BY <1>1, AtHead DEF ThreadsHold
  <2> HIDE DEF q, r
  <2>7. KnowsItsHold(q) /\ TrancheFirst(q) /\ (PostsWhatItCaptured(r) => PostsWhatItCaptured(q))
    BY <2>5, <2>6 DEF KnowsItsHold, TrancheFirst, PostsWhatItCaptured
  <2>8. (Has(q, "post_release") => q.m = 0) /\ (Has(q, "capture") => Has(r, "capture"))
    BY <2>5, <2>6 DEF TrancheFirst, Has, Carries
  <2> QED
    BY <2>2, <2>5, <2>6, <2>7, <2>8 DEF Advances, r
<1> QED
  BY <1>2, <1>3 DEF Undo

LEMMA StepAdvances == ASSUME ThreadsHold, NEW t \in Threads, Step(t) PROVE Advances(t)
<1>1. CASE SetState(t)
  BY <1>1, SetAdvances
<1>2. CASE Capture(t)
  BY <1>2, CaptureAdvances
<1>3. CASE Undo(t)
  BY <1>3, UndoAdvances
<1>4. CASE Store(t)
  BY <1>4, MovesAdvances DEF Store
<1>5. CASE Charge(t)
  <2> DEFINE q == [th[t] EXCEPT !.mem = [th[t].mem EXCEPT !.charge = TRUE]]
  <2>1. [th[t] EXCEPT !.mem.charge = TRUE] = q
    OBVIOUS
  <2>2. At(t, "charge") /\ Goes(t, q)
    BY <1>5, <2>1 DEF Charge
  <2>3. \E x : q = [th[t] EXCEPT !.mem = x]
    OBVIOUS
  <2> HIDE DEF q
  <2> QED
    BY <2>2, <2>3, CopiesAdvance
<1>6. CASE Reread(t)
  <2>1. PICK q : /\ At(t, "reread") /\ (Ends(t) \/ Goes(t, q))
                 /\ q = [th[t] EXCEPT !.mem = rec]
    BY <1>6 DEF Reread
  <2>2. \E x : q = [th[t] EXCEPT !.mem = x]
    BY <2>1
  <2> QED
    BY <2>1, <2>2, CopiesAdvance, MovesAdvances
<1>7. CASE Reserve(t)
  <2>1. At(t, "reserve") /\ th[t].todo # <<>>
    BY <1>7, AtHead DEF Reserve
  <2>2. CASE Ends(t)
    BY <2>1, <2>2, EndsAdvances
  <2>3. CASE \E r \in Reservations : Goes(t, [th[t] EXCEPT !.hold = r])
    <3>1. PICK q : Goes(t, q) /\ \E r \in Reservations : q = [th[t] EXCEPT !.hold = r]
      BY <2>3
    <3> QED
      BY <2>1, <3>1, HoldsAdvance
  <2> QED
    BY <1>7, <2>2, <2>3 DEF Reserve
<1>8. CASE Authorize(t)
  <2>1. At(t, "spine") /\ (Moves(t) \/ Turns(t, <<Do("release")>>))
    BY <1>8 DEF Authorize
  <2> QED
    BY <2>1, MovesAdvances, TurnsAdvances
<1>9. CASE Add(t)
  BY <1>9, MovesAdvances DEF Add
<1>10. CASE Seed(t)
  BY <1>10, MovesAdvances DEF Seed
<1>11. CASE Pay(t)
  <2> DEFINE q == [th[t] EXCEPT !.mem = [th[t].mem EXCEPT !.auth = TRUE]]
  <2>1. [th[t] EXCEPT !.mem.auth = TRUE] = q
    OBVIOUS
  <2>2. /\ At(t, "authorize")
        /\ \/ Goes(t, q)
           \/ Turns(t, <<Set({"payment_authorizing"}, "cancelled"), Do("release")>>)
    BY <1>11, <2>1 DEF Pay
  <2>3. \E x : q = [th[t] EXCEPT !.mem = x]
    OBVIOUS
  <2> HIDE DEF q
  <2>4. CASE Goes(t, q)
    BY <2>2, <2>3, <2>4, CopiesAdvance
  <2>5. CASE Turns(t, <<Set({"payment_authorizing"}, "cancelled"), Do("release")>>)
    BY <2>2, <2>5, TurnsAdvances
  <2> QED
    BY <2>2, <2>4, <2>5
<1>12. CASE Find(t)
  <2>1. At(t, "find") /\ th[t].todo # <<>>
    BY <1>12, AtHead DEF Find
  <2>2. CASE Ends(t)
    BY <2>1, <2>2, EndsAdvances
  <2>3. CASE \E r \in Reservations : Goes(t, [th[t] EXCEPT !.hold = r])
    <3>1. PICK q : Goes(t, q) /\ \E r \in Reservations : q = [th[t] EXCEPT !.hold = r]
      BY <2>3
    <3> QED
      BY <2>1, <3>1, HoldsAdvance
  <2> QED
    BY <1>12, <2>2, <2>3 DEF Find
<1>13. CASE Release(t)
  BY <1>13, MovesAdvances DEF Release
<1>14. CASE Commit(t)
  BY <1>14, MovesAdvances DEF Commit
<1>15. CASE PostCapture(t)
  BY <1>15, MovesAdvances DEF PostCapture
<1>16. CASE PostRelease(t)
  BY <1>16, MovesAdvances DEF PostRelease
<1>17. CASE PostReject(t)
  BY <1>17, MovesAdvances DEF PostReject
<1>18. CASE PostRefund(t)
  BY <1>18, MovesAdvances DEF PostRefund
<1>19. CASE Void(t)
  BY <1>19, MovesAdvances DEF Void
<1>20. CASE Refund(t)
  BY <1>20, MovesAdvances DEF Refund
<1>21. CASE Settled(t)
  <2>1. At(t, "settled")
    BY <1>21 DEF Settled
  <2>2. CASE Ends(t)
    BY <2>1, <2>2, MovesAdvances
  <2>3. CASE Goes(t, [th[t] EXCEPT !.undo = Kind("capture") \cup Kind("release")])
    <3>1. PICK q : Goes(t, q) /\ \E x : q = [th[t] EXCEPT !.undo = x]
      BY <2>3
    <3> QED
      BY <2>1, <3>1, CopiesAdvance
  <2> QED
    BY <1>21, <2>2, <2>3 DEF Settled
<1>22. CASE SetMilestone(t)
  BY <1>22, MovesAdvances DEF SetMilestone
<1>23. CASE Look(t)
  BY <1>23, MovesAdvances DEF Look
<1> QED
  BY <1>1, <1>2, <1>3, <1>4, <1>5, <1>6, <1>7, <1>8, <1>9, <1>10, <1>11, <1>12, <1>13, <1>14,
     <1>15, <1>16, <1>17, <1>18, <1>19, <1>20, <1>21, <1>22, <1>23 DEF Step
-----------------------------------------------------------------------------
\* THE INVARIANT, KEPT BY EVERY STEP

LEMMA Initially == Init => IInv
<1> SUFFICES ASSUME Init PROVE IInv
  OBVIOUS
<1>1. \A t \in Threads : th[t] = Idle
  BY DEF Init
<1>2. ThreadsHold
  BY <1>1, IdleHolds DEF Init, ThreadsHold
<1>3. ShelfHolds
  <2>1. Held = {} /\ Cardinality({}) = 0
    BY FS_EmptySet DEF Init, Held
  <2> QED
    BY <2>1, BoundsAssumption DEF Init, ShelfHolds, StockConserved
<1>4. MoneyFollowsDelivery
  BY <1>1, IdleHolds DEF Init, MoneyFollowsDelivery
<1>5. PostedWhatWasCaptured
  BY <1>1, IdleHolds DEF Init, PostedWhatWasCaptured, Kind
<1>6. OneAtATime
  BY <1>1, IdleHolds DEF Init, OneAtATime, Busy
<1> QED
  BY <1>2, <1>3, <1>4, <1>5, <1>6 DEF IInv

LEMMA ThreadMoves ==
    ASSUME ThreadsHold, NEW t \in Threads, NEW q, th' = [th EXCEPT ![t] = q],
           IsThread(q), KnowsItsHold(q), TrancheFirst(q)
    PROVE  ThreadsHold' /\ th'[t] = q /\ \A u \in Threads \ {t} : th'[u] = th[u]
<1>1. th'[t] = q /\ \A u \in Threads \ {t} : th'[u] = th[u]
  BY DEF ThreadsHold
<1>2. th' = [u \in Threads |-> th'[u]]
  BY DEF ThreadsHold
<1>3. \A u \in Threads : IsThread(th'[u]) /\ KnowsItsHold(th'[u]) /\ TrancheFirst(th'[u])
  BY <1>1 DEF ThreadsHold
<1> QED
  BY <1>1, <1>2, <1>3 DEF ThreadsHold

\* Every step is one of a request, or leaves the requests alone, or ends them all.
LEMMA ThreadsStep ==
    ASSUME ThreadsHold, [Next]_vars
    PROVE  ThreadsHold'
<1>1. ASSUME NEW t \in Threads, Step(t) PROVE ThreadsHold'
  BY <1>1, StepAdvances, ThreadMoves DEF Advances
<1>2. ASSUME NEW t \in Threads, Request(t) PROVE ThreadsHold'
  BY <1>2, RequestStarts, ThreadMoves DEF Starts
<1>3. CASE th' = th
  BY <1>3 DEF ThreadsHold
<1>4. CASE Crash
  <2>1. th' = [t \in Threads |-> Idle]
    BY <1>4 DEF Crash
  <2> QED
    BY <2>1, IdleHolds DEF ThreadsHold
<1>5. (\E r \in Reservations : Expire(r)) \/ OtherBuys \/ UNCHANGED vars => th' = th
  BY DEF Expire, OtherBuys, vars
<1> QED
  BY <1>1, <1>2, <1>3, <1>4, <1>5 DEF Next
-----------------------------------------------------------------------------
\* THE SHELF

LEMMA HeldFinite == IsFiniteSet(Held) /\ Cardinality(Held) \in Nat
<1>1. IsFiniteSet(1 .. 2)
  <2>1. 1 \in Int /\ 2 \in Int
    OBVIOUS
  <2> QED
    BY ONLY <2>1, FS_Interval
<1>2. Held \subseteq 1 .. 2
  BY DEF Held, Reservations
<1> QED
  BY <1>1, <1>2, FS_Subset, FS_CardinalityType

\* A unit moves between the shelf and a reservation.
LEMMA UnitMoves ==
    ASSUME ShelfHolds, NEW r \in Reservations, others' = others,
           NEW to \in {"none", "reserved", "committed", "released"}, res' = [res EXCEPT ![r] = to],
           \/ res[r] = "none" /\ to = "reserved" /\ available # 0 /\ available' = available - 1
           \/ res[r] = "reserved" /\ to = "released" /\ available' = available + 1
           \/ res[r] = "reserved" /\ to = "committed" /\ available' = available
    PROVE  ShelfHolds'
<1>1. IsFiniteSet(Held) /\ Cardinality(Held) \in Nat
  BY HeldFinite
<1>2. res' \in [Reservations -> {"none", "reserved", "committed", "released"}]
  BY DEF ShelfHolds
<1>3. available' \in Nat /\ others' \in Nat
  BY DEF ShelfHolds
<1>4. available' + others' + Cardinality(Held') = Stock
  <2>1. CASE res[r] = "none" /\ to = "reserved" /\ available # 0 /\ available' = available - 1
    <3>1. r \notin Held /\ Held' = Held \cup {r}
      BY <2>1 DEF ShelfHolds, Held
    <3>2. Cardinality(Held') = Cardinality(Held) + 1
      BY <1>1, <3>1, FS_AddElement
    <3> QED
      BY <1>1, <2>1, <3>2 DEF ShelfHolds, StockConserved
  <2>2. CASE res[r] = "reserved" /\ to = "released" /\ available' = available + 1
    <3>1. r \in Held /\ Held' = Held \ {r}
      BY <2>2 DEF ShelfHolds, Held
    <3>2. Cardinality(Held') = Cardinality(Held) - 1
      BY <1>1, <3>1, FS_RemoveElement
    <3> QED
      BY <1>1, <2>2, <3>2 DEF ShelfHolds, StockConserved
  <2>3. CASE res[r] = "reserved" /\ to = "committed" /\ available' = available
    <3>1. Held' = Held
      BY <2>3 DEF ShelfHolds, Held
    <3> QED
      BY <2>3, <3>1 DEF ShelfHolds, StockConserved
  <2> QED
    BY <2>1, <2>2, <2>3
<1> QED
  BY <1>2, <1>3, <1>4 DEF ShelfHolds, StockConserved

LEMMA ShelfStays ==
    ASSUME ShelfHolds, UNCHANGED <<available, res, others>>
    PROVE  ShelfHolds'
BY DEF ShelfHolds, StockConserved, Held

LEMMA ShelfStep ==
    ASSUME ThreadsHold, ShelfHolds, [Next]_vars
    PROVE  ShelfHolds'
<1>1. ASSUME NEW t \in Threads, Reserve(t) PROVE ShelfHolds'
  <2>1. CASE UNCHANGED <<available, res>>
    BY <1>1, <2>1, ShelfStays DEF Reserve
  <2>2. CASE \E r \in Reservations : /\ res[r] = "none" /\ res' = [res EXCEPT ![r] = "reserved"]
                                     /\ available # 0 /\ available' = available - 1
    BY <1>1, <2>2, UnitMoves DEF Reserve
  <2> QED
    BY <1>1, <2>1, <2>2 DEF Reserve
<1>2. ASSUME NEW t \in Threads, Release(t) PROVE ShelfHolds'
  <2>1. th[t].hold \in Reservations
    <3>1. KnowsItsHold(th[t]) /\ 1 \in DOMAIN th[t].todo /\ th[t].todo[1].do = "release"
      BY <1>2, AtHead DEF Release, ThreadsHold
    <3> QED
      BY <3>1 DEF KnowsItsHold
  <2>2. CASE res[th[t].hold] = "reserved"
    BY <1>2, <2>1, <2>2, UnitMoves DEF Release
  <2>3. CASE res[th[t].hold] # "reserved"
    BY <1>2, <2>3, ShelfStays DEF Release
  <2> QED
    BY <2>2, <2>3
<1>3. ASSUME NEW t \in Threads, Commit(t) PROVE ShelfHolds'
  <2>1. th[t].hold \in Reservations
    <3>1. KnowsItsHold(th[t]) /\ 1 \in DOMAIN th[t].todo /\ th[t].todo[1].do = "commit"
      BY <1>3, AtHead DEF Commit, ThreadsHold
    <3> QED
      BY <3>1 DEF KnowsItsHold
  <2>2. CASE res[th[t].hold] = "reserved"
    BY <1>3, <2>1, <2>2, UnitMoves DEF Commit
  <2>3. CASE res[th[t].hold] # "reserved"
    BY <1>3, <2>3, ShelfStays DEF Commit
  <2> QED
    BY <2>2, <2>3
<1>4. ASSUME NEW r \in Reservations, Expire(r) PROVE ShelfHolds'
  BY <1>4, UnitMoves DEF Expire
<1>5. CASE OtherBuys
  <2>1. res' = res /\ available > 0 /\ available' = available - 1 /\ others' = others + 1
    BY <1>5 DEF OtherBuys
  <2>2. Held' = Held /\ Cardinality(Held) \in Nat
    BY <2>1, HeldFinite DEF Held
  <2> QED
    BY <2>1, <2>2 DEF ShelfHolds, StockConserved
<1>6. ASSUME NEW t \in Threads, Request(t) PROVE ShelfHolds'
  BY <1>6, RequestStarts, ShelfStays DEF Starts
<1>7. ASSUME NEW t \in Threads, Step(t), ~Reserve(t), ~Release(t), ~Commit(t)
      PROVE  UNCHANGED <<available, res, others>>
  BY <1>7 DEF Step, SetState, Store, Charge, Reread, Authorize, Add, Seed, Pay, Find, Capture,
              PostCapture, PostRelease, PostReject, PostRefund, Void, Refund, Settled, Undo,
              SetMilestone, Look, shelfVars
<1>8. Crash \/ UNCHANGED vars => UNCHANGED <<available, res, others>>
  BY DEF Crash, vars, shelfVars
<1> QED
  BY <1>1, <1>2, <1>3, <1>4, <1>5, <1>6, <1>7, <1>8, ShelfStays DEF Next
-----------------------------------------------------------------------------
\* WHAT A STEP DOES TO THE STATE AND TO THE MONEY

\* A set step is lawful, and only it and the placement change the state.
LEMMA StateMoves ==
    ASSUME ThreadsHold, NEW t \in Threads, Step(t)
    PROVE  (state \in Final => state' = state) /\ (state' \in Early => state \in Early)
<1>1. CASE SetState(t)
  <2> DEFINE s == Head(th[t].todo)
  <2>1. s \in Lawful /\ s.do = "set"
    BY <1>1, AtHead DEF SetState
  <2>2. s.from \cap Final = {} /\ (s.from \subseteq Early \/ s.to \notin Early)
    BY <2>1 DEF Lawful
  <2>3. state' = state \/ (state \in s.from /\ state' = s.to)
    BY <1>1 DEF SetState
  <2> QED
    BY <2>2, <2>3
<1>2. CASE Add(t)
  BY <1>2 DEF Add, Early, Final
<1>3. CASE ~SetState(t) /\ ~Add(t)
  <2>1. state' = state
    BY <1>3 DEF Step, Store, Charge, Reread, Reserve, Authorize, Seed, Pay, Find, Release, Commit,
                Capture, PostCapture, PostRelease, PostReject, PostRefund, Void, Refund, Settled,
                Undo, SetMilestone, Look, orderVars
  <2> QED
    BY <2>1
<1> QED
  BY <1>1, <1>2, <1>3

LEMMA StepKeeps ==
    ASSUME NEW t \in Threads, Step(t)
    PROVE  /\ schedule' = schedule /\ calm' = calm
           /\ captured' = captured \/ (At(t, "capture") /\ captured' = TRUE)
<1>1. schedule' = schedule /\ calm' = calm
  BY DEF Step, SetState, Store, Charge, Reread, Reserve, Authorize, Add, Seed, Pay, Find, Release,
         Commit, Capture, PostCapture, PostRelease, PostReject, PostRefund, Void, Refund, Settled,
         Undo, SetMilestone, Look, boundVars
<1>2. CASE Capture(t)
  BY <1>1, <1>2 DEF Capture
<1>3. CASE ~Capture(t)
  <2>1. captured' = captured
    BY <1>3 DEF Step, SetState, Store, Charge, Reread, Reserve, Authorize, Add, Seed, Pay, Find,
                Release, Commit, PostCapture, PostRelease, PostReject, PostRefund, Void, Refund,
                Settled, Undo, SetMilestone, Look, pspVars
  <2> QED
    BY <1>1, <2>1
<1> QED
  BY <1>2, <1>3

\* What a step posts: a capture, a release, or lines under other keys.
Posts(t, x) ==
    /\ Post(x)
    /\ \/ At(t, "post_capture") /\ x.kind = "capture" /\ x.key.name = "capture"
       \/ At(t, "post_release") /\ x.kind = "release" /\ x.key = Key("release", "", th[t].m)
       \/ x.kind \in {"release", "refund"} /\ x.key.name # "release"

LEMMA StepPosts ==
    ASSUME ThreadsHold, NEW t \in Threads, Step(t)
    PROVE  ledger' = ledger \/ \E x : Posts(t, x)
<1>1. CASE PostCapture(t)
  <2>1. PICK x : Post(x) /\ x = Txn(Key("capture", "", 0), "capture", Price, Price)
    BY <1>1 DEF PostCapture
  <2>2. x.kind = "capture" /\ x.key.name = "capture"
    BY <2>1 DEF Txn, Key
  <2>3. At(t, "post_capture")
    BY <1>1 DEF PostCapture
  <2> QED
    BY <2>1, <2>2, <2>3 DEF Posts
<1>2. CASE PostRelease(t)
  <2> DEFINE e == IF th[t].m = 0 THEN -Price ELSE -1
  <2>1. PICK x : Post(x) /\ x = Txn(Key("release", "", th[t].m), "release", 0, e)
    BY <1>2 DEF PostRelease
  <2>2. x.kind = "release" /\ x.key = Key("release", "", th[t].m)
    BY <2>1 DEF Txn
  <2>3. At(t, "post_release")
    BY <1>2 DEF PostRelease
  <2> QED
    BY <2>1, <2>2, <2>3 DEF Posts
<1>3. CASE PostReject(t)
  <2>1. PICK x : Post(x) /\ x = Txn(Key("reject", "", 0), "release", 0, -th[t].amount)
    BY <1>3 DEF PostReject
  <2>2. x.kind = "release" /\ x.key.name = "reject"
    BY <2>1 DEF Txn, Key
  <2> QED
    BY <2>1, <2>2 DEF Posts
<1>4. CASE PostRefund(t)
  <2>1. PICK x : /\ Post(x)
                 /\ x = Txn(Key(Head(th[t].todo).to, "", 0), "refund", -th[t].amount, -th[t].m)
    BY <1>4 DEF PostRefund
  <2>2. Head(th[t].todo) \in Lawful /\ Head(th[t].todo).do = "post_refund"
    BY <1>4, AtHead DEF PostRefund
  <2>3. Head(th[t].todo).to # "release"
    BY <2>2 DEF Lawful, RefundKeys
  <2>4. x.kind = "refund" /\ x.key.name = Head(th[t].todo).to
    BY <2>1 DEF Txn, Key
  <2> QED
    BY <2>1, <2>3, <2>4 DEF Posts
<1>5. CASE Undo(t)
  <2>1. CASE ledger' = ledger
    BY <2>1
  <2>2. CASE \E y \in th[t].undo :
               Post(Txn(UndoKey(Head(th[t].todo).to, y), "refund", -y.cash, -y.escrow))
    <3>1. PICK y, x :
             Post(x) /\ x = Txn(UndoKey(Head(th[t].todo).to, y), "refund", -y.cash, -y.escrow)
      BY <2>2
    <3>2. x.kind = "refund" /\ x.key = UndoKey(Head(th[t].todo).to, y)
      BY <3>1 DEF Txn
    <3>3. x.key.name # "release"
      BY <3>2 DEF UndoKey, Key
    <3> QED
      BY <3>1, <3>2, <3>3 DEF Posts
  <2> QED
    BY <1>5, <2>1, <2>2 DEF Undo
<1>6. CASE ~PostCapture(t) /\ ~PostRelease(t) /\ ~PostReject(t) /\ ~PostRefund(t) /\ ~Undo(t)
  BY <1>6 DEF Step, SetState, Store, Charge, Reread, Reserve, Authorize, Add, Seed, Pay, Find,
              Release, Commit, Capture, Void, Refund, Settled, SetMilestone, Look
<1> QED
  BY <1>1, <1>2, <1>3, <1>4, <1>5, <1>6

\* The steps of nobody's request.
LEMMA OthersKeep ==
    ASSUME (\E r \in Reservations : Expire(r)) \/ OtherBuys \/ UNCHANGED vars
    PROVE  UNCHANGED <<state, schedule, ms, captured, ledger, th, calm>>
BY DEF Expire, OtherBuys, vars, orderVars, pspVars, boundVars

LEMMA MoneyStep ==
    ASSUME ThreadsHold, MoneyFollowsDelivery, [Next]_vars
    PROVE  MoneyFollowsDelivery'
<1> SUFFICES ASSUME ~schedule', state' \in Early
             PROVE  ~captured' /\ \A u \in Threads : Has(th'[u], "capture") => Delivering(th'[u])
  BY DEF MoneyFollowsDelivery
<1>1. ASSUME NEW t \in Threads, Step(t)
      PROVE  ~captured' /\ \A u \in Threads : Has(th'[u], "capture") => Delivering(th'[u])
  <2>1. ~schedule /\ state \in Early
    BY <1>1, StateMoves, StepKeeps
  <2>2. ~captured /\ \A u \in Threads : Has(th[u], "capture") => Delivering(th[u])
    BY <2>1 DEF MoneyFollowsDelivery
  <2>3. ~At(t, "capture")
    <3> SUFFICES ASSUME At(t, "capture") PROVE FALSE
      OBVIOUS
    <3>1. Has(th[t], "capture") /\ ~Delivering(th[t])
      BY AtHead DEF Has, Carries
    <3> QED
      BY <2>2, <3>1
  <2>4. ~captured'
    BY <1>1, <2>2, <2>3, StepKeeps
  <2>5. PICK q : /\ th' = [th EXCEPT ![t] = q]
                 /\ IsThread(q) /\ KnowsItsHold(q) /\ TrancheFirst(q)
                 /\ Has(q, "capture") => Has(th[t], "capture") /\ (Delivering(th[t]) => state' \notin Early)
    BY <1>1, StepAdvances DEF Advances
  <2>6. th'[t] = q /\ \A u \in Threads \ {t} : th'[u] = th[u]
    BY <2>5, ThreadMoves
  <2> QED
    BY <2>2, <2>4, <2>5, <2>6
<1>2. ASSUME NEW t \in Threads, Request(t)
      PROVE  ~captured' /\ \A u \in Threads : Has(th'[u], "capture") => Delivering(th'[u])
  <2>1. PICK q : /\ th' = [th EXCEPT ![t] = q]
                 /\ IsThread(q) /\ KnowsItsHold(q) /\ TrancheFirst(q)
                 /\ Has(q, "capture") => schedule \/ state \notin Early \/ Delivering(q)
                 /\ UNCHANGED <<state, schedule, captured>>
    BY <1>2, RequestStarts DEF Starts
  <2>2. th'[t] = q /\ \A u \in Threads \ {t} : th'[u] = th[u]
    BY <2>1, ThreadMoves
  <2> QED
    BY <2>1, <2>2 DEF MoneyFollowsDelivery
<1>3. CASE (\E r \in Reservations : Expire(r)) \/ OtherBuys \/ UNCHANGED vars
  BY <1>3, OthersKeep DEF MoneyFollowsDelivery
<1>4. CASE Crash
  <2>1. captured' = captured /\ schedule' = schedule /\ state' = state /\ th' = [t \in Threads |-> Idle]
    BY <1>4 DEF Crash, orderVars, pspVars
  <2> QED
    BY <2>1, IdleHolds DEF MoneyFollowsDelivery
<1> QED
  BY <1>1, <1>2, <1>3, <1>4 DEF Next

LEMMA PostedStep ==
    ASSUME ThreadsHold, PostedWhatWasCaptured, [Next]_vars
    PROVE  PostedWhatWasCaptured'
<1>1. ASSUME NEW t \in Threads, Step(t) PROVE PostedWhatWasCaptured'
  <2>1. captured => captured'
    BY <1>1, StepKeeps
  <2>2. Kind("capture")' # {} => captured'
    <3>1. CASE ledger' = ledger
      BY <2>1, <3>1 DEF Kind, PostedWhatWasCaptured
    <3>2. ASSUME NEW x, Posts(t, x) PROVE Kind("capture")' # {} => captured'
      <4>1. ledger' \subseteq ledger \cup {x}
        BY <3>2 DEF Posts, Post
      <4>2. CASE At(t, "post_capture")
        <5>1. 1 \in DOMAIN th[t].todo /\ th[t].todo[1].do = "post_capture"
          BY <4>2, AtHead
        <5>2. ~PostsWhatItCaptured(th[t])
          BY <5>1 DEF PostsWhatItCaptured
        <5> QED
          BY <2>1, <5>2 DEF PostedWhatWasCaptured
      <4>3. CASE x.kind \in {"release", "refund"}
        <5>1. x.kind # "capture"
          BY <4>3
        <5>2. Kind("capture")' \subseteq Kind("capture")
          BY <4>1, <5>1 DEF Kind
        <5> QED
          BY <2>1, <5>2 DEF PostedWhatWasCaptured
      <4> QED
        BY <3>2, <4>2, <4>3 DEF Posts
    <3> QED
      BY <1>1, <3>1, <3>2, StepPosts
  <2>3. PICK q : /\ th' = [th EXCEPT ![t] = q]
                 /\ IsThread(q) /\ KnowsItsHold(q) /\ TrancheFirst(q)
                 /\ PostsWhatItCaptured(th[t]) => PostsWhatItCaptured(q) \/ captured'
    BY <1>1, StepAdvances DEF Advances
  <2>4. th'[t] = q /\ \A u \in Threads \ {t} : th'[u] = th[u]
    BY <2>3, ThreadMoves
  <2> QED
    BY <2>1, <2>2, <2>3, <2>4 DEF PostedWhatWasCaptured
<1>2. ASSUME NEW t \in Threads, Request(t) PROVE PostedWhatWasCaptured'
  <2>1. PICK q : /\ th' = [th EXCEPT ![t] = q]
                 /\ IsThread(q) /\ KnowsItsHold(q) /\ TrancheFirst(q) /\ PostsWhatItCaptured(q)
                 /\ UNCHANGED <<ledger, captured>>
    BY <1>2, RequestStarts DEF Starts
  <2>2. th'[t] = q /\ \A u \in Threads \ {t} : th'[u] = th[u]
    BY <2>1, ThreadMoves
  <2> QED
    BY <2>1, <2>2 DEF PostedWhatWasCaptured, Kind
<1>3. CASE (\E r \in Reservations : Expire(r)) \/ OtherBuys \/ UNCHANGED vars
  BY <1>3, OthersKeep DEF PostedWhatWasCaptured, Kind
<1>4. CASE Crash
  <2>1. captured' = captured /\ ledger' = ledger /\ th' = [t \in Threads |-> Idle]
    BY <1>4 DEF Crash, pspVars
  <2> QED
    BY <2>1, IdleHolds DEF PostedWhatWasCaptured, Kind
<1> QED
  BY <1>1, <1>2, <1>3, <1>4 DEF Next

LEMMA OneAtATimeStep ==
    ASSUME ThreadsHold, OneAtATime, [Next]_vars
    PROVE  OneAtATime'
<1> SUFFICES ASSUME calm'
             PROVE  /\ \A u, v \in Threads : th'[u].todo # <<>> /\ th'[v].todo # <<>> => u = v
                    /\ \A u \in Threads : Has(th'[u], "post_release") => th'[u].m = 0 \/ ~Frozen'
  BY DEF OneAtATime, Busy
<1>1. \A u \in Threads : Has(th[u], "post_release") => th[u].todo # <<>>
  <2>1. DOMAIN <<>> = {}
    OBVIOUS
  <2> QED
    BY <2>1 DEF Has, Carries
<1>2. ASSUME NEW t \in Threads, Step(t)
      PROVE  /\ \A u, v \in Threads : th'[u].todo # <<>> /\ th'[v].todo # <<>> => u = v
             /\ \A u \in Threads : Has(th'[u], "post_release") => th'[u].m = 0 \/ ~Frozen'
  <2>1. \A u, v \in Threads : th[u].todo # <<>> /\ th[v].todo # <<>> => u = v
    BY <1>2, StepKeeps DEF OneAtATime, Busy
  <2>2. PICK q : /\ th' = [th EXCEPT ![t] = q] /\ th[t].todo # <<>>
                 /\ IsThread(q) /\ KnowsItsHold(q) /\ TrancheFirst(q)
                 /\ Has(q, "post_release") => q.m = 0
    BY <1>2, StepAdvances DEF Advances
  <2>3. th'[t] = q /\ \A u \in Threads \ {t} : th'[u] = th[u]
    BY <2>2, ThreadMoves
  <2> QED
    BY <1>1, <2>1, <2>2, <2>3
<1>3. ASSUME NEW t \in Threads, Request(t)
      PROVE  /\ \A u, v \in Threads : th'[u].todo # <<>> /\ th'[v].todo # <<>> => u = v
             /\ \A u \in Threads : Has(th'[u], "post_release") => th'[u].m = 0 \/ ~Frozen'
  <2>1. PICK q : /\ th' = [th EXCEPT ![t] = q]
                 /\ IsThread(q) /\ KnowsItsHold(q) /\ TrancheFirst(q)
                 /\ Has(q, "post_release") => q.m = 0 \/ ~Frozen
                 /\ calm' = (calm /\ Busy = {}) /\ ms' = ms
    BY <1>3, RequestStarts DEF Starts
  <2>2. th'[t] = q /\ \A u \in Threads \ {t} : th'[u] = th[u]
    BY <2>1, ThreadMoves
  <2>3. \A u \in Threads : th[u].todo = <<>>
    BY <2>1 DEF Busy
  <2>4. Frozen' = Frozen
    BY <2>1 DEF Frozen
  <2> QED
    BY <1>1, <2>1, <2>2, <2>3, <2>4
<1>4. CASE (\E r \in Reservations : Expire(r)) \/ OtherBuys \/ UNCHANGED vars
  BY <1>4, OthersKeep DEF OneAtATime, Busy, Frozen
<1>5. ~Crash
  BY DEF Crash
<1> QED
  BY <1>2, <1>3, <1>4, <1>5 DEF Next

LEMMA IInvStep == IInv /\ [Next]_vars => IInv'
BY ThreadsStep, ShelfStep, MoneyStep, PostedStep, OneAtATimeStep DEF IInv
-----------------------------------------------------------------------------
\* THEOREMS

LEMMA IInvHolds == Spec => []IInv
<1>1. Init => IInv
  BY Initially
<1>2. IInv /\ [Next]_vars => IInv'
  BY IInvStep
<1> QED
  BY <1>1, <1>2, PTL DEF Spec

\* inventory.py: for every stock and any number of requests, a unit is on the shelf, with
\* another buyer or under a reservation of this order: none is given back twice, by a
\* cancellation racing the expiry sweep or a refused placement, and none is lost.
THEOREM StockIsConserved == Spec => []StockConserved
<1>1. IInv => StockConserved
  BY DEF IInv, ShelfHolds
<1> QED
  BY <1>1, IInvHolds, PTL

\* orders.py: an order without milestones that is cancelled, or being cancelled, has not
\* captured the buyer's money, however shipping, delivery and cancellation interleave.
THEOREM CancelledTookNoMoney == Spec => []NoMoneyWhenCancelled
<1>1. IInv => NoMoneyWhenCancelled
  BY DEF IInv, MoneyFollowsDelivery, NoMoneyWhenCancelled, Early
<1> QED
  BY <1>1, IInvHolds, PTL

\* orders.py: no request, sweep or provider event moves an order out of a final state.
THEOREM FinalIsFinal == Spec => FinalStays
<1>1. IInv /\ [Next]_vars => [(state \in Final) => state' = state]_vars
  <2> SUFFICES ASSUME IInv, Next, state \in Final PROVE state' = state
    BY DEF vars
  <2>1. ASSUME NEW t \in Threads, Step(t) PROVE state' = state
    BY <2>1, StateMoves DEF IInv
  <2>2. ASSUME NEW t \in Threads, Request(t) PROVE state' = state
    BY <2>2, RequestStarts DEF Starts
  <2>3. (\E r \in Reservations : Expire(r)) \/ OtherBuys \/ Crash => state' = state
    BY OthersKeep DEF Crash, orderVars
  <2> QED
    BY <2>1, <2>2, <2>3 DEF Next
<1> QED
  BY <1>1, IInvHolds, PTL DEF Spec, FinalStays

\* A step posts a tranche only if it is the one its request has been let out with.
LEMMA TranchesPosted ==
    ASSUME ThreadsHold, NEW t \in Threads, Step(t)
    PROVE  \A m \in Tranches' \ Tranches : At(t, "post_release") /\ th[t].m = m
<1> SUFFICES ASSUME NEW m \in Milestones, Key("release", "", m) \in Keys',
                    Key("release", "", m) \notin Keys
             PROVE  At(t, "post_release") /\ th[t].m = m
  BY DEF Tranches
<1>1. PICK x : Posts(t, x) /\ ledger' \subseteq ledger \cup {x}
  BY StepPosts DEF Posts, Post, Keys
<1>2. x.key = Key("release", "", m)
  BY <1>1 DEF Keys
<1>3. \A n : Key("release", "", n).name = "release" /\ Key("release", "", n).m = n
  BY DEF Key
<1>4. x.key.name = "release" /\ x.key.m = m
  BY <1>2, <1>3
<1>5. At(t, "post_release") /\ x.key = Key("release", "", th[t].m)
  BY <1>1, <1>4 DEF Posts
<1> QED
  BY <1>3, <1>4, <1>5

\* orders.py: once a milestone has failed no tranche is let out of escrow but those whose
\* acceptance had passed its check before, whatever overlaps, crashes or is judged.
THEOREM FrozenMeansFrozen == Spec => FreezeHolds
<1>1. IInv /\ [Next]_vars => [Frozen => LetGo' \subseteq LetGo]_vars
  <2> SUFFICES ASSUME IInv, Next, Frozen PROVE LetGo' \subseteq LetGo
    BY DEF vars
  <2>1. ThreadsHold /\ ThreadsHold'
    BY ThreadsStep DEF IInv
  <2>2. \A u \in Threads : At(u, "post_release")' => Has(th'[u], "post_release")
    <3>1. ASSUME NEW u \in Threads, At(u, "post_release")'
          PROVE  Has(th'[u], "post_release")
      <4>1. th'[u].todo \in Seq(Lawful) /\ th'[u].todo # <<>> /\ Head(th'[u].todo).do = "post_release"
        BY <2>1, <3>1 DEF ThreadsHold, IsThread, At
      <4>2. Head(th'[u].todo) = th'[u].todo[1] /\ 1 \in DOMAIN th'[u].todo
        BY <4>1, Tails
      <4> QED
        BY <4>1, <4>2 DEF Has, Carries
    <3> QED
      BY <3>1
  <2>3. ASSUME ledger' = ledger PROVE Tranches' = Tranches
    BY <2>3 DEF Tranches, Keys
  <2>4. ASSUME NEW t \in Threads, NEW q, th' = [th EXCEPT ![t] = q],
               IsThread(q), KnowsItsHold(q), TrancheFirst(q), Has(q, "post_release") => q.m = 0
        PROVE  \A u \in LettingGo' : u \in LettingGo /\ th'[u].m = th[u].m
    <3>1. th'[t] = q /\ \A u \in Threads \ {t} : th'[u] = th[u]
      BY <2>1, <2>4, ThreadMoves
    <3>2. t \notin LettingGo'
      BY <2>2, <2>4, <3>1 DEF LettingGo
    <3> QED
      BY <3>1, <3>2 DEF LettingGo, At
  <2>5. ASSUME \A u \in LettingGo' : u \in LettingGo /\ th'[u].m = th[u].m,
               Tranches' \subseteq LetGo
        PROVE  LetGo' \subseteq LetGo
    BY <2>5 DEF LetGo
  <2>6. ASSUME NEW t \in Threads, Step(t) PROVE LetGo' \subseteq LetGo
    <3>1. \A m \in Tranches' \ Tranches : t \in LettingGo /\ th[t].m = m
      <4>1. ASSUME NEW m \in Tranches' \ Tranches PROVE t \in LettingGo /\ th[t].m = m
        <5>1. At(t, "post_release") /\ th[t].m = m
          BY <2>1, <2>6, TranchesPosted
        <5>2. m \in Milestones
          BY <4>1 DEF Tranches
        <5>3. m # 0
          BY <5>2 DEF Milestones
        <5> QED
          BY <5>1, <5>3 DEF LettingGo
      <4> QED
        BY <4>1
    <3>2. Tranches' \subseteq LetGo
      BY <3>1 DEF LetGo
    <3>3. \A u \in LettingGo' : u \in LettingGo /\ th'[u].m = th[u].m
      BY <2>1, <2>4, <2>6, StepAdvances DEF Advances
    <3> QED
      BY <2>5, <3>2, <3>3
  <2>7. ASSUME NEW t \in Threads, Request(t) PROVE LetGo' \subseteq LetGo
    BY <2>3, <2>4, <2>5, <2>7, RequestStarts DEF Starts, LetGo
  <2>8. ASSUME ledger' = ledger, th' = th PROVE LetGo' \subseteq LetGo
    BY <2>3, <2>8 DEF LetGo, LettingGo, At
  <2>9. CASE Crash
    <3>1. ledger' = ledger /\ th' = [u \in Threads |-> Idle]
      BY <2>9 DEF Crash
    <3>2. \A u \in Threads : ~Has(th'[u], "post_release")
      BY <3>1, IdleHolds
    <3> QED
      BY <2>2, <2>3, <3>1, <3>2 DEF LetGo, LettingGo
  <2>10. (\E r \in Reservations : Expire(r)) \/ OtherBuys => ledger' = ledger /\ th' = th
    BY OthersKeep
  <2> QED
    BY <2>6, <2>7, <2>8, <2>9, <2>10 DEF Next
<1> QED
  BY <1>1, IInvHolds, PTL DEF Spec, FreezeHolds

-----------------------------------------------------------------------------
\* THE BOOKS WHILE REQUESTS DO NOT OVERLAP

CaptureKey     == Key("capture", "", 0)
WholeKey       == Key("release", "", 0)
UnreleasedKey  == Key("unreleased", "", 0)
CaptureLine    == Txn(CaptureKey, "capture", Price, Price)
ReleaseLine(m) == Txn(Key("release", "", m), "release", 0, IF m = 0 THEN -Price ELSE -1)
RejectLine(e)  == Txn(Key("reject", "", 0), "release", 0, e)

\* The keys a line may have that gives cash back.
CashKeys == {UnreleasedKey, Key("partial", "", 0), Key("refund", "capture", 0),
             Key("full", "capture", 0)}

IsSettlement(x) ==
    \/ x = CaptureLine
    \/ \E m \in 0 .. Price : x = ReleaseLine(m)
    \/ \E e \in Int : x = RejectLine(e)

IsRefund(x) ==
    /\ x.kind = "refund" /\ x.key.name \in RefundKeys
    /\ x.cash \in Int /\ x.escrow \in Int /\ x.cash <= 0
    /\ x.cash < 0 => x.key \in CashKeys

\* The ledger's lines: a settlement follows a capture, a refund gives back at most what
\* the provider gave back under its key, and without milestones the release is one.
Lines ==
    /\ IsFiniteSet(ledger)
    /\ \A x \in ledger : IsSettlement(x) \/ IsRefund(x)
    /\ \A x, y \in ledger : x.key = y.key => x = y
    /\ \A x \in ledger : x.kind = "refund" /\ x.cash < 0 => -x.cash <= back[x.key.name]
    /\ ledger # {} => CaptureLine \in ledger
    /\ ~schedule => \A x \in ledger : x.key.name = "release" => x.key.m = 0

\* At most one refund was made; none; no line but a capture and its releases.
OnlyBack(k) == back[k] \in 0 .. Price /\ \A j \in RefundKeys \ {k} : back[j] = 0
Zero        == \A k \in RefundKeys : back[k] = 0
OpenLedger  == \A x \in ledger : x.key.name \in {"capture", "release"}
Open        == Zero /\ OpenLedger

Over == {"refunded", "resolved"}

\* What the books show of an order that ends as x.
Settles(x) ==
    /\ \E k \in RefundKeys : OnlyBack(k)
    /\ x = "refunded" => CaptureLine \in ledger
    /\ ~schedule => Escrow >= 0 /\ (x = "refunded" => Escrow = 0 /\ Cash = 0)

\* The books between requests.
Rest ==
    \/ state \in Over /\ Settles(state)
    \/ /\ state \notin Over \cup {"refund_pending", "accepted"}
       /\ Open
       /\ ~schedule /\ state = "completed" => WholeKey \in Keys
-----------------------------------------------------------------------------
LEMMA TxnFields ==
    ASSUME NEW k, NEW n, NEW c, NEW e
    PROVE  /\ Txn(k, n, c, e).key = k /\ Txn(k, n, c, e).kind = n
           /\ Txn(k, n, c, e).cash = c /\ Txn(k, n, c, e).escrow = e
BY DEF Txn

LEMMA Settlements ==
    ASSUME NEW x, IsSettlement(x)
    PROVE  /\ x.cash \in Int /\ x.escrow \in Int /\ x.kind \in {"capture", "release"}
           /\ x.key = Key(x.key.name, "", x.key.m)
           /\ x.key.name \in {"capture", "release", "reject"} /\ x.key.m \in 0 .. Price
           /\ x.kind = "capture" <=> x = CaptureLine
           /\ x.key.name = "capture" <=> x = CaptureLine
           /\ x # CaptureLine => x.cash = 0
           /\ x.key.name = "release" => x = ReleaseLine(x.key.m)
           /\ x = CaptureLine => x.cash = Price /\ x.escrow = Price /\ x.key = CaptureKey
<1>0. Price \in Nat /\ Price \in Int /\ -Price \in Int /\ 0 \in 0 .. Price
  BY PriceAssumption
<1>1. ASSUME NEW k, NEW n, NEW c, NEW e, x = Txn(k, n, c, e)
      PROVE  x.key = k /\ x.kind = n /\ x.cash = c /\ x.escrow = e
  BY <1>1, TxnFields
<1>2. CaptureLine.kind = "capture" /\ CaptureKey.name = "capture" /\ CaptureKey.m = 0
  BY DEF CaptureLine, CaptureKey, Txn, Key
<1>3. CASE x = CaptureLine
  <2>1. x.key = CaptureKey /\ x.kind = "capture" /\ x.cash = Price /\ x.escrow = Price
    BY <1>1, <1>3 DEF CaptureLine
  <2>2. CaptureKey = Key(CaptureKey.name, "", CaptureKey.m)
    BY <1>2 DEF CaptureKey
  <2> QED
    BY <1>0, <1>2, <1>3, <2>1, <2>2
<1>4. CASE \E m \in 0 .. Price : x = ReleaseLine(m)
  <2>1. PICK m \in 0 .. Price : x = ReleaseLine(m)
    BY <1>4
  <2> DEFINE e == IF m = 0 THEN -Price ELSE -1
  <2>2. e \in Int
    BY <1>0
  <2>3. x = Txn(Key("release", "", m), "release", 0, e)
    BY <2>1 DEF ReleaseLine
  <2> HIDE DEF e
  <2>4. x.key = Key("release", "", m) /\ x.kind = "release" /\ x.cash = 0 /\ x.escrow = e
    BY <1>1, <2>3
  <2>5. x.key.name = "release" /\ x.key.m = m
    BY <2>3 DEF Txn, Key
  <2>6. x.key = Key(x.key.name, "", x.key.m)
    BY <2>4, <2>5
  <2>7. x # CaptureLine
    BY <1>2, <2>4
  <2>8. x.key.name # "capture" /\ x.key.name \in {"capture", "release", "reject"}
    BY <2>5
  <2>0. x.kind = "release" /\ x.cash = 0 /\ x.escrow = e
    BY <2>4
  <2>9. /\ x.cash \in Int /\ x.escrow \in Int /\ x.kind \in {"capture", "release"}
        /\ x.kind # "capture" /\ x.cash = 0
    BY <2>0, <2>2
  <2>10. x.key.m \in 0 .. Price
    BY <1>0, <2>5, <2>1
  <2>11. x.key.name = "release" => x = ReleaseLine(x.key.m)
    BY <2>5, <2>1
  <2> QED
    BY <2>6, <2>7, <2>8, <2>9, <2>10, <2>11
<1>5. CASE \E e \in Int : x = RejectLine(e)
  <2>1. PICK e \in Int : x = RejectLine(e)
    BY <1>5
  <2>2. x.key = Key("reject", "", 0) /\ x.kind = "release" /\ x.cash = 0 /\ x.escrow = e
    BY <1>1, <2>1 DEF RejectLine
  <2>3. x.key.name = "reject" /\ x.key.m = 0
    BY <2>1 DEF RejectLine, Txn, Key
  <2>4. x.key = Key(x.key.name, "", x.key.m)
    BY <2>2, <2>3
  <2>7. x # CaptureLine
    BY <1>2, <2>2
  <2>8. x.key.name # "capture" /\ x.key.name \in {"capture", "release", "reject"}
    BY <2>3
  <2>0. x.kind = "release" /\ x.cash = 0 /\ x.escrow = e /\ e \in Int
    BY <2>2, <2>1
  <2>9. /\ x.cash \in Int /\ x.escrow \in Int /\ x.kind \in {"capture", "release"}
        /\ x.kind # "capture" /\ x.cash = 0
    BY <2>0
  <2>10. x.key.m \in 0 .. Price
    BY <1>0, <2>3, <2>1
  <2>11. x.key.name = "release" => x = ReleaseLine(x.key.m)
    BY <2>3, <2>1
  <2> QED
    BY <2>4, <2>7, <2>8, <2>9, <2>10, <2>11
<1> QED
  BY <1>3, <1>4, <1>5 DEF IsSettlement

\* A settlement of the ledger is no refund.
LEMMA LineKinds ==
    ASSUME NEW x, IsSettlement(x) \/ IsRefund(x)
    PROVE  /\ x.cash \in Int /\ x.escrow \in Int /\ x.kind \in {"capture", "release", "refund"}
           /\ x.kind = "capture" <=> x = CaptureLine
           /\ x.key.name = "capture" <=> x = CaptureLine
           /\ x.kind = "refund" <=> IsRefund(x)
           /\ x.kind # "refund" <=> IsSettlement(x)
           /\ x.key.name \in {"capture", "release"} => IsSettlement(x)
<1>1. CASE IsSettlement(x)
  BY <1>1, Settlements DEF IsRefund
<1>2. CASE IsRefund(x)
  <2>1. x.kind = "refund" /\ x.key.name \in RefundKeys /\ x.cash \in Int /\ x.escrow \in Int
    BY <1>2 DEF IsRefund
  <2>2. ~IsSettlement(x) /\ x # CaptureLine
    BY <2>1, Settlements DEF IsSettlement
  <2> QED
    BY <1>2, <2>1, <2>2 DEF RefundKeys
<1> QED
  BY <1>1, <1>2

LEMMA MoneyStill ==
    ASSUME UNCHANGED <<state, schedule, ledger, back>>
    PROVE  /\ Escrow' = Escrow /\ Cash' = Cash /\ Keys' = Keys /\ Unreleased' = Unreleased
           /\ Lines => Lines'
           /\ Zero => Zero'
           /\ OpenLedger => OpenLedger'
           /\ Open => Open'
           /\ \A k : OnlyBack(k) => OnlyBack(k)'
           /\ \A x : Settles(x) => Settles(x)'
           /\ Rest => Rest'
<1>1. Escrow' = Escrow /\ Cash' = Cash /\ Keys' = Keys /\ Unreleased' = Unreleased
  BY DEF Escrow, EscrowOf, Cash, CashOf, Keys, Unreleased, Captured, Kind, PayeeOf
<1>2. Lines => Lines'
  BY DEF Lines
<1>3. (Zero => Zero') /\ (OpenLedger => OpenLedger') /\ (Open => Open')
  BY DEF Zero, OpenLedger, Open
<1>4. \A k : OnlyBack(k) => OnlyBack(k)'
  BY DEF OnlyBack
<1>5. \A x : Settles(x) => Settles(x)'
  BY <1>1, <1>4 DEF Settles
<1>6. Rest => Rest'
  BY <1>1, <1>3, <1>5 DEF Rest
<1> QED
  BY <1>1, <1>2, <1>3, <1>4, <1>5, <1>6

\* The ledger's sums are sums of integers.
LEMMA LineAmounts ==
    ASSUME Lines
    PROVE  /\ \A x \in ledger : /\ CashOf[x] = x.cash /\ EscrowOf[x] = x.escrow
                                /\ PayeeOf[x] = x.cash - x.escrow
                                /\ x.cash \in Int /\ x.escrow \in Int
           /\ \A S \in SUBSET ledger : IsFiniteSet(S)
           /\ Escrow \in Int /\ Cash \in Int
<1>1. \A x \in ledger : x.cash \in Int /\ x.escrow \in Int
  BY LineKinds DEF Lines
<1>2. \A x \in ledger : CashOf[x] = x.cash /\ EscrowOf[x] = x.escrow /\ PayeeOf[x] = x.cash - x.escrow
  BY DEF CashOf, EscrowOf, PayeeOf
<1>3. IsFiniteSet(ledger) /\ \A S \in SUBSET ledger : IsFiniteSet(S)
  BY FS_Subset DEF Lines
<1>4. \A x \in ledger : CashOf[x] \in Int /\ EscrowOf[x] \in Int
  BY <1>1, <1>2
<1>5. Escrow \in Int /\ Cash \in Int
  BY <1>3, <1>4, SumInt DEF Escrow, Cash
<1> QED
  BY <1>1, <1>2, <1>3, <1>5

\* A new line adds its amounts.
LEMMA LineAdds ==
    ASSUME Lines, NEW x, x \notin ledger, x.cash \in Int, x.escrow \in Int, ledger' = ledger \cup {x}
    PROVE  Escrow' = Escrow + x.escrow /\ Cash' = Cash + x.cash
<1>1. /\ IsFiniteSet(ledger)
      /\ \A y \in ledger : /\ CashOf[y] = y.cash /\ EscrowOf[y] = y.escrow
                           /\ y.cash \in Int /\ y.escrow \in Int
  BY LineAmounts DEF Lines
<1>2. PICK f, g : f = EscrowOf' /\ g = CashOf'
  OBVIOUS
<1>3. f = [y \in ledger \cup {x} |-> y.escrow] /\ g = [y \in ledger \cup {x} |-> y.cash]
  BY <1>2 DEF EscrowOf, CashOf
<1>4. Escrow' = SumFunctionOnSet(f, ledger \cup {x}) /\ Cash' = SumFunctionOnSet(g, ledger \cup {x})
  BY <1>2 DEF Escrow, Cash
<1>5. \A y \in ledger \cup {x} : f[y] \in Int /\ g[y] \in Int
  BY <1>1, <1>3
<1>6. /\ SumFunctionOnSet(f, ledger \cup {x}) = f[x] + SumFunctionOnSet(f, ledger)
      /\ SumFunctionOnSet(g, ledger \cup {x}) = g[x] + SumFunctionOnSet(g, ledger)
  BY <1>1, <1>5, SumAdd
<1>7. f[x] = x.escrow /\ g[x] = x.cash
  BY <1>3
<1>8. \A y \in ledger : f[y] = EscrowOf[y] /\ g[y] = CashOf[y]
  BY <1>1, <1>3
<1>9. /\ SumFunctionOnSet(f, ledger) = Escrow /\ SumFunctionOnSet(g, ledger) = Cash
  BY <1>1, <1>8, SumSame DEF Escrow, Cash
<1>10. Escrow \in Int /\ Cash \in Int
  BY LineAmounts
<1> QED
  BY <1>4, <1>6, <1>7, <1>9, <1>10

\* An open ledger: what is not captured yet released is in escrow.
LEMMA OpenSums ==
    ASSUME Lines, OpenLedger
    PROVE  /\ Kind("capture") \cup Kind("release") = ledger
           /\ \A x \in ledger : IsSettlement(x)
           /\ Captured = IF CaptureLine \in ledger THEN Price ELSE 0
           /\ Escrow = Unreleased /\ Unreleased <= Price
<1> DEFINE C == Kind("capture")
           R == Kind("release")
<1>0. Price \in Nat
  BY PriceAssumption
<1>1. \A x \in ledger : /\ IsSettlement(x) /\ x.kind \in {"capture", "release"}
                        /\ x.kind = "capture" <=> x = CaptureLine
                        /\ x.cash \in Int /\ x.escrow \in Int
                        /\ x # CaptureLine => x.cash = 0 /\ x.escrow <= 0
  <2> SUFFICES ASSUME NEW x \in ledger
               PROVE  /\ IsSettlement(x) /\ x.kind \in {"capture", "release"}
                      /\ x.kind = "capture" <=> x = CaptureLine
                      /\ x.cash \in Int /\ x.escrow \in Int
                      /\ x # CaptureLine => x.cash = 0 /\ x.escrow <= 0
    OBVIOUS
  <2>1. IsSettlement(x)
    BY LineKinds DEF Lines, OpenLedger
  <2>2. x # CaptureLine => x.key.name = "release"
    BY <2>1, Settlements DEF OpenLedger
  <2>3. x # CaptureLine => x = ReleaseLine(x.key.m)
    BY <2>1, <2>2, Settlements
  <2>4. \A m : ReleaseLine(m).escrow <= 0
    BY <1>0 DEF ReleaseLine, Txn
  <2>5. x # CaptureLine => x.escrow <= 0
    BY <2>3, <2>4
  <2> QED
    BY <2>1, <2>5, Settlements
<1>2. /\ C \cup R = ledger /\ ledger \ C = R /\ C \in SUBSET ledger /\ R \in SUBSET ledger
      /\ C = IF CaptureLine \in ledger THEN {CaptureLine} ELSE {}
  BY <1>1 DEF Kind
<1>3. /\ IsFiniteSet(ledger) /\ IsFiniteSet(C) /\ IsFiniteSet(R)
      /\ \A x \in ledger : /\ CashOf[x] = x.cash /\ EscrowOf[x] = x.escrow
                           /\ PayeeOf[x] = x.cash - x.escrow
  BY <1>2, LineAmounts DEF Lines
<1>4. CaptureLine.cash = Price /\ CaptureLine.escrow = Price
  BY DEF CaptureLine, Txn
<1> HIDE DEF C, R
<1>5. Captured = IF CaptureLine \in ledger THEN Price ELSE 0
  <2>1. CASE CaptureLine \in ledger
    <3>1. CashOf[CaptureLine] = Price
      BY <1>3, <1>4, <2>1
    <3>2. CashOf[CaptureLine] \in Int
      BY <1>0, <3>1
    <3>3. SumFunctionOnSet(CashOf, {CaptureLine}) = CashOf[CaptureLine]
      BY <3>2, SumOne
    <3> QED
      BY <1>2, <2>1, <3>1, <3>3 DEF Captured, C
  <2>2. CASE CaptureLine \notin ledger
    BY <1>2, <2>2, SumEmpty DEF Captured, C
  <2> QED
    BY <2>1, <2>2
<1>6. SumFunctionOnSet(EscrowOf, C) = Captured
  <2>1. \A x \in C : EscrowOf[x] = CashOf[x]
    BY <1>2, <1>3, <1>4
  <2> QED
    BY <1>3, <2>1, SumSame DEF Captured, C
<1>7. \A x \in ledger : EscrowOf[x] \in Int
  BY <1>1, <1>3
<1>8. Escrow = Captured + SumFunctionOnSet(EscrowOf, R)
  BY <1>2, <1>3, <1>6, <1>7, SumSplit DEF Escrow
<1>9. \A x \in R : x \in ledger /\ x # CaptureLine
  BY <1>1, <1>2 DEF R, Kind
<1>10. \A x \in R : EscrowOf[x] \in Int /\ PayeeOf[x] = -EscrowOf[x] /\ EscrowOf[x] <= 0
  BY <1>1, <1>3, <1>9
<1>11. SumFunctionOnSet(PayeeOf, R) = -SumFunctionOnSet(EscrowOf, R)
  BY <1>3, <1>10, SumOpposite
<1>12. SumFunctionOnSet(EscrowOf, R) \in Int /\ SumFunctionOnSet(EscrowOf, R) <= 0
  BY <1>3, <1>10, SumInt, SumSign
<1>13. PICK e \in Int : e = SumFunctionOnSet(EscrowOf, R) /\ e <= 0
  BY <1>12
<1>14. Unreleased = Captured - (-e) /\ Escrow = Captured + e
  BY <1>8, <1>11, <1>13 DEF Unreleased, R
<1>15. Captured \in Int /\ Captured <= Price
  BY <1>0, <1>5
<1> QED
  BY <1>0, <1>1, <1>2, <1>5, <1>13, <1>14, <1>15 DEF C, R

\* Without milestones an open ledger is empty, or holds the price, or has paid it out.
LEMMA FlatSums ==
    ASSUME Lines, OpenLedger, ~schedule
    PROVE  /\ Escrow \in 0 .. Price
           /\ ledger = {} => Escrow = 0 /\ Cash = 0
           /\ WholeKey \in Keys => Escrow = 0 /\ Cash = Price
<1>0. Price \in Nat \ {0}
  BY PriceAssumption
<1>1. CASE ledger = {}
  <2>1. Escrow = 0 /\ Cash = 0
    BY <1>1, SumEmpty DEF Escrow, Cash
  <2>2. Keys = {}
    BY <1>1 DEF Keys
  <2> QED
    BY <1>0, <2>1, <2>2
<1>2. CASE ledger # {}
  <2> DEFINE W == ReleaseLine(0)
  <2>1. CaptureLine \in ledger
    BY <1>2 DEF Lines
  <2>2. W.cash = 0 /\ W.escrow = -Price /\ W.key = WholeKey
    BY DEF ReleaseLine, Txn, WholeKey
  <2>3. \A x \in ledger : x = CaptureLine \/ x = W
    <3> SUFFICES ASSUME NEW x \in ledger, x # CaptureLine PROVE x = W
      OBVIOUS
    <3>1. x.key.name = "release" /\ IsSettlement(x)
      BY OpenSums, Settlements DEF OpenLedger
    <3>2. x.key.m = 0
      BY <3>1 DEF Lines
    <3> QED
      BY <3>1, <3>2, Settlements
  <2>4. CaptureLine.cash = Price /\ CaptureLine.escrow = Price /\ CaptureLine # W
        /\ CaptureLine.key # WholeKey
    <3>1. CaptureLine.cash = Price /\ CaptureLine.escrow = Price /\ CaptureLine.key = CaptureKey
      BY DEF CaptureLine, Txn
    <3>2. CaptureKey # WholeKey
      BY DEF CaptureKey, WholeKey, Key
    <3> QED
      BY <2>2, <3>1, <3>2, <1>0
  <2> HIDE DEF W
  <2>5. WholeKey \in Keys <=> W \in ledger
    <3>1. ASSUME WholeKey \in Keys PROVE W \in ledger
      <4>1. PICK x \in ledger : x.key = WholeKey
        BY <3>1 DEF Keys
      <4> QED
        BY <2>3, <2>4, <4>1
    <3> QED
      BY <2>2, <3>1 DEF Keys
  <2>6. ledger = IF W \in ledger THEN {CaptureLine} \cup {W} ELSE {CaptureLine}
    BY <2>1, <2>3
  <2>7. /\ \A x \in ledger : /\ CashOf[x] = x.cash /\ EscrowOf[x] = x.escrow
                             /\ x.cash \in Int /\ x.escrow \in Int
        /\ IsFiniteSet({CaptureLine})
    BY <2>1, LineAmounts
  <2>8. /\ SumFunctionOnSet(EscrowOf, {CaptureLine}) = Price
        /\ SumFunctionOnSet(CashOf, {CaptureLine}) = Price
    BY <1>0, <2>1, <2>4, <2>7, SumOne
  <2>9. CASE W \in ledger
    <3>1. ledger = {CaptureLine} \cup {W} /\ W \notin {CaptureLine}
      BY <2>4, <2>6, <2>9
    <3>2. \A x \in {CaptureLine} \cup {W} : EscrowOf[x] \in Int /\ CashOf[x] \in Int
      BY <2>7, <3>1
    <3>a. SumFunctionOnSet(EscrowOf, {CaptureLine} \cup {W}) =
             EscrowOf[W] + SumFunctionOnSet(EscrowOf, {CaptureLine})
      BY <2>7, <3>1, <3>2, SumAdd
    <3>b. SumFunctionOnSet(CashOf, {CaptureLine} \cup {W}) =
             CashOf[W] + SumFunctionOnSet(CashOf, {CaptureLine})
      BY <2>7, <3>1, <3>2, SumAdd
    <3>3. /\ SumFunctionOnSet(EscrowOf, {CaptureLine} \cup {W}) = EscrowOf[W] + Price
          /\ SumFunctionOnSet(CashOf, {CaptureLine} \cup {W}) = CashOf[W] + Price
      BY <2>8, <3>a, <3>b
    <3>4. EscrowOf[W] = -Price /\ CashOf[W] = 0
      BY <2>2, <2>7, <2>9
    <3>5. Escrow = 0 /\ Cash = Price
      BY <1>0, <3>1, <3>3, <3>4 DEF Escrow, Cash
    <3> QED
      BY <1>0, <1>2, <3>5
  <2>10. CASE W \notin ledger
    <3>1. Escrow = Price
      BY <2>6, <2>8, <2>10 DEF Escrow
    <3> QED
      BY <1>0, <1>2, <2>5, <2>10, <3>1
  <2> QED
    BY <2>9, <2>10
<1> QED
  BY <1>1, <1>2

\* A line posted: the lines stay in order, and the sums take its amounts, once.
LEMMA LinePosted ==
    ASSUME Lines, NEW x, Post(x), IsSettlement(x) \/ IsRefund(x), UNCHANGED <<schedule, back>>,
           x.kind = "refund" /\ x.cash < 0 => -x.cash <= back[x.key.name],
           x = CaptureLine \/ CaptureLine \in ledger,
           ~schedule /\ x.key.name = "release" => x.key.m = 0
    PROVE  /\ Lines' /\ ledger \subseteq ledger' /\ CaptureLine \in ledger' /\ x.key \in Keys'
           /\ \/ ledger' = ledger /\ Escrow' = Escrow /\ Cash' = Cash /\ Keys' = Keys
              \/ /\ ledger' = ledger \cup {x} /\ x.key \notin Keys /\ Keys' = Keys \cup {x.key}
                 /\ Escrow' = Escrow + x.escrow /\ Cash' = Cash + x.cash
<1>1. CASE \E y \in ledger : y.key = x.key
  <2>1. ledger' = ledger
    BY <1>1 DEF Post
  <2>2. Escrow' = Escrow /\ Cash' = Cash /\ Keys' = Keys
    BY <2>1 DEF Escrow, EscrowOf, Cash, CashOf, Keys
  <2>3. Lines'
    BY <2>1 DEF Lines
  <2>4. x.key \in Keys
    BY <1>1 DEF Keys
  <2>5. CaptureLine \in ledger
    BY <1>1 DEF Lines
  <2> QED
    BY <2>1, <2>2, <2>3, <2>4, <2>5
<1>2. CASE ~ \E y \in ledger : y.key = x.key
  <2>1. ledger' = ledger \cup {x} /\ x \notin ledger
    BY <1>2 DEF Post
  <2>2. x.cash \in Int /\ x.escrow \in Int
    BY LineKinds
  <2>3. Escrow' = Escrow + x.escrow /\ Cash' = Cash + x.cash
    BY <2>1, <2>2, LineAdds
  <2>4. x.key \notin Keys /\ Keys' = Keys \cup {x.key}
    BY <1>2, <2>1 DEF Keys
  <2>5. CaptureLine \in ledger'
    BY <2>1
  <2>6. Lines'
    <3>1. IsFiniteSet(ledger')
      BY <2>1, FS_AddElement DEF Lines
    <3>2. \A y \in ledger' : IsSettlement(y) \/ IsRefund(y)
      BY <2>1 DEF Lines
    <3>3. \A y, z \in ledger' : y.key = z.key => y = z
      BY <1>2, <2>1 DEF Lines
    <3>4. \A y \in ledger' : y.kind = "refund" /\ y.cash < 0 => -y.cash <= back'[y.key.name]
      BY <2>1 DEF Lines
    <3>5. ~schedule' => \A y \in ledger' : y.key.name = "release" => y.key.m = 0
      BY <2>1 DEF Lines
    <3> QED
      BY <2>5, <3>1, <3>2, <3>3, <3>4, <3>5 DEF Lines
  <2> QED
    BY <2>1, <2>3, <2>4, <2>5, <2>6
<1> QED
  BY <1>1, <1>2

\* A first refund leaves the lines in order: none gave cash back before.
LEMMA LinesRefunded ==
    ASSUME Lines, Zero, UNCHANGED <<schedule, ledger>>
    PROVE  Lines'
<1>1. \A x \in ledger : ~(x.kind = "refund" /\ x.cash < 0)
  <2> SUFFICES ASSUME NEW x \in ledger, x.kind = "refund", x.cash < 0 PROVE FALSE
    OBVIOUS
  <2>1. IsRefund(x) /\ x.cash \in Int
    BY LineKinds DEF Lines
  <2>2. -x.cash <= back[x.key.name] /\ x.key.name \in RefundKeys
    BY <2>1 DEF Lines, IsRefund
  <2>3. -x.cash <= 0
    BY <2>2 DEF Zero
  <2> QED
    BY <2>1, <2>3
<1> QED
  BY <1>1 DEF Lines

LEMMA ZeroIsOne == ASSUME Zero PROVE \A k \in RefundKeys : OnlyBack(k)
<1>1. 0 \in 0 .. Price
  BY PriceAssumption
<1> QED
  BY <1>1 DEF Zero, OnlyBack

\* What an open ledger settles: anything but a whole refund.
LEMMA OpenSettles ==
    ASSUME Lines, Open
    PROVE  Settles("resolved")
<1>1. \E k \in RefundKeys : OnlyBack(k)
  BY ZeroIsOne DEF Open, RefundKeys
<1>2. ~schedule => Escrow >= 0
  BY FlatSums, PriceAssumption DEF Open
<1> QED
  BY <1>1, <1>2 DEF Settles
-----------------------------------------------------------------------------
\* ONE REQUEST AT A TIME

Solo(t) == t \in Threads /\ ThreadsHold /\ Busy = {t}

\* What is left of the only request: nothing, or rest.
Left(t, rest) ==
    IF rest = <<>> THEN Busy' = {}
    ELSE /\ Busy' = {t} /\ th'[t].todo = rest
         /\ th'[t].m = th[t].m /\ th'[t].amount = th[t].amount

LEMMA SoloBusy ==
    ASSUME NEW t \in Threads, ThreadsHold, Busy \subseteq {t}, NEW q, th' = [th EXCEPT ![t] = q]
    PROVE  /\ th'[t] = q
           /\ q.todo = <<>> => Busy' = {}
           /\ q.todo # <<>> => Busy' = {t}
<1>1. th'[t] = q /\ \A u \in Threads \ {t} : th'[u] = th[u]
  BY DEF ThreadsHold
<1>2. \A u \in Threads \ {t} : th[u].todo = <<>>
  BY DEF Busy
<1> QED
  BY <1>1, <1>2 DEF Busy

LEMMA SoloEnds == ASSUME NEW t, Solo(t), Ends(t) PROVE Busy' = {}
BY SoloBusy, IdleHolds DEF Solo, Ends

LEMMA SoloGoes ==
    ASSUME NEW t, Solo(t), NEW r, Goes(t, r), IsThread(r), r.m = th[t].m, r.amount = th[t].amount,
           r.todo = th[t].todo
    PROVE  /\ Left(t, Tail(th[t].todo))
           /\ Busy' = {} \/ (th'[t].mem = r.mem /\ th'[t].undo = r.undo)
<1> DEFINE rest == Tail(th[t].todo)
<1>1. CASE rest = <<>>
  <2>1. th' = [th EXCEPT ![t] = Idle]
    BY <1>1 DEF Goes
  <2>2. Busy' = {}
    BY <2>1, SoloBusy, IdleHolds DEF Solo
  <2> QED
    BY <1>1, <2>2 DEF Left
<1>2. CASE rest # <<>>
  <2> DEFINE q == [r EXCEPT !.todo = rest]
  <2>1. th' = [th EXCEPT ![t] = q]
    BY <1>2 DEF Goes
  <2>0. r = [todo |-> r.todo, mem |-> r.mem, hold |-> r.hold, m |-> r.m, amount |-> r.amount,
             undo |-> r.undo]
    BY DEF IsThread
  <2> HIDE DEF rest
  <2>2. q = [todo |-> rest, mem |-> r.mem, hold |-> r.hold, m |-> r.m, amount |-> r.amount,
             undo |-> r.undo]
    BY ONLY <2>0
  <2>3. q.todo = rest /\ q.m = r.m /\ q.amount = r.amount /\ q.mem = r.mem /\ q.undo = r.undo
    BY <2>2
  <2> HIDE DEF q
  <2>4. th'[t] = q /\ Busy' = {t}
    BY <1>2, <2>1, <2>3, SoloBusy DEF Solo
  <2> QED
    BY <1>2, <2>3, <2>4 DEF Left, rest
<1> QED
  BY <1>1, <1>2

LEMMA SoloMoves ==
    ASSUME NEW t, Solo(t), Moves(t)
    PROVE  /\ Left(t, Tail(th[t].todo))
           /\ Busy' = {} \/ (th'[t].mem = th[t].mem /\ th'[t].undo = th[t].undo)
<1>1. IsThread(th[t]) /\ Goes(t, th[t])
  BY DEF Solo, ThreadsHold, Moves
<1> QED
  BY <1>1, SoloGoes

LEMMA SoloTurns ==
    ASSUME NEW t, Solo(t), NEW s, s # <<>>, Turns(t, s)
    PROVE  Left(t, s) /\ th'[t].mem = th[t].mem
<1> DEFINE r == th[t]
           q == [r EXCEPT !.todo = s]
<1>1. th' = [th EXCEPT ![t] = q]
  BY DEF Turns, Solo, ThreadsHold
<1>2. q = [todo |-> s, mem |-> r.mem, hold |-> r.hold, m |-> r.m, amount |-> r.amount,
           undo |-> r.undo]
  BY DEF Solo, ThreadsHold, IsThread
<1>3. q.todo = s /\ q.m = r.m /\ q.amount = r.amount /\ q.mem = r.mem
  BY <1>2
<1> HIDE DEF q, r
<1>4. th'[t] = q /\ Busy' = {t}
  BY <1>1, <1>3, SoloBusy DEF Solo
<1> QED
  BY <1>3, <1>4 DEF Left, r

LEMMA SoloBegins ==
    ASSUME ThreadsHold, NEW t \in Threads, Busy = {}, NEW todo, todo # <<>>, NEW mem, NEW m, NEW amount,
           Begins(t, todo, mem, m, amount)
    PROVE  /\ Busy' = {t} /\ th'[t].todo = todo /\ th'[t].mem = mem /\ th'[t].m = m
           /\ th'[t].amount = amount
           /\ UNCHANGED <<state, rec, ms, schedule, ledger, back>>
<1> DEFINE q == [todo |-> todo, mem |-> mem, hold |-> 0, m |-> m, amount |-> amount, undo |-> {}]
<1>1. th' = [th EXCEPT ![t] = q] /\ UNCHANGED <<state, rec, ms, schedule, ledger, back>>
  BY DEF Begins, orderVars, pspVars
<1>2. q.todo = todo /\ q.mem = mem /\ q.m = m /\ q.amount = amount
  OBVIOUS
<1> HIDE DEF q
<1>3. th'[t] = q /\ Busy' = {t}
  BY <1>1, <1>2, SoloBusy
<1> QED
  BY <1>1, <1>2, <1>3

\* Which action takes the step at the head of a plan.
LEMMA Takes ==
    ASSUME NEW t, Step(t)
    PROVE  /\ th[t].todo # <<>>
           /\ Head(th[t].todo).do = "set" => SetState(t)
           /\ Head(th[t].todo).do = "store" => Store(t)
           /\ Head(th[t].todo).do = "charge" => Charge(t)
           /\ Head(th[t].todo).do = "reread" => Reread(t)
           /\ Head(th[t].todo).do = "reserve" => Reserve(t)
           /\ Head(th[t].todo).do = "spine" => Authorize(t)
           /\ Head(th[t].todo).do = "add" => Add(t)
           /\ Head(th[t].todo).do = "seed" => Seed(t)
           /\ Head(th[t].todo).do = "authorize" => Pay(t)
           /\ Head(th[t].todo).do = "find" => Find(t)
           /\ Head(th[t].todo).do = "release" => Release(t)
           /\ Head(th[t].todo).do = "commit" => Commit(t)
           /\ Head(th[t].todo).do = "capture" => Capture(t)
           /\ Head(th[t].todo).do = "post_capture" => PostCapture(t)
           /\ Head(th[t].todo).do = "post_release" => PostRelease(t)
           /\ Head(th[t].todo).do = "post_reject" => PostReject(t)
           /\ Head(th[t].todo).do = "post_refund" => PostRefund(t)
           /\ Head(th[t].todo).do = "void" => Void(t)
           /\ Head(th[t].todo).do = "refund" => Refund(t)
           /\ Head(th[t].todo).do = "settled" => Settled(t)
           /\ Head(th[t].todo).do = "undo" => Undo(t)
           /\ Head(th[t].todo).do = "milestone" => SetMilestone(t)
           /\ Head(th[t].todo).do = "look" => Look(t)
<1>1. /\ SetState(t) => At(t, "set")
      /\ Store(t) => At(t, "store")
      /\ Charge(t) => At(t, "charge")
      /\ Reread(t) => At(t, "reread")
      /\ Reserve(t) => At(t, "reserve")
      /\ Authorize(t) => At(t, "spine")
      /\ Add(t) => At(t, "add")
      /\ Seed(t) => At(t, "seed")
      /\ Pay(t) => At(t, "authorize")
      /\ Find(t) => At(t, "find")
      /\ Release(t) => At(t, "release")
      /\ Commit(t) => At(t, "commit")
      /\ Capture(t) => At(t, "capture")
      /\ PostCapture(t) => At(t, "post_capture")
      /\ PostRelease(t) => At(t, "post_release")
      /\ PostReject(t) => At(t, "post_reject")
      /\ PostRefund(t) => At(t, "post_refund")
      /\ Void(t) => At(t, "void")
      /\ Refund(t) => At(t, "refund")
      /\ Settled(t) => At(t, "settled")
      /\ Undo(t) => At(t, "undo")
      /\ SetMilestone(t) => At(t, "milestone")
      /\ Look(t) => At(t, "look")
  BY DEF SetState, Store, Charge, Reread, Reserve, Authorize, Add, Seed, Pay, Find, Release, Commit,
         Capture, PostCapture, PostRelease, PostReject, PostRefund, Void, Refund, Settled, Undo,
         SetMilestone, Look
<1>2. \A w : At(t, w) => th[t].todo # <<>> /\ Head(th[t].todo).do = w
  BY DEF At
<1> QED
  BY <1>1, <1>2 DEF Step

Doing(t) == Head(th[t].todo).do

\* What a step leaves alone.
LEMMA StepFrames ==
    ASSUME NEW t, Step(t)
    PROVE  /\ schedule' = schedule /\ calm' = calm
           /\ Doing(t) \notin {"set", "add"} => state' = state
           /\ Doing(t) \notin {"post_capture", "post_release", "post_reject", "post_refund", "undo"}
                 => ledger' = ledger
           /\ Doing(t) # "refund" => back' = back
           /\ Doing(t) \notin {"seed", "milestone"} => ms' = ms
           /\ Doing(t) \notin {"store", "charge"} => rec' = rec
<1>1. CASE SetState(t) \/ Add(t) \/ Store(t) \/ Charge(t)
  BY <1>1 DEF Doing, At, SetState, Add, Store, Charge, pspVars, boundVars
<1>2. CASE Seed(t) \/ SetMilestone(t)
  BY <1>2 DEF Doing, At, Seed, SetMilestone, pspVars, boundVars
<1>3. CASE PostCapture(t) \/ PostRelease(t) \/ PostReject(t) \/ PostRefund(t) \/ Undo(t)
  BY <1>3 DEF Doing, At, PostCapture, PostRelease, PostReject, PostRefund, Undo, orderVars, pspVars,
              boundVars
<1>4. CASE Refund(t)
  BY <1>4 DEF Doing, At, Refund, orderVars, boundVars
<1>5. CASE Reread(t) \/ Reserve(t) \/ Authorize(t) \/ Pay(t) \/ Find(t) \/ Release(t) \/ Commit(t)
  BY <1>5 DEF Reread, Reserve, Authorize, Pay, Find, Release, Commit, orderVars, pspVars, boundVars
<1>6. CASE Capture(t) \/ Void(t) \/ Settled(t) \/ Look(t)
  BY <1>6 DEF Capture, Void, Settled, Look, orderVars, pspVars, boundVars
<1> QED
  BY <1>1, <1>2, <1>3, <1>4, <1>5, <1>6 DEF Step

\* The only request moves on, with its copy of the record.
MovesOn(t) ==
    /\ Left(t, Tail(th[t].todo))
    /\ Busy' = {} \/ (th'[t].mem = th[t].mem /\ th'[t].undo = th[t].undo)

Declined == <<Set({"payment_authorizing"}, "cancelled"), Do("release")>>

\* How the only request goes on after a step.
LEMMA StepLeaves ==
    ASSUME NEW t, Solo(t), Step(t)
    PROVE  /\ Doing(t) \in {"store", "post_capture", "post_release", "post_reject", "post_refund",
                            "void", "refund", "seed"} => MovesOn(t)
           /\ Doing(t) \in {"capture", "commit", "release", "milestone", "look", "add", "set"}
                 => Busy' = {} \/ MovesOn(t)
           /\ Doing(t) \in {"reserve", "find"} =>
                 \/ Busy' = {}
                 \/ Left(t, Tail(th[t].todo)) /\ th'[t].mem = th[t].mem
           /\ Doing(t) = "spine" => \/ MovesOn(t)
                                    \/ Left(t, <<Do("release")>>) /\ th'[t].mem = th[t].mem
           /\ Doing(t) = "authorize" =>
                 \/ /\ Left(t, Tail(th[t].todo))
                    /\ Busy' = {} \/ th'[t].mem = [th[t].mem EXCEPT !.auth = TRUE]
                 \/ Left(t, Declined) /\ th'[t].mem = th[t].mem
           /\ Doing(t) = "charge" =>
                 /\ Left(t, Tail(th[t].todo))
                 /\ Busy' = {} \/ th'[t].mem = [th[t].mem EXCEPT !.charge = TRUE]
           /\ Doing(t) = "reread" => \/ Busy' = {}
                                     \/ Left(t, Tail(th[t].todo)) /\ th'[t].mem = rec
<1> DEFINE r == th[t]
<1>0. r = [todo |-> r.todo, mem |-> r.mem, hold |-> r.hold, m |-> r.m, amount |-> r.amount,
           undo |-> r.undo] /\ r.todo \in Seq(Lawful)
  BY DEF Solo, ThreadsHold, IsThread
<1>1. Moves(t) => MovesOn(t)
  BY SoloMoves DEF MovesOn
<1>2. Ends(t) => Busy' = {}
  BY SoloEnds
<1>3. ASSUME NEW q, Goes(t, q), NEW x, q = [r EXCEPT !.mem = x] \/ q = [r EXCEPT !.hold = x]
      PROVE  Left(t, Tail(r.todo)) /\ (Busy' = {} \/ th'[t].mem = q.mem)
  <2>1. CASE q = [r EXCEPT !.mem = x]
    <3>1. q = [todo |-> r.todo, mem |-> x, hold |-> r.hold, m |-> r.m, amount |-> r.amount,
               undo |-> r.undo]
      BY <1>0, <2>1
    <3> HIDE DEF r
    <3>2. q.todo = r.todo /\ q.m = r.m /\ q.amount = r.amount /\ IsThread(q)
      BY <1>0, <3>1 DEF IsThread
    <3> QED
      BY <1>3, <3>2, SoloGoes DEF r
  <2>2. CASE q = [r EXCEPT !.hold = x]
    <3>1. q = [todo |-> r.todo, mem |-> r.mem, hold |-> x, m |-> r.m, amount |-> r.amount,
               undo |-> r.undo]
      BY <1>0, <2>2
    <3> HIDE DEF r
    <3>2. q.todo = r.todo /\ q.m = r.m /\ q.amount = r.amount /\ IsThread(q)
      BY <1>0, <3>1 DEF IsThread
    <3> QED
      BY <1>3, <3>2, SoloGoes DEF r
  <2> QED
    BY <1>3, <2>1, <2>2
<1>4. ASSUME NEW q, NEW x, q = [r EXCEPT !.hold = x] PROVE q.mem = r.mem
  BY <1>0, <1>4
<1>5. ASSUME NEW q, NEW x, q = [r EXCEPT !.mem = x] PROVE q.mem = x
  BY <1>0, <1>5
<1> HIDE DEF r
<1>6. /\ Doing(t) = "store" => MovesOn(t)
      /\ Doing(t) = "post_capture" => MovesOn(t)
      /\ Doing(t) = "post_release" => MovesOn(t)
      /\ Doing(t) = "post_reject" => MovesOn(t)
      /\ Doing(t) = "post_refund" => MovesOn(t)
      /\ Doing(t) = "void" => MovesOn(t)
      /\ Doing(t) = "refund" => MovesOn(t)
      /\ Doing(t) = "seed" => MovesOn(t)
  BY <1>1, Takes DEF Doing, Store, PostCapture, PostRelease, PostReject, PostRefund, Void, Refund, Seed
<1>7. /\ Doing(t) = "capture" => Busy' = {} \/ MovesOn(t)
      /\ Doing(t) = "commit" => Busy' = {} \/ MovesOn(t)
      /\ Doing(t) = "release" => Busy' = {} \/ MovesOn(t)
      /\ Doing(t) = "milestone" => Busy' = {} \/ MovesOn(t)
      /\ Doing(t) = "look" => Busy' = {} \/ MovesOn(t)
      /\ Doing(t) = "add" => Busy' = {} \/ MovesOn(t)
      /\ Doing(t) = "set" => Busy' = {} \/ MovesOn(t)
  BY <1>1, <1>2, Takes DEF Doing, Capture, Commit, Release, SetMilestone, Look, Add, SetState
<1>8. ASSUME Reserve(t) \/ Find(t)
      PROVE  Busy' = {} \/ (Left(t, Tail(r.todo)) /\ th'[t].mem = r.mem)
  <2>1. Ends(t) \/ \E x \in Reservations : Goes(t, [r EXCEPT !.hold = x])
    BY <1>8 DEF Reserve, Find, r
  <2>2. CASE \E x \in Reservations : Goes(t, [r EXCEPT !.hold = x])
    <3>1. PICK x, q : Goes(t, q) /\ q = [r EXCEPT !.hold = x]
      BY <2>2
    <3> QED
      BY <3>1, <1>3, <1>4
  <2> QED
    BY <1>2, <2>1, <2>2
<1>9. ASSUME Authorize(t)
      PROVE  MovesOn(t) \/ (Left(t, <<Do("release")>>) /\ th'[t].mem = r.mem)
  <2>1. <<Do("release")>> # <<>>
    OBVIOUS
  <2> QED
    BY <1>1, <1>9, <2>1, SoloTurns DEF Authorize, r
<1>10. ASSUME Pay(t)
       PROVE  \/ /\ Left(t, Tail(r.todo))
                 /\ Busy' = {} \/ th'[t].mem = [r.mem EXCEPT !.auth = TRUE]
              \/ Left(t, Declined) /\ th'[t].mem = r.mem
  <2>1. Declined # <<>>
    BY DEF Declined
  <2>2. Goes(t, [r EXCEPT !.mem.auth = TRUE]) \/ Turns(t, Declined)
    BY <1>10 DEF Pay, r, Declined
  <2>3. CASE Goes(t, [r EXCEPT !.mem.auth = TRUE])
    <3>1. PICK x, q : Goes(t, q) /\ q = [r EXCEPT !.mem = x] /\ x = [r.mem EXCEPT !.auth = TRUE]
      BY <2>3
    <3> QED
      BY <3>1, <1>3, <1>5
  <2> QED
    BY <2>1, <2>2, <2>3, SoloTurns DEF r
<1>11. ASSUME Charge(t)
       PROVE  /\ Left(t, Tail(r.todo))
              /\ Busy' = {} \/ th'[t].mem = [r.mem EXCEPT !.charge = TRUE]
  <2>1. PICK x, q : Goes(t, q) /\ q = [r EXCEPT !.mem = x] /\ x = [r.mem EXCEPT !.charge = TRUE]
    BY <1>11 DEF Charge, r
  <2> QED
    BY <2>1, <1>3, <1>5
<1>12. ASSUME Reread(t)
       PROVE  Busy' = {} \/ (Left(t, Tail(r.todo)) /\ th'[t].mem = rec)
  <2>1. CASE Goes(t, [r EXCEPT !.mem = rec])
    <3>1. PICK q : Goes(t, q) /\ q = [r EXCEPT !.mem = rec]
      BY <2>1
    <3> QED
      BY <3>1, <1>3, <1>5
  <2> QED
    BY <1>2, <1>12, <2>1 DEF Reread, r
<1> QED
  BY <1>6, <1>7, <1>8, <1>9, <1>10, <1>11, <1>12, Takes DEF Doing, r

LEMMA SettledLeaves ==
    ASSUME NEW t, Solo(t), Step(t), Doing(t) = "settled"
    PROVE  \/ Busy' = {} /\ Kind("capture") \cup Kind("release") = {}
           \/ /\ Left(t, Tail(th[t].todo))
              /\ \/ Busy' = {}
                 \/ /\ th'[t].mem = th[t].mem
                    /\ th'[t].undo = Kind("capture") \cup Kind("release")
<1> DEFINE r == th[t]
           x == Kind("capture") \cup Kind("release")
<1>1. Settled(t)
  BY Takes DEF Doing
<1>2. CASE x = {}
  BY <1>1, <1>2, SoloEnds DEF Settled
<1>3. CASE x # {}
  <2> HIDE DEF x
  <2>1. PICK q : Goes(t, q) /\ q = [r EXCEPT !.undo = x]
    BY <1>1, <1>3 DEF Settled, x
  <2>2. r = [todo |-> r.todo, mem |-> r.mem, hold |-> r.hold, m |-> r.m, amount |-> r.amount,
             undo |-> r.undo] /\ r.todo \in Seq(Lawful)
    BY DEF Solo, ThreadsHold, IsThread
  <2>3. q = [todo |-> r.todo, mem |-> r.mem, hold |-> r.hold, m |-> r.m, amount |-> r.amount,
             undo |-> x]
    BY <2>1, <2>2
  <2> HIDE DEF r
  <2>4. /\ q.todo = r.todo /\ q.m = r.m /\ q.amount = r.amount /\ q.mem = r.mem /\ q.undo = x
        /\ IsThread(q)
    BY <2>2, <2>3 DEF IsThread
  <2> QED
    BY <2>1, <2>4, SoloGoes DEF r, x
<1> QED
  BY <1>2, <1>3

LEMMA UndoLeaves ==
    ASSUME NEW t, Solo(t), Step(t), Doing(t) = "undo"
    PROVE  \/ th[t].undo = {} /\ ledger' = ledger /\ MovesOn(t)
           \/ \E x \in th[t].undo :
                 /\ Post(Txn(UndoKey(Head(th[t].todo).to, x), "refund", -x.cash, -x.escrow))
                 /\ Left(t, th[t].todo) /\ th'[t].mem = th[t].mem
                 /\ Busy' = {t} /\ th'[t].todo = th[t].todo /\ th'[t].undo = th[t].undo \ {x}
<1> DEFINE r == th[t]
<1>1. Undo(t) /\ r.todo # <<>>
  BY Takes DEF Doing
<1>2. CASE r.undo = {}
  BY <1>1, <1>2, SoloMoves DEF Undo, MovesOn
<1>3. CASE r.undo # {}
  <2>1. PICK x \in r.undo : /\ Post(Txn(UndoKey(Head(r.todo).to, x), "refund", -x.cash, -x.escrow))
                            /\ th' = [th EXCEPT ![t].undo = r.undo \ {x}]
    BY <1>1, <1>3 DEF Undo
  <2> DEFINE q == [r EXCEPT !.undo = r.undo \ {x}]
  <2>2. th' = [th EXCEPT ![t] = q]
    BY <2>1 DEF Solo, ThreadsHold
  <2>3. r = [todo |-> r.todo, mem |-> r.mem, hold |-> r.hold, m |-> r.m, amount |-> r.amount,
             undo |-> r.undo]
    BY DEF Solo, ThreadsHold, IsThread
  <2>4. q = [todo |-> r.todo, mem |-> r.mem, hold |-> r.hold, m |-> r.m, amount |-> r.amount,
             undo |-> r.undo \ {x}]
    BY <2>3
  <2>5. /\ q.todo = r.todo /\ q.m = r.m /\ q.amount = r.amount /\ q.mem = r.mem
        /\ q.undo = r.undo \ {x}
    BY <2>4
  <2> HIDE DEF q, r
  <2>6. th'[t] = q /\ Busy' = {t}
    BY <1>1, <2>2, <2>5, SoloBusy DEF Solo
  <2> QED
    BY <1>1, <2>1, <2>5, <2>6 DEF Left, r
<1> QED
  BY <1>2, <1>3
-----------------------------------------------------------------------------
\* THE COPY OF THE RECORD

Record == [auth : BOOLEAN, charge : BOOLEAN, at : BOOLEAN]

\* A charge is recorded right after its capture was posted.
Charges(r) ==
    \A i \in DOMAIN r.todo :
       r.todo[i].do = "charge" => CaptureLine \in ledger \/ (i > 1 /\ r.todo[i-1].do = "post_capture")

RecordHolds == rec \in Record /\ (rec.charge => CaptureLine \in ledger)

\* The copy tells of no charge the ledger does not show, and of the delivery if the
\* record does.
CopyHolds(t) ==
    /\ th[t].mem \in Record
    /\ th[t].mem.charge => CaptureLine \in ledger
    /\ rec.at => th[t].mem.at
    /\ Charges(th[t])

LEMMA RecordCharged ==
    ASSUME NEW x \in Record, NEW y, y = [x EXCEPT !.charge = TRUE]
    PROVE  y \in Record /\ y.at = x.at
BY DEF Record

LEMMA RecordAuthorized ==
    ASSUME NEW x \in Record, NEW y, y = [x EXCEPT !.auth = TRUE]
    PROVE  y \in Record /\ y.at = x.at /\ y.charge = x.charge
BY DEF Record

LEMMA LedgerGrows ==
    ASSUME NEW t, Solo(t), Lines, Step(t)
    PROVE  ledger \subseteq ledger' /\ (Doing(t) = "post_capture" => CaptureLine \in ledger')
<1>1. ledger \subseteq ledger'
  BY StepPosts DEF Solo, Posts, Post
<1>2. ASSUME Doing(t) = "post_capture" PROVE CaptureLine \in ledger'
  <2>1. Post(CaptureLine)
    BY <1>2, Takes DEF Doing, PostCapture, CaptureLine, CaptureKey
  <2>2. CASE \E y \in ledger : y.key = CaptureLine.key
    <3>1. PICK y \in ledger : y.key = CaptureLine.key
      BY <2>2
    <3>2. CaptureLine.key.name = "capture"
      BY DEF CaptureLine, CaptureKey, Txn, Key
    <3>3. y = CaptureLine
      <4>1. y.key.name = "capture"
        BY <3>1, <3>2
      <4> QED
        BY <4>1, LineKinds DEF Lines
    <3> QED
      BY <1>1, <3>3
  <2>3. CASE ~ \E y \in ledger : y.key = CaptureLine.key
    BY <2>1, <2>3 DEF Post
  <2> QED
    BY <2>2, <2>3
<1> QED
  BY <1>1, <1>2

LEMMA CopyStep ==
    ASSUME NEW t, Solo(t), Lines, RecordHolds, CopyHolds(t), Step(t)
    PROVE  RecordHolds' /\ (rec.at => rec'.at) /\ (Busy' = {} \/ CopyHolds(t)')
<1> DEFINE s == th[t].todo
           w == Doing(t)
<1>1. ledger \subseteq ledger' /\ (w = "post_capture" => CaptureLine \in ledger')
  BY LedgerGrows
<1>2. s \in Seq(Lawful) /\ s # <<>> /\ 1 \in DOMAIN s /\ s[1] = Head(s) /\ Head(s) \in Lawful
  <2>1. s \in Seq(Lawful)
    BY DEF Solo, ThreadsHold, IsThread
  <2>2. s # <<>>
    BY Takes
  <2> QED
    BY <2>1, <2>2, Tails
<1>3. w \in Names
  BY <1>2 DEF Lawful, Doing
<1>4. w = "charge" => CaptureLine \in ledger
  BY <1>2 DEF CopyHolds, Charges, Doing
<1>5. w = "store" => rec' = th[t].mem
  BY Takes DEF Doing, Store
<1>6. w = "charge" => rec' = [th[t].mem EXCEPT !.charge = TRUE]
  BY Takes DEF Doing, Charge
<1>7. w \notin {"store", "charge"} => rec' = rec
  BY StepFrames
<1>8. RecordHolds' /\ (rec.at => rec'.at)
  <2>1. CASE w = "store"
    BY <1>1, <1>5, <2>1 DEF RecordHolds, CopyHolds
  <2>2. CASE w = "charge"
    <3>1. PICK y : y = [th[t].mem EXCEPT !.charge = TRUE] /\ rec' = y
      BY <1>6, <2>2
    <3>2. y \in Record /\ y.at = th[t].mem.at
      BY <3>1, RecordCharged DEF CopyHolds
    <3> QED
      BY <1>1, <1>4, <2>2, <3>1, <3>2 DEF RecordHolds, CopyHolds
  <2>3. CASE w \notin {"store", "charge"}
    BY <1>1, <1>7, <2>3 DEF RecordHolds
  <2> QED
    BY <2>1, <2>2, <2>3
<1>9. ASSUME Busy' # {}, Left(t, Tail(s)) PROVE Charges(th[t])'
  <2>1. th'[t].todo = Tail(s) /\ Tail(s) # <<>>
    BY <1>9 DEF Left
  <2>2. /\ \A i \in DOMAIN Tail(s) :
              i \in Nat /\ i >= 1 /\ i + 1 \in DOMAIN s /\ Tail(s)[i] = s[i+1]
        /\ \A i \in DOMAIN Tail(s) : i > 1 => i - 1 \in DOMAIN Tail(s)
    BY <1>2, Tails
  <2>3. ASSUME NEW i \in DOMAIN Tail(s), Tail(s)[i].do = "charge"
        PROVE  CaptureLine \in ledger' \/ (i > 1 /\ Tail(s)[i-1].do = "post_capture")
    <3>1. s[i+1].do = "charge" /\ i + 1 \in DOMAIN s /\ i \in Nat /\ i >= 1
      BY <2>2, <2>3
    <3>2. CaptureLine \in ledger \/ s[(i+1)-1].do = "post_capture"
      BY <3>1 DEF CopyHolds, Charges
    <3>3. (i+1) - 1 = i
      BY <3>1
    <3>4. CaptureLine \in ledger \/ s[i].do = "post_capture"
      BY <3>2, <3>3
    <3>5. CASE i = 1
      BY <1>1, <1>2, <3>4, <3>5 DEF Doing
    <3>6. CASE i > 1
      <4>1. i - 1 \in DOMAIN Tail(s) /\ Tail(s)[i-1] = s[(i-1)+1] /\ (i-1)+1 = i
        BY <2>2, <3>6
      <4> QED
        BY <1>1, <3>4, <3>6, <4>1
    <3> QED
      BY <3>1, <3>5, <3>6
  <2> QED
    BY <2>1, <2>3 DEF Charges
<1>10. ASSUME NEW z, z # <<>>, Left(t, z), \A i \in DOMAIN z : z[i].do # "charge"
       PROVE  Charges(th[t])'
  BY <1>10 DEF Left, Charges
<1>11. /\ \A i \in DOMAIN <<Do("release")>> : <<Do("release")>>[i].do # "charge"
       /\ \A i \in DOMAIN Declined : Declined[i].do # "charge"
       /\ <<Do("release")>> # <<>> /\ Declined # <<>>
  <2>1. Do("release").do = "release" /\ Set({"payment_authorizing"}, "cancelled").do = "set"
    BY DEF Do, Set
  <2>2. \A a : DOMAIN <<a>> = {1} /\ <<a>>[1] = a /\ <<a>> # <<>>
    OBVIOUS
  <2>3. \A a, b : DOMAIN <<a, b>> = {1, 2} /\ <<a, b>>[1] = a /\ <<a, b>>[2] = b /\ <<a, b>> # <<>>
    OBVIOUS
  <2> QED
    BY <2>1, <2>2, <2>3 DEF Declined
<1>12. ASSUME Busy' # {}
       PROVE  /\ Charges(th[t])'
              /\ \/ th'[t].mem = th[t].mem
                 \/ th'[t].mem = [th[t].mem EXCEPT !.auth = TRUE]
                 \/ w = "charge" /\ th'[t].mem = [th[t].mem EXCEPT !.charge = TRUE]
                 \/ w = "reread" /\ th'[t].mem = rec
  <2>1. CASE w \in {"store", "post_capture", "post_release", "post_reject", "post_refund", "void",
                    "refund", "seed", "capture", "commit", "release", "milestone", "look", "add",
                    "set", "reserve", "find", "charge", "reread"}
    <3>1. Left(t, Tail(s))
      BY <1>12, <2>1, StepLeaves DEF MovesOn
    <3> QED
      BY <1>9, <1>12, <2>1, <3>1, StepLeaves DEF MovesOn
  <2>2. CASE w \in {"spine", "authorize"}
    BY <1>9, <1>10, <1>11, <1>12, <2>2, StepLeaves DEF MovesOn
  <2>3. CASE w = "settled"
    BY <1>9, <1>12, <2>3, SettledLeaves
  <2>4. CASE w = "undo"
    <3>1. CASE MovesOn(t)
      BY <1>9, <1>12, <3>1 DEF MovesOn
    <3>2. CASE th'[t].todo = th[t].todo /\ th'[t].mem = th[t].mem
      BY <1>1, <3>2 DEF CopyHolds, Charges
    <3> QED
      BY <2>4, <3>1, <3>2, UndoLeaves
  <2> QED
    BY <1>3, <2>1, <2>2, <2>3, <2>4 DEF Names
<1>13. ASSUME Busy' # {} PROVE CopyHolds(t)'
  <2>1. rec'.at => th[t].mem.at
    <3>1. CASE w = "charge"
      <4>1. PICK y : y = [th[t].mem EXCEPT !.charge = TRUE] /\ rec' = y
        BY <1>6, <3>1
      <4> QED
        BY <4>1, RecordCharged DEF CopyHolds
    <3>2. CASE w # "charge"
      BY <1>5, <1>7, <3>2 DEF CopyHolds
    <3> QED
      BY <3>1, <3>2
  <2>2. /\ th'[t].mem \in Record /\ (th'[t].mem.charge => CaptureLine \in ledger')
        /\ rec'.at => th'[t].mem.at
    <3>1. CASE th'[t].mem = th[t].mem
      BY <1>1, <2>1, <3>1 DEF CopyHolds
    <3>2. CASE th'[t].mem = [th[t].mem EXCEPT !.auth = TRUE]
      <4>1. PICK y : y = [th[t].mem EXCEPT !.auth = TRUE] /\ th'[t].mem = y
        BY <3>2
      <4>2. y \in Record /\ y.at = th[t].mem.at /\ y.charge = th[t].mem.charge
        BY <4>1, RecordAuthorized DEF CopyHolds
      <4> QED
        BY <1>1, <2>1, <4>1, <4>2 DEF CopyHolds
    <3>3. CASE w = "charge" /\ th'[t].mem = [th[t].mem EXCEPT !.charge = TRUE]
      <4>1. PICK y : y = [th[t].mem EXCEPT !.charge = TRUE] /\ th'[t].mem = y
        BY <3>3
      <4>2. y \in Record /\ y.at = th[t].mem.at
        BY <4>1, RecordCharged DEF CopyHolds
      <4> QED
        BY <1>1, <1>4, <2>1, <3>3, <4>1, <4>2
    <3>4. CASE w = "reread" /\ th'[t].mem = rec
      BY <1>1, <1>7, <3>4 DEF RecordHolds
    <3> QED
      BY <1>12, <1>13, <3>1, <3>2, <3>3, <3>4
  <2> QED
    BY <1>12, <1>13, <2>2 DEF CopyHolds, Charges
<1> QED
  BY <1>8, <1>13

-----------------------------------------------------------------------------
\* WHERE A REQUEST STANDS: the plans that move money, step by step, and the books there

AllReleased == \A m \in Milestones : ms[m] = "released"
Judged      == Frozen \/ AllReleased

\* A request that leaves the books as they are, or posts the capture.
QuietDo == {"set", "store", "charge", "reread", "authorize", "find", "release", "commit", "capture",
            "post_capture", "void", "milestone"}
QuietTo == {"payment_authorizing", "confirmed", "fulfilling", "cancellation_pending", "cancelled"}
QuietStep(x) ==
    /\ x \in Lawful /\ x.do \in QuietDo
    /\ x.do = "set" => \/ x.to \in QuietTo
                       \/ x = Must({"disputed"}, "resolved")
                       \/ x = Must({"delivered", "accepted", "completed"}, "disputed")
Quiet(s) == \A i \in DOMAIN s : QuietStep(s[i])

\* PlaceOrder, until the milestones are seeded.
Place4 == <<Do("seed"), Do("authorize"), Do("store"), Set({"payment_authorizing"}, "confirmed")>>
Place3 == <<Do("add"), Do("seed"), Do("authorize"), Do("store"),
            Set({"payment_authorizing"}, "confirmed")>>
Place2 == <<Do("spine"), Do("add"), Do("seed"), Do("authorize"), Do("store"),
            Set({"payment_authorizing"}, "confirmed")>>
Place1 == <<Do("reserve"), Do("spine"), Do("add"), Do("seed"), Do("authorize"), Do("store"),
            Set({"payment_authorizing"}, "confirmed")>>
Placing(t) ==
    /\ Rest /\ state \in {"none", "payment_authorizing"}
    /\ th[t].todo \in {Place1, Place2, Place3, Place4}

\* MarkDelivered, with or without a capture at its end.
Deliver1(x) == <<Must({"fulfilling"}, "delivered"), Do("store")>> \o x
Deliver2(x) == <<Do("store")>> \o x
Delivered(t) == \E x \in {<<>>, CaptureSteps} : th[t].todo = Deliver2(x) /\ th[t].mem.at
Marking(t) ==
    /\ Rest
    /\ \/ \E x \in {<<>>, CaptureSteps} : th[t].todo = Deliver1(x) /\ th[t].mem.at
       \/ Delivered(t)

\* Accept and AutoAccept.
Accept2 == <<Do("post_release"), Set({"accepted"}, "completed")>> \o Extras
Accept3 == <<Set({"accepted"}, "completed")>> \o Extras
Accepting(t) ==
    /\ CaptureLine \in ledger /\ th[t].m = 0
    /\ \/ th[t].todo = ReleaseSteps /\ Rest
       \/ th[t].todo = Accept2 /\ state = "accepted" /\ Open
       \/ th[t].todo = Accept3 /\ state = "accepted" /\ Open /\ WholeKey \in Keys

\* AcceptMilestone.
Releases == [MustMilestone({"delivered"}, "released") EXCEPT !.must = FALSE]
Tranche4 == <<Set({"fulfilling"}, "completed")>> \o Extras
Tranche3 == <<Do("look"), Set({"fulfilling"}, "completed")>> \o Extras
Tranche2 == <<Releases, Do("look"), Set({"fulfilling"}, "completed")>> \o Extras
Tranche1 == <<Do("post_release"), Releases, Do("look"), Set({"fulfilling"}, "completed")>> \o Extras
AcceptingTranche(t) ==
    /\ schedule /\ Rest /\ CaptureLine \in ledger /\ th[t].m \in Milestones
    /\ \/ th[t].todo = Tranche1 /\ ~Judged
       \/ th[t].todo = Tranche2 \/ th[t].todo = Tranche3
       \/ th[t].todo = Tranche4 /\ AllReleased

\* FailMilestone.
Fail1 == <<MustMilestone({"pending", "delivered"}, "failed"),
           Set({"confirmed", "fulfilling"}, "disputed")>>
Fail2 == <<Set({"confirmed", "fulfilling"}, "disputed")>>
Failing(t) ==
    /\ schedule /\ Rest /\ th[t].m \in Milestones
    /\ th[t].todo = Fail1 \/ (th[t].todo = Fail2 /\ Frozen)

\* The end of a verdict that leaves the order as x.
Close1(x) == <<Do("store"), Set({"disputed"}, x)>>
Close2(x) == <<Set({"disputed"}, x)>>
Closing(t) ==
    /\ state = "disputed"
    /\ \E x \in Over : th[t].todo \in {Close1(x), Close2(x)} /\ Settles(x)

\* RefundUnreleased and PartialRefund.
Return1(k) == <<On("refund", k), On("post_refund", k), Do("store"), Set({"disputed"}, "resolved")>>
Return2(k) == <<On("post_refund", k), Do("store"), Set({"disputed"}, "resolved")>>
Returning(t, k) ==
    /\ state = "disputed" /\ OpenLedger /\ CaptureLine \in ledger /\ th[t].amount \in 1 .. Price
    /\ k = "unreleased" => th[t].amount = Unreleased /\ th[t].m = th[t].amount
    /\ k = "partial" => th[t].m = Least(th[t].amount, Escrow)
    /\ \/ th[t].todo = Return1(k) /\ Zero
       \/ th[t].todo = Return2(k) /\ OnlyBack(k) /\ back[k] = th[t].amount

\* Reject, with money in escrow.
Reject1 == <<Do("post_reject"), Set({"disputed"}, "resolved")>>
Rejecting(t) ==
    /\ state = "disputed" /\ Open /\ CaptureLine \in ledger
    /\ th[t].todo = Reject1 /\ th[t].amount = Escrow

\* FullRefund (k is "full") and RefundOrder (k is "refund"): the cash, then line by line.
Full1(k, s) == <<On("refund", k), Do("settled"), On("undo", k), Do("store"), s>>
Full2(k, s) == <<Do("settled"), On("undo", k), Do("store"), s>>
Full3(k, s) == <<On("undo", k), Do("store"), s>>

\* What is left to reverse is what the books still show.
Undoing(t, k) ==
    /\ th[t].undo \subseteq ledger /\ \A x \in th[t].undo : IsSettlement(x)
    /\ ~schedule =>
        /\ Escrow = SumFunctionOnSet(EscrowOf, th[t].undo)
        /\ Cash = SumFunctionOnSet(CashOf, th[t].undo)
        /\ \A x \in th[t].undo : UndoKey(k, x) \notin Keys
        /\ \A x, y \in th[t].undo : UndoKey(k, x) = UndoKey(k, y) => x = y
Refunding(t, k, s) ==
    /\ CaptureLine \in ledger
    /\ \/ th[t].todo = Full1(k, s) /\ Open /\ th[t].amount = Price
       \/ th[t].todo = Full2(k, s) /\ OpenLedger /\ OnlyBack(k) /\ back[k] = Price
       \/ th[t].todo = Full3(k, s) /\ OnlyBack(k) /\ back[k] = Price /\ Undoing(t, k)

Repaid  == Set({"refund_pending"}, "refunded")
Refunds == Set({"disputed"}, "refunded")
Repay0  == <<Must({"completed"}, "refund_pending"), On("refund", "refund"), Do("settled"),
             On("undo", "refund"), Do("store"), Repaid>>
Repay4  == <<Do("store"), Repaid>>
Repay5  == <<Repaid>>
Repaying(t) ==
    \/ th[t].todo = Repay0 /\ Rest /\ th[t].amount = Price /\ CaptureLine \in ledger
    \/ state = "refund_pending" /\ Refunding(t, "refund", Repaid)
    \/ state = "refund_pending" /\ Settles("refunded") /\ th[t].todo \in {Repay4, Repay5}

Point(t) ==
    \/ Rest /\ Quiet(th[t].todo)
    \/ Placing(t) \/ Marking(t) \/ Accepting(t) \/ AcceptingTranche(t) \/ Failing(t)
    \/ Closing(t) \/ Returning(t, "unreleased") \/ Returning(t, "partial") \/ Rejecting(t)
    \/ state = "disputed" /\ Refunding(t, "full", Refunds)
    \/ Repaying(t)

\* What a step of the only request does to the order's state and to its keys.
Turned(t) ==
    /\ \/ state' = state
       \/ state' \notin {"delivered", "accepted", "completed", "disputed"}
       \/ state' = "delivered" /\ Busy' = {t} /\ Delivered(t)'
       \/ state' = "accepted" /\ state = "delivered" /\ At(t, "set")
       \/ state' = "completed" /\ (state = "accepted" \/ AllReleased) /\ At(t, "set")
       \/ /\ state' = "disputed" /\ At(t, "set")
          /\ Frozen \/ state \in {"delivered", "accepted", "completed"}
    /\ UnreleasedKey \in Keys' \ Keys => Escrow' = 0 /\ state = "disputed"
    /\ \A m \in Milestones : Key("release", "", m) \in Keys' \ Keys => ~Judged
    /\ At(t, "seed") => OpenLedger /\ state \in {"none", "payment_authorizing"}

Follows(t) == (Busy' = {} /\ Rest') \/ (Busy' = {t} /\ Point(t)')
Ahead(t)   == Lines' /\ Follows(t) /\ Turned(t)
-----------------------------------------------------------------------------
\* A step that leaves the order's state, its ledger and the provider's refunds alone.
LEMMA StillStep ==
    ASSUME NEW t, Solo(t), Lines, Step(t),
           Doing(t) \in {"store", "charge", "reread", "reserve", "spine", "authorize", "find",
                         "release", "commit", "capture", "void", "settled", "milestone", "look"}
    PROVE  /\ UNCHANGED <<state, schedule, ledger, back>> /\ Lines' /\ Turned(t)
           /\ ~At(t, "set") /\ ~At(t, "seed")
           /\ Doing(t) \notin {"milestone"} => UNCHANGED ms
<1>1. UNCHANGED <<state, schedule, ledger, back>> /\ (Doing(t) # "milestone" => UNCHANGED ms)
  BY StepFrames
<1>2. ~At(t, "seed") /\ ~At(t, "set")
  BY DEF At, Doing
<1>3. Keys' = Keys /\ Lines'
  BY <1>1, MoneyStill
<1>4. Turned(t)
  BY <1>1, <1>2, <1>3 DEF Turned
<1> QED
  BY <1>1, <1>2, <1>3, <1>4

\* A step that does nothing to the money but turn the order's state.
LEMMA SetStep ==
    ASSUME NEW t, Solo(t), Lines, Step(t), Doing(t) = "set"
    PROVE  /\ UNCHANGED <<ledger, back, schedule, ms>> /\ Lines'
           /\ Escrow' = Escrow /\ Cash' = Cash /\ Keys' = Keys
           /\ At(t, "set") /\ ~At(t, "seed")
           /\ \/ /\ state \in Head(th[t].todo).from /\ state' = Head(th[t].todo).to
                 /\ MovesOn(t) /\ state \notin Final
              \/ /\ state \notin Head(th[t].todo).from /\ state' = state
                 /\ Busy' = {} \/ (MovesOn(t) /\ ~Head(th[t].todo).must)
           /\ Zero => Zero'
           /\ OpenLedger => OpenLedger'
           /\ Open => Open'
           /\ \A x : Settles(x) => Settles(x)'
           /\ state' = state /\ Rest => Rest'
<1>1. UNCHANGED <<ledger, back, schedule, ms>>
  BY StepFrames
<1>2. SetState(t) /\ th[t].todo # <<>>
  BY Takes DEF Doing
<1>3. At(t, "set") /\ ~At(t, "seed")
  BY <1>2 DEF SetState, At
<1>4. Lines' /\ Escrow' = Escrow /\ Cash' = Cash /\ Keys' = Keys
  BY <1>1 DEF Lines, Escrow, EscrowOf, Cash, CashOf, Keys
<1>5. (Zero => Zero') /\ (OpenLedger => OpenLedger') /\ (Open => Open')
  BY <1>1 DEF Zero, OpenLedger, Open
<1>6. \A k : OnlyBack(k) => OnlyBack(k)'
  BY <1>1 DEF OnlyBack
<1>7. \A x : Settles(x) => Settles(x)'
  BY <1>1, <1>4, <1>6 DEF Settles
<1>8. state' = state /\ Rest => Rest'
  BY <1>1, MoneyStill
<1>9. Head(th[t].todo) \in Lawful
  BY <1>2, Tails DEF Solo, ThreadsHold, IsThread
<1>10. state \in Head(th[t].todo).from => state \notin Final
  BY <1>2, <1>9 DEF Lawful, SetState, At
<1>11. (Moves(t) => MovesOn(t)) /\ (Ends(t) => Busy' = {})
  BY SoloMoves, SoloEnds DEF MovesOn
<1> QED
  BY <1>1, <1>2, <1>3, <1>4, <1>5, <1>7, <1>8, <1>10, <1>11 DEF SetState

LEMMA FollowsQuiet ==
    ASSUME NEW t, NEW s, Left(t, s), Quiet(s), Rest'
    PROVE  Follows(t)
<1>1. CASE s = <<>>
  BY <1>1 DEF Left, Follows
<1>2. CASE s # <<>>
  <2>1. Busy' = {t} /\ th'[t].todo = s
    BY <1>2 DEF Left
  <2>2. Quiet(th[t].todo)'
    BY <2>1 DEF Quiet
  <2> QED
    BY <2>1, <2>2 DEF Follows, Point
<1> QED
  BY <1>1, <1>2

LEMMA FollowsMoving ==
    ASSUME NEW t, MovesOn(t), Quiet(Tail(th[t].todo)), Rest'
    PROVE  Follows(t)
BY FollowsQuiet DEF MovesOn

LEMMA QuietPlans ==
    /\ Quiet(<<>>) /\ Quiet(<<Do("release")>>) /\ Quiet(Declined) /\ Quiet(Extras)
    /\ Quiet(CaptureSteps)
    /\ Quiet(<<Do("authorize"), Do("store"), Set({"payment_authorizing"}, "confirmed")>>)
    /\ Quiet(<<Must({"confirmed"}, "fulfilling"), Do("store")>>)
    /\ Quiet(<<Do("store")>> \o CaptureSteps) /\ Quiet(<<Do("store")>> \o <<>>)
    /\ Quiet(<<MustMilestone({"pending"}, "delivered"), Set({"confirmed"}, "fulfilling"),
               Do("reread")>> \o CaptureSteps)
    /\ Quiet(<<Must({"payment_authorizing", "confirmed"}, "cancellation_pending"), Do("void"),
               Set({"cancellation_pending"}, "cancelled"), Do("find"), Do("release")>>)
    /\ Quiet(<<Must({"delivered", "accepted", "completed"}, "disputed")>>)
    /\ Quiet(<<Must({"disputed"}, "resolved")>>)
    /\ Quiet(<<Set({"disputed"}, "fulfilling")>>)
<1>1. \A w \in QuietDo \ {"set", "milestone"} : QuietStep(Do(w))
  BY DoLawful DEF QuietStep, QuietDo, Names, Do
<1>2. /\ QuietStep(Set({"payment_authorizing"}, "confirmed"))
      /\ QuietStep(Set({"payment_authorizing"}, "cancelled"))
      /\ QuietStep(Must({"confirmed"}, "fulfilling"))
      /\ QuietStep(Set({"confirmed"}, "fulfilling"))
      /\ QuietStep(Must({"payment_authorizing", "confirmed"}, "cancellation_pending"))
      /\ QuietStep(Set({"cancellation_pending"}, "cancelled"))
      /\ QuietStep(Set({"disputed"}, "fulfilling"))
  BY SetsPlain, PlainIsLawful DEF QuietStep, QuietDo, QuietTo, Set, Must
<1>3. /\ QuietStep(Must({"delivered", "accepted", "completed"}, "disputed"))
      /\ QuietStep(Must({"disputed"}, "resolved"))
  BY SetsPlain, PlainIsLawful DEF QuietStep, QuietDo, Must
<1>4. QuietStep(MustMilestone({"pending"}, "delivered"))
  BY MilestonePlain, PlainIsLawful DEF QuietStep, QuietDo, MustMilestone
<1>5. /\ QuietStep(Do("store")) /\ QuietStep(Do("charge")) /\ QuietStep(Do("reread"))
      /\ QuietStep(Do("authorize")) /\ QuietStep(Do("find")) /\ QuietStep(Do("release"))
      /\ QuietStep(Do("commit")) /\ QuietStep(Do("capture")) /\ QuietStep(Do("post_capture"))
      /\ QuietStep(Do("void"))
  BY <1>1 DEF QuietDo
<1>6. Quiet(<<>>)
  BY DEF Quiet
<1>7. ASSUME NEW a, NEW b, NEW c, NEW d, NEW e,
             QuietStep(a), QuietStep(b), QuietStep(c), QuietStep(d), QuietStep(e)
      PROVE  /\ Quiet(<<a>>) /\ Quiet(<<a, b>>) /\ Quiet(<<a, b, c>>)
             /\ Quiet(<<a, b, c, d, e>>)
  BY <1>7 DEF Quiet
<1>8. ASSUME NEW s \in Seq(Lawful), NEW u \in Seq(Lawful), Quiet(s), Quiet(u)
      PROVE  Quiet(s \o u)
  <2>1. \A i \in DOMAIN (s \o u) :
           \/ i \in DOMAIN s /\ (s \o u)[i] = s[i]
           \/ i - Len(s) \in DOMAIN u /\ (s \o u)[i] = u[i - Len(s)]
    BY Concats
  <2> QED
    BY <1>8, <2>1 DEF Quiet
<1>9. ASSUME NEW a, NEW b, NEW c, QuietStep(a), QuietStep(b), QuietStep(c)
      PROVE  <<a>> \in Seq(Lawful) /\ <<a, b, c>> \in Seq(Lawful)
  <2>1. a \in Lawful /\ b \in Lawful /\ c \in Lawful
    BY <1>9 DEF QuietStep
  <2> QED
    BY <2>1
<1>10. Quiet(CaptureSteps) /\ CaptureSteps \in Seq(Lawful)
  BY <1>5, <1>7, <1>9 DEF CaptureSteps
<1>11. /\ Quiet(<<Do("store")>> \o CaptureSteps) /\ Quiet(<<Do("store")>> \o <<>>)
       /\ Quiet(<<MustMilestone({"pending"}, "delivered"), Set({"confirmed"}, "fulfilling"),
                  Do("reread")>> \o CaptureSteps)
  <2>0. <<>> \in Seq(Lawful)
    OBVIOUS
  <2>1. Quiet(<<Do("store")>>) /\ <<Do("store")>> \in Seq(Lawful)
    BY <1>5, <1>7, <1>9
  <2>2. ASSUME NEW a, NEW b, NEW c, QuietStep(a), QuietStep(b), QuietStep(c)
        PROVE  Quiet(<<a, b, c>> \o CaptureSteps)
    BY <1>7, <1>8, <1>9, <1>10, <2>2
  <2>3. Quiet(<<Do("store")>> \o CaptureSteps) /\ Quiet(<<Do("store")>> \o <<>>)
    BY <1>6, <1>8, <1>10, <2>0, <2>1
  <2> QED
    BY <1>2, <1>4, <1>5, <2>2, <2>3
<1>12. /\ Quiet(<<Do("release")>>) /\ Quiet(Declined) /\ Quiet(Extras)
       /\ Quiet(<<Do("authorize"), Do("store"), Set({"payment_authorizing"}, "confirmed")>>)
       /\ Quiet(<<Must({"confirmed"}, "fulfilling"), Do("store")>>)
  BY <1>2, <1>5, <1>7 DEF Declined, Extras
<1>13. /\ Quiet(<<Must({"payment_authorizing", "confirmed"}, "cancellation_pending"), Do("void"),
                  Set({"cancellation_pending"}, "cancelled"), Do("find"), Do("release")>>)
  BY <1>2, <1>5, <1>7
<1>14. /\ Quiet(<<Must({"delivered", "accepted", "completed"}, "disputed")>>)
       /\ Quiet(<<Must({"disputed"}, "resolved")>>)
       /\ Quiet(<<Set({"disputed"}, "fulfilling")>>)
  BY <1>2, <1>3, <1>7
<1> QED
  BY <1>6, <1>10, <1>11, <1>12, <1>13, <1>14

LEMMA QuietTail ==
    ASSUME NEW s \in Seq(Lawful), s # <<>>, Quiet(s)
    PROVE  QuietStep(Head(s)) /\ Quiet(Tail(s))
BY Tails DEF Quiet

\* The capture is posted: where it is the first line, the whole price is in escrow.
LEMMA CapturePosted ==
    ASSUME NEW t, Solo(t), Lines, Step(t), Doing(t) = "post_capture", Rest
    PROVE  Lines' /\ Rest' /\ Turned(t)
<1>1. UNCHANGED <<state, back, schedule>>
  BY StepFrames
<1>2. Post(CaptureLine)
  BY Takes DEF Doing, PostCapture, CaptureLine, CaptureKey
<1>3. IsSettlement(CaptureLine) /\ CaptureLine.kind = "capture" /\ CaptureLine.key.name = "capture"
      /\ CaptureLine.escrow = Price
  BY DEF IsSettlement, CaptureLine, CaptureKey, Txn, Key
<1>4. /\ Lines' /\ ledger \subseteq ledger' /\ CaptureLine \in ledger'
      /\ \/ ledger' = ledger /\ Escrow' = Escrow /\ Cash' = Cash /\ Keys' = Keys
         \/ /\ ledger' = ledger \cup {CaptureLine} /\ CaptureLine.key \notin Keys
            /\ Keys' = Keys \cup {CaptureLine.key} /\ Escrow' = Escrow + CaptureLine.escrow
            /\ Cash' = Cash + CaptureLine.cash
  BY <1>1, <1>2, <1>3, LinePosted
<1>5. CASE ledger' = ledger
  <2>1. Rest' /\ Keys' = Keys
    BY <1>1, <1>5, MoneyStill
  <2>2. ~At(t, "seed")
    BY DEF At, Doing
  <2> QED
    BY <1>1, <1>4, <2>1, <2>2 DEF Turned
<1>6. CASE ledger' # ledger
  <2>1. ledger = {} /\ ledger' = {CaptureLine} /\ Keys' = {CaptureLine.key}
    <3>1. CaptureLine \notin ledger
      BY <1>4, <1>6
    <3>2. ledger = {}
      BY <3>1 DEF Lines
    <3> QED
      BY <1>4, <1>6, <3>2 DEF Keys
  <2>2. Escrow = 0
    BY <2>1, SumEmpty DEF Escrow
  <2>3. Escrow' >= 0
    BY <1>3, <1>4, <1>6, <2>2, PriceAssumption
  <2>4. UnreleasedKey \notin Keys' /\ \A m : Key("release", "", m) \notin Keys'
    <3>1. UnreleasedKey.name = "unreleased" /\ \A m : Key("release", "", m).name = "release"
      BY DEF UnreleasedKey, Key
    <3> QED
      BY <1>3, <2>1, <3>1
  <2>5. ~At(t, "seed")
    BY DEF At, Doing
  <2>6. Turned(t)
    BY <1>1, <2>4, <2>5 DEF Turned
  <2>7. Rest'
    <3>1. CASE state \in Over /\ Settles(state)
      <4>1. state # "refunded"
        BY <2>1, <3>1 DEF Settles
      <4>2. \E k \in RefundKeys : OnlyBack(k)'
        BY <1>1, <3>1 DEF Settles, OnlyBack
      <4> QED
        BY <1>1, <2>3, <3>1, <4>1, <4>2 DEF Rest, Settles
    <3>2. CASE state \notin Over
      <4>1. Zero' /\ OpenLedger'
        BY <1>1, <1>3, <2>1, <3>2 DEF Rest, Open, Zero, OpenLedger
      <4>2. ~schedule => state # "completed"
        BY <2>1, <3>2 DEF Rest, Keys
      <4> QED
        BY <1>1, <3>2, <4>1, <4>2 DEF Rest, Open
    <3> QED
      BY <3>1, <3>2 DEF Rest
  <2> QED
    BY <1>4, <2>6, <2>7
<1> QED
  BY <1>5, <1>6

LEMMA QuietAhead ==
    ASSUME NEW t, Solo(t), Lines, Step(t), Rest, Quiet(th[t].todo)
    PROVE  Ahead(t)
<1> DEFINE s == th[t].todo
           x == Head(s)
           w == Doing(t)
<1>1. s \in Seq(Lawful) /\ s # <<>>
  BY Takes DEF Solo, ThreadsHold, IsThread
<1>2. QuietStep(x) /\ Quiet(Tail(s)) /\ w \in QuietDo
  BY <1>1, QuietTail DEF QuietStep, Doing
<1>3. CASE w \in {"store", "charge", "reread", "find", "release", "commit", "capture", "void",
                  "milestone"}
  <2>1. Rest' /\ Lines' /\ Turned(t)
    BY <1>3, StillStep, MoneyStill
  <2>2. Busy' = {} \/ Left(t, Tail(s))
    BY <1>3, StepLeaves DEF MovesOn
  <2>3. Follows(t)
    BY <1>2, <2>1, <2>2, FollowsQuiet DEF Follows
  <2> QED
    BY <2>1, <2>3 DEF Ahead
<1>4. CASE w = "authorize"
  <2>1. Rest' /\ Lines' /\ Turned(t)
    BY <1>4, StillStep, MoneyStill
  <2>2. Left(t, Declined) \/ Left(t, Tail(s))
    BY <1>4, StepLeaves
  <2>3. Follows(t)
    BY <1>2, <2>1, <2>2, FollowsQuiet, QuietPlans
  <2> QED
    BY <2>1, <2>3 DEF Ahead
<1>5. CASE w = "post_capture"
  <2>1. Lines' /\ Rest' /\ Turned(t)
    BY <1>5, CapturePosted
  <2>2. MovesOn(t)
    BY <1>5, StepLeaves
  <2> QED
    BY <1>2, <2>1, <2>2, FollowsMoving DEF Ahead
<1>6. CASE w = "set"
  <2>1. /\ UNCHANGED <<schedule, ms>> /\ Lines' /\ Keys' = Keys
        /\ At(t, "set") /\ ~At(t, "seed")
        /\ (state \in x.from /\ state' = x.to /\ MovesOn(t) /\ state \notin Final)
              \/ (state' = state /\ (Busy' = {} \/ MovesOn(t)))
        /\ Open => Open'
        /\ \A y : Settles(y) => Settles(y)'
        /\ state' = state /\ Rest => Rest'
    BY <1>6, SetStep
  <2>2. CASE state' = state
    <3>1. Turned(t)
      BY <2>1, <2>2 DEF Turned
    <3>2. Follows(t)
      BY <1>2, <2>1, <2>2, FollowsMoving DEF Follows
    <3> QED
      BY <2>1, <3>1, <3>2 DEF Ahead
  <2>3. CASE state \in x.from /\ state' = x.to /\ MovesOn(t) /\ state \notin Final
    <3>1. Open /\ Open' /\ state \notin Over
      BY <2>1, <2>3 DEF Rest, Over, Final
    <3>2. \/ x.to \in QuietTo
          \/ x = Must({"disputed"}, "resolved")
          \/ x = Must({"delivered", "accepted", "completed"}, "disputed")
      BY <1>2, <1>6 DEF QuietStep, Doing
    <3>3. CASE x.to \in QuietTo
      <4>1. Rest'
        BY <2>3, <3>1, <3>3 DEF Rest, QuietTo, Over
      <4>2. Turned(t)
        BY <2>1, <2>3, <3>3 DEF Turned, QuietTo
      <4> QED
        BY <1>2, <2>1, <2>3, <4>1, <4>2, FollowsMoving DEF Ahead
    <3>4. CASE x = Must({"disputed"}, "resolved")
      <4>1. state' = "resolved"
        BY <2>3, <3>4 DEF Must
      <4>2. Rest'
        BY <2>1, <3>1, <4>1, OpenSettles DEF Rest, Over
      <4>3. Turned(t)
        BY <2>1, <4>1 DEF Turned
      <4> QED
        BY <1>2, <2>1, <2>3, <4>2, <4>3, FollowsMoving DEF Ahead
    <3>5. CASE x = Must({"delivered", "accepted", "completed"}, "disputed")
      <4>1. state' = "disputed" /\ state \in {"delivered", "accepted", "completed"}
        BY <2>3, <3>5 DEF Must
      <4>2. Rest'
        BY <3>1, <4>1 DEF Rest, Over
      <4>3. Turned(t)
        BY <2>1, <4>1 DEF Turned
      <4> QED
        BY <1>2, <2>1, <2>3, <4>2, <4>3, FollowsMoving DEF Ahead
    <3> QED
      BY <3>2, <3>3, <3>4, <3>5
  <2> QED
    BY <2>1, <2>2, <2>3
<1> QED
  BY <1>2, <1>3, <1>4, <1>5, <1>6 DEF QuietDo

\* What is first in a plan, and what is left of it.
LEMMA Peels ==
    ASSUME NEW a, NEW b, NEW c, NEW d, NEW x \in Seq(Lawful)
    PROVE  /\ Head(<<a>> \o x) = a /\ Tail(<<a>> \o x) = x /\ <<a>> \o x # <<>>
           /\ Head(<<a, b>> \o x) = a /\ Tail(<<a, b>> \o x) = <<b>> \o x /\ <<a, b>> \o x # <<>>
           /\ Head(<<a, b, c>> \o x) = a /\ Tail(<<a, b, c>> \o x) = <<b, c>> \o x
           /\ <<a, b, c>> \o x # <<>>
           /\ Head(<<a, b, c, d>> \o x) = a /\ Tail(<<a, b, c, d>> \o x) = <<b, c, d>> \o x
           /\ <<a, b, c, d>> \o x # <<>>
<1>1. Head(<<a>> \o x) = a /\ <<a>> \o x # <<>>
  OBVIOUS
<1>2. Tail(<<a>> \o x) = x
  OBVIOUS
<1>3. Head(<<a, b>> \o x) = a /\ <<a, b>> \o x # <<>>
  OBVIOUS
<1>4. Tail(<<a, b>> \o x) = <<b>> \o x
  OBVIOUS
<1>5. Head(<<a, b, c>> \o x) = a /\ <<a, b, c>> \o x # <<>>
  OBVIOUS
<1>6. Tail(<<a, b, c>> \o x) = <<b, c>> \o x
  OBVIOUS
<1>7. Head(<<a, b, c, d>> \o x) = a /\ <<a, b, c, d>> \o x # <<>>
  OBVIOUS
<1>8. Tail(<<a, b, c, d>> \o x) = <<b, c, d>> \o x
  OBVIOUS
<1> QED
  BY <1>1, <1>2, <1>3, <1>4, <1>5, <1>6, <1>7, <1>8

LEMMA Starts5 ==
    ASSUME NEW a, NEW b, NEW c, NEW d, NEW e
    PROVE  /\ Head(<<a>>) = a /\ Tail(<<a>>) = <<>> /\ <<a>> # <<>>
           /\ Head(<<a, b>>) = a /\ Tail(<<a, b>>) = <<b>> /\ <<a, b>> # <<>>
           /\ Head(<<a, b, c>>) = a /\ Tail(<<a, b, c>>) = <<b, c>> /\ <<a, b, c>> # <<>>
           /\ Head(<<a, b, c, d>>) = a /\ Tail(<<a, b, c, d>>) = <<b, c, d>> /\ <<a, b, c, d>> # <<>>
           /\ Head(<<a, b, c, d, e>>) = a /\ Tail(<<a, b, c, d, e>>) = <<b, c, d, e>>
           /\ <<a, b, c, d, e>> # <<>>
<1>1. Head(<<a>>) = a /\ Tail(<<a>>) = <<>> /\ <<a>> # <<>>
  OBVIOUS
<1>2. Head(<<a, b>>) = a /\ Tail(<<a, b>>) = <<b>> /\ <<a, b>> # <<>>
  OBVIOUS
<1>3. Head(<<a, b, c>>) = a /\ Tail(<<a, b, c>>) = <<b, c>> /\ <<a, b, c>> # <<>>
  OBVIOUS
<1>4. Head(<<a, b, c, d>>) = a /\ Tail(<<a, b, c, d>>) = <<b, c, d>> /\ <<a, b, c, d>> # <<>>
  OBVIOUS
<1>5. Head(<<a, b, c, d, e>>) = a /\ Tail(<<a, b, c, d, e>>) = <<b, c, d, e>>
  OBVIOUS
<1>6. <<a, b, c, d, e>> # <<>>
  OBVIOUS
<1> QED
  BY <1>1, <1>2, <1>3, <1>4, <1>5, <1>6

LEMMA ShortPlans ==
    /\ <<>> \in Seq(Lawful) /\ CaptureSteps \in Seq(Lawful) /\ Extras \in Seq(Lawful)
    /\ Extras # <<>>
<1>1. CaptureSteps \in Seq(Lawful) /\ Extras \in Seq(Lawful)
  BY CaptureSound, ExtrasSound DEF Sound
<1>2. Extras # <<>> /\ <<>> \in Seq(Lawful)
  BY DEF Extras
<1> QED
  BY <1>1, <1>2

\* The heads and the tails of the plans.
LEMMA PlacePlans ==
    /\ Head(Place1).do = "reserve" /\ Tail(Place1) = Place2
    /\ Head(Place2).do = "spine" /\ Tail(Place2) = Place3
    /\ Head(Place3).do = "add" /\ Tail(Place3) = Place4
    /\ Head(Place4).do = "seed"
    /\ Tail(Place4) = <<Do("authorize"), Do("store"), Set({"payment_authorizing"}, "confirmed")>>
    /\ Place1 # <<>> /\ Place2 # <<>> /\ Place3 # <<>> /\ Place4 # <<>>
<1>1. Head(Place1) = Do("reserve") /\ Tail(Place1) = Place2 /\ Place1 # <<>>
  BY DEF Place1, Place2
<1>2. Head(Place2) = Do("spine") /\ Tail(Place2) = Place3 /\ Place2 # <<>>
  BY DEF Place2, Place3
<1>3. Head(Place3) = Do("add") /\ Tail(Place3) = Place4 /\ Place3 # <<>>
  BY DEF Place3, Place4
<1>4. /\ Head(Place4) = Do("seed") /\ Place4 # <<>>
      /\ Tail(Place4) = <<Do("authorize"), Do("store"), Set({"payment_authorizing"}, "confirmed")>>
  BY Starts5 DEF Place4
<1>5. \A v : Do(v).do = v
  BY DEF Do
<1> QED
  BY <1>1, <1>2, <1>3, <1>4, <1>5

LEMMA PlacingAhead ==
    ASSUME NEW t, Solo(t), Lines, Step(t), Placing(t)
    PROVE  Ahead(t)
<1> DEFINE s == th[t].todo
           w == Doing(t)
<1>0. Rest /\ state \in {"none", "payment_authorizing"} /\ s \in {Place1, Place2, Place3, Place4}
  BY DEF Placing
<1>1. ASSUME s \in {Place1, Place2, Place3}, UNCHANGED <<state, schedule, ledger, back>>,
             Left(t, Tail(s))
      PROVE  Follows(t)
  <2>1. Rest'
    BY <1>0, <1>1, MoneyStill
  <2>2. Busy' = {t} /\ th'[t].todo \in {Place2, Place3, Place4}
    BY <1>1, PlacePlans DEF Left
  <2>3. Placing(t)'
    BY <1>0, <1>1, <2>1, <2>2 DEF Placing
  <2> QED
    BY <2>2, <2>3 DEF Follows, Point
<1>2. CASE s \in {Place1, Place2}
  <2>1. w \in {"reserve", "spine"}
    BY <1>2, PlacePlans DEF Doing
  <2>2. UNCHANGED <<state, schedule, ledger, back>> /\ Lines' /\ Turned(t)
    BY <2>1, StillStep
  <2>3. Rest'
    BY <1>0, <2>2, MoneyStill
  <2>4. Busy' = {} \/ Left(t, Tail(s)) \/ Left(t, <<Do("release")>>)
    BY <2>1, StepLeaves DEF MovesOn
  <2>5. Left(t, <<Do("release")>>) => Follows(t)
    BY <2>3, FollowsQuiet, QuietPlans
  <2>6. Follows(t)
    BY <1>1, <1>2, <2>2, <2>3, <2>4, <2>5 DEF Follows
  <2> QED
    BY <2>2, <2>6 DEF Ahead
<1>3. CASE s = Place3
  <2>1. w = "add"
    BY <1>3, PlacePlans DEF Doing
  <2>2. Add(t) /\ ~At(t, "seed")
    BY <2>1, Takes DEF Doing, At
  <2>3. UNCHANGED <<ledger, back, schedule>> /\ (Busy' = {} \/ MovesOn(t))
    BY <2>1, StepFrames, StepLeaves
  <2>4. Lines' /\ Keys' = Keys
    BY <2>3 DEF Lines, Keys
  <2>5. \/ state = "none" /\ state' = "payment_authorizing"
        \/ state' = state
    BY <2>2 DEF Add
  <2>6. Turned(t)
    BY <2>2, <2>4, <2>5 DEF Turned
  <2>7. Rest' /\ state' \in {"none", "payment_authorizing"}
    <3>1. Open
      BY <1>0 DEF Rest, Over
    <3>2. Open'
      BY <2>3, <3>1 DEF Open, Zero, OpenLedger
    <3> QED
      BY <1>0, <2>5, <3>2 DEF Rest, Over
  <2>8. MovesOn(t) => Busy' = {t} /\ Placing(t)'
    BY <1>3, <2>7, PlacePlans DEF MovesOn, Left, Placing
  <2>9. Follows(t)
    BY <2>3, <2>7, <2>8 DEF Follows, Point
  <2> QED
    BY <2>4, <2>6, <2>9 DEF Ahead
<1>4. CASE s = Place4
  <2>1. w = "seed"
    BY <1>4, PlacePlans DEF Doing
  <2>2. UNCHANGED <<state, ledger, back, schedule>> /\ MovesOn(t)
    BY <2>1, StepFrames, StepLeaves
  <2>3. Lines' /\ Keys' = Keys /\ Rest'
    BY <1>0, <2>2, MoneyStill
  <2>4. OpenLedger
    BY <1>0 DEF Rest, Over, Open
  <2>5. Turned(t)
    BY <1>0, <2>2, <2>3, <2>4 DEF Turned
  <2>6. Quiet(Tail(s))
    BY <1>4, PlacePlans, QuietPlans
  <2>7. Follows(t)
    BY <2>2, <2>3, <2>6, FollowsMoving
  <2> QED
    BY <2>3, <2>5, <2>7 DEF Ahead
<1> QED
  BY <1>0, <1>2, <1>3, <1>4

LEMMA DeliverPlans ==
    ASSUME NEW x \in {<<>>, CaptureSteps}
    PROVE  /\ Head(Deliver1(x)) = Must({"fulfilling"}, "delivered") /\ Tail(Deliver1(x)) = Deliver2(x)
           /\ Head(Deliver2(x)).do = "store" /\ Tail(Deliver2(x)) = x /\ Quiet(x)
           /\ Deliver2(x) # <<>>
<1>1. x \in Seq(Lawful) /\ Quiet(x)
  BY ShortPlans, QuietPlans
<1>2. \A v : Do(v).do = v
  BY DEF Do
<1> QED
  BY <1>1, <1>2, Peels DEF Deliver1, Deliver2

LEMMA MarkingAhead ==
    ASSUME NEW t, Solo(t), Lines, Step(t), Marking(t)
    PROVE  Ahead(t)
<1> DEFINE s == th[t].todo
           w == Doing(t)
<1>1. PICK x \in {<<>>, CaptureSteps} : (s = Deliver1(x) \/ s = Deliver2(x)) /\ th[t].mem.at
  BY DEF Marking, Delivered
<1>2. Rest
  BY DEF Marking
<1>3. CASE s = Deliver1(x)
  <2>1. w = "set" /\ Head(s).from = {"fulfilling"} /\ Head(s).to = "delivered" /\ Head(s).must
    <3>1. Head(s) = Must({"fulfilling"}, "delivered")
      BY <1>3, DeliverPlans
    <3> QED
      BY <3>1 DEF Doing, Must
  <2>2. /\ UNCHANGED <<schedule, ms>> /\ Lines' /\ Keys' = Keys /\ ~At(t, "seed")
        /\ \/ state = "fulfilling" /\ state' = "delivered" /\ MovesOn(t)
           \/ state' = state /\ Busy' = {}
        /\ Open => Open'
        /\ state' = state /\ Rest => Rest'
    BY <2>1, SetStep
  <2>3. CASE state' = state /\ Busy' = {}
    BY <1>2, <2>2, <2>3 DEF Ahead, Follows, Turned
  <2>4. CASE state = "fulfilling" /\ state' = "delivered" /\ MovesOn(t)
    <3>1. Busy' = {t} /\ th'[t].todo = Deliver2(x) /\ th'[t].mem.at
      BY <1>1, <1>3, <2>4, DeliverPlans DEF MovesOn, Left, Solo
    <3>2. Rest'
      BY <1>2, <2>2, <2>4 DEF Rest, Over
    <3>3. Delivered(t)'
      BY <3>1 DEF Delivered
    <3>4. Marking(t)'
      BY <3>2, <3>3 DEF Marking
    <3>5. Turned(t)
      BY <2>2, <2>4, <3>1, <3>3 DEF Turned
    <3> QED
      BY <2>2, <3>1, <3>4, <3>5 DEF Ahead, Follows, Point
  <2> QED
    BY <2>2, <2>3, <2>4
<1>4. CASE s = Deliver2(x)
  <2>1. w = "store" /\ Quiet(Tail(s))
    BY <1>4, DeliverPlans DEF Doing
  <2>2. Rest' /\ Lines' /\ Turned(t)
    BY <1>2, <2>1, StillStep, MoneyStill
  <2>3. MovesOn(t)
    BY <2>1, StepLeaves
  <2> QED
    BY <2>1, <2>2, <2>3, FollowsMoving DEF Ahead
<1> QED
  BY <1>1, <1>3, <1>4

LEMMA AcceptPlans ==
    /\ Head(ReleaseSteps) = Must({"delivered"}, "accepted") /\ Tail(ReleaseSteps) = Accept2
    /\ Head(Accept2).do = "post_release" /\ Tail(Accept2) = Accept3 /\ Accept2 # <<>>
    /\ Head(Accept3) = Set({"accepted"}, "completed") /\ Tail(Accept3) = Extras /\ Accept3 # <<>>
    /\ Extras # <<>>
<1>1. \A v : Do(v).do = v
  BY DEF Do
<1> QED
  BY <1>1, Peels, ShortPlans DEF ReleaseSteps, Accept2, Accept3

\* The whole price is released, or was.
LEMMA WholeReleased ==
    ASSUME NEW t, Solo(t), Lines, Step(t), Doing(t) = "post_release", th[t].m \in 0 .. Price,
           CaptureLine \in ledger, ~schedule => th[t].m = 0, Open
    PROVE  /\ Lines' /\ Open' /\ CaptureLine \in ledger' /\ UNCHANGED <<state, back, schedule, ms>>
           /\ Key("release", "", th[t].m) \in Keys'
           /\ Keys' \subseteq Keys \cup {Key("release", "", th[t].m)}
<1> DEFINE m == th[t].m
           x == ReleaseLine(m)
<1>1. UNCHANGED <<state, back, schedule, ms>>
  BY StepFrames
<1>2. Post(x)
  BY Takes DEF Doing, PostRelease, ReleaseLine
<1>3. x.key = Key("release", "", m) /\ x.kind = "release"
  BY DEF ReleaseLine, Txn
<1>4. x.key.name = "release" /\ x.key.m = m
  BY DEF ReleaseLine, Txn, Key
<1>5. IsSettlement(x)
  BY DEF IsSettlement
<1> HIDE DEF x
<1>6. x.kind # "refund"
  BY <1>3
<1>7. /\ Lines' /\ ledger \subseteq ledger' /\ CaptureLine \in ledger' /\ x.key \in Keys'
      /\ (ledger' = ledger /\ Keys' = Keys) \/ (ledger' = ledger \cup {x} /\ Keys' = Keys \cup {x.key})
  BY <1>1, <1>2, <1>4, <1>5, <1>6, LinePosted
<1>8. Open'
  BY <1>1, <1>4, <1>7 DEF Open, OpenLedger, Zero
<1> QED
  BY <1>1, <1>3, <1>7, <1>8

LEMMA AcceptingAhead ==
    ASSUME NEW t, Solo(t), Lines, Step(t), Accepting(t)
    PROVE  Ahead(t)
<1> DEFINE s == th[t].todo
           w == Doing(t)
<1>0. CaptureLine \in ledger /\ th[t].m = 0
  BY DEF Accepting
<1>1. CASE s = ReleaseSteps /\ Rest
  <2>1. w = "set" /\ Head(s).from = {"delivered"} /\ Head(s).to = "accepted" /\ Head(s).must
    <3>1. Head(s) = Must({"delivered"}, "accepted")
      BY <1>1, AcceptPlans
    <3> QED
      BY <3>1 DEF Doing, Must
  <2>2. /\ UNCHANGED <<schedule, ms, ledger>> /\ Lines' /\ Keys' = Keys /\ ~At(t, "seed") /\ At(t, "set")
        /\ \/ state = "delivered" /\ state' = "accepted" /\ MovesOn(t)
           \/ state' = state /\ Busy' = {}
        /\ Open => Open'
        /\ state' = state /\ Rest => Rest'
    BY <2>1, SetStep
  <2>3. CASE state' = state /\ Busy' = {}
    BY <1>1, <2>2, <2>3 DEF Ahead, Follows, Turned
  <2>4. CASE state = "delivered" /\ state' = "accepted" /\ MovesOn(t)
    <3>1. Busy' = {t} /\ th'[t].todo = Accept2 /\ th'[t].m = 0
      BY <1>0, <1>1, <2>4, AcceptPlans DEF MovesOn, Left
    <3>2. Open'
      BY <1>1, <2>2, <2>4 DEF Rest, Over
    <3>3. Accepting(t)'
      BY <1>0, <2>2, <2>4, <3>1, <3>2 DEF Accepting
    <3>4. Turned(t)
      BY <2>2, <2>4 DEF Turned
    <3> QED
      BY <2>2, <3>1, <3>3, <3>4 DEF Ahead, Follows, Point
  <2> QED
    BY <2>2, <2>3, <2>4
<1>2. CASE s = Accept2 /\ state = "accepted" /\ Open
  <2>1. w = "post_release" /\ 0 \in 0 .. Price
    BY <1>2, AcceptPlans, PriceAssumption DEF Doing
  <2>2. /\ Lines' /\ Open' /\ CaptureLine \in ledger' /\ UNCHANGED <<state, back, schedule, ms>>
        /\ WholeKey \in Keys' /\ Keys' \subseteq Keys \cup {WholeKey}
    BY <1>0, <1>2, <2>1, WholeReleased DEF WholeKey
  <2>3. MovesOn(t)
    BY <2>1, StepLeaves
  <2>4. Busy' = {t} /\ th'[t].todo = Accept3 /\ th'[t].m = 0
    BY <1>0, <1>2, <2>3, AcceptPlans DEF MovesOn, Left
  <2>5. Accepting(t)'
    BY <1>2, <2>2, <2>4 DEF Accepting
  <2>6. WholeKey # UnreleasedKey /\ \A m \in Milestones : WholeKey # Key("release", "", m)
    <3>1. WholeKey.name = "release" /\ UnreleasedKey.name = "unreleased" /\ WholeKey.m = 0
      BY DEF WholeKey, UnreleasedKey, Key
    <3>2. \A m \in Milestones : Key("release", "", m).m = m /\ m # 0
      BY PriceAssumption DEF Key, Milestones
    <3> QED
      BY <3>1, <3>2
  <2>7. ~At(t, "seed")
    BY <2>1 DEF At, Doing
  <2>8. Turned(t)
    BY <2>2, <2>6, <2>7 DEF Turned
  <2> QED
    BY <2>2, <2>4, <2>5, <2>8 DEF Ahead, Follows, Point
<1>3. CASE s = Accept3 /\ state = "accepted" /\ Open /\ WholeKey \in Keys
  <2>1. w = "set" /\ Head(s).from = {"accepted"} /\ Head(s).to = "completed"
    <3>1. Head(s) = Set({"accepted"}, "completed")
      BY <1>3, AcceptPlans
    <3> QED
      BY <3>1 DEF Doing, Set
  <2>2. /\ UNCHANGED <<schedule, ms, ledger>> /\ Lines' /\ Keys' = Keys /\ ~At(t, "seed") /\ At(t, "set")
        /\ state' = "completed" /\ MovesOn(t)
        /\ Open'
    BY <1>3, <2>1, SetStep
  <2>3. Rest'
    BY <1>3, <2>2 DEF Rest, Over
  <2>4. Turned(t)
    BY <1>3, <2>2 DEF Turned
  <2>5. Follows(t)
    BY <1>3, <2>2, <2>3, AcceptPlans, QuietPlans, FollowsMoving
  <2> QED
    BY <2>2, <2>4, <2>5 DEF Ahead
<1> QED
  BY <1>1, <1>2, <1>3 DEF Accepting

LEMMA TranchePlans ==
    /\ Head(Tranche1).do = "post_release" /\ Tail(Tranche1) = Tranche2
    /\ Head(Tranche2).do = "milestone" /\ Tail(Tranche2) = Tranche3 /\ Tranche2 # <<>>
    /\ Head(Tranche3).do = "look" /\ Tail(Tranche3) = Tranche4 /\ Tranche3 # <<>>
    /\ Head(Tranche4) = Set({"fulfilling"}, "completed") /\ Tail(Tranche4) = Extras
    /\ Tranche4 # <<>>
<1>1. \A v : Do(v).do = v
  BY DEF Do
<1>2. Releases.do = "milestone"
  BY DEF Releases, MustMilestone
<1> QED
  BY <1>1, <1>2, Peels, ShortPlans DEF Tranche1, Tranche2, Tranche3, Tranche4

LEMMA AcceptingTrancheAhead ==
    ASSUME NEW t, Solo(t), Lines, Step(t), AcceptingTranche(t)
    PROVE  Ahead(t)
<1> DEFINE s == th[t].todo
           w == Doing(t)
           m == th[t].m
<1>0. schedule /\ Rest /\ CaptureLine \in ledger /\ m \in Milestones /\ m \in 0 .. Price
  BY DEF AcceptingTranche, Milestones
<1>1. CASE s = Tranche1 /\ ~Judged
  <2>1. w = "post_release"
    BY <1>1, TranchePlans DEF Doing
  <2>2. MovesOn(t)
    BY <2>1, StepLeaves
  <2>3. Busy' = {t} /\ th'[t].todo = Tranche2 /\ th'[t].m = m
    BY <1>1, <2>2, TranchePlans DEF MovesOn, Left
  <2> DEFINE x == ReleaseLine(m)
  <2>4. UNCHANGED <<state, back, schedule, ms>>
    BY <2>1, StepFrames
  <2>5. Post(x)
    BY <2>1, Takes DEF Doing, PostRelease, ReleaseLine
  <2>6. x.key = Key("release", "", m) /\ x.kind = "release"
    BY DEF ReleaseLine, Txn
  <2>7. x.key.name = "release"
    BY DEF ReleaseLine, Txn, Key
  <2>8. IsSettlement(x)
    BY <1>0 DEF IsSettlement
  <2> HIDE DEF x
  <2>9. x.kind # "refund"
    BY <2>6
  <2>10. /\ Lines' /\ ledger \subseteq ledger' /\ CaptureLine \in ledger'
         /\ (ledger' = ledger /\ Keys' = Keys) \/ (ledger' = ledger \cup {x} /\ Keys' = Keys \cup {x.key})
    BY <1>0, <2>4, <2>5, <2>8, <2>9, LinePosted
  <2>11. Rest'
    <3>1. CASE state \in Over
      BY <1>0, <2>4, <2>10, <3>1 DEF Rest, Settles, OnlyBack
    <3>2. CASE state \notin Over
      <4>1. Zero' /\ OpenLedger'
        BY <1>0, <2>4, <2>7, <2>10, <3>2 DEF Rest, Open, Zero, OpenLedger
      <4> QED
        BY <1>0, <2>4, <3>2, <4>1 DEF Rest, Open
    <3> QED
      BY <3>1, <3>2
  <2>12. AcceptingTranche(t)'
    BY <1>0, <2>3, <2>4, <2>10, <2>11 DEF AcceptingTranche
  <2>13. ~At(t, "seed")
    BY <2>1 DEF At, Doing
  <2>14. UnreleasedKey # x.key
    <3>1. UnreleasedKey.name = "unreleased"
      BY DEF UnreleasedKey, Key
    <3> QED
      BY <2>7, <3>1
  <2>15. Turned(t)
    BY <1>1, <2>4, <2>10, <2>13, <2>14 DEF Turned
  <2> QED
    BY <2>3, <2>10, <2>12, <2>15 DEF Ahead, Follows, Point
<1>2. CASE s = Tranche2 \/ s = Tranche3
  <2>1. w \in {"milestone", "look"}
    BY <1>2, TranchePlans DEF Doing
  <2>2. UNCHANGED <<state, schedule, ledger, back>> /\ Lines' /\ Turned(t)
    BY <2>1, StillStep
  <2>3. Rest'
    BY <1>0, <2>2, MoneyStill
  <2>4. Busy' = {} \/ MovesOn(t)
    BY <2>1, StepLeaves
  <2>5. ASSUME MovesOn(t), Busy' # {} PROVE Busy' = {t} /\ AcceptingTranche(t)'
    <3>1. /\ Busy' = {t} /\ th'[t].m = m
          /\ th'[t].todo = IF s = Tranche2 THEN Tranche3 ELSE Tranche4
      BY <1>2, <2>5, TranchePlans DEF MovesOn, Left
    <3>2. w = "look" => AllReleased'
      <4>1. w = "look" => Look(t)
        BY Takes DEF Doing
      <4>2. Ends(t) => Busy' = {}
        BY SoloEnds
      <4>3. Look(t) => AllReleased'
        BY <2>5, <4>2 DEF Look, AllReleased, orderVars
      <4> QED
        BY <4>1, <4>3
    <3>3. s # Tranche2 => w = "look" /\ th'[t].todo = Tranche4
      BY <1>2, <3>1, TranchePlans DEF Doing
    <3>4. s = Tranche2 => th'[t].todo = Tranche3
      BY <3>1
    <3>5. (th'[t].todo = Tranche3) \/ (th'[t].todo = Tranche4 /\ AllReleased')
      BY <3>2, <3>3, <3>4
    <3> QED
      BY <1>0, <2>2, <2>3, <3>1, <3>5 DEF AcceptingTranche
  <2>6. Follows(t)
    BY <2>3, <2>4, <2>5 DEF Follows, Point
  <2> QED
    BY <2>2, <2>6 DEF Ahead
<1>3. CASE s = Tranche4 /\ AllReleased
  <2>1. w = "set" /\ Head(s).from = {"fulfilling"} /\ Head(s).to = "completed"
    <3>1. Head(s) = Set({"fulfilling"}, "completed")
      BY <1>3, TranchePlans
    <3> QED
      BY <3>1 DEF Doing, Set
  <2>2. /\ UNCHANGED <<schedule, ms, ledger>> /\ Lines' /\ Keys' = Keys /\ ~At(t, "seed") /\ At(t, "set")
        /\ \/ state = "fulfilling" /\ state' = "completed" /\ MovesOn(t)
           \/ state' = state /\ (Busy' = {} \/ MovesOn(t))
        /\ Open => Open'
        /\ state' = state /\ Rest => Rest'
    BY <2>1, SetStep
  <2>3. Rest'
    BY <1>0, <2>2 DEF Rest, Over
  <2>4. Turned(t)
    BY <1>3, <2>2 DEF Turned
  <2>5. Follows(t)
    BY <1>3, <2>2, <2>3, TranchePlans, QuietPlans, FollowsMoving DEF Follows
  <2> QED
    BY <2>2, <2>4, <2>5 DEF Ahead
<1> QED
  BY <1>1, <1>2, <1>3 DEF AcceptingTranche

LEMMA FailPlans ==
    /\ Head(Fail1) = MustMilestone({"pending", "delivered"}, "failed") /\ Tail(Fail1) = Fail2
    /\ Head(Fail2) = Set({"confirmed", "fulfilling"}, "disputed") /\ Tail(Fail2) = <<>>
    /\ Fail2 # <<>>
BY Starts5 DEF Fail1, Fail2

\* The milestone book has one entry per milestone.
MilestonesHold == ms = [m \in Milestones |-> ms[m]]

LEMMA FailingAhead ==
    ASSUME NEW t, Solo(t), Lines, Step(t), MilestonesHold, Failing(t)
    PROVE  Ahead(t)
<1> DEFINE s == th[t].todo
           w == Doing(t)
           m == th[t].m
<1>0. schedule /\ Rest /\ m \in Milestones
  BY DEF Failing
<1>1. CASE s = Fail1
  <2>1. w = "milestone" /\ Head(s).to = "failed" /\ Head(s).must
    BY <1>1, FailPlans DEF Doing, MustMilestone
  <2>2. UNCHANGED <<state, schedule, ledger, back>> /\ Lines' /\ Turned(t)
    BY <2>1, StillStep
  <2>3. Rest'
    BY <1>0, <2>2, MoneyStill
  <2>4. SetMilestone(t) /\ (Ends(t) => Busy' = {})
    BY <2>1, Takes, SoloEnds DEF Doing
  <2>5. Busy' = {} \/ (MovesOn(t) /\ ms' = [ms EXCEPT ![m] = "failed"])
    BY <2>1, <2>4, SoloMoves DEF SetMilestone, MovesOn
  <2>6. ASSUME MovesOn(t), ms' = [ms EXCEPT ![m] = "failed"] PROVE Busy' = {t} /\ Failing(t)'
    <3>1. Busy' = {t} /\ th'[t].todo = Fail2 /\ th'[t].m = m
      BY <1>1, <2>6, FailPlans DEF MovesOn, Left
    <3>2. ms'[m] = "failed"
      BY <1>0, <2>6 DEF MilestonesHold
    <3>3. Frozen'
      BY <1>0, <3>2 DEF Frozen, Milestones
    <3> QED
      BY <1>0, <2>2, <2>3, <3>1, <3>3 DEF Failing, Milestones
  <2>7. Follows(t)
    BY <2>3, <2>5, <2>6 DEF Follows, Point
  <2> QED
    BY <2>2, <2>7 DEF Ahead
<1>2. CASE s = Fail2 /\ Frozen
  <2>1. w = "set" /\ Head(s).from = {"confirmed", "fulfilling"} /\ Head(s).to = "disputed"
    <3>1. Head(s) = Set({"confirmed", "fulfilling"}, "disputed")
      BY <1>2, FailPlans
    <3> QED
      BY <3>1 DEF Doing, Set
  <2>2. /\ UNCHANGED <<schedule, ms, ledger>> /\ Lines' /\ Keys' = Keys /\ ~At(t, "seed") /\ At(t, "set")
        /\ \/ state \in {"confirmed", "fulfilling"} /\ state' = "disputed" /\ MovesOn(t)
           \/ state' = state /\ (Busy' = {} \/ MovesOn(t))
        /\ Open => Open'
        /\ state' = state /\ Rest => Rest'
    BY <2>1, SetStep
  <2>3. Rest'
    BY <1>0, <2>2 DEF Rest, Over
  <2>4. Turned(t)
    BY <1>2, <2>2 DEF Turned
  <2>5. Follows(t)
    BY <1>2, <2>2, <2>3, FailPlans DEF Follows, MovesOn, Left
  <2> QED
    BY <2>2, <2>4, <2>5 DEF Ahead
<1> QED
  BY <1>1, <1>2 DEF Failing

LEMMA ClosePlans ==
    ASSUME NEW x
    PROVE  /\ Head(Close1(x)).do = "store" /\ Tail(Close1(x)) = Close2(x)
           /\ Head(Close2(x)) = Set({"disputed"}, x) /\ Tail(Close2(x)) = <<>> /\ Close2(x) # <<>>
<1>1. Do("store").do = "store"
  BY DEF Do
<1> QED
  BY <1>1, Starts5 DEF Close1, Close2

LEMMA ClosingAhead ==
    ASSUME NEW t, Solo(t), Lines, Step(t), Closing(t)
    PROVE  Ahead(t)
<1> DEFINE s == th[t].todo
           w == Doing(t)
<1>0. PICK x \in Over : s \in {Close1(x), Close2(x)} /\ Settles(x) /\ state = "disputed"
  BY DEF Closing
<1>1. CASE s = Close1(x)
  <2>1. w = "store"
    BY <1>1, ClosePlans DEF Doing
  <2>2. UNCHANGED <<state, schedule, ledger, back>> /\ Lines' /\ Turned(t)
    BY <2>1, StillStep
  <2>3. Settles(x)'
    BY <1>0, <2>2, MoneyStill
  <2>4. MovesOn(t)
    BY <2>1, StepLeaves
  <2>5. Busy' = {t} /\ th'[t].todo = Close2(x)
    BY <1>1, <2>4, ClosePlans DEF MovesOn, Left
  <2>6. Closing(t)'
    BY <1>0, <2>2, <2>3, <2>5 DEF Closing
  <2> QED
    BY <2>2, <2>5, <2>6 DEF Ahead, Follows, Point
<1>2. CASE s = Close2(x)
  <2>1. w = "set" /\ Head(s).from = {"disputed"} /\ Head(s).to = x
    <3>1. Head(s) = Set({"disputed"}, x)
      BY <1>2, ClosePlans
    <3> QED
      BY <3>1 DEF Doing, Set
  <2>2. /\ UNCHANGED <<schedule, ms, ledger>> /\ Lines' /\ Keys' = Keys /\ ~At(t, "seed")
        /\ state' = x /\ MovesOn(t)
        /\ Settles(x)'
    BY <1>0, <2>1, SetStep
  <2>3. Rest'
    BY <1>0, <2>2 DEF Rest, Over
  <2>4. Turned(t)
    BY <1>0, <2>2 DEF Turned, Over
  <2>5. Follows(t)
    BY <1>2, <2>2, <2>3, ClosePlans DEF Follows, MovesOn, Left
  <2> QED
    BY <2>2, <2>4, <2>5 DEF Ahead
<1> QED
  BY <1>0, <1>1, <1>2

\* The provider's refunds are kept by their keys.
BackHolds == back = [k \in RefundKeys |-> back[k]]

LEMMA RefundStep ==
    ASSUME NEW t, Solo(t), Lines, Step(t), Doing(t) = "refund", NEW k \in RefundKeys,
           Head(th[t].todo).to = k, Zero, BackHolds, th[t].amount \in 0 .. Price
    PROVE  /\ UNCHANGED <<state, schedule, ledger, ms>> /\ Lines' /\ Turned(t) /\ MovesOn(t)
           /\ OnlyBack(k)' /\ back'[k] = th[t].amount
           /\ Escrow' = Escrow /\ Cash' = Cash /\ Keys' = Keys /\ Unreleased' = Unreleased
           /\ OpenLedger => OpenLedger'
<1>1. UNCHANGED <<state, schedule, ledger, ms>> /\ MovesOn(t)
  BY StepFrames, StepLeaves
<1>2. Refund(t) /\ ~At(t, "set") /\ ~At(t, "seed")
  BY Takes DEF Doing, At
<1>3. back[k] = 0 /\ \A j \in RefundKeys : back[j] = 0
  BY DEF Zero
<1>4. back' = [back EXCEPT ![k] = th[t].amount]
  BY <1>2, <1>3 DEF Refund
<1>5. back'[k] = th[t].amount /\ \A j \in RefundKeys \ {k} : back'[j] = 0
  BY <1>3, <1>4 DEF BackHolds
<1>6. OnlyBack(k)'
  BY <1>5 DEF OnlyBack
<1>7. Escrow' = Escrow /\ Cash' = Cash /\ Keys' = Keys /\ Unreleased' = Unreleased
  BY <1>1 DEF Escrow, EscrowOf, Cash, CashOf, Keys, Unreleased, Captured, Kind, PayeeOf
<1>8. Lines'
  BY <1>1, LinesRefunded
<1>9. Turned(t)
  BY <1>1, <1>2, <1>7 DEF Turned
<1>10. OpenLedger => OpenLedger'
  BY <1>1 DEF OpenLedger
<1> QED
  BY <1>1, <1>5, <1>6, <1>7, <1>8, <1>9, <1>10

LEMMA ReturnPlans ==
    ASSUME NEW k
    PROVE  /\ Head(Return1(k)) = On("refund", k) /\ Tail(Return1(k)) = Return2(k)
           /\ Head(Return2(k)) = On("post_refund", k) /\ Tail(Return2(k)) = Close1("resolved")
           /\ Return2(k) # <<>> /\ Close1("resolved") # <<>>
           /\ On("refund", k).do = "refund" /\ On("refund", k).to = k
           /\ On("post_refund", k).do = "post_refund" /\ On("post_refund", k).to = k
<1>1. /\ On("refund", k).do = "refund" /\ On("refund", k).to = k
      /\ On("post_refund", k).do = "post_refund" /\ On("post_refund", k).to = k
  BY DEF On
<1> QED
  BY <1>1, Starts5 DEF Return1, Return2, Close1

LEMMA ReturningAhead ==
    ASSUME NEW t, Solo(t), Lines, Step(t), BackHolds, NEW k \in {"unreleased", "partial"},
           Returning(t, k)
    PROVE  Ahead(t)
<1> DEFINE s == th[t].todo
           w == Doing(t)
           a == th[t].amount
           m == th[t].m
<1>0. /\ state = "disputed" /\ OpenLedger /\ CaptureLine \in ledger /\ a \in 1 .. Price
      /\ k = "unreleased" => a = Unreleased /\ m = a
      /\ k = "partial" => m = Least(a, Escrow)
      /\ k \in RefundKeys /\ a \in Int /\ a > 0 /\ a \in 0 .. Price
  BY PriceAssumption DEF Returning, RefundKeys
<1>1. CASE s = Return1(k) /\ Zero
  <2>1. w = "refund" /\ Head(s).to = k
    BY <1>1, ReturnPlans DEF Doing
  <2>2. /\ UNCHANGED <<state, schedule, ledger, ms>> /\ Lines' /\ Turned(t) /\ MovesOn(t)
        /\ OnlyBack(k)' /\ back'[k] = a
        /\ Escrow' = Escrow /\ Unreleased' = Unreleased /\ OpenLedger'
    BY <1>0, <1>1, <2>1, RefundStep
  <2>0. Tail(s) = Return2(k) /\ Return2(k) # <<>>
    BY <1>1, ReturnPlans
  <2>3. Busy' = {t} /\ th'[t].todo = Return2(k) /\ th'[t].amount = a /\ th'[t].m = m
    BY <2>0, <2>2 DEF MovesOn, Left
  <2>4. Returning(t, k)'
    BY <1>0, <2>2, <2>3 DEF Returning, Least
  <2>5. Point(t)'
    BY <2>4 DEF Point
  <2> QED
    BY <2>2, <2>3, <2>5 DEF Ahead, Follows
<1>2. CASE s = Return2(k) /\ OnlyBack(k) /\ back[k] = a
  <2>1. w = "post_refund" /\ Head(s).to = k
    BY <1>2, ReturnPlans DEF Doing
  <2>2. UNCHANGED <<state, back, schedule, ms>> /\ MovesOn(t)
    BY <2>1, StepFrames, StepLeaves
  <2>3. Escrow \in Int /\ Escrow = Unreleased
    BY <1>0, LineAmounts, OpenSums
  <2>4. m \in Int /\ m <= Escrow /\ (k = "unreleased" => m = Escrow)
    BY <1>0, <2>3 DEF Least
  <2> DEFINE x == Txn(Key(k, "", 0), "refund", -a, -m)
  <2>5. Post(x)
    BY <2>1, Takes DEF Doing, PostRefund
  <2>6. x.kind = "refund" /\ x.cash = -a /\ x.escrow = -m
    BY DEF Txn
  <2>a. x.key = Key(k, "", 0)
    BY DEF Txn
  <2>7. x.key.name = k
    BY DEF Txn, Key
  <2> HIDE DEF x
  <2>8. x.key \in CashKeys
    BY <2>a DEF CashKeys, UnreleasedKey
  <2>9. x.cash \in Int /\ x.escrow \in Int /\ x.cash <= 0 /\ -x.cash = a
    BY <1>0, <2>4, <2>6
  <2>10. IsRefund(x) /\ x.key.name # "release"
    <3>1. x.kind = "refund" /\ x.key.name = k
      BY <2>6, <2>7
    <3> QED
      BY <1>0, <2>8, <2>9, <3>1 DEF IsRefund
  <2>11. -x.cash <= back[x.key.name]
    BY <1>0, <1>2, <2>7, <2>9
  <2>12. /\ Lines' /\ ledger \subseteq ledger' /\ CaptureLine \in ledger' /\ x.key \in Keys'
         /\ \/ Escrow' = Escrow /\ Keys' = Keys
            \/ Escrow' = Escrow + x.escrow /\ Keys' = Keys \cup {x.key}
    BY <1>0, <2>2, <2>5, <2>10, <2>11, LinePosted
  <2>13. x.escrow = -m
    BY <2>6
  <2>14. ~schedule => Escrow' >= 0
    <3>1. ~schedule => Escrow >= 0
      BY <1>0, FlatSums, PriceAssumption
    <3> QED
      BY <2>3, <2>4, <2>12, <2>13, <3>1
  <2>0. Tail(s) = Close1("resolved") /\ Close1("resolved") # <<>>
    BY <1>2, ReturnPlans
  <2>15. Busy' = {t} /\ th'[t].todo = Close1("resolved")
    BY <2>0, <2>2 DEF MovesOn, Left
  <2>16. Settles("resolved")'
    <3>1. \E j \in RefundKeys : OnlyBack(j)'
      BY <1>0, <1>2, <2>2 DEF OnlyBack
    <3> QED
      BY <2>2, <2>14, <3>1 DEF Settles
  <2>17. Closing(t)'
    BY <1>0, <2>2, <2>15, <2>16 DEF Closing, Over
  <2>18. Turned(t)
    <3>1. ~At(t, "seed")
      BY <2>1 DEF At, Doing
    <3>2. UnreleasedKey \in Keys' \ Keys => Escrow' = 0
      <4>1. ASSUME UnreleasedKey \in Keys' \ Keys PROVE Escrow' = 0
        <5>1. Escrow' = Escrow + x.escrow /\ UnreleasedKey = x.key
          BY <2>12, <4>1
        <5>2. UnreleasedKey.name = "unreleased"
          BY DEF UnreleasedKey, Key
        <5>3. m = Escrow
          BY <2>4, <2>7, <5>1, <5>2
        <5> QED
          BY <2>3, <2>13, <5>1, <5>3
      <4> QED
        BY <4>1
    <3>3. \A j : Key("release", "", j) \notin Keys' \ Keys
      <4>1. \A j : Key("release", "", j).name = "release"
        BY DEF Key
      <4>2. \A y \in Keys' \ Keys : y.name # "release"
        BY <2>10, <2>12
      <4> QED
        BY <4>1, <4>2
    <3> QED
      BY <1>0, <2>2, <3>1, <3>2, <3>3 DEF Turned
  <2> QED
    BY <2>12, <2>15, <2>17, <2>18 DEF Ahead, Follows, Point
<1> QED
  BY <1>1, <1>2 DEF Returning

LEMMA RejectingAhead ==
    ASSUME NEW t, Solo(t), Lines, Step(t), Rejecting(t)
    PROVE  Ahead(t)
<1> DEFINE s == th[t].todo
           w == Doing(t)
           a == th[t].amount
<1>0. state = "disputed" /\ Open /\ CaptureLine \in ledger /\ s = Reject1 /\ a = Escrow
  BY DEF Rejecting
<1>1. w = "post_reject" /\ Tail(s) = Close2("resolved") /\ Close2("resolved") # <<>>
  <2>1. Do("post_reject").do = "post_reject"
    BY DEF Do
  <2> QED
    BY <1>0, <2>1, Starts5 DEF Reject1, Close2, Doing
<1>2. UNCHANGED <<state, back, schedule, ms>> /\ MovesOn(t)
  BY <1>1, StepFrames, StepLeaves
<1>3. Escrow \in Int /\ -a \in Int
  BY <1>0, LineAmounts
<1> DEFINE x == RejectLine(-a)
<1>4. Post(x)
  BY <1>1, Takes DEF Doing, PostReject, RejectLine
<1>5. x.escrow = -a /\ x.kind = "release"
  BY DEF RejectLine, Txn
<1>6. x.key.name = "reject"
  BY DEF RejectLine, Txn, Key
<1>7. IsSettlement(x)
  BY <1>3 DEF IsSettlement
<1> HIDE DEF x
<1>8. x.kind # "refund" /\ x.key.name # "release"
  BY <1>5, <1>6
<1>9. /\ Lines' /\ ledger \subseteq ledger' /\ CaptureLine \in ledger'
      /\ \/ Escrow' = Escrow /\ Keys' = Keys
         \/ Escrow' = Escrow + x.escrow /\ Keys' = Keys \cup {x.key}
  BY <1>0, <1>2, <1>4, <1>7, <1>8, LinePosted
<1>10. ~schedule => Escrow' >= 0
  <2>1. ~schedule => Escrow >= 0
    BY <1>0, FlatSums, PriceAssumption DEF Open
  <2> QED
    BY <1>0, <1>3, <1>5, <1>9, <2>1
<1>11. Busy' = {t} /\ th'[t].todo = Close2("resolved")
  BY <1>1, <1>2 DEF MovesOn, Left
<1>12. \E k \in RefundKeys : OnlyBack(k)'
  <2>1. Zero'
    BY <1>0, <1>2 DEF Open, Zero
  <2>2. 0 \in 0 .. Price
    BY PriceAssumption
  <2> QED
    BY <2>1, <2>2 DEF Zero, OnlyBack, RefundKeys
<1>13. Closing(t)'
  BY <1>0, <1>2, <1>10, <1>11, <1>12 DEF Closing, Over, Settles
<1>14. Turned(t)
  <2>1. ~At(t, "seed")
    BY <1>1 DEF At, Doing
  <2>2. UnreleasedKey.name = "unreleased" /\ \A j : Key("release", "", j).name = "release"
    BY DEF UnreleasedKey, Key
  <2>3. UnreleasedKey \notin Keys' \ Keys /\ \A j : Key("release", "", j) \notin Keys' \ Keys
    BY <1>6, <1>9, <2>2
  <2> QED
    BY <1>2, <2>1, <2>3 DEF Turned
<1> QED
  BY <1>9, <1>11, <1>13, <1>14 DEF Ahead, Follows, Point

\* The key under which a settlement is reversed.
LEMMA UndoKeys ==
    ASSUME NEW k \in {"refund", "full"}, NEW x
    PROVE  /\ UndoKey(k, x).name = k
           /\ UndoKey("refund", x).of = x.kind
           /\ UndoKey("full", x).of = x.key.name
           /\ UndoKey(k, x).name \notin {"unreleased", "release"}
<1>1. \A a, b, c : Key(a, b, c).name = a /\ Key(a, b, c).of = b
  BY DEF Key
<1> QED
  BY <1>1 DEF UndoKey

\* What is read to be reversed is what the books show.
LEMMA UndoBegins ==
    ASSUME NEW t, Lines, OpenLedger, NEW k \in {"refund", "full"}, th'[t].undo = ledger,
           UNCHANGED <<ledger, schedule>>
    PROVE  Undoing(t, k)'
<1>1. \A x \in ledger : IsSettlement(x)
  BY OpenSums
<1>2. /\ Escrow' = SumFunctionOnSet(EscrowOf, th[t].undo)'
      /\ Cash' = SumFunctionOnSet(CashOf, th[t].undo)'
  BY DEF Escrow, Cash
<1>3. \A x : UndoKey(k, x) \notin Keys'
  <2>1. \A y \in Keys' : y.name \in {"capture", "release"}
    BY DEF OpenLedger, Keys
  <2> QED
    BY <2>1, UndoKeys
<1>4. ASSUME ~schedule, NEW x \in ledger, NEW y \in ledger, UndoKey(k, x) = UndoKey(k, y)
      PROVE  x = y
  <2>1. /\ x = CaptureLine \/ (x = ReleaseLine(0) /\ x # CaptureLine)
        /\ y = CaptureLine \/ (y = ReleaseLine(0) /\ y # CaptureLine)
    <3> SUFFICES ASSUME NEW z \in ledger, z # CaptureLine PROVE z = ReleaseLine(0)
      OBVIOUS
    <3>1. IsSettlement(z) /\ z.key.name = "release"
      BY <1>1, Settlements DEF OpenLedger
    <3>2. z.key.m = 0
      BY <1>4, <3>1 DEF Lines
    <3> QED
      BY <3>1, <3>2, Settlements
  <2>2. /\ x.kind = "capture" <=> x = CaptureLine
        /\ y.kind = "capture" <=> y = CaptureLine
        /\ x.key.name = "capture" <=> x = CaptureLine
        /\ y.key.name = "capture" <=> y = CaptureLine
    BY <1>1, Settlements
  <2>3. x.kind = y.kind \/ x.key.name = y.key.name
    BY <1>4, UndoKeys
  <2> QED
    BY <2>1, <2>2, <2>3
<1> QED
  BY <1>1, <1>2, <1>3, <1>4 DEF Undoing

LEMMA UndoReverses ==
    ASSUME NEW t, Lines, NEW k \in {"refund", "full"}, CaptureLine \in ledger,
           back[k] = Price, UNCHANGED <<schedule, back>>, Undoing(t, k), NEW x \in th[t].undo,
           Post(Txn(UndoKey(k, x), "refund", -x.cash, -x.escrow)), th'[t].undo = th[t].undo \ {x}
    PROVE  /\ Lines' /\ CaptureLine \in ledger' /\ Undoing(t, k)'
           /\ \A z \in Keys' \ Keys : z.name = k
<1> DEFINE u == th[t].undo
           y == Txn(UndoKey(k, x), "refund", -x.cash, -x.escrow)
<1>1. /\ u \subseteq ledger /\ \A z \in u : IsSettlement(z)
      /\ IsFiniteSet(u) /\ IsFiniteSet(u \ {x}) /\ Price \in Nat
  BY LineAmounts, PriceAssumption, FS_Subset DEF Undoing
<1>2. /\ x.cash \in Int /\ x.escrow \in Int /\ x.cash >= 0 /\ (x.cash > 0 => x = CaptureLine)
      /\ x.cash <= Price
  <2>1. /\ x # CaptureLine => x.cash = 0
        /\ x = CaptureLine => x.cash = Price
        /\ x.cash \in Int /\ x.escrow \in Int
    BY <1>1, Settlements
  <2> QED
    BY <1>1, <2>1
<1>3. y.kind = "refund" /\ y.cash = -x.cash /\ y.escrow = -x.escrow
  BY DEF Txn
<1>4. y.key = UndoKey(k, x)
  BY DEF Txn
<1>5. y.key.name = k
  BY <1>4, UndoKeys
<1> HIDE DEF y
<1>6. y.cash \in Int /\ y.escrow \in Int /\ y.cash <= 0 /\ (y.cash < 0 => x = CaptureLine)
      /\ -y.cash <= Price
  BY <1>2, <1>3
<1>7. x = CaptureLine => y.key \in CashKeys
  <2>1. CaptureLine.kind = "capture" /\ CaptureLine.key = CaptureKey
    BY DEF CaptureLine, Txn
  <2>2. CaptureKey.name = "capture" /\ CaptureKey.m = 0
    BY DEF CaptureKey, Key
  <2>3. ASSUME x = CaptureLine PROVE x.kind = "capture" /\ x.key.name = "capture" /\ x.key.m = 0
    BY <2>1, <2>2, <2>3
  <2>4. x = CaptureLine =>
           y.key = IF k = "refund" THEN Key("refund", "capture", 0) ELSE Key("full", "capture", 0)
    BY <1>4, <2>3 DEF UndoKey
  <2> QED
    BY <2>4 DEF CashKeys
<1>8. IsRefund(y)
  <2>1. y.kind = "refund" /\ y.key.name \in RefundKeys
    BY <1>3, <1>5 DEF RefundKeys
  <2> QED
    BY <1>6, <1>7, <2>1 DEF IsRefund
<1>9. Post(y) /\ y.key.name # "release" /\ -y.cash <= back[y.key.name]
  BY <1>5, <1>6 DEF y
<1>10. /\ Lines' /\ ledger \subseteq ledger' /\ CaptureLine \in ledger'
       /\ \/ ledger' = ledger /\ Escrow' = Escrow /\ Cash' = Cash /\ Keys' = Keys
          \/ /\ ledger' = ledger \cup {y} /\ y.key \notin Keys /\ Keys' = Keys \cup {y.key}
             /\ Escrow' = Escrow + y.escrow /\ Cash' = Cash + y.cash
       /\ y.key \in Keys'
  BY <1>8, <1>9, LinePosted
<1>11. \A z \in Keys' \ Keys : z.name = k
  BY <1>5, <1>10
<1>12. u \ {x} \subseteq ledger' /\ \A z \in u \ {x} : IsSettlement(z)
  BY <1>1, <1>10
<1>13. ASSUME ~schedule
       PROVE  /\ Escrow' = SumFunctionOnSet(EscrowOf', u \ {x})
              /\ Cash' = SumFunctionOnSet(CashOf', u \ {x})
              /\ \A z \in u \ {x} : UndoKey(k, z) \notin Keys'
              /\ \A z, v \in u \ {x} : UndoKey(k, z) = UndoKey(k, v) => z = v
  <2>1. /\ Escrow = SumFunctionOnSet(EscrowOf, u) /\ Cash = SumFunctionOnSet(CashOf, u)
        /\ \A z \in u : UndoKey(k, z) \notin Keys
        /\ \A z, v \in u : UndoKey(k, z) = UndoKey(k, v) => z = v
    BY <1>13 DEF Undoing
  <2>2. Keys' = Keys \cup {y.key} /\ Escrow' = Escrow + y.escrow /\ Cash' = Cash + y.cash
    <3>1. y.key \notin Keys
      BY <1>4, <2>1
    <3> QED
      BY <1>10, <3>1
  <2>3. \A z \in u \ {x} : UndoKey(k, z) \notin Keys'
    BY <1>4, <2>1, <2>2
  <2>4. /\ \A z \in ledger : EscrowOf[z] = z.escrow /\ CashOf[z] = z.cash
        /\ \A z \in ledger' : EscrowOf'[z] = z.escrow /\ CashOf'[z] = z.cash
    BY DEF EscrowOf, CashOf
  <2>5. \A z \in u : EscrowOf[z] \in Int /\ CashOf[z] \in Int
    BY <1>1, LineAmounts
  <2>6. PICK f, g : f = EscrowOf' /\ g = CashOf'
    OBVIOUS
  <2>7. \A z \in u \ {x} : EscrowOf[z] = f[z] /\ CashOf[z] = g[z]
    BY <1>1, <1>12, <2>4, <2>6
  <2>8. /\ SumFunctionOnSet(f, u \ {x}) = SumFunctionOnSet(EscrowOf, u \ {x})
        /\ SumFunctionOnSet(g, u \ {x}) = SumFunctionOnSet(CashOf, u \ {x})
    <3>1. SumFunctionOnSet(EscrowOf, u \ {x}) = SumFunctionOnSet(f, u \ {x})
      BY <1>1, <2>7, SumSame
    <3>2. SumFunctionOnSet(CashOf, u \ {x}) = SumFunctionOnSet(g, u \ {x})
      BY <1>1, <2>7, SumSame
    <3> QED
      BY <3>1, <3>2
  <2>9. /\ SumFunctionOnSet(EscrowOf, u \ {x}) \in Int /\ SumFunctionOnSet(CashOf, u \ {x}) \in Int
    <3>1. \A z \in u \ {x} : EscrowOf[z] \in Int /\ CashOf[z] \in Int
      BY <2>5
    <3> QED
      BY <1>1, <3>1, SumInt
  <2>10. SumFunctionOnSet(EscrowOf, u) = EscrowOf[x] + SumFunctionOnSet(EscrowOf, u \ {x})
    BY <1>1, <2>5, SumTake
  <2>11. SumFunctionOnSet(CashOf, u) = CashOf[x] + SumFunctionOnSet(CashOf, u \ {x})
    BY <1>1, <2>5, SumTake
  <2>12. EscrowOf[x] = x.escrow /\ CashOf[x] = x.cash
    BY <1>1, <2>4
  <2>13. PICK a \in Int, b \in Int : a = SumFunctionOnSet(EscrowOf, u \ {x})
                                     /\ b = SumFunctionOnSet(CashOf, u \ {x})
    BY <2>9
  <2>14. Escrow = x.escrow + a /\ Cash = x.cash + b
    BY <2>1, <2>10, <2>11, <2>12, <2>13
  <2>15. Escrow' = a /\ Cash' = b
    BY <1>2, <1>3, <2>2, <2>14
  <2>16. Escrow' = SumFunctionOnSet(EscrowOf', u \ {x}) /\ Cash' = SumFunctionOnSet(CashOf', u \ {x})
    BY <2>6, <2>8, <2>13, <2>15
  <2> QED
    BY <2>1, <2>3, <2>16
<1>14. Undoing(t, k)'
  BY <1>12, <1>13 DEF Undoing
<1> QED
  BY <1>10, <1>11, <1>14

LEMMA FullPlans ==
    ASSUME NEW k, NEW e
    PROVE  /\ Head(Full1(k, e)) = On("refund", k) /\ Tail(Full1(k, e)) = Full2(k, e)
           /\ Head(Full2(k, e)).do = "settled" /\ Tail(Full2(k, e)) = Full3(k, e)
           /\ Head(Full3(k, e)) = On("undo", k) /\ Tail(Full3(k, e)) = <<Do("store"), e>>
           /\ Full2(k, e) # <<>> /\ Full3(k, e) # <<>> /\ <<Do("store"), e>> # <<>>
           /\ On("refund", k).do = "refund" /\ On("refund", k).to = k
           /\ On("undo", k).do = "undo" /\ On("undo", k).to = k
<1>1. /\ On("refund", k).do = "refund" /\ On("refund", k).to = k
      /\ On("undo", k).do = "undo" /\ On("undo", k).to = k
      /\ Do("settled").do = "settled"
  BY DEF On, Do
<1> QED
  BY <1>1, Starts5 DEF Full1, Full2, Full3

LEMMA RefundingSteps ==
    ASSUME NEW t, Solo(t), Lines, Step(t), BackHolds, NEW k \in {"refund", "full"}, NEW e,
           Refunding(t, k, e)
    PROVE  /\ Lines' /\ Turned(t) /\ Busy' = {t} /\ state' = state
           /\ \/ Refunding(t, k, e)'
              \/ th'[t].todo = <<Do("store"), e>> /\ Settles("refunded")'
<1> DEFINE s == th[t].todo
           w == Doing(t)
<1>0. CaptureLine \in ledger /\ k \in RefundKeys /\ Price \in 0 .. Price
  BY PriceAssumption DEF Refunding, RefundKeys
<1>1. CASE s = Full1(k, e) /\ Open /\ th[t].amount = Price
  <2>1. Head(s) = On("refund", k) /\ Tail(s) = Full2(k, e) /\ Full2(k, e) # <<>>
    BY <1>1, FullPlans
  <2>2. w = "refund" /\ Head(s).to = k
    BY <2>1, FullPlans DEF Doing
  <2>3. /\ UNCHANGED <<state, schedule, ledger, ms>> /\ Lines' /\ Turned(t) /\ MovesOn(t)
        /\ OnlyBack(k)' /\ back'[k] = Price /\ OpenLedger'
    BY <1>0, <1>1, <2>2, RefundStep DEF Open
  <2>4. Busy' = {t} /\ th'[t].todo = Full2(k, e)
    BY <2>1, <2>3 DEF MovesOn, Left
  <2>5. Refunding(t, k, e)'
    BY <1>0, <2>3, <2>4 DEF Refunding
  <2> QED
    BY <2>3, <2>4, <2>5
<1>2. CASE s = Full2(k, e) /\ OpenLedger /\ OnlyBack(k) /\ back[k] = Price
  <2>1. Head(s).do = "settled" /\ Tail(s) = Full3(k, e) /\ Full3(k, e) # <<>>
    BY <1>2, FullPlans
  <2>2. w = "settled"
    BY <2>1 DEF Doing
  <2>3. UNCHANGED <<state, schedule, ledger, back>> /\ Lines' /\ Turned(t)
    BY <2>2, StillStep
  <2>4. Kind("capture") \cup Kind("release") = ledger /\ ledger # {}
    BY <1>0, <1>2, OpenSums
  <2>5. Left(t, Tail(s)) /\ (Busy' = {} \/ th'[t].undo = ledger)
    BY <2>2, <2>4, SettledLeaves
  <2>6. Busy' = {t} /\ th'[t].todo = Full3(k, e) /\ th'[t].undo = ledger
    BY <2>1, <2>5 DEF Left
  <2>7. Undoing(t, k)'
    BY <1>2, <2>3, <2>6, UndoBegins
  <2>8. OnlyBack(k)'
    BY <1>2, <2>3, MoneyStill
  <2>9. Refunding(t, k, e)'
    BY <1>0, <1>2, <2>3, <2>6, <2>7, <2>8 DEF Refunding
  <2> QED
    BY <2>3, <2>6, <2>9
<1>3. CASE s = Full3(k, e) /\ OnlyBack(k) /\ back[k] = Price /\ Undoing(t, k)
  <2>1. Head(s) = On("undo", k) /\ Tail(s) = <<Do("store"), e>> /\ <<Do("store"), e>> # <<>>
    BY <1>3, FullPlans
  <2>2. w = "undo" /\ Head(s).to = k
    BY <2>1, FullPlans DEF Doing
  <2>3. UNCHANGED <<state, schedule, back, ms>>
    BY <2>2, StepFrames
  <2>4. ~At(t, "seed") /\ ~At(t, "set")
    BY <2>2 DEF At, Doing
  <2>5. CASE th[t].undo = {} /\ ledger' = ledger /\ MovesOn(t)
    <3>1. Busy' = {t} /\ th'[t].todo = <<Do("store"), e>>
      BY <2>1, <2>5 DEF MovesOn, Left
    <3>2. ~schedule => Escrow = 0 /\ Cash = 0
      BY <1>3, <2>5, SumEmpty DEF Undoing
    <3>3. Settles("refunded")
      BY <1>0, <1>3, <3>2 DEF Settles
    <3>4. Lines' /\ Keys' = Keys /\ Settles("refunded")'
      BY <2>3, <2>5, <3>3, MoneyStill
    <3>5. Turned(t)
      BY <2>3, <2>4, <3>4 DEF Turned
    <3> QED
      BY <2>3, <3>1, <3>4, <3>5
  <2>6. ASSUME NEW x \in th[t].undo,
               Post(Txn(UndoKey(Head(s).to, x), "refund", -x.cash, -x.escrow)),
               Busy' = {t}, th'[t].todo = s, th'[t].undo = th[t].undo \ {x}
        PROVE  Lines' /\ Turned(t) /\ Refunding(t, k, e)'
    <3>1. Post(Txn(UndoKey(k, x), "refund", -x.cash, -x.escrow))
      BY <2>2, <2>6
    <3>2. /\ Lines' /\ CaptureLine \in ledger' /\ Undoing(t, k)'
          /\ \A z \in Keys' \ Keys : z.name = k
      BY <1>0, <1>3, <2>3, <2>6, <3>1, UndoReverses
    <3>3. OnlyBack(k)' /\ back'[k] = Price
      BY <1>3, <2>3 DEF OnlyBack
    <3>4. Refunding(t, k, e)'
      BY <1>3, <2>6, <3>2, <3>3 DEF Refunding
    <3>5. UnreleasedKey.name = "unreleased" /\ \A m : Key("release", "", m).name = "release"
      BY DEF UnreleasedKey, Key
    <3>6. UnreleasedKey \notin Keys' \ Keys /\ \A m : Key("release", "", m) \notin Keys' \ Keys
      BY <3>2, <3>5
    <3>7. Turned(t)
      BY <2>3, <2>4, <3>6 DEF Turned
    <3> QED
      BY <3>2, <3>4, <3>7
  <2> QED
    BY <2>2, <2>3, <2>5, <2>6, UndoLeaves
<1> QED
  BY <1>1, <1>2, <1>3 DEF Refunding

LEMMA RefundingAhead ==
    ASSUME NEW t, Solo(t), Lines, Step(t), BackHolds, state = "disputed",
           Refunding(t, "full", Refunds)
    PROVE  Ahead(t)
<1>1. /\ Lines' /\ Turned(t) /\ Busy' = {t} /\ state' = "disputed"
      /\ \/ Refunding(t, "full", Refunds)'
         \/ th'[t].todo = <<Do("store"), Refunds>> /\ Settles("refunded")'
  BY RefundingSteps
<1>2. CASE Refunding(t, "full", Refunds)'
  BY <1>1, <1>2 DEF Ahead, Follows, Point
<1>3. CASE th'[t].todo = <<Do("store"), Refunds>> /\ Settles("refunded")'
  <2>1. th'[t].todo = Close1("refunded")
    BY <1>3 DEF Close1, Refunds
  <2>2. Closing(t)'
    BY <1>1, <1>3, <2>1 DEF Closing, Over
  <2> QED
    BY <1>1, <2>2 DEF Ahead, Follows, Point
<1> QED
  BY <1>1, <1>2, <1>3

LEMMA RepayPlans ==
    /\ Head(Repay0) = Must({"completed"}, "refund_pending") /\ Tail(Repay0) = Full1("refund", Repaid)
    /\ Full1("refund", Repaid) # <<>>
    /\ Repay4 = <<Do("store"), Repaid>> /\ Head(Repay4).do = "store" /\ Tail(Repay4) = Repay5
    /\ Head(Repay5) = Set({"refund_pending"}, "refunded") /\ Tail(Repay5) = <<>> /\ Repay5 # <<>>
<1>1. Do("store").do = "store"
  BY DEF Do
<1>2. ASSUME NEW a, NEW b, NEW c, NEW d, NEW e, NEW f
      PROVE  Head(<<a, b, c, d, e, f>>) = a /\ Tail(<<a, b, c, d, e, f>>) = <<b, c, d, e, f>>
  OBVIOUS
<1>3. Head(Repay0) = Must({"completed"}, "refund_pending") /\ Tail(Repay0) = Full1("refund", Repaid)
  BY <1>2 DEF Repay0, Full1
<1> QED
  BY <1>1, <1>3, Starts5 DEF Full1, Repay4, Repay5, Repaid

LEMMA RepayingAhead ==
    ASSUME NEW t, Solo(t), Lines, Step(t), BackHolds, Repaying(t)
    PROVE  Ahead(t)
<1> DEFINE s == th[t].todo
           w == Doing(t)
<1>1. CASE s = Repay0 /\ Rest /\ th[t].amount = Price /\ CaptureLine \in ledger
  <2>1. w = "set" /\ Head(s).from = {"completed"} /\ Head(s).to = "refund_pending" /\ Head(s).must
    <3>1. Head(s) = Must({"completed"}, "refund_pending")
      BY <1>1, RepayPlans
    <3> QED
      BY <3>1 DEF Doing, Must
  <2>2. /\ UNCHANGED <<schedule, ms, ledger>> /\ Lines' /\ Keys' = Keys /\ ~At(t, "seed") /\ At(t, "set")
        /\ \/ state = "completed" /\ state' = "refund_pending" /\ MovesOn(t)
           \/ state' = state /\ Busy' = {}
        /\ Open => Open'
        /\ state' = state /\ Rest => Rest'
    BY <2>1, SetStep
  <2>3. CASE state' = state /\ Busy' = {}
    BY <1>1, <2>2, <2>3 DEF Ahead, Follows, Turned
  <2>4. CASE state = "completed" /\ state' = "refund_pending" /\ MovesOn(t)
    <3>0. Tail(s) = Full1("refund", Repaid) /\ Full1("refund", Repaid) # <<>>
      BY <1>1, RepayPlans
    <3>1. Busy' = {t} /\ th'[t].todo = Full1("refund", Repaid) /\ th'[t].amount = Price
      BY <1>1, <2>4, <3>0 DEF MovesOn, Left
    <3>2. Open'
      BY <1>1, <2>2, <2>4 DEF Rest, Over
    <3>3. Refunding(t, "refund", Repaid)'
      BY <1>1, <2>2, <3>1, <3>2 DEF Refunding
    <3>4. Repaying(t)'
      BY <2>4, <3>3 DEF Repaying
    <3>5. Turned(t)
      BY <2>2, <2>4 DEF Turned
    <3> QED
      BY <2>2, <3>1, <3>4, <3>5 DEF Ahead, Follows, Point
  <2> QED
    BY <2>2, <2>3, <2>4
<1>2. CASE state = "refund_pending" /\ Refunding(t, "refund", Repaid)
  <2>1. /\ Lines' /\ Turned(t) /\ Busy' = {t} /\ state' = "refund_pending"
        /\ \/ Refunding(t, "refund", Repaid)'
           \/ th'[t].todo = <<Do("store"), Repaid>> /\ Settles("refunded")'
    BY <1>2, RefundingSteps
  <2>2. th'[t].todo = <<Do("store"), Repaid>> => th'[t].todo = Repay4
    BY DEF Repay4
  <2>3. Repaying(t)'
    BY <2>1, <2>2 DEF Repaying
  <2> QED
    BY <2>1, <2>3 DEF Ahead, Follows, Point
<1>3. CASE state = "refund_pending" /\ Settles("refunded") /\ s = Repay4
  <2>1. w = "store" /\ Tail(s) = Repay5 /\ Repay5 # <<>>
    BY <1>3, RepayPlans DEF Doing
  <2>2. UNCHANGED <<state, schedule, ledger, back>> /\ Lines' /\ Turned(t)
    BY <2>1, StillStep
  <2>3. Settles("refunded")'
    BY <1>3, <2>2, MoneyStill
  <2>4. MovesOn(t)
    BY <2>1, StepLeaves
  <2>5. Busy' = {t} /\ th'[t].todo = Repay5
    BY <2>1, <2>4 DEF MovesOn, Left
  <2>6. Repaying(t)'
    BY <1>3, <2>2, <2>3, <2>5 DEF Repaying
  <2> QED
    BY <2>2, <2>5, <2>6 DEF Ahead, Follows, Point
<1>4. CASE state = "refund_pending" /\ Settles("refunded") /\ s = Repay5
  <2>1. w = "set" /\ Head(s).from = {"refund_pending"} /\ Head(s).to = "refunded"
    <3>1. Head(s) = Set({"refund_pending"}, "refunded")
      BY <1>4, RepayPlans
    <3> QED
      BY <3>1 DEF Doing, Set
  <2>2. /\ UNCHANGED <<schedule, ms, ledger>> /\ Lines' /\ Keys' = Keys /\ ~At(t, "seed")
        /\ state' = "refunded" /\ MovesOn(t)
        /\ Settles("refunded")'
    BY <1>4, <2>1, SetStep
  <2>3. Rest'
    BY <2>2 DEF Rest, Over
  <2>4. Turned(t)
    BY <2>2 DEF Turned
  <2>5. Follows(t)
    BY <1>4, <2>2, <2>3, RepayPlans DEF Follows, MovesOn, Left
  <2> QED
    BY <2>2, <2>4, <2>5 DEF Ahead
<1> QED
  BY <1>1, <1>2, <1>3, <1>4 DEF Repaying

\* The only request, wherever it stands, takes its step and stands somewhere again.
LEMMA PointAhead ==
    ASSUME NEW t, Solo(t), Lines, Step(t), MilestonesHold, BackHolds, Point(t)
    PROVE  Ahead(t)
BY QuietAhead, PlacingAhead, MarkingAhead, AcceptingAhead, AcceptingTrancheAhead, FailingAhead,
   ClosingAhead, ReturningAhead, RejectingAhead, RefundingAhead, RepayingAhead DEF Point

\* A plan that records a charge right after it posted the capture, wherever it does.
ChargesPosted(s) == \A i \in DOMAIN s : s[i].do = "charge" => i > 1 /\ s[i-1].do = "post_capture"

LEMMA ChargePlans ==
    /\ \A a : a.do # "charge"
          => ChargesPosted(<<a>>)
    /\ \A a, b : a.do # "charge" /\ b.do # "charge"
          => ChargesPosted(<<a, b>>)
    /\ \A a, b, c : a.do # "charge" /\ b.do # "charge" /\ c.do # "charge"
          => ChargesPosted(<<a, b, c>>)
    /\ \A a, b, c, d : a.do # "charge" /\ b.do # "charge" /\ c.do # "charge" /\ d.do # "charge"
          => ChargesPosted(<<a, b, c, d>>)
    /\ \A a, b, c, d, e : a.do # "charge" /\ b.do # "charge" /\ c.do # "charge"
          /\ d.do # "charge" /\ e.do # "charge"
          => ChargesPosted(<<a, b, c, d, e>>)
    /\ \A a, b, c, d, e, f : a.do # "charge" /\ b.do # "charge" /\ c.do # "charge"
          /\ d.do # "charge" /\ e.do # "charge" /\ f.do # "charge"
          => ChargesPosted(<<a, b, c, d, e, f>>)
    /\ \A a, b, c, d, e, f, g : a.do # "charge" /\ b.do # "charge" /\ c.do # "charge"
          /\ d.do # "charge" /\ e.do # "charge" /\ f.do # "charge" /\ g.do # "charge"
          => ChargesPosted(<<a, b, c, d, e, f, g>>)
    /\ ChargesPosted(CaptureSteps) /\ ChargesPosted(Extras) /\ ChargesPosted(<<>>)
<1>1. ASSUME NEW a, NEW b, NEW c, NEW d, NEW e, NEW f, NEW g,
             a.do # "charge", b.do # "charge", c.do # "charge", d.do # "charge",
             e.do # "charge", f.do # "charge", g.do # "charge"
      PROVE  /\ ChargesPosted(<<a>>) /\ ChargesPosted(<<a, b>>) /\ ChargesPosted(<<a, b, c>>)
             /\ ChargesPosted(<<a, b, c, d>>) /\ ChargesPosted(<<a, b, c, d, e>>)
             /\ ChargesPosted(<<a, b, c, d, e, f>>) /\ ChargesPosted(<<a, b, c, d, e, f, g>>)
  <2>1. ChargesPosted(<<a>>) /\ ChargesPosted(<<a, b>>) /\ ChargesPosted(<<a, b, c>>)
    BY <1>1 DEF ChargesPosted
  <2>2. ChargesPosted(<<a, b, c, d>>) /\ ChargesPosted(<<a, b, c, d, e>>)
    BY <1>1 DEF ChargesPosted
  <2>3. ChargesPosted(<<a, b, c, d, e, f>>)
    BY <1>1 DEF ChargesPosted
  <2>4. ChargesPosted(<<a, b, c, d, e, f, g>>)
    BY <1>1 DEF ChargesPosted
  <2> QED
    BY <2>1, <2>2, <2>3, <2>4
<1>2. \A v : Do(v).do = v
  BY DEF Do
<1>3. ASSUME NEW a, NEW b, NEW c, a.do # "charge", b.do = "post_capture"
      PROVE  ChargesPosted(<<a, b, c>>)
  BY <1>3 DEF ChargesPosted
<1>4. ChargesPosted(CaptureSteps)
  BY <1>2, <1>3 DEF CaptureSteps
<1>5. ChargesPosted(Extras)
  <2>1. Do("find").do # "charge" /\ Do("commit").do # "charge"
    BY <1>2
  <2> QED
    BY <1>1, <2>1 DEF Extras
<1>6. ChargesPosted(<<>>)
  BY DEF ChargesPosted
<1>7. ASSUME NEW a, a.do # "charge" PROVE ChargesPosted(<<a>>)
  BY <1>1, <1>7
<1>8. ASSUME NEW a, NEW b, a.do # "charge", b.do # "charge" PROVE ChargesPosted(<<a, b>>)
  BY <1>1, <1>8
<1>9. ASSUME NEW a, NEW b, NEW c, a.do # "charge", b.do # "charge", c.do # "charge"
      PROVE  ChargesPosted(<<a, b, c>>)
  BY <1>1, <1>9
<1>10. ASSUME NEW a, NEW b, NEW c, NEW d, a.do # "charge", b.do # "charge", c.do # "charge",
              d.do # "charge"
       PROVE  ChargesPosted(<<a, b, c, d>>)
  BY <1>1, <1>10
<1>11. ASSUME NEW a, NEW b, NEW c, NEW d, NEW e, a.do # "charge", b.do # "charge",
              c.do # "charge", d.do # "charge", e.do # "charge"
       PROVE  ChargesPosted(<<a, b, c, d, e>>)
  BY <1>1, <1>11
<1>12. ASSUME NEW a, NEW b, NEW c, NEW d, NEW e, NEW f, a.do # "charge", b.do # "charge",
              c.do # "charge", d.do # "charge", e.do # "charge", f.do # "charge"
       PROVE  ChargesPosted(<<a, b, c, d, e, f>>)
  BY <1>1, <1>12
<1> QED
  BY <1>1, <1>4, <1>5, <1>6, <1>7, <1>8, <1>9, <1>10, <1>11, <1>12

LEMMA ChargesJoined ==
    ASSUME NEW s \in Seq(Lawful), NEW u \in Seq(Lawful), ChargesPosted(s), ChargesPosted(u)
    PROVE  ChargesPosted(s \o u)
<1> DEFINE v == s \o u
<1>1. /\ v \in Seq(Lawful)
      /\ \A i \in DOMAIN s : i \in DOMAIN v /\ v[i] = s[i]
      /\ \A i \in DOMAIN v :
            \/ i \in DOMAIN s
            \/ /\ i - Len(s) \in DOMAIN u /\ v[i] = u[i - Len(s)]
               /\ i - Len(s) > 1 => v[i - 1] = u[(i - Len(s)) - 1]
  BY Concats
<1>2. \A i \in DOMAIN v : i \in Nat
  BY <1>1, Positions
<1>3. /\ \A i \in DOMAIN s : i \in Nat /\ i >= 1 /\ (i > 1 => i - 1 \in DOMAIN s)
      /\ Len(s) \in Nat
  OBVIOUS
<1> HIDE DEF v
<1>4. ASSUME NEW i \in DOMAIN v, v[i].do = "charge" PROVE i > 1 /\ v[i-1].do = "post_capture"
  <2>1. CASE i \in DOMAIN s
    <3>1. i > 1 /\ s[i-1].do = "post_capture"
      BY <1>1, <1>4, <2>1 DEF ChargesPosted
    <3> QED
      BY <1>1, <1>3, <2>1, <3>1
  <2>2. CASE /\ i - Len(s) \in DOMAIN u /\ v[i] = u[i - Len(s)]
             /\ i - Len(s) > 1 => v[i - 1] = u[(i - Len(s)) - 1]
    <3>1. i - Len(s) > 1 /\ u[(i - Len(s)) - 1].do = "post_capture"
      BY <1>4, <2>2 DEF ChargesPosted
    <3> QED
      BY <1>2, <1>3, <2>2, <3>1
  <2> QED
    BY <1>1, <2>1, <2>2
<1> QED
  BY <1>4 DEF ChargesPosted, v

\* A request begins: the copy it takes of the record is the record.
LEMMA BeginHolds ==
    ASSUME ThreadsHold, NEW t \in Threads, Busy = {}, RecordHolds, NEW todo, todo # <<>>,
           NEW mem, mem \in Record, mem.charge = rec.charge, rec.at => mem.at, NEW m, NEW amount,
           Begins(t, todo, mem, m, amount), ChargesPosted(todo)
    PROVE  /\ CopyHolds(t)' /\ Busy' = {t} /\ th'[t].todo = todo /\ th'[t].mem = mem
           /\ th'[t].m = m /\ th'[t].amount = amount
           /\ UNCHANGED <<state, rec, ms, schedule, ledger, back>>
<1>1. /\ Busy' = {t} /\ th'[t].todo = todo /\ th'[t].mem = mem /\ th'[t].m = m
      /\ th'[t].amount = amount
      /\ UNCHANGED <<state, rec, ms, schedule, ledger, back>>
  BY SoloBegins
<1>2. Charges(th[t])'
  BY <1>1 DEF Charges, ChargesPosted
<1>3. CopyHolds(t)'
  BY <1>1, <1>2 DEF CopyHolds, RecordHolds
<1> QED
  BY <1>1, <1>3

LEMMA PlainBegins ==
    ASSUME ThreadsHold, NEW t \in Threads, Busy = {}, RecordHolds, NEW todo, todo # <<>>,
           NEW m, NEW amount, Begins(t, todo, rec, m, amount), ChargesPosted(todo)
    PROVE  /\ CopyHolds(t)' /\ Busy' = {t} /\ th'[t].todo = todo /\ th'[t].mem = rec
           /\ th'[t].m = m /\ th'[t].amount = amount
           /\ UNCHANGED <<state, rec, ms, schedule, ledger, back>>
<1>1. rec \in Record
  BY DEF RecordHolds
<1> QED
  BY <1>1, BeginHolds
-----------------------------------------------------------------------------
\* WHERE A REQUEST BEGINS

\* Between requests, and in a request that has just begun.
Between   == Busy = {} /\ ThreadsHold /\ Lines /\ RecordHolds /\ Rest
Stands(t) == /\ CopyHolds(t)' /\ Busy' = {t} /\ Point(t)'
             /\ UNCHANGED <<state, rec, ms, schedule, ledger, back>>

LEMMA QuietStands ==
    ASSUME NEW t \in Threads, Between, NEW todo, todo # <<>>, Quiet(todo), ChargesPosted(todo),
           NEW m, NEW amount, Begins(t, todo, rec, m, amount)
    PROVE  Stands(t)
<1>1. /\ CopyHolds(t)' /\ Busy' = {t} /\ th'[t].todo = todo
      /\ UNCHANGED <<state, rec, ms, schedule, ledger, back>>
  BY PlainBegins DEF Between
<1>2. Rest'
  BY <1>1, MoneyStill DEF Between
<1>3. Quiet(th[t].todo)'
  BY <1>1 DEF Quiet
<1> QED
  BY <1>1, <1>2, <1>3 DEF Stands, Point

LEMMA DoFields ==
    /\ \A v : Do(v).do = v
    /\ \A f, x : Set(f, x).do = "set" /\ Must(f, x).do = "set" /\ MustMilestone(f, x).do = "milestone"
    /\ \A v, k : On(v, k).do = v
    /\ Releases.do = "milestone" /\ Repaid.do = "set" /\ Refunds.do = "set"
BY DEF Do, Set, Must, MustMilestone, On, Releases, Repaid, Refunds

LEMMA QuietRequests ==
    ASSUME NEW t \in Threads, Between,
           \/ MarkShipped(t) \/ AttachEvidence(t) \/ Cancel(t) \/ OpenDispute(t)
           \/ ResolveDispute(t) \/ Replace(t) \/ \E m \in Milestones : DeliverMilestone(t, m)
    PROVE  Stands(t)
<1>0. Lawful # {} /\ Do("store") \in Lawful /\ Do("reread") \in Lawful
      /\ MustMilestone({"pending"}, "delivered") \in Lawful /\ Set({"confirmed"}, "fulfilling") \in Lawful
  BY DoPlain, SetsPlain, MilestonePlain, PlainIsLawful
<1>1. CASE MarkShipped(t)
  <2> DEFINE p == <<Must({"confirmed"}, "fulfilling"), Do("store")>>
  <2>1. Begins(t, p, rec, 0, 0) /\ Quiet(p) /\ p # <<>>
    BY <1>1, QuietPlans DEF MarkShipped, Begin
  <2>2. ChargesPosted(p)
    BY ChargePlans, DoFields
  <2> HIDE DEF p
  <2> QED
    BY <2>1, <2>2, QuietStands
<1>2. CASE AttachEvidence(t)
  <2>1. PICK x \in {<<>>, CaptureSteps} : Begins(t, <<Do("store")>> \o x, rec, 0, 0)
    BY <1>2 DEF AttachEvidence, Begin
  <2> DEFINE p == <<Do("store")>> \o x
  <2>a. <<Do("store")>> \in Seq(Lawful)
    BY <1>0
  <2>2. x \in Seq(Lawful) /\ <<Do("store")>> \in Seq(Lawful)
    BY <2>a, ShortPlans
  <2>3. ChargesPosted(<<Do("store")>>) /\ ChargesPosted(x)
    BY ChargePlans, DoFields
  <2>4. ChargesPosted(p)
    BY <2>2, <2>3, ChargesJoined
  <2>5. Quiet(p) /\ p # <<>>
    BY <2>2, QuietPlans, Peels
  <2> HIDE DEF p
  <2> QED
    BY <2>1, <2>4, <2>5, QuietStands DEF p
<1>3. CASE Cancel(t)
  <2> DEFINE p == <<Must({"payment_authorizing", "confirmed"}, "cancellation_pending"), Do("void"),
                    Set({"cancellation_pending"}, "cancelled"), Do("find"), Do("release")>>
  <2>1. Begins(t, p, rec, 0, 0) /\ Quiet(p) /\ p # <<>>
    BY <1>3, QuietPlans DEF Cancel, Begin
  <2>2. ChargesPosted(p)
    BY ChargePlans, DoFields
  <2> HIDE DEF p
  <2> QED
    BY <2>1, <2>2, QuietStands
<1>4. CASE OpenDispute(t)
  <2> DEFINE p == <<Must({"delivered", "accepted", "completed"}, "disputed")>>
  <2>1. Begins(t, p, rec, 0, 0) /\ Quiet(p) /\ p # <<>>
    BY <1>4, QuietPlans DEF OpenDispute, Begin
  <2>2. ChargesPosted(p)
    BY ChargePlans, DoFields
  <2> HIDE DEF p
  <2> QED
    BY <2>1, <2>2, QuietStands
<1>5. CASE ResolveDispute(t)
  <2> DEFINE p == <<Must({"disputed"}, "resolved")>>
  <2>1. Begins(t, p, rec, 0, 0) /\ Quiet(p) /\ p # <<>>
    BY <1>5, QuietPlans DEF ResolveDispute, Begin
  <2>2. ChargesPosted(p)
    BY ChargePlans, DoFields
  <2> HIDE DEF p
  <2> QED
    BY <2>1, <2>2, QuietStands
<1>6. CASE Replace(t)
  <2> DEFINE p == <<Set({"disputed"}, "fulfilling")>>
  <2>1. Begins(t, p, rec, 0, 0) /\ Quiet(p) /\ p # <<>>
    BY <1>6, QuietPlans DEF Replace, Begin
  <2>2. ChargesPosted(p)
    BY ChargePlans, DoFields
  <2> HIDE DEF p
  <2> QED
    BY <2>1, <2>2, QuietStands
<1>7. CASE \E m \in Milestones : DeliverMilestone(t, m)
  <2> DEFINE h == <<MustMilestone({"pending"}, "delivered"), Set({"confirmed"}, "fulfilling"),
                    Do("reread")>>
             p == h \o CaptureSteps
  <2>1. PICK m : Begins(t, p, rec, m, 0)
    BY <1>7 DEF DeliverMilestone
  <2>2. ChargesPosted(h) /\ h \in Seq(Lawful)
    BY <1>0, ChargePlans, DoFields
  <2>3. p # <<>> /\ Quiet(p)
    BY ShortPlans, Peels, QuietPlans
  <2> HIDE DEF h
  <2>4. ChargesPosted(p)
    BY <2>2, ChargePlans, ChargesJoined, ShortPlans
  <2> HIDE DEF p
  <2> QED
    BY <2>1, <2>3, <2>4, QuietStands
<1> QED
  BY <1>1, <1>2, <1>3, <1>4, <1>5, <1>6, <1>7

LEMMA PlaceStands == ASSUME NEW t \in Threads, Between, PlaceOrder(t) PROVE Stands(t)
<1>1. Begins(t, Place1, rec, 0, 0) /\ Place1 # <<>> /\ state = "none"
  BY PlacePlans DEF PlaceOrder, Begin, Place1
<1>2. ChargesPosted(Place1)
  BY ChargePlans, DoFields DEF Place1
<1>3. /\ CopyHolds(t)' /\ Busy' = {t} /\ th'[t].todo = Place1
      /\ UNCHANGED <<state, rec, ms, schedule, ledger, back>>
  BY <1>1, <1>2, PlainBegins DEF Between
<1>4. Rest'
  BY <1>3, MoneyStill DEF Between
<1>5. Placing(t)'
  BY <1>1, <1>3, <1>4 DEF Placing
<1> QED
  BY <1>3, <1>5 DEF Stands, Point

LEMMA MarkStands == ASSUME NEW t \in Threads, Between, MarkDelivered(t) PROVE Stands(t)
<1>1. PICK x \in {<<>>, CaptureSteps} : Begins(t, Deliver1(x), [rec EXCEPT !.at = TRUE], 0, 0)
  BY DEF MarkDelivered, Deliver1
<1>2. PICK y : y = [rec EXCEPT !.at = TRUE]
  OBVIOUS
<1>3. y \in Record /\ y.at /\ y.charge = rec.charge
  BY <1>2 DEF Between, RecordHolds, Record
<1>4. Deliver1(x) # <<>> /\ ChargesPosted(Deliver1(x))
  <2> DEFINE h == <<Must({"fulfilling"}, "delivered"), Do("store")>>
  <2>1. Must({"fulfilling"}, "delivered") \in Lawful /\ Do("store") \in Lawful
    BY DoPlain, SetsPlain, PlainIsLawful
  <2>2. h \in Seq(Lawful)
    BY <2>1
  <2>3. x \in Seq(Lawful) /\ ChargesPosted(x)
    BY ShortPlans, ChargePlans
  <2>4. ChargesPosted(h)
    BY ChargePlans, DoFields
  <2>5. h \o x # <<>>
    BY <2>3, Peels
  <2> HIDE DEF h
  <2>6. ChargesPosted(h \o x)
    BY <2>2, <2>3, <2>4, ChargesJoined
  <2> QED
    BY <2>5, <2>6 DEF Deliver1, h
<1>5. Begins(t, Deliver1(x), y, 0, 0)
  BY <1>1, <1>2
<1>6. /\ CopyHolds(t)' /\ Busy' = {t} /\ th'[t].todo = Deliver1(x) /\ th'[t].mem = y
      /\ UNCHANGED <<state, rec, ms, schedule, ledger, back>>
  BY <1>3, <1>4, <1>5, BeginHolds DEF Between
<1>7. Rest'
  BY <1>6, MoneyStill DEF Between
<1>8. Marking(t)'
  BY <1>3, <1>6, <1>7 DEF Marking
<1> QED
  BY <1>6, <1>8 DEF Stands, Point

LEMMA AcceptStands ==
    ASSUME NEW t \in Threads, Between, Accept(t) \/ AutoAccept(t)
    PROVE  Stands(t)
<1>1. Begins(t, ReleaseSteps, rec, 0, 0) /\ rec.charge
  BY DEF Accept, AutoAccept, Begin
<1>2. ReleaseSteps # <<>> /\ ChargesPosted(ReleaseSteps)
  <2> DEFINE h == <<Must({"delivered"}, "accepted"), Do("post_release"),
                    Set({"accepted"}, "completed")>>
  <2>1. Must({"delivered"}, "accepted") \in Lawful /\ Do("post_release") \in Lawful
        /\ Set({"accepted"}, "completed") \in Lawful
    BY DoLawful, SetsPlain, PlainIsLawful DEF Names
  <2>2. h \in Seq(Lawful)
    BY <2>1
  <2>3. ChargesPosted(h)
    BY ChargePlans, DoFields
  <2>4. h \o Extras # <<>>
    BY ShortPlans, Peels
  <2> HIDE DEF h
  <2>5. ChargesPosted(h \o Extras)
    BY <2>2, <2>3, ShortPlans, ChargePlans, ChargesJoined
  <2> QED
    BY <2>4, <2>5 DEF ReleaseSteps, h
<1>3. /\ CopyHolds(t)' /\ Busy' = {t} /\ th'[t].todo = ReleaseSteps /\ th'[t].m = 0
      /\ UNCHANGED <<state, rec, ms, schedule, ledger, back>>
  BY <1>1, <1>2, PlainBegins DEF Between
<1>4. Rest' /\ CaptureLine \in ledger'
  BY <1>1, <1>3, MoneyStill DEF Between, RecordHolds
<1>5. Accepting(t)'
  BY <1>3, <1>4 DEF Accepting
<1> QED
  BY <1>3, <1>5 DEF Stands, Point

\* An order without milestones has none in its book.
FlatBook == ~schedule => \A m \in Milestones : ms[m] = "none"

LEMMA AcceptTrancheStands ==
    ASSUME NEW t \in Threads, Between, FlatBook, NEW m \in Milestones, AcceptMilestone(t, m)
    PROVE  Stands(t)
<1>1. Begins(t, Tranche1, rec, m, 0) /\ rec.charge /\ ~Frozen /\ ms[m] = "delivered"
  BY DEF AcceptMilestone, Tranche1, Releases
<1>2. schedule /\ ~Judged
  BY <1>1 DEF FlatBook, Judged, AllReleased
<1>3. Tranche1 # <<>> /\ ChargesPosted(Tranche1)
  <2> DEFINE h == <<Do("post_release"), Releases, Do("look"), Set({"fulfilling"}, "completed")>>
  <2>1. Do("post_release") \in Lawful /\ Releases \in Lawful /\ Do("look") \in Lawful
        /\ Set({"fulfilling"}, "completed") \in Lawful
    BY DoLawful, DoPlain, SetsPlain, MilestonePlain, PlainIsLawful DEF Names, Releases
  <2>2. h \in Seq(Lawful)
    BY <2>1
  <2>3. ChargesPosted(h)
    BY ChargePlans, DoFields
  <2>4. h \o Extras # <<>>
    BY ShortPlans, Peels
  <2> HIDE DEF h
  <2>5. ChargesPosted(h \o Extras)
    BY <2>2, <2>3, ShortPlans, ChargePlans, ChargesJoined
  <2> QED
    BY <2>4, <2>5 DEF Tranche1, h
<1>4. /\ CopyHolds(t)' /\ Busy' = {t} /\ th'[t].todo = Tranche1 /\ th'[t].m = m
      /\ UNCHANGED <<state, rec, ms, schedule, ledger, back>>
  BY <1>1, <1>3, PlainBegins DEF Between
<1>5. Rest' /\ CaptureLine \in ledger'
  BY <1>1, <1>4, MoneyStill DEF Between, RecordHolds
<1>6. ~Judged'
  BY <1>2, <1>4 DEF Judged, Frozen, AllReleased
<1>7. AcceptingTranche(t)'
  BY <1>2, <1>4, <1>5, <1>6 DEF AcceptingTranche, Milestones
<1> QED
  BY <1>4, <1>7 DEF Stands, Point

LEMMA FailStands ==
    ASSUME NEW t \in Threads, Between, NEW m \in Milestones, FailMilestone(t, m)
    PROVE  Stands(t)
<1>1. Begins(t, Fail1, rec, m, 0) /\ schedule /\ Fail1 # <<>>
  BY Starts5 DEF FailMilestone, Fail1
<1>2. ChargesPosted(Fail1)
  BY ChargePlans, DoFields DEF Fail1
<1>3. /\ CopyHolds(t)' /\ Busy' = {t} /\ th'[t].todo = Fail1 /\ th'[t].m = m
      /\ UNCHANGED <<state, rec, ms, schedule, ledger, back>>
  BY <1>1, <1>2, PlainBegins DEF Between
<1>4. Rest'
  BY <1>3, MoneyStill DEF Between
<1>5. Failing(t)'
  BY <1>1, <1>3, <1>4 DEF Failing, Milestones
<1> QED
  BY <1>3, <1>5 DEF Stands, Point

LEMMA OpenAtDispute ==
    ASSUME Between, state = "disputed"
    PROVE  /\ Open /\ Zero /\ OpenLedger /\ Settles("resolved")
           /\ Escrow \in Int /\ Escrow = Unreleased /\ Unreleased <= Price
           /\ Captured = IF CaptureLine \in ledger THEN Price ELSE 0
           /\ Escrow # 0 => CaptureLine \in ledger
<1>1. Open /\ Lines
  BY DEF Between, Rest, Over
<1>2. Zero /\ OpenLedger
  BY <1>1 DEF Open
<1>3. Settles("resolved") /\ Escrow \in Int
  BY <1>1, OpenSettles, LineAmounts
<1>4. Escrow = Unreleased /\ Unreleased <= Price
      /\ Captured = IF CaptureLine \in ledger THEN Price ELSE 0
  BY <1>1, <1>2, OpenSums
<1>5. ledger = {} => Escrow = 0
  BY SumEmpty DEF Escrow
<1> QED
  BY <1>1, <1>2, <1>3, <1>4, <1>5 DEF Lines

LEMMA UnreleasedStands == ASSUME NEW t \in Threads, Between, RefundUnreleased(t) PROVE Stands(t)
<1> DEFINE p == Return1("unreleased")
<1>1. /\ state = "disputed" /\ rec.charge /\ Unreleased > 0
      /\ Begins(t, p, rec, Unreleased, Unreleased)
  BY DEF RefundUnreleased, Return1
<1>2. p # <<>> /\ ChargesPosted(p)
  BY ChargePlans, DoFields, Starts5 DEF Return1
<1>3. Zero /\ OpenLedger /\ Unreleased \in 1 .. Price
  BY <1>1, OpenAtDispute, PriceAssumption
<1> HIDE DEF p
<1>4. /\ CopyHolds(t)' /\ Busy' = {t} /\ th'[t].todo = p /\ th'[t].m = Unreleased
      /\ th'[t].amount = Unreleased
      /\ UNCHANGED <<state, rec, ms, schedule, ledger, back>>
  BY <1>1, <1>2, PlainBegins DEF Between
<1>5. Zero' /\ OpenLedger' /\ Unreleased' = Unreleased /\ CaptureLine \in ledger'
  BY <1>1, <1>3, <1>4, MoneyStill DEF Between, RecordHolds
<1>6. Returning(t, "unreleased")'
  BY <1>1, <1>3, <1>4, <1>5 DEF Returning, p
<1> QED
  BY <1>4, <1>6 DEF Stands, Point

LEMMA PartialStands ==
    ASSUME NEW t \in Threads, Between, NEW a \in Awards, PartialRefund(t, a)
    PROVE  Stands(t)
<1> DEFINE p == Return1("partial")
<1>1. /\ state = "disputed" /\ rec.charge
      /\ Begins(t, p, rec, Least(a, Escrow), a)
  BY DEF PartialRefund, Return1, Remaining
<1>2. p # <<>> /\ ChargesPosted(p)
  BY ChargePlans, DoFields, Starts5 DEF Return1
<1>3. Zero /\ OpenLedger /\ a \in 1 .. Price
  BY <1>1, OpenAtDispute, PriceAssumption
<1> HIDE DEF p
<1>4. /\ CopyHolds(t)' /\ Busy' = {t} /\ th'[t].todo = p /\ th'[t].m = Least(a, Escrow)
      /\ th'[t].amount = a
      /\ UNCHANGED <<state, rec, ms, schedule, ledger, back>>
  BY <1>1, <1>2, PlainBegins DEF Between
<1>5. Zero' /\ OpenLedger' /\ Escrow' = Escrow /\ CaptureLine \in ledger'
  BY <1>1, <1>3, <1>4, MoneyStill DEF Between, RecordHolds
<1>6. Returning(t, "partial")'
  BY <1>1, <1>3, <1>4, <1>5 DEF Returning, p
<1> QED
  BY <1>4, <1>6 DEF Stands, Point

LEMMA RejectStands == ASSUME NEW t \in Threads, Between, Reject(t) PROVE Stands(t)
<1>1. state = "disputed"
  BY DEF Reject
<1>2. Open /\ Settles("resolved") /\ Escrow \in Int /\ (Escrow # 0 => CaptureLine \in ledger)
  BY <1>1, OpenAtDispute
<1>3. CASE Begin(t, <<Set({"disputed"}, "resolved")>>)
  <2> DEFINE p == Close2("resolved")
  <2>1. Begins(t, p, rec, 0, 0)
    BY <1>3 DEF Begin, Close2
  <2>2. p # <<>> /\ ChargesPosted(p)
    BY ChargePlans, DoFields, Starts5 DEF Close2
  <2> HIDE DEF p
  <2>3. /\ CopyHolds(t)' /\ Busy' = {t} /\ th'[t].todo = p
        /\ UNCHANGED <<state, rec, ms, schedule, ledger, back>>
    BY <2>1, <2>2, PlainBegins DEF Between
  <2>4. Settles("resolved")'
    BY <1>2, <2>3, MoneyStill
  <2>5. Closing(t)'
    BY <1>1, <2>3, <2>4 DEF Closing, Over, p
  <2> QED
    BY <2>3, <2>5 DEF Stands, Point
<1>4. CASE Escrow > 0 /\ Begins(t, Reject1, rec, 0, Escrow)
  <2>1. Reject1 # <<>> /\ ChargesPosted(Reject1)
    BY ChargePlans, DoFields, Starts5 DEF Reject1
  <2>2. /\ CopyHolds(t)' /\ Busy' = {t} /\ th'[t].todo = Reject1 /\ th'[t].amount = Escrow
        /\ UNCHANGED <<state, rec, ms, schedule, ledger, back>>
    BY <1>4, <2>1, PlainBegins DEF Between
  <2>3. Open' /\ Escrow' = Escrow /\ CaptureLine \in ledger'
    BY <1>2, <1>4, <2>2, MoneyStill
  <2>4. Rejecting(t)'
    BY <1>1, <2>2, <2>3 DEF Rejecting
  <2> QED
    BY <2>2, <2>4 DEF Stands, Point
<1> QED
  BY <1>3, <1>4 DEF Reject, Remaining, Reject1

LEMMA FullStands == ASSUME NEW t \in Threads, Between, FullRefund(t) PROVE Stands(t)
<1> DEFINE p == Full1("full", Refunds)
<1>1. state = "disputed" /\ Captured > 0 /\ Begins(t, p, rec, 0, Captured)
  BY DEF FullRefund, Full1, Refunds
<1>2. p # <<>> /\ ChargesPosted(p)
  BY ChargePlans, DoFields, Starts5 DEF Full1
<1>3. Open /\ Captured = Price /\ CaptureLine \in ledger
  BY <1>1, OpenAtDispute
<1> HIDE DEF p
<1>4. /\ CopyHolds(t)' /\ Busy' = {t} /\ th'[t].todo = p /\ th'[t].amount = Price
      /\ UNCHANGED <<state, rec, ms, schedule, ledger, back>>
  BY <1>1, <1>2, <1>3, PlainBegins DEF Between
<1>5. Open'
  BY <1>3, <1>4, MoneyStill
<1>6. Refunding(t, "full", Refunds)'
  BY <1>3, <1>4, <1>5 DEF Refunding, p
<1> QED
  BY <1>1, <1>4, <1>6 DEF Stands, Point

LEMMA RefundStands == ASSUME NEW t \in Threads, Between, RefundOrder(t) PROVE Stands(t)
<1>1. rec.charge /\ Begins(t, Repay0, rec, 0, Price)
  BY DEF RefundOrder, Repay0, Repaid
<1>2. Repay0 # <<>>
  BY DEF Repay0
<1>3. ChargesPosted(Repay0)
  BY ChargePlans, DoFields DEF Repay0
<1>4. /\ CopyHolds(t)' /\ Busy' = {t} /\ th'[t].todo = Repay0 /\ th'[t].amount = Price
      /\ UNCHANGED <<state, rec, ms, schedule, ledger, back>>
  BY <1>1, <1>2, <1>3, PlainBegins DEF Between
<1>5. Rest' /\ CaptureLine \in ledger'
  BY <1>1, <1>4, MoneyStill DEF Between, RecordHolds
<1>6. Repaying(t)'
  BY <1>4, <1>5 DEF Repaying
<1> QED
  BY <1>4, <1>6 DEF Stands, Point

LEMMA RequestStands == ASSUME NEW t \in Threads, Between, FlatBook, Request(t) PROVE Stands(t)
<1>1. ~CapturedEvent(t) /\ ~RefundedEvent(t)
  BY DEF Between, Rest, Over, CapturedEvent, RefundedEvent
<1> QED
  BY <1>1, PlaceStands, QuietRequests, MarkStands, AcceptStands, AcceptTrancheStands, FailStands,
     UnreleasedStands, PartialStands, RejectStands, FullStands, RefundStands DEF Request

\* A milestone that was released or failed stays so, but for the seeding.
LEMMA BookStep ==
    ASSUME ThreadsHold, NEW t \in Threads, Step(t), MilestonesHold, FlatBook
    PROVE  MilestonesHold' /\ FlatBook' /\ (Judged /\ ~At(t, "seed") => Judged')
<1>1. schedule' = schedule
  BY StepFrames
<1>2. CASE ms' = ms
  BY <1>1, <1>2 DEF MilestonesHold, FlatBook, Judged, Frozen, AllReleased
<1>3. CASE ms' # ms
  <2>1. Seed(t) \/ SetMilestone(t)
    <3>1. Doing(t) \in {"seed", "milestone"}
      BY <1>3, StepFrames
    <3> QED
      BY <3>1, Takes DEF Doing
  <2>2. CASE Seed(t)
    <3>1. At(t, "seed") /\ schedule /\ ms' = [m \in Milestones |-> "pending"]
      BY <1>3, <2>2 DEF Seed
    <3> QED
      BY <1>1, <3>1 DEF MilestonesHold, FlatBook, Milestones
  <2>3. CASE SetMilestone(t)
    <3> DEFINE s == Head(th[t].todo)
               i == th[t].m
    <3>1. ms[i] \in s.from /\ ms' = [ms EXCEPT ![i] = s.to] /\ s.do = "milestone"
      BY <1>3, <2>3 DEF SetMilestone, At
    <3>2. s \in Lawful
      BY <2>3, Tails DEF SetMilestone, At, ThreadsHold, IsThread
    <3>3. ms[i] \in {"pending", "delivered"}
      BY <3>1, <3>2 DEF Lawful
    <3> HIDE DEF s, i
    <3>4. /\ ms' = [m \in Milestones |-> ms'[m]]
          /\ \A m \in Milestones : m # i => ms'[m] = ms[m]
      BY <3>1 DEF MilestonesHold
    <3>5. i \in Milestones
      BY <1>3, <3>1 DEF MilestonesHold
    <3>6. schedule
      BY <3>3, <3>5 DEF FlatBook
    <3>7. Judged => Judged'
      BY <3>3, <3>4, <3>5 DEF Judged, Frozen, AllReleased, Milestones
    <3>8. MilestonesHold'
      BY <3>4 DEF MilestonesHold, Milestones
    <3> QED
      BY <1>1, <3>6, <3>7, <3>8 DEF FlatBook
  <2> QED
    BY <2>1, <2>2, <2>3
<1> QED
  BY <1>2, <1>3

LEMMA BackStep ==
    ASSUME NEW t \in Threads, Step(t), BackHolds
    PROVE  BackHolds'
<1>1. CASE back' = back
  BY <1>1 DEF BackHolds
<1>2. CASE Doing(t) = "refund"
  <2>1. Refund(t)
    BY <1>2, Takes DEF Doing
  <2>2. PICK k, a : back' = [back EXCEPT ![k] = a]
    BY <2>1 DEF Refund
  <2> QED
    BY <2>2 DEF BackHolds, RefundKeys
<1> QED
  BY <1>1, <1>2, StepFrames

\* While requests do not overlap: between two of them the books are at rest, and in one
\* they stand where its remaining steps say.
BooksHold == /\ Lines /\ RecordHolds /\ MilestonesHold /\ BackHolds /\ FlatBook
             /\ \/ Busy = {} /\ Rest
                \/ \E t \in Threads : Busy = {t} /\ Point(t) /\ CopyHolds(t)
Books == calm => BooksHold

LEMMA BooksAtInit == Init => Books
<1> SUFFICES ASSUME Init PROVE BooksHold
  BY DEF Books
<1>1. \A t \in Threads : th[t] = Idle
  BY DEF Init
<1>2. Busy = {}
  BY <1>1 DEF Busy, Idle
<1>3. Lines
  <2>1. ledger = {} /\ IsFiniteSet({})
    BY FS_EmptySet DEF Init
  <2> QED
    BY <2>1 DEF Lines
<1>4. RecordHolds /\ MilestonesHold /\ BackHolds /\ FlatBook
  BY DEF Init, RecordHolds, Record, NoRecord, MilestonesHold, BackHolds, FlatBook
<1>5. Rest
  BY DEF Init, Rest, Over, Open, Zero, OpenLedger
<1> QED
  BY <1>2, <1>3, <1>4, <1>5 DEF BooksHold

\* The only request while requests do not overlap.
LEMMA OnlyOne ==
    ASSUME ThreadsHold, OneAtATime, calm, BooksHold, NEW t \in Threads, Step(t)
    PROVE  Solo(t) /\ Point(t) /\ CopyHolds(t) /\ Ahead(t)
<1>1. t \in Busy
  BY Takes DEF Busy
<1>2. Busy = {t}
  BY <1>1 DEF OneAtATime
<1>3. Solo(t)
  BY <1>2 DEF Solo
<1>4. Point(t) /\ CopyHolds(t)
  BY <1>1, <1>2 DEF BooksHold
<1>5. Ahead(t)
  BY <1>3, <1>4, PointAhead DEF BooksHold
<1> QED
  BY <1>3, <1>4, <1>5

LEMMA OthersLeave ==
    ASSUME (\E r \in Reservations : Expire(r)) \/ OtherBuys \/ UNCHANGED vars
    PROVE  UNCHANGED <<state, rec, ms, schedule, ledger, back, captured, th, calm>>
BY DEF Expire, OtherBuys, vars, orderVars, pspVars, boundVars

LEMMA BooksStay ==
    ASSUME BooksHold, UNCHANGED <<state, rec, ms, schedule, ledger, back, th>>
    PROVE  BooksHold'
<1>1. Lines' /\ RecordHolds' /\ MilestonesHold' /\ BackHolds' /\ FlatBook'
  BY MoneyStill DEF BooksHold, RecordHolds, MilestonesHold, BackHolds, FlatBook, Milestones, RefundKeys
<1>2. (Rest => Rest') /\ Busy' = Busy
  BY MoneyStill DEF Busy
<1>3. ASSUME NEW t \in Threads, Point(t), CopyHolds(t) PROVE Point(t)' /\ CopyHolds(t)'
  <2>1. CopyHolds(t)'
    BY <1>3 DEF CopyHolds, Charges
  <2>2. Escrow' = Escrow /\ Cash' = Cash /\ Keys' = Keys /\ Unreleased' = Unreleased
        /\ (Zero => Zero') /\ (OpenLedger => OpenLedger') /\ (Open => Open')
        /\ (\A k : OnlyBack(k) => OnlyBack(k)') /\ (\A x : Settles(x) => Settles(x)')
    BY MoneyStill
  <2>3. (Frozen <=> Frozen') /\ (AllReleased <=> AllReleased') /\ (Judged <=> Judged')
    BY DEF Judged, Frozen, AllReleased, Milestones
  <2>4. Rest /\ Quiet(th[t].todo) => Point(t)'
    BY <1>2 DEF Point, Quiet
  <2>5. /\ Placing(t) => Placing(t)'
        /\ Marking(t) => Marking(t)'
        /\ Accepting(t) => Accepting(t)'
    BY <1>2, <2>2 DEF Placing, Marking, Delivered, Accepting
  <2>6. /\ AcceptingTranche(t) => AcceptingTranche(t)'
        /\ Failing(t) => Failing(t)'
        /\ Closing(t) => Closing(t)'
    BY <1>2, <2>2, <2>3 DEF AcceptingTranche, Failing, Closing, Milestones
  <2>7. /\ \A k : Returning(t, k) => Returning(t, k)'
        /\ Rejecting(t) => Rejecting(t)'
    BY <2>2 DEF Returning, Rejecting, Least
  <2>8. \A k : Undoing(t, k) => Undoing(t, k)'
    <3>1. EscrowOf' = EscrowOf /\ CashOf' = CashOf
      BY DEF EscrowOf, CashOf
    <3> QED
      BY <2>2, <3>1 DEF Undoing
  <2>9. \A k, e : Refunding(t, k, e) => Refunding(t, k, e)'
    BY <2>2, <2>8 DEF Refunding
  <2>10. Repaying(t) => Repaying(t)'
    BY <1>2, <2>2, <2>9 DEF Repaying
  <2>11. Point(t)'
    BY <1>3, <2>4, <2>5, <2>6, <2>7, <2>9, <2>10 DEF Point
  <2> QED
    BY <2>1, <2>11
<1> QED
  BY <1>1, <1>2, <1>3 DEF BooksHold

LEMMA BooksStep ==
    ASSUME ThreadsHold, OneAtATime, Books, [Next]_vars
    PROVE  Books'
<1> SUFFICES ASSUME calm' PROVE BooksHold'
  BY DEF Books
<1>1. ASSUME NEW t \in Threads, Step(t) PROVE BooksHold'
  <2>1. calm
    BY <1>1, StepFrames
  <2>2. Solo(t) /\ CopyHolds(t) /\ Ahead(t) /\ Lines /\ RecordHolds
    BY <1>1, <2>1, OnlyOne DEF Books, BooksHold
  <2>3. RecordHolds' /\ (Busy' = {} \/ CopyHolds(t)')
    BY <1>1, <2>2, CopyStep
  <2>4. MilestonesHold' /\ FlatBook' /\ BackHolds'
    BY <1>1, <2>1, BookStep, BackStep DEF Books, BooksHold
  <2>5. Lines' /\ ((Busy' = {} /\ Rest') \/ (Busy' = {t} /\ Point(t)'))
    BY <2>2 DEF Ahead, Follows
  <2> QED
    BY <2>3, <2>4, <2>5 DEF BooksHold
<1>2. ASSUME NEW t \in Threads, Request(t) PROVE BooksHold'
  <2>1. calm /\ Busy = {}
    BY <1>2, RequestStarts DEF Starts
  <2>2. Between /\ FlatBook
    BY <2>1 DEF Books, BooksHold, Between
  <2>3. Stands(t)
    BY <1>2, <2>2, RequestStands
  <2>4. UNCHANGED <<state, rec, ms, schedule, ledger, back>>
    BY <2>3 DEF Stands
  <2>5. Lines' /\ RecordHolds' /\ MilestonesHold' /\ BackHolds' /\ FlatBook'
    BY <2>1, <2>4, MoneyStill DEF Books, BooksHold, RecordHolds, MilestonesHold, BackHolds, FlatBook,
                                 Milestones, RefundKeys
  <2> QED
    BY <2>3, <2>5 DEF BooksHold, Stands
<1>3. ASSUME (\E r \in Reservations : Expire(r)) \/ OtherBuys \/ UNCHANGED vars PROVE BooksHold'
  BY <1>3, OthersLeave, BooksStay DEF Books
<1>4. ~Crash
  BY DEF Crash
<1> QED
  BY <1>1, <1>2, <1>3, <1>4 DEF Next

ByTranche == {Key("release", "", m) : m \in Milestones} \cup {CaptureKey}

\* An order with milestones that nobody delivered whole: it ends its milestones judged, and
\* after their judgement only the rest of escrow is paid back, once.
TranchesSettle ==
    calm /\ schedule /\ ~rec.at =>
       /\ state # "accepted"
       /\ state = "delivered" => \E t \in Busy : Delivered(t)
       /\ state \in {"completed", "disputed"} => Judged
       /\ UnreleasedKey \in Keys /\ Keys \subseteq ByTranche \cup {UnreleasedKey} =>
             Escrow = 0 /\ Judged

LEMMA TranchesAtInit == Init => TranchesSettle
BY DEF Init, TranchesSettle, Keys

LEMMA TranchesStep ==
    ASSUME ThreadsHold, OneAtATime, Books, TranchesSettle, [Next]_vars
    PROVE  TranchesSettle'
<1> SUFFICES ASSUME calm', schedule', ~rec'.at
             PROVE  /\ state' # "accepted"
                    /\ state' = "delivered" => \E t \in Busy' : Delivered(t)'
                    /\ state' \in {"completed", "disputed"} => Judged'
                    /\ UnreleasedKey \in Keys' /\ Keys' \subseteq ByTranche' \cup {UnreleasedKey} =>
                          Escrow' = 0 /\ Judged'
  BY DEF TranchesSettle
<1>0. ByTranche' = ByTranche
  BY DEF ByTranche, Milestones
<1>1. ASSUME NEW t \in Threads, Step(t)
      PROVE  /\ state' # "accepted"
             /\ state' = "delivered" => \E u \in Busy' : Delivered(u)'
             /\ state' \in {"completed", "disputed"} => Judged'
             /\ UnreleasedKey \in Keys' /\ Keys' \subseteq ByTranche \cup {UnreleasedKey} =>
                   Escrow' = 0 /\ Judged'
  <2>1. calm /\ schedule
    BY <1>1, StepFrames
  <2>2. Solo(t) /\ CopyHolds(t) /\ Turned(t) /\ Lines /\ RecordHolds /\ MilestonesHold /\ FlatBook
    BY <1>1, <2>1, OnlyOne DEF Books, BooksHold, Ahead
  <2>3. ~rec.at
    BY <1>1, <2>2, CopyStep
  <2>4. /\ state # "accepted"
        /\ state = "delivered" => \E u \in Busy : Delivered(u)
        /\ state \in {"completed", "disputed"} => Judged
        /\ UnreleasedKey \in Keys /\ Keys \subseteq ByTranche \cup {UnreleasedKey} =>
              Escrow = 0 /\ Judged
    BY <2>1, <2>3 DEF TranchesSettle
  <2>5. Judged /\ ~At(t, "seed") => Judged'
    BY <1>1, <2>2, BookStep
  <2>6. state # "delivered"
    <3> SUFFICES ASSUME state = "delivered" PROVE FALSE
      OBVIOUS
    <3>1. Delivered(t)
      BY <2>2, <2>4 DEF Solo
    <3>2. PICK x \in {<<>>, CaptureSteps} : th[t].todo = Deliver2(x) /\ th[t].mem.at
      BY <3>1 DEF Delivered
    <3>3. Head(th[t].todo).do = "store"
      BY <3>2, DeliverPlans
    <3>4. Store(t)
      BY <1>1, <3>3, Takes
    <3>5. rec'.at
      BY <3>2, <3>4 DEF Store
    <3> QED
      BY <3>5
  <2>7. state' # "accepted" /\ (state' = "delivered" => \E u \in Busy' : Delivered(u)')
    BY <2>2, <2>4, <2>6 DEF Turned
  <2>8. state' \in {"completed", "disputed"} => Judged'
    <3>1. CASE At(t, "seed")
      <4>1. state' = state /\ state \in {"none", "payment_authorizing"}
        BY <1>1, <2>2, <3>1, StepFrames DEF Turned, At, Doing
      <4> QED
        BY <4>1
    <3>2. CASE ~At(t, "seed")
      <4>1. state' \in {"completed", "disputed"} => Judged
        BY <2>2, <2>4, <2>6 DEF Turned, Judged
      <4> QED
        BY <2>5, <3>2, <4>1
    <3> QED
      BY <3>1, <3>2
  <2>9. ASSUME UnreleasedKey \in Keys', Keys' \subseteq ByTranche \cup {UnreleasedKey}
        PROVE  Escrow' = 0 /\ Judged'
    <3>1. CASE ledger' = ledger
      <4>1. Keys' = Keys /\ Escrow' = Escrow
        BY <3>1 DEF Keys, Escrow, EscrowOf
      <4>2. ~At(t, "seed")
        <5>1. ~OpenLedger
          <6>1. PICK y \in ledger : y.key = UnreleasedKey
            BY <2>9, <4>1 DEF Keys
          <6>2. UnreleasedKey.name = "unreleased"
            BY DEF UnreleasedKey, Key
          <6>3. y \in ledger /\ y.key.name = "unreleased"
            BY <6>1, <6>2
          <6> QED
            BY <6>3 DEF OpenLedger
        <5> QED
          BY <2>2, <5>1 DEF Turned
      <4> QED
        BY <2>4, <2>5, <2>9, <4>1, <4>2
    <3>2. CASE ledger' # ledger
      <4>1. PICK x : Post(x)
        BY <1>1, <3>2, StepPosts DEF Posts
      <4>2. x.key \notin Keys /\ Keys' = Keys \cup {x.key}
        BY <3>2, <4>1 DEF Post, Keys
      <4>3. ~At(t, "seed")
        <5>1. At(t, "seed") => Doing(t) = "seed"
          BY DEF At, Doing
        <5> QED
          BY <1>1, <3>2, <5>1, StepFrames
      <4>4. CASE x.key = UnreleasedKey
        <5>1. Escrow' = 0 /\ state = "disputed"
          BY <2>2, <4>2, <4>4 DEF Turned
        <5> QED
          BY <2>4, <2>5, <4>3, <5>1
      <4>5. CASE x.key # UnreleasedKey
        <5>1. UnreleasedKey \in Keys /\ Keys \subseteq ByTranche \cup {UnreleasedKey}
          BY <2>9, <4>2, <4>5
        <5>2. Judged
          BY <2>4, <5>1
        <5>3. CaptureKey \in Keys
          <6>1. CaptureLine \in ledger
            BY <2>2, <5>1 DEF Lines, Keys
          <6>2. CaptureLine.key = CaptureKey
            BY DEF CaptureLine, Txn
          <6> QED
            BY <6>1, <6>2 DEF Keys
        <5>4. x.key \in ByTranche
          BY <2>9, <4>2, <4>5
        <5>5. PICK m \in Milestones : x.key = Key("release", "", m)
          BY <4>2, <5>3, <5>4 DEF ByTranche
        <5>6. Key("release", "", m) \in Keys' \ Keys
          BY <4>2, <5>5
        <5> QED
          BY <2>2, <5>2, <5>6 DEF Turned
      <4> QED
        BY <4>4, <4>5
    <3> QED
      BY <3>1, <3>2
  <2> QED
    BY <2>7, <2>8, <2>9
<1>2. ASSUME UNCHANGED <<state, rec, ms, schedule, ledger, back>>, calm, Busy = {} \/ th' = th
      PROVE  /\ state' # "accepted"
             /\ state' = "delivered" => \E u \in Busy' : Delivered(u)'
             /\ state' \in {"completed", "disputed"} => Judged'
             /\ UnreleasedKey \in Keys' /\ Keys' \subseteq ByTranche \cup {UnreleasedKey} =>
                   Escrow' = 0 /\ Judged'
  <2>1. /\ state # "accepted"
        /\ state = "delivered" => \E u \in Busy : Delivered(u)
        /\ state \in {"completed", "disputed"} => Judged
        /\ UnreleasedKey \in Keys /\ Keys \subseteq ByTranche \cup {UnreleasedKey} =>
              Escrow = 0 /\ Judged
    BY <1>2 DEF TranchesSettle
  <2>2. Keys' = Keys /\ Escrow' = Escrow
    BY <1>2, MoneyStill
  <2>3. Judged => Judged'
    BY <1>2 DEF Judged, Frozen, AllReleased, Milestones
  <2>4. th' = th => Busy' = Busy /\ \A u : Delivered(u) => Delivered(u)'
    BY DEF Busy, Delivered
  <2> QED
    BY <1>2, <2>1, <2>2, <2>3, <2>4
<1>3. ASSUME NEW t \in Threads, Request(t)
      PROVE  UNCHANGED <<state, rec, ms, schedule, ledger, back>> /\ calm /\ Busy = {}
  <2>1. calm /\ Busy = {}
    BY <1>3, RequestStarts DEF Starts
  <2>2. Between /\ FlatBook
    BY <2>1 DEF Books, BooksHold, Between
  <2> QED
    BY <1>3, <2>1, <2>2, RequestStands DEF Stands
<1>4. ASSUME (\E r \in Reservations : Expire(r)) \/ OtherBuys \/ UNCHANGED vars
      PROVE  UNCHANGED <<state, rec, ms, schedule, ledger, back>> /\ calm /\ th' = th
  BY <1>4, OthersLeave
<1>5. ~Crash
  BY DEF Crash
<1> QED
  BY <1>0, <1>1, <1>2, <1>3, <1>4, <1>5 DEF Next
-----------------------------------------------------------------------------
\* THE BOOKS AND THE PROVIDER

MoneyInv == IInv /\ Books /\ TranchesSettle

LEMMA MoneyHolds == Spec => []MoneyInv
<1>1. Init => MoneyInv
  BY Initially, BooksAtInit, TranchesAtInit DEF MoneyInv
<1>2. MoneyInv /\ [Next]_vars => MoneyInv'
  <2> SUFFICES ASSUME MoneyInv, [Next]_vars PROVE MoneyInv'
    OBVIOUS
  <2>1. IInv'
    BY IInvStep DEF MoneyInv
  <2>2. Books'
    BY BooksStep DEF MoneyInv, IInv
  <2>3. TranchesSettle'
    BY TranchesStep DEF MoneyInv, IInv
  <2> QED
    BY <2>1, <2>2, <2>3 DEF MoneyInv
<1> QED
  BY <1>1, <1>2, PTL DEF Spec

\* At any point at most one refund was made of an order.
LEMMA OneRefund ==
    ASSUME BooksHold
    PROVE  \E k \in RefundKeys : OnlyBack(k)
<1>1. Zero => \E k \in RefundKeys : OnlyBack(k)
  BY ZeroIsOne DEF RefundKeys
<1>2. Open => Zero
  BY DEF Open
<1>3. \A x : Settles(x) => \E k \in RefundKeys : OnlyBack(k)
  BY DEF Settles
<1>4. Rest => \E k \in RefundKeys : OnlyBack(k)
  BY <1>1, <1>2, <1>3 DEF Rest
<1>5. ASSUME NEW t, Point(t) PROVE \E k \in RefundKeys : OnlyBack(k)
  <2>1. Placing(t) \/ Marking(t) \/ Accepting(t) \/ AcceptingTranche(t) \/ Failing(t) =>
           Rest \/ Open
    BY DEF Placing, Marking, Accepting, AcceptingTranche, Failing
  <2>2. Closing(t) \/ Rejecting(t) => Open \/ \E x : Settles(x)
    BY DEF Closing, Rejecting
  <2>3. \A k : Returning(t, k) => Zero \/ OnlyBack(k)
    BY DEF Returning
  <2>4. \A k, e : Refunding(t, k, e) => Open \/ OnlyBack(k)
    BY DEF Refunding
  <2>5. Repaying(t) => Rest \/ Open \/ OnlyBack("refund") \/ \E x : Settles(x)
    BY <2>4 DEF Repaying
  <2> QED
    BY <1>1, <1>2, <1>3, <1>4, <1>5, <2>1, <2>2, <2>3, <2>4, <2>5 DEF Point, RefundKeys
<1> QED
  BY <1>4, <1>5 DEF BooksHold

LEMMA BackSum ==
    ASSUME BooksHold
    PROVE  /\ IsFiniteSet(RefundKeys) /\ \A k \in RefundKeys : back[k] \in 0 .. Price
           /\ SumFunctionOnSet(back, RefundKeys) \in Int
           /\ SumFunctionOnSet(back, RefundKeys) <= Price
<1>1. PICK k \in RefundKeys : OnlyBack(k)
  BY OneRefund
<1>2. /\ back[k] \in 0 .. Price /\ Price \in Nat /\ 0 \in 0 .. Price
      /\ \A j \in RefundKeys \ {k} : back[j] = 0
  BY <1>1, PriceAssumption DEF OnlyBack
<1>3. \A j \in RefundKeys : back[j] \in 0 .. Price
  BY <1>2
<1>4. IsFiniteSet(RefundKeys)
  <2>1. RefundKeys = ({"refund", "unreleased"} \cup {"full"}) \cup {"partial"}
    BY DEF RefundKeys
  <2>2. IsFiniteSet({"refund"} \cup {"unreleased"})
    BY FS_Singleton, FS_AddElement
  <2>3. {"refund"} \cup {"unreleased"} = {"refund", "unreleased"}
    OBVIOUS
  <2> QED
    BY <2>1, <2>2, <2>3, FS_AddElement
<1>5. \A j \in RefundKeys : back[j] \in Int
  BY <1>3
<1>6. SumFunctionOnSet(back, RefundKeys) = SumFunctionOnSet(back, {k})
  BY <1>2, <1>4, <1>5, SumPart
<1>7. SumFunctionOnSet(back, {k}) = back[k]
  BY <1>5, SumOne
<1> QED
  BY <1>2, <1>3, <1>4, <1>6, <1>7

\* What was posted as given back is covered, line by line, by what the provider gave back.
LEMMA RefundsCovered ==
    ASSUME BooksHold
    PROVE  Refunded <= SumFunctionOnSet(back, RefundKeys)
<1> DEFINE S == Kind("refund")
           m == [x \in S |-> x.key.name]
<1>1. Lines
  BY DEF BooksHold
<1>2. S \in SUBSET ledger /\ IsFiniteSet(S) /\ \A x \in S : CashOf[x] = x.cash /\ x.cash \in Int
  BY <1>1, LineAmounts DEF Kind
<1>3. IsFiniteSet(RefundKeys) /\ \A k \in RefundKeys : back[k] \in Nat
  BY BackSum, PriceAssumption
<1>4. \A x \in S : IsRefund(x) /\ (x.cash < 0 => -x.cash <= back[x.key.name])
  BY <1>1, LineKinds DEF Lines, Kind
<1>5. ASSUME NEW x \in S, CashOf[x] < 0
      PROVE  m[x] \in RefundKeys /\ CashOf[x] + back[m[x]] >= 0
  <2>1. x.cash < 0 /\ m[x] = x.key.name /\ x.cash \in Int
    BY <1>2, <1>5
  <2>2. x.key.name \in RefundKeys /\ -x.cash <= back[x.key.name]
    BY <1>4, <2>1 DEF IsRefund
  <2>3. back[x.key.name] \in Nat
    BY <1>3, <2>2
  <2> QED
    BY <1>2, <2>1, <2>2, <2>3
<1>6. ASSUME NEW x \in S, NEW y \in S, CashOf[x] < 0, CashOf[y] < 0, m[x] = m[y]
      PROVE  x = y
  <2>1. x.key \in CashKeys /\ y.key \in CashKeys /\ x.key.name = y.key.name
    BY <1>2, <1>4, <1>6 DEF IsRefund
  <2>2. \A k, j \in CashKeys : k.name = j.name => k = j
    <3>1. /\ UnreleasedKey.name = "unreleased" /\ Key("partial", "", 0).name = "partial"
          /\ Key("refund", "capture", 0).name = "refund"
          /\ Key("full", "capture", 0).name = "full"
      BY DEF UnreleasedKey, Key
    <3>2. PICK a, b, c, d :
             /\ a = UnreleasedKey /\ b = Key("partial", "", 0)
             /\ c = Key("refund", "capture", 0) /\ d = Key("full", "capture", 0)
      OBVIOUS
    <3>3. a.name = "unreleased"
      BY <3>1, <3>2
    <3>4. b.name = "partial"
      BY <3>1, <3>2
    <3>5. c.name = "refund"
      BY <3>1, <3>2
    <3>6. d.name = "full"
      BY <3>1, <3>2
    <3>7. CashKeys = {a, b, c, d}
      BY <3>2 DEF CashKeys
    <3> QED
      BY <3>3, <3>4, <3>5, <3>6, <3>7
  <2>3. x.key = y.key
    BY <2>1, <2>2
  <2> QED
    BY <1>1, <1>2, <2>3 DEF Lines
<1>7. \A x \in S : CashOf[x] \in Int
  BY <1>2
<1> HIDE DEF S, m
<1>8. SumFunctionOnSet(CashOf, S) + SumFunctionOnSet(back, RefundKeys) >= 0
  BY <1>2, <1>3, <1>5, <1>6, <1>7, SumCover
<1>9. PICK a \in Int : a = SumFunctionOnSet(CashOf, S)
  BY <1>2, <1>7, SumInt
<1>10. PICK b \in Int : b = SumFunctionOnSet(back, RefundKeys)
  BY BackSum
<1>11. a + b >= 0 /\ Refunded = -a
  BY <1>8, <1>9, <1>10 DEF Refunded, S
<1> QED
  BY <1>10, <1>11

\* The ledger never tells of money the provider has not moved: the capture is posted after
\* the provider captured, and the refunds posted add up to at most what it gave back.
THEOREM LedgerStaysWithinProvider == Spec => []LedgerWithinProvider
<1>1. MoneyInv => LedgerWithinProvider
  BY RefundsCovered DEF MoneyInv, Books, IInv, PostedWhatWasCaptured, LedgerWithinProvider
<1> QED
  BY <1>1, MoneyHolds, PTL

-----------------------------------------------------------------------------
\* THE BOOKS AND THE ORDER

\* A capture and its tranches never overdraw escrow: a tranche is one unit of the price.
LEMMA TranchesWithinPrice ==
    ASSUME Lines, Keys \subseteq ByTranche
    PROVE  Escrow >= 0
<1>0. Price \in Nat \ {0} /\ IsFiniteSet(Milestones) /\ Cardinality(Milestones) = Price
  BY PriceAssumption, FS_Interval DEF Milestones
<1>1. CASE ledger = {}
  <2>1. Escrow = 0
    BY <1>1, SumEmpty DEF Escrow
  <2> QED
    BY <2>1
<1>2. CASE ledger # {}
  <2> DEFINE S == ledger \ {CaptureLine}
             g == [m \in Milestones |-> 1]
             at == [x \in S |-> x.key.m]
  <2>1. CaptureLine \in ledger
    BY <1>2 DEF Lines
  <2>2. /\ IsFiniteSet(ledger) /\ IsFiniteSet(S)
        /\ \A x \in ledger : EscrowOf[x] = x.escrow /\ EscrowOf[x] \in Int
    BY LineAmounts DEF Lines
  <2>3. ASSUME NEW x \in S
        PROVE  x.key.m \in Milestones /\ x.escrow = -1 /\ x.key = Key("release", "", x.key.m)
    <3>1. x \in ledger /\ x.key \in ByTranche /\ x # CaptureLine
      BY DEF Keys
    <3>2. IsSettlement(x) \/ IsRefund(x)
      BY <3>1 DEF Lines
    <3>3. x.key # CaptureKey
      <4>1. CaptureKey.name = "capture"
        BY DEF CaptureKey, Key
      <4>2. x.key.name # "capture"
        BY <3>1, <3>2, LineKinds
      <4> QED
        BY <4>1, <4>2
    <3>4. PICK m \in Milestones : x.key = Key("release", "", m)
      BY <3>1, <3>3 DEF ByTranche
    <3>5. Key("release", "", m).name = "release" /\ Key("release", "", m).m = m
      BY DEF Key
    <3>6. x.key.name = "release" /\ x.key.m = m
      BY <3>4, <3>5
    <3>7. IsSettlement(x)
      BY <3>2, <3>6, LineKinds
    <3>8. x = ReleaseLine(m)
      BY <3>6, <3>7, Settlements
    <3>9. m # 0
      BY <1>0 DEF Milestones
    <3>10. ReleaseLine(m).escrow = -1
      BY <3>9 DEF ReleaseLine, Txn
    <3> QED
      BY <3>4, <3>6, <3>8, <3>10
  <2>4. ASSUME NEW x \in S
        PROVE  EscrowOf[x] = -1 /\ at[x] = x.key.m /\ at[x] \in Milestones /\ g[at[x]] = 1
    <3>1. x.key.m \in Milestones /\ x.escrow = -1 /\ EscrowOf[x] = x.escrow
      BY <2>2, <2>3
    <3> QED
      BY <3>1
  <2>5. ASSUME NEW x \in S, NEW y \in S, at[x] = at[y]
        PROVE  x = y
    <3>1. x.key.m = y.key.m
      BY <2>4, <2>5
    <3>2. x.key = y.key
      BY <2>3, <3>1
    <3> QED
      BY <3>2 DEF Lines
  <2>6. /\ \A m \in Milestones : g[m] = 1
        /\ \A x \in S : EscrowOf[x] \in Int
        /\ S = ledger \ {CaptureLine}
    BY <2>2
  <2>7. CaptureLine.escrow = Price
    BY DEF CaptureLine, Txn
  <2> HIDE DEF S, g, at
  <2>8. SumFunctionOnSet(EscrowOf, S) + SumFunctionOnSet(g, Milestones) >= 0
    <3>1. \A m \in Milestones : g[m] \in Nat
      BY <2>6
    <3>2. \A x \in S : EscrowOf[x] < 0 => at[x] \in Milestones /\ EscrowOf[x] + g[at[x]] >= 0
      BY <2>4
    <3>3. \A x, y \in S : EscrowOf[x] < 0 /\ EscrowOf[y] < 0 /\ at[x] = at[y] => x = y
      BY <2>5
    <3> QED
      BY <1>0, <2>2, <2>6, <3>1, <3>2, <3>3, SumCover
  <2>9. SumFunctionOnSet(g, Milestones) = Price
    BY <1>0, <2>6, SumOnes
  <2>10. Escrow = EscrowOf[CaptureLine] + SumFunctionOnSet(EscrowOf, S)
    BY <2>1, <2>2, <2>6, SumTake DEF Escrow
  <2>11. PICK a \in Int : a = SumFunctionOnSet(EscrowOf, S)
    BY <2>2, <2>6, SumInt
  <2>12. EscrowOf[CaptureLine] = Price
    BY <2>1, <2>2, <2>7
  <2>13. a + Price >= 0
    BY <2>8, <2>9, <2>11
  <2> QED
    BY <1>0, <2>10, <2>11, <2>12, <2>13
<1> QED
  BY <1>1, <1>2

\* An order that nobody has delivered or that is cancelled has nothing in the ledger.
LEMMA NothingPosted ==
    ASSUME Lines, PostedWhatWasCaptured, MoneyFollowsDelivery, ~schedule, state \in Early
    PROVE  ledger = {}
<1> SUFFICES ASSUME ledger # {} PROVE FALSE
  OBVIOUS
<1>1. CaptureLine \in ledger
  BY DEF Lines
<1>2. CaptureLine.kind = "capture"
  BY DEF CaptureLine, Txn
<1>3. Kind("capture") # {}
  BY <1>1, <1>2 DEF Kind
<1> QED
  BY <1>3 DEF PostedWhatWasCaptured, MoneyFollowsDelivery

LEMMA RestIsCovered ==
    ASSUME BooksHold, TranchesSettle, OneWay, Busy = {}
    PROVE  Escrow >= 0
<1>1. Lines /\ Rest /\ calm
  BY DEF BooksHold, OneWay
<1>2. CASE ~schedule
  <2>1. CASE state \in Over /\ Settles(state)
    BY <1>2, <2>1 DEF Settles
  <2>2. CASE Open
    <3>1. Escrow \in 0 .. Price
      BY <1>1, <1>2, <2>2, FlatSums DEF Open
    <3> QED
      BY <3>1, PriceAssumption
  <2> QED
    BY <1>1, <2>1, <2>2 DEF Rest
<1>3. CASE schedule
  <2>1. ~rec.at /\ Keys \subseteq ByMilestone
    BY <1>3 DEF OneWay
  <2>2. Keys \subseteq ByTranche \cup {UnreleasedKey}
    BY <2>1 DEF ByMilestone, ByTranche, CaptureKey, UnreleasedKey
  <2>3. CASE UnreleasedKey \in Keys
    <3>1. Escrow = 0
      BY <1>1, <1>3, <2>1, <2>2, <2>3 DEF TranchesSettle
    <3> QED
      BY <3>1
  <2>4. CASE UnreleasedKey \notin Keys
    <3>1. Keys \subseteq ByTranche
      BY <2>2, <2>4
    <3> QED
      BY <1>1, <3>1, TranchesWithinPrice
  <2> QED
    BY <2>3, <2>4
<1> QED
  BY <1>2, <1>3

\* The books agree with the order: a completed order has paid out all of its escrow and
\* kept its cash, a refunded one has given everything back, an order nobody has delivered
\* or that is cancelled has moved nothing; no release, award or refund pays out of an empty
\* escrow; and the buyer is never given back more than was charged.
THEOREM BooksAgree == Spec => []BooksSettle
<1>1. MoneyInv => BooksSettle
  <2> SUFFICES ASSUME MoneyInv PROVE BooksSettle
    OBVIOUS
  <2>0. calm => BooksHold
    BY DEF MoneyInv, Books
  <2>1. EscrowCovered
    <3> SUFFICES ASSUME OneWay, Busy = {} PROVE Escrow >= 0
      BY DEF EscrowCovered
    <3>1. calm
      BY DEF OneWay
    <3> QED
      BY <2>0, <3>1, RestIsCovered DEF MoneyInv
  <2>2. calm => SumFunctionOnSet(back, RefundKeys) <= Price
    BY <2>0, BackSum
  <2>3. ASSUME calm, Busy = {}, ~schedule
        PROVE  /\ state = "completed" => Escrow = 0 /\ Cash = Price
               /\ state = "refunded" => Escrow = 0 /\ Cash = 0
               /\ state \in {"none", "confirmed", "cancelled"} => ledger = {}
    <3>1. Lines /\ Rest
      BY <2>0, <2>3 DEF BooksHold
    <3>2. ASSUME state = "completed" PROVE Escrow = 0 /\ Cash = Price
      <4>1. Open /\ WholeKey \in Keys
        BY <2>3, <3>1, <3>2 DEF Rest, Over
      <4> QED
        BY <2>3, <3>1, <4>1, FlatSums DEF Open
    <3>3. state = "refunded" => Escrow = 0 /\ Cash = 0
      BY <2>3, <3>1 DEF Rest, Over, Settles
    <3>4. state \in {"none", "confirmed", "cancelled"} => ledger = {}
      <4>1. {"none", "confirmed", "cancelled"} \subseteq Early
        BY DEF Early
      <4> QED
        BY <2>3, <3>1, <4>1, NothingPosted DEF MoneyInv, IInv
    <3> QED
      BY <3>2, <3>3, <3>4
  <2> QED
    BY <2>1, <2>2, <2>3 DEF BooksSettle
<1> QED
  BY <1>1, MoneyHolds, PTL
================================================================================
