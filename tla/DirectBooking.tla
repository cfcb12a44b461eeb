----------------------------- MODULE DirectBooking -----------------------------
(***************************************************************************)
(* Bookings paid directly to the host (PAYMENT_MODE=direct).  A booking    *)
(* and its payment are two database rows that several HTTP handlers and    *)
(* the notification worker change, each in one or more transactions.       *)
(*                                                                         *)
(* One action is one database transaction.  A handler that commits more    *)
(* than once, or that reads a row without locking it and writes it later,  *)
(* is an entry of req between its transactions; the worker's batch is snap.*)
(* Time is counted in whole units by Tick: hold and due count down to the  *)
(* instants payments.expires_at and payments.host_response_due_at.         *)
(***************************************************************************)
EXTENDS Integers, FiniteSets

CONSTANTS
    Bookings,       \* one per (user_id, idempotency_key)
    Spaces,         \* parking spaces
    SpaceOf,        \* [Bookings -> Spaces]
    Start, End,     \* [Bookings -> Nat], the booked window [Start, End)
    Free,           \* the bookings whose total price is zero
    Requests,       \* concurrent HTTP requests that take several transactions
    HoldUnits,      \* direct_payment_hold_hours
    ResponseUnits,  \* the possible host response times (one per plan)
    WorkerBatch,    \* bound: rows one poll of the worker may find due
    NoBooking, NoDeadline

ASSUME DirectAssumption ==
    /\ SpaceOf \in [Bookings -> Spaces]
    /\ Start \in [Bookings -> Nat] /\ End \in [Bookings -> Nat]
    /\ Free \subseteq Bookings
    /\ HoldUnits \in Nat \ {0}
    /\ ResponseUnits \subseteq Nat \ {0}
    /\ NoBooking \notin Bookings /\ NoDeadline \notin Nat

VARIABLES
    booking,    \* booking[b]: bookings.status, "none" when there is no row
    access,     \* access[b]: the row holds an access code and a pass token
    payment,    \* payment[b]: payments.status, "none" when there is no row
    hold,       \* hold[b]: time left until payments.expires_at
    due,        \* due[b]: time left until host_response_due_at, or NoDeadline
    host,       \* host[s]: the owner of s and its direct payment method
    clock,      \* units elapsed
    req,        \* req[r]: what request r still has to do
    snap,       \* snap[b]: booking status in the worker's batch, or "out"
    locked,     \* the rows of the batch are still locked by the worker
    late        \* history: the bookings that a checkout request has expired
                \* from a reading that was out of date

vars == <<booking, access, payment, hold, due, host, clock, req, snap, locked, late>>
rows == <<booking, access, payment, hold, due>>
worker == <<snap, locked>>

BookingStatus == {"none", "pending", "confirmed", "cancelled", "expired"}
PaymentStatus == {"none", "awaiting_payment", "awaiting_host_confirmation", "paid",
                  "rejected", "expired", "cancelled", "host_timeout",
                  "refund_required", "refunded"}
HostStates == {"ready", "disabled", "none"}
Idle == [pc |-> "idle", b |-> NoBooking, seen |-> "none"]
Work == [pc : {"idle", "create", "pay", "deadline"},
         b : Bookings \cup {NoBooking}, seen : BookingStatus]

TypeOK ==
    /\ booking \in [Bookings -> BookingStatus]
    /\ access \in [Bookings -> BOOLEAN]
    /\ payment \in [Bookings -> PaymentStatus]
    /\ hold \in [Bookings -> Nat]
    /\ due \in [Bookings -> Nat \cup {NoDeadline}]
    /\ host \in [Spaces -> HostStates]
    /\ clock \in Nat
    /\ req \in [Requests -> Work]
    /\ \A r \in Requests : req[r].pc # "idle" => req[r].b \in Bookings
    /\ snap \in [Bookings -> BookingStatus \cup {"out"}]
    /\ locked \in BOOLEAN
    /\ late \subseteq Bookings

Init ==
    /\ booking = [b \in Bookings |-> "none"]
    /\ access = [b \in Bookings |-> FALSE]
    /\ payment = [b \in Bookings |-> "none"]
    /\ hold = [b \in Bookings |-> 0]
    /\ due = [b \in Bookings |-> NoDeadline]
    /\ host \in [Spaces -> HostStates]
    /\ clock = 0
    /\ req = [r \in Requests |-> Idle]
    /\ snap = [b \in Bookings |-> "out"]
    /\ locked = FALSE
    /\ late = {}

-------------------------------------------------------------------------------
(* Availability and the database's exclusion constraint.                   *)

Overlaps(b, c) == /\ SpaceOf[b] = SpaceOf[c]
                  /\ Start[b] < End[c]
                  /\ End[b] > Start[c]

Active == {"pending", "confirmed"}

Blocks(c) == \/ booking[c] = "confirmed"
             \/ /\ booking[c] = "pending"
                /\ payment[c] \in {"awaiting_payment", "awaiting_host_confirmation", "paid"}
                /\ hold[c] > 0

AvailabilityAllows(b) == \A c \in Bookings : Overlaps(b, c) => ~Blocks(c)

ConstraintMissing(b) == TRUE
ConstraintAllows(b) ==
    \A c \in Bookings \ {b} : Overlaps(b, c) => booking[c] \notin Active

-------------------------------------------------------------------------------
(* The guards the handlers share.                                          *)

(* expire_pending is skipped when the booking object is not pending.       *)
ExpireAlways(status) == status # "none"
Expirable(status) == status = "pending"

(* confirm_paid answers 409, rolling back, unless pending or confirmed.    *)
ConfirmAnyStatus(status) == status # "none"
Confirmable(status) == status \in {"pending", "confirmed"}

DecideTwice(status) == status \in {"awaiting_host_confirmation", "paid"}
Decidable(status) == status = "awaiting_host_confirmation"

(* No transaction but the worker's gets past the rows the worker locked.   *)
UnlockedAlways(b) == TRUE
Unlocked(b) == ~(locked /\ snap[b] # "out")

CancellablePayment == {"awaiting_payment", "awaiting_host_confirmation",
                       "rejected", "expired"}

-------------------------------------------------------------------------------
(* POST /api/payments/checkout: lookup, insert the booking, the payment.   *)

NeedsHost(b) == \/ host[SpaceOf[b]] = "none"
                \/ b \notin Free /\ host[SpaceOf[b]] # "ready"

(* The request's last transaction on booking b, which it read as seen.  A  *)
(* booking of a host who cannot be paid is expired; an existing payment is *)
(* returned as it is; otherwise the payment is inserted.                   *)
OpenPayment(b, seen) ==
    \/ /\ NeedsHost(b) /\ Expirable(seen)
       /\ Unlocked(b)
       /\ booking' = [booking EXCEPT ![b] = "expired"]
       /\ late' = IF seen # booking[b] THEN late \cup {b} ELSE late
       /\ UNCHANGED <<access, payment, hold, due>>
    \/ /\ \/ NeedsHost(b) /\ ~Expirable(seen)
          \/ ~NeedsHost(b) /\ payment[b] # "none"
       /\ UNCHANGED <<rows, late>>
    \/ /\ ~NeedsHost(b) /\ payment[b] = "none"
       /\ hold' = [hold EXCEPT ![b] = HoldUnits]
       /\ \/ /\ b \in Free
             /\ payment' = [payment EXCEPT ![b] = "awaiting_host_confirmation"]
             /\ \E d \in ResponseUnits : due' = [due EXCEPT ![b] = d]
          \/ /\ b \notin Free
             /\ payment' = [payment EXCEPT ![b] = "awaiting_payment"]
             /\ UNCHANGED due
       /\ UNCHANGED <<booking, access, late>>

CheckoutLookup(r, b) ==
    /\ req[r] = Idle
    /\ booking[b] = "none" /\ clock < Start[b] /\ Start[b] < End[b]
    /\ req' = [req EXCEPT ![r] = [pc |-> "create", b |-> b, seen |-> "none"]]
    /\ UNCHANGED <<rows, host, clock, worker, late>>

(* An idempotent retry: the lookup returns the booking whatever its status.*)
CheckoutRetry(r, b) ==
    /\ req[r] = Idle
    /\ booking[b] # "none"
    /\ req' = [req EXCEPT ![r] = [pc |-> "pay", b |-> b, seen |-> booking[b]]]
    /\ UNCHANGED <<rows, host, clock, worker, late>>

CheckoutInsert(r) ==
    LET b == req[r].b IN
    /\ req[r].pc = "create"
    /\ booking[b] = "none"
    /\ AvailabilityAllows(b)
    /\ ConstraintAllows(b)
    /\ booking' = [booking EXCEPT ![b] = "pending"]
    /\ req' = [req EXCEPT ![r] = [pc |-> "pay", b |-> b, seen |-> "pending"]]
    /\ UNCHANGED <<access, payment, hold, due, host, clock, worker, late>>

CheckoutPay(r) ==
    /\ req[r].pc = "pay"
    /\ OpenPayment(req[r].b, req[r].seen)
    /\ req' = [req EXCEPT ![r] = Idle]
    /\ UNCHANGED <<host, clock, worker>>

(* A crash, a lost connection, a validation error or a rolled-back         *)
(* transaction ends the request where it is.                               *)
Abort(r) ==
    /\ req[r] # Idle
    /\ req' = [req EXCEPT ![r] = Idle]
    /\ UNCHANGED <<rows, host, clock, worker, late>>

-------------------------------------------------------------------------------
(* The renter submits the payment reference: the status is committed       *)
(* first, the host's deadline in a second transaction.                     *)

Submittable(b) == /\ Unlocked(b)
                  /\ booking[b] = "pending"
                  /\ payment[b] \in {"awaiting_payment", "awaiting_host_confirmation"}

SubmitReference(r, b) ==
    /\ req[r] = Idle
    /\ Submittable(b) /\ hold[b] > 0
    /\ payment' = [payment EXCEPT ![b] = "awaiting_host_confirmation"]
    /\ req' = [req EXCEPT ![r] = [pc |-> "deadline", b |-> b, seen |-> "pending"]]
    /\ UNCHANGED <<booking, access, hold, due, host, clock, worker, late>>

SubmitTooLate(b) ==
    /\ Submittable(b) /\ hold[b] = 0
    /\ payment' = [payment EXCEPT ![b] = "expired"]
    /\ booking' = [booking EXCEPT ![b] = "expired"]
    /\ access' = [access EXCEPT ![b] = FALSE]
    /\ UNCHANGED <<hold, due, host, clock, req, worker, late>>

SetDeadline(r) ==
    LET b == req[r].b IN
    /\ req[r].pc = "deadline"
    /\ Unlocked(b)
    /\ \E d \in ResponseUnits : due' = [due EXCEPT ![b] = d]
    /\ req' = [req EXCEPT ![r] = Idle]
    /\ UNCHANGED <<booking, access, payment, hold, host, clock, worker, late>>

-------------------------------------------------------------------------------
(* The host's decision locks payment, booking and space.                   *)

HostMayDecide(b) == /\ Unlocked(b)
                    /\ Decidable(payment[b])
                    /\ host[SpaceOf[b]] # "none"

Confirm(b) ==
    /\ HostMayDecide(b)
    /\ Confirmable(booking[b])
    /\ payment' = [payment EXCEPT ![b] = "paid"]
    /\ booking' = [booking EXCEPT ![b] = "confirmed"]
    /\ access' = [access EXCEPT ![b] = TRUE]
    /\ UNCHANGED <<hold, due, host, clock, req, worker, late>>

Reject(b) ==
    /\ HostMayDecide(b)
    /\ payment' = [payment EXCEPT ![b] = "rejected"]
    /\ IF Expirable(booking[b])
       THEN /\ booking' = [booking EXCEPT ![b] = "expired"]
            /\ access' = [access EXCEPT ![b] = FALSE]
       ELSE UNCHANGED <<booking, access>>
    /\ UNCHANGED <<hold, due, host, clock, req, worker, late>>

CompleteRefund(b) ==
    /\ Unlocked(b)
    /\ payment[b] = "refund_required"
    /\ host[SpaceOf[b]] # "none"
    /\ payment' = [payment EXCEPT ![b] = "refunded"]
    /\ UNCHANGED <<booking, access, hold, due, host, clock, req, worker, late>>

-------------------------------------------------------------------------------
(* The renter cancels; the booking row is locked.                          *)

NeverClosed(status) == "refund_pending"
AfterCancel(status) == IF status = "paid" THEN "refund_required"
                       ELSE IF status \in CancellablePayment THEN "cancelled"
                       ELSE status

MarkCancelled(b) ==
    /\ Unlocked(b)
    /\ booking[b] \notin {"none", "cancelled"}
    /\ booking' = [booking EXCEPT ![b] = "cancelled"]

CodesCleared(b) == [access EXCEPT ![b] = FALSE]

(* POST /api/payments/bookings/{id}/cancel                                 *)
CancelWithPayment(b) ==
    /\ MarkCancelled(b)
    /\ access' = CodesCleared(b)
    /\ payment' = [payment EXCEPT ![b] = AfterCancel(payment[b])]
    /\ UNCHANGED <<hold, due, host, clock, req, worker, late>>

(* POST /api/bookings/{id}/cancel does not look at the payment.            *)
CancelPlain(b) ==
    /\ MarkCancelled(b)
    /\ access' = CodesCleared(b)
    /\ UNCHANGED <<payment, hold, due, host, clock, req, worker, late>>

-------------------------------------------------------------------------------
(* The worker: one SELECT ... FOR UPDATE SKIP LOCKED for all rows due, then*)
(* one row at a time.  expire_pending commits, so the first row's commit   *)
(* releases every lock; the objects of the other rows stay as selected.    *)

DueAnyStatus(b) == payment[b] # "none" /\ due[b] = 0
DueReversed(b) == Decidable(payment[b]) /\ due[b] \notin {0, NoDeadline}
DueRow(b) == Decidable(payment[b]) /\ due[b] = 0

WorkerSelect(S) ==
    /\ \A b \in Bookings : snap[b] = "out"
    /\ S # {} /\ Cardinality(S) <= WorkerBatch
    /\ \A b \in S : DueRow(b)
    /\ snap' = [b \in Bookings |-> IF b \in S THEN booking[b] ELSE "out"]
    /\ locked' = TRUE
    /\ UNCHANGED <<rows, host, clock, req, late>>

WorkerExpire(b) ==
    /\ snap[b] # "out"
    /\ payment' = [payment EXCEPT ![b] = "host_timeout"]
    /\ IF Expirable(snap[b])
       THEN booking' = [booking EXCEPT ![b] = "expired"]
       ELSE UNCHANGED booking
    /\ snap' = [snap EXCEPT ![b] = "out"]
    /\ locked' = FALSE
    /\ UNCHANGED <<access, hold, due, host, clock, req, late>>

(* The worker process dies and is restarted.                               *)
WorkerCrash ==
    /\ \E b \in Bookings : snap[b] # "out"
    /\ snap' = [b \in Bookings |-> "out"]
    /\ locked' = FALSE
    /\ UNCHANGED <<rows, host, clock, req, late>>

-------------------------------------------------------------------------------
(* The host saves its payment settings, enabled or not.                    *)
SaveSettings(s) ==
    /\ host[s] # "none"
    /\ host' = [host EXCEPT ![s] = IF host[s] = "ready" THEN "disabled" ELSE "ready"]
    /\ UNCHANGED <<rows, clock, req, worker, late>>

(* One unit passes.  Bound: the clock stops once every window has begun,   *)
(* after which no guard can tell later times apart.                        *)
Later(n) == IF n > 0 THEN n - 1 ELSE 0
Tick ==
    /\ \/ \E b \in Bookings : clock < Start[b] \/ hold[b] > 0
       \/ \E b \in Bookings : due[b] \notin {0, NoDeadline}
    /\ clock' = IF \E b \in Bookings : clock < Start[b] THEN clock + 1 ELSE clock
    /\ hold' = [b \in Bookings |-> Later(hold[b])]
    /\ due' = [b \in Bookings |-> IF due[b] = NoDeadline THEN NoDeadline ELSE Later(due[b])]
    /\ UNCHANGED <<booking, access, payment, host, req, worker, late>>

RequestStep(r) ==
    \/ \E b \in Bookings : \/ CheckoutLookup(r, b) \/ CheckoutRetry(r, b)
                           \/ SubmitReference(r, b)
    \/ CheckoutInsert(r) \/ CheckoutPay(r) \/ SetDeadline(r) \/ Abort(r)

BookingStep(b) ==
    \/ SubmitTooLate(b) \/ Confirm(b) \/ Reject(b) \/ CompleteRefund(b)
    \/ CancelWithPayment(b) \/ CancelPlain(b) \/ WorkerExpire(b)

Next ==
    \/ \E r \in Requests : RequestStep(r)
    \/ \E b \in Bookings : BookingStep(b)
    \/ \E S \in SUBSET Bookings : WorkerSelect(S)
    \/ WorkerCrash
    \/ \E s \in Spaces : SaveSettings(s)
    \/ Tick

Spec == Init /\ [][Next]_vars

(* Only the worker and time are fair: no renter, host or request has to do *)
(* anything.  The worker polls for ever and is restarted when it dies; it  *)
(* does not fail on the same row every time, hence strong fairness there.  *)
WorkerTakes(b) == \E S \in SUBSET Bookings : b \in S /\ WorkerSelect(S)
Fairness == /\ WF_vars(Tick)
            /\ \A b \in Bookings : WF_vars(WorkerTakes(b)) /\ SF_vars(WorkerExpire(b))
FairSpec == Spec /\ Fairness

-------------------------------------------------------------------------------
(* What the proofs add to the safety properties to make them inductive: a  *)
(* payment row, a request's last transaction and a row of the worker's     *)
(* batch each belong to a booking that exists, and a row the worker read   *)
(* as ended has really ended.                                              *)
RowsExist ==
    /\ \A b \in Bookings : payment[b] # "none" => booking[b] # "none"
    /\ \A r \in Requests : req[r].pc = "pay" => booking[req[r].b] # "none"

Ended == {"cancelled", "expired"}
SnapshotSound ==
    \A b \in Bookings :
        /\ snap[b] # "out" => booking[b] # "none"
        /\ snap[b] \notin {"out", "pending"} => booking[b] \in Ended

(* Safety: two active bookings of one space never overlap in time, although*)
(* evaluate_availability ignores pending bookings whose hold has lapsed.   *)
NoDoubleBooking ==
    \A b, c \in Bookings :
        b # c /\ Overlaps(b, c) => ~(booking[b] \in Active /\ booking[c] \in Active)

(* Safety: a confirmed booking, the one that shows the address and the     *)
(* pass, is one whose payment the host confirmed.                          *)
ConfirmedIsPaid ==
    \A b \in Bookings : booking[b] = "confirmed" => payment[b] = "paid"

(* Safety: money the host confirmed is never left without the booking it   *)
(* paid for, unless the renter cancelled; only a cancelled one is refunded.*)
(* Except for a booking that a checkout retry has expired from a reading   *)
(* that was out of date.                                                   *)
PaidIsHonoured ==
    \A b \in Bookings \ late :
        /\ payment[b] = "paid" => booking[b] \in {"confirmed", "cancelled"}
        /\ payment[b] \in {"refund_required", "refunded"} => booking[b] = "cancelled"

(* Action property: the host's confirmation is final; only a cancellation  *)
(* ends a confirmed booking: no rejection, no late reference, no retry and *)
(* no worker.  Except a retry that read the booking before it was          *)
(* confirmed, and a worker that has given up its locks on the batch, on a  *)
(* row that has changed since.                                             *)
LateTimeout(b) == /\ WorkerExpire(b) /\ ~locked
                  /\ snap[b] # booking[b] \/ ~Decidable(payment[b])
LateRetry(b) == \E r \in Requests : /\ CheckoutPay(r)
                                    /\ req[r].b = b /\ req[r].seen # booking[b]
ConfirmedOnlyCancelled ==
    [][\A b \in Bookings :
           booking[b] = "confirmed"
               => \/ booking'[b] \in {"confirmed", "cancelled"}
                  \/ LateTimeout(b) \/ LateRetry(b)]_vars

(* Action property: what the renter is told when the host confirms: the    *)
(* booking stands, until it is cancelled.  It does not, for each of the    *)
(* two exceptions above.                                                   *)
ConfirmedIsFinal ==
    [][\A b \in Bookings : booking[b] = "confirmed"
                               => booking'[b] \in {"confirmed", "cancelled"}]_vars

(* Action property: a refund the host owes stays owed until the host       *)
(* records it, whatever is decided, submitted or retried late.  Except for *)
(* a worker that has given up its locks on the batch, as above.            *)
RefundStaysOwed ==
    [][\A b \in Bookings :
           payment[b] = "refund_required"
               => payment'[b] \in {"refund_required", "refunded"} \/ LateTimeout(b)]_vars

(* Liveness: once the response deadline of a submitted payment has passed, *)
(* the payment is decided: by the host, by a cancellation or by the worker.*)
DeadlineEnforced ==
    \A b \in Bookings : (Decidable(payment[b]) /\ due[b] = 0) ~> ~Decidable(payment[b])

(* Liveness: a booking whose payment period has ended does not stay        *)
(* pending, that is, keep its window from everybody else.  It may, as no   *)
(* one expires a booking without a submitted payment: see README.md.       *)
HoldReleased ==
    \A b \in Bookings :
        (booking[b] = "pending" /\ payment[b] # "none" /\ hold[b] = 0)
            ~> (booking[b] # "pending")

(* Refinement: the bookings table implements the slot ledger.              *)
ClashPairs == {p \in Bookings \X Bookings : Overlaps(p[1], p[2])}
SlotOf(status) == CASE status = "none" -> "free"
                    [] status = "pending" -> "held"
                    [] status = "confirmed" -> "sold"
                    [] OTHER -> "released"
Ledger == INSTANCE SlotLedger
              WITH Clash <- ClashPairs, slot <- [b \in Bookings |-> SlotOf(booking[b])]
ImplementsLedger == Ledger!SlotSpec

(* The inductive invariant of the proofs.                                  *)
IInv == TypeOK /\ NoDoubleBooking /\ ConfirmedIsPaid /\ RowsExist /\ SnapshotSound
===============================================================================
