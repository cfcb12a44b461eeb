---------------------------- MODULE StripeCheckout ----------------------------
(***************************************************************************)
(* One booking paid through Stripe Checkout (PAYMENT_MODE=stripe) or with  *)
(* the simulated ledger (PAYMENT_MODE=beta): idempotent checkout requests, *)
(* Stripe's sessions, its webhook events (delivered late, in any order and *)
(* more than once), cancellation and refund.  The rest of the space's      *)
(* calendar is rival: the other bookings of the same window.               *)
(*                                                                         *)
(* One action is one database transaction or one call to Stripe.  A        *)
(* request keeps the rows it read (seen, snapshots) and SQLAlchemy writes  *)
(* only the columns whose value it changed: see Flush.                     *)
(***************************************************************************)
EXTENDS Integers, FiniteSets

CONSTANTS
    Requests,       \* concurrent checkout requests for this booking
    Hooks,          \* concurrent webhook deliveries
    Rivals,         \* bookings of the same window by anybody else
    MaxSessions,    \* bound: Stripe sessions ever opened for the booking
    Modes,          \* settings.payment_mode: "stripe", "beta" or either
    PlainCancel,    \* bound: is POST /api/bookings/{id}/cancel ever used?
    Declines        \* bound: ways an open session may fail, of "payment_failed"
                    \* and "completed_unpaid"

This == "this booking"

ASSUME StripeAssumption ==
    /\ MaxSessions \in Nat
    /\ This \notin Rivals
    /\ Declines \subseteq {"payment_failed", "completed_unpaid"}
    /\ Modes \subseteq {"stripe", "beta"}
    /\ PlainCancel \in BOOLEAN

VARIABLES
    mode,           \* settings.payment_mode, the same for the life of the process
    booking, access,    \* bookings.status; does the row hold code and pass?
    pay,                \* payments.status, "none" without a row
    current, intent,    \* session and payment intent stored in the row, 0: none
    live,               \* payments.expires_at lies in the future
    sess,               \* sess[s]: state of session s at Stripe
    refunds,            \* sessions whose charge Stripe has refunded
    events, seen,       \* events Stripe delivers; events recorded as processed
    req, hook, cancel,  \* what requests, deliveries and a cancellation hold
    rival,              \* rival[x]: has booking x the window, or had it?
    late                \* history: who has written a column that was no longer as
                        \* it had read it, of "request" and "delivery"

booked == <<booking, access>>
ledger == <<pay, current, intent, live>>
external == <<sess, refunds, events>>
vars == <<mode, booking, access, pay, current, intent, live, sess, refunds, events, seen,
          req, hook, cancel, rival, late>>

Sessions == 1..MaxSessions
BookingStatus == {"none", "pending", "confirmed", "cancelled", "expired"}
Active == {"pending", "confirmed"}
PaymentStatus == {"none", "pending", "checkout_created", "paid", "failed", "expired",
                  "cancelled", "refund_pending", "refunded"}
EventTypes == {"completed", "completed_unpaid", "delayed_result", "session_expired",
               "payment_failed", "charge_refunded"}
Events == [type : EventTypes, s : Sessions]
Idle == [pc |-> "idle", seen |-> "none", pay |-> "none"]
NoCancel == [pc |-> "idle", pay |-> "none", session |-> 0, access |-> FALSE]
NoHook == [e |-> [type |-> "none", s |-> 0], booking |-> "none", access |-> FALSE,
           pay |-> "none"]

TypeOK ==
    /\ mode \in Modes
    /\ booking \in BookingStatus /\ access \in BOOLEAN
    /\ pay \in PaymentStatus
    /\ current \in 0..MaxSessions /\ intent \in 0..MaxSessions
    /\ live \in BOOLEAN /\ rival \in [Rivals -> {"free", "held", "released"}]
    /\ sess \in [Sessions -> {"none", "open", "processing", "paid", "expired"}]
    /\ refunds \subseteq Sessions
    /\ events \subseteq Events /\ seen \subseteq Events
    /\ req \in [Requests -> [pc : {"idle", "pay", "session"}, seen : BookingStatus,
                           pay : PaymentStatus]]
    /\ hook \in [Hooks -> {NoHook} \cup [e : Events, booking : BookingStatus,
                                         access : BOOLEAN, pay : PaymentStatus]]
    /\ cancel \in [pc : {"idle", "read", "expire", "write", "asked", "recorded"},
                  pay : PaymentStatus, session : 0..MaxSessions, access : BOOLEAN]
    /\ late \subseteq {"request", "delivery"}

Init ==
    /\ mode \in Modes
    /\ booking = "none" /\ access = FALSE
    /\ pay = "none" /\ current = 0 /\ intent = 0 /\ live = FALSE
    /\ sess = [s \in Sessions |-> "none"]
    /\ refunds = {} /\ events = {} /\ seen = {}
    /\ req = [r \in Requests |-> Idle]
    /\ hook = [h \in Hooks |-> NoHook]
    /\ cancel = NoCancel /\ rival = [x \in Rivals |-> "free"] /\ late = {}

-------------------------------------------------------------------------------
(* A column is written only when the request changed the value it had read.*)
Flush(db, read, new) == IF new = read THEN db ELSE new
Late(who, stale) == late' = IF stale THEN late \cup {who} ELSE late

(* SELECT FOR UPDATE by the cancellation: whoever updates the booking, or  *)
(* inserts a row that refers to it, waits; updates of the payment do not.  *)
Locked == cancel.pc \in {"read", "expire", "write", "asked"}

(* The exclusion constraint rejects a row that becomes active while another*)
(* active row has the window.                                              *)
Occupied == \E x \in Rivals : rival[x] = "held"
ConstraintMissing(taken) == TRUE
ConstraintAllows(taken) == ~taken

(* evaluate_availability of a rival: does this booking block it?           *)
Blocking == \/ booking = "confirmed"
            \/ /\ booking = "pending" /\ live
               /\ pay \in {"pending", "checkout_created", "paid"}

ExpireAlways(status) == status # "none"
Expirable(status) == status = "pending"
ConfirmUnlessDone(status) == status # "confirmed"
Confirmable(status) == status = "pending"

-------------------------------------------------------------------------------
(* POST /api/payments/checkout: the booking is inserted, or an idempotent  *)
(* retry finds it, whatever its status; the payment is read next.          *)

CheckoutInsert(r) ==
    /\ req[r] = Idle /\ booking = "none"
    /\ ConstraintAllows(Occupied)
    /\ booking' = "pending"
    /\ req' = [req EXCEPT ![r] = [pc |-> "pay", seen |-> "pending", pay |-> "none"]]
    /\ UNCHANGED <<access, ledger, external, seen, hook, cancel, rival, mode, late>>

(* A paid payment, or a checkout whose time has not run out, is returned   *)
(* and nothing changes; any other one, also a refunded one, starts over.   *)
ReusableOnlyOpen == pay = "checkout_created" /\ live
Reusable == pay = "paid" \/ (pay = "checkout_created" /\ live)

CheckoutLookup(r) ==
    /\ req[r] = Idle /\ booking # "none"
    /\ ~Reusable
    /\ req' = [req EXCEPT ![r] = [pc |-> "pay", seen |-> booking, pay |-> pay]]
    /\ UNCHANGED <<booked, ledger, external, seen, hook, cancel, rival, mode, late>>

CheckoutPay(r) ==
    /\ req[r].pc = "pay"
    /\ req[r].pay = "none" => pay = "none" /\ ~Locked  \* payments.booking_id is unique
    /\ pay' = Flush(pay, req[r].pay, "pending")
    /\ live' = TRUE
    /\ req' = [req EXCEPT ![r].pc = "session", ![r].pay = pay']
    /\ Late("request", req[r].pay # pay)
    /\ UNCHANGED <<booked, current, intent, external, seen, hook, cancel, rival, mode>>

NewSession == Cardinality({s \in Sessions : sess[s] # "none"}) + 1

SessionCreated(r) ==
    /\ mode = "stripe" /\ req[r].pc = "session" /\ NewSession \in Sessions
    /\ sess' = [sess EXCEPT ![NewSession] = "open"]
    /\ pay' = Flush(pay, req[r].pay, "checkout_created")
    /\ current' = NewSession
    /\ req' = [req EXCEPT ![r] = Idle]
    /\ Late("request", req[r].pay # pay)
    /\ UNCHANGED <<booked, intent, live, refunds, events, seen, hook, cancel, rival, mode>>

Changed(r) == req[r].pay # pay \/ req[r].seen # booking

(* Stripe refuses: the failure is committed together with the expiry of    *)
(* the booking, if the booking was read as pending; otherwise nothing is.  *)
SessionRefused(r) ==
    /\ mode = "stripe" /\ req[r].pc = "session" /\ ~Locked
    /\ Expirable(req[r].seen)
    /\ pay' = Flush(pay, req[r].pay, "failed")
    /\ booking' = "expired"
    /\ req' = [req EXCEPT ![r] = Idle]
    /\ Late("request", Changed(r))
    /\ UNCHANGED <<access, current, intent, live, external, seen, hook, cancel, rival, mode>>

BetaConfirm(r) ==
    /\ mode = "beta" /\ req[r].pc = "session" /\ ~Locked
    /\ req[r].seen = "pending" /\ ConstraintAllows(Occupied)
    /\ pay' = Flush(pay, req[r].pay, "paid")
    /\ booking' = "confirmed" /\ access' = TRUE
    /\ req' = [req EXCEPT ![r] = Idle]
    /\ Late("request", Changed(r))
    /\ UNCHANGED <<current, intent, live, external, seen, hook, cancel, rival, mode>>

(* The request ends where it is: it raises (409, 502, 503, a constraint),  *)
(* or the connection or the process is lost.                               *)
Abort(r) ==
    /\ req[r] # Idle
    /\ req' = [req EXCEPT ![r] = Idle]
    /\ UNCHANGED <<booked, ledger, external, seen, hook, cancel, rival, mode, late>>

-------------------------------------------------------------------------------
(* Stripe and the renter's browser.                                        *)

Emit(t, s) == events' = events \cup {[type |-> t, s |-> s]}

RenterPays(s) ==
    /\ sess[s] = "open"
    /\ sess' = [sess EXCEPT ![s] = "paid"]
    /\ Emit("completed", s)
    /\ UNCHANGED <<booked, ledger, refunds, seen, req, hook, cancel, rival, mode, late>>

(* A declined card leaves the session open; a delayed payment method       *)
(* completes it before any money has moved.                                *)
RenterFails(s) ==
    /\ sess[s] = "open"
    /\ \E t \in Declines :
        /\ Emit(t, s)
        /\ sess' = IF t = "completed_unpaid" THEN [sess EXCEPT ![s] = "processing"] ELSE sess
    /\ UNCHANGED <<booked, ledger, refunds, seen, req, hook, cancel, rival, mode, late>>

(* The money of such a method arrives later, or never.                     *)
DelayedResult(s) ==
    /\ sess[s] = "processing"
    /\ \E result \in {"paid", "expired"} : sess' = [sess EXCEPT ![s] = result]
    /\ Emit("delayed_result", s)
    /\ UNCHANGED <<booked, ledger, refunds, seen, req, hook, cancel, rival, mode, late>>

SessionTimesOut(s) ==
    /\ sess[s] = "open"
    /\ sess' = [sess EXCEPT ![s] = "expired"]
    /\ Emit("session_expired", s)
    /\ UNCHANGED <<booked, ledger, refunds, seen, req, hook, cancel, rival, mode, late>>

HoldEnds == /\ live /\ live' = FALSE
            /\ UNCHANGED <<booked, pay, current, intent, external, seen, req, hook, cancel,
                           rival, mode, late>>

-------------------------------------------------------------------------------
(* POST /api/payments/webhook: the rows are read without a lock, then the  *)
(* result is committed.  An event that would change nothing is recorded as *)
(* processed, or, if it finds a booking it cannot confirm or release, not  *)
(* committed at all: Stripe delivers it again.                             *)

Matches(e) == IF e.type \in {"payment_failed", "charge_refunded"} THEN intent = e.s
              ELSE current = e.s

ConfirmsUnpaid(type) == type \in {"completed", "completed_unpaid"}
ConfirmsPaid(type) == type = "completed"
Releases(type) == type \in {"session_expired", "payment_failed"}
Refunds(type) == type = "charge_refunded"

HookRead(h, e) ==
    /\ hook[h] = NoHook /\ e \in events \ seen
    /\ Matches(e)
    /\ \/ ConfirmsPaid(e.type) /\ Confirmable(booking)
       \/ Releases(e.type) /\ Expirable(booking)
       \/ Refunds(e.type)
    /\ hook' = [hook EXCEPT ![h] =
                  [e |-> e, booking |-> booking, access |-> access, pay |-> pay]]
    /\ UNCHANGED <<booked, ledger, external, seen, req, cancel, rival, mode, late>>

HookIgnores(e) ==
    /\ e \in events \ seen
    /\ ~Matches(e) \/ ~(ConfirmsPaid(e.type) \/ Releases(e.type) \/ Refunds(e.type))
    /\ seen' = seen \cup {e}
    /\ UNCHANGED <<booked, ledger, external, req, hook, cancel, rival, mode, late>>

(* A delivery that raises or is lost before its commit.                    *)
HookDropped(h) ==
    /\ hook[h] # NoHook
    /\ hook' = [hook EXCEPT ![h] = NoHook]
    /\ UNCHANGED <<booked, ledger, external, seen, req, cancel, rival, mode, late>>

HookCommits(h) ==
    /\ hook[h] # NoHook /\ ~Locked
    /\ hook[h].e \notin seen        \* primary key of payment_webhook_events
    /\ seen' = seen \cup {hook[h].e}
    /\ hook' = [hook EXCEPT ![h] = NoHook]
    /\ Late("delivery", hook[h].booking # booking \/ hook[h].pay # pay)
    /\ UNCHANGED <<external, req, cancel, rival, mode>>

HookConfirms(h) ==
    LET k == hook[h] IN
    /\ ConfirmsPaid(k.e.type)
    /\ ConstraintAllows(Occupied)
    /\ pay' = Flush(pay, k.pay, "paid") /\ intent' = k.e.s
    /\ booking' = "confirmed" /\ access' = TRUE
    /\ UNCHANGED <<current, live>>
    /\ HookCommits(h)

HookReleases(h) ==
    LET k == hook[h] IN
    /\ Releases(k.e.type)
    /\ pay' = Flush(pay, k.pay, IF k.e.type = "session_expired" THEN "expired" ELSE "failed")
    /\ booking' = "expired" /\ access' = Flush(access, k.access, FALSE)
    /\ UNCHANGED <<current, intent, live>>
    /\ HookCommits(h)

BookingAsRead(k) == booking
BookingAfterRefund(k) == Flush(booking, k.booking, "cancelled")

HookRefunds(h) ==
    LET k == hook[h] IN
    /\ Refunds(k.e.type)
    /\ pay' = Flush(pay, k.pay, "refunded")
    /\ booking' = BookingAfterRefund(k) /\ access' = Flush(access, k.access, FALSE)
    /\ UNCHANGED <<current, intent, live>>
    /\ HookCommits(h)

HookWrite(h) == HookConfirms(h) \/ HookReleases(h) \/ HookRefunds(h)

-------------------------------------------------------------------------------
(* Cancellation by the renter: the booking is read for update, then the    *)
(* payment, without a lock.  A second cancellation waits, or finds what    *)
(* the first has done.                                                     *)

CancellablePayment == {"pending", "checkout_created", "failed", "expired"}
AllRefunded(status) == "refunded"
AfterCancel(status) == IF status \in CancellablePayment THEN "cancelled" ELSE status

Cancellable == booking \notin {"none", "cancelled"}
CodesKept(read) == access
CodesCleared(read) == Flush(access, read, FALSE)

CancelRead ==
    /\ cancel = NoCancel /\ Cancellable
    /\ cancel' = [pc |-> "read", pay |-> pay, session |-> current, access |-> access]
    /\ UNCHANGED <<booked, ledger, external, seen, req, hook, rival, mode, late>>

CancelGoesOn(pc) == cancel' = [cancel EXCEPT !.pc = pc]

(* The session of an open checkout is looked up and, if open, expired at   *)
(* Stripe; one that has been paid, or is closed by then, makes the request *)
(* fail, one that waits for the money of a delayed method does not.        *)
CancelLooks ==
    /\ cancel.pc = "read" /\ cancel.pay = "checkout_created"
    /\ sess[cancel.session] # "paid"
    /\ CancelGoesOn(IF sess[cancel.session] = "open" THEN "expire" ELSE "write")
    /\ UNCHANGED <<booked, ledger, external, seen, req, hook, rival, mode, late>>

CancelExpires ==
    /\ cancel.pc = "expire" /\ sess[cancel.session] = "open"
    /\ sess' = [sess EXCEPT ![cancel.session] = "expired"]
    /\ Emit("session_expired", cancel.session)
    /\ CancelGoesOn("write")
    /\ UNCHANGED <<booked, ledger, refunds, seen, req, hook, rival, mode, late>>

CancelUnpaid ==
    /\ \/ cancel.pc = "write"
       \/ cancel.pc = "read" /\ cancel.pay \notin {"paid", "checkout_created"}
    /\ pay' = Flush(pay, cancel.pay, AfterCancel(cancel.pay))
    /\ booking' = "cancelled" /\ access' = CodesCleared(cancel.access)
    /\ cancel' = NoCancel
    /\ UNCHANGED <<current, intent, live, external, seen, req, hook, rival, mode, late>>

(* refund_booking asks Stripe, then commits the payment's status; with     *)
(* that commit the lock on the booking is gone.                            *)
RefundAsked ==
    /\ cancel.pc = "read" /\ cancel.pay = "paid" /\ mode = "stripe"
    /\ intent \notin refunds \cup {0}
    /\ refunds' = refunds \cup {intent}
    /\ Emit("charge_refunded", intent)
    /\ CancelGoesOn("asked")
    /\ UNCHANGED <<booked, ledger, sess, seen, req, hook, rival, mode, late>>

RefundPaid ==
    /\ \/ cancel.pc = "asked" /\ pay' \in {"refunded", "refund_pending"}
       \/ /\ cancel.pc = "read" /\ cancel.pay = "paid" /\ mode = "beta"
          /\ pay' = "refunded"
    /\ CancelGoesOn("recorded")
    /\ UNCHANGED <<booked, current, intent, live, external, seen, req, hook, rival, mode, late>>

(* The booking is cancelled in a second transaction.                       *)
CancelRefunded ==
    /\ cancel.pc = "recorded" /\ cancel' = NoCancel
    /\ booking' = "cancelled" /\ access' = CodesCleared(cancel.access)
    /\ UNCHANGED <<ledger, external, seen, req, hook, rival, mode, late>>

(* The request fails where it is, or the process dies: what it has not     *)
(* committed is gone, what it asked Stripe for is not.                     *)
CancelDies ==
    /\ cancel # NoCancel /\ cancel' = NoCancel
    /\ UNCHANGED <<booked, ledger, external, seen, req, hook, rival, mode, late>>

CancelPlain ==
    /\ PlainCancel /\ Cancellable /\ ~Locked
    /\ booking' = "cancelled" /\ access' = CodesCleared(access)
    /\ UNCHANGED <<ledger, external, seen, req, hook, cancel, rival, mode, late>>

-------------------------------------------------------------------------------
(* The rest of the calendar.                                               *)
RivalBooks(x) ==
    /\ rival[x] = "free" /\ ~Blocking
    /\ ConstraintAllows(booking \in Active \/ Occupied)
    /\ rival' = [rival EXCEPT ![x] = "held"]
    /\ UNCHANGED <<booked, ledger, external, seen, req, hook, cancel, mode, late>>

RivalLeaves(x) ==
    /\ rival[x] = "held"
    /\ rival' = [rival EXCEPT ![x] = "released"]
    /\ UNCHANGED <<booked, ledger, external, seen, req, hook, cancel, mode, late>>

RequestStep(r) == \/ CheckoutInsert(r) \/ CheckoutLookup(r) \/ CheckoutPay(r)
                  \/ SessionCreated(r) \/ SessionRefused(r) \/ BetaConfirm(r) \/ Abort(r)
StripeStep(s) == RenterPays(s) \/ RenterFails(s) \/ DelayedResult(s) \/ SessionTimesOut(s)
HookStep(h) == (\E e \in Events : HookRead(h, e)) \/ HookWrite(h) \/ HookDropped(h)

CancelStep == \/ CancelLooks \/ CancelExpires \/ CancelUnpaid
              \/ RefundAsked \/ RefundPaid \/ CancelRefunded \/ CancelDies

Next == \/ \E r \in Requests : RequestStep(r)
        \/ \E s \in Sessions : StripeStep(s)
        \/ \E h \in Hooks : HookStep(h)
        \/ \E e \in Events : HookIgnores(e)
        \/ HoldEnds \/ CancelRead \/ CancelStep \/ CancelPlain
        \/ \E x \in Rivals : RivalBooks(x) \/ RivalLeaves(x)

Spec == Init /\ [][Next]_vars

(* Stripe delivers an event again until it is acknowledged, and at last    *)
(* when no cancellation is under way; every delivery and cancellation ends,*)
(* and no delivery fails for ever for reasons of its own; nobody else, no  *)
(* renter and no checkout, has to act.                                     *)
HookTakes(e) == ~Locked /\ \E h \in Hooks : HookRead(h, e)

Fairness == /\ \A e \in Events : SF_vars(HookTakes(e))
            /\ \A h \in Hooks : SF_vars(HookWrite(h)) /\ WF_vars(HookDropped(h))
            /\ WF_vars(CancelStep)
FairSpec == Spec /\ Fairness

-------------------------------------------------------------------------------
(* Safety: the booking and another active booking never share the window,  *)
(* even when the hold lapsed and the webhook of a payment comes late.      *)
NoDoubleBooking == ~(Occupied /\ booking \in Active)

(* Safety: a confirmed booking (it shows address, code and pass) and a     *)
(* payment recorded as received have been charged at Stripe: a declined    *)
(* card or a session that completes unpaid yields neither, however         *)
(* requests and webhooks overlap.                                          *)
ConfirmedIsCharged ==
    mode = "stripe" =>
        /\ booking = "confirmed" => \E s \in Sessions : sess[s] = "paid"
        /\ pay = "paid" => intent # 0 /\ sess[intent] = "paid"

(* Safety: what the ledger calls refunded is refunded at Stripe, until a   *)
(* delivery writes over a row that has changed since it read it.           *)
RefundIsReal ==
    "delivery" \notin late /\ mode = "stripe" /\ pay \in {"refunded", "refund_pending"}
        => intent \in refunds

(* Safety: the two rows agree.  A payment recorded as received belongs to  *)
(* a booking that stands or was cancelled, never to an expired one, and a  *)
(* booking that stands is recorded as paid unless its charge was refunded. *)
(* However cancellations, requests and deliveries overlap, it takes a      *)
(* checkout or a delivery that writes over a changed row to break it.      *)
PaidIsHonoured ==
    late = {} =>
        /\ pay = "paid" => booking \in {"confirmed", "cancelled"}
        /\ mode = "stripe" /\ booking = "confirmed" => pay = "paid" \/ intent \in refunds

(* Safety: access code and pass do not survive the end of the booking, with*)
(* the same exception: a delivery that has read a row without codes does   *)
(* not clear the ones it has been given since.                             *)
CodesOnlyWhileConfirmed == late = {} => (access => booking = "confirmed")

(* Action property: nothing but a cancellation or a refund ends a confirmed*)
(* booking: no late event of an earlier session, no failing retry.  Except *)
(* one that read the booking before it was confirmed.                      *)
LateRelease == \/ \E h \in Hooks : HookReleases(h) /\ hook[h].booking # booking
               \/ \E r \in Requests : SessionRefused(r) /\ req[r].seen # booking
ConfirmedOnlyCancelled ==
    [][booking = "confirmed" => booking' \in {"confirmed", "cancelled"} \/ LateRelease]_vars

(* Action property (PAYMENTS.md:56): cancelling a paid booking requests a  *)
(* refund, so that none is cancelled while its payment is recorded as paid.*)
CancelRequestsRefund ==
    [][booking # "cancelled" /\ booking' = "cancelled" => pay' # "paid"]_vars

(* Liveness: a refund at Stripe ends the booking it paid for, although the *)
(* request that asked for it may die before it has cancelled the booking.  *)
RefundEndsBooking ==
    \A s \in Sessions :
        (s \in refunds /\ intent = s) ~> (booking \in {"cancelled", "expired"})

(* Liveness: a charge leads to a confirmed booking or is refunded.         *)
ChargeHonoured ==
    \A s \in Sessions : (sess[s] = "paid") ~> (booking = "confirmed" \/ s \in refunds)

(* Refinement: the bookings of the window implement the same slot ledger   *)
(* as with direct payments (DirectBooking), but for a confirmation that    *)
(* read the booking before it ended: it takes the slot again, if nobody    *)
(* else has.                                                               *)
Reservations == Rivals \cup {This}
SlotOfThis == CASE booking = "none" -> "free"
                [] booking = "pending" -> "held"
                [] booking = "confirmed" -> "sold"
                [] OTHER -> "released"
SlotOf(b) == IF b = This THEN SlotOfThis ELSE rival[b]
slots == [b \in Reservations |-> SlotOf(b)]
Ledger == INSTANCE SlotLedger
              WITH Bookings <- Reservations, Clash <- Reservations \X Reservations,
                   slot <- slots
LateConfirmation == \/ \E h \in Hooks : HookConfirms(h) /\ hook[h].booking # booking
                    \/ \E r \in Requests : BetaConfirm(r) /\ req[r].seen # booking
ImplementsLedger ==
    /\ Ledger!SlotInit
    /\ [][Ledger!SlotNext \/ (LateConfirmation /\ Ledger!Resell(This))]_slots
===============================================================================
