------------------------- MODULE StripeCheckoutProofs -------------------------
(***************************************************************************)
(* What holds of the Stripe checkout for any number of requests, webhook   *)
(* deliveries and sessions, in both payment modes, whatever is written from*)
(* rows that have changed since they were read: first what that cannot     *)
(* break, then what it can, with whose stale write it takes (late).        *)
(***************************************************************************)
EXTENDS StripeCheckout, FiniteSetTheorems, TLAPS

(* A step that neither makes the booking active nor lets a rival in or out *)
(* cannot book the window twice: every UPDATE of routes, webhooks and      *)
(* cancellations that moves the booking out of the active statuses.        *)
LEMMA StaysApart ==
    ASSUME NoDoubleBooking,
           rival' = rival,
           booking' = booking \/ booking' \notin Active
    PROVE  NoDoubleBooking'
  BY DEF NoDoubleBooking, Occupied

(* The requests: only an insert and the beta confirmation activate the     *)
(* booking, and the constraint has the last word on both.                  *)
LEMMA RequestKeepsApart ==
    ASSUME NoDoubleBooking, NEW r \in Requests, RequestStep(r)
    PROVE  NoDoubleBooking'
<1>1. CASE CheckoutInsert(r)
  BY <1>1 DEF CheckoutInsert, ConstraintAllows, Occupied, NoDoubleBooking
<1>2. CASE CheckoutLookup(r)
  BY <1>2, StaysApart DEF CheckoutLookup, booked
<1>3. CASE CheckoutPay(r)
  BY <1>3, StaysApart DEF CheckoutPay, booked
<1>4. CASE SessionCreated(r)
  BY <1>4, StaysApart DEF SessionCreated, booked
<1>5. CASE SessionRefused(r)
  BY <1>5, StaysApart DEF SessionRefused, Active
<1>6. CASE BetaConfirm(r)
  BY <1>6 DEF BetaConfirm, ConstraintAllows, Occupied, NoDoubleBooking
<1>7. CASE Abort(r)
  BY <1>7, StaysApart DEF Abort, booked
<1> QED
  BY <1>1, <1>2, <1>3, <1>4, <1>5, <1>6, <1>7 DEF RequestStep

(* The webhook: a late confirmation passes the constraint or fails, a      *)
(* release and a refund only end the booking.                              *)
LEMMA HookKeepsApart ==
    ASSUME NoDoubleBooking, NEW h \in Hooks, HookStep(h)
    PROVE  NoDoubleBooking'
<1>1. CASE \E e \in Events : HookRead(h, e)
  BY <1>1, StaysApart DEF HookRead, booked
<1>2. CASE HookConfirms(h)
  BY <1>2 DEF HookConfirms, HookCommits, ConstraintAllows, Occupied, NoDoubleBooking
<1>3. CASE HookReleases(h)
  BY <1>3, StaysApart DEF HookReleases, HookCommits, Active
<1>4. CASE HookRefunds(h)
  BY <1>4, StaysApart DEF HookRefunds, HookCommits, BookingAfterRefund, Flush, Active
<1>5. CASE HookDropped(h)
  BY <1>5, StaysApart DEF HookDropped, booked
<1> QED
  BY <1>1, <1>2, <1>3, <1>4, <1>5 DEF HookStep, HookWrite

(* Cancellations and refunds, whatever transaction they are split into.    *)
LEMMA CancelKeepsApart ==
    ASSUME NoDoubleBooking, CancelRead \/ CancelStep \/ CancelPlain
    PROVE  NoDoubleBooking'
<1>1. CASE CancelRead \/ CancelLooks \/ CancelExpires \/ RefundAsked \/ RefundPaid \/ CancelDies
  BY <1>1, StaysApart DEF CancelRead, CancelLooks, CancelExpires, RefundAsked, RefundPaid,
                          CancelDies, booked
<1>2. CASE CancelUnpaid \/ CancelRefunded \/ CancelPlain
  BY <1>2, StaysApart DEF CancelUnpaid, CancelRefunded, CancelPlain, Active
<1> QED
  BY <1>1, <1>2 DEF CancelStep

(* NoDoubleBooking is inductive: each activation, of either side, is       *)
(* checked by the exclusion constraint of migration 0002 in the step that  *)
(* writes it, so stale reads and lapsed holds cannot break it.             *)
THEOREM NeverDoubleBooked == Spec => []NoDoubleBooking
<1>1. Init => NoDoubleBooking
  BY DEF Init, NoDoubleBooking, Occupied
<1>2. NoDoubleBooking /\ [Next]_vars => NoDoubleBooking'
  <2> SUFFICES ASSUME NoDoubleBooking, [Next]_vars
               PROVE  NoDoubleBooking'
    OBVIOUS
  <2>1. CASE \E r \in Requests : RequestStep(r)
    BY <2>1, RequestKeepsApart
  <2>2. CASE \E s \in Sessions : StripeStep(s)
    BY <2>2, StaysApart DEF StripeStep, RenterPays, RenterFails, DelayedResult, SessionTimesOut, booked
  <2>3. CASE \E h \in Hooks : HookStep(h)
    BY <2>3, HookKeepsApart
  <2>4. CASE \E e \in Events : HookIgnores(e)
    BY <2>4, StaysApart DEF HookIgnores, booked
  <2>5. CASE HoldEnds
    BY <2>5, StaysApart DEF HoldEnds, booked
  <2>6. CASE CancelRead \/ CancelStep \/ CancelPlain
    BY <2>6, CancelKeepsApart
  <2>7. CASE \E x \in Rivals : RivalBooks(x)
    BY <2>7 DEF RivalBooks, ConstraintAllows, Occupied, booked, NoDoubleBooking
  <2>8. CASE \E x \in Rivals : RivalLeaves(x)
    <3>1. Occupied' => Occupied
      BY <2>8 DEF RivalLeaves, Occupied
    <3>2. QED
      BY <2>8, <3>1 DEF RivalLeaves, booked, NoDoubleBooking
  <2>9. CASE UNCHANGED vars
    BY <2>9, StaysApart DEF vars
  <2> QED
    BY <2>1, <2>2, <2>3, <2>4, <2>5, <2>6, <2>7, <2>8, <2>9 DEF Next
<1> QED
  BY <1>1, <1>2, PTL DEF Spec

-------------------------------------------------------------------------------
(* The invariant that holds whatever is written from rows that have changed*)
(* since they were read.                                                   *)

(* Sessions are numbered in the order they are opened, none is skipped.    *)
Opened == {s \in Sessions : sess[s] # "none"}
OpenedInOrder == \E n \in 0..MaxSessions : Opened = 1..n

(* A payment with a checkout has the session of that checkout.             *)
CurrentIsOpened == pay = "checkout_created" => current # 0

(* Stripe says only what has happened.                                     *)
EventsAreTrue ==
    \A e \in events : /\ e.type = "completed" => sess[e.s] = "paid"
                      /\ e.type = "charge_refunded" => e.s \in refunds

DeliveriesAreEvents == \A h \in Hooks : hook[h] # NoHook => hook[h].e \in events

(* A delivery confirms or releases what it has read as pending.            *)
ReadsPending ==
    \A h \in Hooks :
        hook[h] # NoHook /\ (ConfirmsPaid(hook[h].e.type) \/ Releases(hook[h].e.type))
            => hook[h].booking = "pending"

(* Without a booking there is nothing to go on with.                       *)
BookingFirst ==
    booking = "none" => /\ \A r \in Requests : req[r] = Idle
                        /\ \A h \in Hooks : hook[h] = NoHook
                        /\ cancel.pc = "idle" /\ current = 0 /\ intent = 0

(* What a cancellation has read: a checkout has a session, the codes stay  *)
(* as they are while the booking is locked, and what it asked Stripe to    *)
(* refund is refunded.                                                     *)
CancelSees ==
    /\ cancel.pay = "checkout_created" \/ cancel.pc = "expire" => cancel.session # 0
    /\ Locked => cancel.access = access
    /\ cancel.pc = "asked" => intent \in refunds
    /\ cancel.pc \in {"asked", "recorded"} => cancel.pay = "paid"

StripeInv == /\ TypeOK /\ OpenedInOrder /\ CurrentIsOpened
             /\ EventsAreTrue /\ DeliveriesAreEvents /\ ConfirmedIsCharged
             /\ ReadsPending /\ BookingFirst /\ CancelSees

(* The next number is free: a session that was opened is never replaced.   *)
LEMMA NextIsFree ==
    ASSUME TypeOK, OpenedInOrder, NewSession \in Sessions
    PROVE  /\ sess[NewSession] = "none"
           /\ Opened \cup {NewSession} = 1..NewSession
           /\ NewSession \in 1..MaxSessions
<1>1. PICK n \in 0..MaxSessions : Opened = 1..n
  BY DEF OpenedInOrder
<1>2. n \in Nat /\ MaxSessions \in Nat
  BY StripeAssumption, <1>1
<1>3. Cardinality(1..n) = n
  BY <1>2, FS_Interval
<1>4. NewSession = n + 1
  BY <1>1, <1>3 DEF NewSession, Opened
<1> QED
  BY <1>1, <1>2, <1>4 DEF Opened, Sessions

(* The shape of a delivery: nothing, or an event with the rows it read.    *)
LEMMA DeliveryFacts ==
    ASSUME TypeOK, NEW h \in Hooks, hook[h] # NoHook
    PROVE  /\ hook[h] \in [e : Events, booking : BookingStatus, access : BOOLEAN,
                           pay : PaymentStatus]
           /\ hook[h].e \in Events /\ hook[h].e.s \in Sessions
           /\ hook[h].booking \in BookingStatus /\ hook[h].pay \in PaymentStatus
           /\ hook[h].access \in BOOLEAN
<1>1. hook[h] \in [e : Events, booking : BookingStatus, access : BOOLEAN,
                  pay : PaymentStatus]
  BY DEF TypeOK
<1>2. hook[h].e \in Events
  BY <1>1
<1> QED
  BY <1>1, <1>2 DEF Events

(* Initially nothing has been opened, charged or delivered.                *)
LEMMA StripeInvInit == Init => StripeInv
<1> SUFFICES ASSUME Init PROVE StripeInv
  OBVIOUS
<1>1. TypeOK
  <2>1. req \in [Requests -> [pc : {"idle", "pay", "session"}, seen : BookingStatus,
                           pay : PaymentStatus]]
    BY DEF Init, Idle, BookingStatus, PaymentStatus
  <2>2. 0 \in 0..MaxSessions
    BY StripeAssumption
  <2>3. hook \in [Hooks -> {NoHook} \cup [e : Events, booking : BookingStatus,
                                        access : BOOLEAN, pay : PaymentStatus]]
    BY DEF Init
  <2>4. sess \in [Sessions -> {"none", "open", "processing", "paid", "expired"}]
    BY DEF Init
  <2> QED
    BY <2>1, <2>2, <2>3, <2>4 DEF Init, TypeOK, BookingStatus, PaymentStatus, NoCancel
<1>2. OpenedInOrder
  <2>1. Opened = 1..0
    BY DEF Init, Opened
  <2> QED
    BY <2>1, StripeAssumption DEF OpenedInOrder
<1> QED
  BY <1>1, <1>2 DEF Init, StripeInv, CurrentIsOpened, EventsAreTrue, DeliveriesAreEvents,
                    ConfirmedIsCharged, ReadsPending, BookingFirst, CancelSees, Locked,
                    NoCancel

(* Only a request or a delivery is ever added to the history.              *)
LEMMA LateTyped ==
    ASSUME TypeOK, NEW who \in {"request", "delivery"}, NEW stale,
           Late(who, stale)
    PROVE  late' \subseteq {"request", "delivery"}
  BY DEF TypeOK, Late

(* A cancellation that has begun goes on with what it read.                *)
LEMMA CancelTyped ==
    ASSUME TypeOK, cancel' = NoCancel \/ \E pc \in {"expire", "write", "asked", "recorded"} :
                                             CancelGoesOn(pc)
    PROVE  cancel' \in [pc : {"idle", "read", "expire", "write", "asked", "recorded"},
                        pay : PaymentStatus, session : 0..MaxSessions, access : BOOLEAN]
<1>1. 0 \in 0..MaxSessions /\ "none" \in PaymentStatus
  BY StripeAssumption DEF PaymentStatus
<1>2. CASE cancel' = NoCancel
  BY <1>1, <1>2 DEF NoCancel
<1>3. ASSUME NEW pc \in {"expire", "write", "asked", "recorded"}, CancelGoesOn(pc)
      PROVE  cancel' \in [pc : {"idle", "read", "expire", "write", "asked", "recorded"},
                          pay : PaymentStatus, session : 0..MaxSessions, access : BOOLEAN]
  BY <1>3 DEF TypeOK, CancelGoesOn
<1> QED
  BY <1>2, <1>3

(* A request's own record keeps its type.                                  *)
LEMMA RequestTyped ==
    ASSUME TypeOK, NEW r \in Requests,
           NEW pc \in {"idle", "pay", "session"}, NEW b \in BookingStatus,
           NEW p \in PaymentStatus,
           req' = [req EXCEPT ![r] = [pc |-> pc, seen |-> b, pay |-> p]]
    PROVE  req' \in [Requests -> [pc : {"idle", "pay", "session"}, seen : BookingStatus,
                               pay : PaymentStatus]]
  BY DEF TypeOK

(* So does a delivery that is given up or has committed.                   *)
LEMMA DeliveryTyped ==
    ASSUME TypeOK, NEW h \in Hooks, hook' = [hook EXCEPT ![h] = NoHook]
    PROVE  hook' \in [Hooks -> {NoHook} \cup [e : Events, booking : BookingStatus,
                                            access : BOOLEAN, pay : PaymentStatus]]
  BY DEF TypeOK

(* Events of Stripe's vocabulary about a session.                          *)
LEMMA EmitTyped ==
    ASSUME TypeOK, NEW t \in EventTypes, NEW s \in Sessions, Emit(t, s)
    PROVE  events' \subseteq Events
  BY DEF TypeOK, Emit, Events

(* Type correctness of the steps of a request.                             *)
LEMMA RequestTypes ==
    ASSUME TypeOK, OpenedInOrder, NEW r \in Requests, RequestStep(r)
    PROVE  TypeOK'
<1> USE DEF BookingStatus
<1>0. /\ req[r] \in [pc : {"idle", "pay", "session"}, seen : BookingStatus,
                     pay : PaymentStatus]
      /\ "idle" \in {"idle", "pay", "session"} /\ "none" \in PaymentStatus
      /\ req[r].pay \in PaymentStatus /\ req[r].seen \in BookingStatus
  BY DEF TypeOK, PaymentStatus
<1>1. CASE CheckoutInsert(r)
  <2>1. req' \in [Requests -> [pc : {"idle", "pay", "session"}, seen : BookingStatus,
                            pay : PaymentStatus]]
    BY <1>0, <1>1, RequestTyped DEF CheckoutInsert
  <2> QED
    BY <1>1, <2>1 DEF CheckoutInsert, TypeOK, ledger, external
<1>2. CASE CheckoutLookup(r)
  <2>1. req' \in [Requests -> [pc : {"idle", "pay", "session"}, seen : BookingStatus,
                            pay : PaymentStatus]]
    BY <1>2, RequestTyped DEF CheckoutLookup, TypeOK
  <2> QED
    BY <1>2, <2>1 DEF CheckoutLookup, TypeOK, booked, ledger, external
<1>3. CASE CheckoutPay(r)
  <2>1. pay' \in PaymentStatus
    BY <1>3 DEF Flush, CheckoutPay, TypeOK, PaymentStatus
  <2> DEFINE mid == [req EXCEPT ![r].pc = "session"]
  <2>2. mid \in [Requests -> [pc : {"idle", "pay", "session"}, seen : BookingStatus,
                           pay : PaymentStatus]]
    BY DEF TypeOK
  <2>3. req' = [mid EXCEPT ![r].pay = pay']
    BY <1>3 DEF CheckoutPay, TypeOK
  <2> HIDE DEF mid
  <2>4. req' \in [Requests -> [pc : {"idle", "pay", "session"}, seen : BookingStatus,
                            pay : PaymentStatus]]
    BY <2>1, <2>2, <2>3
  <2>9. late' \subseteq {"request", "delivery"}
    BY <1>3, LateTyped DEF CheckoutPay
  <2> QED
    BY <1>3, <2>1, <2>4, <2>9 DEF CheckoutPay, TypeOK, booked, external
<1>4. CASE SessionCreated(r)
  <2>1. pay' \in PaymentStatus
    BY <1>4 DEF Flush, SessionCreated, TypeOK, PaymentStatus
  <2>2. req' \in [Requests -> [pc : {"idle", "pay", "session"}, seen : BookingStatus,
                            pay : PaymentStatus]]
    BY <1>0, <1>4, RequestTyped DEF SessionCreated, Idle
  <2>3. NewSession \in Sessions /\ NewSession \in 0..MaxSessions
    BY <1>4, StripeAssumption DEF SessionCreated, Sessions
  <2>4. sess' \in [Sessions -> {"none", "open", "processing", "paid", "expired"}]
    BY <1>4 DEF SessionCreated, TypeOK
  <2>9. late' \subseteq {"request", "delivery"}
    BY <1>4, LateTyped DEF SessionCreated
  <2> QED
    BY <1>4, <2>1, <2>2, <2>3, <2>4, <2>9 DEF SessionCreated, TypeOK, booked
<1>5. CASE SessionRefused(r)
  <2>1. pay' \in PaymentStatus
    BY <1>5 DEF Flush, SessionRefused, TypeOK, PaymentStatus
  <2>2. req' \in [Requests -> [pc : {"idle", "pay", "session"}, seen : BookingStatus,
                            pay : PaymentStatus]]
    BY <1>0, <1>5, RequestTyped DEF SessionRefused, Idle
  <2>9. late' \subseteq {"request", "delivery"}
    BY <1>5, LateTyped DEF SessionRefused
  <2> QED
    BY <1>5, <2>1, <2>2, <2>9 DEF SessionRefused, TypeOK, external
<1>6. CASE BetaConfirm(r)
  <2>1. pay' \in PaymentStatus
    BY <1>6 DEF Flush, BetaConfirm, TypeOK, PaymentStatus
  <2>2. req' \in [Requests -> [pc : {"idle", "pay", "session"}, seen : BookingStatus,
                            pay : PaymentStatus]]
    BY <1>0, <1>6, RequestTyped DEF BetaConfirm, Idle
  <2>9. late' \subseteq {"request", "delivery"}
    BY <1>6, LateTyped DEF BetaConfirm
  <2> QED
    BY <1>6, <2>1, <2>2, <2>9 DEF BetaConfirm, TypeOK, external
<1>7. CASE Abort(r)
  <2>1. req' \in [Requests -> [pc : {"idle", "pay", "session"}, seen : BookingStatus,
                            pay : PaymentStatus]]
    BY <1>0, <1>7, RequestTyped DEF Abort, Idle
  <2> QED
    BY <1>7, <2>1 DEF Abort, TypeOK, booked, ledger, external
<1> QED
  BY <1>1, <1>2, <1>3, <1>4, <1>5, <1>6, <1>7 DEF RequestStep

(* Type correctness of Stripe's steps and of the webhook.                  *)
LEMMA HookTypes ==
    ASSUME TypeOK, NEW h \in Hooks, HookStep(h)
    PROVE  TypeOK'
<1>1. ASSUME NEW e \in Events, HookRead(h, e) PROVE TypeOK'
  <2>1. hook' \in [Hooks -> {NoHook} \cup [e : Events, booking : BookingStatus,
                                         access : BOOLEAN, pay : PaymentStatus]]
    BY <1>1 DEF HookRead, TypeOK
  <2> QED
    BY <1>1, <2>1 DEF HookRead, TypeOK, booked, ledger, external
<1>2. CASE HookDropped(h)
  <2>1. hook' \in [Hooks -> {NoHook} \cup [e : Events, booking : BookingStatus,
                                         access : BOOLEAN, pay : PaymentStatus]]
    BY <1>2, DeliveryTyped DEF HookDropped
  <2> QED
    BY <1>2, <2>1 DEF HookDropped, TypeOK, booked, ledger, external
<1>3. CASE HookWrite(h)
  <2>1. HookCommits(h) /\ hook[h] # NoHook
    BY <1>3 DEF HookWrite, HookConfirms, HookReleases, HookRefunds, HookCommits
  <2>2. /\ hook[h].e \in Events /\ hook[h].e.s \in Sessions
        /\ hook[h].e.s \in 0..MaxSessions /\ hook[h].access \in BOOLEAN
    BY <2>1, DeliveryFacts, StripeAssumption DEF Sessions
  <2>3. hook' \in [Hooks -> {NoHook} \cup [e : Events, booking : BookingStatus,
                                         access : BOOLEAN, pay : PaymentStatus]]
    BY <2>1, DeliveryTyped DEF HookCommits
  <2>4. /\ pay' \in PaymentStatus /\ booking' \in BookingStatus /\ access' \in BOOLEAN
        /\ intent' \in 0..MaxSessions /\ UNCHANGED <<current, live>>
    <3>1. CASE HookConfirms(h)
      BY <2>2, <3>1 DEF Flush, HookConfirms, TypeOK, PaymentStatus, BookingStatus
    <3>2. CASE HookReleases(h)
      BY <2>2, <3>2 DEF Flush, HookReleases, TypeOK, PaymentStatus, BookingStatus
    <3>3. CASE HookRefunds(h)
      BY <2>2, <3>3 DEF Flush, HookRefunds, BookingAfterRefund, TypeOK, PaymentStatus, BookingStatus
    <3> QED
      BY <1>3, <3>1, <3>2, <3>3 DEF HookWrite
  <2> QED
    BY <2>1, <2>2, <2>3, <2>4, LateTyped DEF HookCommits, TypeOK, external
<1> QED
  BY <1>1, <1>2, <1>3 DEF HookStep

(* Type correctness of cancellations and refunds.                          *)
LEMMA CancelTypes ==
    ASSUME TypeOK, CurrentIsOpened, CancelSees, CancelRead \/ CancelStep \/ CancelPlain
    PROVE  TypeOK'
<1> USE DEF BookingStatus, booked, ledger, external
<1>1. CASE CancelRead
  <2>1. cancel' \in [pc : {"idle", "read", "expire", "write", "asked", "recorded"},
                     pay : PaymentStatus, session : 0..MaxSessions, access : BOOLEAN]
    BY <1>1 DEF CancelRead, TypeOK
  <2> QED
    BY <1>1, <2>1 DEF CancelRead, TypeOK
<1>2. CASE CancelStep
  <2>0. cancel' \in [pc : {"idle", "read", "expire", "write", "asked", "recorded"},
                     pay : PaymentStatus, session : 0..MaxSessions, access : BOOLEAN]
    BY <1>2, CancelTyped DEF CancelStep, CancelLooks, CancelExpires, CancelUnpaid, RefundAsked,
                             RefundPaid, CancelRefunded, CancelDies
  <2>1. CASE CancelLooks \/ CancelDies
    BY <2>0, <2>1 DEF CancelLooks, CancelDies, TypeOK
  <2>2. CASE CancelExpires
    <3>1. cancel.session \in Sessions /\ "session_expired" \in EventTypes
      BY <2>2, StripeAssumption DEF CancelExpires, CancelSees, TypeOK, Sessions, EventTypes
    <3>2. events' \subseteq Events
      BY <2>2, <3>1, EmitTyped DEF CancelExpires
    <3>3. sess' \in [Sessions -> {"none", "open", "processing", "paid", "expired"}]
      BY <2>2, <3>1 DEF CancelExpires, TypeOK
    <3> QED
      BY <2>0, <2>2, <3>2, <3>3 DEF CancelExpires, TypeOK
  <2>3. CASE CancelUnpaid
    <3>1. pay' \in PaymentStatus /\ access' \in BOOLEAN
      BY <2>3 DEF CancelUnpaid, AfterCancel, CodesCleared, Flush, TypeOK, PaymentStatus
    <3> QED
      BY <2>0, <2>3, <3>1 DEF CancelUnpaid, TypeOK
  <2>4. CASE RefundAsked
    <3>1. intent \in Sessions /\ "charge_refunded" \in EventTypes
      BY <2>4, StripeAssumption DEF RefundAsked, TypeOK, Sessions, EventTypes
    <3>2. events' \subseteq Events
      BY <2>4, <3>1, EmitTyped DEF RefundAsked
    <3> QED
      BY <2>0, <2>4, <3>1, <3>2 DEF RefundAsked, TypeOK
  <2>5. CASE RefundPaid
    <3>1. pay' \in PaymentStatus
      BY <2>5 DEF RefundPaid, PaymentStatus
    <3> QED
      BY <2>0, <2>5, <3>1 DEF RefundPaid, TypeOK
  <2>6. CASE CancelRefunded
    <3>1. access' \in BOOLEAN
      BY <2>6 DEF CancelRefunded, CodesCleared, Flush, TypeOK
    <3> QED
      BY <2>0, <2>6, <3>1 DEF CancelRefunded, TypeOK
  <2> QED
    BY <1>2, <2>1, <2>2, <2>3, <2>4, <2>5, <2>6 DEF CancelStep
<1>3. CASE CancelPlain
  BY <1>3 DEF CancelPlain, CodesCleared, Flush, TypeOK
<1> QED
  BY <1>1, <1>2, <1>3

(* What a step does to the rows: only a webhook or the simulated ledger    *)
(* confirms, and only a new session makes a checkout.                      *)
Confirms == mode = "beta" \/ \E h \in Hooks : HookConfirms(h)

(* What any step may do to the booking's and the payment's row: only a     *)
(* confirmation confirms or pays, and only a checkout opens one.           *)
LEMMA RowSteps ==
    ASSUME Next
    PROVE  /\ mode' = mode
           /\ booking' = "confirmed" => booking = "confirmed" \/ Confirms
           /\ pay' = "paid" => (pay = "paid" /\ intent' = intent) \/ Confirms
           /\ pay' = "checkout_created" =>
                 \/ pay = "checkout_created" /\ current' = current
                 \/ \E r \in Requests : SessionCreated(r)
<1> USE DEF booked, ledger, external
<1>1. ASSUME NEW r \in Requests, RequestStep(r)
      PROVE  /\ mode' = mode
             /\ booking' = "confirmed" => booking = "confirmed" \/ mode = "beta"
             /\ pay' = "paid" => (pay = "paid" /\ intent' = intent) \/ mode = "beta"
             /\ pay' = "checkout_created" =>
                   (pay = "checkout_created" /\ current' = current) \/ SessionCreated(r)
  <2>1. CASE CheckoutInsert(r)
    BY <2>1 DEF CheckoutInsert
  <2>2. CASE CheckoutLookup(r)
    BY <2>2 DEF CheckoutLookup
  <2>3. CASE CheckoutPay(r)
    BY <2>3 DEF CheckoutPay, Flush
  <2>4. CASE SessionCreated(r)
    BY <2>4 DEF SessionCreated, Flush
  <2>5. CASE SessionRefused(r)
    BY <2>5 DEF SessionRefused, Flush
  <2>6. CASE BetaConfirm(r)
    BY <2>6 DEF BetaConfirm, Flush
  <2>7. CASE Abort(r)
    BY <2>7 DEF Abort
  <2> QED
    BY <1>1, <2>1, <2>2, <2>3, <2>4, <2>5, <2>6, <2>7 DEF RequestStep
<1>2. ASSUME NEW h \in Hooks, HookStep(h)
      PROVE  /\ mode' = mode
             /\ booking' = "confirmed" => booking = "confirmed" \/ HookConfirms(h)
             /\ pay' = "paid" => (pay = "paid" /\ intent' = intent) \/ HookConfirms(h)
             /\ pay' = "checkout_created" => pay = "checkout_created" /\ current' = current
  <2>1. CASE \E e \in Events : HookRead(h, e)
    BY <2>1 DEF HookRead
  <2>2. CASE HookConfirms(h)
    BY <2>2 DEF HookConfirms, HookCommits, Flush
  <2>3. CASE HookReleases(h)
    BY <2>3 DEF HookReleases, HookCommits, Flush
  <2>4. CASE HookRefunds(h)
    BY <2>4 DEF HookRefunds, HookCommits, BookingAfterRefund, Flush
  <2>5. CASE HookDropped(h)
    BY <2>5 DEF HookDropped
  <2> QED
    BY <1>2, <2>1, <2>2, <2>3, <2>4, <2>5 DEF HookStep, HookWrite
<1>3. CASE \E r \in Requests : RequestStep(r)
  BY <1>1, <1>3 DEF Confirms
<1>4. CASE \E h \in Hooks : HookStep(h)
  BY <1>2, <1>4 DEF Confirms
<1>5. CASE \/ \E s \in Sessions : StripeStep(s)
           \/ \E e \in Events : HookIgnores(e)
           \/ HoldEnds \/ \E x \in Rivals : RivalBooks(x) \/ RivalLeaves(x)
  BY <1>5 DEF StripeStep, RenterPays, RenterFails, DelayedResult, SessionTimesOut, HookIgnores, HoldEnds,
              RivalBooks, RivalLeaves
<1>6. CASE CancelRead \/ CancelStep \/ CancelPlain
  <2>1. CASE CancelUnpaid
    BY <2>1 DEF CancelUnpaid, AfterCancel, Flush
  <2>2. CASE RefundPaid \/ CancelRefunded \/ CancelPlain
    BY <2>2 DEF RefundPaid, CancelRefunded, CancelPlain
  <2>3. CASE CancelRead \/ CancelLooks \/ CancelExpires \/ RefundAsked \/ CancelDies
    BY <2>3 DEF CancelRead, CancelLooks, CancelExpires, RefundAsked, CancelDies
  <2> QED
    BY <1>6, <2>1, <2>2, <2>3 DEF CancelStep
<1> QED
  BY <1>3, <1>4, <1>5, <1>6 DEF Next

(* What a step does at Stripe: a session is opened, paid, failed or        *)
(* expired, or a charge is refunded; each comes with its event.            *)
Paying(s) == /\ sess[s] = "open" /\ sess' = [sess EXCEPT ![s] = "paid"]
             /\ Emit("completed", s) /\ refunds' = refunds
Failing(s) == /\ sess[s] = "open" /\ sess' \in {sess, [sess EXCEPT ![s] = "processing"]}
              /\ \E t \in Declines : Emit(t, s)
              /\ refunds' = refunds
Ending(s) == /\ sess[s] = "processing"
             /\ \E result \in {"paid", "expired"} : sess' = [sess EXCEPT ![s] = result]
             /\ Emit("delayed_result", s) /\ refunds' = refunds
Expiring(s) == /\ sess[s] = "open" /\ sess' = [sess EXCEPT ![s] = "expired"]
               /\ Emit("session_expired", s) /\ refunds' = refunds
Refunding(s) == /\ refunds' = refunds \cup {s} /\ Emit("charge_refunded", s)
                /\ sess' = sess
Opening == /\ NewSession \in Sessions /\ sess' = [sess EXCEPT ![NewSession] = "open"]
           /\ UNCHANGED <<refunds, events>>

(* What happens to one session.                                            *)
Moving(s) == Paying(s) \/ Failing(s) \/ Ending(s) \/ Expiring(s) \/ Refunding(s)

(* What any step may do on Stripe's side: open a session, or let one be    *)
(* paid, fail, end after a delay, expire or be refunded.                   *)
LEMMA StripeSteps ==
    ASSUME TypeOK, CancelSees, Next
    PROVE  UNCHANGED external \/ Opening \/ \E s \in Sessions : Moving(s)
<1>1. CASE \E r \in Requests : RequestStep(r)
  BY <1>1 DEF RequestStep, CheckoutInsert, CheckoutLookup, CheckoutPay, SessionCreated,
              SessionRefused, BetaConfirm, Abort, external, Opening
<1>2. CASE \E s \in Sessions : StripeStep(s)
  BY <1>2 DEF StripeStep, RenterPays, RenterFails, DelayedResult, SessionTimesOut, Moving,
              Paying, Failing, Ending, Expiring
<1>3. CASE \E h \in Hooks : HookStep(h)
  BY <1>3 DEF HookStep, HookRead, HookWrite, HookConfirms, HookReleases, HookRefunds,
              HookCommits, HookDropped, external
<1>4. CASE \/ \E e \in Events : HookIgnores(e)
           \/ HoldEnds \/ \E x \in Rivals : RivalBooks(x) \/ RivalLeaves(x)
  BY <1>4 DEF HookIgnores, HoldEnds, RivalBooks, RivalLeaves, external
<1>5. CASE CancelRead \/ CancelStep \/ CancelPlain
  <2>1. CASE CancelExpires
    <3>1. cancel.session \in Sessions
      BY <2>1, StripeAssumption DEF CancelExpires, CancelSees, TypeOK, Sessions
    <3>2. Moving(cancel.session)
      BY <2>1 DEF CancelExpires, Moving, Expiring
    <3> QED
      BY <3>1, <3>2
  <2>2. CASE RefundAsked
    <3>1. intent \in Sessions
      BY <2>2, StripeAssumption DEF RefundAsked, TypeOK, Sessions
    <3>2. Moving(intent)
      BY <2>2 DEF RefundAsked, Moving, Refunding
    <3> QED
      BY <3>1, <3>2
  <2>3. CASE \/ CancelRead \/ CancelLooks \/ CancelUnpaid \/ RefundPaid \/ CancelRefunded
             \/ CancelDies \/ CancelPlain
    BY <2>3 DEF CancelRead, CancelLooks, CancelUnpaid, RefundPaid, CancelRefunded, CancelDies,
                CancelPlain, external
  <2> QED
    BY <1>5, <2>1, <2>2, <2>3 DEF CancelStep
<1> QED
  BY <1>1, <1>2, <1>3, <1>4, <1>5 DEF Next

(* A payment, a refund and an event cannot be undone, the numbering stays  *)
(* in order, and what Stripe says stays true.                              *)
LEMMA StripeHistory ==
    ASSUME StripeInv, Next
    PROVE  /\ \A s \in Sessions : sess[s] = "paid" => sess'[s] = "paid"
           /\ refunds \subseteq refunds' /\ events \subseteq events'
           /\ OpenedInOrder' /\ EventsAreTrue'
<1> USE DEF StripeInv
<1>1. CASE UNCHANGED external
  BY <1>1 DEF external, OpenedInOrder, Opened, EventsAreTrue
<1>2. CASE Opening
  <2>1. /\ sess[NewSession] = "none" /\ NewSession \in Sessions
        /\ Opened \cup {NewSession} = 1..NewSession
        /\ NewSession \in 0..MaxSessions
    BY <1>2, NextIsFree, StripeAssumption DEF Opening
  <2>2. sess \in [Sessions -> {"none", "open", "processing", "paid", "expired"}]
    BY DEF TypeOK
  <2>3. \A s \in Sessions : sess[s] = "paid" => sess'[s] = "paid"
    BY <1>2, <2>1, <2>2 DEF Opening
  <2>4. Opened' = Opened \cup {NewSession}
    BY <1>2, <2>1, <2>2 DEF Opening, Opened
  <2>5. OpenedInOrder'
    BY <2>1, <2>4 DEF OpenedInOrder
  <2>6. EventsAreTrue'
    BY <1>2, <2>3 DEF Opening, EventsAreTrue, TypeOK, Events
  <2> QED
    BY <1>2, <2>3, <2>5, <2>6 DEF Opening
<1>3. ASSUME NEW s \in Sessions, Moving(s)
      PROVE  /\ \A t \in Sessions : sess[t] = "paid" => sess'[t] = "paid"
             /\ refunds \subseteq refunds' /\ events \subseteq events'
             /\ OpenedInOrder' /\ EventsAreTrue'
  <2>1. sess \in [Sessions -> {"none", "open", "processing", "paid", "expired"}]
    BY DEF TypeOK
  <2>2. /\ \A t \in Sessions : sess[t] = "paid" => sess'[t] = "paid"
        /\ refunds \subseteq refunds' /\ events \subseteq events'
    BY <1>3, <2>1 DEF Moving, Paying, Failing, Ending, Expiring, Refunding, Emit
  <2>3. Opened' = Opened
    BY <1>3, <2>1 DEF Moving, Paying, Failing, Ending, Expiring, Refunding, Opened
  <2>4. OpenedInOrder'
    BY <2>3 DEF OpenedInOrder
  <2>5. \A e \in events : e \in Events /\ e.s \in Sessions
    BY DEF TypeOK, Events
  <2>6. \A e \in events : /\ e.type = "completed" => sess'[e.s] = "paid"
                          /\ e.type = "charge_refunded" => e.s \in refunds'
    BY <2>2, <2>5 DEF EventsAreTrue
  <2>7. ASSUME NEW e \in events' \ events
        PROVE  /\ e.type = "completed" => sess'[e.s] = "paid"
               /\ e.type = "charge_refunded" => e.s \in refunds'
    <3>1. CASE Paying(s)
      BY <2>1, <2>7, <3>1 DEF Paying, Emit
    <3>2. CASE Failing(s)
      BY <2>7, <3>2, StripeAssumption DEF Failing, Emit
    <3>3. CASE Expiring(s)
      BY <2>7, <3>3 DEF Expiring, Emit
    <3>4. CASE Refunding(s)
      BY <2>7, <3>4 DEF Refunding, Emit
    <3>5. CASE Ending(s)
      BY <2>7, <3>5 DEF Ending, Emit
    <3> QED
      BY <1>3, <3>1, <3>2, <3>3, <3>4, <3>5 DEF Moving
  <2>8. EventsAreTrue'
    BY <2>6, <2>7 DEF EventsAreTrue
  <2> QED
    BY <2>2, <2>4, <2>8
<1> QED
  BY <1>1, <1>2, <1>3, StripeSteps

(* Every step keeps the types.                                             *)
LEMMA TypesStep ==
    ASSUME TypeOK, OpenedInOrder, CurrentIsOpened, CancelSees, Next
    PROVE  TypeOK'
<1>1. CASE \E r \in Requests : RequestStep(r)
  BY <1>1, RequestTypes
<1>2. CASE \E s \in Sessions : StripeStep(s)
  <2>1. PICK s \in Sessions : StripeStep(s)
    BY <1>2
  <2>2. events' \subseteq Events
    BY <2>1, EmitTyped, StripeAssumption
       DEF StripeStep, RenterPays, RenterFails, DelayedResult, SessionTimesOut, EventTypes
  <2>3. sess' \in [Sessions -> {"none", "open", "processing", "paid", "expired"}]
    BY <2>1 DEF StripeStep, RenterPays, RenterFails, DelayedResult, SessionTimesOut, TypeOK
  <2> QED
    BY <2>1, <2>2, <2>3
       DEF StripeStep, RenterPays, RenterFails, DelayedResult, SessionTimesOut, TypeOK, booked, ledger
<1>3. CASE \E h \in Hooks : HookStep(h)
  BY <1>3, HookTypes
<1>4. CASE \E e \in Events : HookIgnores(e)
  BY <1>4 DEF HookIgnores, TypeOK, booked, ledger, external
<1>5. CASE HoldEnds \/ \E x \in Rivals : RivalBooks(x) \/ RivalLeaves(x)
  BY <1>5 DEF HoldEnds, RivalBooks, RivalLeaves, TypeOK, booked, ledger, external
<1>6. CASE CancelRead \/ CancelStep \/ CancelPlain
  BY <1>6, CancelTypes
<1> QED
  BY <1>1, <1>2, <1>3, <1>4, <1>5, <1>6 DEF Next

(* A delivery is new, is over, or is as it was.                            *)
LEMMA HookKinds ==
    ASSUME TypeOK, Next, NEW h \in Hooks
    PROVE  hook'[h] \in {hook[h], NoHook} \/ \E e \in Events : HookRead(h, e)
<1>1. CASE \E g \in Hooks : HookStep(g)
  <2>1. PICK g \in Hooks : HookStep(g)
    BY <1>1
  <2>2. CASE \E e \in Events : HookRead(g, e)
    BY <2>2 DEF HookRead, TypeOK
  <2>3. CASE HookWrite(g) \/ HookDropped(g)
    BY <2>3 DEF HookWrite, HookConfirms, HookReleases, HookRefunds, HookCommits,
                HookDropped, TypeOK
  <2> QED
    BY <2>1, <2>2, <2>3 DEF HookStep
<1>2. CASE hook' = hook
  BY <1>2
<1> QED
  BY <1>1, <1>2
     DEF Next, RequestStep, CheckoutInsert, CheckoutLookup, CheckoutPay, SessionCreated,
         SessionRefused, BetaConfirm, Abort, StripeStep, RenterPays, RenterFails, DelayedResult,
         SessionTimesOut, HookIgnores, HoldEnds, RivalBooks, RivalLeaves, CancelRead, CancelStep, CancelLooks, CancelExpires, CancelUnpaid, RefundAsked,
         RefundPaid, CancelRefunded, CancelDies, CancelPlain

(* What a webhook confirms has been charged: it carries the event that     *)
(* Stripe sends when a session is paid.                                    *)
LEMMA ConfirmsCharged ==
    ASSUME StripeInv, NEW h \in Hooks, HookConfirms(h)
    PROVE  /\ hook[h].e \in Events /\ hook[h].e.s \in Sessions /\ hook[h].e.s # 0
           /\ intent' = hook[h].e.s /\ sess[intent'] = "paid" /\ sess' = sess
<1>1. hook[h] # NoHook /\ hook[h].e.type = "completed" /\ hook[h].e \in events
  BY DEF HookConfirms, HookCommits, ConfirmsPaid, StripeInv, DeliveriesAreEvents
<1>2. hook[h].e \in Events /\ hook[h].e.s \in Sessions
  BY <1>1, DeliveryFacts DEF StripeInv
<1> QED
  BY <1>1, <1>2, StripeAssumption
     DEF HookConfirms, HookCommits, StripeInv, EventsAreTrue, Sessions, external

(* A delivery keeps what it has read.                                      *)
LEMMA ReadsPendingStep ==
    ASSUME StripeInv, Next
    PROVE  ReadsPending'
<1> SUFFICES ASSUME NEW h \in Hooks, hook'[h] # NoHook,
                    ConfirmsPaid(hook'[h].e.type) \/ Releases(hook'[h].e.type)
             PROVE  hook'[h].booking = "pending"
  BY DEF ReadsPending
<1>1. CASE hook'[h] = hook[h]
  BY <1>1 DEF StripeInv, ReadsPending
<1>2. CASE \E e \in Events : HookRead(h, e)
  BY <1>2 DEF HookRead, ConfirmsPaid, Releases, Refunds, Expirable, Confirmable, StripeInv,
              TypeOK
<1> QED
  BY <1>1, <1>2, HookKinds DEF StripeInv

(* No step leaves the table without the booking, and only the insert works *)
(* without one.                                                            *)
LEMMA BookingFirstStep ==
    ASSUME StripeInv, Next
    PROVE  BookingFirst'
<1> USE DEF StripeInv, BookingFirst, booked, ledger, external
<1>1. CASE \E r \in Requests : RequestStep(r)
  BY <1>1 DEF RequestStep, CheckoutInsert, CheckoutLookup, CheckoutPay, SessionCreated,
              SessionRefused, BetaConfirm, Abort, Idle
<1>2. CASE \E h \in Hooks : HookStep(h)
  <2>1. PICK h \in Hooks : HookStep(h)
    BY <1>2
  <2>2. CASE \E e \in Events : HookRead(h, e)
    BY <2>2, StripeAssumption DEF HookRead, Matches, Events, Sessions
  <2>3. CASE hook[h] # NoHook
    BY <2>1, <2>3 DEF HookStep, HookRead, HookDropped, HookWrite, HookConfirms, HookReleases,
                      HookRefunds, HookCommits, BookingAfterRefund, Flush
  <2> QED
    BY <2>1, <2>2, <2>3 DEF HookStep, HookDropped, HookWrite, HookConfirms, HookReleases,
                            HookRefunds, HookCommits
<1>3. CASE \/ \E s \in Sessions : StripeStep(s)
           \/ \E e \in Events : HookIgnores(e)
           \/ HoldEnds \/ \E x \in Rivals : RivalBooks(x) \/ RivalLeaves(x)
  BY <1>3 DEF StripeStep, RenterPays, RenterFails, DelayedResult, SessionTimesOut, HookIgnores,
              HoldEnds, RivalBooks, RivalLeaves
<1>4. CASE CancelRead \/ CancelStep \/ CancelPlain
  <2>1. CASE CancelUnpaid \/ CancelRefunded \/ CancelPlain
    BY <2>1 DEF CancelUnpaid, CancelRefunded, CancelPlain
  <2>2. CASE CancelRead
    BY <2>2 DEF CancelRead, Cancellable
  <2>3. CASE CancelLooks \/ CancelExpires \/ RefundAsked \/ RefundPaid \/ CancelDies
    BY <2>3 DEF CancelLooks, CancelExpires, RefundAsked, RefundPaid, CancelDies, NoCancel
  <2> QED
    BY <1>4, <2>1, <2>2, <2>3 DEF CancelStep
<1> QED
  BY <1>1, <1>2, <1>3, <1>4 DEF Next

(* While the cancellation holds the booking nobody else gives codes, takes *)
(* them away or confirms.                                                  *)
LEMMA CancelSeesStep ==
    ASSUME StripeInv, Next
    PROVE  CancelSees'
<1> USE DEF StripeInv, CancelSees, booked, ledger, external
<1>0. refunds \subseteq refunds'
  BY StripeHistory
<1>1. CASE \E r \in Requests : RequestStep(r)
  BY <1>0, <1>1 DEF RequestStep, CheckoutInsert, CheckoutLookup, CheckoutPay, SessionCreated,
                    SessionRefused, BetaConfirm, Abort, Locked
<1>2. CASE \E h \in Hooks : HookStep(h)
  BY <1>0, <1>2 DEF HookStep, HookRead, HookDropped, HookWrite, HookConfirms, HookReleases,
                    HookRefunds, HookCommits, Locked
<1>3. CASE \/ \E s \in Sessions : StripeStep(s)
           \/ \E e \in Events : HookIgnores(e)
           \/ HoldEnds \/ \E x \in Rivals : RivalBooks(x) \/ RivalLeaves(x)
  BY <1>0, <1>3 DEF StripeStep, RenterPays, RenterFails, DelayedResult, SessionTimesOut,
                    HookIgnores, HoldEnds, RivalBooks, RivalLeaves, Locked
<1>4. CASE CancelRead
  BY <1>4 DEF CancelRead, CurrentIsOpened, Locked
<1>5. CASE CancelLooks \/ CancelExpires \/ RefundAsked \/ RefundPaid
  <2>1. cancel \in [pc : {"idle", "read", "expire", "write", "asked", "recorded"},
                    pay : PaymentStatus, session : 0..MaxSessions, access : BOOLEAN]
    BY DEF TypeOK
  <2>2. CASE CancelLooks \/ CancelExpires
    BY <1>0, <2>1, <2>2 DEF CancelLooks, CancelExpires, CancelGoesOn, Locked
  <2>3. CASE RefundAsked \/ RefundPaid
    BY <1>0, <2>1, <2>3 DEF RefundAsked, RefundPaid, CancelGoesOn, Locked
  <2> QED
    BY <1>5, <2>2, <2>3
<1>6. CASE CancelUnpaid \/ CancelRefunded \/ CancelDies
  BY <1>6 DEF CancelUnpaid, CancelRefunded, CancelDies, NoCancel, Locked
<1>7. CASE CancelPlain
  BY <1>0, <1>7 DEF CancelPlain, Locked
<1> QED
  BY <1>1, <1>2, <1>3, <1>4, <1>5, <1>6, <1>7 DEF Next, CancelStep

(* The invariant is inductive, overlaps or not.                            *)
LEMMA StripeInvStep == StripeInv /\ [Next]_vars => StripeInv'
<1> SUFFICES ASSUME StripeInv, [Next]_vars
             PROVE  StripeInv'
  OBVIOUS
<1>1. CASE UNCHANGED vars
  BY <1>1 DEF vars, StripeInv, TypeOK, OpenedInOrder, Opened, CurrentIsOpened, EventsAreTrue,
              DeliveriesAreEvents, ConfirmedIsCharged, ReadsPending, BookingFirst, CancelSees,
              Locked
<1>2. CASE Next
  <2>1. TypeOK'
    BY <1>2, TypesStep DEF StripeInv
  <2>2. /\ OpenedInOrder' /\ EventsAreTrue' /\ events \subseteq events'
        /\ \A s \in Sessions : sess[s] = "paid" => sess'[s] = "paid"
    BY <1>2, StripeHistory
  <2>3. CurrentIsOpened'
    <3>1. CASE \E r \in Requests : SessionCreated(r)
      BY <3>1, StripeAssumption DEF SessionCreated, CurrentIsOpened, Sessions
    <3>2. CASE ~\E r \in Requests : SessionCreated(r)
      BY <1>2, <3>2, RowSteps DEF CurrentIsOpened, StripeInv
    <3> QED
      BY <3>1, <3>2
  <2>4. DeliveriesAreEvents'
    <3> SUFFICES ASSUME NEW h \in Hooks, hook'[h] # NoHook
                 PROVE  hook'[h].e \in events'
      BY DEF DeliveriesAreEvents
    <3>1. CASE hook'[h] = hook[h]
      BY <2>2, <3>1 DEF StripeInv, DeliveriesAreEvents
    <3>2. CASE \E e \in Events : HookRead(h, e)
      BY <3>2 DEF HookRead, StripeInv, TypeOK, external
    <3> QED
      BY <1>2, <3>1, <3>2, HookKinds DEF StripeInv
  <2>5. ConfirmedIsCharged'
    <3> SUFFICES ASSUME mode' = "stripe"
                 PROVE  /\ booking' = "confirmed" => \E s \in Sessions : sess'[s] = "paid"
                        /\ pay' = "paid" => intent' # 0 /\ sess'[intent'] = "paid"
      BY DEF ConfirmedIsCharged
    <3>1. mode = "stripe"
      BY <1>2, RowSteps
    <3>2. CASE \E h \in Hooks : HookConfirms(h)
      BY <3>2, ConfirmsCharged
    <3>3. CASE ~\E h \in Hooks : HookConfirms(h)
      <4>1. /\ booking' = "confirmed" => booking = "confirmed"
            /\ pay' = "paid" => pay = "paid" /\ intent' = intent
        BY <1>2, <3>1, <3>3, RowSteps DEF Confirms
      <4>2. pay = "paid" => intent \in Sessions
        BY <3>1, StripeAssumption DEF StripeInv, ConfirmedIsCharged, TypeOK, Sessions
      <4> QED
        BY <2>2, <3>1, <4>1, <4>2 DEF StripeInv, ConfirmedIsCharged
    <3> QED
      BY <3>2, <3>3
  <2>6. ReadsPending' /\ BookingFirst' /\ CancelSees'
    BY <1>2, ReadsPendingStep, BookingFirstStep, CancelSeesStep
  <2> QED
    BY <2>1, <2>2, <2>3, <2>4, <2>5, <2>6 DEF StripeInv
<1> QED
  BY <1>1, <1>2

(* The invariant, for any number of requests, deliveries and sessions.     *)
THEOREM StripeInvariant == Spec => []StripeInv
<1> QED
  BY StripeInvInit, StripeInvStep, PTL DEF Spec

(* Every row, session and delivery is of its type: no overlap of handlers  *)
(* takes a status outside the enumerations of the schema.                  *)
THEOREM StripeTypeCorrect == Spec => []TypeOK
<1>1. StripeInv => TypeOK
  BY DEF StripeInv
<1> QED
  BY <1>1, StripeInvariant, PTL

(* Nobody's booking is confirmed, and no payment is recorded as received,  *)
(* without a charge at Stripe: also when webhooks are late, repeated and   *)
(* overlap with retries.  No bound is needed.                              *)
THEOREM NoFreeConfirmation == Spec => []ConfirmedIsCharged
<1>1. StripeInv => ConfirmedIsCharged
  BY DEF StripeInv
<1> QED
  BY <1>1, StripeInvariant, PTL

-------------------------------------------------------------------------------
(* The slot ledger, and what may happen to the booking at all.             *)

Inserted == booking = "none" /\ booking' = "pending" /\ ~Occupied
Closed == booking # "none" /\ booking' \in {"expired", "cancelled"}
Sold == booking = "pending" /\ booking' = "confirmed"
SoldLate == /\ LateConfirmation /\ ~Occupied
            /\ booking \notin {"none", "pending"} /\ booking' = "confirmed"

(* A step inserts, closes or confirms the booking; who confirms one that   *)
(* is no longer pending has read it before it was.  Who closes a confirmed *)
(* one without cancelling it has read it before it was confirmed.          *)
LEMMA BookingKinds ==
    ASSUME StripeInv, Next
    PROVE  /\ booking' = booking \/ Inserted \/ Closed \/ Sold \/ SoldLate
           /\ booking = "confirmed" => booking' \in {"confirmed", "cancelled"} \/ LateRelease
<1> USE DEF booked, ledger, external, Inserted, Closed, Sold, SoldLate
<1>1. ASSUME NEW r \in Requests, RequestStep(r)
      PROVE  /\ booking' = booking \/ Inserted \/ Closed \/ Sold \/ SoldLate
             /\ booking = "confirmed" => booking' \in {"confirmed", "cancelled"} \/ LateRelease
  <2>1. req[r] # Idle => booking # "none"
    BY DEF StripeInv, BookingFirst
  <2>2. CASE CheckoutInsert(r)
    BY <2>2 DEF CheckoutInsert, ConstraintAllows
  <2>3. CASE CheckoutLookup(r) \/ CheckoutPay(r) \/ SessionCreated(r) \/ Abort(r)
    BY <2>3 DEF CheckoutLookup, CheckoutPay, SessionCreated, Abort
  <2>4. CASE SessionRefused(r)
    <3>1. req[r].seen = "pending" /\ booking' = "expired" /\ booking # "none"
      BY <2>1, <2>4 DEF SessionRefused, Expirable, Idle
    <3>2. booking = "confirmed" => LateRelease
      BY <2>4, <3>1 DEF LateRelease
    <3> QED
      BY <3>1, <3>2
  <2>5. CASE BetaConfirm(r)
    <3>1. req[r].seen = "pending" /\ ~Occupied /\ booking' = "confirmed" /\ booking # "none"
      BY <2>1, <2>5 DEF BetaConfirm, ConstraintAllows, Idle
    <3>2. booking # "pending" => LateConfirmation
      BY <2>5, <3>1 DEF LateConfirmation
    <3> QED
      BY <3>1, <3>2
  <2> QED
    BY <1>1, <2>2, <2>3, <2>4, <2>5 DEF RequestStep
<1>2. ASSUME NEW h \in Hooks, HookStep(h)
      PROVE  /\ booking' = booking \/ Inserted \/ Closed \/ Sold \/ SoldLate
             /\ booking = "confirmed" => booking' \in {"confirmed", "cancelled"} \/ LateRelease
  <2>1. hook[h] # NoHook => booking # "none"
    BY DEF StripeInv, BookingFirst
  <2>2. CASE (\E e \in Events : HookRead(h, e)) \/ HookDropped(h)
    BY <2>2 DEF HookRead, HookDropped
  <2>3. CASE HookConfirms(h)
    <3>1. /\ hook[h] # NoHook /\ ConfirmsPaid(hook[h].e.type) /\ ~Occupied
          /\ booking' = "confirmed"
      BY <2>3 DEF HookConfirms, HookCommits, ConstraintAllows
    <3>2. hook[h].booking = "pending"
      BY <3>1 DEF StripeInv, ReadsPending
    <3>3. booking # "pending" => LateConfirmation
      BY <2>3, <3>2 DEF LateConfirmation
    <3> QED
      BY <2>1, <3>1, <3>3
  <2>4. CASE HookReleases(h)
    <3>1. hook[h] # NoHook /\ Releases(hook[h].e.type) /\ booking' = "expired"
      BY <2>4 DEF HookReleases, HookCommits
    <3>2. hook[h].booking = "pending"
      BY <3>1 DEF StripeInv, ReadsPending
    <3>3. booking = "confirmed" => LateRelease
      BY <2>4, <3>2 DEF LateRelease
    <3> QED
      BY <2>1, <3>1, <3>3
  <2>5. CASE HookRefunds(h)
    BY <2>1, <2>5 DEF HookRefunds, HookCommits, BookingAfterRefund, Flush
  <2> QED
    BY <1>2, <2>2, <2>3, <2>4, <2>5 DEF HookStep, HookWrite
<1>3. CASE \/ \E s \in Sessions : StripeStep(s)
           \/ \E e \in Events : HookIgnores(e)
           \/ HoldEnds \/ \E x \in Rivals : RivalBooks(x) \/ RivalLeaves(x)
  BY <1>3 DEF StripeStep, RenterPays, RenterFails, DelayedResult, SessionTimesOut, HookIgnores,
              HoldEnds, RivalBooks, RivalLeaves
<1>4. CASE CancelRead \/ CancelStep \/ CancelPlain
  <2>1. CASE CancelUnpaid \/ CancelRefunded \/ CancelPlain
    <3>1. booking # "none"
      BY <2>1 DEF CancelUnpaid, CancelRefunded, CancelPlain, Cancellable, StripeInv, BookingFirst
    <3> QED
      BY <2>1, <3>1 DEF CancelUnpaid, CancelRefunded, CancelPlain
  <2>2. CASE CancelRead \/ CancelLooks \/ CancelExpires \/ RefundAsked \/ RefundPaid \/ CancelDies
    BY <2>2 DEF CancelRead, CancelLooks, CancelExpires, RefundAsked, RefundPaid, CancelDies
  <2> QED
    BY <1>4, <2>1, <2>2 DEF CancelStep
<1> QED
  BY <1>1, <1>2, <1>3, <1>4 DEF Next

(* The calendar around the booking changes only by steps of its own.       *)
LEMMA RivalKinds ==
    ASSUME Next
    PROVE  \/ rival' = rival
           \/ \E x \in Rivals : RivalBooks(x) \/ RivalLeaves(x)
BY DEF Next, RequestStep, CheckoutInsert, CheckoutLookup, CheckoutPay, SessionCreated,
       SessionRefused, BetaConfirm, Abort, StripeStep, RenterPays, RenterFails, DelayedResult,
       SessionTimesOut, HookStep, HookRead, HookWrite, HookConfirms, HookReleases,
       HookRefunds, HookCommits, HookDropped, HookIgnores, HoldEnds, CancelRead, CancelStep, CancelLooks, CancelExpires, CancelUnpaid, RefundAsked,
         RefundPaid, CancelRefunded, CancelDies, CancelPlain

(* The two columns of the mapping after a step.                            *)
LEMMA SlotsNext ==
    /\ This \in Reservations /\ slots[This] = SlotOfThis /\ slots'[This] = SlotOfThis'
    /\ \A x \in Rivals : /\ x \in Reservations /\ x # This
                         /\ slots[x] = rival[x] /\ slots'[x] = rival'[x]
BY StripeAssumption DEF slots, SlotOf, Reservations

(* A change of one row that leaves the others alone is one of its slot.    *)
LEMMA OneSlot ==
    ASSUME NEW b \in Reservations,
           \A c \in Reservations \ {b} : slots'[c] = slots[c]
    PROVE  slots' = [slots EXCEPT ![b] = slots'[b]]
BY DEF slots

(* Whatever happens to the booking holds, sells or releases its slot, for  *)
(* good, or leaves the ledger as it was; a late confirmation resells it.   *)
LEMMA LedgerStep ==
    ASSUME StripeInv, [Next]_vars
    PROVE  [Ledger!SlotNext \/ (LateConfirmation /\ Ledger!Resell(This))]_slots
<1> USE DEF Ledger!SlotNext
<1>1. ASSUME rival' = rival, NEW v \in {"free", "held", "sold", "released"},
             SlotOfThis' = v
      PROVE  slots' = [slots EXCEPT ![This] = v]
  <2>1. \A c \in Reservations \ {This} : slots'[c] = slots[c]
    BY <1>1, SlotsNext DEF Reservations
  <2> QED
    BY <1>1, <2>1, OneSlot, SlotsNext
<1>2. ASSUME rival' = rival, SlotOfThis' = SlotOfThis PROVE slots' = slots
  BY <1>2 DEF slots, SlotOf
<1>3. CASE UNCHANGED vars
  BY <1>2, <1>3 DEF vars, SlotOfThis
<1>4. CASE Next /\ rival' = rival
  <2>0. ~Occupied => \A c \in Reservations \ {This} : slots[c] \notin {"held", "sold"}
    BY SlotsNext DEF Occupied, Reservations, StripeInv, TypeOK
  <2>1. CASE booking' = booking
    BY <1>2, <1>4, <2>1 DEF SlotOfThis
  <2>2. CASE Inserted
    <3>1. slots' = [slots EXCEPT ![This] = "held"] /\ slots[This] = "free"
      BY <1>1, <1>4, <2>2, SlotsNext DEF Inserted, SlotOfThis
    <3> QED
      BY <2>0, <2>2, <3>1, SlotsNext DEF Inserted, Ledger!Hold, Ledger!Taken, slots
  <2>3. CASE Sold
    <3>1. slots' = [slots EXCEPT ![This] = "sold"] /\ slots[This] = "held"
      BY <1>1, <1>4, <2>3, SlotsNext DEF Sold, SlotOfThis
    <3> QED
      BY <3>1, SlotsNext DEF Ledger!Sell, slots
  <2>4. CASE SoldLate
    <3>1. booking \in {"confirmed", "cancelled", "expired"} /\ booking' = "confirmed"
      BY <2>4 DEF SoldLate, StripeInv, TypeOK, BookingStatus
    <3>2. CASE booking = "confirmed"
      BY <1>2, <1>4, <3>1, <3>2 DEF SlotOfThis
    <3>3. CASE booking # "confirmed"
      <4>1. slots' = [slots EXCEPT ![This] = "sold"] /\ slots[This] = "released"
        BY <1>1, <1>4, <3>1, <3>3, SlotsNext DEF SlotOfThis
      <4> QED
        BY <2>0, <2>4, <4>1, SlotsNext DEF SoldLate, Ledger!Resell, Ledger!Taken, slots
    <3> QED
      BY <3>2, <3>3
  <2>5. CASE Closed
    <3>1. /\ booking # "none" /\ booking' \in {"cancelled", "expired"}
          /\ booking \in BookingStatus
      BY <2>5 DEF Closed, StripeInv, TypeOK
    <3>2. slots' = [slots EXCEPT ![This] = "released"]
      BY <1>1, <1>4, <3>1 DEF SlotOfThis
    <3>3. CASE booking \in {"cancelled", "expired"}
      BY <1>2, <1>4, <3>1, <3>3 DEF SlotOfThis
    <3>4. CASE booking \in Active
      <4>1. slots[This] \in {"held", "sold"}
        BY <3>4, SlotsNext DEF Active, SlotOfThis
      <4> QED
        BY <3>2, <4>1, SlotsNext DEF Ledger!Release, Ledger!Taken, slots
    <3> QED
      BY <3>1, <3>3, <3>4 DEF BookingStatus, Active
  <2> QED
    BY <1>4, <2>1, <2>2, <2>3, <2>4, <2>5, BookingKinds
<1>5. ASSUME NEW x \in Rivals, RivalBooks(x) \/ RivalLeaves(x), NEW v,
             rival' = [rival EXCEPT ![x] = v]
      PROVE  slots' = [slots EXCEPT ![x] = v]
  <2>1. rival \in [Rivals -> {"free", "held", "released"}]
    BY DEF StripeInv, TypeOK
  <2>2. SlotOfThis' = SlotOfThis
    BY <1>5 DEF RivalBooks, RivalLeaves, booked, SlotOfThis
  <2>3. \A c \in Reservations \ {x} : slots'[c] = slots[c]
    BY <1>5, <2>1, <2>2, SlotsNext DEF Reservations
  <2>4. slots'[x] = v
    BY <1>5, <2>1, SlotsNext
  <2> QED
    BY <2>3, <2>4, OneSlot, SlotsNext
<1>6. ASSUME NEW x \in Rivals, RivalBooks(x) PROVE Ledger!Hold(x)
  <2>1. slots' = [slots EXCEPT ![x] = "held"] /\ slots[x] = "free"
    BY <1>5, <1>6, SlotsNext DEF RivalBooks
  <2>2. booking \in BookingStatus \ Active /\ ~Occupied
    BY <1>6 DEF RivalBooks, ConstraintAllows, StripeInv, TypeOK
  <2>3. slots[This] \notin {"held", "sold"}
    BY <2>2, SlotsNext DEF SlotOfThis, BookingStatus, Active
  <2>4. \A c \in Rivals : slots[c] \notin {"held", "sold"}
    BY <2>2, SlotsNext DEF Occupied, StripeInv, TypeOK
  <2> QED
    BY <2>1, <2>3, <2>4, SlotsNext DEF Ledger!Hold, Ledger!Taken, Reservations, slots
<1>7. ASSUME NEW x \in Rivals, RivalLeaves(x) PROVE Ledger!Release(x)
  BY <1>5, <1>7, SlotsNext DEF RivalLeaves, Ledger!Release, Ledger!Taken, slots
<1> QED
  BY <1>3, <1>4, <1>6, <1>7, RivalKinds, SlotsNext

(* The bookings of a window paid through Stripe implement SlotLedger, as   *)
(* those paid directly do: a step on this booking or on a rival is a step  *)
(* of the ledger on one reservation, or leaves the ledger as it was.  The  *)
(* only other step is named: a confirmation that read the booking before   *)
(* it ended takes the slot again, and only if nobody else has it.          *)
THEOREM StripeLedgerImplemented == Spec => ImplementsLedger
<1>1. Init => Ledger!SlotInit
  BY StripeAssumption DEF Init, Ledger!SlotInit, slots, SlotOf, SlotOfThis, Reservations
<1>2. StripeInv /\ [Next]_vars
          => [Ledger!SlotNext \/ (LateConfirmation /\ Ledger!Resell(This))]_slots
  BY LedgerStep
<1> QED
  BY <1>1, <1>2, StripeInvariant, PTL DEF Spec, ImplementsLedger

(* Only a cancellation or a refund ends a confirmed booking: a late event  *)
(* of another session and a failing retry leave it alone, unless they read *)
(* it before it was confirmed and commit after.                            *)
THEOREM ConfirmationStands == Spec => ConfirmedOnlyCancelled
<1>1. StripeInv /\ [Next]_vars =>
        [booking = "confirmed" => booking' \in {"confirmed", "cancelled"} \/ LateRelease]_vars
  BY BookingKinds
<1> QED
  BY <1>1, StripeInvariant, PTL DEF Spec, ConfirmedOnlyCancelled

-------------------------------------------------------------------------------
(* What holds until a webhook writes over a row that has changed since the *)
(* delivery read it, whatever checkouts and cancellations overwrite.       *)

(* The history only grows.                                                 *)
LEMMA LateGrows ==
    ASSUME Next
    PROVE  late \subseteq late'
BY DEF Late, Next, RequestStep, CheckoutInsert, CheckoutLookup, CheckoutPay, SessionCreated,
       SessionRefused, BetaConfirm, Abort, StripeStep, RenterPays, RenterFails, DelayedResult,
       SessionTimesOut, HookStep, HookRead, HookWrite, HookConfirms, HookReleases,
       HookRefunds, HookCommits, HookDropped, HookIgnores, HoldEnds, RivalBooks,
       RivalLeaves, CancelRead, CancelStep, CancelLooks, CancelExpires, CancelUnpaid,
       RefundAsked, RefundPaid, CancelRefunded, CancelDies, CancelPlain

(* A refund that is being delivered is the refund of the stored intent.    *)
RefundsCurrent ==
    \A h \in Hooks : hook[h] # NoHook /\ Refunds(hook[h].e.type) => hook[h].e.s = intent

(* An intent is stored with the confirmation, after which the booking is   *)
(* never pending again.                                                    *)
ChargedOnce == intent # 0 => booking \notin {"none", "pending"}

FreshInv == "delivery" \notin late => RefundsCurrent /\ ChargedOnce /\ RefundIsReal

(* What a step does to the two rows.                                       *)
Begun == /\ booking = "none" /\ booking' = "pending"
         /\ UNCHANGED <<access, pay, intent>>
Rewritten == /\ pay' \in {pay, "pending", "checkout_created"}
             /\ UNCHANGED <<booking, intent>>
Finished == /\ booking # "none" /\ booking' \in {"expired", "cancelled"}
            /\ \/ pay' \in {pay, "failed", "expired", "cancelled"}
               \/ pay' = "refunded" /\ intent \in refunds
            /\ intent' = intent
SoldInBeta == /\ mode = "beta" /\ booking # "none" /\ booking' = "confirmed"
              /\ pay' \in {pay, "paid"} /\ intent' = intent
SoldByHook == /\ booking = "pending" /\ booking' = "confirmed"
              /\ pay' = "paid" /\ intent' # 0
RefundRecorded == /\ pay' \in {"refunded", "refund_pending"}
                  /\ mode = "beta" \/ intent \in refunds'
                  /\ UNCHANGED <<booking, intent>>

SlotKind == \/ Begun \/ Rewritten \/ Finished \/ SoldInBeta \/ SoldByHook
            \/ RefundRecorded

(* A request inserts, rewrites the payment, closes the booking or, in beta *)
(* mode, confirms it.                                                      *)
LEMMA RequestSlots ==
    ASSUME StripeInv, NEW r \in Requests, RequestStep(r)
    PROVE  Begun \/ Rewritten \/ Finished \/ SoldInBeta
<1> USE DEF booked, ledger, external
<1>0. req[r] # Idle => booking # "none"
  BY DEF StripeInv, BookingFirst
<1>1. CASE CheckoutInsert(r)
  BY <1>1 DEF CheckoutInsert, Begun
<1>2. CASE CheckoutLookup(r) \/ Abort(r)
  BY <1>2 DEF CheckoutLookup, Abort, Rewritten
<1>3. CASE CheckoutPay(r) \/ SessionCreated(r)
  BY <1>3 DEF CheckoutPay, SessionCreated, Flush, Rewritten
<1>4. CASE SessionRefused(r)
  BY <1>0, <1>4 DEF SessionRefused, Flush, Idle, Finished
<1>5. CASE BetaConfirm(r)
  BY <1>0, <1>5 DEF BetaConfirm, Flush, Idle, SoldInBeta
<1> QED
  BY <1>1, <1>2, <1>3, <1>4, <1>5 DEF RequestStep

(* A delivery confirms or closes a pending booking, or closes the booking  *)
(* with the refund of the stored intent.                                   *)
LEMMA DeliverySlots ==
    ASSUME StripeInv, RefundsCurrent, "delivery" \notin late',
           NEW h \in Hooks, HookStep(h)
    PROVE  Rewritten \/ SoldByHook \/ Finished
<1>1. CASE (\E e \in Events : HookRead(h, e)) \/ HookDropped(h)
  BY <1>1 DEF HookRead, HookDropped, booked, ledger, Rewritten
<1>2. CASE HookWrite(h)
  <2>1. /\ hook[h] # NoHook /\ hook[h].booking = booking /\ hook[h].pay = pay
        /\ hook[h].e \in events /\ booking # "none"
    BY <1>2 DEF HookWrite, HookConfirms, HookReleases, HookRefunds, HookCommits, Late,
                StripeInv, DeliveriesAreEvents, BookingFirst
  <2>2. CASE HookConfirms(h)
    <3>1. intent' # 0
      BY <2>2, ConfirmsCharged
    <3>2. booking = "pending"
      BY <2>1, <2>2 DEF HookConfirms, StripeInv, ReadsPending
    <3> QED
      BY <2>1, <2>2, <3>1, <3>2 DEF HookConfirms, Flush, SoldByHook
  <2>3. CASE HookReleases(h)
    BY <2>1, <2>3 DEF HookReleases, Flush, Finished
  <2>4. CASE HookRefunds(h)
    <3>1. intent \in refunds
      BY <2>1, <2>4 DEF HookRefunds, Refunds, RefundsCurrent, StripeInv, EventsAreTrue
    <3> QED
      BY <2>1, <2>4, <3>1 DEF HookRefunds, BookingAfterRefund, Flush, Finished
  <2> QED
    BY <1>2, <2>2, <2>3, <2>4 DEF HookWrite
<1> QED
  BY <1>1, <1>2 DEF HookStep

(* A cancellation closes the booking or records what Stripe has refunded.  *)
LEMMA CancelSlots ==
    ASSUME StripeInv, CancelRead \/ CancelStep \/ CancelPlain
    PROVE  Rewritten \/ Finished \/ RefundRecorded
<1>1. cancel.pc # "idle" => booking # "none"
  BY DEF StripeInv, BookingFirst
<1>2. CASE CancelUnpaid
  BY <1>1, <1>2 DEF CancelUnpaid, AfterCancel, Flush, Finished
<1>3. CASE RefundPaid
  BY <1>3 DEF RefundPaid, RefundRecorded, StripeInv, CancelSees, booked, external
<1>4. CASE CancelRefunded \/ CancelPlain
  BY <1>1, <1>4 DEF CancelRefunded, CancelPlain, Cancellable, ledger, Finished
<1>5. CASE CancelRead \/ CancelLooks \/ CancelExpires \/ RefundAsked \/ CancelDies
  BY <1>5 DEF CancelRead, CancelLooks, CancelExpires, RefundAsked, CancelDies, booked, ledger,
              Rewritten
<1> QED
  BY <1>2, <1>3, <1>4, <1>5 DEF CancelStep

(* Every step is of one of these kinds.                                    *)
LEMMA StepSlots ==
    ASSUME StripeInv, RefundsCurrent, "delivery" \notin late', Next
    PROVE  SlotKind
<1> USE DEF SlotKind
<1>1. CASE \E r \in Requests : RequestStep(r)
  BY <1>1, RequestSlots
<1>2. CASE \E h \in Hooks : HookStep(h)
  BY <1>2, DeliverySlots
<1>3. CASE \/ \E s \in Sessions : StripeStep(s)
           \/ \E e \in Events : HookIgnores(e)
           \/ HoldEnds \/ \E x \in Rivals : RivalBooks(x) \/ RivalLeaves(x)
  BY <1>3 DEF StripeStep, RenterPays, RenterFails, DelayedResult, SessionTimesOut, HookIgnores,
              HoldEnds, RivalBooks, RivalLeaves, booked, ledger, Rewritten
<1>4. CASE CancelRead \/ CancelStep \/ CancelPlain
  BY <1>4, CancelSlots
<1> QED
  BY <1>1, <1>2, <1>3, <1>4 DEF Next

(* The invariant is inductive: a delivery that writes over a changed row   *)
(* enters itself in the history.                                           *)
LEMMA FreshInvStep ==
    ASSUME StripeInv, FreshInv, [Next]_vars
    PROVE  FreshInv'
<1>1. CASE UNCHANGED vars
  BY <1>1 DEF vars, FreshInv, RefundsCurrent, ChargedOnce, RefundIsReal
<1>2. CASE Next
  <2> SUFFICES ASSUME "delivery" \notin late'
               PROVE  RefundsCurrent' /\ ChargedOnce' /\ RefundIsReal'
    BY DEF FreshInv
  <2> USE DEF SlotKind, Begun, Rewritten, Finished, SoldInBeta, SoldByHook, RefundRecorded
  <2>0. "delivery" \notin late /\ RefundsCurrent /\ ChargedOnce /\ RefundIsReal
    BY <1>2, LateGrows DEF FreshInv
  <2>1. SlotKind /\ mode' = mode /\ refunds \subseteq refunds'
    BY <1>2, <2>0, StepSlots, RowSteps, StripeHistory
  <2>2. ASSUME NEW h \in Hooks, hook'[h] # NoHook
        PROVE  \/ hook'[h] = hook[h] /\ hook[h] # NoHook
               \/ \E e \in Events : HookRead(h, e)
    BY <1>2, <2>2, HookKinds DEF StripeInv
  <2>3. RefundsCurrent'
    <3> SUFFICES ASSUME NEW h \in Hooks, hook'[h] # NoHook, Refunds(hook'[h].e.type)
                 PROVE  hook'[h].e.s = intent'
      BY DEF RefundsCurrent, NoHook, Refunds
    <3>1. CASE hook'[h] = hook[h] /\ hook[h] # NoHook
      <4>1. intent = hook[h].e.s /\ intent # 0
        BY <2>0, <3>1, DeliveryFacts, StripeAssumption DEF RefundsCurrent, StripeInv, Sessions
      <4>2. booking # "pending"
        BY <2>0, <4>1 DEF ChargedOnce
      <4> QED
        BY <2>1, <3>1, <4>1, <4>2
    <3>2. CASE \E e \in Events : HookRead(h, e)
      BY <3>2 DEF HookRead, Matches, Refunds, StripeInv, TypeOK, ledger
    <3> QED
      BY <2>2, <3>1, <3>2
  <2>4. ChargedOnce'
    BY <2>0, <2>1 DEF ChargedOnce
  <2>5. RefundIsReal'
    BY <2>0, <2>1 DEF RefundIsReal
  <2> QED
    BY <2>3, <2>4, <2>5
<1> QED
  BY <1>1, <1>2

(* Nothing is being delivered, and no intent stored, to begin with.        *)
LEMMA FreshInvInit == Init => FreshInv
BY DEF Init, FreshInv, RefundsCurrent, ChargedOnce, RefundIsReal

(* What the ledger calls refunded is refunded at Stripe: the event of a    *)
(* refund finds the intent it was about.  Checkouts and cancellations may  *)
(* write over whatever they like; only a delivery that does can break it.  *)
THEOREM RefundsAreReal == Spec => []RefundIsReal
<1>1. Init => StripeInv /\ FreshInv
  BY StripeInvInit, FreshInvInit
<1>2. StripeInv /\ FreshInv /\ [Next]_vars => StripeInv' /\ FreshInv'
  BY StripeInvStep, FreshInvStep
<1>3. FreshInv => RefundIsReal
  BY DEF FreshInv, RefundIsReal
<1> QED
  BY <1>1, <1>2, <1>3, PTL DEF Spec

-------------------------------------------------------------------------------
(* What holds until a request or a delivery writes from a row that has     *)
(* changed since it was read, whatever the cancellation writes over.       *)

(* A delivery has read codes exactly with a confirmed booking.             *)
CodesRead == \A h \in Hooks : hook[h] # NoHook =>
                 (hook[h].access = TRUE <=> hook[h].booking = "confirmed")

CodesFit == access = TRUE <=> booking = "confirmed"

(* No request goes on with a payment it has read as received.              *)
NeverRetriesPaid == \A r \in Requests : req[r] # Idle => req[r].pay # "paid"

(* Who cancels a payment it has read as received has read the codes too.   *)
PaidHasCodes == cancel.pc # "idle" /\ cancel.pay = "paid" => cancel.access = TRUE

CalmInv == late = {} => /\ CodesRead /\ CodesFit /\ NeverRetriesPaid /\ PaidHasCodes
                        /\ PaidIsHonoured

AgreeInv == StripeInv /\ FreshInv /\ CalmInv

(* What a step does to the two rows and the codes, closer than SlotKind.   *)
Retried == /\ pay # "paid" /\ pay' \in {"pending", "checkout_created"}
           /\ UNCHANGED <<booking, access, intent>>
Ended == /\ booking = "pending" /\ booking' = "expired" /\ pay' \in {"failed", "expired"}
         /\ UNCHANGED <<access, intent>>
ConfirmedInBeta == /\ mode = "beta" /\ booking = "pending" /\ booking' = "confirmed"
                   /\ access' = TRUE /\ pay' = "paid" /\ intent' = intent
ConfirmedByHook == /\ booking = "pending" /\ booking' = "confirmed" /\ access' = TRUE
                   /\ pay' = "paid" /\ intent' # 0
RefundedByHook == /\ pay' = "refunded" /\ booking # "none" /\ booking' = "cancelled"
                  /\ access' = FALSE /\ intent \in refunds /\ intent' = intent
Cancelled == /\ booking # "none" /\ booking' = "cancelled" /\ access' = FALSE
             /\ pay' \in {pay, "cancelled"} /\ intent' = intent
RefundedByCancel == /\ pay' \in {"refunded", "refund_pending"}
                    /\ mode = "beta" \/ intent \in refunds'
                    /\ UNCHANGED <<booking, access, intent>>

RowKind == \/ UNCHANGED <<booking, access, pay, intent>>
           \/ Begun \/ Retried \/ Ended \/ ConfirmedInBeta \/ ConfirmedByHook
           \/ RefundedByHook \/ Cancelled \/ RefundedByCancel

(* A request whose rows are as it read them inserts, retries a payment that*)
(* is not received, ends a pending booking or confirms it in beta mode.    *)
LEMMA RequestKinds ==
    ASSUME NeverRetriesPaid, late' = {}, NEW r \in Requests, RequestStep(r)
    PROVE  \/ UNCHANGED <<booking, access, pay, intent>>
           \/ Begun \/ Retried \/ Ended \/ ConfirmedInBeta
<1> USE DEF booked, ledger, external, Late
<1>0. req[r] # Idle => req[r].pay # "paid"
  BY DEF NeverRetriesPaid
<1>1. CASE CheckoutInsert(r)
  BY <1>1 DEF CheckoutInsert, Begun
<1>2. CASE CheckoutLookup(r) \/ Abort(r)
  BY <1>2 DEF CheckoutLookup, Abort
<1>3. CASE CheckoutPay(r)
  BY <1>0, <1>3 DEF CheckoutPay, Flush, Idle, Retried
<1>4. CASE SessionCreated(r)
  BY <1>0, <1>4 DEF SessionCreated, Flush, Idle, Retried
<1>5. CASE SessionRefused(r)
  BY <1>5 DEF SessionRefused, Changed, Flush, Expirable, Ended
<1>6. CASE BetaConfirm(r)
  BY <1>6 DEF BetaConfirm, Changed, Flush, ConfirmedInBeta
<1> QED
  BY <1>1, <1>2, <1>3, <1>4, <1>5, <1>6 DEF RequestStep

(* A delivery whose rows are as it read them confirms or ends a pending    *)
(* booking, or cancels with the refund of the stored intent.               *)
LEMMA DeliveryKinds ==
    ASSUME StripeInv, RefundsCurrent, CodesRead, CodesFit, late' = {},
           NEW h \in Hooks, HookStep(h)
    PROVE  \/ UNCHANGED <<booking, access, pay, intent>>
           \/ ConfirmedByHook \/ Ended \/ RefundedByHook
<1>1. CASE (\E e \in Events : HookRead(h, e)) \/ HookDropped(h)
  BY <1>1 DEF HookRead, HookDropped, booked, ledger
<1>2. CASE HookWrite(h)
  <2>1. /\ hook[h] # NoHook /\ hook[h].booking = booking /\ hook[h].pay = pay
        /\ hook[h].e \in events /\ booking # "none"
    BY <1>2 DEF HookWrite, HookConfirms, HookReleases, HookRefunds, HookCommits, Late,
                StripeInv, DeliveriesAreEvents, BookingFirst
  <2>2. access \in BOOLEAN /\ hook[h].access \in BOOLEAN
    BY <2>1, DeliveryFacts DEF StripeInv, TypeOK
  <2>3. hook[h].access = access
    BY <2>1, <2>2 DEF CodesRead, CodesFit
  <2>4. CASE HookConfirms(h)
    <3>1. intent' # 0
      BY <2>4, ConfirmsCharged
    <3>2. booking = "pending"
      BY <2>1, <2>4 DEF HookConfirms, StripeInv, ReadsPending
    <3> QED
      BY <2>1, <2>4, <3>1, <3>2 DEF HookConfirms, Flush, ConfirmedByHook
  <2>5. CASE HookReleases(h)
    <3>1. booking = "pending"
      BY <2>1, <2>5 DEF HookReleases, StripeInv, ReadsPending
    <3>2. access = FALSE
      BY <2>2, <3>1 DEF CodesFit
    <3> QED
      BY <2>1, <2>3, <2>5, <3>1, <3>2 DEF HookReleases, Flush, Ended
  <2>6. CASE HookRefunds(h)
    <3>1. intent \in refunds
      BY <2>1, <2>6 DEF HookRefunds, Refunds, RefundsCurrent, StripeInv, EventsAreTrue
    <3> QED
      BY <2>1, <2>3, <2>6, <3>1 DEF HookRefunds, BookingAfterRefund, Flush, RefundedByHook
  <2> QED
    BY <1>2, <2>4, <2>5, <2>6 DEF HookWrite
<1> QED
  BY <1>1, <1>2 DEF HookStep

(* A cancellation takes the codes with it, or records the refund of a      *)
(* payment that it has read as received.                                   *)
LEMMA CancelKinds ==
    ASSUME StripeInv, PaidHasCodes, CancelRead \/ CancelStep \/ CancelPlain
    PROVE  \/ UNCHANGED <<booking, access, pay, intent>>
           \/ Cancelled \/ RefundedByCancel
<1> USE DEF booked, ledger, external, Late
<1>1. /\ cancel.pc # "idle" => booking # "none"
      /\ access \in BOOLEAN /\ cancel.access \in BOOLEAN
  BY DEF StripeInv, BookingFirst, TypeOK
<1>2. CASE CancelUnpaid
  <2>1. cancel.access = access
    BY <1>2 DEF CancelUnpaid, StripeInv, CancelSees, Locked
  <2> QED
    BY <1>1, <1>2, <2>1 DEF CancelUnpaid, AfterCancel, CodesCleared, Flush, Cancelled
<1>3. CASE RefundPaid
  BY <1>3 DEF RefundPaid, RefundedByCancel, StripeInv, CancelSees
<1>4. CASE CancelRefunded \/ CancelPlain
  <2>1. CancelRefunded => cancel.access = TRUE
    BY DEF CancelRefunded, PaidHasCodes, StripeInv, CancelSees
  <2> QED
    BY <1>1, <1>4, <2>1 DEF CancelRefunded, CancelPlain, Cancellable, CodesCleared, Flush, Cancelled
<1>5. CASE CancelRead \/ CancelLooks \/ CancelExpires \/ RefundAsked \/ CancelDies
  BY <1>5 DEF CancelRead, CancelLooks, CancelExpires, RefundAsked, CancelDies
<1> QED
  BY <1>2, <1>3, <1>4, <1>5 DEF CancelStep

(* Every step is of one of these kinds.                                    *)
LEMMA StepKinds ==
    ASSUME StripeInv, RefundsCurrent, CodesRead, CodesFit, NeverRetriesPaid, PaidHasCodes,
           late' = {}, Next
    PROVE  RowKind
<1> USE DEF RowKind
<1>1. CASE \E r \in Requests : RequestStep(r)
  BY <1>1, RequestKinds
<1>2. CASE \E h \in Hooks : HookStep(h)
  BY <1>2, DeliveryKinds
<1>3. CASE \/ \E s \in Sessions : StripeStep(s)
           \/ \E e \in Events : HookIgnores(e)
           \/ HoldEnds \/ \E x \in Rivals : RivalBooks(x) \/ RivalLeaves(x)
  BY <1>3 DEF StripeStep, RenterPays, RenterFails, DelayedResult, SessionTimesOut, HookIgnores,
              HoldEnds, RivalBooks, RivalLeaves, booked, ledger
<1>4. CASE CancelRead \/ CancelStep \/ CancelPlain
  BY <1>4, CancelKinds
<1> QED
  BY <1>1, <1>2, <1>3, <1>4 DEF Next

(* A request that goes on keeps what it read, or has just read a payment   *)
(* that is not received.                                                   *)
LEMMA NeverRetriesPaidStep ==
    ASSUME StripeInv, NeverRetriesPaid, late' = {}, Next
    PROVE  NeverRetriesPaid'
<1> SUFFICES ASSUME NEW q \in Requests, req'[q] # Idle
             PROVE  req'[q].pay # "paid"
  BY DEF NeverRetriesPaid, Idle
<1>1. req[q] # Idle => req[q].pay # "paid"
  BY DEF NeverRetriesPaid
<1>2. req \in [Requests -> [pc : {"idle", "pay", "session"}, seen : BookingStatus,
                         pay : PaymentStatus]]
  BY DEF StripeInv, TypeOK
<1>3. ASSUME NEW r \in Requests, RequestStep(r) PROVE req'[q].pay # "paid"
  <2>1. CASE CheckoutInsert(r) \/ CheckoutLookup(r)
    BY <1>1, <1>2, <2>1 DEF CheckoutInsert, CheckoutLookup, Reusable
  <2>2. CASE CheckoutPay(r)
    <3>1. pay' # "paid"
      <4>1. req[r].pay = pay /\ req[r].pay # "paid"
        BY <2>2 DEF CheckoutPay, Late, Idle, NeverRetriesPaid
      <4> QED
        BY <2>2, <4>1 DEF CheckoutPay, Flush
    <3> QED
      BY <1>1, <1>2, <2>2, <3>1 DEF CheckoutPay
  <2>3. CASE SessionCreated(r) \/ SessionRefused(r) \/ BetaConfirm(r) \/ Abort(r)
    BY <1>1, <1>2, <2>3 DEF SessionCreated, SessionRefused, BetaConfirm, Abort
  <2> QED
    BY <1>3, <2>1, <2>2, <2>3 DEF RequestStep
<1>4. CASE req' = req
  BY <1>1, <1>4
<1> QED
  BY <1>3, <1>4
     DEF Next, StripeStep, RenterPays, RenterFails, DelayedResult, SessionTimesOut, HookStep,
         HookRead, HookWrite, HookConfirms, HookReleases, HookRefunds, HookCommits,
         HookDropped, HookIgnores, HoldEnds, RivalBooks, RivalLeaves, CancelRead, CancelStep,
         CancelLooks, CancelExpires, CancelUnpaid, RefundAsked, RefundPaid, CancelRefunded,
         CancelDies, CancelPlain

(* A payment that is received belongs to a confirmed booking, unless it is *)
(* cancelled already.                                                      *)
LEMMA PaidHasCodesStep ==
    ASSUME StripeInv, CodesFit, PaidIsHonoured, PaidHasCodes, late = {}, Next
    PROVE  PaidHasCodes'
<1>1. CASE cancel' = cancel
  BY <1>1 DEF PaidHasCodes
<1>2. CASE CancelRead
  BY <1>2 DEF CancelRead, Cancellable, CodesFit, PaidIsHonoured, PaidHasCodes
<1>3. CASE CancelLooks \/ CancelExpires \/ RefundAsked \/ RefundPaid
  <2>1. cancel'.pay = cancel.pay /\ cancel'.access = cancel.access /\ cancel.pc # "idle"
    BY <1>3 DEF CancelLooks, CancelExpires, RefundAsked, RefundPaid, CancelGoesOn, StripeInv,
                TypeOK
  <2> QED
    BY <2>1 DEF PaidHasCodes
<1>4. CASE CancelUnpaid \/ CancelRefunded \/ CancelDies
  BY <1>4 DEF CancelUnpaid, CancelRefunded, CancelDies, NoCancel, PaidHasCodes
<1> QED
  BY <1>1, <1>2, <1>3, <1>4
     DEF Next, RequestStep, CheckoutInsert, CheckoutLookup, CheckoutPay, SessionCreated,
         SessionRefused, BetaConfirm, Abort, StripeStep, RenterPays, RenterFails,
         DelayedResult, SessionTimesOut, HookStep, HookRead, HookWrite, HookConfirms,
         HookReleases, HookRefunds, HookCommits, HookDropped, HookIgnores, HoldEnds,
         RivalBooks, RivalLeaves, CancelStep, CancelPlain

(* The invariant is inductive: a stale write enters itself in the history. *)
LEMMA CalmInvStep ==
    ASSUME AgreeInv, [Next]_vars
    PROVE  CalmInv'
<1> USE DEF AgreeInv
<1>1. CASE UNCHANGED vars
  BY <1>1 DEF vars, CalmInv, CodesRead, CodesFit, NeverRetriesPaid, PaidHasCodes,
              PaidIsHonoured
<1>2. CASE Next
  <2> SUFFICES ASSUME late' = {}
               PROVE  /\ CodesRead' /\ CodesFit' /\ NeverRetriesPaid' /\ PaidHasCodes'
                      /\ PaidIsHonoured'
    BY DEF CalmInv
  <2>0. /\ late = {} /\ RefundsCurrent /\ RefundIsReal
        /\ CodesRead /\ CodesFit /\ NeverRetriesPaid /\ PaidHasCodes /\ PaidIsHonoured
    BY <1>2, LateGrows DEF FreshInv, CalmInv
  <2>1. RowKind /\ mode' = mode /\ refunds \subseteq refunds'
    BY <1>2, <2>0, StepKinds, RowSteps, StripeHistory
  <2>2. CodesRead'
    <3> SUFFICES ASSUME NEW h \in Hooks, hook'[h] # NoHook
                 PROVE  hook'[h].access = TRUE <=> hook'[h].booking = "confirmed"
      BY DEF CodesRead, NoHook
    <3>1. CASE hook'[h] = hook[h]
      BY <2>0, <3>1 DEF CodesRead
    <3>2. CASE \E e \in Events : HookRead(h, e)
      BY <2>0, <3>2 DEF HookRead, CodesFit, StripeInv, TypeOK
    <3> QED
      BY <1>2, <3>1, <3>2, HookKinds DEF StripeInv
  <2>3. CodesFit'
    BY <2>0, <2>1 DEF CodesFit, RowKind, Begun, Retried, Ended, ConfirmedInBeta,
                      ConfirmedByHook, RefundedByHook, Cancelled, RefundedByCancel
  <2>4. NeverRetriesPaid'
    BY <1>2, <2>0, NeverRetriesPaidStep
  <2>5. PaidIsHonoured'
    BY <2>0, <2>1 DEF PaidIsHonoured, RefundIsReal, RowKind, Begun, Retried, Ended,
                      ConfirmedInBeta, ConfirmedByHook, RefundedByHook, Cancelled,
                      RefundedByCancel
  <2>6. PaidHasCodes'
    BY <1>2, <2>0, PaidHasCodesStep
  <2> QED
    BY <2>2, <2>3, <2>4, <2>5, <2>6
<1> QED
  BY <1>1, <1>2

(* All three layers, for every step of every handler.                      *)
LEMMA AgreeInvariant == Spec => []AgreeInv
<1>1. Init => AgreeInv
  BY StripeInvInit, FreshInvInit
     DEF Init, AgreeInv, CalmInv, CodesRead, CodesFit, NeverRetriesPaid, PaidHasCodes,
         PaidIsHonoured, NoCancel
<1>2. AgreeInv /\ [Next]_vars => AgreeInv'
  BY StripeInvStep, FreshInvStep, CalmInvStep DEF AgreeInv
<1> QED
  BY <1>1, <1>2, PTL DEF Spec

(* The rows agree: received money belongs to a booking that stands or was  *)
(* cancelled, and a booking that stands is paid or its charge refunded,    *)
(* until a checkout or a delivery writes from a row that has changed under *)
(* it; a cancellation may.                                                 *)
THEOREM PaymentsAreHonoured == Spec => []PaidIsHonoured
<1>1. AgreeInv => PaidIsHonoured
  BY DEF AgreeInv, CalmInv, PaidIsHonoured
<1> QED
  BY <1>1, AgreeInvariant, PTL

(* Access code and pass go when the booking ends, whoever ends it, with the*)
(* same exception.                                                         *)
THEOREM CodesGoWithBooking == Spec => []CodesOnlyWhileConfirmed
<1>1. AgreeInv => CodesOnlyWhileConfirmed
  BY DEF AgreeInv, CalmInv, StripeInv, TypeOK, CodesFit, CodesOnlyWhileConfirmed
<1> QED
  BY <1>1, AgreeInvariant, PTL

===============================================================================
