-------------------------- MODULE DirectBookingProofs --------------------------
(***************************************************************************)
(* Proofs about DirectBooking for any set of bookings, any windows and any *)
(* number of concurrent requests, every batch of the worker, and requests  *)
(* on one booking that overlap as they like.                               *)
(***************************************************************************)
EXTENDS DirectBooking, TLAPS

(* A step of the bookings table: at most one row changes, and a row that   *)
(* appears has passed the exclusion constraint.                            *)
Opened(b) == /\ booking[b] = "none" /\ ConstraintAllows(b)
             /\ booking' = [booking EXCEPT ![b] = "pending"]
Confirmed(b) == /\ booking[b] \in Active
                /\ booking' = [booking EXCEPT ![b] = "confirmed"]
Closed(b) == /\ booking[b] # "none"
             /\ \E v \in Ended : booking' = [booking EXCEPT ![b] = v]
TableStep == \/ UNCHANGED booking
             \/ \E b \in Bookings : Opened(b) \/ Confirmed(b) \/ Closed(b)

(* Two windows overlap whichever of them is named first.                   *)
LEMMA OverlapsSymmetric ==
    ASSUME NEW b \in Bookings, NEW c \in Bookings, Overlaps(b, c)
    PROVE  Overlaps(c, b)
  BY DirectAssumption DEF Overlaps

(* Every step of the system keeps the types of its variables.              *)
LEMMA TypeStep == TypeOK /\ [Next]_vars => TypeOK'
  <1> SUFFICES ASSUME TypeOK, [Next]_vars PROVE TypeOK'
    OBVIOUS
  <1> USE DirectAssumption DEF TypeOK, BookingStatus, PaymentStatus, HostStates, Work, Idle
  <1>1. ASSUME NEW r \in Requests, NEW b \in Bookings, CheckoutLookup(r, b) PROVE TypeOK'
    BY <1>1 DEF CheckoutLookup, rows, worker
  <1>2. ASSUME NEW b \in Bookings, NEW seen \in BookingStatus, OpenPayment(b, seen)
        PROVE /\ booking' \in [Bookings -> BookingStatus]
              /\ access' \in [Bookings -> BOOLEAN]
              /\ payment' \in [Bookings -> PaymentStatus]
              /\ hold' \in [Bookings -> Nat]
              /\ due' \in [Bookings -> Nat \cup {NoDeadline}]
              /\ late' \subseteq Bookings
    <2>1. late' \in {late, late \cup {b}}
      BY <1>2 DEF OpenPayment
    <2>2. late' \subseteq Bookings
      BY <2>1
    <2> QED
      BY <1>2, <2>2 DEF OpenPayment, rows
  <1>3. ASSUME NEW r \in Requests, NEW b \in Bookings, CheckoutRetry(r, b) PROVE TypeOK'
    BY <1>3 DEF CheckoutRetry, rows, worker
  <1>4. ASSUME NEW r \in Requests, CheckoutInsert(r) PROVE TypeOK'
    BY <1>4 DEF CheckoutInsert, worker
  <1>5. ASSUME NEW r \in Requests, CheckoutPay(r) PROVE TypeOK'
    BY <1>2, <1>5 DEF CheckoutPay, worker
  <1>6. ASSUME NEW r \in Requests, Abort(r) PROVE TypeOK'
    BY <1>6 DEF Abort, rows, worker
  <1>7. ASSUME NEW r \in Requests, NEW b \in Bookings, SubmitReference(r, b) PROVE TypeOK'
    BY <1>7 DEF SubmitReference, worker
  <1>8. ASSUME NEW r \in Requests, SetDeadline(r) PROVE TypeOK'
    BY <1>8 DEF SetDeadline, worker
  <1>9. ASSUME NEW b \in Bookings, BookingStep(b) PROVE TypeOK'
    <2>1. CASE SubmitTooLate(b)
      BY <2>1 DEF SubmitTooLate, worker
    <2>2. CASE Confirm(b)
      BY <2>2 DEF Confirm, worker
    <2>3. CASE Reject(b)
      BY <2>3 DEF Reject, worker
    <2>4. CASE CompleteRefund(b)
      BY <2>4 DEF CompleteRefund, worker
    <2>5. AfterCancel(payment[b]) \in PaymentStatus
      BY DEF AfterCancel
    <2>6. CASE CancelWithPayment(b)
      BY <2>5, <2>6 DEF CancelWithPayment, MarkCancelled, CodesCleared, worker
    <2>7. CASE CancelPlain(b)
      BY <2>7 DEF CancelPlain, MarkCancelled, CodesCleared, worker
    <2>8. CASE WorkerExpire(b)
      BY <2>8 DEF WorkerExpire
    <2>9. QED
      BY <1>9, <2>1, <2>2, <2>3, <2>4, <2>6, <2>7, <2>8 DEF BookingStep
  <1>10. ASSUME NEW S \in SUBSET Bookings, WorkerSelect(S) PROVE TypeOK'
    BY <1>10 DEF WorkerSelect, rows
  <1>11. CASE WorkerCrash
    BY <1>11 DEF WorkerCrash, rows
  <1>12. ASSUME NEW s \in Spaces, SaveSettings(s) PROVE TypeOK'
    BY <1>12 DEF SaveSettings, rows, worker
  <1>13. CASE Tick
    BY <1>13 DEF Tick, Later, worker
  <1>14. CASE UNCHANGED vars
    BY <1>14 DEF vars
  <1>15. QED
    BY <1>1, <1>3, <1>4, <1>5, <1>6, <1>7, <1>8, <1>9, <1>10, <1>11, <1>12, <1>13, <1>14
       DEF Next, RequestStep

(* The initial states have the types of TypeOK.                            *)
LEMMA InitTypes == Init => TypeOK
  <1> SUFFICES ASSUME Init PROVE TypeOK
    OBVIOUS
  <1>1. req \in [Requests -> Work] /\ \A r \in Requests : req[r].pc = "idle"
    BY DEF Init, Idle, Work, BookingStatus
  <1>2. QED
    BY <1>1 DEF Init, TypeOK, BookingStatus, PaymentStatus, HostStates

(* Every reachable state has the types TypeOK states.                      *)
THEOREM TypeCorrect == Spec => []TypeOK
  BY InitTypes, TypeStep, PTL DEF Spec

-------------------------------------------------------------------------------
(* Each step changes the bookings table as TableStep says; an expiry by a  *)
(* request or by the worker is included, even on a stale reading, because  *)
(* the row it read still exists.                                           *)
LEMMA TableStepLemma == IInv /\ [Next]_vars => TableStep
  <1> SUFFICES ASSUME IInv, [Next]_vars PROVE TableStep
    OBVIOUS
  <1> USE DEF IInv, RowsExist, SnapshotSound, Ended, Expirable
  <1>1. ASSUME NEW b \in Bookings, NEW seen, OpenPayment(b, seen),
               booking[b] # "none"
        PROVE  TableStep
    BY <1>1 DEF OpenPayment, TableStep, Closed, rows
  <1>2. ASSUME NEW r \in Requests, NEW b \in Bookings, CheckoutRetry(r, b)
        PROVE  TableStep
    BY <1>2 DEF CheckoutRetry, TableStep, rows
  <1>3. ASSUME NEW r \in Requests, CheckoutInsert(r) PROVE TableStep
    <2>1. req[r].b \in Bookings
      BY <1>3 DEF CheckoutInsert, TypeOK
    <2>2. Opened(req[r].b)
      BY <1>3 DEF CheckoutInsert, Opened
    <2>3. QED
      BY <2>1, <2>2 DEF TableStep
  <1>4. ASSUME NEW r \in Requests, CheckoutPay(r) PROVE TableStep
    <2>1. req[r].b \in Bookings /\ booking[req[r].b] # "none"
      BY <1>4 DEF CheckoutPay, TypeOK
    <2>2. QED
      BY <1>1, <1>4, <2>1 DEF CheckoutPay
  <1>5. ASSUME NEW b \in Bookings, BookingStep(b) PROVE TableStep
    <2>1. CASE SubmitTooLate(b)
      BY <2>1 DEF SubmitTooLate, Submittable, TableStep, Closed
    <2>2. CASE Confirm(b)
      BY <2>2 DEF Confirm, Confirmable, TableStep, Confirmed, Active
    <2>3. CASE Reject(b)
      BY <2>3 DEF Reject, TableStep, Closed
    <2>4. CASE CompleteRefund(b)
      BY <2>4 DEF CompleteRefund, TableStep
    <2>5. CASE CancelWithPayment(b) \/ CancelPlain(b)
      BY <2>5 DEF CancelWithPayment, CancelPlain, MarkCancelled, TableStep, Closed
    <2>6. CASE WorkerExpire(b)
      BY <2>6 DEF WorkerExpire, TableStep, Closed
    <2>7. QED
      BY <1>5, <2>1, <2>2, <2>3, <2>4, <2>5, <2>6 DEF BookingStep
  <1>6. QED
    BY <1>2, <1>3, <1>4, <1>5
       DEF Next, RequestStep, TableStep, vars, rows, CheckoutLookup, SubmitReference,
           SetDeadline, Abort, WorkerSelect, WorkerCrash, SaveSettings, Tick

(* The exclusion constraint alone keeps active windows apart.              *)
LEMMA NoDoubleBookingStep ==
    ASSUME TypeOK, NoDoubleBooking, TableStep PROVE NoDoubleBooking'
  <1> USE DEF TypeOK, NoDoubleBooking, Active
  <1>1. ASSUME NEW o \in Bookings, Opened(o) PROVE NoDoubleBooking'
    <2> SUFFICES ASSUME NEW b \in Bookings, NEW c \in Bookings, b # c, Overlaps(b, c)
                 PROVE  ~(booking'[b] \in Active /\ booking'[c] \in Active)
      BY DEF Overlaps
    <2>1. Overlaps(c, b)
      BY OverlapsSymmetric
    <2>2. \A d \in Bookings \ {o} : Overlaps(o, d) => booking[d] \notin Active
      BY <1>1 DEF Opened, ConstraintAllows
    <2>3. \A d \in Bookings \ {o} : booking'[d] = booking[d]
      BY <1>1 DEF Opened
    <2>4. QED
      BY <2>1, <2>2, <2>3
  <1>2. ASSUME NEW o \in Bookings, Confirmed(o) PROVE NoDoubleBooking'
    BY <1>2 DEF Confirmed, Overlaps
  <1>3. ASSUME NEW o \in Bookings, Closed(o) PROVE NoDoubleBooking'
    BY <1>3 DEF Closed, Ended, Overlaps
  <1>4. CASE UNCHANGED booking
    BY <1>4 DEF Overlaps
  <1>5. QED
    BY <1>1, <1>2, <1>3, <1>4 DEF TableStep

(* Once a row exists it stays; once it is ended it stays ended, unless it  *)
(* was active before.                                                      *)
LEMMA TableFacts ==
    ASSUME TypeOK, TableStep
    PROVE  \A b \in Bookings : booking[b] # "none" => booking'[b] # "none"
  BY DEF TypeOK, TableStep, Opened, Confirmed, Closed, Ended, Active

(* The rest of the invariant: rows exist, the worker's batch is sound, and *)
(* only the host's confirmation makes a booking confirmed.                 *)
LEMMA RestStep == IInv /\ [Next]_vars => (ConfirmedIsPaid /\ RowsExist /\ SnapshotSound)'
  <1> SUFFICES ASSUME IInv, [Next]_vars
               PROVE  (ConfirmedIsPaid /\ RowsExist /\ SnapshotSound)'
    OBVIOUS
  <1> DEFINE Rest == ConfirmedIsPaid /\ RowsExist /\ SnapshotSound
  <1>t. TypeOK /\ TypeOK'
    BY TypeStep DEF IInv
  <1>a. \A b \in Bookings : booking[b] # "none" => booking'[b] # "none"
    BY TableStepLemma, TableFacts DEF IInv
  <1> USE DEF IInv, ConfirmedIsPaid, RowsExist, SnapshotSound, Ended, Expirable
  <1>1. ASSUME NEW b \in Bookings, NEW seen, OpenPayment(b, seen), booking[b] # "none",
               UNCHANGED worker,
               \A r \in Requests : req'[r].pc = "pay" => booking[req'[r].b] # "none"
        PROVE  Rest'
    <2>1. CASE booking' = [booking EXCEPT ![b] = "expired"] /\ UNCHANGED payment
      BY <1>1, <1>t, <1>a, <2>1 DEF TypeOK, worker
    <2>2. CASE UNCHANGED rows
      BY <1>1, <1>t, <2>2 DEF TypeOK, worker, rows
    <2>3. CASE /\ payment[b] = "none" /\ UNCHANGED booking
               /\ \E p \in PaymentStatus : payment' = [payment EXCEPT ![b] = p]
      BY <1>1, <1>t, <2>3 DEF TypeOK, worker
    <2>4. QED
      BY <1>1, <2>1, <2>2, <2>3 DEF OpenPayment, PaymentStatus
  <1>2. ASSUME NEW r \in Requests, NEW b \in Bookings, CheckoutRetry(r, b) PROVE Rest'
    <2>1. \A q \in Requests : req'[q].pc = "pay" => booking[req'[q].b] # "none"
      BY <1>2, <1>t DEF CheckoutRetry, TypeOK
    <2>2. QED
      BY <1>2, <2>1 DEF CheckoutRetry, rows, worker
  <1>3. ASSUME NEW r \in Requests, CheckoutInsert(r) PROVE Rest'
    <2>1. req[r].b \in Bookings
      BY <1>3, <1>t DEF CheckoutInsert, TypeOK
    <2>2. QED
      BY <1>3, <1>t, <2>1 DEF CheckoutInsert, TypeOK, worker
  <1>4. ASSUME NEW r \in Requests, CheckoutPay(r) PROVE Rest'
    <2>1. req[r].b \in Bookings /\ booking[req[r].b] # "none"
      BY <1>4, <1>t DEF CheckoutPay, TypeOK
    <2>2. \A q \in Requests : req'[q].pc = "pay" => booking[req'[q].b] # "none"
      BY <1>4, <1>t DEF CheckoutPay, TypeOK, Idle
    <2>3. QED
      BY <1>1, <1>4, <2>1, <2>2 DEF CheckoutPay
  <1>5. ASSUME NEW r \in Requests,
               \/ \E b \in Bookings : CheckoutLookup(r, b)
               \/ Abort(r) \/ SetDeadline(r)
        PROVE  Rest'
    <2>1. \A q \in Requests : req'[q].pc = "pay" => req[q].pc = "pay" /\ req'[q].b = req[q].b
      BY <1>5, <1>t DEF CheckoutLookup, Abort, SetDeadline, TypeOK, Idle
    <2>2. UNCHANGED <<booking, payment, snap>>
      BY <1>5 DEF CheckoutLookup, Abort, SetDeadline, rows, worker
    <2>3. QED
      BY <2>1, <2>2
  <1>6. ASSUME NEW r \in Requests, NEW b \in Bookings, SubmitReference(r, b) PROVE Rest'
    <2>1. \A q \in Requests : req'[q].pc = "pay" => req[q].pc = "pay" /\ req'[q].b = req[q].b
      BY <1>6, <1>t DEF SubmitReference, TypeOK
    <2>2. QED
      BY <1>6, <1>t, <2>1 DEF SubmitReference, Submittable, TypeOK, worker
  <1>7. ASSUME NEW b \in Bookings, BookingStep(b), ~WorkerExpire(b) PROVE Rest'
    <2>1. UNCHANGED <<req, snap>>
      BY <1>7 DEF BookingStep, SubmitTooLate, Confirm, Reject, CompleteRefund,
                  CancelWithPayment, CancelPlain, worker
    <2>2. \A c \in Bookings \ {b} : booking'[c] = booking[c] /\ payment'[c] = payment[c]
      BY <1>7, <1>t DEF BookingStep, SubmitTooLate, Confirm, Reject, CompleteRefund, TypeOK,
                  CancelWithPayment, CancelPlain, MarkCancelled
    <2>3. /\ booking'[b] = "confirmed" => payment'[b] = "paid"
          /\ booking[b] # "none"
          /\ booking[b] \in Ended => booking'[b] \in Ended
      <3>1. CASE SubmitTooLate(b)
        BY <3>1, <1>t DEF SubmitTooLate, Submittable, TypeOK
      <3>2. CASE Confirm(b)
        BY <3>2, <1>t DEF Confirm, Confirmable, TypeOK
      <3>3. CASE Reject(b)
        BY <3>3, <1>t DEF Reject, HostMayDecide, Decidable, TypeOK
      <3>4. CASE CompleteRefund(b)
        BY <3>4, <1>t DEF CompleteRefund, TypeOK
      <3>5. CASE CancelWithPayment(b) \/ CancelPlain(b)
        BY <3>5, <1>t DEF CancelWithPayment, CancelPlain, MarkCancelled, TypeOK
      <3>6. QED
        BY <1>7, <3>1, <3>2, <3>3, <3>4, <3>5 DEF BookingStep
    <2>4. QED
      BY <1>a, <1>t, <2>1, <2>2, <2>3 DEF TypeOK
  <1>8. ASSUME NEW b \in Bookings, WorkerExpire(b) PROVE Rest'
    BY <1>8, <1>t, <1>a DEF WorkerExpire, TypeOK
  <1>9. ASSUME NEW S \in SUBSET Bookings, WorkerSelect(S) PROVE Rest'
    <2>1. \A b \in S : payment[b] = "awaiting_host_confirmation"
      BY <1>9 DEF WorkerSelect, DueRow, Decidable
    <2>2. \A b \in S : booking[b] \in {"pending", "cancelled", "expired"}
      BY <2>1, <1>t DEF TypeOK, BookingStatus
    <2>3. QED
      BY <1>9, <2>2 DEF WorkerSelect, rows
  <1>10. CASE WorkerCrash
    BY <1>10 DEF WorkerCrash, rows
  <1>11. CASE UNCHANGED <<booking, payment, req, snap>>
    BY <1>11
  <1>12. QED
    <2>1. CASE \E r \in Requests : RequestStep(r)
      BY <1>2, <1>3, <1>4, <1>5, <1>6, <2>1 DEF RequestStep
    <2>2. CASE \E b \in Bookings : BookingStep(b)
      BY <1>7, <1>8, <2>2
    <2>3. CASE Tick \/ (\E s \in Spaces : SaveSettings(s)) \/ UNCHANGED vars
      BY <1>11, <2>3 DEF Tick, SaveSettings, vars, rows, worker
    <2>4. QED
      BY <1>9, <1>10, <2>1, <2>2, <2>3 DEF Next

(* The invariant holds initially and every step keeps it.                  *)
THEOREM InvariantHolds == Spec => []IInv
  <1>1. Init => IInv
    <2> SUFFICES ASSUME Init PROVE IInv
      OBVIOUS
    <2>1. TypeOK
      BY InitTypes
    <2>2. QED
      BY <2>1 DEF Init, IInv, NoDoubleBooking, Active, ConfirmedIsPaid, RowsExist,
                  SnapshotSound, Idle
  <1>2. IInv /\ [Next]_vars => IInv'
    BY TypeStep, TableStepLemma, NoDoubleBookingStep, RestStep DEF IInv
  <1>3. QED
    BY <1>1, <1>2, PTL DEF Spec

(* NoDoubleBooking for every instance: no two active bookings of one space *)
(* overlap in time, whatever the worker and concurrent requests do.        *)
THEOREM NeverDoubleBooked == Spec => []NoDoubleBooking
  BY InvariantHolds, PTL DEF IInv

(* ConfirmedIsPaid for every instance: no interleaving shows an address or *)
(* a pass for a payment the host has not confirmed.                        *)
THEOREM ConfirmedAlwaysPaid == Spec => []ConfirmedIsPaid
  BY InvariantHolds, PTL DEF IInv

(* DirectBooking implements SlotLedger: every step is a step of the ledger *)
(* on one reservation, or leaves the ledger as it was.                     *)
THEOREM LedgerImplemented == Spec => ImplementsLedger
  <1> DEFINE slot == [b \in Bookings |-> SlotOf(booking[b])]
  <1>1. Init => Ledger!SlotInit
    BY DEF Init, Ledger!SlotInit, SlotOf
  <1>2. IInv /\ TableStep => [Ledger!SlotNext]_slot
    <2> SUFFICES ASSUME IInv, TableStep PROVE [Ledger!SlotNext]_slot
      OBVIOUS
    <2> USE DEF Active, Ended
    <2>0. booking \in [Bookings -> BookingStatus]
      BY DEF IInv, TypeOK
    <2>1. ASSUME NEW b \in Bookings, Opened(b) PROVE Ledger!Hold(b)
      <3>1. slot' = [slot EXCEPT ![b] = "held"]
        BY <2>0, <2>1 DEF Opened, SlotOf
      <3>2. slot[b] = "free"
        BY <2>1 DEF Opened, SlotOf
      <3>3. \A c \in Bookings \ {b} : <<b, c>> \in ClashPairs => slot[c] \notin {"held", "sold"}
        BY <2>0, <2>1 DEF Opened, ConstraintAllows, ClashPairs, SlotOf, BookingStatus
      <3>4. QED
        BY <3>1, <3>2, <3>3 DEF Ledger!Hold, Ledger!Taken
    <2>2. ASSUME NEW b \in Bookings, Confirmed(b) PROVE Ledger!Sell(b) \/ UNCHANGED slot
      <3>1. slot' = [slot EXCEPT ![b] = "sold"]
        BY <2>0, <2>2 DEF Confirmed, SlotOf
      <3>2. slot[b] \in {"held", "sold"}
        BY <2>2 DEF Confirmed, SlotOf
      <3>3. QED
        BY <3>1, <3>2 DEF Ledger!Sell
    <2>3. ASSUME NEW b \in Bookings, Closed(b) PROVE Ledger!Release(b) \/ UNCHANGED slot
      <3>1. slot' = [slot EXCEPT ![b] = "released"]
        BY <2>0, <2>3 DEF Closed, SlotOf
      <3>2. slot[b] \in {"held", "sold", "released"}
        BY <2>0, <2>3 DEF Closed, SlotOf, BookingStatus
      <3>3. QED
        BY <3>1, <3>2 DEF Ledger!Release, Ledger!Taken
    <2>4. CASE UNCHANGED booking
      BY <2>4
    <2>5. QED
      BY <2>1, <2>2, <2>3, <2>4 DEF TableStep, Ledger!SlotNext
  <1>3. IInv /\ [Next]_vars => [Ledger!SlotNext]_slot
    BY <1>2, TableStepLemma
  <1>4. QED
    BY <1>1, <1>3, InvariantHolds, PTL DEF Spec, ImplementsLedger, Ledger!SlotSpec

(* What the ledger is worth: whatever implements it never has two clashing *)
(* reservations taken at once, and none that was released is taken again.  *)
(* Clashes are symmetric because overlapping is, so that it is enough that *)
(* the later of the two is checked.                                        *)
THEOREM LedgerKeepsApart ==
    ImplementsLedger =>
        /\ []Ledger!Exclusive
        /\ [][\A b \in Bookings : SlotOf(booking[b]) = "released"
                                   => SlotOf(booking'[b]) = "released"]_booking
  <1> DEFINE slot == [b \in Bookings |-> SlotOf(booking[b])]
  <1>1. Ledger!SlotInit => Ledger!Exclusive
    BY DEF Ledger!SlotInit, Ledger!Exclusive, Ledger!Taken
  <1>2. Ledger!Exclusive /\ [Ledger!SlotNext]_slot => Ledger!Exclusive'
    <2> SUFFICES ASSUME Ledger!Exclusive, [Ledger!SlotNext]_slot,
                        NEW b \in Bookings, NEW c \in Bookings, b # c,
                        <<b, c>> \in ClashPairs
                 PROVE  ~(slot'[b] \in {"held", "sold"} /\ slot'[c] \in {"held", "sold"})
      BY DEF Ledger!Exclusive, Ledger!Taken, ClashPairs
    <2>1. <<c, b>> \in ClashPairs
      BY DEF ClashPairs, Overlaps
    <2>2. ~(slot[b] \in {"held", "sold"} /\ slot[c] \in {"held", "sold"})
      BY DEF Ledger!Exclusive, Ledger!Taken
    <2>3. ASSUME NEW d \in Bookings, Ledger!Hold(d)
          PROVE  ~(slot'[b] \in {"held", "sold"} /\ slot'[c] \in {"held", "sold"})
      <3>1. /\ slot' = [slot EXCEPT ![d] = "held"]
            /\ \A e \in Bookings \ {d} : <<d, e>> \in ClashPairs => slot[e] \notin {"held", "sold"}
        BY <2>3 DEF Ledger!Hold, Ledger!Taken
      <3>2. QED
        BY <2>1, <2>2, <3>1
    <2>4. ASSUME NEW d \in Bookings, Ledger!Sell(d) \/ Ledger!Release(d)
          PROVE  ~(slot'[b] \in {"held", "sold"} /\ slot'[c] \in {"held", "sold"})
      <3>1. /\ slot[d] \in {"held", "sold"}
            /\ slot' = [slot EXCEPT ![d] = "sold"] \/ slot' = [slot EXCEPT ![d] = "released"]
        BY <2>4 DEF Ledger!Sell, Ledger!Release, Ledger!Taken
      <3>2. QED
        BY <2>2, <3>1
    <2>5. QED
      BY <2>2, <2>3, <2>4 DEF Ledger!SlotNext
  <1>3. [Ledger!SlotNext]_slot =>
            [\A b \in Bookings : SlotOf(booking[b]) = "released"
                                  => SlotOf(booking'[b]) = "released"]_booking
    BY DEF Ledger!SlotNext, Ledger!Hold, Ledger!Sell, Ledger!Release, Ledger!Taken
  <1>4. QED
    BY <1>1, <1>2, <1>3, PTL DEF ImplementsLedger, Ledger!SlotSpec

-------------------------------------------------------------------------------
(* What a step does to a booking and its payment.                          *)

Awaiting == {"awaiting_payment", "awaiting_host_confirmation"}
OthersKept(b) == \A c \in Bookings \ {b} : booking'[c] = booking[c] /\ payment'[c] = payment[c]

Reserved(b) == booking[b] = "none" /\ booking'[b] = "pending" /\ payment'[b] = payment[b]
Unpayable(b) == /\ booking'[b] = "expired" /\ payment'[b] = payment[b] /\ Unlocked(b)
                /\ booking[b] = "pending" \/ (LateRetry(b) /\ b \in late')
PaymentOpened(b) == /\ payment[b] = "none" /\ payment'[b] \in Awaiting
                    /\ booking'[b] = booking[b]
Submitted(b) == /\ payment[b] \in Awaiting /\ payment'[b] = "awaiting_host_confirmation"
                /\ Unlocked(b) /\ booking'[b] = booking[b]
Refused(b) == /\ payment[b] \in Awaiting /\ payment'[b] \in {"expired", "rejected"}
              /\ Unlocked(b)
              /\ booking'[b] = IF booking[b] = "pending" THEN "expired" ELSE booking[b]
Accepted(b) == /\ payment[b] \in Awaiting /\ payment'[b] = "paid"
               /\ Unlocked(b) /\ booking'[b] = "confirmed"
GivenBack(b) == /\ payment[b] = "refund_required" /\ payment'[b] = "refunded"
                /\ Unlocked(b) /\ booking'[b] = booking[b]
CalledOff(b) == /\ booking'[b] = "cancelled" /\ Unlocked(b)
                /\ payment'[b] \in {payment[b], AfterCancel(payment[b])}
TimedOut(b) == /\ WorkerExpire(b) /\ snap[b] # "out" /\ payment'[b] = "host_timeout"
               /\ booking'[b] = IF snap[b] = "pending" THEN "expired" ELSE booking[b]

RowKind(b) == /\ OthersKept(b)
              /\ \/ Reserved(b) \/ Unpayable(b) \/ PaymentOpened(b) \/ Submitted(b)
                 \/ Refused(b) \/ Accepted(b) \/ GivenBack(b) \/ CalledOff(b) \/ TimedOut(b)

(* The last transaction of a checkout expires the booking, opens the       *)
(* payment, or changes nothing.                                            *)
LEMMA CheckoutPayKinds ==
    ASSUME TypeOK, NEW r \in Requests, CheckoutPay(r)
    PROVE  UNCHANGED <<booking, payment>> \/ \E b \in Bookings : RowKind(b)
<1> USE DEF TypeOK
<1> DEFINE b == req[r].b
           seen == req[r].seen
<1>0. b \in Bookings /\ OpenPayment(b, seen)
  BY DEF CheckoutPay
<1>1. CASE UNCHANGED rows
  BY <1>1 DEF rows
<1>2. CASE /\ Expirable(seen) /\ Unlocked(b)
           /\ booking' = [booking EXCEPT ![b] = "expired"] /\ UNCHANGED payment
           /\ late' = IF seen # booking[b] THEN late \cup {b} ELSE late
  <2>1. ASSUME seen = booking[b] PROVE Unpayable(b)
    BY <1>0, <1>2, <2>1 DEF Expirable, Unpayable
  <2>2. ASSUME seen # booking[b] PROVE Unpayable(b)
    <3>1. LateRetry(b)
      BY <2>2 DEF LateRetry
    <3>2. b \in late'
      BY <1>2, <2>2
    <3> QED
      BY <1>0, <1>2, <3>1, <3>2 DEF Unpayable
  <2>3. OthersKept(b)
    BY <1>0, <1>2 DEF OthersKept
  <2>4. Unpayable(b) => RowKind(b)
    BY <2>3 DEF RowKind
  <2> QED
    BY <1>0, <2>1, <2>2, <2>4
<1>3. CASE /\ payment[b] = "none" /\ UNCHANGED booking
           /\ \E p \in Awaiting : payment' = [payment EXCEPT ![b] = p]
  <2>1. PaymentOpened(b) /\ OthersKept(b)
    BY <1>0, <1>3 DEF PaymentOpened, OthersKept
  <2> QED
    BY <1>0, <2>1 DEF RowKind
<1> QED
  BY <1>0, <1>1, <1>2, <1>3 DEF OpenPayment, Awaiting

(* Every step of the system is of one of the kinds, for one booking.       *)
LEMMA RowKinds ==
    ASSUME TypeOK, Next
    PROVE  UNCHANGED <<booking, payment>> \/ \E b \in Bookings : RowKind(b)
<1> USE DEF TypeOK
<1>1. ASSUME NEW r \in Requests, NEW b \in Bookings, CheckoutRetry(r, b)
      PROVE  UNCHANGED <<booking, payment>>
  BY <1>1 DEF CheckoutRetry, rows
<1>2. ASSUME NEW r \in Requests, CheckoutPay(r)
      PROVE  UNCHANGED <<booking, payment>> \/ \E b \in Bookings : RowKind(b)
  BY <1>2, CheckoutPayKinds
<1>3. ASSUME NEW r \in Requests, CheckoutInsert(r) PROVE \E b \in Bookings : RowKind(b)
  <2>1. req[r].b \in Bookings
    BY <1>3 DEF CheckoutInsert
  <2>2. Reserved(req[r].b) /\ OthersKept(req[r].b)
    BY <1>3, <2>1 DEF CheckoutInsert, Reserved, OthersKept
  <2> QED
    BY <2>1, <2>2 DEF RowKind
<1>4. ASSUME NEW r \in Requests, NEW b \in Bookings, SubmitReference(r, b) PROVE RowKind(b)
  <2>1. Submitted(b) /\ OthersKept(b)
    BY <1>4 DEF SubmitReference, Submittable, Submitted, OthersKept, Awaiting
  <2> QED
    BY <2>1 DEF RowKind
<1>5. ASSUME NEW b \in Bookings, BookingStep(b) PROVE RowKind(b)
  <2>1. OthersKept(b)
    BY <1>5 DEF BookingStep, SubmitTooLate, Confirm, Reject, CompleteRefund,
                CancelWithPayment, CancelPlain, MarkCancelled, WorkerExpire, OthersKept
  <2>2. CASE SubmitTooLate(b) \/ Reject(b)
    <3>1. Refused(b)
      BY <2>2 DEF SubmitTooLate, Submittable, Reject, HostMayDecide, Decidable, Expirable,
                  Refused, Awaiting
    <3> QED
      BY <2>1, <3>1 DEF RowKind
  <2>3. CASE Confirm(b)
    <3>1. Accepted(b)
      BY <2>3 DEF Confirm, HostMayDecide, Decidable, Accepted, Awaiting
    <3> QED
      BY <2>1, <3>1 DEF RowKind
  <2>4. CASE CompleteRefund(b)
    <3>1. GivenBack(b)
      BY <2>4 DEF CompleteRefund, GivenBack
    <3> QED
      BY <2>1, <3>1 DEF RowKind
  <2>5. CASE CancelWithPayment(b) \/ CancelPlain(b)
    <3>1. CalledOff(b)
      BY <2>5 DEF CancelWithPayment, CancelPlain, MarkCancelled, CalledOff
    <3> QED
      BY <2>1, <3>1 DEF RowKind
  <2>6. CASE WorkerExpire(b)
    <3>1. TimedOut(b)
      BY <2>6 DEF WorkerExpire, Expirable, TimedOut
    <3> QED
      BY <2>1, <3>1 DEF RowKind
  <2> QED
    BY <1>5, <2>2, <2>3, <2>4, <2>5, <2>6 DEF BookingStep
<1> QED
  BY <1>1, <1>2, <1>3, <1>4, <1>5
     DEF Next, RequestStep, rows, CheckoutLookup, SetDeadline, Abort, WorkerSelect,
         WorkerCrash, SaveSettings, Tick

-------------------------------------------------------------------------------
(* What the worker has locked.                                             *)

(* Until the first commit the rows of the batch are as the worker read     *)
(* them.                                                                   *)
SnapshotFresh ==
    locked => \A b \in Bookings : snap[b] # "out" =>
                  snap[b] = booking[b] /\ payment[b] = "awaiting_host_confirmation"

(* Nothing but the worker itself writes a row it has locked.               *)
LEMMA FreshStep ==
    ASSUME IInv, SnapshotFresh, [Next]_vars
    PROVE  SnapshotFresh'
<1> USE DEF TypeOK
<1>0. TypeOK
  BY DEF IInv
<1>1. CASE UNCHANGED worker
  <2> SUFFICES ASSUME NEW b \in Bookings, snap[b] # "out", locked
               PROVE  booking'[b] = booking[b] /\ payment'[b] = payment[b]
    BY <1>1 DEF SnapshotFresh, worker
  <2>1. /\ ~Unlocked(b) /\ snap[b] = booking[b]
        /\ payment[b] = "awaiting_host_confirmation" /\ booking[b] # "none"
    BY DEF SnapshotFresh, Unlocked, IInv, SnapshotSound
  <2>2. CASE UNCHANGED vars
    BY <2>2 DEF vars
  <2>3. ASSUME NEW c \in Bookings, RowKind(c)
        PROVE  booking'[b] = booking[b] /\ payment'[b] = payment[b]
    <3>1. CASE c # b
      BY <2>3, <3>1 DEF RowKind, OthersKept
    <3>2. CASE c = b
      <4>1. ~TimedOut(b)
        BY <1>1 DEF TimedOut, WorkerExpire, worker
      <4> QED
        BY <2>1, <2>3, <3>2, <4>1
           DEF RowKind, Reserved, Unpayable, PaymentOpened, Submitted, Refused, Accepted,
               GivenBack, CalledOff
    <3> QED
      BY <3>1, <3>2
  <2> QED
    BY <1>0, <2>2, <2>3, RowKinds
<1>2. ASSUME NEW S \in SUBSET Bookings, WorkerSelect(S) PROVE SnapshotFresh'
  <2>1. \A b \in Bookings : snap'[b] # "out" =>
            snap'[b] = booking[b] /\ payment[b] = "awaiting_host_confirmation"
    BY <1>2 DEF WorkerSelect, DueRow, Decidable
  <2> QED
    BY <1>2, <2>1 DEF SnapshotFresh, WorkerSelect, rows
<1>3. ASSUME NEW b \in Bookings, WorkerExpire(b) PROVE SnapshotFresh'
  BY <1>3 DEF WorkerExpire, SnapshotFresh
<1>4. CASE WorkerCrash
  BY <1>4 DEF WorkerCrash, SnapshotFresh
<1> QED
  BY <1>1, <1>2, <1>3, <1>4
     DEF Next, RequestStep, CheckoutLookup, CheckoutRetry, CheckoutInsert, CheckoutPay,
         SubmitReference, SetDeadline, Abort, BookingStep, SubmitTooLate, Confirm, Reject,
         CompleteRefund, CancelWithPayment, CancelPlain, SaveSettings, Tick, vars, worker

(* What the worker has locked is as it read it, whatever overlaps.         *)
LEMMA SnapshotStaysFresh == Spec => []SnapshotFresh
<1>1. Init => SnapshotFresh
  BY DEF Init, SnapshotFresh
<1>2. IInv /\ SnapshotFresh /\ [Next]_vars => SnapshotFresh'
  BY FreshStep
<1> QED
  BY <1>1, <1>2, InvariantHolds, PTL DEF Spec

(* A time-out over a changed row comes from a batch that has lost its      *)
(* locks.                                                                  *)
LEMMA OutdatedIsUnlocked ==
    ASSUME SnapshotFresh, NEW b \in Bookings, TimedOut(b), ~LateTimeout(b)
    PROVE  snap[b] = booking[b] /\ payment[b] = "awaiting_host_confirmation"
  BY DEF SnapshotFresh, TimedOut, LateTimeout, Decidable

(* A refund the host owes stays owed until the host records it, whatever   *)
(* requests race; only a worker that has given up its locks forgets it.    *)
THEOREM RefundRemainsOwed == Spec => RefundStaysOwed
<1>1. IInv /\ SnapshotFresh /\ [Next]_vars =>
        [\A b \in Bookings :
             payment[b] = "refund_required"
                 => payment'[b] \in {"refund_required", "refunded"} \/ LateTimeout(b)]_vars
  <2> SUFFICES ASSUME IInv, SnapshotFresh, Next, NEW b \in Bookings,
                      payment[b] = "refund_required", ~LateTimeout(b)
               PROVE  payment'[b] \in {"refund_required", "refunded"}
    OBVIOUS
  <2>1. ASSUME NEW c \in Bookings, RowKind(c)
        PROVE  payment'[b] \in {"refund_required", "refunded"}
    <3>1. CASE c # b
      BY <2>1, <3>1 DEF RowKind, OthersKept
    <3>2. CASE c = b
      <4>1. ~TimedOut(b)
        BY OutdatedIsUnlocked
      <4> QED
        BY <2>1, <3>2, <4>1
           DEF RowKind, Reserved, Unpayable, PaymentOpened, Submitted, Refused, Accepted,
               GivenBack, CalledOff, Awaiting, AfterCancel, CancellablePayment
    <3> QED
      BY <3>1, <3>2
  <2> QED
    BY <2>1, RowKinds DEF IInv
<1> QED
  BY <1>1, InvariantHolds, SnapshotStaysFresh, PTL DEF Spec, RefundStaysOwed

-------------------------------------------------------------------------------
(* Money and confirmation.                                                 *)

(* A booking that was expired too late stays marked as such.               *)
LEMMA LateGrows == ASSUME Next PROVE late \subseteq late'
  BY DEF Next, RequestStep, CheckoutLookup, CheckoutRetry, CheckoutInsert, CheckoutPay,
         OpenPayment, SubmitReference, SetDeadline, Abort, BookingStep, SubmitTooLate,
         Confirm, Reject, CompleteRefund, CancelWithPayment, CancelPlain, WorkerSelect,
         WorkerExpire, WorkerCrash, SaveSettings, Tick

(* No step parts received money from its booking.                          *)
LEMMA HonouredStep ==
    ASSUME IInv, PaidIsHonoured, Next
    PROVE  PaidIsHonoured'
<1> SUFFICES ASSUME NEW b \in Bookings, b \notin late'
             PROVE  /\ payment'[b] = "paid" => booking'[b] \in {"confirmed", "cancelled"}
                    /\ payment'[b] \in {"refund_required", "refunded"} => booking'[b] = "cancelled"
  BY DEF PaidIsHonoured
<1>1. /\ payment[b] = "paid" => booking[b] \in {"confirmed", "cancelled"}
      /\ payment[b] \in {"refund_required", "refunded"} => booking[b] = "cancelled"
  BY LateGrows DEF PaidIsHonoured
<1>2. CASE UNCHANGED <<booking, payment>>
  BY <1>1, <1>2
<1>3. ASSUME NEW c \in Bookings, RowKind(c), c # b
      PROVE  booking'[b] = booking[b] /\ payment'[b] = payment[b]
  BY <1>3 DEF RowKind, OthersKept
<1>4. CASE RowKind(b)
  BY <1>1, <1>4
     DEF RowKind, Reserved, Unpayable, PaymentOpened, Submitted, Refused, Accepted, GivenBack,
         CalledOff, TimedOut, Awaiting, AfterCancel
<1> QED
  BY <1>1, <1>2, <1>3, <1>4, RowKinds DEF IInv

(* Money the host confirmed is never left without the booking it paid for, *)
(* unless the renter cancelled: for any batch of the worker, and for every *)
(* booking that no outdated retry has expired.                             *)
THEOREM MoneyIsHonoured == Spec => []PaidIsHonoured
<1>1. Init => PaidIsHonoured
  BY DEF Init, PaidIsHonoured
<1>2. IInv /\ PaidIsHonoured /\ [Next]_vars => PaidIsHonoured'
  <2>1. ASSUME PaidIsHonoured, UNCHANGED vars PROVE PaidIsHonoured'
    BY <2>1 DEF vars, PaidIsHonoured
  <2> QED
    BY <2>1, HonouredStep
<1> QED
  BY <1>1, <1>2, InvariantHolds, PTL DEF Spec

(* The host's confirmation is final but for a cancellation: no rejection,  *)
(* no late reference, no retry that read it and no worker that holds its   *)
(* locks ends it.                                                          *)
THEOREM ConfirmationIsFinal == Spec => ConfirmedOnlyCancelled
<1>1. IInv /\ SnapshotFresh /\ [Next]_vars =>
        [\A b \in Bookings :
             booking[b] = "confirmed"
                 => \/ booking'[b] \in {"confirmed", "cancelled"}
                    \/ LateTimeout(b) \/ LateRetry(b)]_vars
  <2> SUFFICES ASSUME IInv, SnapshotFresh, Next, NEW b \in Bookings,
                      booking[b] = "confirmed", ~LateTimeout(b), ~LateRetry(b)
               PROVE  booking'[b] \in {"confirmed", "cancelled"}
    OBVIOUS
  <2>1. payment[b] = "paid"
    BY DEF IInv, ConfirmedIsPaid
  <2>2. ASSUME NEW c \in Bookings, RowKind(c)
        PROVE  booking'[b] \in {"confirmed", "cancelled"}
    <3>1. CASE c # b
      BY <2>2, <3>1 DEF RowKind, OthersKept
    <3>2. CASE c = b
      <4>1. ~TimedOut(b)
        BY <2>1, OutdatedIsUnlocked
      <4> QED
        BY <2>1, <2>2, <3>2, <4>1
           DEF RowKind, Reserved, Unpayable, PaymentOpened, Submitted, Refused, Accepted,
               GivenBack, CalledOff
    <3> QED
      BY <3>1, <3>2
  <2> QED
    BY <2>2, RowKinds DEF IInv
<1> QED
  BY <1>1, InvariantHolds, SnapshotStaysFresh, PTL DEF Spec, ConfirmedOnlyCancelled

===============================================================================
