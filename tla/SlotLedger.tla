------------------------------ MODULE SlotLedger ------------------------------
(***************************************************************************)
(* What the booking subsystem promises about a parking space, with no      *)
(* payments, requests or workers: a reservation is held, may be sold, and  *)
(* is released for good; two reservations whose time windows clash on one  *)
(* space are never held or sold at the same time.                          *)
(* DirectBooking and StripeCheckout are shown to implement it.             *)
(***************************************************************************)
CONSTANTS Bookings,     \* the reservations that may ever be made
          Clash         \* pairs of reservations of one space that overlap in time

VARIABLE slot           \* slot[b]: what the ledger says of reservation b

SlotStates == {"free", "held", "sold", "released"}
Taken == {"held", "sold"}

SlotTypeOK == slot \in [Bookings -> SlotStates]

SlotInit == slot = [b \in Bookings |-> "free"]

Hold(b) == /\ slot[b] = "free"
           /\ \A c \in Bookings \ {b} : <<b, c>> \in Clash => slot[c] \notin Taken
           /\ slot' = [slot EXCEPT ![b] = "held"]

Sell(b) == /\ slot[b] = "held"
           /\ slot' = [slot EXCEPT ![b] = "sold"]

Release(b) == /\ slot[b] \in Taken
              /\ slot' = [slot EXCEPT ![b] = "released"]

(* Not a step of the ledger: what an implementation does that sells what   *)
(* was released, if nobody has taken it since.                             *)
Resell(b) == /\ slot[b] = "released"
             /\ \A c \in Bookings \ {b} : <<b, c>> \in Clash => slot[c] \notin Taken
             /\ slot' = [slot EXCEPT ![b] = "sold"]

SlotNext == \E b \in Bookings : Hold(b) \/ Sell(b) \/ Release(b)

SlotSpec == SlotInit /\ [][SlotNext]_slot

(* No two clashing reservations are taken at the same time.                *)
Exclusive == \A b, c \in Bookings :
                 b # c /\ <<b, c>> \in Clash => ~(slot[b] \in Taken /\ slot[c] \in Taken)
===============================================================================
