--------------------------- MODULE MCDirectBooking ---------------------------
(* Two bookings and the constants the TLC runs of DirectBooking share.      *)
EXTENDS DirectBooking, TLC
CONSTANTS b1, b2, s1, r1, r2

TwoBookings == {b1, b2}
OneSpace == {s1}
SameSpace == [b \in TwoBookings |-> s1]
\* the same two windows: they clash / the second begins when the first ends
SameStart == [b \in TwoBookings |-> 1]
SameEnd == [b \in TwoBookings |-> 2]
NextStart == b1 :> 1 @@ b2 :> 2
NextEnd == b1 :> 2 @@ b2 :> 3
JustB2 == {b2}
Nobody == {}
OneRequest == {r1}
TwoRequests == {r1, r2}
Units1 == {1}
===============================================================================
