---------------------------- MODULE MCAvailability ----------------------------
(* Instances of Availability for TLC.                                      *)
EXTENDS Availability

(* All day, mornings only, from noon to 23:59.                             *)
ThreeRules == {[opens |-> 0, closes |-> 3], [opens |-> 0, closes |-> 2],
               [opens |-> 1, closes |-> 3]}
TwoPrices == {5, 7}
===============================================================================
