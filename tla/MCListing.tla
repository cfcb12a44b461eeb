------------------------------- MODULE MCListing -------------------------------
(* Instances of Listing for TLC.                                           *)
EXTENDS Listing, TLC

Interchangeable == Permutations(Sessions) \cup Permutations(Bookings)
                   \cup Permutations(Verifications)
===============================================================================
