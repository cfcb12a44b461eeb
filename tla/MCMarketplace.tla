----------------------------- MODULE MCMarketplace -----------------------------
(* Instances of Marketplace for TLC.                                       *)
EXTENDS Marketplace, TLC

Interchangeable == Permutations(Sessions) \cup Permutations(Bookings)
                   \cup Permutations(Verifications)
===============================================================================
