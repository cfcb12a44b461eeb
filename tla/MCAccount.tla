------------------------------- MODULE MCAccount -------------------------------
(* Instances of Account for TLC.                                           *)
EXTENDS Account, TLC

Interchangeable == Permutations(Devices) \cup Permutations(Calls)
                   \cup Permutations(Links)
===============================================================================
