---------------------------- MODULE MCSeatLocks ----------------------------
(* Seats and lock values are interchangeable in SeatLocks.                 *)
EXTENDS SeatLocks, TLC

Symmetry == Permutations(Seats) \cup Permutations(Holders)
=============================================================================
