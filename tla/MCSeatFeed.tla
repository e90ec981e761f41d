----------------------------- MODULE MCSeatFeed -----------------------------
(* Small instances of SeatFeed for TLC.                                    *)
EXTENDS SeatFeed, TLC

Symmetry == Permutations(Instances) \cup Permutations(Fetches)
=============================================================================
