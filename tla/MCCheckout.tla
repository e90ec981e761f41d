----------------------------- MODULE MCCheckout -----------------------------
(* Small instances of Checkout for TLC.                                    *)
EXTENDS Checkout, TLC

(* Ids are interchangeable: no action or property names one of them.       *)
Symmetry == Permutations(Seats) \cup Permutations(Bookings)
            \cup Permutations(Attempts) \cup Permutations(Keys)
=============================================================================
