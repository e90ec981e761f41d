------------------------------ MODULE SeatSale ------------------------------
(***************************************************************************)
(* What the booking service promises about one event: a booking buys all   *)
(* the seats it names in one step or none of them, a seat is bought at     *)
(* most once, a bought seat never changes hands, and exactly the buyers    *)
(* have a successful payment on the books.                                 *)
(*                                                                         *)
(* Nothing here mentions locks, holds, requests or failures.  Checkout.tla *)
(* is shown to implement this specification.                               *)
(***************************************************************************)
CONSTANTS
  Seats,      \* seats of the event
  Bookings,   \* booking ids
  None,       \* "no booking": neither a booking nor anything else
  Selections  \* the sets of seats one booking may name

VARIABLES
  owner,      \* owner[s] : the booking seat s was sold to, or None
  receipts    \* bookings with a successful payment

vars == <<owner, receipts>>

Init ==
  /\ owner = [s \in Seats |-> None]
  /\ receipts = {}

(* The sale of every seat of S to b, and its payment, as one step.         *)
Sell(b, S) ==
  /\ b \notin receipts
  /\ \A s \in S : owner[s] = None
  /\ owner' = [s \in Seats |-> IF s \in S THEN b ELSE owner[s]]
  /\ receipts' = receipts \cup {b}

Next == \E b \in Bookings, S \in Selections : Sell(b, S)

Spec == Init /\ [][Next]_vars
=============================================================================
