----------------------------- MODULE HoldTable -----------------------------
(***************************************************************************)
(* What the services may expect of seat locks: a holder takes all the      *)
(* seats it asks for in one step or none of them, once; it never has a     *)
(* part of them; a seat changes hands only by being free in between; and   *)
(* locks that nobody gives back stay until their holder's promise is past. *)
(*                                                                         *)
(* Checkout.tla, which uses the locks without their clocks, and            *)
(* SeatLocks.tla, which has the scripts, the TTLs and the clocks, are both *)
(* shown to implement this specification: what the one takes for granted   *)
(* is what the other provides.                                             *)
(***************************************************************************)
CONSTANTS
  Seats,    \* seats of the event
  Holders,  \* holds, each of which asks for seats at most once
  None      \* nobody

VARIABLES
  owner,    \* owner[s] : the holder of seat s, or None
  used,     \* holders that have asked, and were served or not
  past      \* holders to whom nothing is promised any more

vars == <<owner, used, past>>

Init ==
  /\ owner = [s \in Seats |-> None]
  /\ used = {}
  /\ past \subseteq Holders

(* The table when the holders in H have lost all they had.                 *)
Without(H) == [s \in Seats |-> IF owner[s] \in H THEN None ELSE owner[s]]

Take(h, S) ==
  /\ h \notin used
  /\ \A s \in S : owner[s] = None
  /\ owner' = [s \in Seats |-> IF s \in S THEN h ELSE owner[s]]
  /\ used' = used \cup {h}
  /\ UNCHANGED past

(* h is refused, or gives up before it asks.                               *)
Forgo(h) ==
  /\ h \notin used
  /\ used' = used \cup {h}
  /\ UNCHANGED <<owner, past>>

Give(h) ==
  /\ h \in used
  /\ owner' = Without({h})
  /\ UNCHANGED <<used, past>>

(* Time passes; some of those whose promise is past lose their seats.      *)
Pass ==
  /\ past \subseteq past' /\ past' \subseteq Holders
  /\ \E H \in SUBSET past' : owner' = Without(H)
  /\ UNCHANGED used

Next ==
  \/ \E h \in Holders : \/ \E S \in SUBSET Seats : Take(h, S)
                        \/ Forgo(h) \/ Give(h)
  \/ Pass

Spec == Init /\ [][Next]_vars
=============================================================================
