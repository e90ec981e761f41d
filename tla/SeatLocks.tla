----------------------------- MODULE SeatLocks -----------------------------
(***************************************************************************)
(* The Redis side of seat holds, with time: the lock key of each seat, its *)
(* TTL, and the sorted set event:<id>:reserved that the seat map is read   *)
(* from.  Checkout uses the locks without their clocks; this module checks *)
(* what it takes for granted (a lock lives until the deadline its holder   *)
(* was promised) and that the read model never hides or outlives a hold.   *)
(*                                                                         *)
(* One tick is the resolution of the millisecond scores; Second ticks make *)
(* a second, the resolution of the TTL.  Redis has one clock, now, and an  *)
(* instance of the service reads a clock up to MaxSkew ahead of it.  The   *)
(* scripts are atomic; an Acquire may be delayed between computing its     *)
(* deadline and running its script.                                        *)
(***************************************************************************)
EXTENDS Naturals, FiniteSets

CONSTANTS
  Seats,    \* seats of one event
  Holders,  \* lock values "<userId>:<lockToken>"; a token is used once
  None,     \* no lock under a key
  Ttl,      \* HOLD_TTL in ticks
  Second,   \* ticks in a second
  Slack,    \* the 60 seconds the reserved set outlives its locks by
  MaxSkew,  \* how far an instance's clock may be ahead of Redis's
  MaxNow    \* the instant the model's clock stops at

(* At least a second: a shorter HOLD_TTL is truncated to EX 0, which Redis *)
(* refuses, so nothing would ever be held.                                 *)
ASSUME SeatLocksAssumption ==
  /\ None \notin Holders
  /\ Ttl \in Nat /\ Second \in Nat \ {0} /\ Slack \in Nat
  /\ MaxSkew \in Nat /\ MaxNow \in Nat
  /\ Ttl >= Second

VARIABLES
  now,       \* Redis's clock
  lock,      \* lock[s]     : the value under lock:<event>:<s>
  until,     \* until[s]    : when that key expires, 0 if it is absent
  score,     \* score[s]    : score of s in the reserved set, 0 if not a member
  setUntil,  \* when the reserved set expires, 0 when there is none
  step,      \* step[h]     : how far h's hold has come
  want,      \* want[h]     : the seats of the hold
  deadline   \* deadline[h] : the expiresAt that h's Acquire computed

vars == <<now, lock, until, score, setUntil, step, want, deadline>>

Steps == {"idle", "asked", "held", "refused", "released"}

TypeOK ==
  /\ now \in Nat
  /\ lock \in [Seats -> Holders \cup {None}]
  /\ until \in [Seats -> Nat]
  /\ score \in [Seats -> Nat]
  /\ setUntil \in Nat
  /\ step \in [Holders -> Steps]
  /\ want \in [Holders -> SUBSET Seats]
  /\ deadline \in [Holders -> Nat]

Init ==
  /\ now = 0
  /\ lock = [s \in Seats |-> None]
  /\ until = [s \in Seats |-> 0]
  /\ score = [s \in Seats |-> 0]
  /\ setUntil = 0
  /\ step = [h \in Holders |-> "idle"]
  /\ want = [h \in Holders |-> {}]
  /\ deadline = [h \in Holders |-> 0]

-----------------------------------------------------------------------------
(* The scripts                                                             *)

(* Mutant of LockTtl: the TTL is handed over in the wrong unit.            *)
LockTtlUnit == Ttl \div Second

(* int(ttl.Seconds()), in ticks: what is short of a second is cut off.     *)
LockTtl == (Ttl \div Second) * Second

(* HoldsFor, an MGET: the caller's seats whose lock is not the caller's.   *)
Missing(h) == {s \in want[h] : lock[s] # h}

(* held.lua at the reader's time t: members past their score are swept,    *)
(* and a member without a lock is skipped.                                 *)
Reported(t) == {s \in Seats : score[s] > t /\ lock[s] # None}

(* Mutants of Scored: ZADD with score and member swapped, and ZADD NX, by  *)
(* which a member keeps the score it has.                                  *)
ScoredSwapped(h) == [s \in Seats |-> IF s \in want[h] THEN h ELSE score[s]]

ScoredOnce(h) ==
  [s \in Seats |-> IF s \in want[h] /\ score[s] = 0 THEN deadline[h] ELSE score[s]]

(* ZADD of the seats acquired, over whatever score a member has.           *)
Scored(h) == [s \in Seats |-> IF s \in want[h] THEN deadline[h] ELSE score[s]]

(* EXPIRE reserved ttl + 60, by every Acquire.                             *)
SetLife == now + LockTtl + Slack

(* Mutants of Own: a release takes every seat it names, and one stops      *)
(* after the first seat that is its own.                                   *)
AnybodysSeats(h) == want[h]

OwnFirstOnly(h) ==
  {s \in want[h] : lock[s] = h /\ s = CHOOSE t \in Seats : lock[t] = h}

(* The seats whose stored value is still the caller's.                     *)
Own(h) == {s \in want[h] : lock[s] = h}

-----------------------------------------------------------------------------
(* Acquire computes expiresAt from the instance's clock...                 *)
Ask(h, S, skew) ==
  /\ step[h] = "idle"
  /\ S # {}
  /\ step' = [step EXCEPT ![h] = "asked"]
  /\ want' = [want EXCEPT ![h] = S]
  /\ deadline' = [deadline EXCEPT ![h] = now + skew + Ttl]
  /\ UNCHANGED <<now, lock, until, score, setUntil>>

(* ... and acquire.lua runs some time later.                               *)
AcquireScript(h) ==
  /\ step[h] = "asked"
  /\ \/ /\ \A s \in want[h] : lock[s] = None
        /\ lock' = [s \in Seats |-> IF s \in want[h] THEN h ELSE lock[s]]
        /\ until' = [s \in Seats |-> IF s \in want[h] THEN now + LockTtl
                                     ELSE until[s]]
        /\ score' = Scored(h)
        /\ setUntil' = SetLife
        /\ step' = [step EXCEPT ![h] = "held"]
     \/ /\ \E s \in want[h] : lock[s] # None
        /\ step' = [step EXCEPT ![h] = "refused"]
        /\ UNCHANGED <<lock, until, score, setUntil>>
  /\ UNCHANGED <<now, want, deadline>>

(* release.lua, by whichever request gives the seats back: when the locks  *)
(* have lapsed, and may be somebody else's, it is just as likely to run.   *)
ReleaseScript(h) ==
  /\ step[h] = "held"
  /\ lock' = [s \in Seats |-> IF s \in Own(h) THEN None ELSE lock[s]]
  /\ until' = [s \in Seats |-> IF s \in Own(h) THEN 0 ELSE until[s]]
  /\ score' = [s \in Seats |-> IF s \in Own(h) THEN 0 ELSE score[s]]
  /\ step' = [step EXCEPT ![h] = "released"]
  /\ UNCHANGED <<now, setUntil, want, deadline>>

(* HeldSeats by an instance whose clock is ahead by skew: ZREMRANGEBYSCORE *)
(* drops what that instance takes for expired.                             *)
HeldScript(skew) ==
  /\ score' = [s \in Seats |-> IF score[s] <= now + skew THEN 0 ELSE score[s]]
  /\ UNCHANGED <<now, lock, until, setUntil, step, want, deadline>>

(* A tick of Redis's clock, which expires keys.                            *)
Tick ==
  /\ now < MaxNow
  /\ now' = now + 1
  /\ lock' = [s \in Seats |-> IF until[s] > now + 1 THEN lock[s] ELSE None]
  /\ until' = [s \in Seats |-> IF until[s] > now + 1 THEN until[s] ELSE 0]
  /\ IF setUntil > now + 1
     THEN UNCHANGED <<score, setUntil>>
     ELSE score' = [s \in Seats |-> 0] /\ setUntil' = 0
  /\ UNCHANGED <<step, want, deadline>>

Next ==
  \/ \E h \in Holders :
       \/ \E S \in SUBSET Seats, skew \in 0..MaxSkew : Ask(h, S, skew)
       \/ AcquireScript(h) \/ ReleaseScript(h)
  \/ \E skew \in 0..MaxSkew : HeldScript(skew)
  \/ Tick

Spec == Init /\ [][Next]_vars

-----------------------------------------------------------------------------
(* The promise of a hold: until the deadline its user was given, less the  *)
(* clocks' difference and the second a TTL may be cut by, every seat of it *)
(* is still locked for it.  Other holders' releases, late scripts and the  *)
(* expiry of other locks do not take it away.                              *)
PromiseKept ==
  \A h \in Holders :
    step[h] = "held" /\ now + MaxSkew + (Second - 1) < deadline[h]
    => Missing(h) = {}

(* The seat map shows what the locks forbid: a seat locked by a holder     *)
(* whose deadline no clock has reached is reported held by every instance, *)
(* with that holder's own deadline.  Stale members, the release of a lock  *)
(* that has changed hands, early sweeps and the set's own expiry could all *)
(* hide it or show an older deadline.                                      *)
HeldSeatsShown ==
  \A s \in Seats : LET h == lock[s] IN
    h # None /\ now + MaxSkew < deadline[h] =>
      /\ score[s] = deadline[h]
      /\ \A skew \in 0..MaxSkew : s \in Reported(now + skew)

(* A seat reported held is held, and goes on being held by the holder it   *)
(* is reported for until the deadline reported with it, within the same    *)
(* tolerance: no countdown shown to users outlives its lock.               *)
ReportedDeadlineHolds ==
  \A s \in Reported(now) :
    /\ score[s] = deadline[lock[s]]
    /\ until[s] + MaxSkew + (Second - 1) >= score[s]

-----------------------------------------------------------------------------
(* Refinement                                                              *)

(* The holders of seats, as HoldTable and so Checkout see them: a holder's *)
(* promise is past when its deadline is, less the same tolerance.          *)
Table == INSTANCE HoldTable WITH
  owner <- lock,
  used <- {h \in Holders : step[h] \notin {"idle", "asked"}},
  past <- {h \in Holders : /\ step[h] # "idle"
                           /\ deadline[h] <= now + MaxSkew + (Second - 1)}

(* The scripts take and give back a hold as a whole, its keys expire       *)
(* together and not too soon, and none is in two hands.                    *)
LocksAtomically == Table!Spec
=============================================================================
