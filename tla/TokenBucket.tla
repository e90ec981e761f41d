---------------------------- MODULE TokenBucket ----------------------------
(***************************************************************************)
(* The rate limiter: RateLimit stamps a request with the clock of its own  *)
(* process and asks Redis, where a script keeps one token bucket for each  *)
(* scope and caller.  Requests overtake each other on the way to Redis,    *)
(* and the clocks of two processes differ.                                 *)
(*                                                                         *)
(* Time is in milliseconds, and so are tokens: a token is worth the Cost   *)
(* milliseconds it takes to refill.  The script computes in doubles.  What *)
(* their rounding amounts to, even over a great many refills, is far less  *)
(* than is refilled in a millisecond, but it decides comparisons with a    *)
(* whole token and how a quotient is rounded up.  So of a double the model *)
(* has the whole milliseconds it should be, and on which side of them it   *)
(* came out, which is anybody's guess whenever something was added.        *)
(*                                                                         *)
(* Limits of zero, which let everything pass, and the headers that tell    *)
(* how many tokens are left are left out.                                  *)
(***************************************************************************)
EXTENDS Integers

CONSTANTS
  Callers,    \* bucket keys: a scope and a user or address
  Requests,   \* requests of one behaviour
  Instances,  \* processes of the backend
  Skew,       \* Skew[i] : how far the clock of i is ahead of the slowest
  MaxSkew,    \* the largest of them
  MaxDelay,   \* longest time from stamp to script; go-redis gives up then
  Burst,      \* Limit.Burst
  Cost,       \* milliseconds to refill one token, from Limit.PerSecond
  Second,     \* milliseconds in a second
  Slack,      \* the seconds a bucket is kept beyond a full refill
  MaxTime     \* bound on the time of one behaviour

Capacity == Burst * Cost

(* "+ 60" seconds: more than clocks and requests are late by.  A token     *)
(* takes whole milliseconds: 6000, 250 and 1000 with the default limits.   *)
ASSUME BucketAssumption ==
  /\ MaxSkew \in Nat /\ MaxDelay \in Nat /\ Slack \in Nat
  /\ MaxSkew + MaxDelay <= Slack
  /\ Skew \in [Instances -> 0..MaxSkew]
  /\ Burst \in Nat \ {0} /\ Cost \in Nat \ {0} /\ Second \in Nat \ {0}
  /\ MaxTime \in Nat

VARIABLES
  time,      \* true time, and that of the slowest clock
  \* the hash under ratelimit:<k>
  tokens,    \* tokens[k], in whole milliseconds
  side,      \* side[k]     : the double is -1 below, 0 at, or 1 above that
  updated,   \* updated[k]
  deadline,  \* deadline[k] : when the hash expires; it is gone from then on
  \* requests
  req,       \* req[r]      : "idle", "sent" to the script, or "over"
  caller,    \* caller[r]   : the bucket r takes from
  issued,    \* issued[r]   : when r was stamped
  stamp,     \* stamp[r]    : the time it was stamped with
  \* history
  spent,     \* spent[k]    : tokens the script granted, since ever
  first,     \* first[k]    : the stamp of k's first request
  regained,  \* regained[k] : time by which stamps went back
  promised   \* promised[k] : when the first of the callers refused a token is
             \*               sure to find one, from what it was told; 0 once
             \*               a request is allowed

bucketVars == <<tokens, side, updated, deadline>>
reqVars    == <<req, caller, issued, stamp>>
histVars   == <<spent, first, regained, promised>>
vars == <<time, tokens, side, updated, deadline, req, caller, issued, stamp,
          spent, first, regained, promised>>

TypeOK ==
  /\ time \in Nat
  /\ tokens \in [Callers -> 0..Capacity]
  /\ side \in [Callers -> {-1, 0, 1}]
  /\ updated \in [Callers -> Nat]
  /\ deadline \in [Callers -> Nat]
  /\ req \in [Requests -> {"idle", "sent", "over"}]
  /\ caller \in [Requests -> Callers]
  /\ issued \in [Requests -> Nat]
  /\ stamp \in [Requests -> Nat]
  /\ spent \in [Callers -> Nat]
  /\ first \in [Callers -> Nat]
  /\ regained \in [Callers -> Nat]
  /\ promised \in [Callers -> Nat]

Init ==
  /\ time = 0
  /\ tokens = [k \in Callers |-> 0]
  /\ side = [k \in Callers |-> 0]
  /\ updated = [k \in Callers |-> 0]
  /\ deadline = [k \in Callers |-> 0]
  /\ req = [r \in Requests |-> "idle"]
  /\ caller \in [Requests -> Callers]
  /\ issued = [r \in Requests |-> 0]
  /\ stamp = [r \in Requests |-> 0]
  /\ spent = [k \in Callers |-> 0]
  /\ first = [k \in Callers |-> 0]
  /\ regained = [k \in Callers |-> 0]
  /\ promised = [k \in Callers |-> 0]

-----------------------------------------------------------------------------
(* RateLimit and Limiter.Allow: the request reads the clock of its process *)
(* before the script is sent.                                              *)
Arrive(r, k, i) ==
  /\ req[r] = "idle"
  /\ req' = [req EXCEPT ![r] = "sent"]
  /\ caller' = [caller EXCEPT ![r] = k]
  /\ issued' = [issued EXCEPT ![r] = time]
  /\ stamp' = [stamp EXCEPT ![r] = time + Skew[i]]
  /\ UNCHANGED <<time, bucketVars, histVars>>

Gone(k) == deadline[k] <= time

Later(m, n) == IF m > n THEN m - n ELSE 0

(* Mutant of Refilled: an idle bucket grows beyond its capacity.           *)
RefilledUncapped(k, now) ==
  IF Gone(k) THEN Capacity ELSE tokens[k] + Later(now, updated[k])

(* What the script finds: a full bucket for an unseen caller, and the time *)
(* since the last request added, but never beyond the capacity.            *)
Refilled(k, now) ==
  IF Gone(k) \/ tokens[k] + Later(now, updated[k]) > Capacity
  THEN Capacity ELSE tokens[k] + Later(now, updated[k])

(* How the refill can come out: a full bucket exactly, as a limit and not a *)
(* sum; with nothing added as it was; otherwise rounded either way, and    *)
(* never above the capacity.                                               *)
Sides(k, now) ==
  LET sum == tokens[k] + Later(now, updated[k]) IN
  CASE Gone(k) \/ sum > Capacity -> {0}
    [] ~Gone(k) /\ sum <= Capacity /\ now <= updated[k] -> {side[k]}
    [] ~Gone(k) /\ sum = Capacity /\ now > updated[k] -> {-1, 0}
    [] ~Gone(k) /\ sum < Capacity /\ now > updated[k] -> {-1, 0, 1}

(* tokens >= cost.  Taking one off is exact.                               *)
Enough(has, s) == has > Cost \/ (has = Cost /\ s >= 0)

(* Mutant of Left: a refusal drops what was refilled.                      *)
LeftUnlessRefused(k, now, s) ==
  IF Enough(Refilled(k, now), s) THEN Refilled(k, now) - Cost ELSE tokens[k]

Left(k, now, s) ==
  IF Enough(Refilled(k, now), s) THEN Refilled(k, now) - Cost
  ELSE Refilled(k, now)

(* Mutant of Ttl: a bucket is kept for the slack alone.                    *)
TtlTooShort == Slack

(* EXPIRE counts in seconds.  (A quotient that is rounded up to the next   *)
(* of them keeps a full bucket a second longer, which changes nothing.)    *)
Ttl == ((Capacity + Second - 1) \div Second) * Second + Slack

(* What is missing for one token, rounded up to a millisecond: to the one  *)
(* it should be, or to the next.  A token missed by a rounding is not 0.   *)
RetryAfters(has) == {Cost - has, Cost - has + 1} \ {0}

(* The Retry-After header of a refusal: ms cut to whole seconds, but one   *)
(* at least.                                                               *)
Told(ms) == IF ms < Second THEN Second ELSE (ms \div Second) * Second

(* What a caller has to add to the header to be sure: the part of a second *)
(* that was cut off, and the clock of another instance.                    *)
Patience == Second + MaxSkew

(* The script, as one step: refill, take a token or say how long one is    *)
(* missing, store the bucket with the request's stamp, even if that is     *)
(* older than the stored one, and let it expire when it would be full.     *)
Script(r, s) ==
  LET k == caller[r]
      now == stamp[r]
      has == Refilled(k, now)
  IN
  /\ tokens' = [tokens EXCEPT ![k] = Left(k, now, s)]
  /\ side' = [side EXCEPT ![k] = s]
  /\ updated' = [updated EXCEPT ![k] = now]
  /\ deadline' = [deadline EXCEPT ![k] = time + Ttl]
  /\ spent' = [spent EXCEPT ![k] = IF Enough(has, s) THEN @ + Cost ELSE @]
  /\ first' = [first EXCEPT ![k] = IF deadline[k] = 0 THEN now ELSE @]
  /\ regained' = [regained EXCEPT ![k] =
                    IF deadline[k] = 0 THEN 0 ELSE @ + Later(updated[k], now)]

(* The middleware passes the request on, or answers 429 with Retry-After.  *)
Answer(k, has, s) ==
  \/ /\ Enough(has, s)
     /\ promised' = [promised EXCEPT ![k] = 0]
  \/ /\ ~Enough(has, s)
     /\ \E ms \in RetryAfters(has) :
          LET sure == time + Told(ms) + Patience IN
          promised' = [promised EXCEPT ![k] =
                         IF @ # 0 /\ @ < sure THEN @ ELSE sure]

(* The request is over.                                                    *)
Ends(r) ==
  /\ req' = [req EXCEPT ![r] = "over"]
  /\ issued' = [issued EXCEPT ![r] = 0]
  /\ stamp' = [stamp EXCEPT ![r] = 0]
  /\ UNCHANGED <<time, caller>>

(* The script runs in time.  Should its reply get lost, the request is     *)
(* served, whatever the bucket said.                                       *)
Decide(r) ==
  /\ req[r] = "sent"
  /\ time <= issued[r] + MaxDelay
  /\ \E s \in Sides(caller[r], stamp[r]) :
       /\ Script(r, s)
       /\ Answer(caller[r], Refilled(caller[r], stamp[r]), s)
  /\ Ends(r)

(* A call that never reaches the script lets the request pass.             *)
FailOpen(r) ==
  /\ req[r] = "sent"
  /\ Ends(r)
  /\ UNCHANGED <<bucketVars, histVars>>

Tick ==
  /\ time < MaxTime
  /\ time' = time + 1
  /\ UNCHANGED <<bucketVars, reqVars, histVars>>

Next ==
  \/ Tick
  \/ \E r \in Requests :
       \/ \E k \in Callers, i \in Instances : Arrive(r, k, i)
       \/ Decide(r) \/ FailOpen(r)

Spec == Init /\ [][Next]_vars

-----------------------------------------------------------------------------
(* tokenbucket.lua: "a short burst up to the bucket's capacity while       *)
(* holding the long-run average at the refill rate".  What a caller was    *)
(* granted never exceeds the capacity, what was refilled since its first   *)
(* request, and what was refilled twice because a stamp went back.  So an  *)
(* expired bucket was full, and concurrent requests share one allowance.   *)
AverageHolds ==
  \A k \in Callers :
    spent[k] <= Capacity + (updated[k] - first[k]) + regained[k]

(* A refused caller that adds its patience to the Retry-After it was told  *)
(* finds a token at any instance, unless somebody took one in between, and *)
(* however many early or overtaken requests are refused meanwhile.  Less   *)
(* would not do: the header is cut to seconds, and refills are rounded.    *)
PromiseKept ==
  \A k \in Callers :
    promised[k] # 0 =>
      \A i \in Instances : LET now == promised[k] + Skew[i] IN
        \A s \in Sides(k, now) : Enough(Refilled(k, now), s)
=============================================================================
