------------------------- MODULE TokenBucketProofs -------------------------
(***************************************************************************)
(* Proofs about TokenBucket, for any limit, any number of callers and      *)
(* requests, and any clocks and delays within the slack: the buckets never *)
(* grant more than they may, and what a refused caller is told falls short *)
(* of the truth by a second and the clocks' difference at most.            *)
(***************************************************************************)
EXTENDS TokenBucket, TLAPS

USE BucketAssumption

(* A request that is on its way was stamped in the past, by a clock that   *)
(* is ahead by MaxSkew at most.                                            *)
StampsFair ==
  \A r \in Requests :
    req[r] = "sent" => /\ issued[r] <= time
                       /\ issued[r] <= stamp[r]
                       /\ stamp[r] <= issued[r] + MaxSkew

(* A bucket is kept for Ttl from its last request on.                      *)
KeptForTtl ==
  \A k \in Callers :
    IF deadline[k] = 0 THEN spent[k] = 0 /\ promised[k] = 0
    ELSE updated[k] + Ttl <= deadline[k] + MaxSkew

(* What is left in a bucket counts as granted already.                     *)
AverageLeft ==
  \A k \in Callers :
    spent[k] + tokens[k] <= Capacity + (updated[k] - first[k]) + regained[k]

(* A promise is kept by the stored bucket itself, expired or not, and with *)
(* the millisecond to spare that makes up for every rounding.              *)
PromiseStored ==
  \A k \in Callers :
    promised[k] # 0 => tokens[k] + Later(promised[k], updated[k]) >= Cost + 1

IInv == TypeOK /\ StampsFair /\ KeptForTtl /\ AverageLeft /\ PromiseStored

-----------------------------------------------------------------------------
(* A bucket is kept until it would be full, and for the slack.             *)
LEMMA TtlCovers == Ttl \in Nat /\ Ttl >= Capacity + Slack
<1>1. Capacity \in Nat
  BY DEF Capacity
<1>2. \A n \in Nat : /\ ((n + Second - 1) \div Second) * Second \in Nat
                     /\ ((n + Second - 1) \div Second) * Second >= n
  BY Z3
<1>. QED
  BY <1>1, <1>2 DEF Ttl

(* The header tells less than it should by no more than a second's part.   *)
LEMMA ToldIsClose ==
  ASSUME NEW ms \in Nat
  PROVE  Told(ms) \in Nat /\ Told(ms) + Second >= ms + 1
<1>1. /\ (ms \div Second) * Second \in Nat
      /\ (ms \div Second) * Second + Second >= ms + 1
  BY Z3
<1>. QED
  BY <1>1 DEF Told

LEMMA ConstantsAreNat ==
  /\ Capacity \in Nat /\ Cost \in Nat /\ Cost >= 1 /\ Cost <= Capacity
  /\ MaxSkew \in Nat /\ MaxDelay \in Nat /\ Slack \in Nat /\ Second \in Nat
  /\ MaxSkew + MaxDelay <= Slack
  /\ Ttl \in Nat /\ Ttl >= Capacity + Slack /\ Ttl >= 1
  /\ \A i \in Instances : Skew[i] \in Nat /\ Skew[i] <= MaxSkew
<1>1. Capacity \in Nat /\ Cost <= Capacity
  BY DEF Capacity
<1>2. QED
  BY <1>1, TtlCovers

(* What a bucket holds when a request stamped now finds it: at most its    *)
(* capacity, and no more than it held and the time it was not looked at.   *)
LEMMA RefilledBounds ==
  ASSUME TypeOK, NEW k \in Callers, NEW now \in Nat
  PROVE  /\ Refilled(k, now) \in 0..Capacity
         /\ ~Gone(k) => /\ Refilled(k, now) <= tokens[k] + Later(now, updated[k])
                        /\ \/ Refilled(k, now) = tokens[k] + Later(now, updated[k])
                           \/ Refilled(k, now) = Capacity
         /\ Gone(k) => Refilled(k, now) = Capacity
<1>1. tokens[k] \in 0..Capacity /\ updated[k] \in Nat
  BY DEF TypeOK
<1>2. Later(now, updated[k]) \in Nat
  BY <1>1 DEF Later
<1>3. QED
  BY <1>1, <1>2, ConstantsAreNat DEF Refilled

(* What is left, and that only a bucket that was not capped is refused.    *)
LEMMA SidesMatter ==
  ASSUME TypeOK, NEW k \in Callers, NEW now \in Nat, NEW s \in Sides(k, now)
  PROVE  /\ s \in {-1, 0, 1}
         /\ Left(k, now, s) \in 0..Capacity
         /\ Left(k, now, s) = IF Enough(Refilled(k, now), s)
                              THEN Refilled(k, now) - Cost ELSE Refilled(k, now)
         /\ ~Enough(Refilled(k, now), s) =>
              /\ ~Gone(k)
              /\ Refilled(k, now) = tokens[k] + Later(now, updated[k])
              /\ Refilled(k, now) <= Cost
<1>1. tokens[k] \in 0..Capacity /\ updated[k] \in Nat /\ side[k] \in {-1, 0, 1}
  BY DEF TypeOK
<1>2. Later(now, updated[k]) \in Nat
  BY <1>1 DEF Later
<1>3. Refilled(k, now) \in 0..Capacity
  BY RefilledBounds
<1>4. s \in {-1, 0, 1}
  BY <1>1, <1>2, ConstantsAreNat DEF Sides
<1>5. Enough(Refilled(k, now), s) => Refilled(k, now) >= Cost
  BY <1>3, ConstantsAreNat DEF Enough
<1>6. ASSUME Gone(k) \/ tokens[k] + Later(now, updated[k]) > Capacity
      PROVE  Enough(Refilled(k, now), s)
  <2>1. s = 0
    BY <1>1, <1>2, <1>6, ConstantsAreNat DEF Sides
  <2>2. Refilled(k, now) = Capacity
    BY <1>6 DEF Refilled
  <2>. QED
    BY <2>1, <2>2, ConstantsAreNat DEF Enough
<1>7. ~Enough(Refilled(k, now), s) => Refilled(k, now) <= Cost
  BY <1>3, ConstantsAreNat DEF Enough
<1>. QED
  BY <1>3, <1>4, <1>5, <1>6, <1>7, ConstantsAreNat DEF Left, Refilled

LEMMA IInvInit == Init => IInv
  BY ConstantsAreNat DEF Init, IInv, TypeOK, StampsFair, KeptForTtl, AverageLeft,
     PromiseStored

LEMMA IInvArrive ==
  ASSUME IInv, NEW r \in Requests, NEW k \in Callers, NEW i \in Instances,
         Arrive(r, k, i)
  PROVE  IInv'
<1> USE DEF bucketVars, histVars
<1>1. time \in Nat /\ Skew[i] \in Nat /\ Skew[i] <= MaxSkew
  BY ConstantsAreNat DEF IInv, TypeOK
<1>2. TypeOK'
  BY <1>1 DEF IInv, TypeOK, Arrive
<1>3. StampsFair'
  BY <1>1, ConstantsAreNat DEF IInv, TypeOK, StampsFair, Arrive
<1>4. KeptForTtl' /\ AverageLeft' /\ PromiseStored'
  BY DEF IInv, KeptForTtl, AverageLeft, PromiseStored, Arrive
<1>5. QED
  BY <1>2, <1>3, <1>4 DEF IInv

(* The script's step, for the bucket it touches.                           *)
LEMMA IInvDecide ==
  ASSUME IInv, NEW r \in Requests, Decide(r)
  PROVE  IInv'
<1> DEFINE k == caller[r]
           now == stamp[r]
           has == Refilled(k, now)
<1>0. TypeOK
  BY DEF IInv
<1>1. /\ k \in Callers /\ now \in Nat /\ time \in Nat /\ issued[r] \in Nat
      /\ tokens[k] \in Nat /\ tokens[k] <= Capacity /\ updated[k] \in Nat
      /\ deadline[k] \in Nat /\ spent[k] \in Nat /\ first[k] \in Nat
      /\ regained[k] \in Nat /\ promised[k] \in Nat
  BY <1>0, ConstantsAreNat DEF TypeOK
<1>2. /\ issued[r] <= time /\ time <= issued[r] + MaxDelay
      /\ issued[r] <= now /\ now <= issued[r] + MaxSkew
  BY DEF Decide, IInv, StampsFair
<1>3. /\ has \in Nat /\ has <= Capacity
      /\ ~Gone(k) => /\ has <= tokens[k] + Later(now, updated[k])
                     /\ \/ has = tokens[k] + Later(now, updated[k])
                        \/ has = Capacity
      /\ Gone(k) => has = Capacity
  BY <1>0, <1>1, RefilledBounds, ConstantsAreNat
<1>s. PICK s \in Sides(k, now) : Script(r, s) /\ Answer(k, has, s)
  BY DEF Decide
<1>4. /\ s \in {-1, 0, 1}
      /\ Left(k, now, s) = (IF Enough(has, s) THEN has - Cost ELSE has)
      /\ Left(k, now, s) \in 0..Capacity
      /\ ~Enough(has, s) => /\ ~Gone(k) /\ has <= Cost
                            /\ has = tokens[k] + Later(now, updated[k])
  BY <1>0, <1>1, <1>s, SidesMatter
<1>5. /\ tokens' = [tokens EXCEPT ![k] = Left(k, now, s)]
      /\ side' = [side EXCEPT ![k] = s]
      /\ updated' = [updated EXCEPT ![k] = now]
      /\ deadline' = [deadline EXCEPT ![k] = time + Ttl]
      /\ spent' = [spent EXCEPT ![k] = IF Enough(has, s) THEN @ + Cost ELSE @]
      /\ first' = [first EXCEPT ![k] = IF deadline[k] = 0 THEN now ELSE @]
      /\ regained' = [regained EXCEPT ![k] =
                        IF deadline[k] = 0 THEN 0 ELSE @ + Later(updated[k], now)]
  BY <1>s DEF Script
<1>p. PICK p \in Nat :
        /\ promised' = [promised EXCEPT ![k] = p]
        /\ Enough(has, s) => p = 0
        /\ ~Enough(has, s) => \/ p = promised[k] /\ promised[k] # 0
                              \/ p + has >= now + Cost + 1
  <2>1. CASE Enough(has, s)
    BY <1>s, <2>1 DEF Answer
  <2>2. CASE ~Enough(has, s)
    <3>1. PICK ms \in RetryAfters(has) :
            LET sure == time + Told(ms) + Patience IN
            promised' = [promised EXCEPT ![k] =
                           IF @ # 0 /\ @ < sure THEN @ ELSE sure]
      BY <1>s, <2>2 DEF Answer
    <3>2. ms \in Nat /\ ms + has >= Cost
      BY <1>3, <1>4, <2>2, ConstantsAreNat DEF RetryAfters
    <3>3. Told(ms) \in Nat /\ Told(ms) + Second >= ms + 1
      BY <3>2, ToldIsClose
    <3> DEFINE sure == time + Told(ms) + Patience
    <3>4. sure \in Nat /\ sure + has >= now + Cost + 1
      BY <1>1, <1>2, <1>3, <3>2, <3>3, ConstantsAreNat DEF Patience
    <3>5. CASE promised[k] # 0 /\ promised[k] < sure
      <4>1. promised' = [promised EXCEPT ![k] = promised[k]]
        BY <1>0, <1>1, <3>1, <3>5 DEF TypeOK
      <4>. QED
        BY <1>1, <2>2, <3>5, <4>1
    <3>6. CASE ~(promised[k] # 0 /\ promised[k] < sure)
      <4>1. promised' = [promised EXCEPT ![k] = sure]
        BY <1>0, <1>1, <3>1, <3>6 DEF TypeOK
      <4>. QED
        BY <2>2, <3>4, <4>1
    <3>. QED
      BY <3>5, <3>6
  <2>. QED
    BY <2>1, <2>2
<1>6. /\ time' = time /\ caller' = caller
      /\ req' = [req EXCEPT ![r] = "over"]
      /\ issued' = [issued EXCEPT ![r] = 0] /\ stamp' = [stamp EXCEPT ![r] = 0]
  BY DEF Decide, Ends
<1>7. Later(now, updated[k]) \in Nat /\ Later(updated[k], now) \in Nat
      /\ Later(now, updated[k]) - Later(updated[k], now) = now - updated[k]
  BY <1>1 DEF Later
<1>8. tokens'[k] = Left(k, now, s) /\ updated'[k] = now
      /\ deadline'[k] = time + Ttl
  BY <1>0, <1>1, <1>5 DEF TypeOK
<1>9. /\ spent'[k] = IF Enough(has, s) THEN spent[k] + Cost ELSE spent[k]
      /\ first'[k] = IF deadline[k] = 0 THEN now ELSE first[k]
      /\ regained'[k] = IF deadline[k] = 0 THEN 0
                        ELSE regained[k] + Later(updated[k], now)
      /\ promised'[k] = p
  BY <1>0, <1>1, <1>5, <1>p DEF TypeOK
<1>10. \A c \in Callers \ {k} :
         /\ tokens'[c] = tokens[c] /\ updated'[c] = updated[c]
         /\ deadline'[c] = deadline[c] /\ spent'[c] = spent[c]
         /\ first'[c] = first[c] /\ regained'[c] = regained[c]
         /\ promised'[c] = promised[c]
  BY <1>0, <1>5, <1>p DEF TypeOK
<1>11. TypeOK'
  <2>1. /\ spent'[k] \in Nat /\ first'[k] \in Nat /\ regained'[k] \in Nat
        /\ time + Ttl \in Nat
    BY <1>1, <1>3, <1>7, <1>9, ConstantsAreNat
  <2>2. /\ spent' \in [Callers -> Nat] /\ first' \in [Callers -> Nat]
        /\ regained' \in [Callers -> Nat] /\ promised' \in [Callers -> Nat]
    BY <1>0, <1>5, <1>9, <1>p, <2>1 DEF TypeOK
  <2>3. /\ tokens' \in [Callers -> 0..Capacity]
        /\ side' \in [Callers -> {-1, 0, 1}]
        /\ updated' \in [Callers -> Nat] /\ deadline' \in [Callers -> Nat]
    BY <1>0, <1>1, <1>4, <1>5, <2>1 DEF TypeOK
  <2>4. QED
    BY <1>0, <1>6, <2>2, <2>3 DEF TypeOK
<1>12. StampsFair'
  BY <1>0, <1>6 DEF IInv, StampsFair, TypeOK
<1>13. KeptForTtl'
  <2>1. deadline'[k] # 0 /\ updated'[k] + Ttl <= deadline'[k] + MaxSkew
    BY <1>1, <1>2, <1>8, ConstantsAreNat
  <2>2. QED
    BY <1>10, <2>1 DEF IInv, KeptForTtl
<1>14. AverageLeft'
  <2>1. spent[k] + tokens[k] <= Capacity + (updated[k] - first[k]) + regained[k]
    BY <1>1 DEF IInv, AverageLeft
  <2>2. spent'[k] + tokens'[k] = spent[k] + has
    BY <1>1, <1>3, <1>4, <1>8, <1>9, ConstantsAreNat
  <2>3. spent'[k] + tokens'[k] <= Capacity + (updated'[k] - first'[k]) + regained'[k]
    <3>1. CASE deadline[k] = 0
      BY <1>1, <1>3, <1>8, <1>9, <2>2, <3>1, ConstantsAreNat DEF IInv, KeptForTtl
    <3>2. CASE deadline[k] # 0 /\ ~Gone(k)
      BY <1>1, <1>3, <1>7, <1>8, <1>9, <2>1, <2>2, <3>2, ConstantsAreNat
    <3>3. CASE deadline[k] # 0 /\ Gone(k)
      <4>1. updated[k] + Ttl <= time + MaxSkew
        BY <1>1, <3>3, ConstantsAreNat DEF IInv, KeptForTtl, Gone
      <4>2. updated[k] + Capacity <= now
        BY <1>1, <1>2, <4>1, ConstantsAreNat
      <4>3. QED
        BY <1>1, <1>3, <1>7, <1>8, <1>9, <2>1, <2>2, <3>3, <4>2, ConstantsAreNat
    <3>4. QED
      BY <3>1, <3>2, <3>3
  <2>4. QED
    BY <1>10, <2>3 DEF IInv, AverageLeft
<1>15. PromiseStored'
  <2>1. CASE Enough(has, s)
    BY <1>9, <1>10, <1>p, <2>1 DEF IInv, PromiseStored
  <2>2. CASE ~Enough(has, s)
    <3>1. tokens'[k] = has /\ has = tokens[k] + Later(now, updated[k])
      BY <1>4, <1>8, <2>2
    <3>2. tokens'[k] + Later(promised'[k], updated'[k]) >= Cost + 1
      <4>1. CASE p + has >= now + Cost + 1
        BY <1>1, <1>3, <1>8, <1>9, <1>p, <3>1, <4>1, ConstantsAreNat DEF Later
      <4>2. CASE p = promised[k] /\ promised[k] # 0
        <5>1. tokens[k] + Later(promised[k], updated[k]) >= Cost + 1
          BY <1>1, <4>2 DEF IInv, PromiseStored
        <5>2. QED
          BY <1>1, <1>8, <1>9, <3>1, <4>2, <5>1, ConstantsAreNat DEF Later
      <4>3. QED
        BY <1>p, <2>2, <4>1, <4>2
    <3>3. QED
      BY <1>10, <3>2 DEF IInv, PromiseStored
  <2>3. QED
    BY <2>1, <2>2
<1>16. QED
  BY <1>11, <1>12, <1>13, <1>14, <1>15 DEF IInv

LEMMA IInvNext == IInv /\ [Next]_vars => IInv'
<1> SUFFICES ASSUME IInv, [Next]_vars
             PROVE  IInv'
  OBVIOUS
<1> USE DEF bucketVars, reqVars, histVars
<1>1. CASE Tick
  BY <1>1 DEF Tick, IInv, TypeOK, StampsFair, KeptForTtl, AverageLeft,
     PromiseStored
<1>2. ASSUME NEW r \in Requests, FailOpen(r)
      PROVE  IInv'
  <2>1. TypeOK' /\ StampsFair'
    BY <1>2 DEF FailOpen, Ends, IInv, TypeOK, StampsFair
  <2>2. KeptForTtl' /\ AverageLeft' /\ PromiseStored'
    BY <1>2 DEF FailOpen, IInv, KeptForTtl, AverageLeft, PromiseStored
  <2>3. QED
    BY <2>1, <2>2 DEF IInv
<1>3. CASE UNCHANGED vars
  BY <1>3 DEF vars, IInv, TypeOK, StampsFair, KeptForTtl, AverageLeft,
     PromiseStored
<1>4. QED
  BY <1>1, <1>2, <1>3, IInvArrive, IInvDecide DEF Next

THEOREM InvariantHolds == Spec => []IInv
  BY IInvInit, IInvNext, PTL DEF Spec

(* The buckets stay within 0 and their capacity.                           *)
THEOREM BucketsTyped == Spec => []TypeOK
<1>1. IInv => TypeOK
  BY DEF IInv
<1>2. QED
  BY <1>1, InvariantHolds, PTL

(* No caller gets more than the burst and the refill, plus what is         *)
(* refilled twice because a stamp went back; in particular forgetting a    *)
(* bucket gives nothing away, as the slack covers clocks and delays.       *)
THEOREM AverageIsHeld == Spec => []AverageHolds
<1>1. IInv => AverageHolds
  <2> SUFFICES ASSUME IInv, NEW k \in Callers
               PROVE  spent[k] <= Capacity + (updated[k] - first[k]) + regained[k]
    BY DEF AverageHolds
  <2>1. /\ spent[k] \in Nat /\ tokens[k] \in Nat /\ updated[k] \in Nat
        /\ first[k] \in Nat /\ regained[k] \in Nat
    BY ConstantsAreNat DEF IInv, TypeOK
  <2>2. QED
    BY <2>1, ConstantsAreNat DEF IInv, AverageLeft
<1>2. QED
  BY <1>1, InvariantHolds, PTL

(* Who waits for as long as the header says, for the second it may be cut  *)
(* by, and for the clocks' difference, and is not overtaken, is served.    *)
THEOREM PromisesAreKept == Spec => []PromiseKept
<1>1. IInv => PromiseKept
  <2> SUFFICES ASSUME IInv, NEW k \in Callers, promised[k] # 0,
                      NEW i \in Instances,
                      NEW s \in Sides(k, promised[k] + Skew[i])
               PROVE  Enough(Refilled(k, promised[k] + Skew[i]), s)
    BY DEF PromiseKept
  <2> DEFINE now == promised[k] + Skew[i]
  <2>1. /\ TypeOK /\ promised[k] \in Nat /\ tokens[k] \in Nat
        /\ updated[k] \in Nat /\ now \in Nat /\ now >= promised[k]
    BY ConstantsAreNat DEF IInv, TypeOK
  <2>2. tokens[k] + Later(promised[k], updated[k]) >= Cost + 1
    BY DEF IInv, PromiseStored
  <2>3. tokens[k] + Later(now, updated[k]) > Cost
    BY <2>1, <2>2, ConstantsAreNat DEF Later
  <2>4. ~Enough(Refilled(k, now), s) =>
          tokens[k] + Later(now, updated[k]) <= Cost
    BY <2>1, SidesMatter
  <2>5. QED
    BY <2>1, <2>3, <2>4, ConstantsAreNat DEF Later
<1>2. QED
  BY <1>1, InvariantHolds, PTL
=============================================================================
