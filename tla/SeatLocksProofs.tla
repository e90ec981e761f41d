-------------------------- MODULE SeatLocksProofs --------------------------
(***************************************************************************)
(* For any number of seats and holders, any TTL and any skew: a hold keeps *)
(* its seats until the deadline it was promised, and the seat map shows    *)
(* it.  The three invariants are consequences of one inductive invariant,  *)
(* which relates each lock to the hold behind it, to its member of the     *)
(* reserved set and to the expiry of that set.  With the fact that the     *)
(* keys of a hold expire together it makes the scripts implement HoldTable.*)
(***************************************************************************)
EXTENDS SeatLocks, TLAPS

(* What the cut to whole seconds leaves of the TTL.                        *)
LEMMA LockTtlRounds ==
  /\ LockTtl \in Nat
  /\ LockTtl <= Ttl
  /\ Ttl <= LockTtl + (Second - 1)
<1>1. Ttl \in Nat /\ Second \in Nat /\ Second > 0
  BY SeatLocksAssumption
<1>. QED
  BY <1>1, Z3 DEF LockTtl

(* A live lock backs a hold, and is covered by the reserved set.           *)
LockInv(s) ==
  LET h == lock[s] IN
  h # None =>
    /\ step[h] = "held" /\ s \in want[h]
    /\ now < until[s] /\ until[s] <= now + LockTtl
    /\ deadline[h] <= until[s] + MaxSkew + (Second - 1)
    /\ until[s] <= setUntil
    /\ score[s] \in {0, deadline[h]}
    /\ now + MaxSkew < deadline[h] => score[s] = deadline[h]

(* A deadline computed is not later than one computed now would be.        *)
AskedInv(h) == step[h] = "asked" => deadline[h] <= now + MaxSkew + Ttl

IInv ==
  /\ TypeOK
  /\ \A s \in Seats : LockInv(s)
  /\ \A h \in Holders : AskedInv(h)
  /\ PromiseKept

LEMMA InitInv == Init => IInv
<1>. SUFFICES ASSUME Init PROVE IInv
  OBVIOUS
<1>1. TypeOK
  BY DEF Init, TypeOK, Steps
<1>2. (\A s \in Seats : LockInv(s)) /\ (\A h \in Holders : AskedInv(h))
  BY DEF Init, LockInv, AskedInv
<1>3. PromiseKept
  BY DEF Init, PromiseKept
<1>. QED
  BY <1>1, <1>2, <1>3 DEF IInv

LEMMA AskInv ==
  ASSUME IInv, NEW h \in Holders, NEW S \in SUBSET Seats,
         NEW skew \in 0..MaxSkew, Ask(h, S, skew)
  PROVE  IInv'
<1>. USE SeatLocksAssumption, LockTtlRounds
<1>1. TypeOK'
  BY DEF IInv, TypeOK, Ask, Steps
<1>2. ASSUME NEW s \in Seats PROVE LockInv(s)'
  BY DEF IInv, TypeOK, LockInv, Ask
<1>3. ASSUME NEW g \in Holders PROVE AskedInv(g)'
  BY DEF IInv, TypeOK, AskedInv, Ask
<1>4. PromiseKept'
  BY DEF IInv, TypeOK, PromiseKept, Missing, Ask
<1>. QED
  BY <1>1, <1>2, <1>3, <1>4 DEF IInv

LEMMA AcquireInv ==
  ASSUME IInv, NEW h \in Holders, AcquireScript(h)
  PROVE  IInv'
<1>. USE SeatLocksAssumption, LockTtlRounds
<1>1. CASE \E s \in want[h] : lock[s] # None
  <2>1. UNCHANGED <<now, lock, until, score, setUntil, want, deadline>>
        /\ step' = [step EXCEPT ![h] = "refused"] /\ step[h] = "asked"
    BY <1>1 DEF AcquireScript
  <2>2. TypeOK'
    BY <2>1 DEF IInv, TypeOK, Steps
  <2>3. ASSUME NEW s \in Seats PROVE LockInv(s)'
    BY <2>1 DEF IInv, TypeOK, LockInv
  <2>4. ASSUME NEW g \in Holders PROVE AskedInv(g)'
    BY <2>1 DEF IInv, TypeOK, AskedInv
  <2>5. PromiseKept'
    BY <2>1 DEF IInv, TypeOK, PromiseKept, Missing
  <2>. QED
    BY <2>2, <2>3, <2>4, <2>5 DEF IInv
<1>2. CASE \A s \in want[h] : lock[s] = None
  <2>1. /\ step[h] = "asked"
        /\ lock' = [s \in Seats |-> IF s \in want[h] THEN h ELSE lock[s]]
        /\ until' = [s \in Seats |-> IF s \in want[h] THEN now + LockTtl
                                     ELSE until[s]]
        /\ score' = [s \in Seats |-> IF s \in want[h] THEN deadline[h]
                                     ELSE score[s]]
        /\ setUntil' = now + LockTtl + Slack
        /\ step' = [step EXCEPT ![h] = "held"]
        /\ UNCHANGED <<now, want, deadline>>
    BY <1>2 DEF AcquireScript, Scored, SetLife
  <2>2. TypeOK'
    BY <2>1 DEF IInv, TypeOK, Steps
  <2>3. ASSUME NEW s \in Seats PROVE LockInv(s)'
    <3>1. CASE s \in want[h]
      <4>1. LockTtl > 0
        BY Z3 DEF LockTtl
      <4>. QED
        BY <2>1, <3>1, <4>1 DEF IInv, TypeOK, LockInv, AskedInv
    <3>2. CASE s \notin want[h]
      BY <2>1, <3>2 DEF IInv, TypeOK, LockInv
    <3>. QED
      BY <3>1, <3>2
  <2>4. ASSUME NEW g \in Holders PROVE AskedInv(g)'
    BY <2>1 DEF IInv, TypeOK, AskedInv
  <2>5. PromiseKept'
    <3>. SUFFICES ASSUME NEW g \in Holders, (step[g] = "held")', NEW s \in want[g],
                         now + MaxSkew + (Second - 1) < deadline[g]
                  PROVE  lock'[s] = g
      BY <2>1 DEF PromiseKept, Missing
    <3>1. s \in Seats
      BY DEF IInv, TypeOK
    <3>2. CASE g = h
      BY <2>1, <3>1, <3>2
    <3>3. CASE g # h
      <4>1. step[g] = "held"
        BY <2>1, <3>3 DEF IInv, TypeOK
      <4>2. lock[s] = g
        BY <4>1 DEF IInv, PromiseKept, Missing
      <4>. QED
        BY <1>2, <2>1, <3>1, <4>2
    <3>. QED
      BY <3>2, <3>3
  <2>. QED
    BY <2>2, <2>3, <2>4, <2>5 DEF IInv
<1>. QED
  BY <1>1, <1>2

LEMMA ReleaseInv ==
  ASSUME IInv, NEW h \in Holders, ReleaseScript(h)
  PROVE  IInv'
<1>. USE SeatLocksAssumption, LockTtlRounds
<1>1. TypeOK'
  BY DEF IInv, TypeOK, ReleaseScript, Steps
<1>2. ASSUME NEW s \in Seats PROVE LockInv(s)'
  <2>1. CASE s \in Own(h)
    BY <2>1 DEF IInv, TypeOK, LockInv, ReleaseScript
  <2>2. CASE s \notin Own(h)
    <3>1. lock'[s] = lock[s] /\ until'[s] = until[s] /\ score'[s] = score[s]
      BY <2>2 DEF ReleaseScript, IInv, TypeOK
    <3>2. lock[s] # None => lock[s] # h
      BY <2>2 DEF IInv, LockInv, Own
    <3>. QED
      BY <3>1, <3>2 DEF IInv, TypeOK, LockInv, ReleaseScript
  <2>. QED
    BY <2>1, <2>2
<1>3. ASSUME NEW g \in Holders PROVE AskedInv(g)'
  BY DEF IInv, TypeOK, AskedInv, ReleaseScript
<1>4. PromiseKept'
  BY DEF IInv, TypeOK, PromiseKept, Missing, Own, ReleaseScript
<1>. QED
  BY <1>1, <1>2, <1>3, <1>4 DEF IInv

LEMMA HeldInv ==
  ASSUME IInv, NEW skew \in 0..MaxSkew, HeldScript(skew)
  PROVE  IInv'
<1>. USE SeatLocksAssumption, LockTtlRounds
<1>1. TypeOK'
  BY DEF IInv, TypeOK, HeldScript
<1>2. ASSUME NEW s \in Seats PROVE LockInv(s)'
  BY DEF IInv, TypeOK, LockInv, HeldScript
<1>3. ASSUME NEW g \in Holders PROVE AskedInv(g)'
  BY DEF IInv, AskedInv, HeldScript
<1>4. PromiseKept'
  BY DEF IInv, PromiseKept, Missing, HeldScript
<1>. QED
  BY <1>1, <1>2, <1>3, <1>4 DEF IInv

LEMMA TickInv ==
  ASSUME IInv, Tick
  PROVE  IInv'
<1>. USE SeatLocksAssumption, LockTtlRounds
<1>1. TypeOK'
  BY DEF IInv, TypeOK, Tick
<1>2. ASSUME NEW s \in Seats PROVE LockInv(s)'
  <2>1. CASE until[s] > now + 1
    <3>1. lock[s] # None => score'[s] = score[s] /\ setUntil' = setUntil
      BY <2>1 DEF IInv, TypeOK, LockInv, Tick
    <3>. QED
      BY <2>1, <3>1 DEF IInv, TypeOK, LockInv, Tick
  <2>2. CASE ~(until[s] > now + 1)
    BY <2>2 DEF LockInv, Tick
  <2>. QED
    BY <2>1, <2>2
<1>3. ASSUME NEW g \in Holders PROVE AskedInv(g)'
  BY DEF IInv, TypeOK, AskedInv, Tick
<1>4. PromiseKept'
  <2>. SUFFICES ASSUME NEW g \in Holders, step[g] = "held", NEW s \in want[g],
                       now + 1 + MaxSkew + (Second - 1) < deadline[g]
                PROVE  lock'[s] = g
    BY DEF PromiseKept, Missing, Tick
  <2>1. s \in Seats
    BY DEF IInv, TypeOK
  <2>2. lock[s] = g
    BY DEF IInv, TypeOK, PromiseKept, Missing
  <2>3. until[s] > now + 1
    BY <2>1, <2>2 DEF IInv, TypeOK, LockInv
  <2>. QED
    BY <2>1, <2>2, <2>3 DEF Tick
<1>. QED
  BY <1>1, <1>2, <1>3, <1>4 DEF IInv

(* The inductive invariant holds throughout.                               *)
THEOREM InvariantHolds == Spec => []IInv
<1>1. IInv /\ [Next]_vars => IInv'
  <2>. SUFFICES ASSUME IInv, [Next]_vars PROVE IInv'
    OBVIOUS
  <2>1. CASE \E h \in Holders, S \in SUBSET Seats, skew \in 0..MaxSkew :
               Ask(h, S, skew)
    BY <2>1, AskInv
  <2>2. CASE \E h \in Holders : AcquireScript(h)
    BY <2>2, AcquireInv
  <2>3. CASE \E h \in Holders : ReleaseScript(h)
    BY <2>3, ReleaseInv
  <2>4. CASE \E skew \in 0..MaxSkew : HeldScript(skew)
    BY <2>4, HeldInv
  <2>5. CASE Tick
    BY <2>5, TickInv
  <2>6. CASE UNCHANGED vars
    BY <2>6 DEF vars, IInv, TypeOK, LockInv, AskedInv, PromiseKept, Missing
  <2>. QED
    BY <2>1, <2>2, <2>3, <2>4, <2>5, <2>6 DEF Next
<1>. QED
  BY <1>1, InitInv, PTL DEF Spec

(* Keys, scores and deadlines keep their types, for any clocks.            *)
THEOREM TypeCorrect == Spec => []TypeOK
<1>1. IInv => TypeOK
  BY DEF IInv
<1>. QED
  BY <1>1, InvariantHolds, PTL

(* A hold keeps every seat until the deadline its user was given, less the *)
(* clock skew and a fraction of a second, whatever other holders do.       *)
THEOREM HoldsArePromises == Spec => []PromiseKept
<1>1. IInv => PromiseKept
  BY DEF IInv
<1>. QED
  BY <1>1, InvariantHolds, PTL

(* The seat map of every instance shows such a seat as held.               *)
THEOREM HoldsAreShown == Spec => []HeldSeatsShown
<1>1. IInv => HeldSeatsShown
  <2>. SUFFICES ASSUME IInv, NEW s \in Seats, lock[s] # None,
                       now + MaxSkew < deadline[lock[s]]
                PROVE  /\ score[s] = deadline[lock[s]]
                       /\ \A skew \in 0..MaxSkew : s \in Reported(now + skew)
    BY DEF HeldSeatsShown
  <2>1. score[s] = deadline[lock[s]] /\ lock[s] \in Holders
    BY DEF IInv, LockInv, TypeOK
  <2>2. ASSUME NEW skew \in 0..MaxSkew PROVE score[s] > now + skew
    BY <2>1, SeatLocksAssumption DEF IInv, TypeOK
  <2>. QED
    BY <2>1, <2>2 DEF Reported
<1>. QED
  BY <1>1, InvariantHolds, PTL

(* No deadline shown in a seat map outlives the lock behind it by more     *)
(* than the same tolerance.                                                *)
THEOREM ShownDeadlinesHold == Spec => []ReportedDeadlineHolds
<1>1. IInv => ReportedDeadlineHolds
  <2>. SUFFICES ASSUME IInv, NEW s \in Reported(now)
                PROVE  /\ score[s] = deadline[lock[s]]
                       /\ until[s] + MaxSkew + (Second - 1) >= score[s]
    BY DEF ReportedDeadlineHolds
  <2>1. s \in Seats /\ score[s] > now /\ lock[s] # None
    BY DEF Reported
  <2>2. lock[s] \in Holders
    BY <2>1 DEF IInv, TypeOK
  <2>3. LockInv(s) /\ now \in Nat
    BY <2>1 DEF IInv, TypeOK
  <2>. QED
    BY <2>1, <2>2, <2>3, SeatLocksAssumption DEF LockInv, IInv, TypeOK
<1>. QED
  BY <1>1, InvariantHolds, PTL

-----------------------------------------------------------------------------
(* The table of holders                                                    *)

(* The keys of one hold expire at the same instant.                        *)
Together ==
  \A s, t \in Seats :
    lock[s] # None /\ lock[s] = lock[t] => until[s] = until[t]

(* What HoldTable calls used and past.                                     *)
Asked == {h \in Holders : step[h] \notin {"idle", "asked"}}

Past == {h \in Holders : /\ step[h] # "idle"
                         /\ deadline[h] <= now + MaxSkew + (Second - 1)}

LEMMA TogetherNext ==
  ASSUME IInv, Together, [Next]_vars
  PROVE  Together'
<1> USE DEF IInv, TypeOK, Together
<1>1. ASSUME NEW h \in Holders, AcquireScript(h) PROVE Together'
  <2>1. \A s \in Seats : lock[s] # h
    BY <1>1, SeatLocksAssumption DEF AcquireScript, LockInv
  <2>. QED
    BY <1>1, <2>1 DEF AcquireScript
<1>2. ASSUME NEW h \in Holders, ReleaseScript(h) PROVE Together'
  BY <1>2 DEF ReleaseScript
<1>3. CASE Tick
  BY <1>3 DEF Tick
<1>4. CASE UNCHANGED <<lock, until>>
  BY <1>4
<1>. QED
  BY <1>1, <1>2, <1>3, <1>4 DEF Next, Ask, HeldScript, vars

LEMMA TimeIsPass ==
  ASSUME UNCHANGED Asked, Past \subseteq Past', NEW H \in SUBSET Past',
         lock' = [s \in Seats |-> IF lock[s] \in H THEN None ELSE lock[s]]
  PROVE  Table!Next
<1>1. Past' \subseteq Holders
  BY DEF Past
<1>2. Table!Pass
  BY <1>1 DEF Table!Pass, Table!Without, Asked, Past
<1>. QED
  BY <1>2 DEF Table!Next

LEMMA AcquireIsTake ==
  ASSUME TypeOK, NEW h \in Holders, AcquireScript(h)
  PROVE  Table!Next
<1>1. h \notin Asked /\ Asked' = Asked \cup {h} /\ UNCHANGED Past
  BY DEF AcquireScript, Asked, Past, TypeOK
<1>2. CASE lock' = lock
  <2>1. Table!Forgo(h)
    BY <1>1, <1>2 DEF Table!Forgo, Asked, Past
  <2>. QED
    BY <2>1 DEF Table!Next
<1>3. CASE lock' # lock
  <2>1. Table!Take(h, want[h])
    BY <1>1, <1>3 DEF AcquireScript, Table!Take, Asked, Past
  <2>2. want[h] \in SUBSET Seats
    BY DEF TypeOK
  <2>. QED
    BY <2>1, <2>2 DEF Table!Next, Table!Take
<1>. QED
  BY <1>2, <1>3

LEMMA ReleaseIsGive ==
  ASSUME IInv, NEW h \in Holders, ReleaseScript(h)
  PROVE  Table!Next
<1>1. h \in Asked /\ UNCHANGED <<Asked, Past>>
  BY DEF ReleaseScript, Asked, Past, IInv, TypeOK
<1>2. \A s \in Seats : lock[s] = h => s \in Own(h)
  BY SeatLocksAssumption DEF IInv, LockInv, Own
<1>3. lock' = Table!Without({h})
  BY <1>2 DEF ReleaseScript, Own, Table!Without
<1>4. Table!Give(h)
  BY <1>1, <1>3 DEF Table!Give, Asked, Past
<1>. QED
  BY <1>4 DEF Table!Next

LEMMA TickIsPass ==
  ASSUME IInv, Together, Tick
  PROVE  Table!Next
<1> DEFINE H == {lock[s] : s \in {t \in Seats : lock[t] # None /\ until[t] <= now + 1}}
<1>1. UNCHANGED Asked
  BY DEF Tick, Asked
<1>2. now' = now + 1 /\ now \in Nat /\ MaxSkew \in Nat /\ Second \in Nat \ {0}
  BY SeatLocksAssumption DEF Tick, IInv, TypeOK
<1>3. Past \subseteq Past'
  BY <1>2 DEF Tick, Past, IInv, TypeOK
<1>4. ASSUME NEW s \in Seats, lock[s] # None, until[s] <= now + 1
      PROVE  lock[s] \in Past'
  <2>1. lock[s] \in Holders /\ until[s] \in Nat /\ deadline[lock[s]] \in Nat
    BY <1>4 DEF IInv, TypeOK
  <2>2. /\ step[lock[s]] = "held"
        /\ deadline[lock[s]] <= until[s] + MaxSkew + (Second - 1)
    BY <1>4 DEF IInv, LockInv
  <2>3. deadline[lock[s]] <= now' + MaxSkew + (Second - 1)
    BY <1>2, <1>4, <2>1, <2>2
  <2>. QED
    BY <2>1, <2>2, <2>3 DEF Past, Tick
<1>5. H \in SUBSET Past'
  BY <1>4
<1>6. lock' = [s \in Seats |-> IF lock[s] \in H THEN None ELSE lock[s]]
  <2>1. ASSUME NEW s \in Seats
        PROVE  (IF until[s] > now + 1 THEN lock[s] ELSE None)
               = (IF lock[s] \in H THEN None ELSE lock[s])
    <3>1. until[s] \in Nat
      BY DEF IInv, TypeOK
    <3>2. CASE until[s] > now + 1
      BY <1>2, <3>1, <3>2 DEF Together
    <3>3. CASE until[s] <= now + 1
      BY <1>2, <3>1, <3>3
    <3>. QED
      BY <1>2, <3>1, <3>2, <3>3
  <2>. QED
    BY <2>1 DEF Tick
<1>. QED
  BY <1>1, <1>3, <1>5, <1>6, TimeIsPass

LEMMA TableNext ==
  ASSUME IInv, Together, [Next]_vars
  PROVE  [Table!Next]_(Table!vars)
<1>0. TypeOK
  BY DEF IInv
<1>1. ASSUME NEW h \in Holders, NEW S \in SUBSET Seats,
             NEW skew \in 0..MaxSkew, Ask(h, S, skew)
      PROVE  [Table!Next]_(Table!vars)
  <2>1. UNCHANGED <<lock, Asked>>
    BY <1>0, <1>1 DEF Ask, Asked, TypeOK
  <2>2. Past \subseteq Past'
    BY <1>0, <1>1 DEF Ask, Past, TypeOK
  <2>3. lock' = [s \in Seats |-> IF lock[s] \in {} THEN None ELSE lock[s]]
    BY <1>0, <2>1 DEF TypeOK
  <2>4. {} \in SUBSET Past'
    OBVIOUS
  <2>. QED
    BY <2>1, <2>2, <2>3, <2>4, TimeIsPass
<1>2. ASSUME NEW skew \in 0..MaxSkew, HeldScript(skew)
      PROVE  [Table!Next]_(Table!vars)
  BY <1>2 DEF HeldScript, Table!vars
<1>3. CASE UNCHANGED vars
  BY <1>3 DEF vars, Table!vars
<1>. QED
  BY <1>0, <1>1, <1>2, <1>3, AcquireIsTake, ReleaseIsGive, TickIsPass DEF Next

(* The scripts implement HoldTable, for any clocks and TTL: what Checkout  *)
(* expects of the seat locks is what Redis gives it.                       *)
THEOREM ImplementsHoldTable == Spec => LocksAtomically
<1>1. Init => Table!Init /\ Together
  BY DEF Init, Table!Init, Together
<1>2. IInv /\ Together /\ [Next]_vars => Together' /\ [Table!Next]_(Table!vars)
  BY TogetherNext, TableNext
<1>. QED
  BY <1>1, <1>2, InvariantHolds, PTL DEF Spec, LocksAtomically, Table!Spec
=============================================================================
