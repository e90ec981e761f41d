---------------------------- MODULE AnswerProofs ----------------------------
(***************************************************************************)
(* Proofs about what Pay answers and what its keys bind, for any number of *)
(* attempts, bookings and keys and under any faults.                       *)
(***************************************************************************)
EXTENDS CheckoutProofs

-----------------------------------------------------------------------------
(* What a step leaves of an attempt                                        *)

(* Attempt c stays where it is.                                            *)
Still(c) ==
  /\ pay'[c] = pay[c] /\ answer'[c] = answer[c]
  /\ target'[c] = target[c] /\ usedKey'[c] = usedKey[c]

LEMMA OneAttemptSteps ==
  ASSUME TypeOK, [Next]_vars
  PROVE  \/ \A c \in Attempts : Still(c)
         \/ \E a \in Attempts :
              PayStep(a) /\ \A c \in Attempts \ {a} : Still(c)
<1> USE DEF redisVars, rowVars, holdVars, payVars, relVars, Still
<1>1. CASE \E a \in Attempts : PayStep(a)
  <2>1. PICK a \in Attempts : PayStep(a)
    BY <1>1
  <2>2. /\ pay' = [pay EXCEPT ![a] = pay'[a]]
        /\ \/ answer' = answer
           \/ \E what : answer' = [answer EXCEPT ![a] = what]
        /\ \/ UNCHANGED <<target, usedKey>>
           \/ \E b, k : /\ target' = [target EXCEPT ![a] = b]
                        /\ usedKey' = [usedKey EXCEPT ![a] = k]
    <3> USE DEF TypeOK, PayGoes, Return, ReturnHoldingSlot, Answer
    <3>1. CASE \E b \in Bookings, k \in Keys : PayRead(a, b, k)
      BY <3>1 DEF PayRead
    <3>2. CASE ClaimIdempotencyKey(a)
      BY <3>2 DEF ClaimIdempotencyKey
    <3>3. CASE AcquirePaymentSlot(a) \/ VerifySeatLocks(a) \/ Charge(a)
      BY <3>3 DEF AcquirePaymentSlot, VerifySeatLocks, Charge
    <3>4. CASE ConfirmBegin(a) \/ ConfirmVerify(a) \/ ConfirmCommit(a)
      BY <3>4 DEF ConfirmBegin, ConfirmVerify, ConfirmCommit
    <3>5. CASE ReleaseSeatLocks(a) \/ ReleaseSlot(a) \/ PayError(a) \/ PayCrash(a)
      BY <3>5 DEF ReleaseSeatLocks, ReleaseSlot, PayError, PayCrash
    <3>6. QED
      BY <2>1, <3>1, <3>2, <3>3, <3>4, <3>5 DEF PayStep
  <2>3. \A c \in Attempts \ {a} : Still(c)
    BY <2>2 DEF TypeOK
  <2>4. QED
    BY <2>1, <2>3
<1>2. CASE UNCHANGED payVars
  BY <1>2
<1>3. CASE \/ \E b \in Bookings : HoldStep(b) \/ Tick(b)
           \/ \E r \in Releases : RelStep(r)
           \/ Sweep
           \/ UNCHANGED vars
  <2>1. UNCHANGED payVars
    BY <1>3 DEF HoldStep, HoldCheck, Acquire, CreatePending, ReleaseQuietly,
       HoldError, HoldCrash, Tick, DeadlinePasses, LocksLapse, SlotLapses,
       RelStep, RelRead, RelUnlock, MarkCancelled, RelError, RelCrash, Sweep,
       ClaimExpired, vars
  <2>2. QED
    BY <1>2, <2>1
<1>4. QED
  BY <1>1, <1>3 DEF Next

-----------------------------------------------------------------------------
(* The inductive invariant                                                 *)

(* a is the attempt that sold its booking.                                 *)
Won(a) == pay[a] = "unlock" \/ answer[a] = "ok"

(* What attempt a knows of its booking, and has answered, is true.         *)
AttemptTrue(a) ==
  /\ pay[a] # "idle" => status[target[a]] # "absent" /\ usedKey[a] \in Keys
  /\ pay[a] \in {"slot"} \cup SlotSteps => key[target[a]] = usedKey[a]
  /\ answer[a] # None => pay[a] \in {"unslot", "done"}
  /\ Won(a) \/ answer[a] = "replayed" =>
       /\ pay[a] # "idle"
       /\ status[target[a]] = "confirmed" /\ key[target[a]] = usedKey[a]
  /\ answer[a] = "taken" => ~UniqueIndexAccepts(target[a])
  /\ answer[a] = "mismatch" =>
       /\ key[target[a]] # usedKey[a]
       /\ key[target[a]] = None => KeyUsedElsewhere(target[a], usedKey[a])

KeysApart ==
  \A b, c \in Bookings : b # c /\ key[b] = key[c] => key[b] = None

(* Only an attempt that bound its key confirms.                            *)
ConfirmedKeyed ==
  \A b \in Bookings : status[b] = "confirmed" => key[b] # None

OneWinner ==
  \A a, c \in Attempts : Won(a) /\ Won(c) /\ target[a] = target[c] => a = c

KInv ==
  /\ IInv
  /\ KeysApart
  /\ ConfirmedKeyed
  /\ OneWinner
  /\ \A a \in Attempts : AttemptTrue(a)

LEMMA AnswersAreNotNone ==
  ASSUME TypeOK, NEW a \in Attempts
  PROVE  /\ pay[a] # "idle" => target[a] \in Bookings
         /\ None \notin Keys /\ None \notin Answers
  BY CheckoutAssumption DEF TypeOK

(* Whatever others do, an attempt that stays put stays true.               *)
LEMMA StillTrue ==
  ASSUME IInv, RowsGrow, KeysClaimed, NEW c \in Attempts, AttemptTrue(c),
         Still(c), pay[c] # "idle", \A a \in Attempts : AttemptTrue(a)
  PROVE  AttemptTrue(c)'
<1> DEFINE b == target[c]
           k == usedKey[c]
<1>1. /\ b \in Bookings /\ k \in Keys /\ None \notin Keys
      /\ status[b] # "absent"
      /\ b' = b /\ k' = k /\ pay'[c] = pay[c] /\ answer'[c] = answer[c]
  BY AnswersAreNotNone DEF IInv, AttemptTrue, Still
<1>2. /\ status'[b] # "absent" /\ want'[b] = want[b]
      /\ status[b] = "confirmed" => status'[b] = "confirmed"
      /\ key[b] # None => key'[b] = key[b]
      /\ \A d \in Bookings : sold[d] \subseteq sold'[d]
  BY <1>1 DEF RowsGrow
<1>3. key[b] = k => key'[b] = k
  BY <1>1, <1>2
<1>4. ~UniqueIndexAccepts(b) => ~(UniqueIndexAccepts(b)')
  BY <1>1, <1>2 DEF UniqueIndexAccepts
<1>5. ASSUME answer[c] = "mismatch"
      PROVE  /\ key'[b] # k
             /\ key'[b] = None => \E d \in Bookings \ {b} : key'[d] = k
  <2>1. key[b] # k /\ (key[b] = None => KeyUsedElsewhere(b, k))
    BY <1>5 DEF AttemptTrue
  <2>2. CASE key[b] # None
    BY <1>2, <2>1, <2>2
  <2>3. CASE key[b] = None
    <3>1. PICK d \in Bookings \ {b} : key[d] = k
      BY <2>1, <2>3 DEF KeyUsedElsewhere
    <3>2. key'[d] = k
      BY <1>1, <3>1 DEF RowsGrow
    <3>3. key'[b] # k
      <4>1. CASE key' = key
        BY <2>1, <4>1
      <4>2. CASE \E a \in Attempts :
                   /\ pay[a] = "claim"
                   /\ key[target[a]] \in {None, usedKey[a]}
                   /\ key[target[a]] = None => ~KeyUsedElsewhere(target[a], usedKey[a])
                   /\ key' = [key EXCEPT ![target[a]] = usedKey[a]]
        <5>1. PICK a \in Attempts :
                   /\ key[target[a]] = None => ~KeyUsedElsewhere(target[a], usedKey[a])
                   /\ key' = [key EXCEPT ![target[a]] = usedKey[a]]
          BY <4>2
        <5>2. CASE target[a] = b
          BY <2>1, <2>3, <3>1, <5>1, <5>2, <1>1 DEF IInv, TypeOK, KeyUsedElsewhere
        <5>3. CASE target[a] # b
          BY <1>1, <2>1, <5>1, <5>3 DEF IInv, TypeOK
        <5>4. QED
          BY <5>2, <5>3
      <4>3. QED
        BY <4>1, <4>2 DEF KeysClaimed
    <3>4. QED
      BY <3>2, <3>3
  <2>4. QED
    BY <2>2, <2>3
<1>6. (answer[c] = "mismatch" => KeyUsedElsewhere(b, k)' \/ key'[b] # None)
  BY <1>1, <1>5 DEF KeyUsedElsewhere
<1>7. QED
  BY <1>1, <1>2, <1>3, <1>4, <1>5, <1>6 DEF AttemptTrue, Won

(* An attempt that takes a step, other than its commit, stays true, and    *)
(* is the winner only if it was.                                           *)
LEMMA MovesTrue ==
  ASSUME KInv, RowsGrow, NEW a \in Attempts, PayStep(a), ~ConfirmCommit(a)
  PROVE  AttemptTrue(a)' /\ (Won(a)' => Won(a) /\ target'[a] = target[a])
<1> USE DEF Return, ReturnHoldingSlot, Answer, PayGoes, redisVars, rowVars,
        holdVars, relVars
<1>0. TypeOK /\ None \notin Keys /\ None \notin Answers
  BY CheckoutAssumption DEF KInv, IInv
<1>1. CASE \E b \in Bookings, k \in Keys : PayRead(a, b, k)
  <2>1. PICK b \in Bookings, k \in Keys : PayRead(a, b, k)
    BY <1>1
  <2>2. /\ pay[a] = "idle" /\ answer[a] = None /\ status[b] # "absent"
        /\ target'[a] = b /\ usedKey'[a] = k
        /\ UNCHANGED <<status, want, sold, key>>
    BY <1>0, <2>1 DEF PayRead, KInv, AttemptTrue, TypeOK
  <2>3. CASE status[b] = "confirmed"
    <3>1. pay'[a] = "done" /\ answer'[a] = Replay(b, k)
      BY <1>0, <2>1, <2>3 DEF PayRead, TypeOK
    <3>2. key[b] # None
      BY <2>3 DEF KInv, ConfirmedKeyed
    <3>3. QED
      BY <1>0, <2>2, <2>3, <3>1, <3>2 DEF AttemptTrue, Won, Replay, SlotSteps
  <2>4. CASE status[b] # "confirmed"
    <3>1. pay'[a] = "claim" /\ answer'[a] = None
      BY <1>0, <2>1, <2>2, <2>4 DEF PayRead, TypeOK
    <3>2. QED
      BY <1>0, <2>2, <3>1 DEF AttemptTrue, Won, SlotSteps, Answers
  <2>5. QED
    BY <2>3, <2>4
<1>2. CASE ~\E b \in Bookings, k \in Keys : PayRead(a, b, k)
  <2> DEFINE b == target[a]
             k == usedKey[a]
  <2>0. /\ pay[a] # "idle" /\ b \in Bookings /\ k \in Keys
        /\ status[b] # "absent"
        /\ AttemptTrue(a)
        /\ status[b] = "confirmed" => key[b] # None
    <3>1. pay[a] # "idle"
      BY <1>2 DEF PayStep, ClaimIdempotencyKey, AcquirePaymentSlot,
         VerifySeatLocks, Charge, ConfirmBegin, ConfirmVerify, ConfirmCommit,
         ReleaseSeatLocks, ReleaseSlot, PayError, PayCrash
    <3>2. QED
      BY <1>0, <3>1, AnswersAreNotNone DEF KInv, AttemptTrue, ConfirmedKeyed
  <2>1. UNCHANGED <<target, usedKey, status, want, sold>>
    BY <1>2 DEF PayStep, ClaimIdempotencyKey, AcquirePaymentSlot,
       VerifySeatLocks, Charge, ConfirmBegin, ConfirmVerify,
       ReleaseSeatLocks, ReleaseSlot, PayError, PayCrash
  <2>2. CASE ClaimIdempotencyKey(a)
    <3>1. pay[a] = "claim" /\ answer[a] = None
      BY <1>0, <2>0, <2>2 DEF ClaimIdempotencyKey, AttemptTrue, TypeOK
    <3>2. \/ /\ pay'[a] = "done" /\ answer'[a] = "mismatch" /\ key' = key
             /\ key[b] # k
             /\ key[b] = None => KeyUsedElsewhere(b, k)
          \/ /\ pay'[a] = "done" /\ answer'[a] = "replayed" /\ key' = key
             /\ status[b] = "confirmed" /\ key[b] = k
          \/ /\ pay'[a] = "done" /\ answer'[a] = "lapsed" /\ key' = key
          \/ /\ pay'[a] = "slot" /\ answer'[a] = None /\ key'[b] = k
          \/ /\ pay'[a] = "done" /\ answer'[a] = "error"
      BY <1>0, <2>0, <2>2, <3>1 DEF ClaimIdempotencyKey, Replay, TypeOK
    <3>3. QED
      BY <1>0, <2>0, <2>1, <3>1, <3>2
      DEF AttemptTrue, Won, SlotSteps, Answers, KeyUsedElsewhere
  <2>3. CASE AcquirePaymentSlot(a) \/ VerifySeatLocks(a) \/ Charge(a) \/ ConfirmVerify(a)
    <3>1. /\ pay[a] \in {"slot"} \cup SlotSteps /\ key' = key
          /\ pay[a] \notin {"unslot", "unlock", "done"} /\ answer[a] = None
      BY <1>0, <2>0, <2>3 DEF AcquirePaymentSlot, VerifySeatLocks, Charge,
         ConfirmVerify, SlotSteps, AttemptTrue
    <3>2. \/ /\ pay'[a] \in {"verify", "charge", "begin", "write"}
             /\ answer'[a] = None
          \/ /\ pay'[a] \in {"done", "unslot"}
             /\ answer'[a] \in {"error", "busy", "lapsed", "declined"}
      BY <1>0, <2>3, <3>1 DEF AcquirePaymentSlot, VerifySeatLocks, Charge,
         ConfirmVerify, TypeOK
    <3>3. QED
      BY <1>0, <2>0, <2>1, <3>1, <3>2 DEF AttemptTrue, Won, SlotSteps, Answers
  <2>4. CASE ConfirmBegin(a)
    <3>1. /\ pay[a] = "begin" /\ key' = key /\ key[b] = k /\ answer[a] = None
      BY <1>0, <2>0, <2>4 DEF ConfirmBegin, SlotSteps, AttemptTrue
    <3>2. \/ pay'[a] = "inTx" /\ answer'[a] = None
          \/ /\ pay'[a] = "unslot"
             /\ \/ answer'[a] = "replayed" /\ status[b] = "confirmed"
                \/ answer'[a] = "lapsed"
      BY <1>0, <2>4, <3>1 DEF ConfirmBegin, TypeOK
    <3>3. QED
      BY <1>0, <2>0, <2>1, <3>1, <3>2 DEF AttemptTrue, Won, SlotSteps, Answers
  <2>5. CASE ReleaseSeatLocks(a) \/ ReleaseSlot(a) \/ PayError(a) \/ PayCrash(a)
    <3>1. key' = key
      BY <2>5 DEF ReleaseSeatLocks, ReleaseSlot, PayError, PayCrash
    <3>2. \/ /\ pay[a] = "unlock" /\ pay'[a] = "unslot" /\ answer'[a] = "ok"
          \/ /\ pay'[a] = "done" /\ answer'[a] = answer[a]
          \/ /\ pay'[a] \in {"done", "unslot"} /\ answer'[a] = "error"
             /\ pay[a] \in {"claim", "slot", "verify", "charge", "begin",
                             "inTx", "write"}
             /\ pay'[a] = "unslot" => pay[a] \in SlotSteps
      BY <1>0, <2>5 DEF ReleaseSeatLocks, ReleaseSlot, PayError, PayCrash,
         TypeOK, SlotSteps
    <3>3. QED
      BY <1>0, <2>0, <2>1, <3>1, <3>2
      DEF AttemptTrue, Won, SlotSteps, Answers, UniqueIndexAccepts, KeyUsedElsewhere
  <2>6. QED
    BY <1>2, <2>2, <2>3, <2>4, <2>5 DEF PayStep
<1>3. QED
  BY <1>1, <1>2

(* The commit makes its attempt the winner, of a booking that was pending  *)
(* and so had none.                                                        *)
LEMMA CommitTrue ==
  ASSUME KInv, NEW a \in Attempts, ConfirmCommit(a)
  PROVE  /\ AttemptTrue(a)'
         /\ target' = target
         /\ \A c \in Attempts : target[c] = target[a] => ~Won(c)
         /\ key[target[a]] # None
<1> USE DEF redisVars, holdVars, relVars, ReturnHoldingSlot, Answer, PayGoes
<1> DEFINE b == target[a]
           k == usedKey[a]
<1>0. TypeOK /\ None \notin Keys /\ None \notin Answers
  BY CheckoutAssumption DEF KInv, IInv
<1>1. /\ pay[a] = "write" /\ answer[a] = None /\ k \in Keys /\ key[b] = k
      /\ status[b] = "pending" /\ b \in Bookings
  BY <1>0 DEF ConfirmCommit, KInv, AttemptTrue, SlotSteps, IInv, TxOverPending,
     TxSteps, TypeOK
<1>2. UNCHANGED <<target, usedKey, key, want>>
  BY DEF ConfirmCommit
<1>3. \/ /\ pay'[a] = "unlock" /\ answer'[a] = None /\ status'[b] = "confirmed"
      \/ /\ pay'[a] = "unslot" /\ answer'[a] = "error" /\ status'[b] = "confirmed"
      \/ /\ pay'[a] = "unslot" /\ answer'[a] = "taken" /\ status'[b] = "pending"
         /\ ~UniqueIndexAccepts(b) /\ sold' = sold
  BY <1>0, <1>1 DEF ConfirmCommit, TypeOK
<1>4. AttemptTrue(a)'
  BY <1>0, <1>1, <1>2, <1>3
  DEF AttemptTrue, Won, SlotSteps, Answers, UniqueIndexAccepts
<1>5. \A c \in Attempts : target[c] = b => ~Won(c)
  BY <1>1 DEF KInv, AttemptTrue
<1>6. QED
  BY <1>0, <1>1, <1>2, <1>4, <1>5

LEMMA KInvNext == KInv /\ [Next]_vars => KInv'
<1> SUFFICES ASSUME KInv, [Next]_vars
             PROVE  KInv'
  OBVIOUS
<1>0. IInv /\ TypeOK /\ IInv' /\ TypeOK'
  BY IInvNext DEF KInv, IInv
<1>1. RowsGrow /\ KeysClaimed
  BY <1>0, RowsStep, KeysStep
<1>2. \A c \in Attempts : Still(c) => AttemptTrue(c)'
  <2> SUFFICES ASSUME NEW c \in Attempts, Still(c)
               PROVE  AttemptTrue(c)'
    OBVIOUS
  <2>1. CASE pay[c] # "idle"
    BY <1>0, <1>1, <2>1, StillTrue DEF KInv
  <2>2. CASE pay[c] = "idle"
    <3>1. answer[c] = None /\ None \notin Answers
      BY <1>0, <2>2, AnswersAreNotNone DEF KInv, AttemptTrue
    <3>2. QED
      BY <2>2, <3>1 DEF Still, AttemptTrue, Won, SlotSteps, Answers
  <2>3. QED
    BY <2>1, <2>2
<1>3. /\ \A c \in Attempts : AttemptTrue(c)'
      /\ OneWinner'
  <2>1. CASE \A c \in Attempts : Still(c)
    BY <1>2, <2>1 DEF KInv, OneWinner, Won, Still
  <2>2. ASSUME NEW a \in Attempts, PayStep(a), \A c \in Attempts \ {a} : Still(c)
        PROVE  (\A c \in Attempts : AttemptTrue(c)') /\ OneWinner'
    <3>1. \A c \in Attempts \ {a} :
            AttemptTrue(c)' /\ (Won(c)' <=> Won(c)) /\ target'[c] = target[c]
      BY <1>2, <2>2 DEF Won, Still
    <3>2. CASE ConfirmCommit(a)
      BY <3>1, <3>2, CommitTrue DEF KInv, OneWinner
    <3>3. CASE ~ConfirmCommit(a)
      BY <1>1, <2>2, <3>1, <3>3, MovesTrue DEF KInv, OneWinner
    <3>4. QED
      BY <3>2, <3>3
  <2>3. QED
    BY <1>0, <2>1, <2>2, OneAttemptSteps
<1>4. ConfirmedKeyed'
  <2> SUFFICES ASSUME NEW b \in Bookings, status'[b] = "confirmed"
               PROVE  key'[b] # None
    BY DEF ConfirmedKeyed
  <2>1. key[b] # None
    <3>1. CASE UNCHANGED <<sold, paid>>
      <4>1. paid[b] = 1
        BY <1>0, <3>1 DEF IInv, LedgerConsistent
      <4>2. status[b] = "confirmed"
        BY <1>0, <4>1 DEF IInv, LedgerConsistent
      <4>3. QED
        BY <4>2 DEF KInv, ConfirmedKeyed
    <3>2. CASE \E a \in Attempts : ConfirmCommit(a) /\ UniqueIndexAccepts(target[a])
      <4>1. PICK a \in Attempts : ConfirmCommit(a) /\ UniqueIndexAccepts(target[a])
        BY <3>2
      <4>2. CASE target[a] = b
        BY <4>1, <4>2, CommitTrue
      <4>3. CASE target[a] # b
        <5>1. status'[b] = status[b]
          BY <1>0, <4>1, <4>3 DEF ConfirmCommit, TypeOK
        <5>2. QED
          BY <5>1 DEF KInv, ConfirmedKeyed
      <4>4. QED
        BY <4>2, <4>3
    <3>3. QED
      BY <3>1, <3>2, OnlyCommitSells
  <2>2. QED
    BY <1>1, <2>1 DEF RowsGrow
<1>5. KeysApart'
  <2>1. CASE key' = key
    BY <2>1 DEF KInv, KeysApart
  <2>2. CASE \E a \in Attempts :
               /\ key[target[a]] \in {None, usedKey[a]}
               /\ key[target[a]] = None => ~KeyUsedElsewhere(target[a], usedKey[a])
               /\ key' = [key EXCEPT ![target[a]] = usedKey[a]]
    <3>1. PICK a \in Attempts :
               /\ key[target[a]] \in {None, usedKey[a]}
               /\ key[target[a]] = None => ~KeyUsedElsewhere(target[a], usedKey[a])
               /\ key' = [key EXCEPT ![target[a]] = usedKey[a]]
      BY <2>2
    <3>2. CASE key[target[a]] = None
      BY <1>0, <3>1, <3>2 DEF KInv, KeysApart, KeyUsedElsewhere, TypeOK
    <3>3. CASE key[target[a]] # None
      <4>1. key' = key
        BY <1>0, <3>1, <3>3 DEF TypeOK
      <4>2. QED
        BY <4>1 DEF KInv, KeysApart
    <3>4. QED
      BY <3>2, <3>3
  <2>3. QED
    BY <1>1, <2>1, <2>2 DEF KeysClaimed
<1>6. QED
  BY <1>0, <1>3, <1>4, <1>5 DEF KInv

LEMMA KInvHolds == Spec => []KInv
<1>1. Init => KInv
  <2> SUFFICES ASSUME Init
               PROVE  KInv
    OBVIOUS
  <2>1. None \notin Answers
    BY CheckoutAssumption
  <2>2. QED
    BY <2>1, IInvInit DEF Init, KInv, KeysApart, ConfirmedKeyed, OneWinner,
       AttemptTrue, Won, SlotSteps, Answers
<1>2. QED
  BY <1>1, KInvNext, PTL DEF Spec

(* A key never pays for two bookings, and every attempt past the claim     *)
(* pays under the key of its booking.                                      *)
THEOREM KeysBindBookings == Spec => []KeyBindsBooking
<1>1. KInv => KeyBindsBooking
  BY DEF KInv, KeysApart, AttemptTrue, KeyBindsBooking
<1>2. QED
  BY <1>1, KInvHolds, PTL

(* 200 is answered for confirmed bookings only and under their own key, by *)
(* one attempt as the original, and refusals state what is the case.       *)
THEOREM AnswersAreTrue == Spec => []AnswersTruthful
<1>1. KInv => AnswersTruthful
  BY DEF KInv, OneWinner, AttemptTrue, Won, AnswersTruthful
<1>2. QED
  BY <1>1, KInvHolds, PTL
=============================================================================
