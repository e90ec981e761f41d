--------------------------- MODULE CheckoutProofs ---------------------------
(***************************************************************************)
(* Proofs about Checkout, for any number of seats, bookings, requests and  *)
(* keys.  Under any faults: it is type correct, never sells a seat twice,  *)
(* keeps the books consistent, and implements SeatSale and HoldTable.      *)
(* Unless locks vanish early, holds last to their deadline; unless a mutex *)
(* outlives its TTL, all charges of a pending booking but one are          *)
(* accounted for.  Each theorem says which faults it excludes.             *)
(***************************************************************************)
EXTENDS Checkout, FiniteSetTheorems, TLAPS

(* The helpers every action is written with.                               *)
USE DEF HoldGoes, PayGoes, RelGoes

-----------------------------------------------------------------------------
(* Type correctness                                                        *)

LEMMA TypeOKHold ==
  ASSUME TypeOK, NEW b \in Bookings, HoldStep(b)
  PROVE  TypeOK'
<1> USE DEF TypeOK, HoldSteps, Statuses, redisVars, rowVars, payVars, relVars
<1>1. CASE HoldCheck(b)
  BY <1>1 DEF HoldCheck
<1>2. CASE Acquire(b)
  BY <1>2 DEF Acquire
<1>3. CASE CreatePending(b)
  BY <1>3 DEF CreatePending
<1>4. CASE ReleaseQuietly(b)
  BY <1>4 DEF ReleaseQuietly, Unlocked
<1>5. CASE HoldError(b)
  BY <1>5 DEF HoldError
<1>6. CASE HoldCrash(b)
  BY <1>6 DEF HoldCrash
<1>7. QED
  BY <1>1, <1>2, <1>3, <1>4, <1>5, <1>6 DEF HoldStep

LEMMA TypeOKPay ==
  ASSUME TypeOK, NEW a \in Attempts, PayStep(a)
  PROVE  TypeOK'
<1> USE CheckoutAssumption
    DEF TypeOK, PaySteps, Answers, Statuses, redisVars, rowVars, holdVars,
        relVars, Answer, Return, ReturnHoldingSlot, Replay
<1>1. CASE \E b \in Bookings, k \in Keys : PayRead(a, b, k)
  BY <1>1 DEF PayRead
<1>2. CASE ClaimIdempotencyKey(a)
  BY <1>2 DEF ClaimIdempotencyKey
<1>3. CASE AcquirePaymentSlot(a)
  BY <1>3 DEF AcquirePaymentSlot
<1>4. CASE VerifySeatLocks(a)
  BY <1>4 DEF VerifySeatLocks
<1>5. CASE Charge(a)
  BY <1>5 DEF Charge
<1>6. CASE ConfirmBegin(a)
  BY <1>6 DEF ConfirmBegin
<1>7. CASE ConfirmVerify(a)
  BY <1>7 DEF ConfirmVerify
<1>8. CASE ConfirmCommit(a)
  <2>1. target[a] \in Bookings /\ want[target[a]] \subseteq Seats
    BY <1>8 DEF ConfirmCommit, Selections
  <2>2. sold' \in [Bookings -> SUBSET Seats] /\ status' \in [Bookings -> Statuses]
    BY <1>8, <2>1 DEF ConfirmCommit
  <2>3. paid' \in [Bookings -> Nat]
    BY <1>8, <2>1 DEF ConfirmCommit
  <2>4. pay' \in [Attempts -> PaySteps] /\ answer' \in [Attempts -> Answers \cup {None}]
    BY <1>8 DEF ConfirmCommit
  <2>. QED
    BY <1>8, <2>2, <2>3, <2>4 DEF ConfirmCommit
<1>9. CASE ReleaseSeatLocks(a)
  BY <1>9 DEF ReleaseSeatLocks, Unlocked
<1>10. CASE ReleaseSlot(a)
  BY <1>10 DEF ReleaseSlot
<1>11. CASE PayError(a)
  BY <1>11 DEF PayError
<1>12. CASE PayCrash(a)
  BY <1>12 DEF PayCrash
<1>13. QED
  BY <1>1, <1>2, <1>3, <1>4, <1>5, <1>6, <1>7, <1>8, <1>9, <1>10, <1>11,
     <1>12 DEF PayStep

LEMMA TypeOKRelease ==
  ASSUME TypeOK, NEW r \in Releases, RelStep(r)
  PROVE  TypeOK'
<1> USE CheckoutAssumption
    DEF TypeOK, RelSteps, Statuses, redisVars, rowVars, holdVars, payVars,
        RelEnds
<1>1. CASE \E b \in Bookings : RelRead(r, b)
  BY <1>1 DEF RelRead
<1>2. CASE RelUnlock(r)
  BY <1>2 DEF RelUnlock, Unlocked
<1>3. CASE MarkCancelled(r)
  BY <1>3 DEF MarkCancelled
<1>4. CASE RelError(r)
  BY <1>4 DEF RelError
<1>5. CASE RelCrash(r)
  BY <1>5 DEF RelCrash
<1>6. QED
  BY <1>1, <1>2, <1>3, <1>4, <1>5 DEF RelStep

LEMMA TypeOKTick ==
  ASSUME TypeOK, Sweep \/ \E b \in Bookings : Tick(b)
  PROVE  TypeOK'
<1> USE DEF TypeOK, Statuses, redisVars, rowVars, holdVars, payVars, relVars
<1>1. CASE Sweep
  BY <1>1 DEF Sweep, ClaimExpired
<1>2. CASE \E b \in Bookings : DeadlinePasses(b)
  BY <1>2 DEF DeadlinePasses
<1>3. CASE \E b \in Bookings : LocksLapse(b)
  BY <1>3 DEF LocksLapse
<1>4. CASE \E b \in Bookings : SlotLapses(b)
  BY <1>4 DEF SlotLapses
<1>5. QED
  BY <1>1, <1>2, <1>3, <1>4 DEF Tick

(* Every variable of the service keeps its type, in every instance.        *)
THEOREM TypeCorrect == Spec => []TypeOK
<1>1. Init => TypeOK
  BY DEF Init, TypeOK, Statuses, HoldSteps, PaySteps, RelSteps
<1>2. TypeOK /\ [Next]_vars => TypeOK'
  <2> SUFFICES ASSUME TypeOK, [Next]_vars
               PROVE  TypeOK'
    OBVIOUS
  <2>1. CASE UNCHANGED vars
    BY <2>1 DEF vars, TypeOK
  <2>2. CASE Next
    BY <2>2, TypeOKHold, TypeOKPay, TypeOKRelease, TypeOKTick DEF Next
  <2>3. QED
    BY <2>1, <2>2
<1>3. QED
  BY <1>1, <1>2, PTL DEF Spec

-----------------------------------------------------------------------------
(* The inductive invariant                                                 *)

(* A booking's row appears only when its CreateHold inserts it, so until   *)
(* then nothing can have been sold or paid under its id.                   *)
FreshUntilInserted ==
  \A b \in Bookings :
    hold[b] \in {"idle", "checked", "locked"} => status[b] = "absent"

(* Whatever is inserted names seats.                                       *)
InsertedNamesSeats ==
  \A b \in Bookings :
    hold[b] \in {"checked", "locked"} \/ status[b] # "absent"
      => want[b] \in Selections

(* While Confirm's transaction is open its row stays pending: everybody    *)
(* else who would change it waits for the row lock or skips the row.       *)
TxOverPending ==
  \A a \in Attempts : pay[a] \in TxSteps => status[target[a]] = "pending"

(* At most one transaction has the row of a booking locked.                *)
OneTxPerBooking ==
  \A a, c \in Attempts :
    pay[a] \in TxSteps /\ pay[c] \in TxSteps /\ target[a] = target[c] => a = c

(* Money was taken for whatever an attempt is about to confirm.            *)
ChargedBeforeTx ==
  \A a \in Attempts :
    pay[a] \in {"begin"} \cup TxSteps => charged[target[a]] >= 1

IInv ==
  /\ TypeOK
  /\ FreshUntilInserted
  /\ InsertedNamesSeats
  /\ TxOverPending
  /\ OneTxPerBooking
  /\ ChargedBeforeTx
  /\ LedgerConsistent
  /\ NoDoubleSale

LEMMA IInvInit == Init => IInv
  BY DEF Init, IInv, FreshUntilInserted, InsertedNamesSeats, TxOverPending,
         OneTxPerBooking, ChargedBeforeTx, LedgerConsistent, NoDoubleSale,
         TypeOK, TxSteps, Statuses, HoldSteps, PaySteps, RelSteps

(* Steps of CreateHold: only the check and the insert touch a row, and the *)
(* row they touch was absent.                                              *)
LEMMA IInvHold ==
  ASSUME IInv, NEW b \in Bookings, HoldStep(b)
  PROVE  IInv'
<1> USE DEF IInv, TypeOK, redisVars, rowVars, payVars, relVars
<1>t. TypeOK'
  BY TypeOKHold
<1>1. CASE HoldCheck(b)
  <2>1. /\ UNCHANGED <<status, sold, paid, charged, pay, target>>
        /\ hold[b] = "idle" /\ status[b] = "absent" /\ sold[b] = {}
        /\ \/ hold' = [hold EXCEPT ![b] = "checked"] /\ want'[b] \in Selections
           \/ hold' = [hold EXCEPT ![b] = "failed"] /\ want' = want
        /\ \A c \in Bookings \ {b} : want'[c] = want[c]
    <3>1. status[b] = "absent" /\ sold[b] = {}
      BY <1>1 DEF HoldCheck, FreshUntilInserted, LedgerConsistent
    <3>2. QED
      BY <1>1, <3>1 DEF HoldCheck
  <2>2. FreshUntilInserted' /\ InsertedNamesSeats'
    BY <2>1 DEF FreshUntilInserted, InsertedNamesSeats
  <2>3. LedgerConsistent'
    BY <2>1 DEF LedgerConsistent
  <2>4. TxOverPending' /\ OneTxPerBooking' /\ ChargedBeforeTx' /\ NoDoubleSale'
    BY <2>1 DEF TxOverPending, OneTxPerBooking, ChargedBeforeTx, NoDoubleSale
  <2>5. QED
    BY <1>t, <2>2, <2>3, <2>4
<1>2. CASE CreatePending(b)
  <2>1. /\ UNCHANGED <<want, sold, paid, charged, pay, target>>
        /\ hold[b] = "locked" /\ status[b] = "absent"
        /\ status' = [status EXCEPT ![b] = "pending"]
        /\ \E step \in {"booked", "undo"} : hold' = [hold EXCEPT ![b] = step]
    BY <1>2 DEF CreatePending, FreshUntilInserted
  <2>2. FreshUntilInserted' /\ InsertedNamesSeats'
    BY <2>1 DEF FreshUntilInserted, InsertedNamesSeats
  <2>3. LedgerConsistent' /\ NoDoubleSale'
    BY <2>1 DEF LedgerConsistent, NoDoubleSale
  <2>4. TxOverPending' /\ OneTxPerBooking' /\ ChargedBeforeTx'
    BY <2>1 DEF TxOverPending, OneTxPerBooking, ChargedBeforeTx
  <2>5. QED
    BY <1>t, <2>2, <2>3, <2>4
<1>3. CASE Acquire(b) \/ ReleaseQuietly(b) \/ HoldError(b) \/ HoldCrash(b)
  <2>1. /\ UNCHANGED <<status, want, sold, paid, charged, pay, target>>
        /\ \/ hold[b] = "checked" /\ hold' = [hold EXCEPT ![b] = "locked"]
           \/ \E step \in {"undo", "failed"} :
                hold' = [hold EXCEPT ![b] = step]
    BY <1>3 DEF Acquire, ReleaseQuietly, HoldError, HoldCrash
  <2>2. FreshUntilInserted' /\ InsertedNamesSeats'
    BY <2>1 DEF FreshUntilInserted, InsertedNamesSeats
  <2>3. LedgerConsistent' /\ NoDoubleSale'
    BY <2>1 DEF LedgerConsistent, NoDoubleSale
  <2>4. TxOverPending' /\ OneTxPerBooking' /\ ChargedBeforeTx'
    BY <2>1 DEF TxOverPending, OneTxPerBooking, ChargedBeforeTx
  <2>5. QED
    BY <1>t, <2>2, <2>3, <2>4
<1>4. QED
  BY <1>1, <1>2, <1>3 DEF HoldStep

(* Steps of Pay that leave the rows' status, seats and payments alone: the *)
(* attempt moves on, and it is inside the transaction afterwards only if   *)
(* it was before, or found the row pending and unlocked.                   *)
LEMMA IInvPayQuiet ==
  ASSUME IInv, NEW a \in Attempts, TypeOK',
         UNCHANGED <<status, want, sold, paid, hold, target>>,
         \A b \in Bookings : charged'[b] >= charged[b],
         NEW step \in PaySteps, pay' = [pay EXCEPT ![a] = step],
         step \in TxSteps =>
           \/ pay[a] \in TxSteps
           \/ /\ pay[a] = "begin" /\ status[target[a]] = "pending"
              /\ ~RowLocked(target[a]),
         step = "begin" => charged'[target[a]] >= 1,
         pay[a] # "idle"
  PROVE  IInv'
<1> USE DEF IInv
<1>0. \A c \in Attempts : pay[c] # "idle" => target[c] \in Bookings
  BY DEF TypeOK
<1>1. FreshUntilInserted' /\ InsertedNamesSeats' /\ NoDoubleSale'
  BY DEF FreshUntilInserted, InsertedNamesSeats, NoDoubleSale
<1>2. TxOverPending'
  BY DEF TxOverPending, TypeOK
<1>3. OneTxPerBooking'
  BY DEF OneTxPerBooking, RowLocked, TypeOK
<1>4. ChargedBeforeTx'
  <2> SUFFICES ASSUME NEW c \in Attempts, pay'[c] \in {"begin"} \cup TxSteps
               PROVE  charged'[target[c]] >= 1
    BY DEF ChargedBeforeTx
  <2>1. CASE c = a /\ step = "begin"
    BY <2>1
  <2>2. CASE ~(c = a /\ step = "begin")
    <3>1. pay[c] \in {"begin"} \cup TxSteps
      BY <2>2 DEF TypeOK
    <3>2. target[c] \in Bookings
      BY <3>1, <1>0 DEF TxSteps
    <3>3. charged[target[c]] >= 1
      BY <3>1 DEF ChargedBeforeTx
    <3>4. charged[target[c]] \in Nat /\ charged'[target[c]] \in Nat
      BY <3>2 DEF TypeOK
    <3>5. charged'[target[c]] >= charged[target[c]]
      BY <3>2
    <3>6. QED
      BY <3>3, <3>4, <3>5
  <2>3. QED
    BY <2>1, <2>2
<1>5. LedgerConsistent'
  <2> SUFFICES ASSUME NEW b \in Bookings
               PROVE  IF status[b] = "confirmed"
                      THEN /\ sold[b] = want[b] /\ want[b] # {}
                           /\ paid[b] = 1 /\ charged'[b] >= 1
                      ELSE sold[b] = {} /\ paid[b] = 0
    BY DEF LedgerConsistent
  <2>1. charged[b] \in Nat /\ charged'[b] \in Nat /\ charged'[b] >= charged[b]
    BY DEF TypeOK
  <2>2. QED
    BY <2>1 DEF LedgerConsistent
<1>6. QED
  BY <1>1, <1>2, <1>3, <1>4, <1>5

(* The commit: the row was pending under this attempt's lock, so it goes   *)
(* from unpaid to paid once, and the index keeps its seats apart.          *)
LEMMA IInvCommit ==
  ASSUME IInv, NEW a \in Attempts, ConfirmCommit(a), TypeOK'
  PROVE  IInv'
<1> DEFINE b == target[a]
<1> USE DEF IInv, holdVars, redisVars, relVars
<1>0. b \in Bookings /\ pay[a] = "write" /\ status[b] = "pending"
  BY DEF ConfirmCommit, TxOverPending, TxSteps, TypeOK
<1>1. CASE ~UniqueIndexAccepts(b)
  <2>1. /\ pay' = [pay EXCEPT ![a] = "unslot"]
        /\ UNCHANGED <<status, want, sold, paid, charged, hold, target>>
    BY <1>1 DEF ConfirmCommit, ReturnHoldingSlot
  <2>2. \A c \in Bookings : charged'[c] >= charged[c]
    BY <2>1 DEF TypeOK
  <2>3. QED
    BY <1>0, <2>1, <2>2, IInvPayQuiet DEF PaySteps, TxSteps
<1>2. CASE UniqueIndexAccepts(b)
  <2>1. /\ sold' = [sold EXCEPT ![b] = want[b]]
        /\ status' = [status EXCEPT ![b] = "confirmed"]
        /\ paid' = [paid EXCEPT ![b] = @ + 1]
        /\ \E step \in {"unlock", "unslot"} : pay' = [pay EXCEPT ![a] = step]
        /\ UNCHANGED <<want, charged, hold, target>>
    BY <1>2 DEF ConfirmCommit, ReturnHoldingSlot
  <2>2. FreshUntilInserted' /\ InsertedNamesSeats'
    BY <1>0, <2>1 DEF FreshUntilInserted, InsertedNamesSeats, TypeOK
  <2>3. TxOverPending' /\ OneTxPerBooking' /\ ChargedBeforeTx'
    BY <1>0, <2>1 DEF TxOverPending, OneTxPerBooking, ChargedBeforeTx, TypeOK,
       TxSteps
  <2>4. LedgerConsistent'
    <3>1. sold[b] = {} /\ paid[b] = 0 /\ charged[b] >= 1 /\ want[b] # {}
      BY <1>0 DEF LedgerConsistent, ChargedBeforeTx, TxSteps,
         InsertedNamesSeats, Selections
    <3>2. QED
      BY <1>0, <2>1, <3>1 DEF LedgerConsistent, TypeOK
  <2>5. NoDoubleSale'
    BY <1>0, <1>2, <2>1 DEF NoDoubleSale, UniqueIndexAccepts, TypeOK
  <2>6. QED
    BY <2>2, <2>3, <2>4, <2>5
<1>3. QED
  BY <1>1, <1>2

LEMMA IInvPay ==
  ASSUME IInv, NEW a \in Attempts, PayStep(a)
  PROVE  IInv'
<1> USE DEF redisVars, rowVars, holdVars, relVars, Return, ReturnHoldingSlot
<1>t. TypeOK /\ TypeOK'
  BY TypeOKPay DEF IInv
<1>1. CASE \E b \in Bookings, k \in Keys : PayRead(a, b, k)
  <2>1. /\ UNCHANGED <<status, want, sold, paid, charged, hold>>
        /\ pay[a] = "idle"
        /\ \E step \in {"claim", "done"} : pay' = [pay EXCEPT ![a] = step]
        /\ \A c \in Attempts \ {a} : target'[c] = target[c]
    BY <1>t, <1>1 DEF PayRead, TypeOK
  <2>2. /\ FreshUntilInserted' /\ InsertedNamesSeats'
        /\ LedgerConsistent' /\ NoDoubleSale'
    BY <2>1 DEF IInv, FreshUntilInserted, InsertedNamesSeats, LedgerConsistent,
       NoDoubleSale
  <2>3. TxOverPending' /\ OneTxPerBooking' /\ ChargedBeforeTx'
    BY <1>t, <2>1 DEF IInv, TxOverPending, OneTxPerBooking, ChargedBeforeTx,
       TxSteps, TypeOK
  <2>4. QED
    BY <1>t, <2>2, <2>3 DEF IInv
<1>2. CASE ConfirmCommit(a)
  BY <1>t, <1>2, IInvCommit
<1>3. CASE Charge(a)
  <2>1. /\ UNCHANGED <<status, want, sold, paid, hold, target>>
        /\ pay[a] = "charge"
        /\ \/ /\ charged' = [charged EXCEPT ![target[a]] = @ + 1]
              /\ pay' = [pay EXCEPT ![a] = "begin"]
           \/ /\ charged' = charged
              /\ pay' = [pay EXCEPT ![a] = "unslot"]
    BY <1>3 DEF Charge
  <2>2. target[a] \in Bookings
    BY <1>t, <2>1 DEF TypeOK
  <2>3. /\ \A b \in Bookings : charged'[b] >= charged[b]
        /\ charged' # charged => charged'[target[a]] >= 1
    BY <1>t, <2>1, <2>2 DEF TypeOK
  <2>4. pay' = [pay EXCEPT ![a] = "begin"] => charged'[target[a]] >= 1
    BY <1>t, <2>1, <2>2 DEF TypeOK
  <2>5. QED
    BY <1>t, <2>1, <2>3, <2>4, IInvPayQuiet DEF TxSteps, PaySteps
<1>4. CASE \/ ClaimIdempotencyKey(a) \/ AcquirePaymentSlot(a)
           \/ VerifySeatLocks(a) \/ ReleaseSeatLocks(a) \/ ReleaseSlot(a)
           \/ PayError(a) \/ PayCrash(a)
  <2>1. /\ UNCHANGED <<status, want, sold, paid, charged, hold, target>>
        /\ pay[a] # "idle"
        /\ \E step \in {"slot", "verify", "charge", "unslot", "done"} :
             pay' = [pay EXCEPT ![a] = step]
    BY <1>4 DEF ClaimIdempotencyKey, AcquirePaymentSlot, VerifySeatLocks,
       ReleaseSeatLocks, ReleaseSlot, PayError, PayCrash
  <2>2. \A b \in Bookings : charged'[b] >= charged[b]
    BY <1>t, <2>1 DEF TypeOK
  <2>3. QED
    BY <1>t, <2>1, <2>2, IInvPayQuiet DEF TxSteps, PaySteps
<1>5. CASE ConfirmBegin(a) \/ ConfirmVerify(a)
  <2>1. /\ UNCHANGED <<status, want, sold, paid, charged, hold, target>>
        /\ pay[a] # "idle"
        /\ \/ /\ pay' = [pay EXCEPT ![a] = "inTx"]
              /\ pay[a] = "begin" /\ status[target[a]] = "pending"
              /\ ~RowLocked(target[a])
           \/ pay' = [pay EXCEPT ![a] = "write"] /\ pay[a] = "inTx"
           \/ pay' = [pay EXCEPT ![a] = "unslot"]
    BY <1>5 DEF ConfirmBegin, ConfirmVerify
  <2>2. \A b \in Bookings : charged'[b] >= charged[b]
    BY <1>t, <2>1 DEF TypeOK
  <2>3. QED
    BY <1>t, <2>1, <2>2, IInvPayQuiet DEF TxSteps, PaySteps
<1>6. QED
  BY <1>1, <1>2, <1>3, <1>4, <1>5 DEF PayStep

(* A row changes status outside Confirm only while no transaction holds it *)
(* and from pending, so nothing sold or paid is lost.                      *)
LEMMA IInvStatus ==
  ASSUME IInv, TypeOK',
         UNCHANGED <<want, sold, paid, charged, hold, pay, target>>,
         \A b \in Bookings :
           \/ status'[b] = status[b]
           \/ /\ status[b] = "pending" /\ ~RowLocked(b)
              /\ status'[b] \in {"cancelled", "expired"}
  PROVE  IInv'
<1> USE DEF IInv
<1>1. FreshUntilInserted' /\ InsertedNamesSeats' /\ NoDoubleSale'
  BY DEF FreshUntilInserted, InsertedNamesSeats, NoDoubleSale
<1>2. TxOverPending'
  BY DEF TxOverPending, RowLocked, TypeOK, TxSteps
<1>3. OneTxPerBooking' /\ ChargedBeforeTx'
  BY DEF OneTxPerBooking, ChargedBeforeTx
<1>4. LedgerConsistent'
  BY DEF LedgerConsistent
<1>5. QED
  BY <1>1, <1>2, <1>3, <1>4

LEMMA IInvRelease ==
  ASSUME IInv, NEW r \in Releases, RelStep(r)
  PROVE  IInv'
<1> USE DEF redisVars, rowVars, holdVars, payVars, RelEnds
<1>t. TypeOK /\ TypeOK'
  BY TypeOKRelease DEF IInv
<1>1. CASE MarkCancelled(r)
  BY <1>t, <1>1, IInvStatus DEF MarkCancelled, TypeOK
<1>2. CASE \/ \E b \in Bookings : RelRead(r, b)
           \/ RelUnlock(r) \/ RelError(r) \/ RelCrash(r)
  <2>1. UNCHANGED <<status, want, sold, paid, charged, hold, pay, target>>
    BY <1>2 DEF RelRead, RelUnlock, RelError, RelCrash
  <2>2. QED
    BY <1>t, <2>1, IInvStatus
<1>3. QED
  BY <1>1, <1>2 DEF RelStep

LEMMA IInvTick ==
  ASSUME IInv, Sweep \/ \E b \in Bookings : Tick(b)
  PROVE  IInv'
<1> USE DEF redisVars, rowVars, holdVars, payVars, relVars
<1>t. TypeOK /\ TypeOK'
  BY TypeOKTick DEF IInv
<1>1. CASE Sweep
  BY <1>t, <1>1, IInvStatus DEF Sweep, ClaimExpired, Lapsed
<1>2. CASE \E b \in Bookings : Tick(b)
  <2>1. UNCHANGED <<status, want, sold, paid, charged, hold, pay, target>>
    BY <1>2 DEF Tick, DeadlinePasses, LocksLapse, SlotLapses
  <2>2. QED
    BY <1>t, <2>1, IInvStatus
<1>3. QED
  BY <1>1, <1>2

LEMMA IInvNext == IInv /\ [Next]_vars => IInv'
<1> SUFFICES ASSUME IInv, [Next]_vars
             PROVE  IInv'
  OBVIOUS
<1>1. CASE UNCHANGED vars
  <2>1. TypeOK'
    BY <1>1 DEF vars, TypeOK, IInv
  <2>2. QED
    BY <1>1, <2>1, IInvStatus DEF vars
<1>2. CASE Next
  BY <1>2, IInvHold, IInvPay, IInvRelease, IInvTick DEF Next
<1>3. QED
  BY <1>1, <1>2

THEOREM InvariantHolds == Spec => []IInv
  BY IInvInit, IInvNext, PTL DEF Spec

(* The partial unique index and the row lock together: no seat is sold     *)
(* twice, however the advisory locks lapse, fail or are bypassed.          *)
THEOREM NeverSoldTwice == Spec => []NoDoubleSale
<1>1. IInv => NoDoubleSale
  BY DEF IInv
<1>2. QED
  BY <1>1, InvariantHolds, PTL

(* Confirmed, flagged, paid and charged always agree, which verify.sh can  *)
(* only sample after a load test.                                          *)
THEOREM BooksAgree == Spec => []LedgerConsistent
<1>1. IInv => LedgerConsistent
  BY DEF IInv
<1>2. QED
  BY <1>1, InvariantHolds, PTL

-----------------------------------------------------------------------------
(* Refinement of SeatSale                                                  *)

LEMMA BuyerIsOwner ==
  ASSUME NEW m, NEW s, NEW b \in Bookings, s \in m[b],
         \A c \in Bookings \ {b} : s \notin m[c]
  PROVE  Buyer(m, s) = b
  BY DEF Buyer

LEMMA UnsoldHasNoBuyer ==
  ASSUME NEW m, NEW s, \A c \in Bookings : s \notin m[c]
  PROVE  Buyer(m, s) = None
  BY DEF Buyer

(* Only a commit that the index accepts touches what SeatSale sees.        *)
LEMMA OnlyCommitSells ==
  ASSUME [Next]_vars
  PROVE  \/ UNCHANGED <<sold, paid>>
         \/ \E a \in Attempts : ConfirmCommit(a) /\ UniqueIndexAccepts(target[a])
<1> USE DEF redisVars, rowVars, holdVars, payVars, relVars
<1>1. CASE UNCHANGED vars
  BY <1>1 DEF vars
<1>2. CASE \E b \in Bookings : HoldStep(b)
  BY <1>2 DEF HoldStep, HoldCheck, Acquire, CreatePending, ReleaseQuietly,
     HoldError, HoldCrash
<1>3. CASE \E b \in Bookings : Tick(b)
  BY <1>3 DEF Tick, DeadlinePasses, LocksLapse, SlotLapses
<1>4. CASE \E a \in Attempts : PayStep(a)
  BY <1>4 DEF PayStep, PayRead, ClaimIdempotencyKey, AcquirePaymentSlot,
     VerifySeatLocks, Charge, ConfirmBegin, ConfirmVerify, ConfirmCommit,
     ReleaseSeatLocks, ReleaseSlot, PayError, PayCrash
<1>5. CASE \E r \in Releases : RelStep(r)
  BY <1>5 DEF RelStep, RelRead, RelUnlock, MarkCancelled, RelError, RelCrash
<1>6. CASE Sweep
  BY <1>6 DEF Sweep, ClaimExpired
<1>7. QED
  BY <1>1, <1>2, <1>3, <1>4, <1>5, <1>6 DEF Next

(* The commit is the abstract sale of every seat of the booking.           *)
LEMMA CommitIsSale ==
  ASSUME IInv, IInv', NEW a \in Attempts, ConfirmCommit(a),
         UniqueIndexAccepts(target[a])
  PROVE  Sale!Sell(target[a], want[target[a]])
         /\ target[a] \in Bookings /\ want[target[a]] \in Selections
<1> DEFINE b == target[a]
           S == want[b]
<1>1. /\ b \in Bookings /\ status[b] = "pending"
      /\ S \in Selections /\ S \subseteq Seats
      /\ sold[b] = {} /\ paid[b] = 0
  <2>1. pay[a] = "write" /\ b \in Bookings
    BY DEF ConfirmCommit, IInv, TypeOK
  <2>2. status[b] = "pending"
    BY <2>1 DEF IInv, TxOverPending, TxSteps
  <2>3. S \in Selections
    BY <2>1, <2>2 DEF IInv, InsertedNamesSeats
  <2>4. QED
    BY <2>1, <2>2, <2>3 DEF IInv, LedgerConsistent, Selections
<1>2. /\ sold' = [sold EXCEPT ![b] = S]
      /\ paid' = [paid EXCEPT ![b] = @ + 1]
  BY DEF ConfirmCommit
<1>3. \A c \in Bookings : S \cap sold[c] = {}
  BY <1>1 DEF UniqueIndexAccepts
<1>4. \A s \in S : Buyer(sold, s) = None
  BY <1>3, UnsoldHasNoBuyer
<1>5. \A s \in Seats : Buyer(sold', s) = IF s \in S THEN b ELSE Buyer(sold, s)
  <2> SUFFICES ASSUME NEW s \in Seats
               PROVE  Buyer(sold', s) = IF s \in S THEN b ELSE Buyer(sold, s)
    OBVIOUS
  <2>0. sold \in [Bookings -> SUBSET Seats]
    BY DEF IInv, TypeOK
  <2>1. CASE s \in S
    <3>1. s \in sold'[b] /\ \A c \in Bookings \ {b} : s \notin sold'[c]
      BY <1>1, <1>2, <1>3, <2>0, <2>1
    <3>2. Buyer(sold', s) = b
      BY <1>1, <3>1, BuyerIsOwner
    <3>3. QED
      BY <2>1, <3>2
  <2>2. CASE s \notin S
    <3>1. \A c \in Bookings : s \in sold'[c] <=> s \in sold[c]
      BY <1>1, <1>2, <2>0, <2>2
    <3>2. CASE \E c \in Bookings : s \in sold[c]
      <4>1. PICK c \in Bookings : s \in sold[c]
        BY <3>2
      <4>2. \A d \in Bookings \ {c} : s \notin sold[d] /\ s \notin sold'[d]
        BY <3>1, <4>1 DEF IInv, NoDoubleSale
      <4>3. Buyer(sold, s) = c /\ Buyer(sold', s) = c
        BY <3>1, <4>1, <4>2, BuyerIsOwner
      <4>4. QED
        BY <2>2, <4>3
    <3>3. CASE \A c \in Bookings : s \notin sold[c]
      BY <2>2, <3>1, <3>3, UnsoldHasNoBuyer
    <3>4. QED
      BY <3>2, <3>3
  <2>3. QED
    BY <2>1, <2>2
<1>6. /\ b \notin {c \in Bookings : paid[c] > 0}
      /\ {c \in Bookings : paid'[c] > 0} = {c \in Bookings : paid[c] > 0} \cup {b}
  BY <1>1, <1>2 DEF IInv, TypeOK
<1>7. QED
  BY <1>1, <1>4, <1>5, <1>6 DEF Sale!Sell

(* The service implements the atomic, exclusive and final sale.            *)
THEOREM ImplementsSeatSale == Spec => SellsAtomically
<1>1. Init => Sale!Init
  <2> SUFFICES ASSUME Init
               PROVE  Sale!Init
    OBVIOUS
  <2>1. \A s \in Seats : Buyer(sold, s) = None
    BY UnsoldHasNoBuyer DEF Init
  <2>2. {b \in Bookings : paid[b] > 0} = {}
    BY DEF Init
  <2>3. QED
    BY <2>1, <2>2 DEF Sale!Init
<1>2. IInv /\ IInv' /\ [Next]_vars => [Sale!Next]_(Sale!vars)
  <2> SUFFICES ASSUME IInv, IInv', [Next]_vars
               PROVE  [Sale!Next]_(Sale!vars)
    OBVIOUS
  <2>1. CASE UNCHANGED <<sold, paid>>
    BY <2>1 DEF Sale!vars
  <2>2. CASE \E a \in Attempts :
               ConfirmCommit(a) /\ UniqueIndexAccepts(target[a])
    <3>1. PICK a \in Attempts :
            ConfirmCommit(a) /\ UniqueIndexAccepts(target[a])
      BY <2>2
    <3>2. /\ Sale!Sell(target[a], want[target[a]])
          /\ target[a] \in Bookings /\ want[target[a]] \in Selections
      BY <3>1, CommitIsSale
    <3>3. Sale!Next
      BY <3>2 DEF Sale!Next, Sale!Sell
    <3>4. QED
      BY <3>3
  <2>3. QED
    BY <2>1, <2>2, OnlyCommitSells
<1>3. QED
  BY <1>1, <1>2, InvariantHolds, PTL DEF Spec, SellsAtomically, Sale!Spec

-----------------------------------------------------------------------------
(* Terminal rows                                                           *)

LEMMA TerminalStep ==
  ASSUME IInv, [Next]_vars, NEW b \in Bookings,
         status[b] \in {"confirmed", "cancelled", "expired"}
  PROVE  status'[b] = status[b] /\ sold'[b] = sold[b] /\ key'[b] = key[b]
<1> USE DEF redisVars, rowVars, holdVars, payVars, relVars
<1>0. TypeOK
  BY DEF IInv
<1>1. CASE UNCHANGED vars
  BY <1>1 DEF vars
<1>2. CASE \E c \in Bookings : HoldStep(c)
  <2>1. PICK c \in Bookings : HoldStep(c)
    BY <1>2
  <2>2. CASE CreatePending(c)
    BY <1>0, <2>2 DEF CreatePending, IInv, FreshUntilInserted, TypeOK
  <2>3. CASE ~CreatePending(c)
    BY <2>1, <2>3 DEF HoldStep, HoldCheck, Acquire, ReleaseQuietly, HoldError,
       HoldCrash
  <2>4. QED
    BY <2>2, <2>3
<1>3. CASE \E c \in Bookings : Tick(c)
  BY <1>3 DEF Tick, DeadlinePasses, LocksLapse, SlotLapses
<1>4. CASE \E a \in Attempts : PayStep(a)
  <2>1. PICK a \in Attempts : PayStep(a)
    BY <1>4
  <2>2. CASE ClaimIdempotencyKey(a)
    BY <1>0, <2>2 DEF ClaimIdempotencyKey, TypeOK
  <2>3. CASE ConfirmCommit(a)
    <3>1. status[target[a]] = "pending"
      BY <2>3 DEF ConfirmCommit, IInv, TxOverPending, TxSteps
    <3>2. QED
      BY <1>0, <2>3, <3>1 DEF ConfirmCommit, TypeOK
  <2>4. CASE ~ClaimIdempotencyKey(a) /\ ~ConfirmCommit(a)
    BY <2>1, <2>4 DEF PayStep, PayRead, AcquirePaymentSlot, VerifySeatLocks,
       Charge, ConfirmBegin, ConfirmVerify, ReleaseSeatLocks, ReleaseSlot,
       PayError, PayCrash
  <2>5. QED
    BY <2>2, <2>3, <2>4
<1>5. CASE \E r \in Releases : RelStep(r)
  <2>1. PICK r \in Releases : RelStep(r)
    BY <1>5
  <2>2. CASE MarkCancelled(r)
    BY <1>0, <2>2 DEF MarkCancelled, TypeOK
  <2>3. CASE ~MarkCancelled(r)
    BY <2>1, <2>3 DEF RelStep, RelRead, RelUnlock, RelError, RelCrash
  <2>4. QED
    BY <2>2, <2>3
<1>6. CASE Sweep
  BY <1>6 DEF Sweep, ClaimExpired, Lapsed
<1>7. QED
  BY <1>1, <1>2, <1>3, <1>4, <1>5, <1>6 DEF Next

(* A late release, sweep, retry or insert never revives, re-keys or        *)
(* unsells a booking that has reached its end.                             *)
THEOREM TerminalRowsAreFinal == Spec => TerminalIsFinal
<1>1. IInv /\ [Next]_vars =>
        [\A b \in Bookings :
           status[b] \in {"confirmed", "cancelled", "expired"} =>
             /\ status'[b] = status[b]
             /\ sold'[b] = sold[b]
             /\ key'[b] = key[b]]_vars
  BY TerminalStep
<1>2. QED
  BY <1>1, InvariantHolds, PTL DEF Spec, TerminalIsFinal

-----------------------------------------------------------------------------
(* The payment mutex                                                       *)

(* Exclusion alone is not inductive: that no second attempt gets in rests  *)
(* on the key existing for as long as its owner runs.                      *)
SlotInv ==
  /\ TypeOK
  /\ SlotExclusive
  /\ \A a \in Attempts : pay[a] \in SlotSteps => slot[target[a]]

LEMMA NonIdleInSlot == "idle" \notin SlotSteps
  BY DEF SlotSteps

LEMMA SlotInvPay ==
  ASSUME SlotInv, TypeOK', NEW a \in Attempts, PayStep(a)
  PROVE  SlotInv'
<1> USE DEF redisVars, rowVars, holdVars, relVars, Return, ReturnHoldingSlot,
        SlotInv
<1>1. CASE \E b \in Bookings, k \in Keys : PayRead(a, b, k)
  <2>1. /\ UNCHANGED slot
        /\ \E step \in {"claim", "done"} : pay' = [pay EXCEPT ![a] = step]
        /\ \A c \in Attempts \ {a} : target'[c] = target[c]
    BY <1>1 DEF PayRead, TypeOK
  <2>2. /\ pay'[a] \notin SlotSteps
        /\ \A c \in Attempts \ {a} : pay'[c] = pay[c]
    BY <2>1 DEF SlotSteps, TypeOK
  <2>3. QED
    BY <2>1, <2>2 DEF SlotExclusive
<1>2. CASE AcquirePaymentSlot(a)
  <2>1. /\ UNCHANGED target
        /\ target[a] \in Bookings
        /\ \/ /\ ~slot[target[a]] /\ slot' = [slot EXCEPT ![target[a]] = TRUE]
              /\ \/ pay' = [pay EXCEPT ![a] = "verify"]
                 \/ pay' = [pay EXCEPT ![a] = "done"]
           \/ UNCHANGED slot /\ pay' = [pay EXCEPT ![a] = "done"]
    BY <1>2 DEF AcquirePaymentSlot, TypeOK
  <2>2. /\ \A c \in Attempts \ {a} : pay'[c] = pay[c]
        /\ pay'[a] \in SlotSteps =>
             slot' = [slot EXCEPT ![target[a]] = TRUE] /\ ~slot[target[a]]
    BY <2>1 DEF SlotSteps, TypeOK
  <2>3. SlotExclusive'
    BY <2>1, <2>2 DEF SlotExclusive
  <2>4. \A c \in Attempts : pay'[c] \in SlotSteps => slot'[target[c]]
    <3> SUFFICES ASSUME NEW c \in Attempts, pay'[c] \in SlotSteps
                 PROVE  slot'[target[c]]
      OBVIOUS
    <3>1. CASE c = a
      BY <2>1, <2>2, <3>1 DEF TypeOK
    <3>2. CASE c # a
      <4>1. slot[target[c]] /\ target[c] \in Bookings
        BY <2>2, <3>2, NonIdleInSlot DEF TypeOK
      <4>2. QED
        BY <2>1, <4>1 DEF TypeOK
    <3>3. QED
      BY <3>1, <3>2
  <2>5. QED
    BY <2>1, <2>3, <2>4
<1>3. CASE ReleaseSlot(a)
  <2>1. /\ UNCHANGED target
        /\ pay[a] \in SlotSteps
        /\ slot' = [slot EXCEPT ![target[a]] = FALSE]
        /\ pay' = [pay EXCEPT ![a] = "done"]
    BY <1>3 DEF ReleaseSlot, SlotSteps
  <2>2. /\ pay'[a] \notin SlotSteps
        /\ \A c \in Attempts \ {a} : pay'[c] = pay[c]
    BY <2>1 DEF SlotSteps, TypeOK
  <2>3. \A c \in Attempts : pay'[c] \in SlotSteps =>
          target[c] # target[a] /\ target[c] \in Bookings
    BY <2>1, <2>2, NonIdleInSlot DEF SlotExclusive, TypeOK
  <2>4. SlotExclusive'
    BY <2>1, <2>2 DEF SlotExclusive
  <2>5. \A c \in Attempts : pay'[c] \in SlotSteps => slot'[target[c]]
    <3> SUFFICES ASSUME NEW c \in Attempts, pay'[c] \in SlotSteps
                 PROVE  slot'[target[c]]
      OBVIOUS
    <3>1. slot[target[c]] /\ target[c] \in Bookings /\ target[c] # target[a]
      BY <2>2, <2>3
    <3>2. QED
      BY <2>1, <3>1 DEF TypeOK
  <2>6. QED
    BY <2>1, <2>4, <2>5
<1>4. CASE \/ ClaimIdempotencyKey(a) \/ VerifySeatLocks(a) \/ Charge(a)
           \/ ConfirmBegin(a) \/ ConfirmVerify(a) \/ ConfirmCommit(a)
           \/ ReleaseSeatLocks(a) \/ PayError(a) \/ PayCrash(a)
  <2>1. /\ UNCHANGED <<slot, target>>
        /\ \E step \in PaySteps :
             /\ pay' = [pay EXCEPT ![a] = step]
             /\ step \in SlotSteps => pay[a] \in SlotSteps
    BY <1>4 DEF ClaimIdempotencyKey, VerifySeatLocks, Charge, ConfirmBegin,
       ConfirmVerify, ConfirmCommit, ReleaseSeatLocks, PayError, PayCrash,
       SlotSteps, PaySteps
  <2>2. \A c \in Attempts : pay'[c] \in SlotSteps => pay[c] \in SlotSteps
    <3>1. PICK step \in PaySteps :
            /\ pay' = [pay EXCEPT ![a] = step]
            /\ step \in SlotSteps => pay[a] \in SlotSteps
      BY <2>1
    <3>2. pay'[a] = step /\ \A c \in Attempts \ {a} : pay'[c] = pay[c]
      BY <3>1 DEF TypeOK
    <3>3. QED
      BY <3>1, <3>2
  <2>3. QED
    BY <2>1, <2>2 DEF SlotExclusive
<1>5. QED
  BY <1>1, <1>2, <1>3, <1>4 DEF PayStep

(* If no mutex outlives its TTL in the hands of a running attempt, only    *)
(* one attempt of a booking at a time is between taking and releasing it,  *)
(* whatever else fails.                                                    *)
THEOREM MutexExcludes ==
  ASSUME "slow" \notin Faults
  PROVE  Spec => []SlotExclusive
<1>1. Init => SlotInv
  BY DEF Init, SlotInv, SlotExclusive, SlotSteps, TypeOK, Statuses, HoldSteps,
     PaySteps, RelSteps
<1>2. SlotInv /\ TypeOK' /\ [Next]_vars => SlotInv'
  <2> SUFFICES ASSUME SlotInv, TypeOK', [Next]_vars
               PROVE  SlotInv'
    OBVIOUS
  <2> USE DEF redisVars, rowVars, holdVars, payVars, relVars
  <2>1. CASE \E a \in Attempts : PayStep(a)
    BY <2>1, SlotInvPay
  <2>2. CASE \E b \in Bookings : SlotLapses(b)
    BY <2>2 DEF SlotLapses, SlotInv, SlotExclusive, TypeOK
  <2>3. CASE UNCHANGED <<slot, pay, target>>
    BY <2>3 DEF SlotInv, SlotExclusive
  <2>4. CASE \/ \E b \in Bookings : HoldStep(b) \/ DeadlinePasses(b) \/ LocksLapse(b)
             \/ \E r \in Releases : RelStep(r)
             \/ Sweep
             \/ UNCHANGED vars
    <3>1. UNCHANGED <<slot, pay, target>>
      BY <2>4 DEF HoldStep, HoldCheck, Acquire, CreatePending, ReleaseQuietly,
         HoldError, HoldCrash, DeadlinePasses, LocksLapse, RelStep, RelRead,
         RelUnlock, MarkCancelled, RelError, RelCrash, Sweep, ClaimExpired, vars
    <3>2. QED
      BY <2>3, <3>1
  <2>5. QED
    BY <2>1, <2>2, <2>4 DEF Next, Tick
<1>3. SlotInv => SlotExclusive
  BY DEF SlotInv
<1>4. QED
  BY <1>1, <1>2, <1>3, TypeCorrect, PTL DEF Spec

-----------------------------------------------------------------------------
(* What a step may do to rows                                              *)

(* Rows are never deleted, keys never changed, sales never taken back, and *)
(* a booking that exists keeps its seats.                                  *)
RowsGrow ==
  \A b \in Bookings :
    /\ status[b] # "absent" => status'[b] # "absent" /\ want'[b] = want[b]
    /\ status[b] = "confirmed" => status'[b] = "confirmed"
    /\ key[b] # None => key'[b] = key[b]
    /\ sold[b] \subseteq sold'[b]

(* An attempt claims its own key, for its own booking, if nobody has it.   *)
KeysClaimed ==
  \/ key' = key
  \/ \E a \in Attempts :
       /\ pay[a] = "claim"
       /\ key[target[a]] \in {None, usedKey[a]}
       /\ key[target[a]] = None => ~KeyUsedElsewhere(target[a], usedKey[a])
       /\ key' = [key EXCEPT ![target[a]] = usedKey[a]]

LEMMA KeysStep ==
  ASSUME [Next]_vars
  PROVE  KeysClaimed
<1> USE DEF redisVars, rowVars, holdVars, payVars, relVars, KeysClaimed
<1>1. CASE UNCHANGED vars
  BY <1>1 DEF vars
<1>2. CASE \E b \in Bookings : HoldStep(b)
  BY <1>2 DEF HoldStep, HoldCheck, Acquire, CreatePending, ReleaseQuietly,
     HoldError, HoldCrash
<1>3. CASE \E b \in Bookings : Tick(b)
  BY <1>3 DEF Tick, DeadlinePasses, LocksLapse, SlotLapses
<1>4. CASE \E a \in Attempts : PayStep(a)
  <2>1. PICK a \in Attempts : PayStep(a)
    BY <1>4
  <2>2. CASE ClaimIdempotencyKey(a)
    BY <2>2 DEF ClaimIdempotencyKey
  <2>3. CASE ~ClaimIdempotencyKey(a)
    BY <2>1, <2>3 DEF PayStep, PayRead, AcquirePaymentSlot, VerifySeatLocks,
       Charge, ConfirmBegin, ConfirmVerify, ConfirmCommit, ReleaseSeatLocks,
       ReleaseSlot, PayError, PayCrash
  <2>4. QED
    BY <2>2, <2>3
<1>5. CASE \E r \in Releases : RelStep(r)
  BY <1>5 DEF RelStep, RelRead, RelUnlock, MarkCancelled, RelError, RelCrash
<1>6. CASE Sweep
  BY <1>6 DEF Sweep, ClaimExpired
<1>7. QED
  BY <1>1, <1>2, <1>3, <1>4, <1>5, <1>6 DEF Next

LEMMA RowsStep ==
  ASSUME IInv, [Next]_vars
  PROVE  RowsGrow
<1> SUFFICES ASSUME NEW b \in Bookings
             PROVE  /\ status[b] # "absent" =>
                         status'[b] # "absent" /\ want'[b] = want[b]
                    /\ status[b] = "confirmed" => status'[b] = "confirmed"
                    /\ key[b] # None => key'[b] = key[b]
                    /\ sold[b] \subseteq sold'[b]
  BY DEF RowsGrow
<1> USE DEF redisVars, rowVars, holdVars, payVars, relVars
<1>0. TypeOK
  BY DEF IInv
<1>1. key[b] # None => key'[b] = key[b]
  <2>1. CASE key' = key
    BY <2>1
  <2>2. CASE key' # key
    <3>1. PICK a \in Attempts :
            /\ pay[a] = "claim"
            /\ key[target[a]] \in {None, usedKey[a]}
            /\ key' = [key EXCEPT ![target[a]] = usedKey[a]]
      BY <2>2, KeysStep DEF KeysClaimed
    <3>2. QED
      BY <1>0, <3>1 DEF TypeOK
  <2>3. QED
    BY <2>1, <2>2
<1>2. status[b] = "confirmed" => status'[b] = "confirmed" /\ sold'[b] = sold[b]
  BY TerminalStep
<1>3. status[b] # "confirmed" => sold[b] = {}
  BY DEF IInv, LedgerConsistent
<1>4. status[b] # "absent" => status'[b] # "absent" /\ want'[b] = want[b]
  <2>1. CASE UNCHANGED vars
    BY <2>1 DEF vars
  <2>2. CASE \E c \in Bookings : HoldStep(c)
    <3>1. PICK c \in Bookings : HoldStep(c)
      BY <2>2
    <3>2. CASE CreatePending(c)
      BY <1>0, <3>2 DEF CreatePending, TypeOK
    <3>3. CASE HoldCheck(c)
      BY <1>0, <3>3 DEF HoldCheck, IInv, FreshUntilInserted, TypeOK
    <3>4. CASE Acquire(c) \/ ReleaseQuietly(c) \/ HoldError(c) \/ HoldCrash(c)
      BY <3>4 DEF Acquire, ReleaseQuietly, HoldError, HoldCrash
    <3>5. QED
      BY <3>1, <3>2, <3>3, <3>4 DEF HoldStep
  <2>3. CASE \E c \in Bookings : Tick(c)
    BY <2>3 DEF Tick, DeadlinePasses, LocksLapse, SlotLapses
  <2>4. CASE \E a \in Attempts : PayStep(a)
    <3>1. PICK a \in Attempts : PayStep(a)
      BY <2>4
    <3>2. CASE ConfirmCommit(a)
      BY <1>0, <3>2 DEF ConfirmCommit, TypeOK
    <3>3. CASE ~ConfirmCommit(a)
      BY <3>1, <3>3 DEF PayStep, PayRead, ClaimIdempotencyKey,
         AcquirePaymentSlot, VerifySeatLocks, Charge, ConfirmBegin,
         ConfirmVerify, ReleaseSeatLocks, ReleaseSlot, PayError, PayCrash
    <3>4. QED
      BY <3>2, <3>3
  <2>5. CASE \E r \in Releases : RelStep(r)
    <3>1. PICK r \in Releases : RelStep(r)
      BY <2>5
    <3>2. CASE MarkCancelled(r)
      BY <1>0, <3>2 DEF MarkCancelled, TypeOK
    <3>3. CASE ~MarkCancelled(r)
      BY <3>1, <3>3 DEF RelStep, RelRead, RelUnlock, RelError, RelCrash
    <3>4. QED
      BY <3>2, <3>3
  <2>6. CASE Sweep
    BY <2>6 DEF Sweep, ClaimExpired
  <2>7. QED
    BY <2>1, <2>2, <2>3, <2>4, <2>5, <2>6 DEF Next
<1>5. QED
  BY <1>1, <1>2, <1>3, <1>4

-----------------------------------------------------------------------------
(* The seat locks                                                          *)

(* A booking has no lock before its Acquire.                               *)
NoneBeforeAcquire ==
  \A b \in Bookings :
    hold[b] \in {"idle", "checked"} => \A s \in Seats : lock[s] # b

LocksInv == TypeOK /\ LocksAllOrNothing /\ NoneBeforeAcquire

(* The ways a step may change locks, or what they are compared with.       *)
Unlocks(b) ==
  /\ lock' = Unlocked(b)
  /\ UNCHANGED want
  /\ \A c \in Bookings : hold'[c] \in {"idle", "checked"} => hold'[c] = hold[c]

LeavesLocks ==
  /\ UNCHANGED <<lock, want>>
  /\ \A c \in Bookings : hold'[c] \in {"idle", "checked"} => hold'[c] = hold[c]

LEMMA LockSteps ==
  ASSUME TypeOK, [Next]_vars
  PROVE  \/ LeavesLocks
         \/ \E b \in Bookings : HoldCheck(b) \/ Acquire(b) \/ LocksLapse(b)
         \/ \E b \in Bookings : Unlocks(b) /\ ReleaseQuietly(b)
         \/ \E a \in Attempts : Unlocks(target[a]) /\ ReleaseSeatLocks(a)
         \/ \E r \in Releases : Unlocks(relOf[r]) /\ RelUnlock(r)
<1> USE DEF redisVars, rowVars, holdVars, payVars, relVars, LeavesLocks, Unlocks
<1>1. CASE UNCHANGED vars
  BY <1>1 DEF vars
<1>2. ASSUME NEW b \in Bookings, HoldStep(b) PROVE
        \/ LeavesLocks
        \/ HoldCheck(b) \/ Acquire(b)
        \/ Unlocks(b) /\ ReleaseQuietly(b)
  <2>1. CASE ReleaseQuietly(b)
    BY <2>1 DEF ReleaseQuietly, TypeOK
  <2>2. CASE CreatePending(b) \/ HoldError(b) \/ HoldCrash(b)
    BY <2>2 DEF CreatePending, HoldError, HoldCrash, TypeOK
  <2>. QED
    BY <1>2, <2>1, <2>2 DEF HoldStep
<1>3. ASSUME NEW b \in Bookings, Tick(b) PROVE LeavesLocks \/ LocksLapse(b)
  BY <1>3 DEF Tick, DeadlinePasses, SlotLapses
<1>4. ASSUME NEW a \in Attempts, PayStep(a) PROVE
        LeavesLocks \/ (Unlocks(target[a]) /\ ReleaseSeatLocks(a))
  BY <1>4 DEF PayStep, PayRead, ClaimIdempotencyKey, AcquirePaymentSlot,
     VerifySeatLocks, Charge, ConfirmBegin, ConfirmVerify, ConfirmCommit,
     ReleaseSeatLocks, ReleaseSlot, PayError, PayCrash
<1>5. ASSUME NEW r \in Releases, RelStep(r) PROVE
        LeavesLocks \/ (Unlocks(relOf[r]) /\ RelUnlock(r))
  BY <1>5 DEF RelStep, RelRead, RelUnlock, MarkCancelled, RelError, RelCrash
<1>6. CASE Sweep
  BY <1>6 DEF Sweep, ClaimExpired
<1>. QED
  BY <1>1, <1>2, <1>3, <1>4, <1>5, <1>6 DEF Next

LEMMA LocksInvNext ==
  ASSUME LocksInv, TypeOK', [Next]_vars
  PROVE  LocksInv'
<1> USE CheckoutAssumption
<1>0. TypeOK
  BY DEF LocksInv
<1>1. CASE LeavesLocks
  BY <1>1 DEF LeavesLocks, LocksInv, LocksAllOrNothing, NoneBeforeAcquire
<1>2. ASSUME NEW b \in Bookings, HoldCheck(b) PROVE LocksInv'
  <2>1. /\ UNCHANGED lock
        /\ \A s \in Seats : lock[s] # b
        /\ \A c \in Bookings \ {b} : want'[c] = want[c] /\ hold'[c] = hold[c]
    BY <1>2 DEF HoldCheck, HoldGoes, LocksInv, TypeOK, NoneBeforeAcquire, redisVars
  <2>2. LocksAllOrNothing'
    <3> SUFFICES ASSUME NEW c \in Bookings
                 PROVE  {s \in Seats : lock[s] = c} \in {{}, want'[c]}
      BY <2>1 DEF LocksAllOrNothing
    <3>1. CASE c = b
      BY <2>1, <3>1
    <3>2. CASE c # b
      BY <2>1, <3>2 DEF LocksInv, LocksAllOrNothing
    <3>. QED
      BY <3>1, <3>2
  <2>3. NoneBeforeAcquire'
    BY <2>1 DEF NoneBeforeAcquire, LocksInv
  <2>. QED
    BY <2>2, <2>3 DEF LocksInv
<1>3. ASSUME NEW b \in Bookings, Acquire(b) PROVE LocksInv'
  <2>1. CASE \E s \in want[b] : lock[s] # None
    <3>1. LeavesLocks
      BY <1>0, <1>3, <2>1 DEF Acquire, rowVars, TypeOK, LeavesLocks
    <3>. QED
      BY <1>1, <3>1
  <2>2. CASE \A s \in want[b] : lock[s] = None
    <3>1. /\ lock' = [s \in Seats |-> IF s \in want[b] THEN b ELSE lock[s]]
          /\ UNCHANGED want
          /\ hold[b] = "checked" /\ hold'[b] \in {"locked", "failed"}
          /\ \A c \in Bookings \ {b} : hold'[c] = hold[c]
      BY <1>0, <1>3, <2>2 DEF Acquire, HoldGoes, rowVars, TypeOK
    <3>2. \A s \in Seats : lock[s] # b
      BY <3>1 DEF LocksInv, NoneBeforeAcquire
    <3>3. want[b] \subseteq Seats
      BY <1>0 DEF TypeOK, Selections
    <3>4. LocksAllOrNothing'
      <4> SUFFICES ASSUME NEW c \in Bookings
                   PROVE  {s \in Seats : lock'[s] = c} \in {{}, want[c]}
        BY <3>1 DEF LocksAllOrNothing
      <4>1. CASE c = b
        BY <3>1, <3>2, <3>3, <4>1
      <4>2. CASE c # b
        <5>1. \A s \in Seats : lock'[s] = c <=> lock[s] = c
          BY <2>2, <3>1, <4>2
        <5>. QED
          BY <5>1 DEF LocksInv, LocksAllOrNothing
      <4>. QED
        BY <4>1, <4>2
    <3>5. NoneBeforeAcquire'
      BY <2>2, <3>1, <3>2 DEF NoneBeforeAcquire, LocksInv
    <3>. QED
      BY <3>4, <3>5 DEF LocksInv
  <2>. QED
    BY <2>1, <2>2
<1>4. ASSUME NEW b \in Bookings, LocksLapse(b) PROVE LocksInv'
  <2>1. /\ lock' = [s \in Seats |-> IF lock[s] = b THEN None ELSE lock[s]]
        /\ UNCHANGED <<want, hold>>
    BY <1>4 DEF LocksLapse, rowVars, holdVars
  <2>2. \A c \in Bookings : {s \in Seats : lock'[s] = c}
          \in {{}, {s \in Seats : lock[s] = c}}
    BY <2>1
  <2>. QED
    BY <2>1, <2>2 DEF LocksInv, LocksAllOrNothing, NoneBeforeAcquire
<1>5. ASSUME NEW b \in Bookings, Unlocks(b) PROVE LocksInv'
  <2>1. /\ lock' = [s \in Seats |-> IF lock[s] = b /\ s \in want[b]
                                    THEN None ELSE lock[s]]
        /\ UNCHANGED want
    BY <1>5 DEF Unlocks, Unlocked
  <2>2. LocksAllOrNothing'
    <3> SUFFICES ASSUME NEW c \in Bookings
                 PROVE  {s \in Seats : lock'[s] = c} \in {{}, want[c]}
      BY <2>1 DEF LocksAllOrNothing
    <3>1. {s \in Seats : lock[s] = c} \in {{}, want[c]}
      BY DEF LocksInv, LocksAllOrNothing
    <3>2. CASE c = b
      BY <2>1, <3>1, <3>2
    <3>3. CASE c # b
      BY <2>1, <3>1, <3>3
    <3>. QED
      BY <3>2, <3>3
  <2>3. NoneBeforeAcquire'
    BY <1>5, <2>1 DEF NoneBeforeAcquire, LocksInv, Unlocks
  <2>. QED
    BY <2>2, <2>3 DEF LocksInv
<1>6. \A a \in Attempts : ReleaseSeatLocks(a) => target[a] \in Bookings
  BY <1>0 DEF ReleaseSeatLocks, TypeOK
<1>7. \A r \in Releases : RelUnlock(r) => relOf[r] \in Bookings
  BY <1>0 DEF RelUnlock, TypeOK
<1>. QED
  BY <1>0, <1>1, <1>2, <1>3, <1>4, <1>5, <1>6, <1>7, LockSteps

(* Whatever is left of a booking's locks covers all its seats, with every  *)
(* fault: there is no half a hold.                                         *)
THEOREM LocksAreWhole == Spec => []LocksAllOrNothing
<1>1. Init => LocksInv
  BY CheckoutAssumption DEF Init, LocksInv, LocksAllOrNothing,
     NoneBeforeAcquire, TypeOK, Statuses, HoldSteps, PaySteps, RelSteps
<1>2. LocksInv /\ TypeOK' /\ [Next]_vars => LocksInv'
  BY LocksInvNext
<1>3. LocksInv => LocksAllOrNothing
  BY DEF LocksInv
<1>. QED
  BY <1>1, <1>2, <1>3, TypeCorrect, PTL DEF Spec

(* A lock goes by its own booking's steps or by its TTL, never by those of *)
(* another booking, and is not taken over.                                 *)
THEOREM OwnersUnlock == Spec => OnlyOwnerUnlocks
<1>1. TypeOK /\ [Next]_vars =>
        [\A s \in Seats : LET b == lock[s] IN
           b # None /\ lock'[s] # b =>
             /\ lock'[s] = None
             /\ \/ /\ b \in due \/ "skew" \in Faults
                   /\ UNCHANGED <<hold, pay, rel>>
                \/ hold'[b] # hold[b]
                \/ \E a \in Attempts : target[a] = b /\ pay'[a] # pay[a]
                \/ \E r \in Releases : relOf[r] = b /\ rel'[r] # rel[r]]_vars
  <2> SUFFICES ASSUME TypeOK, [Next]_vars, NEW s \in Seats, NEW b,
                      b = lock[s], b # None, lock'[s] # b
               PROVE  /\ lock'[s] = None
                      /\ \/ /\ b \in due \/ "skew" \in Faults
                            /\ UNCHANGED <<hold, pay, rel>>
                         \/ hold'[b] # hold[b]
                         \/ \E a \in Attempts :
                              target[a] = b /\ pay'[a] # pay[a]
                         \/ \E r \in Releases :
                              relOf[r] = b /\ rel'[r] # rel[r]
    OBVIOUS
  <2>1. ~LeavesLocks
    BY DEF LeavesLocks
  <2>2. ASSUME NEW c \in Bookings PROVE ~HoldCheck(c) /\ ~Acquire(c)
    BY DEF HoldCheck, Acquire, redisVars
  <2>3. ASSUME NEW c \in Bookings, LocksLapse(c)
        PROVE  /\ lock'[s] = None
               /\ b \in due \/ "skew" \in Faults
               /\ UNCHANGED <<hold, pay, rel>>
    BY <2>3 DEF LocksLapse, holdVars, payVars, relVars
  <2>4. ASSUME NEW c \in Bookings, Unlocks(c)
        PROVE  b = c /\ lock'[s] = None
    BY <2>4 DEF Unlocks, Unlocked
  <2>5. ASSUME NEW c \in Bookings, ReleaseQuietly(c) PROVE hold'[c] # hold[c]
    BY <2>5 DEF ReleaseQuietly, TypeOK
  <2>6. ASSUME NEW a \in Attempts, ReleaseSeatLocks(a)
        PROVE  target[a] \in Bookings /\ pay'[a] # pay[a]
    BY <2>6 DEF ReleaseSeatLocks, ReturnHoldingSlot, TypeOK
  <2>7. ASSUME NEW r \in Releases, RelUnlock(r)
        PROVE  relOf[r] \in Bookings /\ rel'[r] # rel[r]
    BY <2>7 DEF RelUnlock, TypeOK
  <2>. QED
    BY <2>1, <2>2, <2>3, <2>4, <2>5, <2>6, <2>7, LockSteps
<1>. QED
  BY <1>1, TypeCorrect, PTL DEF Spec, OnlyOwnerUnlocks

-----------------------------------------------------------------------------
(* Holds last                                                              *)

(* Why a booking keeps its locks until its deadline: it is inserted with   *)
(* them, whoever unlocks after a commit has committed, and whoever         *)
(* releases is counted as releasing.                                       *)
InsertsHeld ==
  \A b \in Bookings : hold[b] = "locked" /\ b \notin due => HoldsAll(b)

UnlocksSold ==
  \A a \in Attempts : pay[a] = "unlock" => status[target[a]] = "confirmed"

ReleasesInserted ==
  \A r \in Releases : rel[r] # "idle" => status[relOf[r]] # "absent"

HeldInv == IInv /\ InsertsHeld /\ UnlocksSold /\ ReleasesInserted

(* Why a booking that was charged is not charged again in time: an attempt *)
(* that charged keeps the mutex until it has sold the seats and dropped    *)
(* the locks, or has found them gone, or sold to a competitor.  Nobody     *)
(* gets past VerifySeatLocks then, since locks that are gone stay gone.    *)
PaysInserted ==
  \A a \in Attempts : pay[a] # "idle" => status[target[a]] # "absent"

ChargesInserted ==
  \A b \in Bookings : charged[b] >= 1 => status[b] # "absent"

ExpiredIsDue == \A b \in Bookings : status[b] = "expired" => b \in due

ReleasesUnlock ==
  /\ \A r \in Releases : rel[r] = "cancel" => ~HoldsAll(relOf[r])
  /\ \A b \in Bookings : status[b] = "cancelled" => ~HoldsAll(b)

SaleUnlocks ==
  \A b \in Bookings :
    status[b] = "confirmed" =>
      \/ ~HoldsAll(b)
      \/ \E a \in Attempts : target[a] = b /\ pay[a] = "unlock"

(* The steps of an attempt that has charged and not yet come to an end.    *)
ChargedSteps == {"begin", "inTx", "write", "unlock"}

(* Booking b was charged, in time, and its seats are nobody else's.        *)
ChargedInTime(b) == charged[b] >= 1 /\ b \notin due /\ UniqueIndexAccepts(b)

NoSecondCharge ==
  \A b \in Bookings :
    ChargedInTime(b) =>
      /\ charged[b] = 1
      /\ \A a \in Attempts : target[a] = b => pay[a] # "charge"
      /\ \/ ~HoldsAll(b)
         \/ \E a \in Attempts : target[a] = b /\ pay[a] \in ChargedSteps

ChargeInv ==
  /\ IInv /\ ReleasesInserted /\ PaysInserted /\ ChargesInserted /\ ExpiredIsDue
  /\ ReleasesUnlock /\ SaleUnlocks /\ NoSecondCharge

(* Who moves what.                                                         *)
LEMMA WhoMoves ==
  ASSUME TypeOK, [Next]_vars
  PROVE  /\ \A a \in Attempts :
              PayStep(a) \/ (pay'[a] = pay[a] /\ target'[a] = target[a])
         /\ \A r \in Releases :
              RelStep(r) \/ (rel'[r] = rel[r] /\ relOf'[r] = relOf[r])
         /\ \A b \in Bookings : HoldStep(b) \/ hold'[b] = hold[b]
         /\ charged' = charged \/ \E a \in Attempts : Charge(a)
         /\ due \subseteq due'
<1> USE DEF redisVars, rowVars, holdVars, payVars, relVars, TypeOK
<1>1. CASE UNCHANGED vars
  BY <1>1 DEF vars
<1>2. ASSUME NEW b \in Bookings, HoldStep(b)
      PROVE  /\ UNCHANGED <<pay, target, rel, relOf, charged, due>>
             /\ \A c \in Bookings \ {b} : hold'[c] = hold[c]
  BY <1>2 DEF HoldStep, HoldCheck, Acquire, CreatePending, ReleaseQuietly,
     HoldError, HoldCrash
<1>3. ASSUME NEW b \in Bookings, Tick(b)
      PROVE  UNCHANGED <<pay, target, rel, relOf, hold, charged>>
             /\ due \subseteq due'
  BY <1>3 DEF Tick, DeadlinePasses, LocksLapse, SlotLapses
<1>4. ASSUME NEW a \in Attempts, PayStep(a)
      PROVE  /\ UNCHANGED <<rel, relOf, hold, due>>
             /\ charged' = charged \/ Charge(a)
             /\ \A c \in Attempts \ {a} :
                  pay'[c] = pay[c] /\ target'[c] = target[c]
  BY <1>4 DEF PayStep, PayRead, ClaimIdempotencyKey, AcquirePaymentSlot,
     VerifySeatLocks, Charge, ConfirmBegin, ConfirmVerify, ConfirmCommit,
     ReleaseSeatLocks, ReleaseSlot, PayError, PayCrash, Return,
     ReturnHoldingSlot
<1>5. ASSUME NEW r \in Releases, RelStep(r)
      PROVE  /\ UNCHANGED <<pay, target, hold, charged, due>>
             /\ \A q \in Releases \ {r} : rel'[q] = rel[q] /\ relOf'[q] = relOf[q]
  BY <1>5 DEF RelStep, RelRead, RelUnlock, MarkCancelled, RelError, RelCrash,
     RelEnds
<1>6. CASE Sweep
  BY <1>6 DEF Sweep, ClaimExpired
<1>. QED
  BY <1>1, <1>2, <1>3, <1>4, <1>5, <1>6 DEF Next

LEMMA WhoSetsStatus ==
  ASSUME TypeOK, [Next]_vars, NEW b \in Bookings
  PROVE  \/ status'[b] = status[b]
         \/ CreatePending(b) /\ status'[b] = "pending"
         \/ \E a \in Attempts : /\ target[a] = b /\ ConfirmCommit(a)
                                /\ status'[b] = "confirmed"
         \/ \E r \in Releases : /\ relOf[r] = b /\ MarkCancelled(r)
                                /\ status'[b] = "cancelled"
         \/ b \in due /\ status'[b] = "expired"
<1> USE DEF redisVars, rowVars, holdVars, payVars, relVars, TypeOK
<1>1. CASE UNCHANGED vars
  BY <1>1 DEF vars
<1>2. ASSUME NEW c \in Bookings, HoldStep(c)
      PROVE  \/ status'[b] = status[b]
             \/ CreatePending(b) /\ status'[b] = "pending"
  BY <1>2 DEF HoldStep, HoldCheck, Acquire, CreatePending, ReleaseQuietly,
     HoldError, HoldCrash
<1>3. ASSUME NEW c \in Bookings, Tick(c) PROVE status' = status
  BY <1>3 DEF Tick, DeadlinePasses, LocksLapse, SlotLapses
<1>4. ASSUME NEW a \in Attempts, PayStep(a)
      PROVE  \/ status'[b] = status[b]
             \/ /\ target[a] = b /\ ConfirmCommit(a)
                /\ status'[b] = "confirmed"
  BY <1>4 DEF PayStep, PayRead, ClaimIdempotencyKey, AcquirePaymentSlot,
     VerifySeatLocks, Charge, ConfirmBegin, ConfirmVerify, ConfirmCommit,
     ReleaseSeatLocks, ReleaseSlot, PayError, PayCrash
<1>5. ASSUME NEW r \in Releases, RelStep(r)
      PROVE  \/ status'[b] = status[b]
             \/ /\ relOf[r] = b /\ MarkCancelled(r)
                /\ status'[b] = "cancelled"
  BY <1>5 DEF RelStep, RelRead, RelUnlock, MarkCancelled, RelError, RelCrash
<1>6. CASE Sweep
  BY <1>6 DEF Sweep, ClaimExpired, Lapsed
<1>. QED
  BY <1>1, <1>2, <1>3, <1>4, <1>5, <1>6 DEF Next

(* Once its Acquire has run, a booking gets no more locks...               *)
LEMMA LostForGood ==
  ASSUME TypeOK, [Next]_vars, NEW b \in Bookings,
         hold[b] \notin {"idle", "checked"}, ~HoldsAll(b)
  PROVE  ~HoldsAll(b)'
<1> USE CheckoutAssumption
<1>1. PICK s \in want[b] : lock[s] # b
  BY DEF HoldsAll
<1>2. s \in Seats
  BY DEF TypeOK, Selections
<1> DEFINE Lost == want'[b] = want[b] /\ lock'[s] # b
<1>3. Lost
  <2>1. CASE LeavesLocks
    BY <1>1, <2>1 DEF LeavesLocks
  <2>2. ASSUME NEW c \in Bookings, HoldCheck(c) \/ Acquire(c) PROVE Lost
    <3>1. c # b
      BY <2>2 DEF HoldCheck, Acquire
    <3>. QED
      BY <1>1, <1>2, <2>2, <3>1 DEF HoldCheck, Acquire, redisVars, rowVars, TypeOK
  <2>3. ASSUME NEW c \in Bookings, LocksLapse(c) PROVE Lost
    BY <1>1, <1>2, <2>3 DEF LocksLapse, rowVars
  <2>4. ASSUME NEW c, Unlocks(c) PROVE Lost
    BY <1>1, <1>2, <2>4 DEF Unlocks, Unlocked
  <2>. QED
    BY <2>1, <2>2, <2>3, <2>4, LockSteps
<1>. QED
  BY <1>3 DEF HoldsAll

(* ... and it loses them to its own steps and its TTL only.                *)
LEMMA HeldOn ==
  ASSUME TypeOK, [Next]_vars, NEW b \in Bookings,
         hold[b] \notin {"idle", "checked"}, HoldsAll(b),
         ~LocksLapse(b), ~ReleaseQuietly(b),
         \A a \in Attempts : target[a] = b => ~ReleaseSeatLocks(a),
         \A r \in Releases : relOf[r] = b => ~RelUnlock(r)
  PROVE  HoldsAll(b)'
<1> USE CheckoutAssumption
<1>1. want[b] \subseteq Seats
  BY DEF TypeOK, Selections
<1>2. CASE LeavesLocks
  BY <1>2 DEF LeavesLocks, HoldsAll
<1>3. ASSUME NEW c \in Bookings, HoldCheck(c) \/ Acquire(c) PROVE HoldsAll(b)'
  <2>1. c # b
    BY <1>3 DEF HoldCheck, Acquire
  <2>2. want'[b] = want[b]
    BY <1>3, <2>1 DEF HoldCheck, Acquire, rowVars, TypeOK
  <2>3. \A s \in want[b] : lock'[s] = lock[s]
    BY <1>1, <1>3, <2>1 DEF HoldCheck, Acquire, redisVars, HoldsAll
  <2>. QED
    BY <2>2, <2>3 DEF HoldsAll
<1>4. ASSUME NEW c \in Bookings, LocksLapse(c) PROVE HoldsAll(b)'
  BY <1>1, <1>4 DEF LocksLapse, rowVars, HoldsAll
<1>5. ASSUME NEW c, Unlocks(c), c # b PROVE HoldsAll(b)'
  BY <1>1, <1>5 DEF Unlocks, Unlocked, HoldsAll
<1>. QED
  BY <1>2, <1>3, <1>4, <1>5, LockSteps

-----------------------------------------------------------------------------
(* Bookings hold their seats                                               *)

LEMMA InsertedHasChecked ==
  ASSUME IInv, NEW b \in Bookings, status[b] # "absent"
  PROVE  hold[b] \notin {"idle", "checked", "locked"} /\ want[b] # {}
  BY DEF IInv, FreshUntilInserted, InsertedNamesSeats, Selections

LEMMA UnlocksSoldNext ==
  ASSUME IInv, TypeOK', UnlocksSold, [Next]_vars
  PROVE  UnlocksSold'
<1>0. TypeOK /\ RowsGrow
  BY RowsStep DEF IInv
<1> SUFFICES ASSUME NEW a \in Attempts, pay'[a] = "unlock"
             PROVE  status'[target'[a]] = "confirmed"
  BY DEF UnlocksSold
<1>1. CASE pay[a] = "unlock" /\ target'[a] = target[a]
  BY <1>0, <1>1 DEF UnlocksSold, RowsGrow, TypeOK
<1>2. CASE PayStep(a) /\ ~(pay[a] = "unlock" /\ target'[a] = target[a])
  <2>1. ConfirmCommit(a)
    BY <1>0, <1>2 DEF PayStep, PayRead, ClaimIdempotencyKey,
       AcquirePaymentSlot, VerifySeatLocks, Charge, ConfirmBegin,
       ConfirmVerify, ReleaseSeatLocks, ReleaseSlot, PayError, PayCrash,
       Return, ReturnHoldingSlot, TypeOK
  <2>. QED
    BY <1>0, <2>1 DEF ConfirmCommit, ReturnHoldingSlot, TypeOK
<1>. QED
  BY <1>0, <1>1, <1>2, WhoMoves

LEMMA ReleasesInsertedNext ==
  ASSUME IInv, TypeOK', ReleasesInserted, [Next]_vars
  PROVE  ReleasesInserted'
<1>0. TypeOK /\ RowsGrow
  BY RowsStep DEF IInv
<1> SUFFICES ASSUME NEW r \in Releases, rel'[r] # "idle"
             PROVE  status'[relOf'[r]] # "absent"
  BY DEF ReleasesInserted
<1>1. CASE rel[r] # "idle" /\ relOf'[r] = relOf[r]
  BY <1>0, <1>1 DEF ReleasesInserted, RowsGrow, TypeOK
<1>2. CASE RelStep(r) /\ ~(rel[r] # "idle" /\ relOf'[r] = relOf[r])
  BY <1>0, <1>2 DEF RelStep, RelRead, RelUnlock, MarkCancelled, RelError,
     RelCrash, RelEnds, TypeOK, rowVars
<1>. QED
  BY <1>0, <1>1, <1>2, WhoMoves

LEMMA InsertsHeldNext ==
  ASSUME "skew" \notin Faults, HeldInv, TypeOK', [Next]_vars
  PROVE  InsertsHeld'
<1> USE DEF HeldInv
<1>0. TypeOK
  BY DEF IInv
<1> SUFFICES ASSUME NEW b \in Bookings, hold'[b] = "locked", b \notin due'
             PROVE  HoldsAll(b)'
  BY DEF InsertsHeld
<1>1. b \notin due
  BY <1>0, WhoMoves
<1>2. CASE hold[b] = "locked"
  <2>1. status[b] = "absent" /\ HoldsAll(b)
    BY <1>1, <1>2 DEF IInv, FreshUntilInserted, InsertsHeld
  <2>2. ~LocksLapse(b) /\ ~ReleaseQuietly(b)
    BY <1>1, <1>2 DEF LocksLapse, ReleaseQuietly
  <2>3. \A a \in Attempts : target[a] = b => ~ReleaseSeatLocks(a)
    BY <2>1 DEF UnlocksSold, ReleaseSeatLocks
  <2>4. \A r \in Releases : relOf[r] = b => ~RelUnlock(r)
    BY <2>1 DEF ReleasesInserted, RelUnlock
  <2>. QED
    BY <1>0, <1>2, <2>1, <2>2, <2>3, <2>4, HeldOn
<1>3. CASE hold[b] # "locked"
  <2>1. HoldStep(b)
    BY <1>0, <1>3, WhoMoves
  <2>2. Acquire(b)
    BY <1>0, <1>3, <2>1 DEF HoldStep, HoldCheck, CreatePending,
       ReleaseQuietly, HoldError, HoldCrash, TypeOK
  <2>3. /\ lock' = [s \in Seats |-> IF s \in want[b] THEN b ELSE lock[s]]
        /\ want' = want
    BY <1>0, <2>2 DEF Acquire, rowVars, TypeOK
  <2>4. want[b] \subseteq Seats
    BY <1>0 DEF TypeOK, Selections
  <2>. QED
    BY <2>3, <2>4 DEF HoldsAll
<1>. QED
  BY <1>2, <1>3

LEMMA HeldNext ==
  ASSUME "skew" \notin Faults, HeldInv, IInv', [Next]_vars
  PROVE  HeldInv'
<1>1. IInv /\ TypeOK'
  BY DEF HeldInv, IInv
<1>. QED
  BY <1>1, InsertsHeldNext, UnlocksSoldNext, ReleasesInsertedNext DEF HeldInv

LEMMA HeldInvHolds ==
  ASSUME "skew" \notin Faults
  PROVE  Spec => []HeldInv
<1>1. Init => HeldInv
  BY IInvInit DEF Init, HeldInv, InsertsHeld, UnlocksSold, ReleasesInserted
<1>2. HeldInv /\ IInv' /\ [Next]_vars => HeldInv'
  BY HeldNext
<1>. QED
  BY <1>1, <1>2, InvariantHolds, PTL DEF Spec

LEMMA BookedIsHeld ==
  ASSUME "skew" \notin Faults, HeldInv, [Next]_vars, NEW b \in Bookings,
         hold'[b] = "booked", status'[b] = "pending", b \notin due',
         hold[b] = "booked" => HoldsAll(b)
  PROVE  \/ HoldsAll(b)'
         \/ \E r \in Releases :
              relOf[r] = b /\ rel[r] = "unlock" /\ rel'[r] = "cancel"
<1> USE DEF HeldInv
<1>0. TypeOK
  BY DEF IInv
<1>1. b \notin due
  BY <1>0, WhoMoves
<1>2. CASE hold[b] # "booked"
  <2>1. HoldStep(b)
    BY <1>0, <1>2, WhoMoves
  <2>2. CreatePending(b)
    BY <1>0, <1>2, <2>1 DEF HoldStep, HoldCheck, Acquire, ReleaseQuietly,
       HoldError, HoldCrash, TypeOK
  <2>3. HoldsAll(b) /\ UNCHANGED <<lock, want>>
    BY <1>1, <2>2 DEF CreatePending, InsertsHeld, redisVars
  <2>. QED
    BY <2>3 DEF HoldsAll
<1>3. CASE hold[b] = "booked"
  <2>1. status[b] = "pending"
    BY <1>0, <1>3, WhoSetsStatus DEF CreatePending
  <2>2. ~LocksLapse(b) /\ ~ReleaseQuietly(b)
    BY <1>1, <1>3 DEF LocksLapse, ReleaseQuietly
  <2>3. \A a \in Attempts : target[a] = b => ~ReleaseSeatLocks(a)
    BY <2>1 DEF UnlocksSold, ReleaseSeatLocks
  <2>4. ASSUME NEW r \in Releases, relOf[r] = b, RelUnlock(r)
        PROVE  rel[r] = "unlock" /\ rel'[r] = "cancel"
    BY <1>0, <2>4 DEF RelUnlock, TypeOK
  <2>. QED
    BY <1>0, <1>3, <2>2, <2>3, <2>4, HeldOn
<1>. QED
  BY <1>2, <1>3

(* As long as locks keep their TTL, and whatever else fails: a booking     *)
(* starts with all its seats, and nothing but its own release takes them   *)
(* while it is pending and in time.                                        *)
THEOREM HoldsDoLast ==
  ASSUME "skew" \notin Faults
  PROVE  Spec => HoldsLast
<1>1. HeldInv /\ [Next]_vars =>
        [\A b \in Bookings :
           /\ hold'[b] = "booked" /\ status'[b] = "pending" /\ b \notin due'
           /\ hold[b] = "booked" => HoldsAll(b)
           => \/ HoldsAll(b)'
              \/ \E r \in Releases :
                   relOf[r] = b /\ rel[r] = "unlock" /\ rel'[r] = "cancel"]_vars
  BY BookedIsHeld
<1>. QED
  BY <1>1, HeldInvHolds, PTL DEF Spec, HoldsLast

LEMMA PendingHeldNext ==
  ASSUME Faults \subseteq {"lost", "slow"}, HeldInv, PendingHoldsSeats,
         [Next]_vars
  PROVE  PendingHoldsSeats'
<1>0. TypeOK
  BY DEF HeldInv, IInv
<1> SUFFICES ASSUME NEW b \in Bookings, hold'[b] = "booked",
                    status'[b] = "pending", b \notin due',
                    \A r \in Releases : ~(relOf'[r] = b /\ rel'[r] = "cancel")
             PROVE  HoldsAll(b)'
  BY DEF PendingHoldsSeats
<1>1. ASSUME hold[b] = "booked" PROVE HoldsAll(b)
  <2>1. b \notin due
    BY <1>0, WhoMoves
  <2>2. status[b] = "pending"
    BY <1>0, <1>1, WhoSetsStatus DEF CreatePending
  <2>3. ASSUME NEW r \in Releases, relOf[r] = b, rel[r] = "cancel"
        PROVE  FALSE
    <3>1. RelStep(r)
      BY <1>0, <2>3, WhoMoves
    <3>2. MarkCancelled(r)
      BY <2>3, <3>1 DEF RelStep, RelRead, RelUnlock, RelError, RelCrash
    <3>. QED
      BY <1>0, <2>2, <2>3, <3>2 DEF MarkCancelled, TypeOK
  <2>. QED
    BY <1>1, <2>1, <2>2, <2>3 DEF PendingHoldsSeats
<1>2. ASSUME NEW r \in Releases, relOf[r] = b, rel[r] = "unlock",
             rel'[r] = "cancel"
      PROVE  FALSE
  <2>1. RelStep(r)
    BY <1>0, <1>2, WhoMoves
  <2>2. relOf'[r] = b
    BY <1>0, <1>2, <2>1 DEF RelStep, RelRead, RelUnlock, MarkCancelled,
       RelError, RelCrash
  <2>. QED
    BY <1>2, <2>2
<1>. QED
  BY <1>1, <1>2, BookedIsHeld

(* If no request dies or has a call fail without effect, a pending booking *)
(* has the lock of every seat it named until its deadline, whatever other  *)
(* requests do and whichever replies are lost.                             *)
THEOREM PendingIsHeld ==
  ASSUME Faults \subseteq {"lost", "slow"}
  PROVE  Spec => []PendingHoldsSeats
<1>1. Init => PendingHoldsSeats
  BY DEF Init, PendingHoldsSeats
<1>2. HeldInv /\ PendingHoldsSeats /\ [Next]_vars => PendingHoldsSeats'
  BY PendingHeldNext
<1>3. Spec => []HeldInv
  BY HeldInvHolds
<1>. QED
  BY <1>1, <1>2, <1>3, PTL DEF Spec

-----------------------------------------------------------------------------
(* Charged once while held                                                 *)

LEMMA PaysInsertedNext ==
  ASSUME IInv, TypeOK', PaysInserted, [Next]_vars
  PROVE  PaysInserted'
<1>0. TypeOK /\ RowsGrow
  BY RowsStep DEF IInv
<1> SUFFICES ASSUME NEW a \in Attempts, pay'[a] # "idle"
             PROVE  status'[target'[a]] # "absent"
  BY DEF PaysInserted
<1>1. CASE pay[a] # "idle" /\ target'[a] = target[a]
  BY <1>0, <1>1 DEF PaysInserted, RowsGrow, TypeOK
<1>2. CASE PayStep(a) /\ ~(pay[a] # "idle" /\ target'[a] = target[a])
  <2>1. \E b \in Bookings, k \in Keys : PayRead(a, b, k)
    BY <1>0, <1>2 DEF PayStep, ClaimIdempotencyKey, AcquirePaymentSlot,
       VerifySeatLocks, Charge, ConfirmBegin, ConfirmVerify, ConfirmCommit,
       ReleaseSeatLocks, ReleaseSlot, PayError, PayCrash, TypeOK
  <2>. QED
    BY <1>0, <2>1 DEF PayRead, TypeOK, rowVars
<1>. QED
  BY <1>0, <1>1, <1>2, WhoMoves

LEMMA ChargesInsertedNext ==
  ASSUME IInv, PaysInserted, ChargesInserted, [Next]_vars
  PROVE  ChargesInserted'
<1>0. TypeOK /\ RowsGrow
  BY RowsStep DEF IInv
<1> SUFFICES ASSUME NEW b \in Bookings, charged'[b] >= 1
             PROVE  status'[b] # "absent"
  BY DEF ChargesInserted
<1>1. CASE charged'[b] = charged[b]
  BY <1>0, <1>1 DEF ChargesInserted, RowsGrow
<1>2. CASE charged'[b] # charged[b]
  <2>1. PICK a \in Attempts : Charge(a)
    BY <1>0, <1>2, WhoMoves
  <2>2. target[a] = b /\ pay[a] = "charge"
    BY <1>0, <1>2, <2>1 DEF Charge, TypeOK
  <2>. QED
    BY <1>0, <2>2 DEF PaysInserted, RowsGrow
<1>. QED
  BY <1>1, <1>2

(* What each step of an attempt asks of it, when no call fails.            *)
LEMMA StepsOfPay ==
  ASSUME Faults \subseteq {"skew"}, TypeOK, NEW a \in Attempts, PayStep(a)
  PROVE  /\ pay'[a] = "charge" => VerifySeatLocks(a)
         /\ pay[a] = "charge" => Charge(a)
         /\ pay[a] = "begin" => ConfirmBegin(a)
         /\ pay[a] = "inTx" => ConfirmVerify(a)
         /\ pay[a] = "write" => ConfirmCommit(a)
         /\ pay[a] = "unlock" => ReleaseSeatLocks(a)
         /\ pay[a] # "idle" => target'[a] = target[a]
         /\ pay[a] = "idle" => status[target'[a]] # "absent" /\ status' = status
  BY DEF PayStep, PayRead, ClaimIdempotencyKey, AcquirePaymentSlot,
     VerifySeatLocks, Charge, ConfirmBegin, ConfirmVerify, ConfirmCommit,
     ReleaseSeatLocks, ReleaseSlot, PayError, PayCrash, Return,
     ReturnHoldingSlot, TypeOK, rowVars

(* A competitor that has bought a seat keeps it.                           *)
LEMMA StaysRefused ==
  ASSUME RowsGrow, NEW b \in Bookings, status[b] # "absent",
         UniqueIndexAccepts(b)'
  PROVE  UniqueIndexAccepts(b)
  BY DEF RowsGrow, UniqueIndexAccepts

(* A booking whose locks are released has lost them.                       *)
LEMMA UnlockedLoses ==
  ASSUME IInv, NEW b \in Bookings, status[b] # "absent",
         lock' = Unlocked(b), want' = want
  PROVE  ~HoldsAll(b)'
<1>1. want[b] # {} /\ want[b] \subseteq Seats
  BY InsertedHasChecked DEF IInv, TypeOK, Selections
<1>. QED
  BY <1>1, CheckoutAssumption DEF Unlocked, HoldsAll

LEMMA ReleasesUnlockNext ==
  ASSUME Faults \subseteq {"skew"}, ChargeInv, TypeOK', [Next]_vars
  PROVE  ReleasesUnlock'
<1> USE DEF ChargeInv
<1>0. IInv /\ TypeOK /\ RowsGrow
  BY RowsStep DEF IInv
<1>1. ASSUME NEW r \in Releases, (rel[r] = "cancel")', NEW b \in Bookings,
             b = relOf'[r]
      PROVE  ~HoldsAll(b)'
  <2>1. CASE rel[r] = "cancel" /\ relOf'[r] = relOf[r]
    <3>1. status[b] # "absent" /\ ~HoldsAll(b)
      BY <1>1, <2>1 DEF ReleasesInserted, ReleasesUnlock
    <3>. QED
      BY <1>0, <3>1, InsertedHasChecked, LostForGood
  <2>2. CASE RelStep(r) /\ ~(rel[r] = "cancel" /\ relOf'[r] = relOf[r])
    <3>1. RelUnlock(r)
      BY <1>0, <1>1, <2>2 DEF RelStep, RelRead, MarkCancelled, RelError,
         RelCrash, RelEnds, TypeOK
    <3>2. status[b] # "absent" /\ want' = want /\ lock' = Unlocked(b)
      BY <1>0, <1>1, <3>1 DEF RelUnlock, ReleasesInserted, TypeOK, rowVars
    <3>. QED
      BY <1>0, <3>2, UnlockedLoses
  <2>. QED
    BY <1>0, <1>1, <2>1, <2>2, WhoMoves
<1>2. ASSUME NEW b \in Bookings, status'[b] = "cancelled" PROVE ~HoldsAll(b)'
  <2>1. status[b] # "absent" /\ ~HoldsAll(b)
    <3>1. CASE status[b] = "cancelled"
      BY <3>1 DEF ReleasesUnlock
    <3>2. CASE \E r \in Releases : relOf[r] = b /\ MarkCancelled(r)
      BY <3>2 DEF MarkCancelled, ReleasesUnlock, ReleasesInserted
    <3>. QED
      BY <1>0, <1>2, <3>1, <3>2, WhoSetsStatus
  <2>. QED
    BY <1>0, <2>1, InsertedHasChecked, LostForGood
<1>3. \A r \in Releases : rel'[r] = "cancel" => relOf'[r] \in Bookings
  BY DEF TypeOK
<1>. QED
  BY <1>1, <1>2, <1>3 DEF ReleasesUnlock

LEMMA SaleUnlocksNext ==
  ASSUME Faults \subseteq {"skew"}, ChargeInv, TypeOK', [Next]_vars
  PROVE  SaleUnlocks'
<1> USE DEF ChargeInv
<1>0. IInv /\ TypeOK /\ RowsGrow
  BY RowsStep DEF IInv
<1> SUFFICES ASSUME NEW b \in Bookings, status'[b] = "confirmed"
             PROVE  \/ ~HoldsAll(b)'
                    \/ \E a \in Attempts : target'[a] = b /\ pay'[a] = "unlock"
  BY DEF SaleUnlocks
<1>1. CASE \E a \in Attempts : target[a] = b /\ ConfirmCommit(a)
  <2>1. PICK a \in Attempts : target[a] = b /\ ConfirmCommit(a)
    BY <1>1
  <2>2. status[b] = "pending"
    BY <2>1 DEF IInv, TxOverPending, TxSteps, ConfirmCommit
  <2>. QED
    BY <1>0, <2>1, <2>2 DEF ConfirmCommit, TypeOK
<1>2. CASE status[b] = "confirmed"
  <2>1. CASE ~HoldsAll(b)
    BY <1>0, <1>2, <2>1, InsertedHasChecked, LostForGood
  <2>2. ASSUME NEW a \in Attempts, target[a] = b, pay[a] = "unlock"
        PROVE  \/ ~HoldsAll(b)'
               \/ target'[a] = b /\ pay'[a] = "unlock"
    <3>1. CASE PayStep(a)
      <4>1. want' = want /\ lock' = Unlocked(b)
        BY <1>0, <2>2, <3>1, StepsOfPay DEF ReleaseSeatLocks, rowVars
      <4>. QED
        BY <1>0, <1>2, <4>1, UnlockedLoses
    <3>. QED
      BY <1>0, <2>2, <3>1, WhoMoves
  <2>. QED
    BY <1>2, <2>1, <2>2 DEF SaleUnlocks
<1>. QED
  BY <1>0, <1>1, <1>2, WhoSetsStatus

LEMMA NoSecondChargeNext ==
  ASSUME Faults \subseteq {"skew"}, ChargeInv, SlotExclusive, SlotExclusive', TypeOK',
         [Next]_vars
  PROVE  NoSecondCharge'
<1> USE DEF ChargeInv
<1>0. IInv /\ TypeOK /\ RowsGrow
  BY RowsStep DEF IInv
<1> SUFFICES ASSUME NEW b \in Bookings, ChargedInTime(b)'
             PROVE  /\ charged'[b] = 1
                    /\ \A a \in Attempts : target'[a] = b => pay'[a] # "charge"
                    /\ \/ ~HoldsAll(b)'
                       \/ \E a \in Attempts :
                            target'[a] = b /\ pay'[a] \in ChargedSteps
  BY DEF NoSecondCharge
<1>d. b \notin due
  BY <1>0, WhoMoves DEF ChargedInTime
<1>1. CASE charged'[b] = charged[b]
  <2>0. status[b] # "absent"
    BY <1>1 DEF ChargesInserted, ChargedInTime
  <2>1. ChargedInTime(b)
    BY <1>0, <1>1, <1>d, <2>0, StaysRefused DEF ChargedInTime
  <2>2. /\ charged[b] = 1
        /\ \A a \in Attempts : target[a] = b => pay[a] # "charge"
        /\ \/ ~HoldsAll(b)
           \/ \E a \in Attempts : target[a] = b /\ pay[a] \in ChargedSteps
    BY <2>1 DEF NoSecondCharge
  <2>3. ASSUME NEW a \in Attempts, target'[a] = b, pay'[a] = "charge"
        PROVE  FALSE
    <3>1. PayStep(a)
      BY <1>0, <2>2, <2>3, WhoMoves
    <3>2. VerifySeatLocks(a) /\ target[a] = b /\ pay[a] = "verify"
      BY <1>0, <2>3, <3>1, StepsOfPay DEF VerifySeatLocks
    <3>3. HoldsAll(b)
      BY <1>0, <2>3, <3>2 DEF VerifySeatLocks, ReturnHoldingSlot, TypeOK
    <3>. QED
      BY <2>2, <3>2, <3>3 DEF SlotExclusive, SlotSteps, ChargedSteps
  <2>4. CASE ~HoldsAll(b)
    BY <1>0, <1>1, <2>0, <2>2, <2>3, <2>4, InsertedHasChecked, LostForGood
  <2>5. ASSUME NEW a \in Attempts, target[a] = b, pay[a] \in ChargedSteps,
               HoldsAll(b), ~(target'[a] = b /\ pay'[a] \in ChargedSteps)
        PROVE  ~HoldsAll(b)'
    <3>1. PayStep(a) /\ target'[a] = b
      BY <1>0, <2>5, WhoMoves, StepsOfPay DEF ChargedSteps
    <3>2. CASE pay[a] = "begin"
      <4>1. ConfirmBegin(a) /\ status[b] # "pending"
        BY <1>0, <2>5, <3>1, <3>2, StepsOfPay
           DEF ConfirmBegin, ChargedSteps, TypeOK
      <4>2. status[b] \in {"confirmed", "cancelled", "expired"}
        BY <1>0, <2>0, <4>1 DEF TypeOK, Statuses
      <4>3. status[b] # "confirmed"
        BY <2>5, <3>2 DEF SaleUnlocks, SlotExclusive, SlotSteps
      <4>. QED
        BY <1>d, <2>5, <4>2, <4>3 DEF ExpiredIsDue, ReleasesUnlock
    <3>3. CASE pay[a] = "inTx"
      BY <1>0, <2>5, <3>1, <3>3, StepsOfPay
         DEF ConfirmVerify, ChargedSteps, TypeOK
    <3>4. CASE pay[a] = "write"
      BY <1>0, <2>1, <2>5, <3>1, <3>4, StepsOfPay
         DEF ConfirmCommit, ChargedSteps, ChargedInTime, TypeOK
    <3>5. CASE pay[a] = "unlock"
      <4>1. want' = want /\ lock' = Unlocked(b)
        BY <1>0, <2>5, <3>1, <3>5, StepsOfPay DEF ReleaseSeatLocks, rowVars
      <4>. QED
        BY <1>0, <2>0, <4>1, UnlockedLoses
    <3>. QED
      BY <2>5, <3>2, <3>3, <3>4, <3>5 DEF ChargedSteps
  <2>. QED
    BY <1>1, <2>2, <2>3, <2>4, <2>5
<1>2. CASE charged'[b] # charged[b]
  <2>1. PICK a \in Attempts : Charge(a)
    BY <1>0, <1>2, WhoMoves
  <2>2. /\ target[a] = b /\ target' = target
        /\ charged'[b] = charged[b] + 1
        /\ pay[a] = "charge" /\ pay' = [pay EXCEPT ![a] = "begin"]
        /\ UNCHANGED <<want, sold>>
    BY <1>0, <1>2, <2>1 DEF Charge, TypeOK, rowVars
  <2>3. charged[b] = 0
    <3>1. UniqueIndexAccepts(b)
      BY <2>2 DEF ChargedInTime, UniqueIndexAccepts
    <3>2. ~ChargedInTime(b)
      BY <2>2 DEF NoSecondCharge
    <3>. QED
      BY <1>0, <1>d, <3>1, <3>2 DEF ChargedInTime, TypeOK
  <2>4. pay'[a] = "begin" /\ \A c \in Attempts \ {a} : pay'[c] = pay[c]
    BY <1>0, <2>2 DEF TypeOK
  <2>5. \A c \in Attempts : target[c] = b /\ pay[c] = "charge" => c = a
    BY <2>2 DEF SlotExclusive, SlotSteps
  <2>. QED
    BY <2>2, <2>3, <2>4, <2>5 DEF ChargedSteps
<1>. QED
  BY <1>1, <1>2

LEMMA ChargeNext ==
  ASSUME Faults \subseteq {"skew"}, ChargeInv, SlotExclusive, SlotExclusive', IInv',
         ReleasesInserted', [Next]_vars
  PROVE  ChargeInv'
<1> USE DEF ChargeInv
<1>0. IInv /\ TypeOK /\ TypeOK' /\ RowsGrow
  BY RowsStep DEF IInv
<1>1. PaysInserted' /\ ChargesInserted'
  BY <1>0, PaysInsertedNext, ChargesInsertedNext
<1>2. ExpiredIsDue'
  BY <1>0, WhoMoves, WhoSetsStatus DEF ExpiredIsDue
<1>. QED
  BY <1>0, <1>1, <1>2, ReleasesUnlockNext, SaleUnlocksNext,
     NoSecondChargeNext

(* If no call fails, no retry, double click or release makes the provider  *)
(* charge a booking twice before its deadline, unless a competitor has     *)
(* bought a seat of it.  Locks may vanish early: they do not come back.    *)
THEOREM ChargedOnce ==
  ASSUME Faults \subseteq {"skew"}
  PROVE  Spec => []ChargedOnceWhileHeld
<1>1. Init => ChargeInv
  BY IInvInit DEF Init, ChargeInv, ReleasesInserted, PaysInserted,
     ChargesInserted, ExpiredIsDue, ReleasesUnlock, SaleUnlocks,
     NoSecondCharge, ChargedInTime
<1>2. /\ ChargeInv /\ SlotExclusive /\ SlotExclusive' /\ IInv' /\ [Next]_vars
      => ChargeInv'
  BY ReleasesInsertedNext, ChargeNext DEF ChargeInv, IInv
<1>3. ChargeInv => ChargedOnceWhileHeld
  <2> SUFFICES ASSUME ChargeInv, NEW b \in Bookings, charged[b] > 1,
                      b \notin due, UniqueIndexAccepts(b)
               PROVE  FALSE
    BY DEF ChargedOnceWhileHeld
  <2>1. charged[b] \in Nat
    BY DEF ChargeInv, IInv, TypeOK
  <2>. QED
    BY <2>1 DEF ChargeInv, NoSecondCharge, ChargedInTime
<1>4. Spec => []SlotExclusive
  BY MutexExcludes
<1>. QED
  BY <1>1, <1>2, <1>3, <1>4, InvariantHolds, PTL DEF Spec

-----------------------------------------------------------------------------
(* Every further charge is accounted for                                   *)

(* The steps of an attempt that has charged and may still sell.            *)
ConfirmSteps == {"begin"} \cup TxSteps

(* An answer is the last thing an attempt decides, so failing is final.    *)
AnswerLast ==
  \A a \in Attempts : answer[a] # None => pay[a] \in {"unslot", "done"}

(* One charge of a pending booking may be unaccounted for, and then its    *)
(* attempt still has the mutex, or has found locks gone that stay gone.    *)
Accounted(b) ==
  LET failures == Cardinality(Failed(b)) IN
  /\ charged[b] <= 1 + failures
  /\ charged[b] = 1 + failures =>
       /\ \A a \in Attempts : target[a] = b => pay[a] # "charge"
       /\ \/ ~HoldsAll(b)
          \/ \E a \in Attempts : target[a] = b /\ pay[a] \in ConfirmSteps

AccountInv ==
  /\ IInv /\ PaysInserted /\ ChargesInserted /\ AnswerLast
  /\ \A b \in Bookings :
       status[b] = "pending" /\ UniqueIndexAccepts(b) => Accounted(b)

LEMMA AnswerLastNext ==
  ASSUME TypeOK, AnswerLast, [Next]_vars
  PROVE  AnswerLast' /\ \A b \in Bookings : Failed(b) \subseteq Failed(b)'
<1> USE DEF AnswerLast
<1>1. ASSUME NEW a \in Attempts, PayStep(a)
      PROVE  /\ answer'[a] # None => pay'[a] \in {"unslot", "done"}
             /\ answer[a] # None =>
                  answer'[a] = answer[a] /\ target'[a] = target[a]
             /\ pay[a] # "done"
             /\ \A c \in Attempts \ {a} :
                  /\ answer'[c] = answer[c] /\ pay'[c] = pay[c]
                  /\ target'[c] = target[c]
  BY <1>1 DEF PayStep, PayRead, ClaimIdempotencyKey, AcquirePaymentSlot,
     VerifySeatLocks, Charge, ConfirmBegin, ConfirmVerify, ConfirmCommit,
     ReleaseSeatLocks, ReleaseSlot, PayError, PayCrash, Return,
     ReturnHoldingSlot, Answer, TypeOK
<1>2. CASE \E a \in Attempts : PayStep(a)
  <2>1. PICK a \in Attempts : PayStep(a)
    BY <1>2
  <2>2. AnswerLast'
    BY <1>1, <2>1
  <2>3. ASSUME NEW b \in Bookings, NEW c \in Failed(b)
        PROVE  c \in Failed(b)'
    <3>1. c = a => answer[c] = "error"
      BY <1>1, <2>1, <2>3 DEF Failed
    <3>2. c = a => answer[c] # None
      BY <3>1, CheckoutAssumption DEF Answers
    <3>. QED
      BY <1>1, <2>1, <2>3, <3>1, <3>2 DEF Failed
  <2>. QED
    BY <2>2, <2>3
<1>3. CASE ~\E a \in Attempts : PayStep(a)
  <2>1. UNCHANGED <<pay, target, answer>>
    BY <1>3 DEF Next, vars, HoldStep, HoldCheck, Acquire, CreatePending,
       ReleaseQuietly, HoldError, HoldCrash, Tick, DeadlinePasses, LocksLapse,
       SlotLapses, RelStep, RelRead, RelUnlock, MarkCancelled, RelError,
       RelCrash, Sweep, ClaimExpired, payVars
  <2>. QED
    BY <2>1 DEF Failed
<1>. QED
  BY <1>2, <1>3

LEMMA FailuresCount ==
  ASSUME IsFiniteSet(Attempts), TypeOK, AnswerLast, [Next]_vars,
         NEW b \in Bookings
  PROVE  /\ Cardinality(Failed(b)) \in Nat /\ Cardinality(Failed(b))' \in Nat
         /\ Cardinality(Failed(b)) <= Cardinality(Failed(b))'
         /\ Cardinality(Failed(b)) = Cardinality(Failed(b))'
              => Failed(b) = Failed(b)'
<1>1. Failed(b) \subseteq Attempts /\ Failed(b)' \subseteq Attempts
  BY DEF Failed
<1>2. IsFiniteSet(Failed(b)) /\ IsFiniteSet(Failed(b)')
  BY <1>1, FS_Subset
<1>3. Failed(b) \subseteq Failed(b)'
  BY AnswerLastNext
<1>. QED
  BY <1>2, <1>3, FS_Subset, FS_CardinalityType

(* What an attempt that charged may do next, with every fault.             *)
LEMMA ConfirmOrFail ==
  ASSUME TypeOK, AnswerLast, NEW a \in Attempts, PayStep(a),
         pay[a] \in ConfirmSteps
  PROVE  /\ target'[a] = target[a]
         /\ a \notin Failed(target[a])
         /\ \/ pay[a] = "begin" /\ ConfirmBegin(a)
            \/ pay[a] = "inTx" /\ ConfirmVerify(a)
            \/ pay[a] = "write" /\ ConfirmCommit(a)
            \/ a \in Failed(target[a])'
<1> USE DEF ConfirmSteps, TxSteps
<1>1. answer[a] = None /\ pay[a] # "done"
  BY DEF AnswerLast
<1>2. a \notin Failed(target[a])
  BY <1>1, CheckoutAssumption DEF Failed, Answers
<1>3. target'[a] = target[a]
  BY DEF PayStep, PayRead, ClaimIdempotencyKey, AcquirePaymentSlot,
     VerifySeatLocks, Charge, ConfirmBegin, ConfirmVerify, ConfirmCommit,
     ReleaseSeatLocks, ReleaseSlot, PayError, PayCrash
<1>4. CASE PayError(a)
  <2>1. answer'[a] = "error"
    BY <1>4 DEF PayError, Return, ReturnHoldingSlot, Answer, TypeOK
  <2>. QED
    BY <1>2, <1>3, <2>1 DEF Failed
<1>5. CASE PayCrash(a)
  <2>1. pay'[a] = "done" /\ answer'[a] = None
    BY <1>1, <1>5 DEF PayCrash, TypeOK
  <2>. QED
    BY <1>2, <1>3, <2>1 DEF Failed
<1>6. CASE ~PayError(a) /\ ~PayCrash(a)
  BY <1>2, <1>3, <1>6 DEF PayStep, PayRead, ClaimIdempotencyKey,
     AcquirePaymentSlot, VerifySeatLocks, Charge, ConfirmBegin, ConfirmVerify,
     ConfirmCommit, ReleaseSeatLocks, ReleaseSlot
<1>. QED
  BY <1>4, <1>5, <1>6

LEMMA AccountedNext ==
  ASSUME IsFiniteSet(Attempts), AccountInv, SlotExclusive, SlotExclusive',
         TypeOK', [Next]_vars, NEW b \in Bookings,
         status'[b] = "pending", UniqueIndexAccepts(b)'
  PROVE  Accounted(b)'
<1> USE DEF AccountInv
<1>0. IInv /\ TypeOK /\ RowsGrow
  BY RowsStep DEF IInv
<1> DEFINE failures == Cardinality(Failed(b))
<1>f. /\ failures \in Nat /\ failures' \in Nat /\ failures <= failures'
      /\ failures = failures' => Failed(b) = Failed(b)'
  BY <1>0, FailuresCount
<1>n. charged[b] \in Nat /\ charged'[b] \in Nat
  BY <1>0 DEF TypeOK
<1>1. CASE status[b] # "pending"
  <2>1. CreatePending(b)
    BY <1>0, <1>1, WhoSetsStatus
  <2>2. status[b] = "absent" /\ charged' = charged
    BY <1>0, <2>1 DEF CreatePending, IInv, FreshUntilInserted
  <2>3. charged'[b] = 0
    BY <1>n, <2>2 DEF ChargesInserted
  <2>. QED
    BY <1>f, <2>3 DEF Accounted
<1>2. CASE status[b] = "pending"
  <2>1. Accounted(b)
    BY <1>0, <1>2, StaysRefused
  <2>2. CASE charged'[b] # charged[b]
    <3>1. PICK a \in Attempts : Charge(a)
      BY <1>0, <2>2, WhoMoves
    <3>2. /\ target[a] = b /\ target' = target
          /\ charged'[b] = charged[b] + 1
          /\ pay[a] = "charge" /\ pay'[a] = "begin"
          /\ \A c \in Attempts \ {a} : pay'[c] = pay[c]
      BY <1>0, <2>2, <3>1 DEF Charge, TypeOK, ReturnHoldingSlot
    <3>3. charged[b] <= failures
      BY <1>f, <1>n, <2>1, <3>2 DEF Accounted
    <3>4. \A c \in Attempts : target'[c] = b => pay'[c] # "charge"
      BY <3>2 DEF SlotExclusive, SlotSteps
    <3>5. pay'[a] \in ConfirmSteps
      BY <3>2 DEF ConfirmSteps
    <3>. QED
      BY <1>f, <1>n, <3>2, <3>3, <3>4, <3>5 DEF Accounted
  <2>3. CASE charged'[b] = charged[b]
    <3>. SUFFICES ASSUME charged'[b] = 1 + failures'
                  PROVE  /\ \A a \in Attempts : target'[a] = b => pay'[a] # "charge"
                         /\ \/ ~HoldsAll(b)'
                            \/ \E a \in Attempts :
                                 target'[a] = b /\ pay'[a] \in ConfirmSteps
      BY <1>f, <1>n, <2>1, <2>3 DEF Accounted
    <3>1. charged[b] = 1 + failures /\ Failed(b) = Failed(b)'
      BY <1>f, <1>n, <2>1, <2>3 DEF Accounted
    <3>2. /\ \A a \in Attempts : target[a] = b => pay[a] # "charge"
          /\ \/ ~HoldsAll(b)
             \/ \E a \in Attempts : target[a] = b /\ pay[a] \in ConfirmSteps
      BY <2>1, <3>1 DEF Accounted
    <3>3. ASSUME NEW a \in Attempts, target'[a] = b, pay'[a] = "charge"
          PROVE  FALSE
      <4>1. PayStep(a)
        BY <1>0, <3>2, <3>3, WhoMoves
      <4>2. VerifySeatLocks(a)
        BY <1>0, <3>3, <4>1 DEF PayStep, PayRead, ClaimIdempotencyKey,
           AcquirePaymentSlot, Charge, ConfirmBegin, ConfirmVerify,
           ConfirmCommit, ReleaseSeatLocks, ReleaseSlot, PayError, PayCrash,
           Return, ReturnHoldingSlot, TypeOK
      <4>3. target[a] = b /\ pay[a] = "verify" /\ HoldsAll(b)
        BY <1>0, <3>3, <4>2 DEF VerifySeatLocks, ReturnHoldingSlot, TypeOK
      <4>. QED
        BY <3>2, <4>3 DEF SlotExclusive, SlotSteps, ConfirmSteps, TxSteps
    <3>4. CASE ~HoldsAll(b)
      BY <1>0, <1>2, <3>3, <3>4, InsertedHasChecked, LostForGood
    <3>5. ASSUME NEW a \in Attempts, target[a] = b, pay[a] \in ConfirmSteps,
                 HoldsAll(b)
          PROVE  target'[a] = b /\ pay'[a] \in ConfirmSteps
      <4>1. CASE ~PayStep(a)
        BY <1>0, <3>5, <4>1, WhoMoves
      <4>2. CASE PayStep(a)
        <5>1. /\ target'[a] = b
              /\ \/ pay[a] = "begin" /\ ConfirmBegin(a)
                 \/ pay[a] = "inTx" /\ ConfirmVerify(a)
                 \/ pay[a] = "write" /\ ConfirmCommit(a)
          BY <1>0, <3>1, <3>5, <4>2, ConfirmOrFail
        <5>2. CASE ConfirmBegin(a)
          BY <1>0, <1>2, <3>5, <5>1, <5>2
             DEF ConfirmBegin, ConfirmSteps, TxSteps, TypeOK
        <5>3. CASE ConfirmVerify(a)
          BY <1>0, <3>5, <5>1, <5>3
             DEF ConfirmVerify, ConfirmSteps, TxSteps, TypeOK
        <5>4. CASE ConfirmCommit(a)
          <6>1. UniqueIndexAccepts(b)
            BY <1>0, <1>2, StaysRefused
          <6>2. status'[b] = "confirmed"
            BY <1>0, <3>5, <5>4, <6>1 DEF ConfirmCommit, TypeOK
          <6>. QED
            BY <6>2
        <5>. QED
          BY <5>1, <5>2, <5>3, <5>4
      <4>. QED
        BY <4>1, <4>2
    <3>. QED
      BY <3>2, <3>3, <3>4, <3>5
  <2>. QED
    BY <2>2, <2>3
<1>. QED
  BY <1>1, <1>2

(* With every fault but a mutex that outlives its TTL, and any number of   *)
(* attempts: while a booking is pending and no competitor has bought a     *)
(* seat of it, each charge after the first is made up for by an attempt    *)
(* that failed or died.                                                    *)
THEOREM ChargesAreAccounted ==
  ASSUME "slow" \notin Faults, IsFiniteSet(Attempts)
  PROVE  Spec => []ChargesAccounted
<1>1. Init => AccountInv
  <2>. SUFFICES ASSUME Init PROVE AccountInv
    OBVIOUS
  <2>1. IInv
    BY IInvInit
  <2>. QED
    BY <2>1 DEF Init, AccountInv, PaysInserted, ChargesInserted, AnswerLast
<1>2. /\ AccountInv /\ SlotExclusive /\ SlotExclusive' /\ IInv' /\ [Next]_vars
      => AccountInv'
  <2>. SUFFICES ASSUME AccountInv, SlotExclusive, SlotExclusive', IInv',
                       [Next]_vars
                PROVE  AccountInv'
    OBVIOUS
  <2>1. TypeOK /\ TypeOK'
    BY DEF AccountInv, IInv
  <2>2. PaysInserted' /\ ChargesInserted' /\ AnswerLast'
    BY <2>1, PaysInsertedNext, ChargesInsertedNext, AnswerLastNext DEF AccountInv
  <2>. QED
    BY <2>1, <2>2, AccountedNext DEF AccountInv
<1>3. AccountInv => ChargesAccounted
  BY DEF AccountInv, Accounted, ChargesAccounted
<1>4. Spec => []SlotExclusive
  BY MutexExcludes
<1>. QED
  BY <1>1, <1>2, <1>3, <1>4, InvariantHolds, PTL DEF Spec

-----------------------------------------------------------------------------
(* The table of holders                                                    *)

(* What HoldTable calls used and past.                                     *)
Asked == {b \in Bookings : hold[b] \notin {"idle", "checked"}}

Past == IF "skew" \in Faults THEN Bookings ELSE due

LEMMA TimeIsPass ==
  ASSUME UNCHANGED Asked, due \subseteq due', due' \subseteq Bookings,
         NEW H \in SUBSET Past',
         lock' = [s \in Seats |-> IF lock[s] \in H THEN None ELSE lock[s]]
  PROVE  Table!Next
<1>1. Table!Pass
  BY DEF Table!Pass, Table!Without, Asked, Past
<1>. QED
  BY <1>1 DEF Table!Next

(* Unlocking frees all that a booking has, and does nothing to one that    *)
(* has not asked yet.                                                      *)
LEMMA UnlockIsGive ==
  ASSUME LocksInv, NEW b \in Bookings, Unlocks(b), UNCHANGED <<Asked, due>>
  PROVE  [Table!Next]_(Table!vars)
<1>1. lock' = Table!Without({b})
  <2>1. \A s \in Seats : lock[s] = b => s \in want[b]
    BY DEF LocksInv, LocksAllOrNothing
  <2>. QED
    BY <2>1 DEF Unlocks, Unlocked, Table!Without
<1>2. CASE b \in Asked
  <2>1. Table!Give(b)
    BY <1>1, <1>2 DEF Table!Give, Asked
  <2>. QED
    BY <2>1 DEF Table!Next
<1>3. CASE b \notin Asked
  <2>1. \A s \in Seats : lock[s] # b
    BY <1>3 DEF Asked, LocksInv, NoneBeforeAcquire
  <2>2. lock' = lock
    BY <1>1, <2>1 DEF Table!Without, LocksInv, TypeOK
  <2>. QED
    BY <2>2 DEF Table!vars, Asked
<1>. QED
  BY <1>2, <1>3

LEMMA AcquireIsTake ==
  ASSUME LocksInv, NEW b \in Bookings, Acquire(b)
  PROVE  Table!Next
<1>0. TypeOK
  BY DEF LocksInv
<1>1. b \notin Asked /\ Asked' = Asked \cup {b} /\ UNCHANGED due
  BY <1>0 DEF Acquire, HoldGoes, Asked, TypeOK
<1>2. CASE \A s \in want[b] : lock[s] = None
  <2>1. Table!Take(b, want[b])
    BY <1>1, <1>2 DEF Acquire, Table!Take, Asked
  <2>2. want[b] \in SUBSET Seats
    BY <1>0 DEF TypeOK, Selections
  <2>. QED
    BY <2>1, <2>2 DEF Table!Next, Table!Take
<1>3. CASE \E s \in want[b] : lock[s] # None
  <2>1. Table!Forgo(b)
    BY <1>1, <1>3 DEF Acquire, Table!Forgo, Asked
  <2>. QED
    BY <2>1 DEF Table!Next
<1>. QED
  BY <1>2, <1>3

(* A CreateHold that leaves the locks alone goes on, or gives up.          *)
LEMMA HoldIsForgo ==
  ASSUME TypeOK, NEW b \in Bookings, HoldStep(b), UNCHANGED lock
  PROVE  [Table!Next]_(Table!vars)
<1>1. /\ \A c \in Bookings \ {b} : hold'[c] = hold[c]
      /\ b \in Asked => hold'[b] \notin {"idle", "checked"}
      /\ UNCHANGED due
  BY DEF HoldStep, HoldCheck, Acquire, CreatePending, ReleaseQuietly,
     HoldError, HoldCrash, TypeOK, Asked
<1>2. CASE Asked' = Asked
  BY <1>1, <1>2 DEF Table!vars, Asked
<1>3. CASE Asked' # Asked
  <2>1. b \notin Asked /\ Asked' = Asked \cup {b}
    BY <1>1, <1>3 DEF Asked
  <2>2. Table!Forgo(b)
    BY <1>1, <2>1 DEF Table!Forgo, Asked
  <2>. QED
    BY <2>2 DEF Table!Next
<1>. QED
  BY <1>2, <1>3

LEMMA TableNext ==
  ASSUME LocksInv, TypeOK', [Next]_vars
  PROVE  [Table!Next]_(Table!vars)
<1> USE DEF redisVars, rowVars, holdVars, payVars, relVars
<1>0. TypeOK /\ due \subseteq due' /\ due' \subseteq Bookings
  BY WhoMoves DEF LocksInv, TypeOK
<1>1. CASE LeavesLocks
  <2>1. CASE \E b \in Bookings : HoldStep(b)
    BY <1>0, <1>1, <2>1, HoldIsForgo DEF LeavesLocks
  <2>2. CASE ~\E b \in Bookings : HoldStep(b)
    <3>1. UNCHANGED Asked
      BY <1>0, <2>2, WhoMoves DEF Asked
    <3>2. lock' = [s \in Seats |-> IF lock[s] \in {} THEN None ELSE lock[s]]
      BY <1>0, <1>1 DEF LeavesLocks, TypeOK
    <3>3. {} \in SUBSET Past'
      OBVIOUS
    <3>. QED
      BY <1>0, <3>1, <3>2, <3>3, TimeIsPass
  <2>. QED
    BY <2>1, <2>2
<1>2. ASSUME NEW b \in Bookings, HoldCheck(b)
      PROVE  [Table!Next]_(Table!vars)
  BY <1>0, <1>2, HoldIsForgo DEF HoldStep, HoldCheck
<1>3. ASSUME NEW b \in Bookings, Acquire(b)
      PROVE  [Table!Next]_(Table!vars)
  BY <1>3, AcquireIsTake
<1>4. ASSUME NEW b \in Bookings, LocksLapse(b)
      PROVE  [Table!Next]_(Table!vars)
  <2>1. /\ UNCHANGED <<Asked, due>>
        /\ lock' = [s \in Seats |-> IF lock[s] \in {b} THEN None ELSE lock[s]]
    BY <1>4 DEF LocksLapse, Asked
  <2>2. {b} \in SUBSET Past'
    BY <1>4, <2>1 DEF LocksLapse, Past
  <2>. QED
    BY <1>0, <2>1, <2>2, TimeIsPass
<1>5. ASSUME NEW b \in Bookings, Unlocks(b), ReleaseQuietly(b)
      PROVE  [Table!Next]_(Table!vars)
  <2>1. UNCHANGED <<Asked, due>>
    BY <1>0, <1>5 DEF ReleaseQuietly, HoldGoes, Asked, TypeOK
  <2>. QED
    BY <1>5, <2>1, UnlockIsGive
<1>6. ASSUME NEW a \in Attempts, Unlocks(target[a]), ReleaseSeatLocks(a)
      PROVE  [Table!Next]_(Table!vars)
  <2>1. target[a] \in Bookings /\ UNCHANGED <<Asked, due>>
    BY <1>0, <1>6 DEF ReleaseSeatLocks, Asked, TypeOK
  <2>. QED
    BY <1>6, <2>1, UnlockIsGive
<1>7. ASSUME NEW r \in Releases, Unlocks(relOf[r]), RelUnlock(r)
      PROVE  [Table!Next]_(Table!vars)
  <2>1. relOf[r] \in Bookings /\ UNCHANGED <<Asked, due>>
    BY <1>0, <1>7 DEF RelUnlock, Asked, TypeOK
  <2>. QED
    BY <1>7, <2>1, UnlockIsGive
<1>. QED
  BY <1>0, <1>1, <1>2, <1>3, <1>4, <1>5, <1>6, <1>7, LockSteps

(* Holds, payments, releases, sweeps and faults use the locks as HoldTable *)
(* has them: whole selections, once each, in nobody else's hands, and      *)
(* until the deadline unless they are given back.                          *)
THEOREM ImplementsHoldTable == Spec => LocksAtomically
<1>1. Init => Table!Init /\ LocksInv
  BY CheckoutAssumption DEF Init, LocksInv, LocksAllOrNothing,
     NoneBeforeAcquire, TypeOK, Statuses, HoldSteps, PaySteps, RelSteps,
     Table!Init
<1>2. LocksInv /\ TypeOK' /\ [Next]_vars => LocksInv' /\ [Table!Next]_(Table!vars)
  BY LocksInvNext, TableNext
<1>. QED
  BY <1>1, <1>2, TypeCorrect, PTL DEF Spec, LocksAtomically, Table!Spec
=============================================================================
