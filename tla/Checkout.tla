------------------------------ MODULE Checkout ------------------------------
(***************************************************************************)
(* Holding seats, paying for them, giving them back and expiring them, for *)
(* one event: HoldService, PaymentService and ExpiryWorker over the Redis  *)
(* seat locks, the payment mutex and the Postgres tables.                  *)
(*                                                                         *)
(* A booking id stands for one CreateHold request as well: its lock token, *)
(* its row and its locks are named by the same id.  Each statement,        *)
(* transaction or script a request runs is one step, since Postgres and    *)
(* Redis run it atomically, and the steps of all requests interleave.      *)
(* Confirm is the exception: it keeps its row lock over a call to Redis,   *)
(* so it is three steps, and the writes appear when it commits.            *)
(*                                                                         *)
(* Broadcasts, prices and the text of errors are left out.                 *)
(***************************************************************************)
EXTENDS FiniteSets, Naturals

CONSTANTS
  Seats,      \* seats of the event
  Bookings,   \* bookings, and so CreateHold requests
  Attempts,   \* pay requests; each runs once, a retry is another attempt
  Releases,   \* ReleaseHold requests in flight at a time
  Keys,       \* Idempotency-Key values
  None,       \* no booking, no key, no answer
  MaxSeats,   \* MAX_SEATS_PER_HOLD
  BatchSize,  \* expiryBatchSize
  Faults      \* what may go wrong in this instance, a subset of FaultKinds

(* "crash" a request's process dies between two steps; "error" a call has  *)
(* no effect and reports an error (a timeout, a cancelled context); "lost" *)
(* a call takes effect and reports an error; "skew" a seat lock vanishes   *)
(* before hold_expires_at (clocks apart, a truncated TTL, Redis losing     *)
(* keys); "slow" a payment mutex outlives its 30 seconds in the hands of   *)
(* an attempt that is still running.                                       *)
FaultKinds == {"crash", "error", "lost", "skew", "slow"}

Answers == {"ok", "replayed", "mismatch", "busy", "lapsed", "taken",
            "declined", "error"}

ASSUME CheckoutAssumption ==
  /\ None \notin Bookings
  /\ None \notin Keys
  /\ None \notin Answers
  /\ Faults \subseteq FaultKinds

VARIABLES
  \* Redis
  lock,       \* lock[s]    : booking whose token is stored under seat s
  slot,       \* slot[b]    : the key pay:<b> exists
  \* Postgres
  status,     \* status[b]  : bookings.status, "absent" before the insert
  want,       \* want[b]    : seats asked for; booking_seats once inserted
  sold,       \* sold[b]    : seats of b's rows with confirmed = true
  key,        \* key[b]     : bookings.idempotency_key
  paid,       \* paid[b]    : number of b's payments with status succeeded
  due,        \* bookings with hold_expires_at <= now()
  \* the payment provider
  charged,    \* charged[b] : times the provider took money for b
  \* requests
  hold,       \* hold[b]    : next step of b's CreateHold
  pay,        \* pay[a]     : next step of Pay attempt a
  target,     \* target[a]  : the booking a pays for
  usedKey,    \* usedKey[a] : the Idempotency-Key a presents
  answer,     \* answer[a]  : what a has decided to answer
  rel,        \* rel[r]     : next step of ReleaseHold r
  relOf       \* relOf[r]   : the booking r releases

redisVars == <<lock, slot>>
rowVars   == <<status, want, sold, key, paid>>
holdVars  == <<hold>>
payVars   == <<pay, target, usedKey, answer>>
relVars   == <<rel, relOf>>
vars == <<lock, slot, status, want, sold, key, paid, due, charged,
          hold, pay, target, usedKey, answer, rel, relOf>>

Statuses == {"absent", "pending", "confirmed", "cancelled", "expired"}

HoldSteps == {"idle", "checked", "locked", "undo", "booked", "failed"}

PaySteps == {"idle", "claim", "slot", "verify", "charge", "begin", "inTx",
             "write", "unlock", "unslot", "done"}

(* Steps at which an attempt owns the payment mutex: its deferred          *)
(* releaseSlot has been registered and has not run.                        *)
SlotSteps == {"verify", "charge", "begin", "inTx", "write", "unlock",
              "unslot"}

(* Steps at which an attempt is inside Confirm's transaction.              *)
TxSteps == {"inTx", "write"}

RelSteps == {"idle", "unlock", "cancel"}

Selections == {S \in SUBSET Seats : S # {} /\ Cardinality(S) <= MaxSeats}

TypeOK ==
  /\ lock \in [Seats -> Bookings \cup {None}]
  /\ slot \in [Bookings -> BOOLEAN]
  /\ status \in [Bookings -> Statuses]
  /\ want \in [Bookings -> Selections \cup {{}}]
  /\ sold \in [Bookings -> SUBSET Seats]
  /\ key \in [Bookings -> Keys \cup {None}]
  /\ paid \in [Bookings -> Nat]
  /\ due \in SUBSET Bookings
  /\ charged \in [Bookings -> Nat]
  /\ hold \in [Bookings -> HoldSteps]
  /\ pay \in [Attempts -> PaySteps]
  /\ target \in [Attempts -> Bookings \cup {None}]
  /\ usedKey \in [Attempts -> Keys \cup {None}]
  /\ answer \in [Attempts -> Answers \cup {None}]
  /\ rel \in [Releases -> RelSteps]
  /\ relOf \in [Releases -> Bookings \cup {None}]
  /\ \A a \in Attempts : pay[a] # "idle" => target[a] # None
  /\ \A r \in Releases : rel[r] # "idle" => relOf[r] # None

Init ==
  /\ lock = [s \in Seats |-> None]
  /\ slot = [b \in Bookings |-> FALSE]
  /\ status = [b \in Bookings |-> "absent"]
  /\ want = [b \in Bookings |-> {}]
  /\ sold = [b \in Bookings |-> {}]
  /\ key = [b \in Bookings |-> None]
  /\ paid = [b \in Bookings |-> 0]
  /\ due = {}
  /\ charged = [b \in Bookings |-> 0]
  /\ hold = [b \in Bookings |-> "idle"]
  /\ pay = [a \in Attempts |-> "idle"]
  /\ target = [a \in Attempts |-> None]
  /\ usedKey = [a \in Attempts |-> None]
  /\ answer = [a \in Attempts |-> None]
  /\ rel = [r \in Releases |-> "idle"]
  /\ relOf = [r \in Releases |-> None]

-----------------------------------------------------------------------------
(* Redis scripts and reads, and the state of rows.                         *)

(* ConfirmedSeatIDs: every seat already sold.                              *)
ConfirmedSeatIDs == UNION {sold[b] : b \in Bookings}

(* HoldsFor found nothing missing: b's token is under each of its seats.   *)
HoldsAll(b) == \A s \in want[b] : lock[s] = b

(* Mutant of Unlocked: deletes the seats' locks whoever holds them.        *)
UnlockedUnowned(b) == [s \in Seats |-> IF s \in want[b] THEN None ELSE lock[s]]

(* Mutant of Unlocked: stops after the first lock it deletes.              *)
UnlockedFirstOnly(b) ==
  [s \in Seats |-> IF lock[s] = b /\ s = CHOOSE t \in Seats : lock[t] = b
                   THEN None ELSE lock[s]]

(* release.lua: delete b's own locks, whoever holds the other seats.       *)
Unlocked(b) == [s \in Seats |-> IF lock[s] = b /\ s \in want[b]
                                THEN None ELSE lock[s]]

(* Mutant of RowLocked: Confirm reads its row without FOR UPDATE.          *)
RowNotLocked(b) == FALSE

(* The row of b is locked FOR UPDATE by a Confirm that has not ended.      *)
RowLocked(b) == \E a \in Attempts : target[a] = b /\ pay[a] \in TxSteps

-----------------------------------------------------------------------------
(* HoldService.CreateHold                                                  *)

HoldGoes(b, step) == hold' = [hold EXCEPT ![b] = step]

(* Everything up to Acquire: validation, the event's start, the seats of   *)
(* the venue, and the seats already sold.  Any of them may refuse.         *)
HoldCheck(b) ==
  /\ hold[b] = "idle"
  /\ \/ \E S \in Selections :
          /\ S \cap ConfirmedSeatIDs = {}
          /\ want' = [want EXCEPT ![b] = S]
          /\ HoldGoes(b, "checked")
     \/ /\ HoldGoes(b, "failed")
        /\ UNCHANGED want
  /\ UNCHANGED <<redisVars, status, sold, key, paid, due, charged, payVars,
                 relVars>>

(* acquire.lua: every seat asked for, or none when one is held.  A reply   *)
(* that is lost leaves the locks behind: an error is not compensated.      *)
Acquire(b) ==
  /\ hold[b] = "checked"
  /\ \/ /\ \A s \in want[b] : lock[s] = None
        /\ lock' = [s \in Seats |-> IF s \in want[b] THEN b ELSE lock[s]]
        /\ \/ HoldGoes(b, "locked")
           \/ "lost" \in Faults /\ HoldGoes(b, "failed")
     \/ /\ \E s \in want[b] : lock[s] # None
        /\ HoldGoes(b, "failed")
        /\ UNCHANGED lock
  /\ UNCHANGED <<slot, rowVars, due, charged, payVars, relVars>>

(* The booking and its seats in one transaction.  A commit whose outcome   *)
(* is unknown is reported as an error, and compensated like one.           *)
CreatePending(b) ==
  /\ hold[b] = "locked"
  /\ status' = [status EXCEPT ![b] = "pending"]
  /\ \/ HoldGoes(b, "booked")
     \/ "lost" \in Faults /\ HoldGoes(b, "undo")
  /\ UNCHANGED <<redisVars, want, sold, key, paid, due, charged, payVars,
                 relVars>>

(* releaseQuietly: hand the seats back when the insert failed.             *)
ReleaseQuietly(b) ==
  /\ hold[b] = "undo"
  /\ lock' = Unlocked(b)
  /\ HoldGoes(b, "failed")
  /\ UNCHANGED <<slot, rowVars, due, charged, payVars, relVars>>

(* A call of CreateHold fails without effect.  Only a failed insert is     *)
(* compensated.                                                            *)
HoldError(b) ==
  /\ "error" \in Faults
  /\ \/ hold[b] \in {"checked", "undo"} /\ HoldGoes(b, "failed")
     \/ hold[b] = "locked" /\ HoldGoes(b, "undo")
  /\ UNCHANGED <<redisVars, rowVars, due, charged, payVars, relVars>>

HoldCrash(b) ==
  /\ "crash" \in Faults
  /\ hold[b] \in {"checked", "locked", "undo"}
  /\ HoldGoes(b, "failed")
  /\ UNCHANGED <<redisVars, rowVars, due, charged, payVars, relVars>>

-----------------------------------------------------------------------------
(* PaymentService.Pay                                                      *)

PayGoes(a, step) == pay' = [pay EXCEPT ![a] = step]

Answer(a, what) == answer' = [answer EXCEPT ![a] = what]

(* The attempt returns before it took the mutex.                           *)
Return(a, what) == PayGoes(a, "done") /\ Answer(a, what)

(* The attempt returns after it took the mutex: releaseSlot is deferred.   *)
ReturnHoldingSlot(a, what) == PayGoes(a, "unslot") /\ Answer(a, what)

(* Mutant of Replay: any key is taken for the original one.                *)
ReplayAnyKey(b, k) == "replayed"

(* replay: what a confirmed booking answers to a key.                      *)
Replay(b, k) == IF key[b] # None /\ key[b] # k THEN "mismatch" ELSE "replayed"

(* GetByID.  The row is read without a lock and used in later steps.       *)
PayRead(a, b, k) ==
  /\ pay[a] = "idle"
  /\ status[b] # "absent"
  /\ target' = [target EXCEPT ![a] = b]
  /\ usedKey' = [usedKey EXCEPT ![a] = k]
  /\ IF status[b] = "confirmed"
     THEN Return(a, Replay(b, k))
     ELSE PayGoes(a, "claim") /\ UNCHANGED answer
  /\ UNCHANGED <<redisVars, rowVars, due, charged, holdVars, relVars>>

(* Mutant of KeyUsedElsewhere: no unique index over idempotency_key.       *)
KeyNeverElsewhere(b, k) == FALSE

(* uq_bookings_idempotency_key refuses k for b.                            *)
KeyUsedElsewhere(b, k) == \E c \in Bookings \ {b} : key[c] = k

(* The transaction of ClaimIdempotencyKey.  The key is compared before the *)
(* status, and is unique over all bookings.                                *)
ClaimIdempotencyKey(a) ==
  LET b == target[a]
      k == usedKey[a]
      otherKey == key[b] # None /\ key[b] # k
  IN
  /\ pay[a] = "claim"
  /\ ~RowLocked(b)
  /\ \/ /\ otherKey
        /\ Return(a, "mismatch")
        /\ UNCHANGED key
     \/ /\ ~otherKey /\ status[b] # "pending"
        /\ Return(a, IF status[b] = "confirmed" THEN Replay(b, k) ELSE "lapsed")
        /\ UNCHANGED key
     \/ /\ key[b] = None /\ status[b] = "pending" /\ KeyUsedElsewhere(b, k)
        /\ Return(a, "mismatch")
        /\ UNCHANGED key
     \/ /\ ~otherKey /\ status[b] = "pending"
        /\ key[b] = None => ~KeyUsedElsewhere(b, k)
        /\ key' = [key EXCEPT ![b] = k]
        /\ \/ PayGoes(a, "slot") /\ UNCHANGED answer
           \/ "lost" \in Faults /\ Return(a, "error")
  /\ UNCHANGED <<redisVars, status, want, sold, paid, due, charged, holdVars,
                 target, usedKey, relVars>>

(* Mutant of AcquirePaymentSlot: releaseSlot is deferred before the mutex  *)
(* is known to be taken, so an attempt answered "busy" deletes it too.     *)
AcquirePaymentSlotDeferFirst(a) ==
  LET b == target[a] IN
  /\ pay[a] = "slot"
  /\ IF slot[b]
     THEN ReturnHoldingSlot(a, "busy") /\ UNCHANGED slot
     ELSE /\ slot' = [slot EXCEPT ![b] = TRUE]
          /\ PayGoes(a, "verify") /\ UNCHANGED answer
  /\ UNCHANGED <<lock, rowVars, due, charged, holdVars, target, usedKey,
                 relVars>>

(* SET NX on pay:<b>.  Nothing is read again once the mutex is taken.      *)
AcquirePaymentSlot(a) ==
  LET b == target[a] IN
  /\ pay[a] = "slot"
  /\ \/ /\ ~slot[b]
        /\ slot' = [slot EXCEPT ![b] = TRUE]
        /\ \/ PayGoes(a, "verify") /\ UNCHANGED answer
           \/ "lost" \in Faults /\ Return(a, "error")
     \/ /\ slot[b]
        /\ Return(a, "busy")
        /\ UNCHANGED slot
  /\ UNCHANGED <<lock, rowVars, due, charged, holdVars, target, usedKey,
                 relVars>>

(* Mutant of VerifySeatLocks: the locks are checked only in Confirm.       *)
VerifySeatLocksSkipped(a) ==
  /\ pay[a] = "verify"
  /\ PayGoes(a, "charge")
  /\ UNCHANGED <<redisVars, rowVars, due, charged, holdVars, target, usedKey,
                 answer, relVars>>

(* verifySeatLocks before any money moves.                                 *)
VerifySeatLocks(a) ==
  /\ pay[a] = "verify"
  /\ IF HoldsAll(target[a])
     THEN PayGoes(a, "charge") /\ UNCHANGED answer
     ELSE ReturnHoldingSlot(a, "lapsed")
  /\ UNCHANGED <<redisVars, rowVars, due, charged, holdVars, target, usedKey,
                 relVars>>

(* The provider takes the money, or declines and recordDecline stores a    *)
(* failed payment, which nothing here reads.                               *)
Charge(a) ==
  /\ pay[a] = "charge"
  /\ \/ /\ charged' = [charged EXCEPT ![target[a]] = @ + 1]
        /\ PayGoes(a, "begin")
        /\ UNCHANGED answer
     \/ /\ ReturnHoldingSlot(a, "declined")
        /\ UNCHANGED charged
  /\ UNCHANGED <<redisVars, rowVars, due, holdVars, target, usedKey, relVars>>

(* Confirm opens its transaction: the row is locked and its status read.   *)
ConfirmBegin(a) ==
  LET b == target[a] IN
  /\ pay[a] = "begin"
  /\ ~RowLocked(b)
  /\ IF status[b] = "pending"
     THEN PayGoes(a, "inTx") /\ UNCHANGED answer
     ELSE ReturnHoldingSlot(a, IF status[b] = "confirmed"
                               THEN "replayed" ELSE "lapsed")
  /\ UNCHANGED <<redisVars, rowVars, due, charged, holdVars, target, usedKey,
                 relVars>>

(* verifyLocks inside the transaction; a missing lock rolls it back.       *)
ConfirmVerify(a) ==
  /\ pay[a] = "inTx"
  /\ IF HoldsAll(target[a])
     THEN PayGoes(a, "write") /\ UNCHANGED answer
     ELSE ReturnHoldingSlot(a, "lapsed")
  /\ UNCHANGED <<redisVars, rowVars, due, charged, holdVars, target, usedKey,
                 relVars>>

(* Mutant of UniqueIndexAccepts: the index is missing.                     *)
NoUniqueIndex(b) == TRUE

(* The partial unique index over (event_id, seat_id) WHERE confirmed       *)
(* accepts b's rows.                                                       *)
UniqueIndexAccepts(b) ==
  \A c \in Bookings \ {b} : want[b] \cap sold[c] = {}

(* The three writes and the commit, or the rollback the index forces.      *)
ConfirmCommit(a) ==
  LET b == target[a] IN
  /\ pay[a] = "write"
  /\ \/ /\ UniqueIndexAccepts(b)
        /\ sold' = [sold EXCEPT ![b] = want[b]]
        /\ status' = [status EXCEPT ![b] = "confirmed"]
        /\ paid' = [paid EXCEPT ![b] = @ + 1]
        /\ \/ PayGoes(a, "unlock") /\ UNCHANGED answer
           \/ "lost" \in Faults /\ ReturnHoldingSlot(a, "error")
     \/ /\ ~UniqueIndexAccepts(b)
        /\ ReturnHoldingSlot(a, "taken")
        /\ UNCHANGED <<sold, status, paid>>
  /\ UNCHANGED <<redisVars, want, key, due, charged, holdVars, target, usedKey,
                 relVars>>

(* releaseSeatLocks, after the commit.                                     *)
ReleaseSeatLocks(a) ==
  /\ pay[a] = "unlock"
  /\ lock' = Unlocked(target[a])
  /\ ReturnHoldingSlot(a, "ok")
  /\ UNCHANGED <<slot, rowVars, due, charged, holdVars, target, usedKey,
                 relVars>>

(* The deferred releaseSlot deletes pay:<b>, whoever set it.               *)
ReleaseSlot(a) ==
  /\ pay[a] = "unslot"
  /\ slot' = [slot EXCEPT ![target[a]] = FALSE]
  /\ PayGoes(a, "done")
  /\ UNCHANGED <<lock, rowVars, due, charged, holdVars, target, usedKey,
                 answer, relVars>>

(* A call of Pay fails without effect.  Failing to drop the seat locks or  *)
(* the mutex is only logged.                                               *)
PayError(a) ==
  /\ "error" \in Faults
  /\ \/ pay[a] \in {"claim", "slot"} /\ Return(a, "error")
     \/ /\ pay[a] \in {"verify", "charge", "begin", "inTx", "write"}
        /\ ReturnHoldingSlot(a, "error")
     \/ pay[a] = "unlock" /\ ReturnHoldingSlot(a, "ok")
     \/ pay[a] = "unslot" /\ PayGoes(a, "done") /\ UNCHANGED answer
  /\ UNCHANGED <<redisVars, rowVars, due, charged, holdVars, target, usedKey,
                 relVars>>

(* The process dies; Postgres rolls back an open transaction.              *)
PayCrash(a) ==
  /\ "crash" \in Faults
  /\ pay[a] \notin {"idle", "done"}
  /\ PayGoes(a, "done")
  /\ UNCHANGED <<redisVars, rowVars, due, charged, holdVars, target, usedKey,
                 answer, relVars>>

-----------------------------------------------------------------------------
(* HoldService.ReleaseHold                                                 *)

RelGoes(r, step) == rel' = [rel EXCEPT ![r] = step]

(* Mutant of RelEnds: the booking is forgotten but the request goes on.    *)
RelForgets(r) == RelGoes(r, "cancel") /\ relOf' = [relOf EXCEPT ![r] = None]

RelEnds(r) == RelGoes(r, "idle") /\ relOf' = [relOf EXCEPT ![r] = None]

(* GetByID; any status but pending returns without a change.               *)
RelRead(r, b) ==
  /\ rel[r] = "idle"
  /\ status[b] = "pending"
  /\ RelGoes(r, "unlock")
  /\ relOf' = [relOf EXCEPT ![r] = b]
  /\ UNCHANGED <<redisVars, rowVars, due, charged, holdVars, payVars>>

(* The locks go first, on the strength of the status read before.          *)
RelUnlock(r) ==
  /\ rel[r] = "unlock"
  /\ lock' = Unlocked(relOf[r])
  /\ RelGoes(r, "cancel")
  /\ UNCHANGED <<slot, rowVars, due, charged, holdVars, payVars, relOf>>

(* Mutant of MarkCancelled: the UPDATE has no status guard.                *)
MarkCancelledUnguarded(r) ==
  LET b == relOf[r] IN
  /\ rel[r] = "cancel"
  /\ ~RowLocked(b)
  /\ status' = [status EXCEPT ![b] = "cancelled"]
  /\ RelEnds(r)
  /\ UNCHANGED <<redisVars, want, sold, key, paid, due, charged, holdVars,
                 payVars>>

(* The guarded UPDATE; whether it changed a row is ignored.                *)
MarkCancelled(r) ==
  LET b == relOf[r] IN
  /\ rel[r] = "cancel"
  /\ ~RowLocked(b)
  /\ status' = IF status[b] = "pending"
               THEN [status EXCEPT ![b] = "cancelled"] ELSE status
  /\ RelEnds(r)
  /\ UNCHANGED <<redisVars, want, sold, key, paid, due, charged, holdVars,
                 payVars>>

(* A failed unlock is logged and the cancel still runs.                    *)
RelError(r) ==
  /\ "error" \in Faults
  /\ \/ rel[r] = "unlock" /\ RelGoes(r, "cancel") /\ UNCHANGED relOf
     \/ rel[r] = "cancel" /\ RelEnds(r)
  /\ UNCHANGED <<redisVars, rowVars, due, charged, holdVars, payVars>>

RelCrash(r) ==
  /\ "crash" \in Faults
  /\ rel[r] # "idle"
  /\ RelEnds(r)
  /\ UNCHANGED <<redisVars, rowVars, due, charged, holdVars, payVars>>

-----------------------------------------------------------------------------
(* ExpiryWorker, and time                                                  *)

(* Mutant of Lapsed: a booking somebody tried to pay for is spared.        *)
LapsedUnclaimed ==
  {b \in Bookings : status[b] = "pending" /\ b \in due /\ key[b] = None}

(* Rows the sweep may claim: FOR UPDATE SKIP LOCKED passes over a row that *)
(* a transaction holds.                                                    *)
Lapsed == {b \in Bookings : status[b] = "pending" /\ b \in due /\ ~RowLocked(b)}

(* One ClaimExpired statement.  It may pass over any row: another sweep or *)
(* a transaction no longer than a step may hold it.                        *)
ClaimExpired(B) ==
  /\ B # {} /\ B \subseteq Lapsed
  /\ Cardinality(B) <= BatchSize
  /\ status' = [b \in Bookings |-> IF b \in B THEN "expired" ELSE status[b]]
  /\ UNCHANGED <<redisVars, want, sold, key, paid, due, charged, holdVars,
                 payVars, relVars>>

(* now() reaches the hold_expires_at that Acquire computed for b.          *)
DeadlinePasses(b) ==
  /\ b \notin due
  /\ status[b] = "pending" \/ \E s \in Seats : lock[s] = b
  /\ due' = due \cup {b}
  /\ UNCHANGED <<redisVars, rowVars, charged, holdVars, payVars, relVars>>

(* Mutants of LocksLapse: a TTL shorter than the hold, and none at all.    *)
LocksLapseEarly(b) ==
  /\ \E s \in Seats : lock[s] = b
  /\ lock' = [s \in Seats |-> IF lock[s] = b THEN None ELSE lock[s]]
  /\ UNCHANGED <<slot, rowVars, due, charged, holdVars, payVars, relVars>>

LocksNeverLapse(b) == b \notin Bookings /\ UNCHANGED vars

(* The TTL of b's locks runs out.  One script set them, so they go         *)
(* together; hold_expires_at was computed before that script ran.          *)
LocksLapse(b) ==
  /\ \E s \in Seats : lock[s] = b
  /\ b \in due \/ "skew" \in Faults
  /\ lock' = [s \in Seats |-> IF lock[s] = b THEN None ELSE lock[s]]
  /\ UNCHANGED <<slot, rowVars, due, charged, holdVars, payVars, relVars>>

(* Mutant of SlotLapses: pay:<b> is set without a TTL.                     *)
SlotNeverLapses(b) == b \notin Bookings /\ UNCHANGED vars

(* The payment mutex of b runs out, normally left behind by an attempt     *)
(* that no longer runs.                                                    *)
SlotLapses(b) ==
  /\ slot[b]
  /\ "slow" \in Faults \/ \A a \in Attempts : ~(target[a] = b /\ pay[a] \in SlotSteps)
  /\ slot' = [slot EXCEPT ![b] = FALSE]
  /\ UNCHANGED <<lock, rowVars, due, charged, holdVars, payVars, relVars>>

-----------------------------------------------------------------------------
HoldStep(b) ==
  HoldCheck(b) \/ Acquire(b) \/ CreatePending(b) \/ ReleaseQuietly(b)
  \/ HoldError(b) \/ HoldCrash(b)

PayStep(a) ==
  \/ \E b \in Bookings, k \in Keys : PayRead(a, b, k)
  \/ ClaimIdempotencyKey(a) \/ AcquirePaymentSlot(a) \/ VerifySeatLocks(a)
  \/ Charge(a) \/ ConfirmBegin(a) \/ ConfirmVerify(a) \/ ConfirmCommit(a)
  \/ ReleaseSeatLocks(a) \/ ReleaseSlot(a) \/ PayError(a) \/ PayCrash(a)

RelStep(r) ==
  \/ \E b \in Bookings : RelRead(r, b)
  \/ RelUnlock(r) \/ MarkCancelled(r) \/ RelError(r) \/ RelCrash(r)

Sweep == \E B \in SUBSET Bookings : ClaimExpired(B)

Tick(b) == DeadlinePasses(b) \/ LocksLapse(b) \/ SlotLapses(b)

Next ==
  \/ \E b \in Bookings : HoldStep(b) \/ Tick(b)
  \/ \E a \in Attempts : PayStep(a)
  \/ \E r \in Releases : RelStep(r)
  \/ Sweep

Spec == Init /\ [][Next]_vars

(* Time passes, the ticker fires, and a request that runs takes its next   *)
(* step or dies.  No client is obliged to start anything.                  *)
Fairness ==
  /\ \A b \in Bookings : /\ WF_vars(DeadlinePasses(b))
                         /\ WF_vars(LocksLapse(b))
                         /\ WF_vars(SlotLapses(b))
                         /\ WF_vars(\E B \in SUBSET Bookings :
                                      b \in B /\ ClaimExpired(B))
  /\ \A a \in Attempts : WF_vars(pay[a] # "idle" /\ PayStep(a))

FairSpec == Spec /\ Fairness

-----------------------------------------------------------------------------
(* Safety                                                                  *)

(* No seat is sold to two bookings: what the partial unique index of       *)
(* booking_seats has to guarantee when the locks failed to.                *)
NoDoubleSale ==
  \A b, c \in Bookings : b # c => sold[b] \cap sold[c] = {}

(* The books agree, as verify.sh demands of the tables after a load test:  *)
(* a confirmed booking has every seat it named flagged and exactly one     *)
(* successful payment, for which money was taken; any other booking has    *)
(* neither a flagged seat nor a successful payment.                        *)
LedgerConsistent ==
  \A b \in Bookings :
    IF status[b] = "confirmed"
    THEN sold[b] = want[b] /\ want[b] # {} /\ paid[b] = 1 /\ charged[b] >= 1
    ELSE sold[b] = {} /\ paid[b] = 0

(* Once confirmed, always confirmed, with the same seats and key; and no   *)
(* way leads out of cancelled or expired.  Late releases, sweeps and       *)
(* retries all meet such rows.                                             *)
TerminalIsFinal ==
  [][\A b \in Bookings :
       status[b] \in {"confirmed", "cancelled", "expired"} =>
         /\ status'[b] = status[b]
         /\ sold'[b] = sold[b]
         /\ key'[b] = key[b]]_vars

(* Locks are all or nothing: whatever is left of b's locks covers all its  *)
(* seats (Acquire takes none when one is held, and no release or lapse     *)
(* leaves a part behind).                                                  *)
LocksAllOrNothing ==
  \A b \in Bookings : {s \in Seats : lock[s] = b} \in {{}, want[b]}

(* A lock is never taken over while it lives: it goes when its TTL runs    *)
(* out, while no request takes a step, or by a step of its own booking's   *)
(* requests.  A slow release must not free a seat that somebody else has   *)
(* taken since.                                                            *)
OnlyOwnerUnlocks ==
  [][\A s \in Seats : LET b == lock[s] IN
       b # None /\ lock'[s] # b =>
         /\ lock'[s] = None
         /\ \/ /\ b \in due \/ "skew" \in Faults
               /\ UNCHANGED <<hold, pay, rel>>
            \/ hold'[b] # hold[b]
            \/ \E a \in Attempts : target[a] = b /\ pay'[a] # pay[a]
            \/ \E r \in Releases : relOf[r] = b /\ rel'[r] # rel[r]]_vars

(* A key binds one booking, and an attempt past the claim pays under the   *)
(* key its booking is bound to.                                            *)
KeyBindsBooking ==
  /\ \A b, c \in Bookings : b # c /\ key[b] = key[c] => key[b] = None
  /\ \A a \in Attempts :
       pay[a] \in {"slot"} \cup SlotSteps => key[target[a]] = usedKey[a]

(* What Pay decides to answer stays true: 200 only for a booking confirmed *)
(* under that key, and only one attempt of a booking is the original one;  *)
(* "someone else completed payment" only if someone did; a key mismatch    *)
(* only for a key that is not the booking's.                               *)
AnswersTruthful ==
  \A a \in Attempts :
    /\ answer[a] \in {"ok", "replayed"} =>
         status[target[a]] = "confirmed" /\ key[target[a]] = usedKey[a]
    /\ answer[a] = "ok" =>
         \A c \in Attempts \ {a} :
           ~(answer[c] = "ok" /\ target[c] = target[a])
    /\ answer[a] = "taken" => ~UniqueIndexAccepts(target[a])
    /\ answer[a] = "mismatch" => key[target[a]] # usedKey[a]

(* The payment mutex excludes: of one booking's attempts, one at a time is *)
(* between taking it and its deferred release, so the provider is never    *)
(* called twice at once.  It rests on no mutex outliving its TTL.          *)
SlotExclusive ==
  \A a, c \in Attempts :
    /\ pay[a] \in SlotSteps /\ pay[c] \in SlotSteps
    /\ target[a] = target[c]
    => a = c

(* A pending booking whose CreateHold succeeded holds the lock of every    *)
(* seat it named until its deadline, except between the two writes of a    *)
(* ReleaseHold: the seats a user is looking at in checkout are nobody      *)
(* else's.  A release that fails between its writes breaks this.           *)
PendingHoldsSeats ==
  \A b \in Bookings :
    /\ hold[b] = "booked" /\ status[b] = "pending" /\ b \notin due
    /\ \A r \in Releases : ~(relOf[r] = b /\ rel[r] = "cancel")
    => HoldsAll(b)

(* Whatever fails, as long as locks keep their TTL: a CreateHold that      *)
(* succeeds has all its seats, and until the deadline nothing takes them   *)
(* from a pending booking but its user's own ReleaseHold.  Declines,       *)
(* failed payments and dead processes leave the user able to try again.    *)
HoldsLast ==
  [][\A b \in Bookings :
       /\ hold'[b] = "booked" /\ status'[b] = "pending" /\ b \notin due'
       /\ hold[b] = "booked" => HoldsAll(b)
       => \/ HoldsAll(b)'
          \/ \E r \in Releases :
               relOf[r] = b /\ rel[r] = "unlock" /\ rel'[r] = "cancel"]_vars

(* Attempts of b that ended without learning their outcome: the answer was *)
(* an error, or there was none.                                            *)
Failed(b) ==
  {a \in Attempts :
     target[a] = b /\ (answer[a] = "error" \/ (pay[a] = "done" /\ answer[a] = None))}

(* As long as no mutex outlives its TTL, whatever else fails: while a      *)
(* booking is still to be paid for, each charge after the first makes up   *)
(* for an attempt that failed, unless a seat of it was sold to a           *)
(* competitor.  Retries, double clicks, declines and refusals alone cannot *)
(* have money taken twice.                                                 *)
ChargesAccounted ==
  \A b \in Bookings :
    status[b] = "pending" /\ UniqueIndexAccepts(b)
    => charged[b] <= 1 + Cardinality(Failed(b))

(* If no call fails, money is taken twice for a booking only past its      *)
(* deadline or when one of its seats was sold to a competitor, even once   *)
(* it is paid for or given back.                                           *)
ChargedOnceWhileHeld ==
  \A b \in Bookings :
    charged[b] > 1 => b \in due \/ ~UniqueIndexAccepts(b)

-----------------------------------------------------------------------------
(* Liveness                                                                *)

(* No booking stays pending for ever: it is paid, given back or swept.     *)
PendingResolves ==
  \A b \in Bookings : status[b] = "pending" ~> status[b] # "pending"

(* A mutex left behind by an attempt that died frees the booking again.    *)
SlotFrees == \A b \in Bookings : slot[b] ~> ~slot[b]

(* Locks go, with or without their booking being created, paid or swept.   *)
LocksFree ==
  \A s \in Seats, b \in Bookings : lock[s] = b ~> lock[s] # b

-----------------------------------------------------------------------------
(* Refinement                                                              *)

(* The booking that bought seat s, when m[b] are the seats b bought.       *)
Buyer(m, s) ==
  IF \E b \in Bookings : s \in m[b]
  THEN CHOOSE b \in Bookings : s \in m[b]
  ELSE None

(* The buyer of each seat and the paid bookings, as SeatSale sees them.    *)
Sale == INSTANCE SeatSale WITH
  owner <- [s \in Seats |-> Buyer(sold, s)],
  receipts <- {b \in Bookings : paid[b] > 0}

(* Every behaviour of the service is an atomic, exclusive, final sale.     *)
SellsAtomically == Sale!Spec

(* The holders of seats, as HoldTable sees them.  Nothing is promised to   *)
(* anybody where locks may vanish early.                                   *)
Table == INSTANCE HoldTable WITH
  Holders <- Bookings,
  owner <- lock,
  used <- {b \in Bookings : hold[b] \notin {"idle", "checked"}},
  past <- IF "skew" \in Faults THEN Bookings ELSE due

(* Whatever holds, payments, releases and faults do to the locks, they     *)
(* take and free whole selections, once each, and none in somebody else's  *)
(* hands.                                                                  *)
LocksAtomically == Table!Spec

-----------------------------------------------------------------------------
(* A claim of the documentation that the code does not keep                *)

(* README.md, of payments: "Four things make a double charge impossible".  *)
NoDoubleCharge == \A b \in Bookings : charged[b] <= 1
=============================================================================
