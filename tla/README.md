# SeatSync in TLA+

SeatSync sells seats. A user holds seats of an event for a few minutes, pays,
and every browser looking at the event follows along. The sale has to be right
under concurrent requests, retries, lapsing locks and dying processes, and most
of what could go wrong needs several requests to interleave in an order that no
test arranges. This directory holds a model of that behaviour: TLA+ modules
translated from the code, TLC configurations that check them on small
instances, and proofs checked by TLAPS for instances of every size.

Paths are relative to `backend/internal/` unless they say otherwise.

## The system

| Component | State it keeps | Operations | Talks to |
|---|---|---|---|
| Holds, `services/holds.go` | none of its own | CreateHold, ReleaseHold, GetBooking, ListBookings | Postgres, seat locks, broadcaster |
| Payments, `services/payments.go`, `payments/provider.go` | none of its own | Pay: claim key, mutex, verify, charge, confirm, release | Postgres, seat locks, payment mutex, provider, broadcaster |
| Expiry worker, `services/expiry.go` | a ticker | sweep a batch of lapsed bookings | Postgres, broadcaster |
| Tables, `repos/`, `../migrations/` | bookings, booking_seats, payments, refresh_tokens, catalogue | one statement or transaction per method | |
| Seat locks, `locks/` | Redis: a key per held seat, a sorted set per event, a key per booking being paid | Acquire, Release, HeldSeats, HoldsFor, AcquirePaymentSlot, ReleasePaymentSlot | |
| Hub, `realtime/hub.go` | rooms of clients, a send buffer per client | Serve, broadcast, Close, two pumps per client | browsers |
| Relay, `realtime/pubsub.go` | a subscription | publish, consume, deliver | Redis, the hub |
| Catalogue, `services/catalog.go` | none | SeatMap: sold seats from Postgres, then held seats from Redis | |
| Browser, `../../frontend/src` | seat map, selection, tokens | snapshot, apply updates, hold, pay, refresh | all of the above, over HTTP and the websocket |
| Sessions, `services/auth.go`, `repos/refresh_token.go` | refresh tokens | register, login, refresh, logout | Postgres |
| Rate limiter, `ratelimit/` | Redis: a token bucket per caller | allow | |
| Process, `../cmd/server/main.go` | a context that signals cancel | start; stop the server, the hub, the workers, Redis and the pool, in that order | everything |

Several instances of the process may run; they share Postgres and Redis and
nothing else. Inside one, every request is a goroutine, and so are the expiry
worker, the relay and the two pumps of each websocket. Redis scripts, SQL
statements and transactions are atomic; nothing longer is, except that Confirm
holds its row lock from its first statement to its commit.

What makes it hard, and what has to hold:

- *A hold* is a Redis lock per seat and a pending row in Postgres, written one
  after the other, both with a deadline of their own. Locks must be taken all
  or none, must last until the deadline the user was shown, and must go away
  whatever fails. A late release must not free somebody else's seat.
- *A payment* is five remote calls with money in the middle. Retries, double
  clicks, releases and the sweep run at the same time. A seat may be sold once,
  the three tables must agree, a sold booking stays sold, and what the user is
  told must be true.
- *The seat map's read model* is a sorted set next to the locks, swept by every
  reader with its own clock. It may neither hide a hold nor show one that is
  not there.
- *The hub* must not block or kill the request that broadcasts, must not keep a
  client that missed an update, and must shut down.
- *Stopping* a process, with requests and a sweep still under way: what they
  know to be committed must be announced before Redis is closed, and nothing
  may wait for ever.
- *The feed*, from the change to the pixels: announcements follow changes
  without order, and snapshots race with updates.
- *Sessions*: rotation of refresh tokens, replay detection, and a browser that
  refreshes while it logs out.

`PROJECT.json` lists the components, the hazards with the line where each
bites, and the lines of code behind every definition.

## The modules

| Module | What it is | Runs | Proofs |
|---|---|---|---|
| `SeatSale` | abstract: what the booking service promises about an event | through `Checkout` | |
| `HoldTable` | abstract: what the services expect of the seat locks, and Redis gives them | through `Checkout` and `SeatLocks` | |
| `Checkout` | holds, payments, releases and expiry over Redis and Postgres | `Checkout*.cfg`, by `MCCheckout` | `CheckoutProofs`, `AnswerProofs` |
| `SeatFeed` | `Checkout`, and on top of it announcements, hubs, relay, snapshots and pages | `SeatFeed*.cfg`, by `MCSeatFeed` | `SeatFeedProofs` |
| `SeatLocks` | the Redis scripts with clocks, TTLs and the read model | `SeatLocks.cfg`, by `MCSeatLocks` | `SeatLocksProofs` |
| `Hub` | one process's websocket hub, its goroutines and its lock | through `Process` | `HubProofs` |
| `Process` | `Hub`, and around it the requests, the sweeps and the shutdown of a process | `Process.cfg` | `ProcessProofs` |
| `Sessions` | one user's refresh tokens, and the tabs that use them | `Sessions.cfg`, `SessionsLogout.cfg`, by `MCSessions` | `SessionsProofs` |
| `TokenBucket` | the rate limiter's script, over clocks that differ | `TokenBucket.cfg`, by `MCTokenBucket` | `TokenBucketProofs` |

Operators whose comment says "Mutant of X" are plausible bugs of X. They are
used nowhere; each shows that a property below would catch it.

### Checkout

One event. A booking id names a CreateHold request, its lock token and its row.
Each request is a program counter (`hold`, `pay`, `rel`), and each script,
statement or transaction that it runs is an action:

- CreateHold: `HoldCheck` (validation and the seats already sold), `Acquire`,
  `CreatePending`, and `ReleaseQuietly` when the insert failed.
- Pay: `PayRead`, `ClaimIdempotencyKey`, `AcquirePaymentSlot`,
  `VerifySeatLocks`, `Charge`, then Confirm as `ConfirmBegin`, `ConfirmVerify`,
  `ConfirmCommit` (it holds its row lock over a call to Redis, so it cannot be
  one step), `ReleaseSeatLocks` and the deferred `ReleaseSlot`. An attempt runs
  once; a retry or a double click is another attempt on the same booking.
- ReleaseHold: `RelRead`, `RelUnlock`, `MarkCancelled`.
- The worker: `ClaimExpired`, over any batch of lapsed rows nobody has locked.
- Time: `DeadlinePasses`, `LocksLapse`, `SlotLapses`.

`FOR UPDATE` is `RowLocked`: it keeps ClaimIdempotencyKey, Confirm and
MarkCancelled waiting and makes the sweep skip. Faults are parameters: a crash,
an error without effect, an effect whose reply is lost, locks that vanish before
the deadline, and a payment slower than its mutex. Clocks are left to
`SeatLocks`, whose `PromiseKept` is what entitles `LocksLapse` to wait for the
deadline unless `"skew"` is among the faults.

Two refinements. `SeatSale` sells a booking's seats and records its payment in
one step. Under the mapping `owner[s] = ` the booking with a confirmed row for
s and `receipts = ` the bookings with a successful payment, `ConfirmCommit` is
`Sell` and every other step a stutter. `HoldTable` is the other side: its holders
take all the seats they ask for or none, once, never have a part of them, and
keep them until they give them back or the promise made to them is past. Under
`owner = lock`, `used = ` the bookings whose Acquire is over and `past = due`,
`Acquire` is `Take` or `Forgo`, the three ways to unlock are `Give`, and time is
`Pass`. `SeatLocks` implements the same specification, so what `Checkout` takes
for granted of the locks is what the scripts provide.

### SeatFeed

`SeatFeed` extends `Checkout` and composes it with everything between a change
and what a page draws. `Change` is a step of `Checkout`, any of them, and puts
what its request now has to announce into `owed`; the announcement itself is a
later step, because requests announce after they commit and do not wait for each
other.

- `Say` is `PubSub.BroadcastSeatUpdates`: the hub of the request's own instance,
  then Redis, from where `Deliver` takes it to the hubs of the instances that
  are subscribed. `Unsubscribed` and `Resubscribe` are Run's loop; what is
  published in between is lost to that instance.
- `Cast` is the broadcast that `Hub` has in detail: a client whose buffer is
  full is dropped.
- `Connect`, `Greet`, `Break` and `Closed` are a connection: it is in the room
  before it is greeted, and may be dropped in between (`"hung"`: the panic in
  Serve leaves a connection nobody closes).
- `HearHello`, `HearUpdate` and `Refresh` are the page. A greeting makes it
  live and makes it fetch; an update is applied to the seats it has.
- A fetch is `SeatsForEvent` (Postgres), `HeldSeats` (Redis, and a map without
  holds if Redis fails), then `Draw` or `FetchFails`. Fetches of one page
  overlap and are drawn in the order their answers come.

`gap` and `behind` are history variables. `gap[p]`: some broadcast was not sent
to p, and p has not drawn a snapshot read after it. `behind[f]`: f began to read
before such a broadcast.

### SeatLocks

The clock is Redis's; an instance may read up to `MaxSkew` later. `Ask` is
Acquire's computation of the deadline, `AcquireScript`, `ReleaseScript` and
`HeldScript` are the scripts, which may run any time later, and `Tick` expires
keys. A TTL is in whole seconds (`LockTtl`), scores and deadlines are in
milliseconds, and the model's tick is the latter. As an implementation of
`HoldTable`, a holder's promise is past when its deadline is, less the skew and
what the TTL may be cut by.

### Hub

One room of one process. The read lock is `cast[m] = "sending"`, during which a
broadcast sends to one client per step; `WriteLock` guards `Add`,
`ReaderRemoves`, `CastRemoves` and `CloseBegin`. Closing a channel is a step of
its own after the lock is given up, as in `remove` and `Close`. `missed` is a
history variable: no code has it.

### Process

`Process` extends `Hub` with what makes its broadcasts and what closes it. `main`
is where `run()` is: `"serving"` until a `Signal` or `ListenFails`; then what it
waits for, or closes next. After a signal `Drained` and `GraceEnds` are the two
ways `Shutdown` returns. The second returns from `run()` at once, as a failing
listener does, and the deferred calls then close the hub, Redis and the pool
without waiting for the workers. `HubCloses` is `Hub`'s own Close, step by step.
`pool.Close` waits for queries in use, and `Exit` takes everything with it.

A broadcast is made by a `job`, a request or a sweep: `Serve` or `SweepBegins`,
then `QueryEnds`, which has three outcomes: a change; none; or a change that is
committed although the query failed (`"cut"`), because its context was
cancelled too late or its connection broke. The signal does that to a sweep, as
ClaimExpired runs under the context it cancels (`services/expiry.go:64`).
Whoever made such a change does not know of it and announces nothing; the others
go on with `Hub`'s broadcast and `Publish`, which comes too late (`"lost"`) once
Redis is closed. What a request does up to its commit is in `Checkout`, and what
its announcement does to pages in `SeatFeed`.

`workers.Wait` (`WorkersDone`) waits for two goroutines, the sweeper and the
relay's Run. Run is a state and a step here, `RelayStops`: after a signal it
returns, from wherever its loop is. What it delivers meanwhile is in `SeatFeed`.

### Sessions

One user. A tab is its sessionStorage (`stored`) and the memory of its page
(`access`, `flight`), as in `frontend/src/lib/api.ts`; a reload empties the
second and keeps the first, and a duplicated tab starts with a copy of it.
`flight` is `refreshInFlight`: the handler whose reply the page waits for, or
`Stuck`, a settled promise that was never reset (`refreshSession` returns before
its `try` when nothing is stored). A handler serves one request, a statement per
step, and goes on when nobody waits any more. `parent`, `ended`, `exposed` and
`alarm` are history variables.

### TokenBucket

A request is stamped with its own instance's clock (`Arrive`) and runs the
script up to `MaxDelay` later (`Decide`), or never does and is let through
(`FailOpen`). `Refilled`, `Left`, `Ttl` and `RetryAfters` are the script's four
computations. Tokens are counted in the milliseconds they take to refill, but
the script computes in doubles, whose sums miss the whole millisecond by a
rounding: ten polls, each of which adds a tenth of a token, can
leave a bucket just below one. So a bucket is a whole number of milliseconds
and the `side` of it that the stored double is on. A refill may come out on any
side (`Sides`), except that a full bucket is exact and adding nothing changes
nothing, and `Enough` is the script's comparison with the cost. `Answer` is the
middleware's: of the milliseconds the script returns, the caller is told the
whole seconds, and one at least (`Told`). `spent`, `first`, `regained` and
`promised` are history variables; `promised` adds to what was told the second
that may have been cut off and the difference between clocks (`Patience`).

## What the runs check

| Run | Instance | Properties |
|---|---|---|
| `CheckoutOverlap` | 2 seats, 2 bookings, 3 attempts, 1 release, no faults | `SlotExclusive`, `ChargedOnceWhileHeld`, `OnlyOwnerUnlocks`, `LocksAtomically` |
| `CheckoutFaults` | 1 seat, 2 bookings, 2 attempts, 2 keys, every fault but the crash | `NoDoubleSale`, `LedgerConsistent`, `KeyBindsBooking`, `AnswersTruthful`, `SellsAtomically` |
| `CheckoutLive` | 1 booking, 2 attempts, 1 release, crashes, errors, lost replies, fairness | `TypeOK`, `ChargesAccounted`, `HoldsLast`, `TerminalIsFinal`, `PendingResolves`, `SlotFrees`, `LocksFree` |
| `SeatFeed` | 1 seat sold once, 2 instances, 1 page, buffer of 1, two faults of connection, relay or Redis | `FeedTypeOK`, `SoldShownIsSold`, `NothingSlips` |
| `SeatFeedHeal` | holds, releases and expiries of 1 seat, 1 page, two overlapping fetches, one fault of connection or fetch, fairness | `LostPagesHeal` |
| `SeatLocks` | 2 seats, 3 holders, TTL of 2.5 seconds, skew of a tick | `PromiseKept`, `HeldSeatsShown`, `ReportedDeadlineHolds`, `LocksAtomically`, `TypeOK` |
| `Process` | 1 client, 1 request, 1 sweep, a buffer of 1, fairness | `BroadcastNeverPanics`, `MissedMeansDropped`, `ClosedMeansGone`, `DeadPeersLeave`, `CloseReturns`, `CleanStopTellsAll`, `StopsOnSignal`, `ProcTypeOK` |
| `Sessions` | 2 tabs, 3 tokens, 2 requests, reloads, copies, lost replies, errors | `ExchangedOnce`, `NoFalseAlarm`, `SignedInCanRefresh`, `TypeOK` |
| `TokenBucket` | 1 caller, 4 requests, 2 clocks, a bucket of 2 tokens of 3 ticks each, a second of 2 ticks | `AverageHolds`, `PromiseKept`, `TypeOK` |

Three runs show where the code does less than its documents say. Each ends in a
counterexample:

| Run | The document | The code |
|---|---|---|
| `CheckoutDoubleCharge` | README.md:206: four things make a double charge impossible | A second attempt has claimed the key before the first is done. The sweep expires the booking after the first has charged, so Confirm refuses it; the second takes the mutex, finds the locks still in Redis, and charges again: nothing between the mutex and the charge looks at the status. |
| `SeatFeedGap` | `frontend/src/app/events/[id]/page.tsx:89`: no update can slip through the gap between reading and subscribing | A snapshot that was read before a change, and arrives after the update that announced it, is drawn over the update. The page stays wrong until the seat changes again. |
| `SessionsLogout` | `services/auth.go:187`: after a logout the session should not work any more | A refresh that has read the token before the logout revokes it goes on to issue a successor, and its reply signs the tab in again. |

The safety of the sale itself holds in every run: the partial unique index and
the transaction of Confirm carry it, with or without the locks. What pages show
is weaker, and the three properties of the feed say how much of it holds: a seat
drawn as sold is sold; a live page has a stream or a snapshot for every
broadcast; and a page that lost its connection recovers once things settle.

### Observations without a run

Seen while modelling, and not checked by a run of their own:

- CreateHold looks for sold seats before it takes the locks. A purchase that
  commits and unlocks in between leaves a hold over sold seats, with valid
  locks. It can be charged before the unique index refuses it
  (`services/payments.go:112` means to prevent that).
- A twin of a successful attempt that waited for the mutex finds the locks gone
  and answers 409 hold_expired; README.md:203 promises 200, replayed.
- `wg.Add` runs after a client can be seen by Close, so Close may return before
  the client's pumps start (`realtime/hub.go:168`).
- `main.go:180` means shutdown to wait for the workers "rather than exiting
  mid-sweep". Only a clean stop does: when the grace period ends, or the
  listener fails, `run()` returns and `workers.Wait` is not reached. The pool's
  Close still waits for the sweep's statement, but nobody for its announcement.
- A signal cancels the sweep's context. If it hits ClaimExpired while the commit
  is under way, the rows may be expired and are announced by nobody: the next
  sweep does not find them again. `CleanStopTellsAll` therefore cannot speak of
  every committed change, and speaks of those whose query reported them.
- `relay.Close` finds no subscription while Run waits in its first Receive
  (`realtime/pubsub.go:154`), and Receive does not look at its context once it is
  reading. A clean stop waits there for Redis to answer or for the connection to
  break; `StopsOnSignal` assumes that one of them happens.
- A lock that outlives its swept booking lapses without an announcement: pages
  that fetched in between show a held seat until they fetch again. `Settled`
  excludes it, so `LostPagesHeal` does not promise more.
- A call that is answered 401 after its tab logged out finds no refresh token
  and leaves `refreshInFlight` settled but set (`lib/api.ts:173`). If the tab logs
  in again without loading the page anew, no later refresh is ever sent, and its
  session ends with its access token. `SignedInCanRefresh` is about the token a
  tab has, not about this.
- One refetch that fails sets `loadError`, which nothing clears (`page.tsx:40`).
- The bucket's stamp follows the latest request even backwards, so an interval
  can be refilled twice; `AverageHolds` has to count it as `regained`.
- Retry-After is cut to whole seconds (`middleware/ratelimit.go:39`), and the
  script's sums are rounded, so a caller that obeys the header exactly may be
  refused again. `PromiseKept` says by how much it has to be more patient: a
  second, and the difference between clocks. With a tick less, TLC finds a caller
  that is refused.

### Bounds, and why they are enough

- Two bookings compete for a seat; a third adds a competitor of the same kind.
  Two seats are what it takes for a partial overlap, a partial release or a
  partial sale. Three attempts are two on one booking and one on its
  competitor.
- `CheckoutOverlap` and `CheckoutFaults` split seats from faults because
  together they exceed what can be enumerated. A crash is not needed for
  safety: an attempt that never takes another step is a crash, apart from an
  open transaction, and that one's rollback is what `"error"` does.
  `CheckoutLive` has it, where stopping matters. `SlotExclusive` and
  `ChargedOnceWhileHeld` do not hold under every fault, and `CheckoutOverlap`
  has none; which ones each of them stands is in its theorem. `HoldsLast` and
  `ChargesAccounted` are what still holds of a hold and of its charges when calls
  fail and processes die, so they are checked in `CheckoutLive`.
- `BatchSize` 1 makes the sweep take lapsed rows in any order, 2 both at once.
- `charged` and `paid` are bounded by the number of attempts, and attempts,
  bookings and casts run once, so the state spaces are finite without
  constraints. Releases are reused, and so are pages, connections and fetches;
  `MaxMishaps` bounds the faults of one behaviour. Every broadcast there is
  stems from a change, so nothing else needs a bound.
- Symmetry: actions and properties name no booking, seat, attempt or key, and
  compare them only for equality. Runs of liveness properties use none.
- `SeatFeed` needs a sale (`Attempts` = 1) to have sold seats, two instances to
  have a relay, and two faults so that a page can lose its connection while an
  instance loses its subscription; one fetch suffices there, because two
  that overlap are in `SeatFeedHeal`. `SeatFeedHeal` has no sale, because
  seats that come and go are the harder case for a page that must catch up. A
  buffer of one is already full after one message. Both safety properties are
  proved for any number of pages, instances and fetches. `Change` may leave a
  cancelled booking unannounced only if `Faults` has `"error"` or `"crash"`;
  these runs have neither, and the proofs have both.
- `SeatLocks`: a TTL of two and a half seconds is the smallest that the
  truncation shortens; with `MaxNow` 7 a lock lives, lapses and is taken again,
  and the set expires. Three holders are a stale one, a current one and a
  competitor.
- `Process`: clients share only the hub's lock and the wait group, so one client
  already meets each of its own races; the theorems cover any number. The
  greeting and two broadcasts fill a buffer of one, drop the client, and race
  with the drop. One request and one sweep are one job that `Shutdown` waits for
  and one that `workers.Wait` does.
- `Sessions`: three tokens are a token and the two successors that it takes to
  exchange it twice, or an exchange, a logout and a new login; two requests let
  a refresh meet another or a logout; one call at a time in flight is enough to
  join a refresh, because the next may go out before the refresh is done.
  `LoginBound` is the one constraint of a search here: a user logs in again, or
  has tokens copied or cut off, but not both. All safety properties are proved
  without these bounds.
- `TokenBucket`: buckets share nothing, so one caller is enough. Four requests
  empty a bucket of two and are refused twice; `MaxTime` 10 is enough for
  a bucket to be emptied, to expire and to be emptied again. A second that does
  not divide the time of a token makes the header cut something off.
- Deadlock checking is off because these systems do stop: attempts, broadcasts,
  requests and connections of an instance are used up.

### Fairness

Fairness is asked of what the code schedules by itself. Time passes and Redis
expires keys. The worker's ticker fires for ever, and SKIP LOCKED passes over a
row only while somebody's transaction lasts, so a row lapsed for good is
claimed. A running request takes its next step or dies; nobody is obliged to
start one. In the hub, runnable goroutines run, Go's RWMutex does not starve
writers, and read and write deadlines let a pump notice a dead peer. In the
process, queries and publishes end, by their contexts if not by themselves, and
`run()` goes on when what it waits for is done; nobody has to send a signal. The
relay returns once it is told to, which includes an assumption about Redis:
Receive, if Run is in it, gets an answer or loses its connection. In
the feed, the page's timer reconnects, the handler greets, the pumps deliver, a
dropped connection is closed, and a request for the seat map is answered or
fails; the services owe nothing there, since `LostPagesHeal` speaks only of
times when they have nothing under way.

## What is proved

With tlapm, from the assumptions the modules name, and for every number of
seats, bookings, attempts, releases and keys, every set of faults, every TTL,
skew, slack and rate, and every number of clients, pages, instances, requests
and broadcasts:

- `Checkout`: `TypeCorrect`; `NeverSoldTwice`, `BooksAgree`,
  `TerminalRowsAreFinal` and `ImplementsSeatSale`, under all faults; and
  `MutexExcludes`, which assumes that no mutex outlives its TTL (without this
  it is false). The inductive invariant `IInv` ties each row's status to its
  seats, payments and charges, keeps at most one attempt inside Confirm's
  transaction per booking, and keeps a row that is locked by one pending. The
  last is why it is needed: whether `ConfirmCommit` may write depends on a
  status read two steps earlier, and only the row lock makes it still true.
- `Checkout`'s locks: `LocksAreWhole`, `OwnersUnlock` and `ImplementsHoldTable`,
  under all faults, because a booking has no lock before its Acquire and every
  later step takes its locks together.
- Holds last. `HoldsDoLast`, unless locks vanish early (`"skew"`): with the
  insert a booking has its locks (`InsertsHeld`), whoever unlocks after a commit
  has committed (`UnlocksSold`), and whoever releases is seen releasing
  (`ReleasesInserted`), so a pending booking loses nothing to anybody else.
  `PendingIsHeld`, if besides no call fails without effect and no process dies:
  then a release that has begun goes on to cancel.
- Charges. `ChargedOnce`, if no call fails and no mutex outlives its TTL, even
  if locks vanish early: from `ChargeInv`, an attempt that charged keeps the
  mutex until it has sold the seats and dropped the locks, or has found the locks
  gone or a seat sold to a competitor, and locks that are gone stay gone, so no
  later attempt passes VerifySeatLocks. `ChargesAreAccounted` needs only that no
  mutex outlives its TTL: `AccountInv` says that a pending booking was charged at
  most once more than attempts for it failed, and if exactly once more, then the
  last of them is still confirming, or the locks are gone for good. What makes it
  inductive is that failing is final (`AnswerLast`), so the failures never get
  fewer; that they can be counted at all is why there `Attempts` is finite.
- `Checkout`'s answers (`AnswerProofs`): `KeysBindBookings` and
  `AnswersAreTrue`, under all faults. `KInv` adds to `IInv` that two bookings
  share no key, that a confirmed booking has one, that each booking is sold by
  one attempt, and that each attempt's answer is true of the row it is about.
  A single answer is true when it is decided; that it stays so rests on
  `RowsGrow`: rows are never deleted, keys never rebound, sales never undone.
- `SeatFeed`: `FeedKeepsBooks`, that it adds no behaviour to `Checkout`, so
  `Checkout`'s theorems hold in it; `FeedTyped`; `SoldSeatsAreSold`, from
  `AllHonest`: whatever claims that a seat is sold, be it owed, relayed, on a
  wire, read or built into a reply, is about a seat that is, and `Checkout`
  never takes a sale back; and `NothingIsMissed`, from `SlipInv`: a connected
  page with a gap has a request under way that will read, or has read, after
  it.
- `SeatLocks`: `HoldsArePromises`, `HoldsAreShown`, `ShownDeadlinesHold`,
  `TypeCorrect` and `ImplementsHoldTable`.
  The invariant `IInv` says of each locked seat that its holder wants it, that
  its expiry is close enough to the holder's deadline, that its score is the
  holder's deadline unless some reader has already swept it, and that the set
  outlives it. Truncation is the one lemma about division. For `HoldTable` it
  takes one more fact, `Together`: the keys of one hold expire at one instant.
- `Hub`: `BroadcastsAreSafe`, from the lock discipline `RoomInv`: clients that
  a sending broadcast has still to reach are in the room, and a client in the
  room is on nobody's list of channels to close; and `HubTyped`, from `HubInv`:
  the wait group is the number of pumps that have not given it back.
- `Process`: `ChangesAreTold`, from `StopInv`, which says what is over by the time
  each wait of `run()` is: a job that still has something to publish keeps Redis
  open. It is about changes that a query reported; one that was cut off is
  announced by nobody, and the theorem does not say otherwise. `HubHolds`, that the hub's invariants survive inside a
  process up to its exit; and from it `NoJobPanics` and `ProcessTyped`.
- `Sessions`: `SpentOnExchange`, because a row that is revoked stays revoked and
  the old token is revoked before its successor is issued; and
  `NoAlarmWithoutCause` and `SessionsGoOn`, from `AlarmInv`: while a token was
  neither logged out nor exposed, at most one refresh holds it, the tab that
  sent it waits for that refresh, no other tab stores it, and a token that is
  still on its way to a tab is nowhere else. A spent token is then stored
  nowhere but in the tab whose refresh spent it. `RotatesOnce` adds `RotationInv`:
  a token that was exchanged and neither logged out nor exposed is on its way to
  nobody, and whoever still has it is at the end of that same exchange; it holds
  after an alarm, too.
- `TokenBucket`: `BucketsTyped`, `AverageIsHeld` and `PromisesAreKept`, from the
  assumption that clocks and requests are late by no more than the slack the
  script adds to a bucket's lifetime: only then is an expired bucket one that
  would be full. The invariant says of a promise that at its time, by the slowest
  clock, the bucket holds more than a token, and so enough on either side of it;
  `ToldIsClose` is the lemma about the seconds that were cut off.

Every invariant and every action property of the passing runs is proved. Three
more invariants are proved and in no run: `LocksAllOrNothing`, which
`LocksAtomically` implies; `PendingHoldsSeats`, whose reason is `HoldsLast`; and
`ExchangedIsSpent`, the lesser half of what exchanging a token means, next to
`ExchangedOnce`. Only model-checked are liveness (fairness and ENABLED are beyond
the prover) and the runs that end in a counterexample.

## What is left out

- Prices, listings, the text of answers and logs; failed payments' rows, which
  nothing reads.
- `PostgreSQL` below the statement: one UPDATE locking several index entries in
  some order, and the deadlock two of them can end in, is an error of the call.
- The panic of Serve's greeting on a closed channel is in `Hub` as an outcome,
  and in `SeatFeed` as the state it leaves a page in; nothing in the repository
  claims that it cannot happen.
- A page's selection, its own hold (`held_by_me`) and its countdown: they are
  drawn, and the server decides without them. Loading a page anew starts it
  over, which is what `SeatFeed`'s initial state is.
- The rate limiter's zero limits, and its headers but for Retry-After.
- How `cmd/server/main.go` starts the parts, one after the other and with nobody
  to serve yet, and the health check.
- The second `hub.Close`, of the deferred calls after a clean stop, which returns
  at once, and `relay.Close`, which only ends deliveries. After a failing listener
  it ends the relay's loop too, but nobody waits for that.
- HTTP routing, decoding, configuration, migrations, seeding, load test:
  stateless or run by hand.

## Plan

What is left, in the order of its use:

1. The relay's own broadcasts inside `Process`, so that a delivery can race with
   `hub.Close` too.
2. A page's selection and its own hold in `SeatFeed`, for what a user is offered
   to pay.
