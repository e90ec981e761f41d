--------------------------- MODULE SeatFeedProofs ---------------------------
(***************************************************************************)
(* Proofs about the live seat map, for any number of instances, pages and  *)
(* requests, any buffer, and any faults of Checkout and of the feed.       *)
(***************************************************************************)
EXTENDS SeatFeed, AnswerProofs

-----------------------------------------------------------------------------
(* The feed watches Checkout and never disturbs it                         *)

LEMMA OnlyChangesChange ==
  ASSUME [FeedNext]_allVars
  PROVE  Change \/ UNCHANGED vars
<1>1. CASE UNCHANGED allVars
  BY <1>1 DEF allVars
<1>2. CASE CastStep
  BY <1>2 DEF CastStep, Say, Deliver, Unsubscribed, Resubscribe
<1>3. CASE \E p \in Pages : PageStep(p)
  BY <1>3 DEF PageStep, Connect, Greet, Break, Closed, HearUpdate, HearHello,
     Refresh
<1>4. CASE \E f \in Fetches : FetchStep(f)
  BY <1>4 DEF FetchStep, SeatsForEvent, HeldSeats, Draw, FetchFails
<1>5. QED
  BY <1>1, <1>2, <1>3, <1>4 DEF FeedNext

(* A service that is watched is a behaviour of Checkout: what is proved of *)
(* bookings, payments and locks holds under the feed as well.              *)
THEOREM FeedKeepsBooks == FeedSpec => Spec
<1>1. FeedInit => Init
  BY DEF FeedInit
<1>2. [FeedNext]_allVars => [Next]_vars
  BY OnlyChangesChange DEF Change
<1>3. QED
  BY <1>1, <1>2, PTL DEF FeedSpec, Spec

LEMMA BooksHold == FeedSpec => []KInv
  BY FeedKeepsBooks, KInvHolds, PTL

(* What was sold stays sold.                                               *)
LEMMA SoldGrows ==
  ASSUME KInv, [Next]_vars
  PROVE  ConfirmedSeatIDs \subseteq ConfirmedSeatIDs'
<1>1. RowsGrow
  BY RowsStep DEF KInv
<1>2. QED
  BY <1>1 DEF RowsGrow, ConfirmedSeatIDs

-----------------------------------------------------------------------------
(* Type correctness                                                        *)

(* What a step of Checkout adds to what is to be announced.                *)
LEMMA UpdatesTyped ==
  ASSUME TypeOK
  PROVE  /\ HeldUpdates \subseteq Updates
         /\ SoldUpdates \subseteq Updates
         /\ SweptUpdates \subseteq Updates
         /\ \A R \in SUBSET Cancelling : FreedUpdates(R) \subseteq Updates
<1> USE DEF TypeOK, Updates, Update, SeatStatuses, Selections
<1>1. HeldUpdates \subseteq Updates
  BY DEF HeldUpdates
<1>2. SoldUpdates \subseteq Updates
  <2> SUFFICES ASSUME NEW a \in Attempts, pay[a] = "unlock"
               PROVE  Update("pay", a, want[target[a]], "confirmed") \in Updates
    BY DEF SoldUpdates
  <2>1. target[a] \in Bookings
    OBVIOUS
  <2>2. want[target[a]] \in SUBSET Seats
    BY <2>1
  <2>3. QED
    BY <2>2
<1>3. SweptUpdates \subseteq Updates
  BY DEF SweptUpdates
<1>4. ASSUME NEW R \in SUBSET Cancelling
      PROVE  FreedUpdates(R) \subseteq Updates
  <2> SUFFICES ASSUME NEW r \in R
               PROVE  Update("rel", r, want[relOf[r]], "available") \in Updates
    BY DEF FreedUpdates
  <2>1. r \in Releases /\ relOf[r] \in Bookings
    BY DEF Cancelling
  <2>2. want[relOf[r]] \in SUBSET Seats
    BY <2>1
  <2>3. QED
    BY <2>1, <2>2
<1>5. QED
  BY <1>1, <1>2, <1>3, <1>4

LEMMA CastTyped ==
  ASSUME FeedTypeOK, NEW i \in Instances, NEW u \in Updates, Cast(i, u)
  PROVE  /\ wire' \in [Pages -> Seq(Updates \cup {Hello})]
         /\ sock' \in [Pages -> SockStates]
         /\ home' = home
         /\ \A p \in Pages : sock'[p] # "down" <=> sock[p] # "down"
         /\ gap' \in [Pages -> BOOLEAN]
         /\ behind' \in [Fetches -> BOOLEAN]
<1> USE DEF FeedTypeOK, Cast, SockStates, InRoom, Room
<1>1. \A p \in Pages : wire[p] \in Seq(Updates \cup {Hello})
  OBVIOUS
<1>2. \A p \in Pages : Append(wire[p], u) \in Seq(Updates \cup {Hello})
  BY <1>1
<1>3. <<>> \in Seq(Updates \cup {Hello})
  OBVIOUS
<1>4. wire' \in [Pages -> Seq(Updates \cup {Hello})]
  BY <1>1, <1>2, <1>3
<1>5. sock' \in [Pages -> SockStates] /\ home' = home
  OBVIOUS
<1>6. \A p \in Pages : sock'[p] # "down" <=> sock[p] # "down"
  OBVIOUS
<1>7. gap' \in [Pages -> BOOLEAN]
  OBVIOUS
<1>8. behind' \in [Fetches -> BOOLEAN]
  OBVIOUS
<1>9. QED
  BY <1>4, <1>5, <1>6, <1>7, <1>8

LEMMA FetchEndsTyped ==
  ASSUME FeedTypeOK, NEW f \in Fetches, FetchEnds(f)
  PROVE  /\ fetch' \in [Fetches -> {"idle", "asked", "rows", "reply"}]
         /\ of' \in [Fetches -> Pages \cup {None}]
         /\ rows' \in [Fetches -> SUBSET Seats]
         /\ reply' \in [Fetches -> Views]
         /\ behind' \in [Fetches -> BOOLEAN]
         /\ \A g \in Fetches : fetch'[g] # "idle" => of'[g] # None
<1>1. Unknown \in Views
  BY DEF Unknown, Views
<1>2. QED
  BY <1>1 DEF FeedTypeOK, FetchEnds

LEMMA FeedTypeOKCast ==
  ASSUME FeedTypeOK, CastStep
  PROVE  FeedTypeOK'
<1> USE DEF FeedTypeOK, pageVars, fetchVars, connVars, Mishap
<1>1. PICK i \in Instances : \/ \E u \in owed : Say(i, u)
                             \/ Deliver(i) \/ Unsubscribed(i) \/ Resubscribe(i)
  BY DEF CastStep
<1>2. CASE \E u \in owed : Say(i, u)
  <2>1. PICK u \in owed : Say(i, u)
    BY <1>2
  <2>2. u \in Updates /\ Cast(i, u)
    BY <2>1 DEF Say
  <2>3. \A j \in Instances : Append(relay[j], u) \in Seq(Updates)
    BY <2>2
  <2>4. relay' \in [Instances -> Seq(Updates)]
    BY <2>1, <2>3 DEF Say
  <2>5. mishaps' \in 0..MaxMishaps
    BY <2>1, FeedAssumption DEF Say
  <2>6. QED
    BY <2>1, <2>2, <2>4, <2>5, CastTyped DEF Say
<1>3. CASE Deliver(i)
  <2>1. Head(relay[i]) \in Updates /\ Tail(relay[i]) \in Seq(Updates)
    BY <1>3 DEF Deliver
  <2>2. Cast(i, Head(relay[i]))
    BY <1>3 DEF Deliver
  <2>3. QED
    BY <1>3, <2>1, <2>2, CastTyped DEF Deliver
<1>4. CASE Unsubscribed(i)
  BY <1>4, FeedAssumption DEF Unsubscribed
<1>5. CASE Resubscribe(i)
  BY <1>5 DEF Resubscribe
<1>6. QED
  BY <1>1, <1>2, <1>3, <1>4, <1>5

LEMMA FeedTypeOKPage ==
  ASSUME FeedTypeOK, NEW p \in Pages, PageStep(p)
  PROVE  FeedTypeOK'
<1> USE DEF FeedTypeOK, SockStates, castVars, connVars, pageVars, fetchVars,
        Mishap, Ask, InRoom, Arrives
<1>0. None \notin Instances \cup Pages
  BY FeedAssumption
<1>1. CASE \E i \in Instances : Connect(p, i)
  BY <1>0, <1>1 DEF Connect
<1>2. CASE Greet(p)
  <2>1. Append(wire[p], Hello) \in Seq(Updates \cup {Hello})
    OBVIOUS
  <2>2. wire' \in [Pages -> Seq(Updates \cup {Hello})]
    BY <1>2, <2>1 DEF Greet
  <2>3. QED
    BY <1>2, <2>2 DEF Greet
<1>3. CASE Break(p)
  BY <1>3, FeedAssumption DEF Break
<1>4. CASE Closed(p)
  BY <1>4 DEF Closed
<1>5. ASSUME Arrives(p)
      PROVE  /\ Tail(wire[p]) \in Seq(Updates \cup {Hello})
             /\ Head(wire[p]) \in Updates \cup {Hello}
  BY <1>5
<1>6. CASE HearUpdate(p)
  <2>1. Head(wire[p]) \in Updates
    BY <1>5, <1>6 DEF HearUpdate
  <2>2. Head(wire[p]).status \in SeatStatuses
    BY <2>1 DEF Updates
  <2>3. view' \in [Pages -> Views]
    BY <1>6, <2>2 DEF HearUpdate, Views
  <2>4. QED
    BY <1>5, <1>6, <2>3 DEF HearUpdate
<1>7. CASE \E f \in Fetches : HearHello(p, f)
  BY <1>0, <1>5, <1>7 DEF HearHello
<1>8. CASE \E f \in Fetches : Refresh(p, f)
  BY <1>0, <1>8 DEF Refresh
<1>9. QED
  BY <1>1, <1>2, <1>3, <1>4, <1>6, <1>7, <1>8 DEF PageStep

LEMMA FeedTypeOKFetch ==
  ASSUME TypeOK, FeedTypeOK, NEW f \in Fetches, FetchStep(f)
  PROVE  FeedTypeOK'
<1> USE DEF FeedTypeOK, castVars, connVars, pageVars, Mishap
<1>1. CASE SeatsForEvent(f)
  <2>1. ConfirmedSeatIDs \subseteq Seats
    BY DEF TypeOK, ConfirmedSeatIDs
  <2>2. QED
    BY <1>1, <2>1 DEF SeatsForEvent
<1>2. CASE HeldSeats(f)
  <2>1. \A sale, held : BuildSeatMap(sale, held) \in Views
    BY DEF BuildSeatMap, Views, SeatStatuses
  <2>2. reply' \in [Fetches -> Views]
    BY <1>2, <2>1 DEF HeldSeats
  <2>3. mishaps' \in 0..MaxMishaps
    BY <1>2, FeedAssumption DEF HeldSeats
  <2>4. QED
    BY <1>2, <2>2, <2>3 DEF HeldSeats
<1>3. CASE Draw(f)
  <2>1. of[f] \in Pages /\ reply[f] \in Views
    BY <1>3 DEF Draw
  <2>2. view' \in [Pages -> Views] /\ gap' \in [Pages -> BOOLEAN]
    BY <1>3, <2>1 DEF Draw
  <2>3. QED
    BY <1>3, <2>2, FetchEndsTyped DEF Draw
<1>4. CASE FetchFails(f)
  <2>1. mishaps' \in 0..MaxMishaps /\ broken' \in [Pages -> BOOLEAN]
    BY <1>4, FeedAssumption DEF FetchFails
  <2>2. QED
    BY <1>4, <2>1, FetchEndsTyped DEF FetchFails
<1>5. QED
  BY <1>1, <1>2, <1>3, <1>4 DEF FetchStep

LEMMA FeedTypeOKNext ==
  ASSUME TypeOK, FeedTypeOK, [FeedNext]_allVars
  PROVE  FeedTypeOK'
<1>1. CASE UNCHANGED allVars
  BY <1>1 DEF allVars, feedVars, FeedTypeOK
<1>2. CASE Change
  <2>1. owed' \subseteq Updates
    BY <1>2, UpdatesTyped DEF Change, FeedTypeOK
  <2>2. QED
    BY <1>2, <2>1 DEF Change, FeedTypeOK, connVars, pageVars, fetchVars
<1>3. QED
  BY <1>1, <1>2, FeedTypeOKCast, FeedTypeOKPage, FeedTypeOKFetch DEF FeedNext

LEMMA FeedTypeOKInit == FeedInit => FeedTypeOK
<1>1. Unknown \in Views
  BY DEF Unknown, Views
<1>2. QED
  BY <1>1, FeedAssumption DEF FeedInit, FeedTypeOK, SockStates

(* Announcements, streams, views and requests keep their types, and a      *)
(* request that runs keeps the page it runs for.                           *)
THEOREM FeedTyped == FeedSpec => []FeedTypeOK
<1>1. KInv => TypeOK
  BY DEF KInv, IInv
<1>2. KInv /\ FeedTypeOK /\ [FeedNext]_allVars => FeedTypeOK'
  BY <1>1, FeedTypeOKNext
<1>3. QED
  BY <1>2, FeedTypeOKInit, BooksHold, PTL DEF FeedSpec
-----------------------------------------------------------------------------
(* Sold seats are sold, on their way to a page and on it                   *)

(* An update that tells of a sale tells of one that was made.              *)
Honest(u) ==
  u # Hello /\ u.status = "confirmed" => u.seats \subseteq ConfirmedSeatIDs

(* Everything a page may come to draw is honest already.                   *)
AllHonest ==
  /\ \A u \in owed : Honest(u)
  /\ \A i \in Instances, n \in Nat : n \in 1..Len(relay[i]) => Honest(relay[i][n])
  /\ \A p \in Pages, n \in Nat : n \in 1..Len(wire[p]) => Honest(wire[p][n])
  /\ \A f \in Fetches : rows[f] \subseteq ConfirmedSeatIDs
  /\ \A f \in Fetches, s \in Seats :
       reply[f][s] = "confirmed" => s \in ConfirmedSeatIDs
  /\ SoldShownIsSold

LEMMA TailFacts ==
  ASSUME NEW S, NEW q \in Seq(S), q # <<>>, NEW n \in 1..Len(Tail(q))
  PROVE  n + 1 \in 1..Len(q) /\ Tail(q)[n] = q[n + 1]
  OBVIOUS

(* A payment gives its locks back only after its sale was committed.       *)
LEMMA SalesHonest ==
  ASSUME KInv, NEW u \in SoldUpdates
  PROVE  u.seats \subseteq ConfirmedSeatIDs
<1>1. PICK a \in Attempts : /\ pay[a] = "unlock"
                            /\ u = Update("pay", a, want[target[a]], "confirmed")
  BY DEF SoldUpdates
<1>2. target[a] \in Bookings /\ status[target[a]] = "confirmed"
  <2>1. pay[a] # "idle" => target[a] \in Bookings
    BY AnswersAreNotNone DEF KInv, IInv
  <2>2. AttemptTrue(a) /\ Won(a)
    BY <1>1 DEF KInv, Won
  <2>3. QED
    BY <2>1, <2>2 DEF AttemptTrue
<1>3. sold[target[a]] = want[target[a]]
  BY <1>2 DEF KInv, IInv, LedgerConsistent
<1>4. QED
  BY <1>1, <1>2, <1>3 DEF Update, ConfirmedSeatIDs

LEMMA HonestChange ==
  ASSUME KInv, FeedTypeOK, AllHonest, Change
  PROVE  AllHonest'
<1>1. ConfirmedSeatIDs \subseteq ConfirmedSeatIDs'
  BY SoldGrows DEF Change
<1>2. \A u : Honest(u) => Honest(u)'
  BY <1>1 DEF Honest
<1>3. ASSUME NEW u \in owed'
      PROVE  Honest(u)
  <2>1. CASE u \in owed
    BY <2>1 DEF AllHonest
  <2>2. CASE u \in SoldUpdates
    BY <2>2, SalesHonest DEF Honest
  <2>3. CASE u \notin owed \cup SoldUpdates
    <3>1. \/ u \in HeldUpdates \cup SweptUpdates
          \/ \E R \in SUBSET Cancelling : u \in FreedUpdates(R)
      BY <2>3 DEF Change
    <3>2. u.status # "confirmed"
      BY <3>1 DEF HeldUpdates, SweptUpdates, FreedUpdates, Update
    <3>3. QED
      BY <3>2 DEF Honest
  <2>4. QED
    BY <2>1, <2>2, <2>3
<1>4. UNCHANGED <<relay, wire, rows, reply, view>>
  BY DEF Change, connVars, pageVars, fetchVars
<1>5. \A u \in owed' : Honest(u)'
  BY <1>2, <1>3
<1>6. \A i \in Instances, n \in Nat : n \in 1..Len(relay'[i]) => Honest(relay[i][n])'
  BY <1>2, <1>4 DEF AllHonest
<1>7. \A p \in Pages, n \in Nat : n \in 1..Len(wire'[p]) => Honest(wire[p][n])'
  BY <1>2, <1>4 DEF AllHonest
<1>8. QED
  BY <1>1, <1>4, <1>5, <1>6, <1>7 DEF AllHonest, SoldShownIsSold

LEMMA HonestCast ==
  ASSUME FeedTypeOK, AllHonest, NEW i \in Instances, NEW u \in Updates,
         Honest(u), Cast(i, u), NEW p \in Pages, NEW n \in 1..Len(wire'[p])
  PROVE  Honest(wire'[p][n])
<1>1. wire[p] \in Seq(Updates \cup {Hello})
  BY DEF FeedTypeOK
<1>2. wire'[p] \in {wire[p], Append(wire[p], u), <<>>}
  BY DEF Cast, FeedTypeOK
<1>3. CASE wire'[p] = wire[p]
  BY <1>1, <1>3 DEF AllHonest
<1>4. CASE wire'[p] = Append(wire[p], u)
  <2>1. n = Len(wire[p]) + 1 \/ n \in 1..Len(wire[p])
    BY <1>1, <1>4
  <2>2. CASE n = Len(wire[p]) + 1
    BY <1>1, <1>4, <2>2
  <2>3. CASE n \in 1..Len(wire[p])
    <3>1. wire'[p][n] = wire[p][n]
      BY <1>1, <1>4, <2>3
    <3>2. QED
      BY <2>3, <3>1 DEF AllHonest
  <2>4. QED
    BY <2>1, <2>2, <2>3
<1>5. CASE wire'[p] = <<>>
  BY <1>5
<1>6. QED
  BY <1>2, <1>3, <1>4, <1>5

(* The steps that leave Checkout alone leave the truth as it is.           *)
LEMMA HonestStays ==
  ASSUME UNCHANGED vars
  PROVE  /\ ConfirmedSeatIDs' = ConfirmedSeatIDs
         /\ \A u : Honest(u)' = Honest(u)
  BY DEF vars, ConfirmedSeatIDs, Honest

LEMMA HonestCastStep ==
  ASSUME FeedTypeOK, AllHonest, CastStep
  PROVE  AllHonest'
<1>0. UNCHANGED <<vars, rows, reply, view>>
  BY DEF CastStep, Say, Deliver, Unsubscribed, Resubscribe, pageVars, fetchVars,
     connVars
<1>1. PICK i \in Instances : \/ \E u \in owed : Say(i, u)
                             \/ Deliver(i) \/ Unsubscribed(i) \/ Resubscribe(i)
  BY DEF CastStep
<1>2. /\ \A u \in owed' : Honest(u)
      /\ \A j \in Instances, n \in Nat : n \in 1..Len(relay'[j]) => Honest(relay'[j][n])
      /\ \A p \in Pages, n \in Nat : n \in 1..Len(wire'[p]) => Honest(wire'[p][n])
  <2>1. CASE \E u \in owed : Say(i, u)
    <3>1. PICK u \in owed : Say(i, u)
      BY <2>1
    <3>2. u \in Updates /\ Honest(u) /\ Cast(i, u)
      BY <3>1 DEF Say, FeedTypeOK, AllHonest
    <3>3. ASSUME NEW j \in Instances, NEW n \in 1..Len(relay'[j])
          PROVE  Honest(relay'[j][n])
      <4>1. relay[j] \in Seq(Updates)
        BY DEF FeedTypeOK
      <4>2. relay'[j] = relay[j] \/ relay'[j] = Append(relay[j], u)
        BY <3>1 DEF Say, FeedTypeOK
      <4>3. relay'[j][n] = u \/ (n \in 1..Len(relay[j]) /\ relay'[j][n] = relay[j][n])
        BY <4>1, <4>2
      <4>4. QED
        BY <3>2, <4>3 DEF AllHonest
    <3>4. owed' \subseteq owed
      BY <3>1 DEF Say
    <3>5. QED
      BY <3>2, <3>3, <3>4, HonestCast DEF AllHonest
  <2>2. CASE Deliver(i)
    <3>1. /\ relay[i] \in Seq(Updates) /\ relay[i] # <<>>
          /\ relay' = [relay EXCEPT ![i] = Tail(@)]
          /\ Cast(i, Head(relay[i])) /\ owed' = owed
      BY <2>2 DEF Deliver, FeedTypeOK
    <3>2. Head(relay[i]) \in Updates /\ Head(relay[i]) = relay[i][1] /\ 1 \in 1..Len(relay[i])
      BY <3>1
    <3>3. Honest(Head(relay[i]))
      BY <3>2 DEF AllHonest
    <3>4. ASSUME NEW j \in Instances, NEW n \in 1..Len(relay'[j])
          PROVE  Honest(relay'[j][n])
      <4>1. CASE j # i
        BY <3>1, <4>1 DEF AllHonest, FeedTypeOK
      <4>2. CASE j = i
        <5>1. relay'[j] = Tail(relay[i])
          BY <3>1, <4>2 DEF FeedTypeOK
        <5>2. n + 1 \in 1..Len(relay[i]) /\ relay'[j][n] = relay[i][n + 1]
          BY <3>1, <5>1, TailFacts
        <5>3. QED
          BY <5>2 DEF AllHonest
      <4>3. QED
        BY <4>1, <4>2
    <3>5. QED
      BY <3>1, <3>2, <3>3, <3>4, HonestCast DEF AllHonest
  <2>3. CASE Unsubscribed(i)
    BY <2>3 DEF Unsubscribed, FeedTypeOK, AllHonest, connVars
  <2>4. CASE Resubscribe(i)
    BY <2>4 DEF Resubscribe, AllHonest, connVars
  <2>5. QED
    BY <1>1, <2>1, <2>2, <2>3, <2>4
<1>3. QED
  BY <1>0, <1>2, HonestStays DEF AllHonest, SoldShownIsSold

LEMMA HonestPage ==
  ASSUME FeedTypeOK, AllHonest, NEW p \in Pages, PageStep(p)
  PROVE  AllHonest'
<1> USE DEF castVars, connVars, pageVars, fetchVars, Ask
<1>0. UNCHANGED <<vars, owed, relay, rows, reply>>
  BY DEF PageStep, Connect, Greet, Break, Closed, HearUpdate, HearHello, Refresh
<1>1. wire[p] \in Seq(Updates \cup {Hello})
  BY DEF FeedTypeOK
<1>2. ASSUME NEW q \in Pages, NEW n \in 1..Len(wire'[q])
      PROVE  Honest(wire'[q][n])
  <2>1. CASE wire'[q] = wire[q]
    BY <2>1, <1>2 DEF AllHonest, FeedTypeOK
  <2>2. CASE wire'[q] # wire[q]
    <3>1. /\ q = p
          /\ \/ wire'[p] = <<>>
             \/ wire'[p] = Append(wire[p], Hello)
             \/ wire'[p] = Tail(wire[p]) /\ wire[p] # <<>>
      BY <2>2 DEF PageStep, Connect, Greet, Break, Closed, HearUpdate, HearHello,
         Refresh, Arrives, FeedTypeOK
    <3>2. CASE wire'[p] = <<>>
      BY <1>2, <3>1, <3>2
    <3>3. CASE wire'[p] = Append(wire[p], Hello)
      <4>1. wire'[p][n] = Hello \/ (n \in 1..Len(wire[p]) /\ wire'[p][n] = wire[p][n])
        BY <1>1, <1>2, <3>1, <3>3
      <4>2. QED
        BY <3>1, <4>1 DEF AllHonest, Honest
    <3>4. CASE wire'[p] = Tail(wire[p]) /\ wire[p] # <<>>
      <4>1. n + 1 \in 1..Len(wire[p]) /\ wire'[p][n] = wire[p][n + 1]
        BY <1>1, <1>2, <3>1, <3>4, TailFacts
      <4>2. QED
        BY <3>1, <4>1 DEF AllHonest
    <3>5. QED
      BY <3>1, <3>2, <3>3, <3>4
  <2>3. QED
    BY <2>1, <2>2
<1>3. SoldShownIsSold'
  <2>1. CASE HearUpdate(p)
    <3>1. /\ wire[p] # <<>> /\ Head(wire[p]) # Hello
          /\ view' = [view EXCEPT ![p] = [s \in Seats |->
               IF s \in Head(wire[p]).seats /\ @[s] # "unknown"
               THEN Head(wire[p]).status ELSE @[s]]]
      BY <2>1 DEF HearUpdate, Arrives
    <3>2. Head(wire[p]) = wire[p][1] /\ 1 \in 1..Len(wire[p])
      BY <1>1, <3>1
    <3>3. Honest(Head(wire[p]))
      BY <3>2 DEF AllHonest
    <3>4. \A q \in Pages, s \in Seats :
            view'[q][s] = "confirmed" => \/ view[q][s] = "confirmed"
                                         \/ s \in Head(wire[p]).seats
                                            /\ Head(wire[p]).status = "confirmed"
      BY <3>1 DEF FeedTypeOK, Views
    <3>5. QED
      BY <1>0, <3>1, <3>3, <3>4, HonestStays DEF AllHonest, SoldShownIsSold, Honest
  <2>2. CASE view' = view
    BY <1>0, <2>2, HonestStays DEF AllHonest, SoldShownIsSold
  <2>3. QED
    BY <2>1, <2>2 DEF PageStep, Connect, Greet, Break, Closed, HearHello, Refresh
<1>4. QED
  BY <1>0, <1>2, <1>3, HonestStays DEF AllHonest

LEMMA HonestFetch ==
  ASSUME FeedTypeOK, AllHonest, NEW f \in Fetches, FetchStep(f)
  PROVE  AllHonest'
<1> USE DEF FeedTypeOK, AllHonest, SoldShownIsSold, castVars, connVars, pageVars
<1>0. UNCHANGED <<vars, owed, relay, wire>>
  BY DEF FetchStep, SeatsForEvent, HeldSeats, Draw, FetchFails
<1>1. CASE SeatsForEvent(f)
  BY <1>0, <1>1, HonestStays DEF SeatsForEvent
<1>2. CASE HeldSeats(f)
  <2>1. \E held : reply' = [reply EXCEPT ![f] = BuildSeatMap(rows[f], held)]
    BY <1>2 DEF HeldSeats
  <2>2. \A held, s : s \in Seats /\ BuildSeatMap(rows[f], held)[s] = "confirmed"
                       => s \in rows[f]
    BY DEF BuildSeatMap
  <2>3. \A g \in Fetches, s \in Seats :
          reply'[g][s] = "confirmed" => s \in ConfirmedSeatIDs
    BY <2>1, <2>2
  <2>4. rows' = [rows EXCEPT ![f] = {}] /\ view' = view
    BY <1>2 DEF HeldSeats
  <2>5. QED
    BY <1>0, <2>3, <2>4, HonestStays
<1>3. CASE Draw(f) \/ FetchFails(f)
  <2>1. /\ rows' = [rows EXCEPT ![f] = {}]
        /\ reply' = [reply EXCEPT ![f] = Unknown]
    BY <1>3 DEF Draw, FetchFails, FetchEnds
  <2>2. \A g \in Fetches, s \in Seats :
          reply'[g][s] = "confirmed" => s \in ConfirmedSeatIDs
    BY <2>1 DEF Unknown
  <2>3. view' = view \/ \E p \in Pages : view' = [view EXCEPT ![p] = reply[f]]
    BY <1>3 DEF Draw, FetchFails
  <2>4. \A p \in Pages, s \in Seats :
          view'[p][s] = "confirmed" => s \in ConfirmedSeatIDs
    BY <2>3
  <2>5. QED
    BY <1>0, <2>1, <2>2, <2>4, HonestStays
<1>4. QED
  BY <1>1, <1>2, <1>3 DEF FetchStep

(* No page draws a seat as sold that was not: an announcement of a sale    *)
(* follows its commit, a snapshot reads only committed rows, and a sale is *)
(* never taken back while either is on its way.                            *)
THEOREM SoldSeatsAreSold == FeedSpec => []SoldShownIsSold
<1>1. FeedInit => AllHonest
  BY DEF FeedInit, AllHonest, SoldShownIsSold, Unknown
<1>2. KInv /\ FeedTypeOK /\ AllHonest /\ [FeedNext]_allVars => AllHonest'
  <2> SUFFICES ASSUME KInv, FeedTypeOK, AllHonest, [FeedNext]_allVars
               PROVE  AllHonest'
    OBVIOUS
  <2>1. CASE UNCHANGED allVars
    BY <2>1, HonestStays DEF allVars, feedVars, AllHonest, SoldShownIsSold
  <2>2. CASE FeedNext
    BY <2>2, HonestChange, HonestCastStep, HonestPage, HonestFetch DEF FeedNext
  <2>3. QED
    BY <2>1, <2>2
<1>3. AllHonest => SoldShownIsSold
  BY DEF AllHonest
<1>4. QED
  BY <1>1, <1>2, <1>3, FeedTyped, BooksHold, PTL DEF FeedSpec

-----------------------------------------------------------------------------
(* Nothing slips                                                           *)

(* A request that will read, or has read, the tables since the last        *)
(* broadcast that its page was not sent.                                   *)
Fresh(f) == \/ fetch[f] = "asked"
            \/ fetch[f] \in {"rows", "reply"} /\ ~behind[f]

(* Only greeted pages are live, and one that lacks a broadcast waits for a *)
(* snapshot that makes up for it.                                          *)
SlipInv ==
  \A p \in Pages :
    /\ live[p] => sock[p] \in {"open", "closing"}
    /\ live[p] /\ sock[p] = "open" /\ gap[p] /\ ~broken[p]
         => \E f \in Fetches : of[f] = p /\ Fresh(f)

LEMMA SlipCast ==
  ASSUME FeedTypeOK, SlipInv, NEW i, NEW u, Cast(i, u),
         UNCHANGED <<live, broken, fetch, of>>
  PROVE  SlipInv'
<1> SUFFICES ASSUME NEW p \in Pages
             PROVE  /\ live[p] => sock'[p] \in {"open", "closing"}
                    /\ live[p] /\ sock'[p] = "open" /\ gap'[p] /\ ~broken[p]
                         => \E f \in Fetches : of[f] = p /\ Fresh(f)'
  BY DEF SlipInv
<1>1. live[p] => sock[p] \in {"open", "closing"}
  BY DEF SlipInv
<1>2. \/ sock'[p] = sock[p]
      \/ sock[p] = "open" /\ sock'[p] = "closing"
      \/ sock[p] = "added" /\ sock'[p] = "hung"
  BY DEF Cast, FeedTypeOK, InRoom, Room
<1>3. ASSUME sock'[p] = "open"
      PROVE  /\ sock[p] = "open" /\ gap'[p] = gap[p]
             /\ \A f \in Fetches : of[f] = p => behind'[f] = behind[f]
  BY <1>3 DEF Cast, FeedTypeOK, InRoom, Room
<1>4. QED
  BY <1>1, <1>2, <1>3 DEF SlipInv, Fresh

(* A request that starts serves its page, and disturbs no other.           *)
LEMMA SlipAsk ==
  ASSUME FeedTypeOK, SlipInv, NEW q \in Pages, NEW f \in Fetches, Ask(q, f),
         UNCHANGED <<sock, gap, broken, behind>>,
         \/ UNCHANGED live
         \/ /\ live' = [live EXCEPT ![q] = TRUE]
            /\ sock[q] \in {"open", "closing"}
  PROVE  SlipInv'
<1>1. fetch'[f] = "asked" /\ of'[f] = q
  BY DEF FeedTypeOK, Ask
<1>2. \A g \in Fetches : Fresh(g) => /\ of'[g] = of[g] /\ Fresh(g)'
                                     /\ g # f
  BY DEF FeedTypeOK, Ask, Fresh
<1>3. \A p \in Pages \ {q} : live'[p] = live[p]
  BY DEF FeedTypeOK
<1>4. live'[q] => sock[q] \in {"open", "closing"}
  BY DEF FeedTypeOK, SlipInv
<1>5. ASSUME NEW p \in Pages
      PROVE  /\ live'[p] => sock'[p] \in {"open", "closing"}
             /\ live'[p] /\ sock'[p] = "open" /\ gap'[p] /\ ~broken'[p]
                  => \E g \in Fetches : of'[g] = p /\ Fresh(g)'
  <2>1. CASE p = q
    BY <1>1, <1>4, <2>1 DEF Fresh
  <2>2. CASE p # q
    BY <1>2, <1>3, <2>2 DEF SlipInv
  <2>3. QED
    BY <2>1, <2>2
<1>6. QED
  BY <1>5 DEF SlipInv

LEMMA SlipPage ==
  ASSUME FeedTypeOK, SlipInv, NEW q \in Pages, PageStep(q)
  PROVE  SlipInv'
<1> USE DEF FeedTypeOK, SlipInv, Fresh, castVars, connVars, pageVars, fetchVars,
        Ask
<1>1. CASE \E i \in Instances : Connect(q, i)
  BY <1>1 DEF Connect
<1>2. CASE Greet(q)
  BY <1>2 DEF Greet
<1>3. CASE Break(q)
  <2>1. /\ ~live'[q]
        /\ \A p \in Pages \ {q} : /\ live'[p] = live[p] /\ sock'[p] = sock[p]
                                  /\ gap'[p] = gap[p]
    BY <1>3 DEF Break
  <2>2. \A f \in Fetches : of[f] # q => behind'[f] = behind[f]
    BY <1>3 DEF Break
  <2>3. UNCHANGED <<broken, fetch, of>>
    BY <1>3 DEF Break
  <2>4. ASSUME NEW p \in Pages
        PROVE  /\ live'[p] => sock'[p] \in {"open", "closing"}
               /\ live'[p] /\ sock'[p] = "open" /\ gap'[p] /\ ~broken[p]
                    => \E f \in Fetches : of[f] = p /\ Fresh(f)'
    <3>1. CASE p = q
      BY <2>1, <3>1
    <3>2. CASE p # q
      <4>1. \A f \in Fetches : of[f] = p /\ Fresh(f) => Fresh(f)'
        BY <2>2, <2>3, <3>2
      <4>2. live'[p] = live[p] /\ sock'[p] = sock[p] /\ gap'[p] = gap[p]
        BY <2>1, <3>2
      <4>3. QED
        BY ONLY SlipInv, <4>1, <4>2, p \in Pages DEF SlipInv
    <3>3. QED
      BY <3>1, <3>2
  <2>5. QED
    BY <2>3, <2>4
<1>4. CASE Closed(q)
  BY <1>4 DEF Closed
<1>5. CASE HearUpdate(q)
  <2>1. UNCHANGED <<live, sock, gap, broken, fetch, of, behind>>
    BY <1>5 DEF HearUpdate
  <2>2. QED
    BY <2>1
<1>6. CASE \E f \in Fetches : HearHello(q, f)
  <2>1. PICK f \in Fetches : HearHello(q, f)
    BY <1>6
  <2>2. Ask(q, f) /\ UNCHANGED <<sock, gap, broken, behind>>
    BY <2>1 DEF HearHello
  <2>3. live' = [live EXCEPT ![q] = TRUE] /\ sock[q] \in {"open", "closing"}
    BY <2>1 DEF HearHello, Arrives
  <2>4. QED
    BY <2>2, <2>3, SlipAsk
<1>7. CASE \E f \in Fetches : Refresh(q, f)
  <2>1. PICK f \in Fetches : Refresh(q, f)
    BY <1>7
  <2>2. Ask(q, f) /\ UNCHANGED <<sock, gap, broken, behind, live>>
    BY <2>1 DEF Refresh
  <2>3. QED
    BY <2>2, SlipAsk
<1>8. QED
  BY <1>1, <1>2, <1>3, <1>4, <1>5, <1>6, <1>7 DEF PageStep

LEMMA SlipFetch ==
  ASSUME FeedTypeOK, SlipInv, NEW g \in Fetches, FetchStep(g)
  PROVE  SlipInv'
<1> USE DEF FeedTypeOK, SlipInv, Fresh, castVars, connVars, pageVars
<1>1. CASE SeatsForEvent(g)
  BY <1>1 DEF SeatsForEvent
<1>2. CASE HeldSeats(g)
  BY <1>2 DEF HeldSeats
<1>3. CASE Draw(g)
  BY <1>3 DEF Draw, FetchEnds
<1>4. CASE FetchFails(g)
  BY <1>4 DEF FetchFails, FetchEnds
<1>5. QED
  BY <1>1, <1>2, <1>3, <1>4 DEF FetchStep

(* A live page that waits for no snapshot has drawn one that was read      *)
(* after every broadcast it was not sent, for any number of pages,         *)
(* instances and overlapping requests.                                     *)
THEOREM NothingIsMissed == FeedSpec => []NothingSlips
<1>1. FeedInit => SlipInv
  BY DEF FeedInit, SlipInv
<1>2. FeedTypeOK /\ SlipInv /\ [FeedNext]_allVars => SlipInv'
  <2> SUFFICES ASSUME FeedTypeOK, SlipInv, [FeedNext]_allVars
               PROVE  SlipInv'
    OBVIOUS
  <2>1. CASE UNCHANGED allVars
    BY <2>1 DEF allVars, feedVars, SlipInv, Fresh
  <2>2. CASE Change
    BY <2>2 DEF Change, connVars, pageVars, fetchVars, SlipInv, Fresh
  <2>3. CASE CastStep
    <3>1. \/ \E i \in Instances : \E u : Cast(i, u)
          \/ UNCHANGED <<sock, gap, behind>>
      BY <2>3 DEF CastStep, Say, Deliver, Unsubscribed, Resubscribe, connVars
    <3>2. UNCHANGED <<live, broken, fetch, of>>
      BY <2>3 DEF CastStep, Say, Deliver, Unsubscribed, Resubscribe, pageVars,
         fetchVars
    <3>3. CASE UNCHANGED <<sock, gap, behind>>
      BY <3>2, <3>3 DEF SlipInv, Fresh
    <3>4. QED
      BY <3>1, <3>2, <3>3, SlipCast
  <2>4. QED
    BY <2>1, <2>2, <2>3, SlipPage, SlipFetch DEF FeedNext
<1>3. SlipInv => NothingSlips
  BY DEF SlipInv, NothingSlips
<1>4. QED
  BY <1>1, <1>2, <1>3, FeedTyped, PTL DEF FeedSpec
=============================================================================
