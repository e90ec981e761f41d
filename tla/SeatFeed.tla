------------------------------ MODULE SeatFeed ------------------------------
(***************************************************************************)
(* The live seat map of one event: Checkout's requests change locks and    *)
(* rows and then announce what they changed; an announcement goes to the   *)
(* hub of the process it is made in, and through Redis to the hubs of the  *)
(* others; a page that shows the event applies the updates it is sent, and *)
(* the snapshots it fetches, in the order in which they come.              *)
(*                                                                         *)
(* A broadcast reaches the clients of a hub in one step (Hub has it client *)
(* by client), and the read model of the locks is the locks (SeatLocks has *)
(* it with clocks).  held_by_me and the selection are left out.            *)
(***************************************************************************)
EXTENDS Checkout, Sequences

CONSTANTS
  Instances,  \* processes of the backend
  Pages,      \* browser pages that show the event
  Fetches,    \* seat map requests in flight, over all pages
  Hello,      \* the hub's greeting, TypeConnected
  Buffer,     \* sendBuffer
  MaxMishaps, \* bound on the faults of one behaviour
  FeedFaults  \* a subset of FeedFaultKinds

(* "break" a page's connection breaks, or its instance dies; "relay" the   *)
(* subscription of an instance drops, or a publish fails; "holds" the read *)
(* of the locks fails; "fetch" a page cannot fetch the seat map.           *)
FeedFaultKinds == {"break", "relay", "holds", "fetch"}

SeatStatuses == {"available", "held", "confirmed"}

(* An announcement and the request that makes it.                          *)
Updates == [by : {"hold", "pay", "rel", "sweep"} \X (Bookings \cup Attempts \cup Releases),
            seats : SUBSET Seats, status : SeatStatuses]

ASSUME FeedAssumption ==
  /\ Hello \notin Updates
  /\ None \notin Instances \cup Pages
  /\ Buffer \in Nat \ {0}
  /\ MaxMishaps \in Nat
  /\ FeedFaults \subseteq FeedFaultKinds

VARIABLES
  \* announcements
  owed,    \* changes that are made and not announced yet
  sub,     \* sub[i]    : instance i is subscribed to Redis
  relay,   \* relay[i]  : updates of other instances it has still to deliver
  \* connections
  sock,    \* sock[p]   : the connection of page p
  home,    \* home[p]   : the instance it leads to
  wire,    \* wire[p]   : messages on their way to p
  mishaps, \* faults so far, for the bound
  \* pages
  live,    \* live[p]   : p was greeted over its present connection
  view,    \* view[p]   : the status in which it draws each seat
  broken,  \* broken[p] : loadError is set, and nothing is drawn any more
  \* seat map requests
  fetch,   \* fetch[f]  : what has been read so far
  of,      \* of[f]     : the page that asked
  rows,    \* rows[f]   : the seats SeatsForEvent found sold
  reply,   \* reply[f]  : the seat map built from them
  \* history
  gap,     \* gap[p]    : p was not sent some broadcast of a hub, and has not
           \*             applied a snapshot read after it
  behind   \* behind[f] : such a broadcast was made after f began to read

castVars  == <<owed, sub, relay>>
connVars  == <<sock, home, wire>>
pageVars  == <<live, view, broken>>
fetchVars == <<fetch, of, rows, reply>>
feedVars  == <<owed, sub, relay, sock, home, wire, mishaps, live, view, broken,
               fetch, of, rows, reply, gap, behind>>
allVars   == <<vars, feedVars>>


(* "added" the hub has the client and has not greeted it; "open" it is     *)
(* served; "closing" it was dropped, and its buffer is being flushed;      *)
(* "hung" it was dropped before it was greeted, and Serve panics.          *)
SockStates == {"down", "added", "open", "closing", "hung"}

Views == [Seats -> SeatStatuses \cup {"unknown"}]

FeedTypeOK ==
  /\ owed \in SUBSET Updates
  /\ sub \in [Instances -> BOOLEAN]
  /\ relay \in [Instances -> Seq(Updates)]
  /\ sock \in [Pages -> SockStates]
  /\ home \in [Pages -> Instances \cup {None}]
  /\ wire \in [Pages -> Seq(Updates \cup {Hello})]
  /\ mishaps \in 0..MaxMishaps
  /\ live \in [Pages -> BOOLEAN]
  /\ view \in [Pages -> Views]
  /\ broken \in [Pages -> BOOLEAN]
  /\ fetch \in [Fetches -> {"idle", "asked", "rows", "reply"}]
  /\ of \in [Fetches -> Pages \cup {None}]
  /\ rows \in [Fetches -> SUBSET Seats]
  /\ reply \in [Fetches -> Views]
  /\ gap \in [Pages -> BOOLEAN]
  /\ behind \in [Fetches -> BOOLEAN]
  /\ \A f \in Fetches : fetch[f] # "idle" => of[f] # None
  /\ \A p \in Pages : sock[p] # "down" => home[p] # None

Unknown == [s \in Seats |-> "unknown"]

FeedInit ==
  /\ Init
  /\ owed = {}
  /\ sub = [i \in Instances |-> TRUE]
  /\ relay = [i \in Instances |-> <<>>]
  /\ sock = [p \in Pages |-> "down"]
  /\ home = [p \in Pages |-> None]
  /\ wire = [p \in Pages |-> <<>>]
  /\ mishaps = 0
  /\ live = [p \in Pages |-> FALSE]
  /\ view = [p \in Pages |-> Unknown]
  /\ broken = [p \in Pages |-> FALSE]
  /\ fetch = [f \in Fetches |-> "idle"]
  /\ of = [f \in Fetches |-> None]
  /\ rows = [f \in Fetches |-> {}]
  /\ reply = [f \in Fetches |-> Unknown]
  /\ gap = [p \in Pages |-> TRUE]
  /\ behind = [f \in Fetches |-> FALSE]

Mishap(kind) ==
  /\ kind \in FeedFaults /\ mishaps < MaxMishaps
  /\ mishaps' = mishaps + 1

-----------------------------------------------------------------------------
(* What the requests announce                                              *)

Update(kind, id, seats, to) ==
  [by |-> <<kind, id>>, seats |-> seats, status |-> to]

(* CreateHold, once its booking is stored.                                 *)
HeldUpdates ==
  {Update("hold", b, want[b], "held") :
     b \in {c \in Bookings : hold[c] = "locked" /\ hold'[c] = "booked"}}

(* Mutant of SoldUpdates: announced as soon as the provider has the money. *)
ChargedUpdates ==
  {Update("pay", a, want[target[a]], "confirmed") :
     a \in {c \in Attempts : pay[c] = "charge" /\ pay'[c] = "begin"}}

(* confirm, once the sale is committed and the locks were given back, or   *)
(* could not be.                                                           *)
SoldUpdates ==
  {Update("pay", a, want[target[a]], "confirmed") :
     a \in {c \in Attempts : pay[c] = "unlock" /\ pay'[c] = "unslot"}}

(* sweepOnce, for every booking that ClaimExpired returned.                *)
SweptUpdates ==
  {Update("sweep", b, want[b], "available") :
     b \in {c \in Bookings : status[c] = "pending" /\ status'[c] = "expired"}}

(* ReleaseHold, whether or not MarkCancelled found the booking pending.    *)
FreedUpdates(R) == {Update("rel", r, want[relOf[r]], "available") : r \in R}

Cancelling == {r \in Releases : rel[r] = "cancel" /\ rel'[r] = "idle"}

(* A release whose announcement is still under way is not over.            *)
Announcing(r) == \E u \in owed : u.by = <<"rel", r>>

(* A step of Checkout.  A cancel that failed, or that died, says nothing.  *)
Change ==
  /\ Next
  /\ \A r \in Releases : Announcing(r) => rel'[r] = rel[r]
  /\ \E R \in SUBSET Cancelling :
       /\ R = Cancelling \/ Faults \cap {"error", "crash"} # {}
       /\ owed' = owed \cup HeldUpdates \cup SoldUpdates \cup SweptUpdates
                       \cup FreedUpdates(R)
  /\ UNCHANGED <<sub, relay, connVars, pageVars, fetchVars, mishaps, gap, behind>>

-----------------------------------------------------------------------------
(* The hubs and the relay                                                  *)

InRoom(p) == sock[p] \in {"added", "open"}

Room(i) == {p \in Pages : home[p] = i /\ InRoom(p)}

(* Mutant of Cast: a client with a full buffer is passed over.             *)
CastSkipping(i, u) ==
  LET reached == {p \in Room(i) : Len(wire[p]) < Buffer}
      missing == {p \in Pages : p \in Room(i) \ reached \/ ~InRoom(p)}
  IN
  /\ wire' = [p \in Pages |-> IF p \in reached THEN Append(wire[p], u) ELSE wire[p]]
  /\ gap' = [p \in Pages |-> gap[p] \/ p \in missing]
  /\ behind' = [f \in Fetches |->
                  behind[f] \/ (of[f] \in missing /\ fetch[f] \in {"rows", "reply"})]
  /\ UNCHANGED <<sock, home>>

(* Hub.BroadcastSeatUpdates: u goes to every client with room for it; one  *)
(* without is dropped.  Pages that no hub has are sent nothing.            *)
Cast(i, u) ==
  LET dropped == {p \in Room(i) : Len(wire[p]) >= Buffer}
      missing == {p \in Pages : p \in dropped \/ ~InRoom(p)}
  IN
  /\ wire' = [p \in Pages |->
                IF p \in Room(i) \ dropped THEN Append(wire[p], u)
                ELSE IF p \in dropped /\ sock[p] = "added" THEN <<>> ELSE wire[p]]
  /\ sock' = [p \in Pages |->
                IF p \notin dropped THEN sock[p]
                ELSE IF sock[p] = "open" THEN "closing" ELSE "hung"]
  /\ gap' = [p \in Pages |-> gap[p] \/ p \in missing]
  /\ behind' = [f \in Fetches |->
                  behind[f] \/ (of[f] \in missing /\ fetch[f] \in {"rows", "reply"})]
  /\ UNCHANGED home

(* PubSub.BroadcastSeatUpdates on instance i: its own clients, and then,   *)
(* through Redis, the instances that are subscribed now.  A publish that   *)
(* fails is logged.  (Redis hands the update to i too, which skips what it *)
(* published itself.)  The publish is part of the step: announcements wait *)
(* in owed for any time, so no page depends on where it falls.             *)
Say(i, u) ==
  /\ u \in owed
  /\ owed' = owed \ {u}
  /\ Cast(i, u)
  /\ \/ relay' = [j \in Instances |->
                    IF sub[j] /\ j # i THEN Append(relay[j], u) ELSE relay[j]]
        /\ UNCHANGED mishaps
     \/ Mishap("relay") /\ UNCHANGED relay
  /\ UNCHANGED <<vars, sub, pageVars, fetchVars>>

(* consume and deliver: an update of another instance reaches the hub.     *)
Deliver(i) ==
  /\ relay[i] # <<>>
  /\ relay' = [relay EXCEPT ![i] = Tail(@)]
  /\ Cast(i, Head(relay[i]))
  /\ UNCHANGED <<vars, owed, sub, mishaps, pageVars, fetchVars>>

(* A subscription drops with what it has not delivered; Run backs off and  *)
(* subscribes again.                                                       *)
Unsubscribed(i) ==
  /\ sub[i]
  /\ Mishap("relay")
  /\ sub' = [sub EXCEPT ![i] = FALSE]
  /\ relay' = [relay EXCEPT ![i] = <<>>]
  /\ UNCHANGED <<vars, owed, connVars, pageVars, fetchVars, gap, behind>>

Resubscribe(i) ==
  /\ ~sub[i]
  /\ sub' = [sub EXCEPT ![i] = TRUE]
  /\ UNCHANGED <<vars, owed, relay, connVars, mishaps, pageVars, fetchVars, gap,
                 behind>>

-----------------------------------------------------------------------------
(* Connections                                                             *)

(* The page opens a socket and Hub.Serve adds the client.                  *)
Connect(p, i) ==
  /\ sock[p] = "down"
  /\ sock' = [sock EXCEPT ![p] = "added"]
  /\ home' = [home EXCEPT ![p] = i]
  /\ UNCHANGED <<vars, castVars, wire, mishaps, pageVars, fetchVars, gap, behind>>

(* Serve greets it, unless broadcasts have filled the buffer meanwhile.    *)
Greet(p) ==
  /\ sock[p] = "added"
  /\ sock' = [sock EXCEPT ![p] = "open"]
  /\ wire' = IF Len(wire[p]) < Buffer
             THEN [wire EXCEPT ![p] = Append(@, Hello)] ELSE wire
  /\ UNCHANGED <<vars, castVars, home, mishaps, pageVars, fetchVars, gap, behind>>

(* The connection breaks under the page, with what it was carrying.        *)
Break(p) ==
  /\ InRoom(p)
  /\ Mishap("break")
  /\ sock' = [sock EXCEPT ![p] = "down"]
  /\ home' = [home EXCEPT ![p] = None]
  /\ wire' = [wire EXCEPT ![p] = <<>>]
  /\ live' = [live EXCEPT ![p] = FALSE]
  /\ gap' = [gap EXCEPT ![p] = TRUE]
  /\ behind' = [f \in Fetches |->
                  behind[f] \/ (of[f] = p /\ fetch[f] \in {"rows", "reply"})]
  /\ UNCHANGED <<vars, castVars, view, broken, fetchVars>>

(* The connection of a dropped client is closed when its buffer is empty.  *)
Closed(p) ==
  /\ sock[p] = "closing" /\ wire[p] = <<>>
  /\ sock' = [sock EXCEPT ![p] = "down"]
  /\ home' = [home EXCEPT ![p] = None]
  /\ live' = [live EXCEPT ![p] = FALSE]
  /\ UNCHANGED <<vars, castVars, wire, mishaps, view, broken, fetchVars,
                 gap, behind>>

-----------------------------------------------------------------------------
(* The page                                                                *)

(* refreshSeatMap sends a request for the seat map.                        *)
Ask(p, f) ==
  /\ fetch[f] = "idle"
  /\ fetch' = [fetch EXCEPT ![f] = "asked"]
  /\ of' = [of EXCEPT ![f] = p]
  /\ UNCHANGED <<rows, reply>>

(* Messages reach the page in order, as long as the pumps run.             *)
Arrives(p) == sock[p] \in {"open", "closing"} /\ wire[p] # <<>>

(* Mutant of HearHello: the snapshot is fetched only if there is none yet. *)
HearHelloOnce(p, f) ==
  /\ Arrives(p) /\ Head(wire[p]) = Hello
  /\ wire' = [wire EXCEPT ![p] = Tail(@)]
  /\ live' = [live EXCEPT ![p] = TRUE]
  /\ IF view[p] = Unknown THEN Ask(p, f) ELSE UNCHANGED fetchVars
  /\ UNCHANGED <<vars, castVars, sock, home, mishaps, view, broken, gap, behind>>

(* The greeting: the page is live, and onReady fetches a snapshot.         *)
HearHello(p, f) ==
  /\ Arrives(p) /\ Head(wire[p]) = Hello
  /\ wire' = [wire EXCEPT ![p] = Tail(@)]
  /\ live' = [live EXCEPT ![p] = TRUE]
  /\ Ask(p, f)
  /\ UNCHANGED <<vars, castVars, sock, home, mishaps, view, broken, gap, behind>>

(* handleSeatUpdates: the seats it has are redrawn, whatever they were.    *)
HearUpdate(p) ==
  /\ Arrives(p) /\ Head(wire[p]) # Hello
  /\ wire' = [wire EXCEPT ![p] = Tail(@)]
  /\ view' = [view EXCEPT ![p] = [s \in Seats |->
                IF s \in Head(wire[p]).seats /\ @[s] # "unknown"
                THEN Head(wire[p]).status ELSE @[s]]]
  /\ UNCHANGED <<vars, castVars, sock, home, mishaps, live, broken, fetchVars,
                 gap, behind>>

(* The page fetches the seat map for a reason of its own: it placed, lost  *)
(* or gave back a hold.  The last free request is left to a greeting.      *)
Refresh(p, f) ==
  /\ \E g \in Fetches \ {f} : fetch[g] = "idle"
  /\ Ask(p, f)
  /\ UNCHANGED <<vars, castVars, connVars, mishaps, pageVars, gap, behind>>

-----------------------------------------------------------------------------
(* CatalogService.SeatMap                                                  *)

(* SeatsForEvent: what Postgres has sold.                                  *)
SeatsForEvent(f) ==
  /\ fetch[f] = "asked"
  /\ fetch' = [fetch EXCEPT ![f] = "rows"]
  /\ rows' = [rows EXCEPT ![f] = ConfirmedSeatIDs]
  /\ behind' = [behind EXCEPT ![f] = FALSE]
  /\ UNCHANGED <<vars, castVars, connVars, mishaps, pageVars, of, reply, gap>>

(* buildSeatMap: a sale outranks a lock that outlives it.                  *)
BuildSeatMap(sale, held) ==
  [s \in Seats |-> IF s \in sale THEN "confirmed"
                   ELSE IF s \in held THEN "held" ELSE "available"]

LockedSeats == {s \in Seats : lock[s] # None}

(* HeldSeats: then what Redis has locked.  Without it the map is built as  *)
(* if nothing were.                                                        *)
HeldSeats(f) ==
  /\ fetch[f] = "rows"
  /\ fetch' = [fetch EXCEPT ![f] = "reply"]
  /\ rows' = [rows EXCEPT ![f] = {}]
  /\ \/ /\ reply' = [reply EXCEPT ![f] = BuildSeatMap(rows[f], LockedSeats)]
        /\ UNCHANGED mishaps
     \/ /\ Mishap("holds")
        /\ reply' = [reply EXCEPT ![f] = BuildSeatMap(rows[f], {})]
  /\ UNCHANGED <<vars, castVars, connVars, pageVars, of, gap, behind>>

(* Mutant of FetchEnds: the request forgets its page and goes on.          *)
FetchForgets(f) ==
  /\ fetch' = [fetch EXCEPT ![f] = "asked"]
  /\ of' = [of EXCEPT ![f] = None]
  /\ UNCHANGED <<rows, reply, behind>>

(* The request is over, and what was known of it is forgotten.             *)
FetchEnds(f) ==
  /\ fetch' = [fetch EXCEPT ![f] = "idle"]
  /\ of' = [of EXCEPT ![f] = None]
  /\ rows' = [rows EXCEPT ![f] = {}]
  /\ reply' = [reply EXCEPT ![f] = Unknown]
  /\ behind' = [behind EXCEPT ![f] = FALSE]

(* The page draws the snapshot over whatever it has.                       *)
Draw(f) ==
  /\ fetch[f] = "reply"
  /\ view' = [view EXCEPT ![of[f]] = reply[f]]
  /\ gap' = [gap EXCEPT ![of[f]] = @ /\ behind[f]]
  /\ FetchEnds(f)
  /\ UNCHANGED <<vars, castVars, connVars, mishaps, live, broken>>

(* Any failure makes an ApiError; the page shows it, and nothing else,     *)
(* until it is loaded anew.                                                *)
FetchFails(f) ==
  /\ fetch[f] # "idle"
  /\ Mishap("fetch")
  /\ broken' = [broken EXCEPT ![of[f]] = TRUE]
  /\ FetchEnds(f)
  /\ UNCHANGED <<vars, castVars, connVars, live, view, gap>>

-----------------------------------------------------------------------------
CastStep ==
  \E i \in Instances : \/ \E u \in owed : Say(i, u)
                       \/ Deliver(i) \/ Unsubscribed(i) \/ Resubscribe(i)

PageStep(p) ==
  \/ \E i \in Instances : Connect(p, i)
  \/ Greet(p) \/ Break(p) \/ Closed(p) \/ HearUpdate(p)
  \/ \E f \in Fetches : HearHello(p, f) \/ Refresh(p, f)

FetchStep(f) == SeatsForEvent(f) \/ HeldSeats(f) \/ Draw(f) \/ FetchFails(f)

FeedNext ==
  \/ Change
  \/ CastStep
  \/ \E p \in Pages : PageStep(p)
  \/ \E f \in Fetches : FetchStep(f)

FeedSpec == FeedInit /\ [][FeedNext]_allVars

(* Timers reconnect, a handler and the pumps run, messages in transit      *)
(* arrive and requests are answered.  Nothing is asked of Checkout.        *)
FeedFairness ==
  /\ \A p \in Pages : /\ WF_allVars(\E i \in Instances : Connect(p, i))
                      /\ WF_allVars(Greet(p))
                      /\ WF_allVars(Closed(p))
                      /\ WF_allVars(HearUpdate(p) \/ \E f \in Fetches : HearHello(p, f))
  /\ \A f \in Fetches : WF_allVars(FetchStep(f))

FairFeedSpec == FeedSpec /\ FeedFairness

-----------------------------------------------------------------------------
(* "SeatConfirmed means the seat has been paid for and is gone for good"   *)
(* (models.go): however announcements, snapshots and reconnections mix, no *)
(* page draws a seat as sold that was not.  Nobody can select such a seat  *)
(* again, and no later update would have to take it back.                  *)
SoldShownIsSold ==
  \A p \in Pages, s \in Seats :
    view[p][s] = "confirmed" => s \in ConfirmedSeatIDs

(* "No update can slip through the gap between reading and subscribing"    *)
(* (page.tsx): a page that is live and waits for no snapshot has, for      *)
(* every broadcast that its stream lacks, drawn a snapshot read later.     *)
(* A dropped client must not stay connected, a client must be in the room  *)
(* before it is greeted, and every greeting must make the page fetch.      *)
NothingSlips ==
  \A p \in Pages :
    /\ live[p] /\ sock[p] = "open" /\ ~broken[p]
    /\ \A f \in Fetches : of[f] # p
    => ~gap[p]

(* Nothing is under way: no request, no announcement, and the locks are    *)
(* those of the pending bookings.  (A lock that lapses alone is announced  *)
(* by nobody: a page that read it then shows a held seat from then on.)    *)
Settled ==
  /\ \A b \in Bookings : /\ hold[b] \in {"idle", "booked", "failed"}
                         /\ status[b] = "pending" => HoldsAll(b)
  /\ \A s \in Seats : lock[s] # None => status[lock[s]] = "pending"
  /\ \A a \in Attempts : pay[a] \in {"idle", "done"}
  /\ \A r \in Releases : rel[r] = "idle"
  /\ owed = {}
  /\ \A i \in Instances : relay[i] = <<>>

ShowsTruth(p) == view[p] = BuildSeatMap(ConfirmedSeatIDs, LockedSeats)

(* A page that lost its connection, and whatever was announced meanwhile,  *)
(* comes to show the truth when things settle, without being loaded anew:  *)
(* it reconnects, is greeted, and fetches.  Not if the fetch failed, or    *)
(* its greeting was lost to a closed or full buffer.                       *)
LostPagesHeal ==
  \A p \in Pages :
    Settled /\ sock[p] = "down"
      ~> \/ ShowsTruth(p) \/ ~Settled \/ broken[p]
         \/ sock[p] = "hung"
         \/ sock[p] = "open" /\ ~live[p] /\ wire[p] = <<>>

(* useRealtimeSeats.ts: "keeps a seat map in step"; page.tsx: "no update   *)
(* can slip through the gap between reading and subscribing".  A page that *)
(* is live, with nothing on its way to it, shows every seat as it is.      *)
LiveViewIsTrue ==
  \A p \in Pages :
    /\ live[p] /\ sock[p] = "open" /\ wire[p] = <<>>
    /\ \A f \in Fetches : of[f] # p
    /\ Settled
    => ShowsTruth(p)
=============================================================================
