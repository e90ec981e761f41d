-------------------------------- MODULE Hub --------------------------------
(***************************************************************************)
(* One process's websocket hub, for one event's room: Hub.Serve, the two   *)
(* pumps of each client, BroadcastSeatUpdates and Close, all concurrent.   *)
(*                                                                         *)
(* h.mu is a read-write lock: a broadcast sends under the read lock, one   *)
(* client per step, and add, remove and Close change the room under the    *)
(* write lock, each in one step that waits for the sends to end.  Closing  *)
(* a send channel happens after the lock is given up, in a later step.     *)
(* What messages say is left out: a buffer is the number of them in it.    *)
(***************************************************************************)
EXTENDS Naturals, FiniteSets

CONSTANTS
  Clients,  \* connections; each is served once
  Casts,    \* calls of BroadcastSeatUpdates
  None,     \* no client
  Buffer    \* sendBuffer

ASSUME HubAssumption ==
  /\ None \notin Clients /\ IsFiniteSet(Clients)
  /\ Buffer \in Nat \ {0}

VARIABLES
  rooms,   \* clients in the room
  chan,    \* chan[c]   : the send channel, "open" or "closed"
  queued,  \* queued[c] : messages in its buffer
  serve,   \* serve[c]  : how far Serve has come
  writer,  \* writer[c] : writePump
  reader,  \* reader[c] : readPump
  conn,    \* conn[c]   : "up", "down" once this side closed it
  peer,    \* peer[c]   : FALSE once the browser is gone
  cast,    \* cast[m]   : step of a broadcast
  todo,    \* todo[m]   : clients it has still to send to
  slow,    \* slow[m]   : laggards it has still to remove
  cur,     \* cur[m]    : the laggard it removed and has not closed
  closer,  \* step of Close; hub.closed is set from its first one
  drop,    \* clients Close has still to close
  wg,      \* the wait group's counter
  missed   \* history: clients that some broadcast passed over

clientVars == <<serve, writer, reader, conn, peer>>
castVars   == <<cast, todo, slow, cur>>
closeVars  == <<closer, drop>>
vars == <<rooms, chan, queued, serve, writer, reader, conn, peer,
          cast, todo, slow, cur, closer, drop, wg, missed>>

TypeOK ==
  /\ rooms \in SUBSET Clients
  /\ chan \in [Clients -> {"open", "closed"}]
  /\ queued \in [Clients -> 0..Buffer]
  /\ serve \in [Clients -> {"new", "added", "greeted", "served", "declined",
                            "panicked"}]
  /\ writer \in [Clients -> {"none", "run", "gone"}]
  /\ reader \in [Clients -> {"none", "run", "leaving", "closing", "gone"}]
  /\ conn \in [Clients -> {"up", "down"}]
  /\ peer \in [Clients -> BOOLEAN]
  /\ cast \in [Casts -> {"idle", "sending", "dropping", "done"}]
  /\ todo \in [Casts -> SUBSET Clients]
  /\ slow \in [Casts -> SUBSET Clients]
  /\ cur \in [Casts -> Clients \cup {None}]
  /\ closer \in {"idle", "closing", "done"}
  /\ drop \in SUBSET Clients
  /\ wg \in Nat
  /\ missed \in SUBSET Clients

Init ==
  /\ rooms = {}
  /\ chan = [c \in Clients |-> "open"]
  /\ queued = [c \in Clients |-> 0]
  /\ serve = [c \in Clients |-> "new"]
  /\ writer = [c \in Clients |-> "none"]
  /\ reader = [c \in Clients |-> "none"]
  /\ conn = [c \in Clients |-> "up"]
  /\ peer = [c \in Clients |-> TRUE]
  /\ cast = [m \in Casts |-> "idle"]
  /\ todo = [m \in Casts |-> {}]
  /\ slow = [m \in Casts |-> {}]
  /\ cur = [m \in Casts |-> None]
  /\ closer = "idle"
  /\ drop = {}
  /\ wg = 0
  /\ missed = {}

-----------------------------------------------------------------------------
(* Mutant of WriteLock: the room is guarded by nothing.                    *)
NoLock == TRUE

(* The write lock of h.mu can be had: no broadcast holds the read lock.    *)
WriteLock == \A m \in Casts : cast[m] # "sending"

(* closeOnce: closing a closed channel again is nothing.                   *)
Closed(c) == chan' = [chan EXCEPT ![c] = "closed"]

-----------------------------------------------------------------------------
(* Serve                                                                   *)

(* add, or the refusal of a hub that is closed.                            *)
Add(c) ==
  /\ serve[c] = "new" /\ WriteLock
  /\ \/ /\ closer = "idle"
        /\ rooms' = rooms \cup {c}
        /\ serve' = [serve EXCEPT ![c] = "added"]
        /\ UNCHANGED conn
     \/ /\ closer # "idle"
        /\ serve' = [serve EXCEPT ![c] = "declined"]
        /\ conn' = [conn EXCEPT ![c] = "down"]
        /\ UNCHANGED rooms
  /\ UNCHANGED <<chan, queued, writer, reader, peer, castVars, closeVars, wg,
                 missed>>

(* The greeting goes out without the lock: by now the client may have been *)
(* dropped and its channel closed, and the send panics.  A full buffer     *)
(* makes Serve skip the greeting.                                          *)
Greet(c) ==
  /\ serve[c] = "added"
  /\ \/ /\ chan[c] = "closed"
        /\ serve' = [serve EXCEPT ![c] = "panicked"]
        /\ UNCHANGED queued
     \/ /\ chan[c] = "open"
        /\ serve' = [serve EXCEPT ![c] = "greeted"]
        /\ queued' = IF queued[c] < Buffer
                     THEN [queued EXCEPT ![c] = @ + 1] ELSE queued
  /\ UNCHANGED <<rooms, chan, writer, reader, conn, peer, castVars, closeVars,
                 wg, missed>>

(* Mutant of Spawn: only one of the pumps is counted.                      *)
SpawnUncounted(c) ==
  /\ serve[c] = "greeted"
  /\ serve' = [serve EXCEPT ![c] = "served"]
  /\ wg' = wg + 1
  /\ writer' = [writer EXCEPT ![c] = "run"]
  /\ reader' = [reader EXCEPT ![c] = "run"]
  /\ UNCHANGED <<rooms, chan, queued, conn, peer, castVars, closeVars, missed>>

(* wg.Add(2), and the pumps start.                                         *)
Spawn(c) ==
  /\ serve[c] = "greeted"
  /\ serve' = [serve EXCEPT ![c] = "served"]
  /\ wg' = wg + 2
  /\ writer' = [writer EXCEPT ![c] = "run"]
  /\ reader' = [reader EXCEPT ![c] = "run"]
  /\ UNCHANGED <<rooms, chan, queued, conn, peer, castVars, closeVars, missed>>

-----------------------------------------------------------------------------
(* The pumps                                                               *)

(* The browser goes away, politely or not.                                 *)
PeerLeaves(c) ==
  /\ peer[c]
  /\ peer' = [peer EXCEPT ![c] = FALSE]
  /\ UNCHANGED <<rooms, chan, queued, serve, writer, reader, conn, castVars,
                 closeVars, wg, missed>>

(* writePump takes a message out of the buffer, closed or not.             *)
Write(c) ==
  /\ writer[c] = "run" /\ queued[c] > 0
  /\ queued' = [queued EXCEPT ![c] = @ - 1]
  /\ UNCHANGED <<rooms, chan, clientVars, castVars, closeVars, wg, missed>>

(* Mutant of WriterStop: the connection is left to the reader to close.    *)
WriterStopQuietly(c) ==
  /\ writer[c] = "run"
  /\ (chan[c] = "closed" /\ queued[c] = 0) \/ conn[c] = "down" \/ ~peer[c]
  /\ writer' = [writer EXCEPT ![c] = "gone"]
  /\ wg' = wg - 1
  /\ UNCHANGED <<rooms, chan, queued, serve, reader, conn, peer, castVars,
                 closeVars, missed>>

(* It returns when the channel is closed and empty or a write or a ping    *)
(* fails, and closes the connection.                                       *)
WriterStop(c) ==
  /\ writer[c] = "run"
  /\ (chan[c] = "closed" /\ queued[c] = 0) \/ conn[c] = "down" \/ ~peer[c]
  /\ writer' = [writer EXCEPT ![c] = "gone"]
  /\ conn' = [conn EXCEPT ![c] = "down"]
  /\ wg' = wg - 1
  /\ UNCHANGED <<rooms, chan, queued, serve, reader, peer, castVars, closeVars,
                 missed>>

(* Mutant of ReaderStop: its wait group entry is never given back.         *)
ReaderStopUncounted(c) ==
  /\ reader[c] = "run"
  /\ conn[c] = "down" \/ ~peer[c]
  /\ reader' = [reader EXCEPT ![c] = "leaving"]
  /\ UNCHANGED <<rooms, chan, queued, serve, writer, conn, peer, castVars,
                 closeVars, wg, missed>>

(* readPump returns when a read fails or no pong came in time; its wait    *)
(* group entry goes first...                                               *)
ReaderStop(c) ==
  /\ reader[c] = "run"
  /\ conn[c] = "down" \/ ~peer[c]
  /\ reader' = [reader EXCEPT ![c] = "leaving"]
  /\ wg' = wg - 1
  /\ UNCHANGED <<rooms, chan, queued, serve, writer, conn, peer, castVars,
                 closeVars, missed>>

(* Mutant of ReaderRemoves: the reader leaves the room to others.          *)
ReaderRemovesNot(c) ==
  /\ reader[c] = "leaving"
  /\ reader' = [reader EXCEPT ![c] = "gone"]
  /\ UNCHANGED <<rooms, chan, queued, serve, writer, conn, peer, castVars,
                 closeVars, wg, missed>>

(* ... then remove takes the client out of the room...                     *)
ReaderRemoves(c) ==
  /\ reader[c] = "leaving" /\ WriteLock
  /\ rooms' = rooms \ {c}
  /\ reader' = [reader EXCEPT ![c] = "closing"]
  /\ UNCHANGED <<chan, queued, serve, writer, conn, peer, castVars, closeVars,
                 wg, missed>>

(* ... and closes its channel, and the connection.                         *)
ReaderCloses(c) ==
  /\ reader[c] = "closing"
  /\ Closed(c)
  /\ conn' = [conn EXCEPT ![c] = "down"]
  /\ reader' = [reader EXCEPT ![c] = "gone"]
  /\ UNCHANGED <<rooms, queued, serve, writer, peer, castVars, closeVars, wg,
                 missed>>

-----------------------------------------------------------------------------
(* BroadcastSeatUpdates                                                    *)

(* The read lock is taken.                                                 *)
CastBegin(m) ==
  /\ cast[m] = "idle"
  /\ cast' = [cast EXCEPT ![m] = "sending"]
  /\ todo' = [todo EXCEPT ![m] = rooms]
  /\ UNCHANGED <<rooms, chan, queued, clientVars, slow, cur, closeVars, wg,
                 missed>>

(* Mutant of CastSend: a full buffer is passed over.                       *)
CastSendSkips(m, c) ==
  /\ cast[m] = "sending" /\ c \in todo[m]
  /\ todo' = [todo EXCEPT ![m] = @ \ {c}]
  /\ IF queued[c] < Buffer
     THEN queued' = [queued EXCEPT ![c] = @ + 1] /\ UNCHANGED missed
     ELSE missed' = missed \cup {c} /\ UNCHANGED queued
  /\ UNCHANGED <<rooms, chan, clientVars, cast, slow, cur, closeVars, wg>>

(* A client with room in its buffer gets the message; one without is noted *)
(* as slow and does not.                                                   *)
CastSend(m, c) ==
  /\ cast[m] = "sending" /\ c \in todo[m]
  /\ todo' = [todo EXCEPT ![m] = @ \ {c}]
  /\ IF queued[c] < Buffer
     THEN queued' = [queued EXCEPT ![c] = @ + 1] /\ UNCHANGED <<slow, missed>>
     ELSE /\ slow' = [slow EXCEPT ![m] = @ \cup {c}]
          /\ missed' = missed \cup {c}
          /\ UNCHANGED queued
  /\ UNCHANGED <<rooms, chan, clientVars, cast, cur, closeVars, wg>>

(* The read lock is given up.                                              *)
CastUnlock(m) ==
  /\ cast[m] = "sending" /\ todo[m] = {}
  /\ cast' = [cast EXCEPT ![m] = "dropping"]
  /\ UNCHANGED <<rooms, chan, queued, clientVars, todo, slow, cur, closeVars,
                 wg, missed>>

(* remove of one laggard, in its two steps.                                *)
CastRemoves(m, c) ==
  /\ cast[m] = "dropping" /\ cur[m] = None /\ WriteLock
  /\ c \in slow[m]
  /\ rooms' = rooms \ {c}
  /\ slow' = [slow EXCEPT ![m] = @ \ {c}]
  /\ cur' = [cur EXCEPT ![m] = c]
  /\ UNCHANGED <<chan, queued, clientVars, cast, todo, closeVars, wg, missed>>

CastCloses(m) ==
  /\ cast[m] = "dropping" /\ cur[m] # None
  /\ Closed(cur[m])
  /\ cur' = [cur EXCEPT ![m] = None]
  /\ UNCHANGED <<rooms, queued, clientVars, cast, todo, slow, closeVars, wg,
                 missed>>

CastEnds(m) ==
  /\ cast[m] = "dropping" /\ cur[m] = None /\ slow[m] = {}
  /\ cast' = [cast EXCEPT ![m] = "done"]
  /\ UNCHANGED <<rooms, chan, queued, clientVars, todo, slow, cur, closeVars,
                 wg, missed>>

-----------------------------------------------------------------------------
(* Close                                                                   *)

(* closed is set and the room is taken over, under the write lock.         *)
CloseBegin ==
  /\ closer = "idle" /\ WriteLock
  /\ closer' = "closing"
  /\ drop' = rooms
  /\ rooms' = {}
  /\ UNCHANGED <<chan, queued, clientVars, castVars, wg, missed>>

CloseOne(c) ==
  /\ closer = "closing" /\ c \in drop
  /\ Closed(c)
  /\ drop' = drop \ {c}
  /\ UNCHANGED <<rooms, queued, clientVars, castVars, closer, wg, missed>>

(* wg.Wait returns when the counter is zero.                               *)
CloseEnd ==
  /\ closer = "closing" /\ drop = {} /\ wg = 0
  /\ closer' = "done"
  /\ UNCHANGED <<rooms, chan, queued, clientVars, castVars, drop, wg, missed>>

-----------------------------------------------------------------------------
ServeStep(c) == Add(c) \/ Greet(c) \/ Spawn(c)

WriterStep(c) == Write(c) \/ WriterStop(c)

ReaderStep(c) == ReaderStop(c) \/ ReaderRemoves(c) \/ ReaderCloses(c)

CastStep(m) ==
  \/ CastBegin(m) \/ CastUnlock(m) \/ CastCloses(m) \/ CastEnds(m)
  \/ \E c \in Clients : CastSend(m, c) \/ CastRemoves(m, c)

CloseStep == CloseBegin \/ CloseEnd \/ \E c \in Clients : CloseOne(c)

Next ==
  \/ \E c \in Clients :
       ServeStep(c) \/ PeerLeaves(c) \/ WriterStep(c) \/ ReaderStep(c)
  \/ \E m \in Casts : CastStep(m)
  \/ CloseStep

Spec == Init /\ [][Next]_vars

-----------------------------------------------------------------------------
(* A broadcast never sends on a closed channel, which would panic in the   *)
(* middle of a hold, a payment or a sweep: whoever drops a client, be it   *)
(* another broadcast, its reader or Close, takes it out of the room before *)
(* closing its channel, and not under a broadcast that is sending.         *)
BroadcastNeverPanics ==
  \A m \in Casts, c \in Clients :
    cast[m] = "sending" /\ c \in todo[m] => chan[c] = "open"

(* A client that misses an update loses its connection, and so fetches the *)
(* seat map again when it reconnects: a full buffer may not leave a        *)
(* subscriber connected with a hole in its stream.                         *)
MissedMeansDropped ==
  \A c \in Clients : c \in missed ~> c \notin rooms /\ chan[c] = "closed"

(* A client whose channel is closed is torn down completely: its buffer is *)
(* flushed, both pumps end and the connection is closed.                   *)
ClosedMeansGone ==
  \A c \in Clients :
    chan[c] = "closed" /\ serve[c] = "served"
      ~> writer[c] = "gone" /\ reader[c] = "gone" /\ conn[c] = "down"

(* Nor does a browser that vanished stay in the room.                      *)
DeadPeersLeave ==
  \A c \in Clients :
    ~peer[c] /\ serve[c] = "served" ~> c \notin rooms /\ chan[c] = "closed"

(* Close comes back, whatever clients and broadcasts are doing.            *)
CloseReturns == closer = "closing" ~> closer = "done"
=============================================================================
