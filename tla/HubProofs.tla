----------------------------- MODULE HubProofs -----------------------------
(***************************************************************************)
(* No broadcast ever sends on a closed channel, for any number of clients, *)
(* broadcasts and any buffer.  The argument is the hub's lock discipline:  *)
(* under the read lock the clients still to be sent to are in the room,    *)
(* and a client in the room is on nobody's list of channels to close.      *)
(* And the wait group counts the pumps that run.                           *)
(***************************************************************************)
EXTENDS Hub, FiniteSetTheorems, TLAPS

(* The types the argument needs; counters are left out.                    *)
RoomTypes ==
  /\ rooms \in SUBSET Clients
  /\ chan \in [Clients -> {"open", "closed"}]
  /\ serve \in [Clients -> {"new", "added", "greeted", "served", "declined",
                            "panicked"}]
  /\ reader \in [Clients -> {"none", "run", "leaving", "closing", "gone"}]
  /\ cast \in [Casts -> {"idle", "sending", "dropping", "done"}]
  /\ todo \in [Casts -> SUBSET Clients]
  /\ slow \in [Casts -> SUBSET Clients]
  /\ cur \in [Casts -> Clients \cup {None}]
  /\ drop \in SUBSET Clients

(* Nobody is about to close c's channel.                                   *)
NotClosing(c) ==
  /\ chan[c] = "open" /\ c \notin drop /\ reader[c] # "closing"
  /\ \A m \in Casts : cur[m] # c

RoomInv ==
  /\ RoomTypes
  /\ \A m \in Casts : cast[m] = "sending" => todo[m] \subseteq rooms
  /\ \A c \in rooms : serve[c] # "new" /\ NotClosing(c)
  /\ \A c \in Clients : serve[c] = "new" =>
       /\ NotClosing(c) /\ reader[c] = "none"
       /\ \A m \in Casts : c \notin slow[m]

LEMMA InitRoom == Init => RoomInv
<1>. SUFFICES ASSUME Init PROVE RoomInv
  OBVIOUS
<1>1. RoomTypes
  BY DEF Init, RoomTypes
<1>2. \A c \in Clients : NotClosing(c)
  BY HubAssumption DEF Init, NotClosing
<1>. QED
  BY <1>1, <1>2 DEF RoomInv, Init

LEMMA ServeRoom ==
  ASSUME RoomInv, NEW c \in Clients, ServeStep(c)
  PROVE  RoomInv'
<1>1. RoomTypes'
  BY DEF RoomInv, RoomTypes, ServeStep, Add, Greet, Spawn, castVars, closeVars
<1>2. CASE Add(c)
  BY <1>1, <1>2 DEF RoomInv, RoomTypes, NotClosing, Add, WriteLock, castVars, closeVars
<1>3. CASE Greet(c)
  BY <1>1, <1>3 DEF RoomInv, RoomTypes, NotClosing, Greet, castVars, closeVars
<1>4. CASE Spawn(c)
  BY <1>1, <1>4 DEF RoomInv, RoomTypes, NotClosing, Spawn, castVars, closeVars
<1>. QED
  BY <1>2, <1>3, <1>4 DEF ServeStep

LEMMA PumpRoom ==
  ASSUME RoomInv, NEW c \in Clients,
         PeerLeaves(c) \/ WriterStep(c) \/ ReaderStep(c)
  PROVE  RoomInv'
<1>1. CASE PeerLeaves(c) \/ WriterStep(c)
  <2>1. UNCHANGED <<rooms, chan, serve, reader, cast, todo, slow, cur, drop>>
    BY <1>1 DEF PeerLeaves, WriterStep, Write, WriterStop, clientVars,
                castVars, closeVars
  <2>. QED
    BY <2>1 DEF RoomInv, RoomTypes, NotClosing
<1>2. CASE ReaderStop(c)
  BY <1>2 DEF RoomInv, RoomTypes, NotClosing, ReaderStop, castVars, closeVars
<1>3. CASE ReaderRemoves(c)
  BY <1>3 DEF RoomInv, RoomTypes, NotClosing, ReaderRemoves, WriteLock,
              castVars, closeVars
<1>4. CASE ReaderCloses(c)
  BY <1>4 DEF RoomInv, RoomTypes, NotClosing, ReaderCloses, Closed, castVars,
              closeVars
<1>. QED
  BY <1>1, <1>2, <1>3, <1>4 DEF ReaderStep

LEMMA CastRoom ==
  ASSUME RoomInv, NEW m \in Casts, CastStep(m)
  PROVE  RoomInv'
<1>1. CASE CastBegin(m)
  BY <1>1 DEF RoomInv, RoomTypes, NotClosing, CastBegin, clientVars, closeVars
<1>2. ASSUME NEW c \in Clients, CastSend(m, c) PROVE RoomInv'
  BY <1>2 DEF RoomInv, RoomTypes, NotClosing, CastSend, clientVars, closeVars
<1>3. CASE CastUnlock(m)
  BY <1>3 DEF RoomInv, RoomTypes, NotClosing, CastUnlock, clientVars, closeVars
<1>4. ASSUME NEW c \in Clients, CastRemoves(m, c) PROVE RoomInv'
  BY <1>4 DEF RoomInv, RoomTypes, NotClosing, CastRemoves, WriteLock,
              clientVars, closeVars
<1>5. CASE CastCloses(m)
  BY <1>5, HubAssumption
  DEF RoomInv, RoomTypes, NotClosing, CastCloses, Closed, clientVars, closeVars
<1>6. CASE CastEnds(m)
  BY <1>6 DEF RoomInv, RoomTypes, NotClosing, CastEnds, clientVars, closeVars
<1>. QED
  BY <1>1, <1>2, <1>3, <1>4, <1>5, <1>6 DEF CastStep

LEMMA CloseRoom ==
  ASSUME RoomInv, CloseStep
  PROVE  RoomInv'
<1>1. CASE CloseBegin
  BY <1>1 DEF RoomInv, RoomTypes, NotClosing, CloseBegin, WriteLock,
              clientVars, castVars
<1>2. CASE CloseEnd
  BY <1>2 DEF RoomInv, RoomTypes, NotClosing, CloseEnd, clientVars, castVars
<1>3. ASSUME NEW c \in Clients, CloseOne(c) PROVE RoomInv'
  BY <1>3 DEF RoomInv, RoomTypes, NotClosing, CloseOne, Closed, clientVars,
              castVars
<1>. QED
  BY <1>1, <1>2, <1>3 DEF CloseStep

(* The lock discipline holds throughout.                                   *)
THEOREM DisciplineHolds == Spec => []RoomInv
<1>1. RoomInv /\ [Next]_vars => RoomInv'
  <2>. SUFFICES ASSUME RoomInv, [Next]_vars PROVE RoomInv'
    OBVIOUS
  <2>1. ASSUME NEW c \in Clients, ServeStep(c) PROVE RoomInv'
    BY <2>1, ServeRoom
  <2>2. ASSUME NEW c \in Clients,
               PeerLeaves(c) \/ WriterStep(c) \/ ReaderStep(c)
        PROVE RoomInv'
    BY <2>2, PumpRoom
  <2>3. ASSUME NEW m \in Casts, CastStep(m) PROVE RoomInv'
    BY <2>3, CastRoom
  <2>4. CASE CloseStep
    BY <2>4, CloseRoom
  <2>5. CASE UNCHANGED vars
    BY <2>5 DEF vars, RoomInv, RoomTypes, NotClosing
  <2>. QED
    BY <2>1, <2>2, <2>3, <2>4, <2>5 DEF Next
<1>. QED
  BY <1>1, InitRoom, PTL DEF Spec

(* No broadcast, and so no hold, payment or sweep, panics in the hub.      *)
THEOREM BroadcastsAreSafe == Spec => []BroadcastNeverPanics
<1>1. RoomInv => BroadcastNeverPanics
  BY DEF RoomInv, NotClosing, BroadcastNeverPanics
<1>. QED
  BY <1>1, DisciplineHolds, PTL

-----------------------------------------------------------------------------
(* Types                                                                   *)

Writing == {c \in Clients : writer[c] = "run"}
Reading == {c \in Clients : reader[c] = "run"}

(* The wait group counts the pumps that run, and only served clients have  *)
(* any: without this its counter could go below zero.                      *)
HubInv ==
  /\ TypeOK
  /\ wg = Cardinality(Writing) + Cardinality(Reading)
  /\ \A c \in Clients :
       serve[c] # "served" => writer[c] = "none" /\ reader[c] = "none"

LEMMA InitHub == Init => HubInv
<1>. SUFFICES ASSUME Init PROVE HubInv
  OBVIOUS
<1>1. TypeOK
  BY HubAssumption DEF Init, TypeOK
<1>2. Writing = {} /\ Reading = {}
  BY DEF Init, Writing, Reading
<1>. QED
  BY <1>1, <1>2, FS_EmptySet DEF Init, HubInv

LEMMA PumpCounts ==
  ASSUME TypeOK
  PROVE  /\ IsFiniteSet(Writing) /\ Cardinality(Writing) \in Nat
         /\ IsFiniteSet(Reading) /\ Cardinality(Reading) \in Nat
<1>1. Writing \subseteq Clients /\ Reading \subseteq Clients
  BY DEF Writing, Reading
<1>. QED
  BY <1>1, FS_Subset, FS_CardinalityType, HubAssumption

(* A step that starts and stops no pump.                                   *)
LEMMA SamePumps ==
  ASSUME HubInv, TypeOK', UNCHANGED wg,
         \A c \in Clients :
           /\ writer'[c] = "run" <=> writer[c] = "run"
           /\ reader'[c] = "run" <=> reader[c] = "run"
           /\ serve'[c] # "served" =>
                writer'[c] = "none" /\ reader'[c] = "none"
  PROVE  HubInv'
<1>1. Writing' = Writing /\ Reading' = Reading
  BY DEF Writing, Reading
<1>. QED
  BY <1>1 DEF HubInv

LEMMA ServeHub ==
  ASSUME HubInv, NEW c \in Clients, ServeStep(c)
  PROVE  HubInv'
<1>. USE DEF castVars, closeVars
<1>1. CASE Add(c)
  <2>1. TypeOK'
    BY <1>1 DEF HubInv, TypeOK, Add
  <2>. QED
    BY <1>1, <2>1, SamePumps DEF HubInv, TypeOK, Add
<1>2. CASE Greet(c)
  <2>1. TypeOK'
    BY <1>2, HubAssumption DEF HubInv, TypeOK, Greet
  <2>. QED
    BY <1>2, <2>1, SamePumps DEF HubInv, TypeOK, Greet
<1>3. CASE Spawn(c)
  <2>1. c \notin Writing /\ c \notin Reading
    BY <1>3 DEF HubInv, Spawn, Writing, Reading
  <2>2. Writing' = Writing \cup {c} /\ Reading' = Reading \cup {c}
    BY <1>3 DEF HubInv, TypeOK, Spawn, Writing, Reading
  <2>3. wg' = Cardinality(Writing') + Cardinality(Reading') /\ wg' \in Nat
    <3>1. /\ Cardinality(Writing') = Cardinality(Writing) + 1
          /\ Cardinality(Reading') = Cardinality(Reading) + 1
      BY <2>1, <2>2, PumpCounts, FS_AddElement DEF HubInv
    <3>. QED
      BY <1>3, <3>1, PumpCounts DEF HubInv, Spawn
  <2>4. TypeOK'
    BY <1>3, <2>3 DEF HubInv, TypeOK, Spawn
  <2>. QED
    BY <1>3, <2>3, <2>4 DEF HubInv, TypeOK, Spawn
<1>. QED
  BY <1>1, <1>2, <1>3 DEF ServeStep

LEMMA PumpHub ==
  ASSUME HubInv, NEW c \in Clients,
         PeerLeaves(c) \/ WriterStep(c) \/ ReaderStep(c)
  PROVE  HubInv'
<1>. USE DEF castVars, closeVars, clientVars
<1>1. CASE PeerLeaves(c)
  <2>1. TypeOK'
    BY <1>1 DEF HubInv, TypeOK, PeerLeaves
  <2>. QED
    BY <1>1, <2>1, SamePumps DEF HubInv, PeerLeaves
<1>2. CASE Write(c)
  <2>1. TypeOK'
    BY <1>2, HubAssumption DEF HubInv, TypeOK, Write
  <2>. QED
    BY <1>2, <2>1, SamePumps DEF HubInv, Write
<1>3. CASE WriterStop(c)
  <2>1. c \in Writing /\ serve[c] = "served"
    BY <1>3 DEF HubInv, WriterStop, Writing
  <2>2. Writing' = Writing \ {c} /\ Reading' = Reading
    BY <1>3 DEF HubInv, TypeOK, WriterStop, Writing, Reading
  <2>3. wg' = Cardinality(Writing') + Cardinality(Reading') /\ wg' \in Nat
    <3>1. Cardinality(Writing') = Cardinality(Writing) - 1
      BY <2>1, <2>2, PumpCounts, FS_RemoveElement DEF HubInv
    <3>2. IsFiniteSet(Writing') /\ Cardinality(Writing') \in Nat
      BY <2>2, PumpCounts, FS_RemoveElement, FS_CardinalityType DEF HubInv
    <3>. QED
      BY <1>3, <2>2, <3>1, <3>2, PumpCounts DEF HubInv, WriterStop
  <2>4. TypeOK'
    BY <1>3, <2>3 DEF HubInv, TypeOK, WriterStop
  <2>. QED
    BY <1>3, <2>1, <2>3, <2>4 DEF HubInv, TypeOK, WriterStop
<1>4. CASE ReaderStop(c)
  <2>1. c \in Reading /\ serve[c] = "served"
    BY <1>4 DEF HubInv, ReaderStop, Reading
  <2>2. Reading' = Reading \ {c} /\ Writing' = Writing
    BY <1>4 DEF HubInv, TypeOK, ReaderStop, Writing, Reading
  <2>3. wg' = Cardinality(Writing') + Cardinality(Reading') /\ wg' \in Nat
    <3>1. Cardinality(Reading') = Cardinality(Reading) - 1
      BY <2>1, <2>2, PumpCounts, FS_RemoveElement DEF HubInv
    <3>2. IsFiniteSet(Reading') /\ Cardinality(Reading') \in Nat
      BY <2>2, PumpCounts, FS_RemoveElement, FS_CardinalityType DEF HubInv
    <3>. QED
      BY <1>4, <2>2, <3>1, <3>2, PumpCounts DEF HubInv, ReaderStop
  <2>4. TypeOK'
    BY <1>4, <2>3 DEF HubInv, TypeOK, ReaderStop
  <2>. QED
    BY <1>4, <2>1, <2>3, <2>4 DEF HubInv, TypeOK, ReaderStop
<1>5. CASE ReaderRemoves(c)
  <2>1. TypeOK'
    BY <1>5 DEF HubInv, TypeOK, ReaderRemoves
  <2>. QED
    BY <1>5, <2>1, SamePumps DEF HubInv, TypeOK, ReaderRemoves
<1>6. CASE ReaderCloses(c)
  <2>1. TypeOK'
    BY <1>6 DEF HubInv, TypeOK, ReaderCloses, Closed
  <2>. QED
    BY <1>6, <2>1, SamePumps DEF HubInv, TypeOK, ReaderCloses
<1>. QED
  BY <1>1, <1>2, <1>3, <1>4, <1>5, <1>6 DEF WriterStep, ReaderStep

LEMMA CastHub ==
  ASSUME HubInv, NEW m \in Casts, CastStep(m)
  PROVE  HubInv'
<1>. USE DEF clientVars, closeVars
<1>1. TypeOK'
  <2>1. CASE CastBegin(m) \/ CastUnlock(m) \/ CastCloses(m) \/ CastEnds(m)
    BY <2>1 DEF HubInv, TypeOK, CastBegin, CastUnlock, CastCloses, CastEnds,
       Closed
  <2>2. CASE \E c \in Clients : CastSend(m, c)
    BY <2>2, HubAssumption DEF HubInv, TypeOK, CastSend
  <2>3. CASE \E c \in Clients : CastRemoves(m, c)
    BY <2>3 DEF HubInv, TypeOK, CastRemoves
  <2>. QED
    BY <2>1, <2>2, <2>3 DEF CastStep
<1>2. UNCHANGED <<serve, writer, reader, wg>>
  BY DEF CastStep, CastBegin, CastSend, CastUnlock, CastRemoves, CastCloses,
     CastEnds
<1>. QED
  BY <1>1, <1>2, SamePumps DEF HubInv

LEMMA CloseHub ==
  ASSUME HubInv, CloseStep
  PROVE  HubInv'
<1>. USE DEF clientVars, castVars
<1>1. TypeOK'
  BY DEF HubInv, TypeOK, CloseStep, CloseBegin, CloseOne, CloseEnd, Closed
<1>2. UNCHANGED <<serve, writer, reader, wg>>
  BY DEF CloseStep, CloseBegin, CloseOne, CloseEnd
<1>. QED
  BY <1>1, <1>2, SamePumps DEF HubInv

(* The hub's state stays well typed; in particular its wait group never    *)
(* panics for having been left by more pumps than entered it.              *)
THEOREM HubTyped == Spec => []TypeOK
<1>1. HubInv /\ [Next]_vars => HubInv'
  <2>. SUFFICES ASSUME HubInv, [Next]_vars PROVE HubInv'
    OBVIOUS
  <2>1. CASE UNCHANGED vars
    <3>1. TypeOK'
      BY <2>1 DEF vars, HubInv, TypeOK
    <3>. QED
      BY <2>1, <3>1, SamePumps DEF vars, HubInv
  <2>. QED
    BY <2>1, ServeHub, PumpHub, CastHub, CloseHub DEF Next
<1>2. HubInv => TypeOK
  BY DEF HubInv
<1>. QED
  BY <1>1, <1>2, InitHub, PTL DEF Spec
=============================================================================
