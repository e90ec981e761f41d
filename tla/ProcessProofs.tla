--------------------------- MODULE ProcessProofs ---------------------------
(***************************************************************************)
(* A clean stop announces every change that a query reported, and the hub  *)
(* is as safe inside a process, up to its exit, as it is by itself.        *)
(***************************************************************************)
EXTENDS Process, HubProofs

(* What is left once Shutdown, workers.Wait and rdb.Close have returned.   *)
StopInv ==
  /\ job \in [Casts -> {"idle", "query", "changed", "done", "cut", "lost"}]
  /\ sweeper = "gone" => \A s \in Sweeps : ~Busy(s)
  /\ outcome = "clean" =>
       /\ main \in {"hub", "workers", "redis", "pool", "exited"}
       /\ \A r \in Requests : ~Busy(r)
       /\ main \in {"redis", "pool", "exited"} => sweeper = "gone"
       /\ \A m \in Casts : job[m] # "lost"
  /\ main \in {"serving", "draining"} => \A m \in Casts : job[m] # "lost"

LEMMA ProcessCasts == Requests \subseteq Casts /\ Sweeps \subseteq Casts
  BY ProcessAssumption

LEMMA StopJob ==
  ASSUME StopInv, NEW m \in Casts, JobStep(m)
  PROVE  StopInv'
<1>. USE ProcessAssumption DEF StopInv, Busy, Goes, mainVars, workerVars
<1>1. CASE m \in Requests /\ Serve(m)
  BY <1>1 DEF Serve
<1>2. CASE m \in Sweeps /\ SweepBegins(m)
  BY <1>2 DEF SweepBegins
<1>3. CASE QueryEnds(m)
  BY <1>3 DEF QueryEnds
<1>4. CASE Publish(m)
  <2>1. /\ job' = [job EXCEPT ![m] = IF main = "pool" THEN "lost" ELSE "done"]
        /\ job[m] = "changed"
    BY <1>4 DEF Publish
  <2>2. UNCHANGED <<main, outcome, sweeper>>
    BY <1>4 DEF Publish, workerVars
  <2>3. outcome = "clean" /\ main = "pool" => FALSE
    BY <2>1
  <2>. QED
    BY <2>1, <2>2, <2>3
<1>. QED
  BY <1>1, <1>2, <1>3, <1>4 DEF JobStep

LEMMA StopMain ==
  ASSUME StopInv,
         SweeperStops \/ RelayStops \/ Signal \/ ListenFails \/ MainStep
  PROVE  StopInv'
<1>. USE DEF StopInv, Busy, MainGoes, mainVars, workerVars, procVars
<1>1. CASE SweeperStops \/ RelayStops
  BY <1>1 DEF SweeperStops, RelayStops
<1>2. CASE Signal
  BY <1>2 DEF Signal
<1>3. CASE ListenFails
  BY <1>3 DEF ListenFails
<1>4. CASE Drained \/ GraceEnds
  BY <1>4 DEF Drained, GraceEnds
<1>5. CASE HubCloses
  BY <1>5 DEF HubCloses
<1>6. CASE HubClosed
  BY <1>6 DEF HubClosed
<1>7. CASE WorkersDone \/ RedisCloses
  BY <1>7 DEF WorkersDone, RedisCloses
<1>8. CASE Exit
  BY <1>8 DEF Exit
<1>. QED
  BY <1>1, <1>2, <1>3, <1>4, <1>5, <1>6, <1>7, <1>8 DEF MainStep

(* A process that stops cleanly has offered Redis every change that the    *)
(* query of a request or of a sweep reported, however many there are and   *)
(* whatever the hub is doing; a change whose query failed is not among     *)
(* them.                                                                   *)
THEOREM ChangesAreTold == ProcSpec => []CleanStopTellsAll
<1>1. ProcInit => StopInv
  BY DEF ProcInit, StopInv
<1>2. StopInv /\ [ProcNext]_allVars => StopInv'
  <2>. SUFFICES ASSUME StopInv, [ProcNext]_allVars PROVE StopInv'
    OBVIOUS
  <2>1. CASE UNCHANGED allVars \/ HubStep
    BY <2>1 DEF allVars, procVars, HubStep, StopInv, Busy
  <2>. QED
    BY <2>1, StopJob, StopMain DEF ProcNext
<1>3. StopInv => CleanStopTellsAll
  BY ProcessAssumption DEF StopInv, CleanStopTellsAll, Busy
<1>. QED
  BY <1>1, <1>2, <1>3, PTL DEF ProcSpec

-----------------------------------------------------------------------------
(* The hub inside the process                                              *)

RestTypeOK ==
  /\ main \in {"serving", "draining", "hub", "workers", "redis", "pool",
               "exited"}
  /\ outcome \in {"none", "clean", "forced", "failed"}
  /\ asked \in BOOLEAN
  /\ job \in [Casts -> {"idle", "query", "changed", "done", "cut", "lost"}]
  /\ sweeper \in {"run", "gone"}
  /\ relay \in {"run", "gone"}

(* While the process is alive its hub is as Hub has it; then it is gone.   *)
HubInside ==
  /\ TypeOK
  /\ Alive => RoomInv /\ HubInv
  /\ ~Alive => \A m \in Casts : cast[m] = "done"

(* Steps that leave the hub alone.                                         *)
LEMMA HubUntouched ==
  ASSUME HubInside, UNCHANGED vars, Alive' <=> Alive
  PROVE  HubInside'
<1>1. TypeOK'
  BY DEF HubInside, TypeOK, vars
<1>2. RoomInv => RoomInv'
  BY DEF vars, RoomInv, RoomTypes, NotClosing
<1>3. HubInv => HubInv'
  BY <1>1, SamePumps DEF vars, HubInv
<1>4. UNCHANGED cast
  BY DEF vars
<1>. QED
  BY <1>1, <1>2, <1>3, <1>4 DEF HubInside

LEMMA HubInsideStep ==
  ASSUME HubInside, HubStep \/ HubCloses
  PROVE  HubInside'
<1>1. Alive /\ UNCHANGED procVars
  BY DEF HubStep, HubCloses, Alive
<1>2. RoomInv /\ HubInv
  BY <1>1 DEF HubInside
<1>3. RoomInv'
  BY <1>2, ServeRoom, PumpRoom, CastRoom, CloseRoom
  DEF HubStep, Broadcasts, HubCloses
<1>4. HubInv'
  BY <1>2, ServeHub, PumpHub, CastHub, CloseHub
  DEF HubStep, Broadcasts, HubCloses
<1>5. Alive'
  BY <1>1 DEF Alive, procVars
<1>. QED
  BY <1>3, <1>4, <1>5 DEF HubInside, HubInv

LEMMA HubInsideKept ==
  ASSUME HubInside, [ProcNext]_allVars
  PROVE  HubInside'
<1>1. CASE HubStep \/ HubCloses
  BY <1>1, HubInsideStep
<1>2. CASE Exit
  <2>1. TypeOK'
    BY <1>2, HubAssumption DEF Exit, HubInside, TypeOK
  <2>. QED
    <3>1. ~Alive' /\ cast' = [m \in Casts |-> "done"]
      BY <1>2 DEF Exit, Alive, MainGoes
    <3>. QED
      BY <2>1, <3>1 DEF HubInside
<1>3. ASSUME NEW m \in Casts, JobStep(m)
      PROVE  UNCHANGED vars /\ (Alive' <=> Alive)
  BY <1>3 DEF JobStep, Serve, SweepBegins, QueryEnds, Publish, mainVars, Alive
<1>4. CASE SweeperStops \/ RelayStops \/ Signal \/ ListenFails
  <2>. UNCHANGED vars /\ (Alive' <=> Alive)
    BY <1>4 DEF SweeperStops, RelayStops, Signal, ListenFails, MainGoes,
       mainVars, Alive
  <2>. QED
    BY HubUntouched
<1>5. CASE Drained \/ GraceEnds \/ HubClosed \/ WorkersDone \/ RedisCloses
  <2>. UNCHANGED vars /\ (Alive' <=> Alive)
    BY <1>5 DEF Drained, GraceEnds, HubClosed, WorkersDone, RedisCloses,
       MainGoes, Alive
  <2>. QED
    BY HubUntouched
<1>6. CASE UNCHANGED allVars
  <2>. UNCHANGED vars /\ (Alive' <=> Alive)
    BY <1>6 DEF allVars, procVars, Alive
  <2>. QED
    BY HubUntouched
<1>. QED
  BY <1>1, <1>2, <1>3, <1>4, <1>5, <1>6, HubUntouched DEF ProcNext, MainStep

THEOREM HubHolds == ProcSpec => []HubInside
<1>1. ProcInit => HubInside
  BY InitRoom, InitHub DEF ProcInit, HubInside, HubInv, Alive
<1>. QED
  BY <1>1, HubInsideKept, PTL DEF ProcSpec

(* Inside a process too, whatever stops it, no broadcast panics.           *)
THEOREM NoJobPanics == ProcSpec => []BroadcastNeverPanics
<1>1. HubInside => BroadcastNeverPanics
  BY DEF HubInside, RoomInv, NotClosing, BroadcastNeverPanics
<1>. QED
  BY <1>1, HubHolds, PTL

(* The process's state stays well typed, with the hub's.                   *)
THEOREM ProcessTyped == ProcSpec => []ProcTypeOK
<1>1. ProcInit => RestTypeOK
  BY DEF ProcInit, RestTypeOK
<1>2. RestTypeOK /\ [ProcNext]_allVars => RestTypeOK'
  <2>. SUFFICES ASSUME RestTypeOK, [ProcNext]_allVars PROVE RestTypeOK'
    OBVIOUS
  <2>. USE DEF RestTypeOK, mainVars, workerVars, procVars, MainGoes, Goes
  <2>1. CASE UNCHANGED allVars \/ HubStep
    BY <2>1 DEF allVars, HubStep
  <2>2. ASSUME NEW m \in Casts, JobStep(m) PROVE RestTypeOK'
    BY <2>2 DEF JobStep, Serve, SweepBegins, QueryEnds, Publish
  <2>3. CASE SweeperStops \/ RelayStops \/ Signal \/ ListenFails
    BY <2>3 DEF SweeperStops, RelayStops, Signal, ListenFails
  <2>4. CASE MainStep
    BY <2>4 DEF MainStep, Drained, GraceEnds, HubCloses, HubClosed,
       WorkersDone, RedisCloses, Exit
  <2>. QED
    BY <2>1, <2>2, <2>3, <2>4 DEF ProcNext
<1>3. HubInside /\ RestTypeOK => ProcTypeOK
  BY DEF HubInside, RestTypeOK, ProcTypeOK
<1>. QED
  BY <1>1, <1>2, <1>3, HubHolds, PTL DEF ProcSpec
=============================================================================
