------------------------------ MODULE Process ------------------------------
(***************************************************************************)
(* One process of the backend from its first request to its exit: run()    *)
(* of main.go, the requests it serves, its two workers, and the hub they   *)
(* broadcast in.  On a signal the server is drained first, then the relay  *)
(* and the hub are closed, then the workers are waited for, and last Redis *)
(* and the database pool are closed.                                       *)
(*                                                                         *)
(* A call of BroadcastSeatUpdates is a member of Hub's Casts, named for    *)
(* the job that makes it, a request or a sweep.  What a job does until its *)
(* change is committed is one query here (Checkout has it in detail), and  *)
(* what the relay delivers is left to SeatFeed.                            *)
(***************************************************************************)
EXTENDS Hub

CONSTANTS
  Requests,  \* HTTP requests that change seats
  Sweeps     \* iterations of the expiry worker

ASSUME ProcessAssumption ==
  Casts = Requests \cup Sweeps /\ Requests \cap Sweeps = {}

VARIABLES
  main,     \* what run() is doing, or about to close
  outcome,  \* how it came to stop: "none" yet, "clean", "forced", "failed"
  asked,    \* a signal has cancelled ctx
  job,      \* job[m] : what makes broadcast m, and how far it has come;
            \* "cut" when its query failed and its change is committed all
            \* the same, "lost" when it came to publish after Redis closed
  sweeper,  \* the goroutine of ExpiryWorker.Run
  relay     \* the goroutine of PubSub.Run

mainVars == <<main, outcome, asked>>
workerVars == <<sweeper, relay>>
procVars == <<main, outcome, asked, job, sweeper, relay>>
allVars  == <<vars, procVars>>

ProcTypeOK ==
  /\ TypeOK
  /\ main \in {"serving", "draining", "hub", "workers", "redis", "pool",
               "exited"}
  /\ outcome \in {"none", "clean", "forced", "failed"}
  /\ asked \in BOOLEAN
  /\ job \in [Casts -> {"idle", "query", "changed", "done", "cut", "lost"}]
  /\ sweeper \in {"run", "gone"}
  /\ relay \in {"run", "gone"}

ProcInit ==
  /\ Init
  /\ main = "serving"
  /\ outcome = "none"
  /\ asked = FALSE
  /\ job = [m \in Casts |-> "idle"]
  /\ sweeper = "run"
  /\ relay = "run"

Alive == main # "exited"

Goes(m, step) == job' = [job EXCEPT ![m] = step]

(* A job is under way.                                                     *)
Busy(m) == job[m] \in {"query", "changed"}

-----------------------------------------------------------------------------
(* Requests and workers                                                    *)

(* The server takes requests until it is told to stop.                     *)
Serve(r) ==
  /\ job[r] = "idle" /\ main = "serving"
  /\ Goes(r, "query")
  /\ UNCHANGED <<vars, mainVars, workerVars>>

(* The ticker fires.  Once ctx is cancelled a sweep claims nothing.  One   *)
(* that claims several bookings announces them in turn; here it has one.   *)
SweepBegins(s) ==
  /\ job[s] = "idle" /\ sweeper = "run"
  /\ ~asked /\ Alive
  /\ \A t \in Sweeps : ~Busy(t)
  /\ Goes(s, "query")
  /\ UNCHANGED <<vars, mainVars, workerVars>>

(* The change is committed; or there was none, or the query failed; or it  *)
(* failed and is committed all the same, because a signal, its timeout or  *)
(* a browser that left cancelled it too late, or the connection broke.     *)
(* Then nobody announces it.                                               *)
QueryEnds(m) ==
  /\ job[m] = "query" /\ Alive
  /\ Goes(m, "changed") \/ Goes(m, "done") \/ Goes(m, "cut")
  /\ UNCHANGED <<vars, mainVars, workerVars>>

(* PubSub.BroadcastSeatUpdates: after the hub, Redis, with a context of    *)
(* its own.  (A publish that Redis refuses is in SeatFeed.)                *)
Publish(m) ==
  /\ job[m] = "changed" /\ cast[m] = "done" /\ Alive
  /\ Goes(m, IF main = "pool" THEN "lost" ELSE "done")
  /\ UNCHANGED <<vars, mainVars, workerVars>>

(* Mutant of SweeperStops: it watches a context that run() cancels last.   *)
SweeperStopsLast ==
  /\ sweeper = "run" /\ main = "exited"
  /\ sweeper' = "gone"
  /\ UNCHANGED <<vars, mainVars, job, relay>>

(* ExpiryWorker.Run returns when ctx is done, between two sweeps.          *)
SweeperStops ==
  /\ sweeper = "run" /\ asked /\ Alive
  /\ \A s \in Sweeps : ~Busy(s)
  /\ sweeper' = "gone"
  /\ UNCHANGED <<vars, mainVars, job, relay>>

-----------------------------------------------------------------------------
(* PubSub.Run                                                              *)

(* After a signal it returns: when a select finds ctx done, when consume   *)
(* finds that relay.Close was called, or when Receive fails.  Until then   *)
(* it subscribes, delivers, backs off and subscribes again, and nothing    *)
(* here depends on where it is.  When ListenAndServe failed, relay.Close   *)
(* ends it too, but nobody waits for that and it is left out.              *)
RelayStops ==
  /\ relay = "run" /\ asked /\ Alive
  /\ relay' = "gone"
  /\ UNCHANGED <<vars, mainVars, job, sweeper>>

-----------------------------------------------------------------------------
(* run                                                                     *)

MainGoes(from, to) == main = from /\ main' = to

(* SIGINT or SIGTERM.                                                      *)
Signal ==
  /\ MainGoes("serving", "draining")
  /\ asked' = TRUE
  /\ UNCHANGED <<vars, outcome, job, workerVars>>

(* ListenAndServe fails: run returns, and its deferred calls are all that  *)
(* is left.  ctx is cancelled by the last of them.                         *)
ListenFails ==
  /\ MainGoes("serving", "hub")
  /\ outcome' = "failed"
  /\ UNCHANGED <<vars, asked, job, workerVars>>

(* Shutdown returns: no request is left.                                   *)
Drained ==
  /\ MainGoes("draining", "hub")
  /\ \A r \in Requests : ~Busy(r)
  /\ outcome' = "clean"
  /\ UNCHANGED <<vars, asked, job, workerVars>>

(* Shutdown gives up after shutdownGrace, and run returns too.  What it    *)
(* waited for need not be a request that changes seats.                    *)
GraceEnds ==
  /\ MainGoes("draining", "hub")
  /\ outcome' = "forced"
  /\ UNCHANGED <<vars, asked, job, workerVars>>

(* hub.Close, in Hub's steps.                                              *)
HubCloses ==
  /\ main = "hub"
  /\ CloseStep
  /\ UNCHANGED procVars

(* Only a clean stop waits for the workers.                                *)
HubClosed ==
  /\ closer = "done"
  /\ MainGoes("hub", IF outcome = "clean" THEN "workers" ELSE "redis")
  /\ UNCHANGED <<vars, outcome, asked, job, workerVars>>

(* Mutant of WorkersDone: nobody is waited for.                            *)
WorkersForgotten ==
  /\ MainGoes("workers", "redis")
  /\ UNCHANGED <<vars, outcome, asked, job, workerVars>>

(* workers.Wait.                                                           *)
WorkersDone ==
  /\ MainGoes("workers", "redis")
  /\ sweeper = "gone" /\ relay = "gone"
  /\ UNCHANGED <<vars, outcome, asked, job, workerVars>>

RedisCloses ==
  /\ MainGoes("redis", "pool")
  /\ UNCHANGED <<vars, outcome, asked, job, workerVars>>

(* pool.Close waits for the connections that are in use.  Then the process *)
(* is gone, with every goroutine and connection it still had.              *)
Exit ==
  /\ MainGoes("pool", "exited")
  /\ \A m \in Casts : job[m] # "query"
  /\ rooms' = {} /\ drop' = {} /\ wg' = 0
  /\ chan' = [c \in Clients |-> "closed"]
  /\ queued' = [c \in Clients |-> 0]
  /\ writer' = [c \in Clients |-> "gone"]
  /\ reader' = [c \in Clients |-> "gone"]
  /\ conn' = [c \in Clients |-> "down"]
  /\ cast' = [m \in Casts |-> "done"]
  /\ todo' = [m \in Casts |-> {}]
  /\ slow' = [m \in Casts |-> {}]
  /\ cur' = [m \in Casts |-> None]
  /\ UNCHANGED <<serve, peer, closer, missed, outcome, asked, job>>
  /\ UNCHANGED workerVars

-----------------------------------------------------------------------------
(* A job's BroadcastSeatUpdates, in Hub's steps.                           *)
Broadcasts(m) ==
  /\ job[m] = "changed" /\ Alive
  /\ CastStep(m)
  /\ UNCHANGED procVars

(* A hub step other than Close.  Broadcasts are made by jobs; connections  *)
(* of Serve are hijacked, so Shutdown waits for none of them.              *)
HubStep ==
  /\ Alive
  /\ \/ \E c \in Clients :
          ServeStep(c) \/ PeerLeaves(c) \/ WriterStep(c) \/ ReaderStep(c)
     \/ \E m \in Casts : Broadcasts(m)
  /\ UNCHANGED procVars

JobStep(m) ==
  \/ m \in Requests /\ Serve(m)
  \/ m \in Sweeps /\ SweepBegins(m)
  \/ QueryEnds(m) \/ Publish(m)

MainStep ==
  \/ Drained \/ GraceEnds \/ HubCloses \/ HubClosed
  \/ WorkersDone \/ RedisCloses \/ Exit

ProcNext ==
  \/ HubStep
  \/ \E m \in Casts : JobStep(m)
  \/ SweeperStops \/ RelayStops
  \/ Signal \/ ListenFails
  \/ MainStep

ProcSpec == ProcInit /\ [][ProcNext]_allVars

(* Goroutines that can run do, and h.mu, a Go RWMutex, starves nobody.     *)
(* Writes have a deadline and reads one that pongs move, so a pump whose   *)
(* peer is gone does notice.  Queries and publishes end, by their contexts *)
(* if not by themselves.  Receive, which neither ctx nor relay.Close ends, *)
(* returns once Redis answers or the connection breaks: that one of them   *)
(* happens is assumed.  Nobody has to connect, or to send a request or a   *)
(* signal.                                                                 *)
ProcFairness ==
  /\ \A c \in Clients :
       /\ WF_allVars(Alive /\ (Greet(c) \/ Spawn(c)) /\ UNCHANGED procVars)
       /\ WF_allVars(Alive /\ WriterStep(c) /\ UNCHANGED procVars)
       /\ WF_allVars(Alive /\ ReaderStep(c) /\ UNCHANGED procVars)
  /\ \A m \in Casts : WF_allVars(Busy(m) /\ (JobStep(m) \/ Broadcasts(m)))
  /\ WF_allVars(SweeperStops)
  /\ WF_allVars(RelayStops)
  /\ WF_allVars(MainStep)

FairProcSpec == ProcSpec /\ ProcFairness

-----------------------------------------------------------------------------
(* main.go: "shutdown can wait for them rather than exiting mid-sweep".  A *)
(* process that stopped cleanly has offered Redis every change whose query *)
(* reported it, so the pages of the other instances can hear of it: Redis  *)
(* is not closed under a request or the worker that has still to announce. *)
(* Not every committed change: one that was committed by a query that      *)
(* failed ("cut") is announced by nobody, and the signal itself can do     *)
(* that to a sweep, whose ClaimExpired runs under the context it cancels.  *)
CleanStopTellsAll ==
  main \in {"pool", "exited"} /\ outcome = "clean" =>
    \A m \in Casts : job[m] \notin {"changed", "lost"}

(* main.go: "so the process still exits".  A signal ends the process,      *)
(* whatever requests, workers, pumps and browsers are doing: nothing that  *)
(* run() waits for waits for run().                                        *)
StopsOnSignal == asked ~> main = "exited"
=============================================================================
