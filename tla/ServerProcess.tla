---------------------------- MODULE ServerProcess ----------------------------
(***************************************************************************)
(* One `pamie' server process from startup to exit (runServer in           *)
(* cmd/pamie/main.go): the HTTP server with its graceful shutdown          *)
(* (internal/httpserver), the lifecycle worker with its ticker and the     *)
(* goroutine of each run (internal/lifecycle/worker.go), the requests, and *)
(* the only database connection they all wait for (internal/db/store.go).  *)
(*                                                                         *)
(* What a run or a request does inside its transaction is MemoryLifecycle; *)
(* here a transaction is the time somebody holds the connection.           *)
(***************************************************************************)
EXTENDS Naturals, FiniteSets

CONSTANTS
  Runs,      \* goroutine slots for lifecycle runs; a slot is reused
  Requests,  \* connections that issue requests, one at a time each
  Nobody     \* the holder of a free connection

ASSUME ServerAssumption ==
  /\ Nobody \notin Runs \cup Requests
  /\ Runs \cap Requests = {}

VARIABLES
  config,     \* lifecycle.Options: enabled, RunOnStart, StartupDelay > 0
  cancelled,  \* the context of server and worker is cancelled
  main,       \* where runServer is
  err,        \* runServer is going to return an error
  worker,     \* where Worker.Run is
  running,    \* Worker.running
  tick,       \* the ticks that wait in the ticker's channel, of capacity one
  run,        \* where the goroutine in each slot is
  request,    \* where each request is
  conn,       \* who holds the database connection
  store       \* "open" or "closed"

vars == <<config, cancelled, main, err, worker, running, tick, run, request, conn, store>>

Config == [enabled : BOOLEAN, runOnStart : BOOLEAN, startupDelay : BOOLEAN]

MainStates ==
  {"serving", "draining", "cancelling", "joining", "closing", "returning", "exited"}
WorkerStates ==
  {"none", "startup", "delay", "loop", "starting", "claiming", "waiting", "done"}
RunStates == {"free", "spawned", "tx", "reporting", "releasing", "leaving"}
RequestStates == {"idle", "handling", "tx"}

TypeOK ==
  /\ config \in Config
  /\ cancelled \in BOOLEAN
  /\ main \in MainStates
  /\ err \in BOOLEAN
  /\ worker \in WorkerStates
  /\ running \in BOOLEAN
  /\ tick \in 0..1
  /\ run \in [Runs -> RunStates]
  /\ request \in [Requests -> RequestStates]
  /\ conn \in Runs \cup Requests \cup {Nobody}
  /\ store \in {"open", "closed"}

(* runServer up to ListenAndServe: without the worker enabled there is no  *)
(* goroutine and no channel to wait for.                                   *)
Init ==
  /\ config \in Config
  /\ cancelled = FALSE
  /\ main = "serving"
  /\ err = FALSE
  /\ worker = IF config.enabled THEN "startup" ELSE "none"
  /\ running = FALSE
  /\ tick = 0
  /\ run = [r \in Runs |-> "free"]
  /\ request = [q \in Requests |-> "idle"]
  /\ conn = Nobody
  /\ store = "open"

(* Everything stops with the process.                                      *)
Alive == main # "exited"

-----------------------------------------------------------------------------
(* The environment.                                                        *)

(* SIGINT or SIGTERM cancels the context both servers share.               *)
Signal ==
  /\ Alive /\ ~cancelled
  /\ cancelled' = TRUE
  /\ UNCHANGED <<config, main, err, worker, running, tick, run, request, conn, store>>

(* Mutant: ticks queue up.                                                 *)
TickQueues ==
  /\ Alive
  /\ worker = "loop"
  /\ tick' = tick + 1
  /\ UNCHANGED <<config, cancelled, main, err, worker, running, run, request, conn, store>>

(* The ticker exists while Run is in its loop; it drops a tick when one is *)
(* already waiting.                                                        *)
Tick ==
  /\ Alive /\ tick < 1
  /\ worker = "loop"
  /\ tick' = tick + 1
  /\ UNCHANGED <<config, cancelled, main, err, worker, running, run, request, conn, store>>

-----------------------------------------------------------------------------
(* Worker.Run.                                                             *)

WorkerTo(state) == Alive /\ worker' = state

(* The beginning of Run: run at once, wait for the delay, or just tick.    *)
WorkerStart ==
  /\ worker = "startup"
  /\ WorkerTo(IF config.runOnStart THEN "starting"
              ELSE IF config.startupDelay THEN "delay" ELSE "loop")
  /\ UNCHANGED <<config, cancelled, main, err, running, tick, run, request, conn, store>>

(* The startup timer fires.                                                *)
WorkerDelayOver ==
  /\ worker = "delay"
  /\ WorkerTo("starting")
  /\ UNCHANGED <<config, cancelled, main, err, running, tick, run, request, conn, store>>

WorkerTakesTick ==
  /\ worker = "loop" /\ tick > 0
  /\ WorkerTo("starting")
  /\ tick' = tick - 1
  /\ UNCHANGED <<config, cancelled, main, err, running, run, request, conn, store>>

(* startRun looks at the context first.                                    *)
StartRunChecksContext ==
  /\ worker = "starting"
  /\ WorkerTo(IF cancelled THEN "loop" ELSE "claiming")
  /\ UNCHANGED <<config, cancelled, main, err, running, tick, run, request, conn, store>>

(* Mutant: the flag is set without being tested.                           *)
StartRunClaimsBlindly ==
  /\ worker = "claiming"
  /\ WorkerTo("loop")
  /\ \E r \in Runs : run[r] = "free" /\ run' = [run EXCEPT ![r] = "spawned"]
  /\ running' = TRUE
  /\ UNCHANGED <<config, cancelled, main, err, tick, request, conn, store>>

(* Then it sets `running' if it is not set, and starts a goroutine.        *)
StartRunClaims ==
  /\ worker = "claiming" /\ ~running
  /\ WorkerTo("loop")
  /\ \E r \in Runs : run[r] = "free" /\ run' = [run EXCEPT ![r] = "spawned"]
  /\ running' = TRUE
  /\ UNCHANGED <<config, cancelled, main, err, tick, request, conn, store>>

(* A run is active: the trigger is logged and skipped.                     *)
StartRunSkips ==
  /\ worker = "claiming" /\ running
  /\ WorkerTo("loop")
  /\ UNCHANGED <<config, cancelled, main, err, running, tick, run, request, conn, store>>

(* Both selects of Run watch ctx.Done().                                   *)
WorkerCancelled ==
  /\ worker \in {"delay", "loop"} /\ cancelled
  /\ WorkerTo("waiting")
  /\ UNCHANGED <<config, cancelled, main, err, running, tick, run, request, conn, store>>

(* Mutant: Run returns without waiting for the run it cancelled.           *)
WorkerLeaves ==
  /\ worker = "waiting"
  /\ WorkerTo("done")
  /\ UNCHANGED <<config, cancelled, main, err, running, tick, run, request, conn, store>>

(* runs.Wait(), and Start closes the channel main waits for.               *)
WorkerDone ==
  /\ worker = "waiting"
  /\ \A r \in Runs : run[r] = "free"
  /\ WorkerTo("done")
  /\ UNCHANGED <<config, cancelled, main, err, running, tick, run, request, conn, store>>

-----------------------------------------------------------------------------
(* The goroutine of one run: runOnce around RunLifecycle.                  *)

(* BeginTx gets the connection.                                            *)
RunBegins(r) ==
  /\ Alive /\ run[r] = "spawned" /\ ~cancelled
  /\ conn = Nobody
  /\ conn' = r
  /\ run' = [run EXCEPT ![r] = "tx"]
  /\ UNCHANGED <<config, cancelled, main, err, worker, running, tick, request, store>>

(* BeginTx is cancelled while it waits for the connection.                 *)
RunRefused(r) ==
  /\ Alive /\ run[r] = "spawned" /\ cancelled
  /\ run' = [run EXCEPT ![r] = "reporting"]
  /\ UNCHANGED <<config, cancelled, main, err, worker, running, tick, request, conn, store>>

(* The transaction ends: committed, or rolled back by an error or by the   *)
(* cancelled context.                                                      *)
RunEnds(r) ==
  /\ Alive /\ run[r] = "tx"
  /\ conn' = Nobody
  /\ run' = [run EXCEPT ![r] = "reporting"]
  /\ UNCHANGED <<config, cancelled, main, err, worker, running, tick, request, store>>

(* runOnce audits and logs the outcome and returns.                        *)
RunReports(r) ==
  /\ Alive /\ run[r] = "reporting"
  /\ run' = [run EXCEPT ![r] = "releasing"]
  /\ UNCHANGED <<config, cancelled, main, err, worker, running, tick, request, conn, store>>

(* Mutant: `running' is not reset.                                         *)
RunKeepsFlag(r) ==
  /\ Alive /\ run[r] = "releasing"
  /\ run' = [run EXCEPT ![r] = "leaving"]
  /\ UNCHANGED <<config, cancelled, main, err, worker, running, tick, request, conn, store>>

(* The deferred calls, last first: running.Store(false), ...               *)
RunReleases(r) ==
  /\ Alive /\ run[r] = "releasing"
  /\ run' = [run EXCEPT ![r] = "leaving"]
  /\ running' = FALSE
  /\ UNCHANGED <<config, cancelled, main, err, worker, tick, request, conn, store>>

(* ... then runs.Done().                                                   *)
RunLeaves(r) ==
  /\ Alive /\ run[r] = "leaving"
  /\ run' = [run EXCEPT ![r] = "free"]
  /\ UNCHANGED <<config, cancelled, main, err, worker, running, tick, request, conn, store>>

-----------------------------------------------------------------------------
(* Requests.                                                               *)

(* The listener accepts until Shutdown closes it.                          *)
Accept(q) ==
  /\ main = "serving" /\ request[q] = "idle"
  /\ request' = [request EXCEPT ![q] = "handling"]
  /\ UNCHANGED <<config, cancelled, main, err, worker, running, tick, run, conn, store>>

(* A handler opens a transaction.  Shutdown does not cancel its context.   *)
RequestBegins(q) ==
  /\ Alive /\ request[q] = "handling"
  /\ conn = Nobody /\ store = "open"
  /\ conn' = q
  /\ request' = [request EXCEPT ![q] = "tx"]
  /\ UNCHANGED <<config, cancelled, main, err, worker, running, tick, run, store>>

RequestEnds(q) ==
  /\ Alive /\ request[q] = "tx"
  /\ conn' = Nobody
  /\ request' = [request EXCEPT ![q] = "handling"]
  /\ UNCHANGED <<config, cancelled, main, err, worker, running, tick, run, store>>

(* The response is written; the connection may send another request.       *)
Respond(q) ==
  /\ Alive /\ request[q] = "handling"
  /\ request' = [request EXCEPT ![q] = "idle"]
  /\ UNCHANGED <<config, cancelled, main, err, worker, running, tick, run, conn, store>>

-----------------------------------------------------------------------------
(* runServer from ListenAndServe on.                                       *)

MainTo(state) == main' = state

(* Listen or Serve fails: ListenAndServe returns with requests in flight.  *)
ServeFails ==
  /\ main = "serving"
  /\ MainTo("cancelling")
  /\ err' = TRUE
  /\ UNCHANGED <<config, cancelled, worker, running, tick, run, request, conn, store>>

(* Serve sees the cancelled context and calls Shutdown.                    *)
ShutdownBegins ==
  /\ main = "serving" /\ cancelled
  /\ MainTo("draining")
  /\ UNCHANGED <<config, cancelled, err, worker, running, tick, run, request, conn, store>>

(* Every request has been answered.                                        *)
ShutdownDrained ==
  /\ main = "draining"
  /\ \A q \in Requests : request[q] = "idle"
  /\ MainTo("cancelling")
  /\ UNCHANGED <<config, cancelled, err, worker, running, tick, run, request, conn, store>>

(* Mutant: Shutdown's error is dropped.                                    *)
ShutdownTimesOutQuietly ==
  /\ main = "draining"
  /\ MainTo("cancelling")
  /\ UNCHANGED <<config, cancelled, err, worker, running, tick, run, request, conn, store>>

(* Mutant: Shutdown has no deadline.                                       *)
ShutdownNeverTimesOut == FALSE

(* shutdownTimeout has passed.                                             *)
ShutdownTimesOut ==
  /\ main = "draining"
  /\ MainTo("cancelling")
  /\ err' = TRUE
  /\ UNCHANGED <<config, cancelled, worker, running, tick, run, request, conn, store>>

(* cancel(), so that the worker stops when the server failed by itself.    *)
MainCancels ==
  /\ main = "cancelling"
  /\ MainTo("joining")
  /\ cancelled' = TRUE
  /\ UNCHANGED <<config, err, worker, running, tick, run, request, conn, store>>

(* <-lifecycleDone.                                                        *)
MainJoinsWorker ==
  /\ main = "joining"
  /\ worker \in {"none", "done"}
  /\ MainTo("closing")
  /\ UNCHANGED <<config, cancelled, err, worker, running, tick, run, request, conn, store>>

(* The deferred store.Close(): no transaction begins any more; one that    *)
(* holds the connection goes on until the process exits.                   *)
MainClosesStore ==
  /\ main = "closing"
  /\ MainTo("returning")
  /\ store' = "closed"
  /\ UNCHANGED <<config, cancelled, err, worker, running, tick, run, request, conn>>

MainExits ==
  /\ main = "returning"
  /\ MainTo("exited")
  /\ UNCHANGED <<config, cancelled, err, worker, running, tick, run, request, conn, store>>

(* The process is gone.                                                    *)
Exited == main = "exited" /\ UNCHANGED vars

-----------------------------------------------------------------------------

Worker ==
  \/ WorkerStart \/ WorkerDelayOver \/ WorkerTakesTick
  \/ StartRunChecksContext \/ StartRunClaims \/ StartRunSkips
  \/ WorkerDone

Run(r) ==
  \/ RunRefused(r) \/ RunEnds(r)
  \/ RunReports(r) \/ RunReleases(r) \/ RunLeaves(r)

Main ==
  \/ ShutdownBegins \/ ShutdownDrained \/ ShutdownTimesOut
  \/ MainCancels \/ MainJoinsWorker \/ MainClosesStore \/ MainExits

Next ==
  \/ Signal \/ Tick
  \/ Worker \/ WorkerCancelled
  \/ \E r \in Runs : RunBegins(r) \/ Run(r)
  \/ \E q \in Requests : Accept(q) \/ RequestBegins(q) \/ RequestEnds(q) \/ Respond(q)
  \/ Main \/ ServeFails
  \/ Exited

Spec == Init /\ [][Next]_vars

(* The Go scheduler runs every goroutine that can go on, timers fire, a    *)
(* transaction ends, and whoever waits for the connection gets it in its   *)
(* turn.  Go's select picks among its ready cases at random, so a ticker   *)
(* cannot hide a cancelled context for ever (SF of WorkerCancelled).       *)
(* Nothing is assumed of requests beyond that: a handler may wait for an   *)
(* embedding provider for ever.                                            *)
FairRun(r)     == WF_vars(Run(r)) /\ SF_vars(RunBegins(r))
FairRequest(q) == WF_vars(RequestEnds(q))

Fairness ==
  /\ WF_vars(Tick) /\ WF_vars(Worker) /\ SF_vars(WorkerCancelled) /\ WF_vars(Main)
  /\ \A r \in Runs : FairRun(r)
  /\ \A q \in Requests : FairRequest(q)

FairSpec == Spec /\ Fairness

-----------------------------------------------------------------------------
(* Properties.                                                             *)

(* The database is closed only when the worker and every goroutine it      *)
(* started are gone, and no run holds the connection (runs.Wait before     *)
(* Run returns, <-lifecycleDone before the deferred store.Close).          *)
StoreOutlivesWorker ==
  store = "closed" =>
    /\ worker \in {"none", "done"}
    /\ \A r \in Runs : run[r] = "free"
    /\ conn \notin Runs

(* When runServer returns without an error, no request is left without its *)
(* response and the connection is free: only a timed-out Shutdown or a     *)
(* failed listener abandons requests, and both are reported                *)
(* (Server.Serve).                                                         *)
CleanExitAnswersEveryRequest ==
  main \in {"closing", "returning", "exited"} /\ ~err =>
    conn = Nobody /\ \A q \in Requests : request[q] = "idle"

(* The documented schedule: runs do not overlap and none outlives the      *)
(* database, see LifecycleSchedule.                                        *)
Schedule == INSTANCE LifecycleSchedule WITH
  active <- {r \in Runs : run[r] \in {"spawned", "tx", "reporting"}},
  closed <- (store = "closed")
ScheduleSpec == Schedule!Spec

(* Once the context is cancelled the process exits, whatever its requests  *)
(* wait for: Shutdown has a deadline and a run gives up the wait for the   *)
(* connection.                                                             *)
ShutdownTerminates == cancelled ~> ~Alive

(* Until shutdown, an enabled worker starts run after run, though ticks    *)
(* are skipped while one is active and runs compete with requests for the  *)
(* connection.  It is what MemoryLifecycle assumes of RunLifecycle.        *)
WorkerKeepsRunning ==
  config.enabled => []<>(cancelled \/ ~Alive \/ \E r \in Runs : run[r] = "tx")

=============================================================================
