------------------------- MODULE ServerProcessProofs -------------------------
(***************************************************************************)
(* Theorems about ServerProcess for any number of goroutine slots and of   *)
(* requests.                                                               *)
(***************************************************************************)
EXTENDS ServerProcess, TLAPS

(* The states in which a goroutine owns the flag `running'.                *)
Claimed == {"spawned", "tx", "reporting", "releasing"}

(* The flag is set while a goroutine owns it, and one does at most.        *)
FlagOwned ==
  /\ \A r \in Runs : run[r] \in Claimed => running
  /\ \A r, s \in Runs : run[r] \in Claimed /\ run[s] \in Claimed => r = s

(* No goroutine outlives Run, Run does not outlive the join, the store is  *)
(* closed after the join.                                                  *)
EndsInOrder ==
  /\ worker \in {"none", "done"} => \A r \in Runs : run[r] = "free"
  /\ main \in {"closing", "returning", "exited"} => worker \in {"none", "done"}
  /\ store = "closed" => main \in {"returning", "exited"}

(* The connection is held by whoever is in a transaction.                  *)
HolderInTransaction ==
  /\ \A r \in Runs : conn = r => run[r] = "tx"
  /\ \A q \in Requests : conn = q => request[q] = "tx"

(* Past Shutdown without an error every request has been answered.         *)
DrainedUnlessError ==
  main \in {"cancelling", "joining", "closing", "returning", "exited"} /\ ~err =>
    \A q \in Requests : request[q] = "idle"

IInv == TypeOK /\ FlagOwned /\ EndsInOrder /\ HolderInTransaction /\ DrainedUnlessError

(* The invariant holds at startup.                                         *)
LEMMA InitInv == Init => IInv
<1> SUFFICES ASSUME Init
             PROVE  IInv
  OBVIOUS
<1>1. TypeOK
  <2>1. tick \in 0..1
    BY DEF Init
  <2> QED BY <2>1 DEF Init, TypeOK, MainStates, WorkerStates, RunStates, RequestStates
<1>2. FlagOwned /\ EndsInOrder /\ HolderInTransaction /\ DrainedUnlessError
  BY ServerAssumption
     DEF Init, FlagOwned, EndsInOrder, HolderInTransaction, DrainedUnlessError, Claimed, Config
<1> QED BY <1>1, <1>2 DEF IInv

(* Every step keeps the types.                                             *)
LEMMA TypeStep == TypeOK /\ [Next]_vars => TypeOK'
<1> SUFFICES ASSUME TypeOK, [Next]_vars
             PROVE  TypeOK'
  OBVIOUS
<1> USE DEF TypeOK, MainStates, WorkerStates, RunStates, RequestStates
<1>1. CASE Signal \/ ServeFails \/ Exited \/ UNCHANGED vars
  <2>1. CASE Signal
    BY <2>1 DEF Signal
  <2>2. CASE ServeFails
    BY <2>2 DEF ServeFails, MainTo
  <2>3. CASE Exited \/ UNCHANGED vars
    BY <2>3 DEF Exited, vars
  <2> QED BY <1>1, <2>1, <2>2, <2>3
<1>6. CASE Tick
  <2>1. tick' \in 0..1
    BY <1>6 DEF Tick
  <2> QED BY <1>6, <2>1 DEF Tick
<1>7. CASE WorkerTakesTick
  <2>1. tick' \in 0..1
    BY <1>7 DEF WorkerTakesTick
  <2> QED BY <1>7, <2>1 DEF WorkerTakesTick, WorkerTo
<1>2. CASE \/ WorkerStart \/ WorkerDelayOver \/ StartRunChecksContext
           \/ StartRunClaims \/ StartRunSkips \/ WorkerDone \/ WorkerCancelled
  BY <1>2 DEF WorkerCancelled, WorkerStart, WorkerDelayOver,
     StartRunChecksContext, StartRunClaims, StartRunSkips, WorkerDone, WorkerTo
<1>3. ASSUME NEW r \in Runs, RunBegins(r) \/ Run(r)
      PROVE  TypeOK'
  <2>1. \E at \in RunStates : run' = [run EXCEPT ![r] = at]
    BY <1>3 DEF Run, RunBegins, RunRefused, RunEnds, RunReports, RunReleases, RunLeaves
  <2>2. run' \in [Runs -> RunStates]
    BY <2>1
  <2>3. /\ UNCHANGED <<config, cancelled, main, err, worker, tick, request, store>>
        /\ running' \in {running, FALSE} /\ conn' \in {conn, r, Nobody}
    BY <1>3 DEF Run, RunBegins, RunRefused, RunEnds, RunReports, RunReleases, RunLeaves
  <2>4. running' \in BOOLEAN /\ conn' \in Runs \cup Requests \cup {Nobody}
    BY <2>3
  <2> QED BY ONLY TypeOK, <2>2, <2>3, <2>4 DEF TypeOK
<1>4. ASSUME NEW q \in Requests, Accept(q) \/ RequestBegins(q) \/ RequestEnds(q) \/ Respond(q)
      PROVE  TypeOK'
  <2>1. CASE Accept(q)
    BY <1>4, <2>1 DEF Accept
  <2>2. CASE RequestBegins(q)
    BY <1>4, <2>2 DEF RequestBegins
  <2>3. CASE RequestEnds(q)
    BY <1>4, <2>3 DEF RequestEnds
  <2>4. CASE Respond(q)
    BY <1>4, <2>4 DEF Respond
  <2> QED BY <1>4, <2>1, <2>2, <2>3, <2>4
<1>5. CASE Main
  BY <1>5 DEF Main, ShutdownBegins, ShutdownDrained, ShutdownTimesOut, MainCancels,
     MainJoinsWorker, MainClosesStore, MainExits, MainTo
<1> QED BY <1>1, <1>2, <1>3, <1>4, <1>5, <1>6, <1>7 DEF Next, Worker

(* Every step keeps the invariant: one step per process, one below per     *)
(* action that matters.                                                    *)
LEMMA InvStep == IInv /\ [Next]_vars => IInv'
<1> SUFFICES ASSUME IInv, [Next]_vars
             PROVE  IInv'
  OBVIOUS
<1>t. TypeOK /\ TypeOK'
  BY TypeStep DEF IInv
<1> USE DEF IInv, FlagOwned, EndsInOrder, HolderInTransaction, DrainedUnlessError
<1>1. CASE Signal \/ Tick \/ Exited \/ UNCHANGED vars
  BY <1>t, <1>1 DEF Signal, Tick, Exited, vars
<1>2. CASE ServeFails
  BY <1>t, <1>2 DEF ServeFails, MainTo, TypeOK
<1>3. CASE Worker
  <2>1. CASE StartRunClaims
    <3>1. PICK r \in Runs : run[r] = "free" /\ run' = [run EXCEPT ![r] = "spawned"]
      BY <2>1 DEF StartRunClaims
    <3>2. run'[r] = "spawned" /\ \A s \in Runs \ {r} : run'[s] = run[s]
      BY <3>1, <1>t DEF TypeOK
    <3>3. /\ worker = "claiming" /\ worker' = "loop" /\ ~running /\ running'
          /\ UNCHANGED <<main, err, request, conn, store>>
      BY <2>1 DEF StartRunClaims, WorkerTo
    <3>4. FlagOwned'
      BY <3>2, <3>3 DEF Claimed
    <3>5. EndsInOrder'
      BY <3>3
    <3>6. HolderInTransaction'
      BY <3>1, <3>2, <3>3
    <3>7. DrainedUnlessError'
      BY <3>3
    <3> QED BY <1>t, <3>4, <3>5, <3>6, <3>7
  <2>2. CASE WorkerDone
    BY <1>t, <2>2 DEF WorkerDone, WorkerTo
  <2>3. CASE \/ WorkerStart \/ WorkerDelayOver \/ WorkerTakesTick
             \/ StartRunChecksContext \/ StartRunSkips
    BY <1>t, <2>3 DEF WorkerStart, WorkerDelayOver, WorkerTakesTick,
       StartRunChecksContext, StartRunSkips, WorkerTo
  <2> QED BY <1>3, <2>1, <2>2, <2>3 DEF Worker
<1>4. CASE WorkerCancelled
  BY <1>t, <1>4 DEF WorkerCancelled, WorkerTo
<1>5. ASSUME NEW r \in Runs, RunBegins(r) \/ Run(r)
      PROVE  IInv'
  <2>0. \A s \in Runs \ {r} : run'[s] = run[s]
    BY <1>t, <1>5 DEF TypeOK, Run, RunBegins, RunRefused, RunEnds, RunReports, RunReleases, RunLeaves
  <2>1. /\ UNCHANGED <<worker, main, err, request, store>>
        /\ run[r] # "free"
    BY <1>5 DEF Run, RunBegins, RunRefused, RunEnds, RunReports, RunReleases, RunLeaves
  <2>2. EndsInOrder' /\ DrainedUnlessError'
    BY <2>1
  <2>3. CASE RunBegins(r)
    <3>1. run[r] = "spawned" /\ run'[r] = "tx" /\ conn' = r /\ running' = running
      BY <1>t, <2>3 DEF RunBegins, TypeOK
    <3> QED BY <1>t, <2>0, <2>1, <2>2, <3>1, ServerAssumption DEF Claimed
  <2>4. CASE RunRefused(r)
    <3>1. run[r] = "spawned" /\ run'[r] = "reporting" /\ conn' = conn /\ running' = running
      BY <1>t, <2>4 DEF RunRefused, TypeOK
    <3> QED BY <1>t, <2>0, <2>1, <2>2, <3>1 DEF Claimed
  <2>5. CASE RunEnds(r)
    <3>1. run[r] = "tx" /\ run'[r] = "reporting" /\ conn' = Nobody /\ running' = running
      BY <1>t, <2>5 DEF RunEnds, TypeOK
    <3> QED BY <1>t, <2>0, <2>1, <2>2, <3>1, ServerAssumption DEF Claimed
  <2>6. CASE RunReports(r)
    <3>1. run[r] = "reporting" /\ run'[r] = "releasing" /\ conn' = conn /\ running' = running
      BY <1>t, <2>6 DEF RunReports, TypeOK
    <3> QED BY <1>t, <2>0, <2>1, <2>2, <3>1 DEF Claimed
  <2>7. CASE RunReleases(r)
    <3>1. run[r] = "releasing" /\ run'[r] = "leaving" /\ conn' = conn
      BY <1>t, <2>7 DEF RunReleases, TypeOK
    <3> QED BY <1>t, <2>0, <2>1, <2>2, <3>1 DEF Claimed
  <2>8. CASE RunLeaves(r)
    <3>1. run[r] = "leaving" /\ run'[r] = "free" /\ conn' = conn /\ running' = running
      BY <1>t, <2>8 DEF RunLeaves, TypeOK
    <3> QED BY <1>t, <2>0, <2>1, <2>2, <3>1 DEF Claimed
  <2> QED BY <1>5, <2>3, <2>4, <2>5, <2>6, <2>7, <2>8 DEF Run
<1>6. ASSUME NEW q \in Requests, Accept(q) \/ RequestBegins(q) \/ RequestEnds(q) \/ Respond(q)
      PROVE  IInv'
  <2>1. /\ UNCHANGED <<worker, main, err, running, run, store>>
        /\ \A p \in Requests \ {q} : request'[p] = request[p]
    BY <1>t, <1>6 DEF TypeOK, Accept, RequestBegins, RequestEnds, Respond
  <2>2. FlagOwned' /\ EndsInOrder'
    BY <2>1
  <2>3. DrainedUnlessError'
    BY <1>t, <1>6, <2>1 DEF TypeOK, Accept, RequestBegins, RequestEnds, Respond
  <2>4. HolderInTransaction'
    BY <1>t, <1>6, <2>1, ServerAssumption DEF TypeOK, Accept, RequestBegins, RequestEnds, Respond
  <2> QED BY <1>t, <2>2, <2>3, <2>4
<1>7. CASE Main
  BY <1>t, <1>7 DEF Main, ShutdownBegins, ShutdownDrained, ShutdownTimesOut, MainCancels,
     MainJoinsWorker, MainClosesStore, MainExits, MainTo
<1> QED BY <1>1, <1>2, <1>3, <1>4, <1>5, <1>6, <1>7 DEF Next

(* So it holds in every reachable state.                                   *)
LEMMA InvHolds == Spec => []IInv
BY InitInv, InvStep, PTL DEF Spec

(* Every variable keeps its type.                                          *)
THEOREM ServerTypeCorrect == Spec => []TypeOK
<1>1. IInv => TypeOK
  BY DEF IInv
<1> QED BY <1>1, InvHolds, PTL

(* The database is closed after the worker and all its runs are gone.      *)
THEOREM StoreOutlivesWorkerHolds == Spec => []StoreOutlivesWorker
<1>1. IInv => StoreOutlivesWorker
  BY DEF IInv, EndsInOrder, HolderInTransaction, StoreOutlivesWorker
<1> QED BY <1>1, InvHolds, PTL

(* An exit without an error leaves no request unanswered.                  *)
THEOREM CleanExitHolds == Spec => []CleanExitAnswersEveryRequest
<1>1. IInv => CleanExitAnswersEveryRequest
  BY DEF IInv, TypeOK, EndsInOrder, HolderInTransaction, DrainedUnlessError,
         CleanExitAnswersEveryRequest
<1> QED BY <1>1, InvHolds, PTL

(* Runs never overlap, none is active when the database closes and none    *)
(* begins after: the process implements the documented schedule.           *)
THEOREM ProcessImplementsSchedule == Spec => ScheduleSpec
<1> DEFINE InRun == {"spawned", "tx", "reporting"}
           active == {r \in Runs : run[r] \in InRun}
<1>1. Init => Schedule!Init
  BY DEF Init, Schedule!Init
<1>2. ASSUME IInv, [Next]_vars
      PROVE  [Schedule!Next]_<<active, store = "closed">>
  <2>t. TypeOK
    BY <1>2 DEF IInv
  <2>1. CASE StartRunClaims
    <3>1. PICK r \in Runs : run' = [run EXCEPT ![r] = "spawned"]
      BY <2>1 DEF StartRunClaims
    <3>2. ~running /\ worker = "claiming" /\ store' = store
      BY <2>1 DEF StartRunClaims
    <3>3. active = {}
      BY <1>2, <3>2 DEF IInv, FlagOwned, Claimed
    <3>4. active' = {r}
      BY <2>t, <3>1, <3>3 DEF TypeOK
    <3>5. store # "closed"
      BY <1>2, <3>2 DEF IInv, EndsInOrder
    <3> QED BY <3>2, <3>3, <3>4, <3>5 DEF Schedule!Next, Schedule!Begin
  <2>2. ASSUME NEW r \in Runs, RunReports(r)
        PROVE  Schedule!Next
    <3>1. run[r] = "reporting" /\ run'[r] = "releasing" /\ store' = store
            /\ \A s \in Runs \ {r} : run'[s] = run[s]
      BY <2>t, <2>2 DEF RunReports, TypeOK
    <3>2. active' = {}
      BY <1>2, <3>1 DEF IInv, FlagOwned, Claimed
    <3> QED BY <3>1, <3>2 DEF Schedule!Next, Schedule!End
  <2>3. CASE MainClosesStore
    <3>1. main = "closing" /\ run' = run /\ store' = "closed"
      BY <2>3 DEF MainClosesStore
    <3>2. active = {} /\ active' = active
      BY <1>2, <3>1 DEF IInv, EndsInOrder
    <3> QED BY <3>1, <3>2 DEF Schedule!Next, Schedule!Close
  <2>4. ASSUME NEW r \in Runs,
               RunBegins(r) \/ RunRefused(r) \/ RunEnds(r) \/ RunReleases(r) \/ RunLeaves(r)
        PROVE  active' = active /\ store' = store
    <3>1. /\ run' = [run EXCEPT ![r] = run'[r]] /\ store' = store
          /\ run[r] \in InRun <=> run'[r] \in InRun
      BY <2>t, <2>4 DEF TypeOK, RunBegins, RunRefused, RunEnds, RunReleases, RunLeaves
    <3> QED BY <2>t, <3>1 DEF TypeOK
  <2>5. CASE \/ Signal \/ Tick \/ ServeFails \/ Exited \/ UNCHANGED vars \/ WorkerCancelled
             \/ WorkerStart \/ WorkerDelayOver \/ WorkerTakesTick
             \/ StartRunChecksContext \/ StartRunSkips \/ WorkerDone
             \/ ShutdownBegins \/ ShutdownDrained \/ ShutdownTimesOut
             \/ MainCancels \/ MainJoinsWorker \/ MainExits
    <3>1. run' = run /\ store' = store
      BY <2>5 DEF Signal, Tick, ServeFails, Exited, vars, WorkerCancelled,
         WorkerStart, WorkerDelayOver, WorkerTakesTick, StartRunChecksContext, StartRunSkips,
         WorkerDone, ShutdownBegins, ShutdownDrained, ShutdownTimesOut, MainCancels,
         MainJoinsWorker, MainExits
    <3> QED BY <3>1
  <2>6. ASSUME NEW q \in Requests,
               Accept(q) \/ RequestBegins(q) \/ RequestEnds(q) \/ Respond(q)
        PROVE  active' = active /\ store' = store
    BY <2>6 DEF Accept, RequestBegins, RequestEnds, Respond
  <2> QED BY <1>2, <2>1, <2>2, <2>3, <2>4, <2>5, <2>6 DEF Next, Worker, Run, Main
<1>3. IInv /\ [Next]_vars => [Schedule!Next]_<<active, store = "closed">>
  BY <1>2
<1> QED BY <1>1, <1>3, InvHolds, PTL DEF Spec, ScheduleSpec, Schedule!Spec

-----------------------------------------------------------------------------
(* What the steps of main, of requests and of the environment do to the    *)
(* goroutines: a tick may come, nothing else.                              *)
Aside ==
  /\ UNCHANGED <<worker, running, run>>
  /\ tick' = tick \/ (worker = "loop" /\ tick = 0 /\ tick' = 1)

(* Every step is one of those, or a step of the worker or of one run; the  *)
(* context stays cancelled.                                                *)
LEMMA Moves ==
  ASSUME TypeOK, [Next]_vars
  PROVE  /\ cancelled => cancelled'
         /\ config' = config
         /\ Aside \/ Worker \/ WorkerCancelled \/ \E r \in Runs : RunBegins(r) \/ Run(r)
<1>1. CASE Signal \/ Tick \/ ServeFails \/ Exited \/ UNCHANGED vars
  BY <1>1 DEF Signal, Tick, ServeFails, MainTo, Exited, vars, Aside, TypeOK
<1>2. CASE Main
  BY <1>2 DEF Main, ShutdownBegins, ShutdownDrained, ShutdownTimesOut, MainCancels,
     MainJoinsWorker, MainClosesStore, MainExits, MainTo, Aside
<1>3. ASSUME NEW q \in Requests, Accept(q) \/ RequestBegins(q) \/ RequestEnds(q) \/ Respond(q)
      PROVE  Aside /\ config' = config /\ cancelled' = cancelled
  BY <1>3 DEF Aside, Accept, RequestBegins, RequestEnds, Respond
<1>4. CASE Worker \/ WorkerCancelled
  BY <1>4 DEF Worker, WorkerStart, WorkerDelayOver, WorkerTakesTick, StartRunChecksContext,
     StartRunClaims, StartRunSkips, WorkerDone, WorkerCancelled
<1>5. ASSUME NEW r \in Runs, RunBegins(r) \/ Run(r)
      PROVE  config' = config /\ cancelled' = cancelled
  BY <1>5 DEF Run, RunBegins, RunRefused, RunEnds, RunReports, RunReleases, RunLeaves
<1> QED BY <1>1, <1>2, <1>3, <1>4, <1>5 DEF Next

(* A step of one run leaves the worker and the other slots alone.          *)
LEMMA RunMoves ==
  ASSUME TypeOK, NEW r \in Runs, RunBegins(r) \/ Run(r)
  PROVE  /\ UNCHANGED <<worker, tick, main, cancelled>>
         /\ \A s \in Runs \ {r} : run'[s] = run[s]
         /\ \/ run[r] = "spawned" /\ ~cancelled /\ run'[r] = "tx" /\ running' = running
            \/ run[r] = "spawned" /\ cancelled /\ run'[r] = "reporting" /\ running' = running
            \/ run[r] = "tx" /\ run'[r] = "reporting" /\ running' = running
            \/ run[r] = "reporting" /\ run'[r] = "releasing" /\ running' = running
            \/ run[r] = "releasing" /\ run'[r] = "leaving" /\ running' = FALSE
            \/ run[r] = "leaving" /\ run'[r] = "free" /\ running' = running
<1>1. CASE RunBegins(r)
  BY <1>1 DEF RunBegins, TypeOK
<1>2. CASE RunRefused(r)
  BY <1>2 DEF RunRefused, TypeOK
<1>3. CASE RunEnds(r)
  BY <1>3 DEF RunEnds, TypeOK
<1>4. CASE RunReports(r)
  BY <1>4 DEF RunReports, TypeOK
<1>5. CASE RunReleases(r)
  BY <1>5 DEF RunReleases, TypeOK
<1>6. CASE RunLeaves(r)
  BY <1>6 DEF RunLeaves, TypeOK
<1> QED BY <1>1, <1>2, <1>3, <1>4, <1>5, <1>6 DEF Run

(* A step of the worker: it claims a slot for a new run, or leaves the     *)
(* runs alone.                                                             *)
LEMMA WorkerMoves ==
  ASSUME TypeOK, Worker \/ WorkerCancelled
  PROVE  /\ UNCHANGED <<main, cancelled>>
         /\ \/ /\ worker = "claiming" /\ ~running /\ worker' = "loop" /\ running' = TRUE
               /\ tick' = tick
               /\ \E r \in Runs : /\ run[r] = "free" /\ run'[r] = "spawned"
                                  /\ \A s \in Runs \ {r} : run'[s] = run[s]
            \/ /\ UNCHANGED <<running, run>>
               /\ \/ worker = "startup" /\ worker' \in {"starting", "delay", "loop"}
                  \/ worker = "delay" /\ worker' = "starting"
                  \/ worker = "loop" /\ worker' = "starting" /\ tick = 1
                  \/ worker = "starting" /\ ~cancelled /\ worker' = "claiming"
                  \/ worker = "starting" /\ cancelled /\ worker' = "loop"
                  \/ worker = "claiming" /\ running /\ worker' = "loop"
                  \/ worker \in {"delay", "loop"} /\ cancelled /\ worker' = "waiting"
                  \/ worker = "waiting" /\ worker' = "done"
<1>1. CASE StartRunClaims
  <2>1. PICK r \in Runs : run[r] = "free" /\ run' = [run EXCEPT ![r] = "spawned"]
    BY <1>1 DEF StartRunClaims
  <2>2. run'[r] = "spawned" /\ \A s \in Runs \ {r} : run'[s] = run[s]
    BY <2>1 DEF TypeOK
  <2> QED BY <1>1, <2>1, <2>2 DEF StartRunClaims, WorkerTo
<1>2. CASE WorkerTakesTick
  BY <1>2 DEF WorkerTakesTick, WorkerTo, TypeOK
<1>3. CASE \/ WorkerStart \/ WorkerDelayOver \/ StartRunChecksContext \/ StartRunSkips
           \/ WorkerDone \/ WorkerCancelled
  BY <1>3 DEF WorkerStart, WorkerDelayOver, StartRunChecksContext, StartRunSkips,
     WorkerDone, WorkerCancelled, WorkerTo
<1> QED BY <1>1, <1>2, <1>3 DEF Worker

-----------------------------------------------------------------------------
(* The flag `running' is set for a reason, an enabled worker exists, and   *)
(* it waits for its runs only after a cancel.                              *)
Purpose ==
  /\ running => \E r \in Runs : run[r] \in Claimed
  /\ config.enabled => worker # "none"
  /\ worker \in {"waiting", "done"} => cancelled

(* It holds in every reachable state.                                      *)
LEMMA PurposeHolds == Spec => []Purpose
<1>1. Init => Purpose
  BY DEF Init, Purpose
<1>2. ASSUME IInv, Purpose, [Next]_vars
      PROVE  Purpose'
  <2>1. TypeOK /\ (cancelled => cancelled') /\ config' = config
    BY <1>2, Moves DEF IInv
  <2>2. CASE Aside
    BY <1>2, <2>1, <2>2 DEF Aside, Purpose
  <2>3. CASE Worker \/ WorkerCancelled
    <3>1. CASE UNCHANGED <<running, run>>
      BY <1>2, <2>1, <2>3, <3>1, WorkerMoves DEF Purpose
    <3>2. CASE /\ worker = "claiming" /\ worker' = "loop"
               /\ \E r \in Runs : run[r] = "free" /\ run'[r] = "spawned"
      BY <1>2, <2>1, <3>2 DEF Purpose, Claimed
    <3> QED BY <2>1, <2>3, <3>1, <3>2, WorkerMoves
  <2>4. ASSUME NEW r \in Runs, RunBegins(r) \/ Run(r)
        PROVE  Purpose'
    <3>1. worker' = worker /\ \A s \in Runs \ {r} : run'[s] = run[s]
      BY <2>1, <2>4, RunMoves
    <3>2. running' => running /\ (run[r] \in Claimed => run'[r] \in Claimed)
      BY <2>1, <2>4, RunMoves DEF Claimed, TypeOK
    <3>3. running' => \E s \in Runs : run'[s] \in Claimed
      <4>1. running' => \E s \in Runs : run[s] \in Claimed
        BY <1>2, <3>2 DEF Purpose
      <4> QED BY <3>1, <3>2, <4>1
    <3> QED BY <1>2, <2>1, <3>1, <3>3 DEF Purpose
  <2> QED BY <1>2, <2>1, <2>2, <2>3, <2>4, Moves
<1>3. IInv /\ Purpose /\ [Next]_vars => Purpose'
  BY <1>2
<1> QED BY <1>1, <1>3, InvHolds, PTL DEF Spec

-----------------------------------------------------------------------------
(* The guards of the actions fairness is about.  ENABLED is beyond the     *)
(* provers: GuardsEnable, that each of these guards lets its action change *)
(* something, is read off the actions, each of which is guarded by these   *)
(* conditions alone, and is the hypothesis of the liveness theorems.       *)
WorkerReady ==
  /\ Alive
  /\ \/ worker \in {"startup", "delay", "starting"}
     \/ worker = "loop" /\ tick = 1
     \/ worker = "claiming" /\ (running \/ \E r \in Runs : run[r] = "free")
     \/ worker = "waiting" /\ \A r \in Runs : run[r] = "free"
CancelReady == Alive /\ cancelled /\ worker \in {"delay", "loop"}
TickReady == Alive /\ worker = "loop" /\ tick = 0
MainReady ==
  \/ main = "serving" /\ cancelled
  \/ main \in {"draining", "cancelling", "closing", "returning"}
  \/ main = "joining" /\ worker \in {"none", "done"}
RunReady(r) ==
  /\ Alive
  /\ run[r] \in {"tx", "reporting", "releasing", "leaving"} \/ (run[r] = "spawned" /\ cancelled)
BeginReady(r) == Alive /\ ~cancelled /\ run[r] = "spawned" /\ conn = Nobody
EndReady(q) == Alive /\ request[q] = "tx"
RunEnabled(r) ==
  /\ RunReady(r) => ENABLED <<Run(r)>>_vars
  /\ BeginReady(r) => ENABLED <<RunBegins(r)>>_vars
RequestEnabled(q) == EndReady(q) => ENABLED <<RequestEnds(q)>>_vars
GuardsEnable ==
  /\ WorkerReady => ENABLED <<Worker>>_vars
  /\ CancelReady => ENABLED <<WorkerCancelled>>_vars
  /\ TickReady => ENABLED <<Tick>>_vars
  /\ MainReady => ENABLED <<Main>>_vars
  /\ \A r \in Runs : RunEnabled(r)
  /\ \A q \in Requests : RequestEnabled(q)

-----------------------------------------------------------------------------
(* The names of what happens to a run, to the connection, to the worker.   *)
Progress == cancelled \/ ~Alive \/ \E r \in Runs : run[r] = "tx"
In(r, state) == run[r] = state
Holds(q) == conn = q
Free == conn = Nobody
Rest(state) == worker = state /\ ~running
Ticked(n) == tick = n
Rested == ~running
Ended == \E r \in Runs : In(r, "reporting") \/ In(r, "releasing")
Spawned == \E r \in Runs : In(r, "spawned")

Facts == IInv /\ Purpose /\ GuardsEnable

(* The holder of the connection keeps it or frees it.                      *)
LEMMA HolderWaits ==
  ASSUME IInv, NEW q \in Requests, Holds(q), [Next]_vars
  PROVE  Holds(q)' \/ Free'
<1>1. conn # Nobody /\ TypeOK
  BY ServerAssumption DEF Holds, IInv
<1>2. CASE Signal \/ Tick \/ ServeFails \/ Exited \/ UNCHANGED vars \/ WorkerCancelled
  BY <1>2 DEF Signal, Tick, ServeFails, Exited, vars, WorkerCancelled, Holds
<1>3. CASE Main
  BY <1>3 DEF Main, ShutdownBegins, ShutdownDrained, ShutdownTimesOut, MainCancels,
     MainJoinsWorker, MainClosesStore, MainExits, Holds
<1>4. CASE Worker
  BY <1>4 DEF Worker, WorkerStart, WorkerDelayOver, WorkerTakesTick, StartRunChecksContext,
     StartRunClaims, StartRunSkips, WorkerDone, Holds
<1>5. ASSUME NEW r \in Runs, RunBegins(r) \/ Run(r)
      PROVE  Holds(q)' \/ Free'
  BY <1>1, <1>5 DEF Run, RunBegins, RunRefused, RunEnds, RunReports, RunReleases, RunLeaves, Holds, Free
<1>6. ASSUME NEW p \in Requests, Accept(p) \/ RequestBegins(p) \/ RequestEnds(p) \/ Respond(p)
      PROVE  Holds(q)' \/ Free'
  BY <1>1, <1>6 DEF Accept, RequestBegins, RequestEnds, Respond, Holds, Free
<1> QED BY <1>2, <1>3, <1>4, <1>5, <1>6 DEF Next

(* A request that holds the connection returns it.                         *)
LEMMA HolderReturns ==
  ASSUME NEW p \in Requests
  PROVE  [][Next]_vars /\ []Facts /\ []Fairness => (Holds(p) ~> Free \/ Progress)
<1>1. Facts /\ Holds(p) /\ [Next]_vars => Holds(p)' \/ Free'
  BY HolderWaits DEF Facts
<1>2. Facts /\ Holds(p) /\ <<RequestEnds(p)>>_vars => Free'
  BY DEF RequestEnds, Free
<1>3. Facts /\ Holds(p) => Progress \/ ENABLED <<RequestEnds(p)>>_vars
  <2>1. Facts => RequestEnabled(p)
    BY DEF Facts, GuardsEnable
  <2>2. Facts /\ Holds(p) => Progress \/ EndReady(p)
    BY DEF Facts, IInv, HolderInTransaction, Holds, Progress, EndReady
  <2> QED BY <2>1, <2>2 DEF RequestEnabled
<1>4. []Fairness => WF_vars(RequestEnds(p))
  <2>1. (\A q \in Requests : FairRequest(q)) => FairRequest(p)
    OBVIOUS
  <2> QED BY <2>1, PTL DEF Fairness, FairRequest
<1> QED BY <1>1, <1>2, <1>3, <1>4, PTL

(* What any step does to one slot.                                         *)
LEMMA SlotSteps ==
  ASSUME TypeOK, NEW r \in Runs, [Next]_vars
  PROVE  \/ run'[r] = run[r]
         \/ run[r] = "free" /\ run'[r] = "spawned" /\ worker = "claiming"
         \/ run[r] = "spawned" /\ run'[r] = "tx" /\ ~cancelled
         \/ run[r] = "spawned" /\ run'[r] = "reporting" /\ cancelled
         \/ run[r] = "tx" /\ run'[r] = "reporting"
         \/ run[r] = "reporting" /\ run'[r] = "releasing"
         \/ run[r] = "releasing" /\ run'[r] = "leaving" /\ running' = FALSE
         \/ run[r] = "leaving" /\ run'[r] = "free"
<1>1. CASE Aside
  BY <1>1 DEF Aside
<1>2. CASE Worker \/ WorkerCancelled
  BY <1>2, WorkerMoves
<1>3. ASSUME NEW s \in Runs, RunBegins(s) \/ Run(s), s # r
      PROVE  run'[r] = run[r]
  BY <1>3, RunMoves
<1>4. CASE RunBegins(r) \/ Run(r)
  BY <1>4, RunMoves
<1> QED BY <1>1, <1>2, <1>3, <1>4, Moves

(* Whoever has the connection, it comes free again and again.              *)
LEMMA ConnectionComesFree ==
  ASSUME [][Next]_vars, []Facts, []Fairness
  PROVE  [](<>(Free \/ Progress))
<1>1. (\E p \in Requests : Holds(p)) => <>(Free \/ Progress)
  <2>1. ASSUME NEW p \in Requests
        PROVE  Holds(p) => <>(Free \/ Progress)
    <3>1. [][Next]_vars /\ []Facts /\ []Fairness => (Holds(p) ~> Free \/ Progress)
      BY HolderReturns
    <3> QED BY <3>1, PTL
  <2> HIDE DEF Holds, Free, Progress
  <2> QED BY <2>1
<1>2. Facts => Free \/ Progress \/ \E p \in Requests : Holds(p)
  BY DEF Facts, IInv, TypeOK, HolderInTransaction, Free, Progress, Holds
<1> QED BY <1>1, <1>2, PTL

(* A spawned run gets the connection in its turn.                          *)
LEMMA SpawnedRuns ==
  ASSUME NEW s \in Runs
  PROVE  [][Next]_vars /\ []Facts /\ []Fairness => (In(s, "spawned") ~> Progress)
<1>1. Facts /\ In(s, "spawned") /\ [Next]_vars => In(s, "spawned")' \/ Progress'
  <2>1. ASSUME Facts, In(s, "spawned"), [Next]_vars
        PROVE  In(s, "spawned")' \/ Progress'
    <3>1. TypeOK /\ (cancelled => cancelled')
      BY <2>1, Moves DEF Facts, IInv
    <3> QED BY <2>1, <3>1, SlotSteps DEF In, Progress
  <2> QED BY <2>1
<1>2. Facts /\ In(s, "spawned") /\ <<RunBegins(s)>>_vars => Progress'
  BY DEF Facts, IInv, TypeOK, RunBegins, Progress
<1>3. Facts /\ In(s, "spawned") /\ Free => Progress \/ ENABLED <<RunBegins(s)>>_vars
  <2>1. Facts => RunEnabled(s)
    BY DEF Facts, GuardsEnable
  <2>2. In(s, "spawned") /\ Free => Progress \/ BeginReady(s)
    BY DEF In, Free, Progress, BeginReady
  <2> QED BY <2>1, <2>2 DEF RunEnabled
<1>4. []Fairness => SF_vars(RunBegins(s))
  <2>1. (\A r \in Runs : FairRun(r)) => FairRun(s)
    OBVIOUS
  <2> QED BY <2>1, PTL DEF Fairness, FairRun
<1>5. [][Next]_vars /\ []Facts /\ []Fairness => []<>(Free \/ Progress)
  BY ConnectionComesFree, PTL
<1> QED BY <1>1, <1>2, <1>3, <1>4, <1>5, PTL

(* A run that has ended gives the flag back.                               *)
LEMMA EndedReleases ==
  ASSUME NEW s \in Runs
  PROVE  [][Next]_vars /\ []Facts /\ []Fairness =>
           (In(s, "reporting") \/ In(s, "releasing") ~> Rested \/ Progress)
<1>1. Facts /\ In(s, "reporting") /\ [Next]_vars => In(s, "reporting")' \/ In(s, "releasing")'
  BY SlotSteps DEF Facts, IInv, In
<1>2. Facts /\ In(s, "reporting") /\ <<Run(s)>>_vars => In(s, "releasing")'
  BY RunMoves DEF Facts, IInv, In
<1>3. Facts /\ In(s, "releasing") /\ [Next]_vars => In(s, "releasing")' \/ Rested'
  BY SlotSteps DEF Facts, IInv, In, Rested
<1>4. Facts /\ In(s, "releasing") /\ <<Run(s)>>_vars => Rested'
  BY RunMoves DEF Facts, IInv, In, Rested
<1>5. Facts /\ (In(s, "reporting") \/ In(s, "releasing")) => Progress \/ ENABLED <<Run(s)>>_vars
  <2>1. Facts => RunEnabled(s)
    BY DEF Facts, GuardsEnable
  <2> QED BY <2>1 DEF RunEnabled, RunReady, In, Progress
<1>6. []Fairness => WF_vars(Run(s))
  <2>1. (\A r \in Runs : FairRun(r)) => FairRun(s)
    OBVIOUS
  <2> QED BY <2>1, PTL DEF Fairness, FairRun
<1> QED BY <1>1, <1>2, <1>3, <1>4, <1>5, <1>6, PTL

(* So does whichever run there is.                                         *)
LEMMA SpawnedProgresses ==
  ASSUME [][Next]_vars, []Facts, []Fairness
  PROVE  [](Spawned => <>Progress)
<1>1. Spawned => <>Progress
  <2>1. ASSUME NEW s \in Runs
        PROVE  In(s, "spawned") => <>Progress
    <3>1. [][Next]_vars /\ []Facts /\ []Fairness => (In(s, "spawned") ~> Progress)
      BY SpawnedRuns
    <3> QED BY <3>1, PTL
  <2> HIDE DEF In, Progress
  <2> QED BY <2>1 DEF Spawned
<1> QED BY <1>1, PTL

(* The flag is given back unless a run gets on first.                      *)
LEMMA BusyRests ==
  ASSUME [][Next]_vars, []Facts, []Fairness
  PROVE  [](running => <>(Rested \/ Progress))
<1>1. Ended => <>(Rested \/ Progress)
  <2>1. ASSUME NEW s \in Runs
        PROVE  In(s, "reporting") \/ In(s, "releasing") => <>(Rested \/ Progress)
    <3>1. [][Next]_vars /\ []Facts /\ []Fairness =>
            (In(s, "reporting") \/ In(s, "releasing") ~> Rested \/ Progress)
      BY EndedReleases
    <3> QED BY <3>1, PTL
  <2> HIDE DEF In, Progress, Rested
  <2> QED BY <2>1 DEF Ended
<1>2. Facts /\ running => Progress \/ Spawned \/ Ended
  BY DEF Facts, Purpose, Claimed, Progress, Spawned, Ended, In
<1> QED BY <1>1, <1>2, SpawnedProgresses, PTL

(* What a step does while no run owns the flag: a run is spawned, or the   *)
(* worker goes on.                                                         *)
LEMMA RestSteps ==
  ASSUME TypeOK, Rested, [Next]_vars
  PROVE  \/ Spawned' \/ Progress'
         \/ /\ Rested'
            /\ \/ /\ worker' = worker
                  /\ tick' = tick \/ (worker = "loop" /\ tick = 0 /\ tick' = 1)
               \/ worker = "startup" /\ worker' \in {"starting", "delay", "loop"}
               \/ worker = "delay" /\ worker' = "starting"
               \/ worker = "loop" /\ worker' = "starting" /\ tick = 1
               \/ worker = "starting" /\ worker' = "claiming"
               \/ worker = "waiting" /\ worker' = "done"
<1>1. cancelled => cancelled'
  BY Moves
<1>2. CASE Aside
  BY <1>2 DEF Aside, Rested
<1>3. CASE Worker \/ WorkerCancelled
  <2>1. CASE \E r \in Runs : run'[r] = "spawned"
    BY <2>1 DEF Spawned, In
  <2>2. CASE cancelled
    BY <1>1, <2>2 DEF Progress
  <2> QED BY <1>3, <2>1, <2>2, WorkerMoves DEF Rested
<1>4. ASSUME NEW r \in Runs, RunBegins(r) \/ Run(r)
      PROVE  Rested' /\ worker' = worker /\ tick' = tick
  BY <1>4, RunMoves DEF Rested
<1> QED BY <1>2, <1>3, <1>4, Moves

(* What a step of the worker does there.                                   *)
LEMMA RestWorks ==
  ASSUME TypeOK, Rested, <<Worker>>_vars
  PROVE  \/ Spawned' \/ Progress'
         \/ /\ Rested'
            /\ \/ worker = "startup" /\ worker' \in {"starting", "delay", "loop"}
               \/ worker = "delay" /\ worker' = "starting"
               \/ worker = "loop" /\ worker' = "starting"
               \/ worker = "starting" /\ worker' = "claiming"
               \/ worker = "waiting" /\ worker' = "done"
<1>1. CASE \E r \in Runs : run'[r] = "spawned"
  BY <1>1 DEF Spawned, In
<1>2. CASE cancelled
  BY <1>2, WorkerMoves DEF Progress
<1> QED BY <1>1, <1>2, WorkerMoves DEF Rested

(* What the worker at rest leads to.                                       *)
Goal == Spawned \/ Progress

(* Run leaves its startup, ...                                             *)
LEMMA StartupPasses ==
  [][Next]_vars /\ []Facts /\ []Fairness =>
    (Rest("startup") ~> Rest("starting") \/ Rest("delay") \/ Rest("loop") \/ Goal)
<1>1. Facts /\ Rest("startup") /\ [Next]_vars =>
        Rest("startup")' \/ (Rest("starting") \/ Rest("delay") \/ Rest("loop") \/ Goal)'
  BY RestSteps DEF Facts, IInv, Rest, Rested, Goal
<1>2. Facts /\ Rest("startup") /\ <<Worker>>_vars =>
        (Rest("starting") \/ Rest("delay") \/ Rest("loop") \/ Goal)'
  BY RestWorks DEF Facts, IInv, Rest, Rested, Goal
<1>3. Facts /\ Rest("startup") => Goal \/ ENABLED <<Worker>>_vars
  BY DEF Facts, GuardsEnable, WorkerReady, Rest, Goal, Progress
<1> QED BY <1>1, <1>2, <1>3, PTL DEF Fairness

(* ... the delay is over, ...                                              *)
LEMMA DelayPasses ==
  [][Next]_vars /\ []Facts /\ []Fairness => (Rest("delay") ~> Rest("starting") \/ Goal)
<1>1. Facts /\ Rest("delay") /\ [Next]_vars => Rest("delay")' \/ (Rest("starting") \/ Goal)'
  BY RestSteps DEF Facts, IInv, Rest, Rested, Goal
<1>2. Facts /\ Rest("delay") /\ <<Worker>>_vars => (Rest("starting") \/ Goal)'
  BY RestWorks DEF Facts, IInv, Rest, Rested, Goal
<1>3. Facts /\ Rest("delay") => Goal \/ ENABLED <<Worker>>_vars
  BY DEF Facts, GuardsEnable, WorkerReady, Rest, Goal, Progress
<1> QED BY <1>1, <1>2, <1>3, PTL DEF Fairness

(* ... a tick comes and is taken, ...                                      *)
LEMMA TickTaken ==
  [][Next]_vars /\ []Facts /\ []Fairness => (Rest("loop") ~> Rest("starting") \/ Goal)
<1>1. Facts /\ Rest("loop") /\ [Next]_vars => Rest("loop")' \/ (Rest("starting") \/ Goal)'
  BY RestSteps DEF Facts, IInv, Rest, Rested, Goal
<1>2. Facts /\ Rest("loop") /\ Ticked(1) /\ [Next]_vars =>
        Ticked(1)' \/ (Rest("starting") \/ Goal)'
  BY RestSteps DEF Facts, IInv, Rest, Rested, Goal, Ticked
<1>3. Facts /\ Rest("loop") /\ <<Tick>>_vars => Ticked(1)' \/ Goal'
  BY DEF Facts, IInv, TypeOK, Tick, Ticked
<1>4. Facts /\ Rest("loop") /\ <<Worker>>_vars => (Rest("starting") \/ Goal)'
  BY RestWorks DEF Facts, IInv, Rest, Rested, Goal
<1>5. Facts /\ Rest("loop") => Ticked(1) \/ Goal \/ ENABLED <<Tick>>_vars
  BY DEF Facts, IInv, TypeOK, GuardsEnable, TickReady, Rest, Goal, Progress, Ticked
<1>6. Facts /\ Rest("loop") /\ Ticked(1) => Goal \/ ENABLED <<Worker>>_vars
  BY DEF Facts, GuardsEnable, WorkerReady, Rest, Goal, Progress, Ticked
<1> QED BY <1>1, <1>2, <1>3, <1>4, <1>5, <1>6, PTL DEF Fairness

(* ... startRun looks at the context, ...                                  *)
LEMMA StartChecks ==
  [][Next]_vars /\ []Facts /\ []Fairness => (Rest("starting") ~> Rest("claiming") \/ Goal)
<1>1. Facts /\ Rest("starting") /\ [Next]_vars => Rest("starting")' \/ (Rest("claiming") \/ Goal)'
  BY RestSteps DEF Facts, IInv, Rest, Rested, Goal
<1>2. Facts /\ Rest("starting") /\ <<Worker>>_vars => (Rest("claiming") \/ Goal)'
  BY RestWorks DEF Facts, IInv, Rest, Rested, Goal
<1>3. Facts /\ Rest("starting") => Goal \/ ENABLED <<Worker>>_vars
  BY DEF Facts, GuardsEnable, WorkerReady, Rest, Goal, Progress
<1> QED BY <1>1, <1>2, <1>3, PTL DEF Fairness

(* ... and claims a slot, at the latest when the goroutine that leaves it  *)
(* is gone.                                                                *)
LEMMA ClaimSucceeds ==
  ASSUME NEW s \in Runs
  PROVE  [][Next]_vars /\ []Facts /\ []Fairness => (Rest("claiming") ~> Goal)
<1>1. Facts /\ Rest("claiming") /\ [Next]_vars => (Rest("claiming") \/ Goal)'
  BY RestSteps DEF Facts, IInv, Rest, Rested, Goal
<1>2. Facts /\ Rest("claiming") => In(s, "leaving") \/ In(s, "free")
  BY DEF Facts, IInv, FlagOwned, TypeOK, RunStates, Claimed, Rest, In
<1>3. Facts /\ Rest("claiming") /\ In(s, "free") /\ [Next]_vars => In(s, "free")' \/ Goal'
  BY SlotSteps DEF Facts, IInv, In, Goal, Spawned
<1>4. Facts /\ Rest("claiming") /\ In(s, "leaving") /\ <<Run(s)>>_vars => In(s, "free")'
  BY RunMoves DEF Facts, IInv, In
<1>5. Facts /\ Rest("claiming") /\ <<Worker>>_vars => Goal'
  BY RestWorks DEF Facts, IInv, Rest, Rested, Goal
<1>6. Facts /\ Rest("claiming") /\ In(s, "leaving") => Goal \/ ENABLED <<Run(s)>>_vars
  <2>1. Facts => RunEnabled(s)
    BY DEF Facts, GuardsEnable
  <2> QED BY <2>1 DEF RunEnabled, RunReady, In, Goal, Progress
<1>7. Facts /\ Rest("claiming") /\ In(s, "free") => Goal \/ ENABLED <<Worker>>_vars
  BY DEF Facts, GuardsEnable, WorkerReady, Rest, In, Goal, Progress
<1>8. []Fairness => WF_vars(Run(s)) /\ WF_vars(Worker)
  <2>1. (\A r \in Runs : FairRun(r)) => FairRun(s)
    OBVIOUS
  <2> QED BY <2>1, PTL DEF Fairness, FairRun
<1> QED BY <1>1, <1>2, <1>3, <1>4, <1>5, <1>6, <1>7, <1>8, PTL

(* An enabled worker starts run after run until the process is told to     *)
(* stop, however many requests compete for the connection.  []Fairness is  *)
(* Fairness, which once true stays true; the provers do not carry [] over  *)
(* its quantifiers.                                                        *)
THEOREM WorkerKeepsRunningHolds ==
  ASSUME Runs # {}
  PROVE  Spec /\ []Fairness /\ []GuardsEnable => WorkerKeepsRunning
<1>1. PICK s \in Runs : TRUE
  OBVIOUS
<1>2. [][Next]_vars /\ []Facts /\ []Fairness => (Rest("claiming") ~> Goal)
  BY ClaimSucceeds
<1>3. [][Next]_vars /\ []Facts /\ []Fairness => [](Spawned => <>Progress)
  BY SpawnedProgresses, PTL
<1>4. [][Next]_vars /\ []Facts /\ []Fairness => [](running => <>(Rested \/ Progress))
  BY BusyRests, PTL
<1>5. Facts /\ config.enabled =>
        \/ running \/ Goal
        \/ Rest("startup") \/ Rest("delay") \/ Rest("loop") \/ Rest("starting") \/ Rest("claiming")
  BY DEF Facts, IInv, TypeOK, WorkerStates, Purpose, Goal, Progress, Rest
<1>6. Facts /\ config.enabled /\ [Next]_vars => (config.enabled)'
  BY Moves DEF Facts, IInv
<1>7. WorkerKeepsRunning <=> (config.enabled => []<>Progress)
  BY DEF WorkerKeepsRunning, Progress
<1>8. IInv /\ Purpose /\ GuardsEnable => Facts
  BY DEF Facts
<1>9. Facts => (Rested <=> ~running)
  BY DEF Rested
<1> QED BY <1>2, <1>3, <1>4, <1>5, <1>6, <1>7, <1>8, <1>9, InvHolds, PurposeHolds,
           StartupPasses, DelayPasses, TickTaken, StartChecks, PTL DEF Spec, Goal

-----------------------------------------------------------------------------
(* Shutdown.                                                               *)
Gone == ~Alive
At(state) == worker = state
Joined == worker \in {"none", "done"}
Stage(state) == main = state
FairWorker == WF_vars(Worker) /\ SF_vars(WorkerCancelled)
Winding == worker \in {"startup", "delay", "loop", "starting", "claiming"}

(* The worker under a cancelled context.                                   *)
LEMMA WindSteps ==
  ASSUME TypeOK, cancelled, [Next]_vars
  PROVE  \/ worker' = worker
         \/ worker = "startup" /\ worker' \in {"starting", "delay", "loop"}
         \/ worker = "delay" /\ worker' \in {"starting", "waiting"}
         \/ worker = "loop" /\ worker' \in {"starting", "waiting"}
         \/ worker = "starting" /\ worker' = "loop"
         \/ worker = "claiming" /\ worker' = "loop"
         \/ worker = "waiting" /\ worker' = "done"
<1>1. CASE Aside
  BY <1>1 DEF Aside
<1>2. CASE Worker \/ WorkerCancelled
  BY <1>2, WorkerMoves
<1>3. CASE \E r \in Runs : RunBegins(r) \/ Run(r)
  BY <1>3, RunMoves
<1> QED BY <1>1, <1>2, <1>3, Moves

(* A step of the worker under a cancelled context.                         *)
LEMMA WindWorks ==
  ASSUME TypeOK, cancelled, <<Worker>>_vars
  PROVE  \/ worker = "startup" /\ worker' \in {"starting", "delay", "loop"}
         \/ worker = "delay" /\ worker' \in {"starting", "waiting"}
         \/ worker = "loop" /\ worker' \in {"starting", "waiting"}
         \/ worker = "starting" /\ worker' = "loop"
         \/ worker = "claiming" /\ worker' = "loop"
         \/ worker = "waiting" /\ worker' = "done"
BY WorkerMoves

(* The flag is not set again before the worker's next claim.               *)
LEMMA FlagStays ==
  ASSUME TypeOK, Rested, [Next]_vars, worker' = "claiming"
  PROVE  Rested'
<1>1. CASE Worker \/ WorkerCancelled
  BY <1>1, WorkerMoves DEF Rested
<1>2. CASE Aside
  BY <1>2 DEF Aside, Rested
<1>3. CASE \E r \in Runs : RunBegins(r) \/ Run(r)
  BY <1>3, RunMoves DEF Rested
<1> QED BY <1>1, <1>2, <1>3, Moves

(* A cancelled context stays so.                                           *)
LEMMA Cancelled == Facts /\ cancelled /\ [Next]_vars => (cancelled)'
BY Moves DEF Facts, IInv

(* Under a cancelled context Run leaves its startup too, ...               *)
LEMMA StartupWinds ==
  [][Next]_vars /\ []Facts /\ WF_vars(Worker) =>
    (cancelled /\ At("startup") ~> At("starting") \/ At("delay") \/ At("loop") \/ Gone)
<1>1. Facts /\ cancelled /\ At("startup") /\ [Next]_vars =>
        At("startup")' \/ (At("starting") \/ At("delay") \/ At("loop") \/ Gone)'
  BY WindSteps DEF Facts, IInv, At
<1>2. Facts /\ cancelled /\ At("startup") /\ <<Worker>>_vars =>
        (At("starting") \/ At("delay") \/ At("loop") \/ Gone)'
  BY WindWorks DEF Facts, IInv, At
<1>3. Facts /\ At("startup") => Gone \/ ENABLED <<Worker>>_vars
  BY DEF Facts, GuardsEnable, WorkerReady, At, Gone
<1> QED BY <1>1, <1>2, <1>3, Cancelled, PTL

(* ... startRun goes back to the loop, ...                                 *)
LEMMA StartWinds ==
  [][Next]_vars /\ []Facts /\ WF_vars(Worker) =>
    (cancelled /\ At("starting") ~> At("loop") \/ Gone)
<1>1. Facts /\ cancelled /\ At("starting") /\ [Next]_vars => At("starting")' \/ (At("loop") \/ Gone)'
  BY WindSteps DEF Facts, IInv, At
<1>2. Facts /\ cancelled /\ At("starting") /\ <<Worker>>_vars => (At("loop") \/ Gone)'
  BY WindWorks DEF Facts, IInv, At
<1>3. Facts /\ At("starting") => Gone \/ ENABLED <<Worker>>_vars
  BY DEF Facts, GuardsEnable, WorkerReady, At, Gone
<1> QED BY <1>1, <1>2, <1>3, Cancelled, PTL

(* ... and so it does when it had passed the check before the cancel.      *)
LEMMA ClaimWinds ==
  ASSUME NEW s \in Runs
  PROVE  [][Next]_vars /\ []Facts /\ FairWorker /\ FairRun(s) =>
           (cancelled /\ At("claiming") ~> At("loop") \/ Gone)
<1>1. Facts /\ cancelled /\ At("claiming") /\ [Next]_vars => (At("claiming") \/ At("loop"))'
  BY WindSteps DEF Facts, IInv, At
<1>2. Facts /\ Rested /\ At("claiming") /\ [Next]_vars => Rested' \/ ~At("claiming")'
  BY FlagStays DEF Facts, IInv, At
<1>3. Facts /\ Rested => In(s, "leaving") \/ In(s, "free")
  BY DEF Facts, IInv, FlagOwned, TypeOK, RunStates, Claimed, Rested, In
<1>4. Facts /\ cancelled /\ At("claiming") /\ In(s, "free") /\ [Next]_vars =>
        In(s, "free")' \/ At("loop")'
  <2>1. ASSUME Facts, cancelled, At("claiming"), In(s, "free"), [Next]_vars, ~At("loop")'
        PROVE  In(s, "free")'
    <3>1. TypeOK /\ worker' = "claiming" /\ worker = "claiming"
      BY <1>1, <2>1 DEF Facts, IInv, At
    <3>2. CASE Aside
      BY <2>1, <3>2 DEF Aside, In
    <3>3. CASE Worker \/ WorkerCancelled
      BY <2>1, <3>1, <3>3, WorkerMoves DEF In
    <3>4. ASSUME NEW r \in Runs, RunBegins(r) \/ Run(r)
          PROVE  In(s, "free")'
      BY <2>1, <3>1, <3>4, RunMoves DEF In
    <3> QED BY <2>1, <3>1, <3>2, <3>3, <3>4, Moves
  <2> QED BY <2>1
<1>5. Facts /\ In(s, "leaving") /\ [Next]_vars => In(s, "leaving")' \/ In(s, "free")'
  BY SlotSteps DEF Facts, IInv, In
<1>6. Facts /\ In(s, "leaving") /\ <<Run(s)>>_vars => In(s, "free")'
  BY RunMoves DEF Facts, IInv, In
<1>7. Facts /\ cancelled /\ At("claiming") /\ <<Worker>>_vars => At("loop")'
  BY WindWorks DEF Facts, IInv, At
<1>8. Facts /\ In(s, "leaving") => Gone \/ ENABLED <<Run(s)>>_vars
  <2>1. Facts => RunEnabled(s)
    BY DEF Facts, GuardsEnable
  <2> QED BY <2>1 DEF RunEnabled, RunReady, In, Gone
<1>9. Facts /\ At("claiming") /\ In(s, "free") => Gone \/ ENABLED <<Worker>>_vars
  BY DEF Facts, GuardsEnable, WorkerReady, At, In, Gone
<1>10. Facts /\ At("claiming") => Rested \/ Gone \/ ENABLED <<Worker>>_vars
  BY DEF Facts, GuardsEnable, WorkerReady, At, Rested, Gone
<1> QED BY <1>1, <1>2, <1>3, <1>4, <1>5, <1>6, <1>7, <1>8, <1>9, <1>10, Cancelled, PTL DEF FairRun, FairWorker

(* The select of Run meets the cancelled context again and again, and so   *)
(* takes that case once.                                                   *)
LEMMA WorkerStops ==
  ASSUME NEW s \in Runs
  PROVE  [][Next]_vars /\ []Facts /\ FairWorker /\ FairRun(s) =>
           (cancelled /\ Winding ~> At("waiting") \/ Gone)
<1>1. Facts /\ cancelled /\ Winding /\ [Next]_vars => Winding' \/ At("waiting")'
  BY WindSteps DEF Facts, IInv, At, Winding
<1>2. Facts /\ cancelled /\ <<WorkerCancelled>>_vars => At("waiting")'
  BY DEF WorkerCancelled, WorkerTo, At
<1>3. Facts /\ cancelled /\ (At("loop") \/ At("delay")) => Gone \/ ENABLED <<WorkerCancelled>>_vars
  BY DEF Facts, GuardsEnable, CancelReady, At, Gone
<1>4. Winding => At("startup") \/ At("delay") \/ At("loop") \/ At("starting") \/ At("claiming")
  BY DEF Winding, At
<1>5. [][Next]_vars /\ []Facts /\ FairWorker /\ FairRun(s) =>
        (cancelled /\ At("claiming") ~> At("loop") \/ Gone)
  BY ClaimWinds
<1> QED BY <1>1, <1>2, <1>3, <1>4, <1>5, StartupWinds, StartWinds, Cancelled, PTL DEF FairRun, FairWorker

Drains(s) == At("waiting") ~> (At("waiting") /\ In(s, "free")) \/ Joined \/ Gone

(* While Run waits, each goroutine gives up its wait for the connection or *)
(* ends its transaction, and leaves.                                       *)
LEMMA SlotDrains ==
  ASSUME NEW s \in Runs
  PROVE  [][Next]_vars /\ []Facts /\ FairRun(s) => Drains(s)
<1>1. Facts /\ At("waiting") /\ [Next]_vars => (At("waiting") \/ Joined)'
  BY WindSteps DEF Facts, IInv, Purpose, At, Joined
<1>2. Facts /\ At("waiting") /\ (In(s, "spawned") \/ In(s, "tx")) /\ [Next]_vars =>
        (In(s, "spawned") \/ In(s, "tx") \/ In(s, "reporting"))'
  BY SlotSteps DEF Facts, IInv, In
<1>3. Facts /\ At("waiting") /\ (In(s, "spawned") \/ In(s, "tx")) /\ <<Run(s)>>_vars => In(s, "reporting")'
  BY DEF Facts, IInv, Purpose, TypeOK, At, In, Run, RunRefused, RunEnds, RunReports, RunReleases, RunLeaves
<1>4. Facts /\ In(s, "reporting") /\ [Next]_vars => In(s, "reporting")' \/ In(s, "releasing")'
  BY SlotSteps DEF Facts, IInv, In
<1>5. Facts /\ In(s, "reporting") /\ <<Run(s)>>_vars => In(s, "releasing")'
  BY RunMoves DEF Facts, IInv, In
<1>6. Facts /\ In(s, "releasing") /\ [Next]_vars => In(s, "releasing")' \/ In(s, "leaving")'
  BY SlotSteps DEF Facts, IInv, In
<1>7. Facts /\ In(s, "releasing") /\ <<Run(s)>>_vars => In(s, "leaving")'
  BY RunMoves DEF Facts, IInv, In
<1>8. Facts /\ In(s, "leaving") /\ [Next]_vars => In(s, "leaving")' \/ In(s, "free")'
  BY SlotSteps DEF Facts, IInv, In
<1>9. Facts /\ In(s, "leaving") /\ <<Run(s)>>_vars => In(s, "free")'
  BY RunMoves DEF Facts, IInv, In
<1>10. Facts /\ At("waiting") =>
         \/ In(s, "free") \/ In(s, "spawned") \/ In(s, "tx")
         \/ In(s, "reporting") \/ In(s, "releasing") \/ In(s, "leaving")
  BY DEF Facts, IInv, TypeOK, RunStates, In
<1>11. Facts /\ At("waiting") /\ ~In(s, "free") => Gone \/ ENABLED <<Run(s)>>_vars
  <2>1. Facts => RunEnabled(s)
    BY DEF Facts, GuardsEnable
  <2>2. Facts /\ At("waiting") /\ ~In(s, "free") => Gone \/ RunReady(s)
    BY <1>10 DEF Facts, Purpose, RunReady, At, In, Gone
  <2> QED BY <2>1, <2>2 DEF RunEnabled
<1> QED BY <1>1, <1>2, <1>3, <1>4, <1>5, <1>6, <1>7, <1>8, <1>9, <1>10, <1>11, PTL DEF FairRun, Drains

(* No goroutine is started while Run waits.                                *)
LEMMA FreeStays ==
  ASSUME NEW s \in Runs
  PROVE  Facts /\ At("waiting") /\ In(s, "free") /\ [Next]_vars => In(s, "free")'
BY SlotSteps DEF Facts, IInv, At, In

(* With two slots, both are free at last and Run returns.                  *)
LEMMA WorkerReturns ==
  ASSUME NEW a, NEW b, Runs = {a, b}
  PROVE  [][Next]_vars /\ []Facts /\ FairWorker /\ FairRun(a) /\ FairRun(b) =>
           (At("waiting") ~> Joined \/ Gone)
<1>1. a \in Runs /\ b \in Runs
  OBVIOUS
<1>2. [][Next]_vars /\ []Facts /\ FairRun(a) => Drains(a)
  BY <1>1, SlotDrains
<1>3. [][Next]_vars /\ []Facts /\ FairRun(b) => Drains(b)
  BY <1>1, SlotDrains
<1>4. Facts /\ At("waiting") /\ In(a, "free") /\ [Next]_vars => In(a, "free")'
  BY <1>1, FreeStays
<1>5. Facts /\ At("waiting") /\ In(b, "free") /\ [Next]_vars => In(b, "free")'
  BY <1>1, FreeStays
<1>6. Facts /\ At("waiting") /\ [Next]_vars => (At("waiting") \/ Joined)'
  BY WindSteps DEF Facts, IInv, Purpose, At, Joined
<1>7. Facts /\ At("waiting") /\ <<Worker>>_vars => Joined'
  BY WindWorks DEF Facts, IInv, Purpose, At, Joined
<1>8. Facts /\ At("waiting") /\ In(a, "free") /\ In(b, "free") => Gone \/ ENABLED <<Worker>>_vars
  BY DEF Facts, GuardsEnable, WorkerReady, At, In, Gone
<1> QED BY <1>2, <1>3, <1>4, <1>5, <1>6, <1>7, <1>8, PTL DEF FairWorker, Drains

(* runServer goes on from stage to stage.                                  *)
LEMMA StageSteps ==
  ASSUME TypeOK, [Next]_vars
  PROVE  \/ main' = main
         \/ main = "serving" /\ main' \in {"draining", "cancelling"}
         \/ main = "draining" /\ main' = "cancelling"
         \/ main = "cancelling" /\ main' = "joining"
         \/ main = "joining" /\ main' = "closing"
         \/ main = "closing" /\ main' = "returning"
         \/ main = "returning" /\ main' = "exited"
<1>1. CASE Main
  BY <1>1 DEF Main, ShutdownBegins, ShutdownDrained, ShutdownTimesOut, MainCancels,
     MainJoinsWorker, MainClosesStore, MainExits, MainTo
<1>2. CASE Signal \/ Tick \/ ServeFails \/ Exited \/ UNCHANGED vars
  BY <1>2 DEF Signal, Tick, ServeFails, Exited, vars, MainTo
<1>3. CASE Worker \/ WorkerCancelled
  BY <1>3, WorkerMoves
<1>4. ASSUME NEW r \in Runs, RunBegins(r) \/ Run(r)
      PROVE  main' = main
  BY <1>4, RunMoves
<1>5. ASSUME NEW q \in Requests, Accept(q) \/ RequestBegins(q) \/ RequestEnds(q) \/ Respond(q)
      PROVE  main' = main
  BY <1>5 DEF Accept, RequestBegins, RequestEnds, Respond
<1> QED BY <1>1, <1>2, <1>3, <1>4, <1>5 DEF Next

(* A step of runServer leaves the stage it is in.                          *)
LEMMA StageMoves ==
  ASSUME <<Main>>_vars
  PROVE  \/ main = "serving" /\ main' = "draining"
         \/ main = "draining" /\ main' = "cancelling"
         \/ main = "cancelling" /\ main' = "joining"
         \/ main = "joining" /\ main' = "closing"
         \/ main = "closing" /\ main' = "returning"
         \/ main = "returning" /\ main' = "exited"
BY DEF Main, ShutdownBegins, ShutdownDrained, ShutdownTimesOut, MainCancels,
   MainJoinsWorker, MainClosesStore, MainExits, MainTo

(* Once cancelled, it reaches the join.                                    *)
LEMMA MainReachesJoin ==
  [][Next]_vars /\ []Facts /\ WF_vars(Main) =>
    (cancelled ~> Stage("joining") \/ Stage("closing") \/ Stage("returning") \/ Gone)
<1>1. Facts /\ Stage("serving") /\ [Next]_vars =>
        (Stage("serving") \/ Stage("draining") \/ Stage("cancelling"))'
  BY StageSteps DEF Facts, IInv, Stage
<1>2. Facts /\ Stage("serving") /\ <<Main>>_vars => Stage("draining")'
  BY StageMoves DEF Stage
<1>3. Facts /\ Stage("serving") /\ cancelled => ENABLED <<Main>>_vars
  BY DEF Facts, GuardsEnable, MainReady, Stage
<1>4. Facts /\ Stage("draining") /\ [Next]_vars => (Stage("draining") \/ Stage("cancelling"))'
  BY StageSteps DEF Facts, IInv, Stage
<1>5. Facts /\ Stage("draining") /\ <<Main>>_vars => Stage("cancelling")'
  BY StageMoves DEF Stage
<1>6. Facts /\ Stage("draining") => ENABLED <<Main>>_vars
  BY DEF Facts, GuardsEnable, MainReady, Stage
<1>7. Facts /\ Stage("cancelling") /\ [Next]_vars => (Stage("cancelling") \/ Stage("joining"))'
  BY StageSteps DEF Facts, IInv, Stage
<1>8. Facts /\ Stage("cancelling") /\ <<Main>>_vars => Stage("joining")'
  BY StageMoves DEF Stage
<1>9. Facts /\ Stage("cancelling") => ENABLED <<Main>>_vars
  BY DEF Facts, GuardsEnable, MainReady, Stage
<1>10. Facts => \/ Stage("serving") \/ Stage("draining") \/ Stage("cancelling") \/ Stage("joining")
                \/ Stage("closing") \/ Stage("returning") \/ Gone
  BY DEF Facts, IInv, TypeOK, MainStates, Stage, Gone, Alive
<1> QED BY <1>1, <1>2, <1>3, <1>4, <1>5, <1>6, <1>7, <1>8, <1>9, <1>10, Cancelled, PTL

(* From the join on only the worker can hold it up.                        *)
LEMMA MainReachesExit ==
  [][Next]_vars /\ []Facts /\ WF_vars(Main) =>
    ((Stage("joining") /\ Joined) \/ Stage("closing") \/ Stage("returning") ~> Gone)
<1>1. Facts /\ Stage("joining") /\ [Next]_vars => (Stage("joining") \/ Stage("closing"))'
  BY StageSteps DEF Facts, IInv, Stage
<1>2. Facts /\ Joined /\ [Next]_vars => Joined'
  <2>1. ASSUME Facts, Joined, [Next]_vars
        PROVE  worker' = worker
    <3>1. CASE Aside
      BY <3>1 DEF Aside
    <3>2. CASE Worker \/ WorkerCancelled
      BY <2>1, <3>2, WorkerMoves DEF Facts, IInv, Joined
    <3>3. CASE \E r \in Runs : RunBegins(r) \/ Run(r)
      BY <2>1, <3>3, RunMoves DEF Facts, IInv
    <3> QED BY <2>1, <3>1, <3>2, <3>3, Moves DEF Facts, IInv
  <2> QED BY <2>1 DEF Joined
<1>3. Facts /\ Stage("joining") /\ <<Main>>_vars => Stage("closing")'
  BY StageMoves DEF Stage
<1>4. Facts /\ Stage("joining") /\ Joined => ENABLED <<Main>>_vars
  BY DEF Facts, GuardsEnable, MainReady, Stage, Joined
<1>5. Facts /\ Stage("closing") /\ [Next]_vars => (Stage("closing") \/ Stage("returning"))'
  BY StageSteps DEF Facts, IInv, Stage
<1>6. Facts /\ Stage("closing") /\ <<Main>>_vars => Stage("returning")'
  BY StageMoves DEF Stage
<1>7. Facts /\ Stage("closing") => ENABLED <<Main>>_vars
  BY DEF Facts, GuardsEnable, MainReady, Stage
<1>8. Facts /\ Stage("returning") /\ [Next]_vars => (Stage("returning") \/ Gone)'
  BY StageSteps DEF Facts, IInv, Stage, Gone, Alive
<1>9. Facts /\ Stage("returning") /\ <<Main>>_vars => Gone'
  BY StageMoves DEF Stage, Gone, Alive
<1>10. Facts /\ Stage("returning") => ENABLED <<Main>>_vars
  BY DEF Facts, GuardsEnable, MainReady, Stage
<1> QED BY <1>1, <1>2, <1>3, <1>4, <1>5, <1>6, <1>7, <1>8, <1>9, <1>10, PTL

(* A cancelled process exits, whatever its requests wait for and however   *)
(* many there are: Shutdown has a deadline, runs give up their wait.       *)
THEOREM ShutdownTerminatesHolds ==
  ASSUME NEW a, NEW b, Runs = {a, b}
  PROVE  FairSpec /\ []GuardsEnable => ShutdownTerminates
<1>1. a \in Runs /\ b \in Runs
  OBVIOUS
<1>2. Fairness => FairRun(a) /\ FairRun(b)
  <2>1. (\A r \in Runs : FairRun(r)) => FairRun(a) /\ FairRun(b)
    BY <1>1
  <2> QED BY <2>1, PTL DEF Fairness
<1>3. FairSpec /\ []GuardsEnable =>
        /\ [][Next]_vars /\ []Facts
        /\ FairWorker /\ WF_vars(Main) /\ FairRun(a) /\ FairRun(b)
  <2>1. IInv /\ Purpose /\ GuardsEnable => Facts
    BY DEF Facts
  <2> QED BY <1>2, <2>1, InvHolds, PurposeHolds, PTL DEF FairSpec, Spec, Fairness, FairWorker
<1>4. [][Next]_vars /\ []Facts /\ FairWorker /\ FairRun(a) =>
        (cancelled /\ Winding ~> At("waiting") \/ Gone)
  BY <1>1, WorkerStops
<1>5. [][Next]_vars /\ []Facts /\ FairWorker /\ FairRun(a) /\ FairRun(b) =>
        (At("waiting") ~> Joined \/ Gone)
  BY WorkerReturns
<1>6. Facts => Winding \/ At("waiting") \/ Joined
  BY DEF Facts, IInv, TypeOK, WorkerStates, Winding, At, Joined
<1>7. Facts /\ Stage("joining") /\ [Next]_vars => (Stage("joining") \/ Stage("closing"))'
  BY StageSteps DEF Facts, IInv, Stage
<1>8. FairSpec /\ []GuardsEnable => (cancelled ~> Gone)
  BY <1>3, <1>4, <1>5, <1>6, <1>7, MainReachesJoin, MainReachesExit, Cancelled, PTL
<1>9. ShutdownTerminates <=> (cancelled ~> Gone)
  BY DEF ShutdownTerminates, Gone
<1> QED BY <1>8, <1>9

=============================================================================
