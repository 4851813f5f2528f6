-------------------------------- MODULE Daemon --------------------------------
(***************************************************************************)
(* `pamie start', `status' and `stop' (cmd/pamie/daemon.go) against the    *)
(* server processes they manage, composed with Migrations: start and every *)
(* server open the one database.  What the commands know of a server is a  *)
(* state file with its pid in the data directory it was given and in the   *)
(* default one.                                                            *)
(*                                                                         *)
(* One command runs at a time; servers, crashes, kills, timeouts and the   *)
(* reuse of a dead process's pid fall between any two of its steps.        *)
(***************************************************************************)
EXTENDS Migrations

CONSTANTS
  Dirs,      \* data directories
  Default,   \* the one commands use unless told otherwise
  Addrs,     \* addresses to listen on
  Pids,      \* bound: server processes started
  Operator   \* the command's own process, which opens the database too

ASSUME DaemonAssumption ==
  /\ Default \in Dirs /\ None \notin Dirs \cup Addrs \cup Pids
  /\ Openers = Pids \cup {Operator} /\ Operator \notin Pids

VARIABLES
  files,      \* per directory: the pid in pamie.pid, or None
  child,      \* per pid: the server process that has it
  command,    \* the command at work, or None
  abandoned   \* history: servers whose start gave up on them or was killed

daemonVars == <<files, child, command, abandoned>>
vars == <<recorded, schema, opener, files, child, command, abandoned>>

Child == [phase : {"unborn", "opening", "serving", "draining", "gone", "foreign"},
          dir : Dirs \cup {None}, addr : Addrs \cup {None}]
Steps == {"look", "probe", "open", "spawn", "write", "write default", "wait",
          "signal", "stopping"}
Command == [kind : {"start", "status", "stop"}, dir : Dirs, addr : Addrs,
            step : Steps, pid : Pids \cup {None}]
ASSUME CommandAssumption == None \notin Command

TypeOK ==
  /\ MigrationTypeOK
  /\ files \in [Dirs -> Pids \cup {None}]
  /\ child \in [Pids -> Child]
  /\ command \in Command \cup {None}
  /\ abandoned \subseteq Pids

Init ==
  /\ MigrationInit
  /\ files = [d \in Dirs |-> None]
  /\ child = [p \in Pids |-> [phase |-> "unborn", dir |-> None, addr |-> None]]
  /\ command = None
  /\ abandoned = {}

-----------------------------------------------------------------------------
Server(p) == child[p].phase \in {"opening", "serving", "draining"}

(* Mutant: a server counts as running while it answers.                    *)
RunningIfServing(p) == child[p].phase \in {"opening", "serving", "foreign"}

\* processRunning: the pid takes a signal, whosever it is by now
Running(p) == Server(p) \/ child[p].phase = "foreign"

(* Mutant: start looks in its own data directory only.                     *)
PathsOfDir == {command.dir}

\* daemonStatePaths, statusStatePaths
Paths == IF command.kind = "start" THEN {command.dir, Default} ELSE {command.dir}

Found == {p \in Pids : Running(p) /\ \E d \in Paths : files[d] = p}

Serving(addr) == {p \in Pids : child[p].phase = "serving" /\ child[p].addr = addr}

At(step) == command # None /\ command.step = step
Goto(step) == command' = [command EXCEPT !.step = step]
End == command' = None
Forget == files' = [d \in Dirs |-> IF d \in Paths THEN None ELSE files[d]]

\* SIGTERM: a server that opens the database has no handler yet, and ends where it is
Terminate(p) ==
  child' = [child EXCEPT ![p].phase = IF @ \in {"opening", "serving"} THEN "draining" ELSE @]

Run(kind, dir, addr) ==
  /\ command = None
  /\ command' = [kind |-> kind, dir |-> dir, addr |-> addr, step |-> "look", pid |-> None]
  /\ UNCHANGED <<recorded, schema, opener, files, child, abandoned>>

\* runningDaemonState, and removeDaemonStateFiles if nothing runs
Look ==
  /\ At("look")
  /\ \/ /\ Found # {} /\ command.kind # "stop"
        /\ End /\ UNCHANGED files
     \/ /\ command.kind = "stop"
        /\ \E p \in Found : command' = [command EXCEPT !.step = "signal", !.pid = p]
        /\ UNCHANGED files
     \/ /\ Found = {} /\ Forget
        /\ IF command.kind = "start" THEN Goto("probe") ELSE End
  /\ UNCHANGED <<recorded, schema, opener, child, abandoned>>

(* start asks for /health at the address: an answer ends it, a server that *)
(* is too slow to answer is not noticed.  With a token in the environment  *)
(* no token is made, and the database is left to the server.               *)
Probe ==
  /\ At("probe")
  /\ \/ Serving(command.addr) # {} /\ End
     \/ Goto("open") \/ Goto("spawn")
  /\ UNCHANGED <<recorded, schema, opener, files, child, abandoned>>

\* ensureStartupToken has opened the database, seen to the token and closed it, or failed
TokenReady ==
  /\ At("open")
  /\ \/ opener[Operator].phase = "open" /\ Goto("spawn")
     \/ opener[Operator].phase \in {"open", "failed"} /\ End
  /\ CloseStore(Operator)
  /\ UNCHANGED <<files, child, abandoned>>

Spawn(p) ==
  /\ At("spawn") /\ child[p].phase = "unborn"
  /\ child' = [child EXCEPT ![p] =
                 [phase |-> "opening", dir |-> command.dir, addr |-> command.addr]]
  /\ command' = [command EXCEPT !.step = "write", !.pid = p]
  /\ UNCHANGED <<recorded, schema, opener, files, abandoned>>

\* the log file or the executable cannot be opened
SpawnFails == At("spawn") /\ End
              /\ UNCHANGED <<recorded, schema, opener, files, child, abandoned>>

\* writeDaemonStateFiles, one file after the other
Write ==
  /\ \/ /\ At("write")
        /\ files' = [files EXCEPT ![command.dir] = command.pid]
        /\ Goto(IF command.dir = Default THEN "wait" ELSE "write default")
     \/ /\ At("write default")
        /\ files' = [files EXCEPT ![Default] = command.pid]
        /\ Goto("wait")
  /\ UNCHANGED <<recorded, schema, opener, child, abandoned>>

WriteFails ==
  /\ At("write") \/ At("write default")
  /\ Terminate(command.pid)
  /\ abandoned' = abandoned \cup {command.pid}
  /\ End
  /\ UNCHANGED <<recorded, schema, opener, files>>

(* Mutant: the process need only be running.                               *)
HealthyIfRunning ==
  /\ At("wait") /\ Running(command.pid)
  /\ End
  /\ UNCHANGED <<recorded, schema, opener, files, child, abandoned>>

\* waitForDaemonHealth: somebody answers at the address
Healthy ==
  /\ At("wait") /\ Serving(command.addr) # {}
  /\ End
  /\ UNCHANGED <<recorded, schema, opener, files, child, abandoned>>

\* the server has exited
Exited ==
  /\ At("wait") /\ ~Server(command.pid)
  /\ Forget /\ End
  /\ UNCHANGED <<recorded, schema, opener, child, abandoned>>

\* no answer in time: the files go, the server stays
GiveUp ==
  /\ At("wait")
  /\ Forget /\ End
  /\ abandoned' = abandoned \cup {command.pid}
  /\ UNCHANGED <<recorded, schema, opener, child>>

Signal ==
  /\ At("signal")
  /\ IF Running(command.pid) THEN Terminate(command.pid) /\ Goto("stopping")
                             ELSE End /\ UNCHANGED child
  /\ UNCHANGED <<recorded, schema, opener, files, abandoned>>

Stopped ==
  /\ At("stopping") /\ ~Running(command.pid)
  /\ Forget /\ End
  /\ UNCHANGED <<recorded, schema, opener, child, abandoned>>

StopTimesOut ==
  /\ At("stopping") /\ End
  /\ UNCHANGED <<recorded, schema, opener, files, child, abandoned>>

\* the command itself is killed
Kill ==
  /\ command # None
  /\ command' = None
  /\ abandoned' = IF command.step \in {"write", "write default"}
                  THEN abandoned \cup {command.pid} ELSE abandoned
  /\ CloseStore(Operator)
  /\ UNCHANGED <<files, child>>

CommandStep ==
  \/ Look \/ Probe \/ TokenReady \/ SpawnFails \/ (\E p \in Pids : Spawn(p))
  \/ Write \/ WriteFails \/ Healthy \/ Exited \/ GiveUp
  \/ Signal \/ Stopped \/ StopTimesOut \/ Kill
  \/ At("open") /\ OpenStep(Operator) /\ UNCHANGED daemonVars

-----------------------------------------------------------------------------
(* The server process, as far as the commands can tell: runServer opens    *)
(* the database and listens, or fails at either.                           *)
Turn(p, phase) == child' = [child EXCEPT ![p].phase = phase]

Listen(p) ==
  /\ child[p].phase = "opening" /\ opener[p].phase = "open"
  /\ Serving(child[p].addr) = {}
  /\ Turn(p, "serving")
  /\ UNCHANGED <<recorded, schema, opener, files, command, abandoned>>

\* the database cannot be opened, the address is taken, a shutdown is over, or a crash
Die(p) ==
  /\ Server(p)
  /\ Turn(p, "gone")
  /\ CloseStore(p)
  /\ UNCHANGED <<files, command, abandoned>>

\* the system gives a dead server's pid to another program
Reuse(p) ==
  /\ child[p].phase = "gone"
  /\ Turn(p, "foreign")
  /\ UNCHANGED <<recorded, schema, opener, files, command, abandoned>>

ServerStep(p) ==
  \/ Listen(p) \/ Die(p) \/ Reuse(p)
  \/ child[p].phase = "opening" /\ OpenStep(p) /\ UNCHANGED daemonVars

Next ==
  \/ \E kind \in {"start", "status", "stop"}, dir \in Dirs, addr \in Addrs : Run(kind, dir, addr)
  \/ CommandStep
  \/ \E p \in Pids : ServerStep(p)

Spec == Init /\ [][Next]_vars

-----------------------------------------------------------------------------
(* Between commands, a server that no start has given up on is named by    *)
(* the file of the default directory and by that of its own, so that       *)
(* `status' and `stop' find it (daemon.go:106-113, 141-145, 271-294).      *)
ReachableServer ==
  command = None =>
    \A p \in Pids \ abandoned : Server(p) => files[Default] = p /\ files[child[p].dir] = p

(* There is never a second such server, wherever it keeps its data: a      *)
(* start finds the first one, or its end, in the files (daemon.go:53-60).  *)
OneServer ==
  \A p, q \in Pids \ abandoned : Server(p) /\ Server(q) => p = q

(* A start that reports health was answered by the server it started, or   *)
(* by one an earlier start had given up on: by no other, and not by its    *)
(* own process merely running (daemon.go:61, 111-125, 337-349).            *)
StartIsTruthful ==
  [][Healthy => /\ Serving(command.addr) # {}
                /\ Serving(command.addr) \subseteq abandoned \cup {command.pid}]_vars
=============================================================================
