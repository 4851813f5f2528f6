----------------------------- MODULE DaemonProofs -----------------------------
(***************************************************************************)
(* For any number of processes that open the database, migrations,         *)
(* directories, addresses and servers: an open database is migrated, and   *)
(* between commands the one server no start has given up on can be found.  *)
(***************************************************************************)
EXTENDS Daemon, TLAPS

\* what a process has read stays true, and what it has passed is recorded
Progress(p) ==
  LET o == opener[p]
  IN  /\ \A v \in Versions : o.seen[v] # None => recorded[v] = o.seen[v]
      /\ \A v \in Versions : v < o.at => recorded[v] = "ours"
      /\ o.phase = "open" => o.at = Last + 1

MigrationInv ==
  /\ MigrationTypeOK
  /\ \A v \in Versions : schema[v] = IF recorded[v] = None THEN 0 ELSE 1
  /\ \A p \in Openers : Progress(p)

\* no process has a database open at first
LEMMA MigrationInitial == MigrationInit => MigrationInv
<1> SUFFICES ASSUME MigrationInit PROVE MigrationInv
  OBVIOUS
<1>1. Closed \in Opening
  BY MigrationAssumption DEF Closed, Opening, Unread, Versions, Recorded
<1>2. MigrationTypeOK /\ \A v \in Versions : schema[v] = IF recorded[v] = None THEN 0 ELSE 1
  <2> PICK n \in 0..Last : /\ recorded \in [Versions -> Recorded]
                           /\ \A v \in Versions : recorded[v] = None <=> v > n
                           /\ schema = [v \in Versions |-> IF v <= n THEN 1 ELSE 0]
    BY DEF MigrationInit
  <2>1. schema \in [Versions -> {0, 1}]
    OBVIOUS
  <2>2. \A v \in Versions : schema[v] = IF recorded[v] = None THEN 0 ELSE 1
    BY MigrationAssumption DEF Versions
  <2>3. opener \in [Openers -> Opening]
    BY <1>1 DEF MigrationInit
  <2> QED BY <2>1, <2>2, <2>3 DEF MigrationTypeOK
<1>3. \A p \in Openers : Progress(p)
  <2>1. \A p \in Openers : opener[p] = Closed
    BY DEF MigrationInit
  <2>2. \A v \in Versions : ~(v < 1)
    BY MigrationAssumption DEF Versions
  <2>3. /\ Closed.at = 1 /\ Closed.phase = "closed"
        /\ \A v \in Versions : Closed.seen[v] = None
    BY DEF Closed, Unread
  <2> QED BY <2>1, <2>2, <2>3 DEF Progress
<1> QED BY <1>2, <1>3 DEF MigrationInv

\* opening, migrating and closing keep what each process has read and passed true
LEMMA MigrationStep == MigrationInv /\ [MigrationNext]_migrationVars => MigrationInv'
<1> SUFFICES ASSUME MigrationInv, [MigrationNext]_migrationVars PROVE MigrationInv'
  OBVIOUS
<1>0. /\ recorded \in [Versions -> Recorded] /\ schema \in [Versions -> {0, 1}]
      /\ opener \in [Openers -> Opening] /\ Last \in Nat
  BY MigrationAssumption DEF MigrationInv, MigrationTypeOK
<1>1. ASSUME NEW p \in Openers, NEW o \in Opening, opener' = [opener EXCEPT ![p] = o],
             UNCHANGED <<recorded, schema>>,
             \A v \in Versions : o.seen[v] # None => recorded[v] = o.seen[v],
             \A v \in Versions : v < o.at => recorded[v] = "ours",
             o.phase = "open" => o.at = Last + 1
      PROVE  MigrationInv'
  <2>1. opener' \in [Openers -> Opening] /\ opener'[p] = o
        /\ \A q \in Openers \ {p} : opener'[q] = opener[q]
    BY <1>0, <1>1
  <2>2. \A q \in Openers : Progress(q)'
    BY <1>1, <2>1 DEF MigrationInv, Progress
  <2> QED BY <1>0, <1>1, <2>1, <2>2 DEF MigrationInv, MigrationTypeOK
<1>2. ASSUME NEW p \in Openers, ReadVersions(p) PROVE MigrationInv'
  <2> DEFINE o == [phase |-> "migrating", seen |-> recorded, at |-> 1]
  <2>1. o \in Opening /\ opener' = [opener EXCEPT ![p] = o]
    BY <1>0, <1>2 DEF ReadVersions, Opening
  <2>2. \A v \in Versions : ~(v < 1)
    BY <1>0 DEF Versions
  <2> QED BY <1>1, <1>2, <2>1, <2>2 DEF ReadVersions
<1>3. ASSUME NEW p \in Openers, NEW v \in Versions, Skip(p, v) PROVE MigrationInv'
  <2> DEFINE o == [opener[p] EXCEPT !.at = @ + 1]
  <2>1. /\ opener[p] \in Opening /\ opener[p].at = v /\ opener[p].phase = "migrating"
        /\ v \in Nat /\ v <= Last /\ opener' = [opener EXCEPT ![p] = o]
    BY <1>0, <1>3 DEF Skip, Migrating, Advance, Versions
  <2>2. o \in Opening /\ o.at = v + 1 /\ o.seen = opener[p].seen /\ o.phase = "migrating"
    BY <1>0, <2>1 DEF Opening
  <2>3. recorded[v] = "ours" /\ Progress(p)
    BY <1>3, MigrationAssumption DEF Skip, MigrationInv, Progress
  <2>4. \A w \in Versions : w < v + 1 => recorded[w] = "ours"
    BY <2>1, <2>3 DEF Progress, Versions
  <2> HIDE DEF o
  <2> QED BY <1>1, <1>3, <2>1, <2>2, <2>3, <2>4 DEF Skip, Progress
<1>4. ASSUME NEW p \in Openers, NEW phase \in {"failed", "open"}, Become(p, phase),
             UNCHANGED <<recorded, schema>>, phase = "open" => opener[p].at = Last + 1
      PROVE  MigrationInv'
  <2> DEFINE o == [opener[p] EXCEPT !.phase = phase]
  <2>1. opener[p] \in Opening /\ opener' = [opener EXCEPT ![p] = o] /\ Progress(p)
    BY <1>0, <1>4 DEF Become, MigrationInv
  <2>2. o \in Opening /\ o.at = opener[p].at /\ o.seen = opener[p].seen /\ o.phase = phase
    BY <2>1 DEF Opening
  <2> HIDE DEF o
  <2> QED BY <1>1, <1>4, <2>1, <2>2 DEF Progress
<1>5. ASSUME NEW p \in Openers, NEW v \in Versions, Migrate(p, v) PROVE MigrationInv'
  <2> DEFINE o == [opener[p] EXCEPT !.at = @ + 1]
  <2>1. /\ opener[p] \in Opening /\ opener[p].at = v /\ opener[p].phase = "migrating"
        /\ v \in Nat /\ v <= Last /\ opener' = [opener EXCEPT ![p] = o]
    BY <1>0, <1>5 DEF Migrate, Migrating, Advance, Versions
  <2>2. o \in Opening /\ o.at = v + 1 /\ o.seen = opener[p].seen /\ o.phase = "migrating"
    BY <1>0, <2>1 DEF Opening
  <2>3. /\ recorded[v] = None /\ recorded' = [recorded EXCEPT ![v] = "ours"] /\ schema[v] = 0
        /\ schema' = [schema EXCEPT ![v] = @ + 1]
    BY <1>5 DEF Migrate, MigrationInv
  <2>4. recorded' \in [Versions -> Recorded] /\ schema' \in [Versions -> {0, 1}]
    BY <1>0, <2>3 DEF Recorded
  <2>5. \A w \in Versions : schema'[w] = IF recorded'[w] = None THEN 0 ELSE 1
    BY <1>0, <2>3, MigrationAssumption DEF MigrationInv
  <2> HIDE DEF o
  <2>6. opener' \in [Openers -> Opening] /\ opener'[p] = o
        /\ \A q \in Openers \ {p} : opener'[q] = opener[q]
    BY <1>0, <2>1, <2>2
  <2>7. \A w \in Versions : recorded[w] # None => recorded'[w] = recorded[w]
    BY <1>0, <2>3
  <2>8. \A q \in Openers \ {p} : Progress(q)'
    BY <2>6, <2>7, MigrationAssumption DEF MigrationInv, Progress
  <2>9. Progress(p)'
    <3>1. \A w \in Versions : w < v + 1 => recorded'[w] = "ours"
      BY <1>0, <2>1, <2>3, <2>7, MigrationAssumption DEF MigrationInv, Progress, Versions
    <3>2. \A w \in Versions : o.seen[w] # None => recorded'[w] = o.seen[w]
      BY <2>2, <2>7 DEF MigrationInv, Progress
    <3> QED BY <2>2, <2>6, <3>1, <3>2 DEF Progress
  <2> QED BY <2>4, <2>5, <2>6, <2>8, <2>9 DEF MigrationInv, MigrationTypeOK
<1>6. ASSUME NEW p \in Openers, CloseStore(p) PROVE MigrationInv'
  <2>1. Closed \in Opening
    BY <1>0 DEF Closed, Opening, Unread, Recorded
  <2>2. \A v \in Versions : ~(v < 1)
    BY <1>0 DEF Versions
  <2> QED BY <1>1, <1>6, <2>1, <2>2 DEF CloseStore, Closed, Unread
<1>7. CASE UNCHANGED migrationVars
  BY <1>7 DEF migrationVars, MigrationInv, MigrationTypeOK, Progress
<1> QED
  BY <1>2, <1>3, <1>4, <1>5, <1>6, <1>7
     DEF MigrationNext, OpenStep, Mismatch, MigrationFails, Opened, Migrating

(* However many processes open a database at once, fail or die in it, one  *)
(* that has it open has every migration in it, once.                       *)
THEOREM OpenedIsMigratedHolds == MigrationSpec => []OpenedIsMigrated
<1>1. MigrationInv => OpenedIsMigrated
  BY MigrationAssumption DEF MigrationInv, Progress, OpenedIsMigrated, Versions
<1> QED BY <1>1, MigrationInitial, MigrationStep, PTL DEF MigrationSpec

-----------------------------------------------------------------------------
Tracked(p) == Server(p) /\ p \notin abandoned
Named(p)   == files[Default] = p /\ files[child[p].dir] = p

(* What a command has made sure of at each of its steps.                   *)
StepInv ==
  IF command = None THEN \A p \in Pids : Tracked(p) => Named(p)
  ELSE
    /\ command.step \in {"look", "wait", "signal", "stopping"} =>
         \A p \in Pids : Tracked(p) => Named(p)
    /\ command.step \in {"probe", "open", "spawn"} => \A p \in Pids : ~Tracked(p)
    /\ command.step \in {"write", "write default", "wait"} =>
         /\ command.kind = "start" /\ command.pid \in Pids
         /\ \A p \in Pids : Tracked(p) => p = command.pid /\ child[p].dir = command.dir
    /\ command.step = "write default" => files[command.dir] = command.pid
    /\ command.step \in {"signal", "stopping"} =>
         /\ command.kind = "stop" /\ command.pid \in Pids
         /\ files[command.dir] = command.pid
    /\ command.step \in {"probe", "open", "spawn"} => command.kind = "start"

DaemonTypeOK ==
  /\ files \in [Dirs -> Pids \cup {None}]
  /\ child \in [Pids -> Child]
  /\ \A p \in Pids : Server(p) => child[p].dir \in Dirs
  /\ command \in Command \cup {None}
  /\ abandoned \subseteq Pids

DaemonInv == DaemonTypeOK /\ StepInv /\ OneServer

\* there is neither a command nor a server at first
LEMMA DaemonInitial == Init => DaemonInv
<1> SUFFICES ASSUME Init PROVE DaemonInv
  OBVIOUS
<1>1. \A p \in Pids : ~Server(p)
  BY DEF Init, Server
<1>2. DaemonTypeOK
  <2>1. [phase |-> "unborn", dir |-> None, addr |-> None] \in Child
    BY DEF Child
  <2> QED BY <1>1, <2>1 DEF Init, DaemonTypeOK
<1> QED BY <1>1, <1>2 DEF DaemonInv, StepInv, OneServer, Tracked, Init

(* A step that gives birth to no server, and leaves the files and the      *)
(* command, or does what the step needs of them.                           *)
LEMMA FewerServers ==
  ASSUME DaemonInv, child' \in [Pids -> Child], abandoned' \subseteq Pids,
         abandoned \subseteq abandoned',
         \A p \in Pids : Server(p)' => Server(p) /\ child'[p].dir = child[p].dir
  PROVE  /\ \A p \in Pids : Tracked(p)' => Tracked(p)
         /\ \A p \in Pids : Server(p)' => child'[p].dir \in Dirs
         /\ OneServer'
<1>1. \A p \in Pids : Tracked(p)' => Tracked(p)
  BY DEF Tracked
<1>2. \A p \in Pids : Server(p)' => child'[p].dir \in Dirs
  BY DEF DaemonInv, DaemonTypeOK
<1>3. OneServer'
  <2> SUFFICES ASSUME NEW p \in Pids \ abandoned', NEW q \in Pids \ abandoned',
                      Server(p)', Server(q)'
               PROVE  p = q
    BY DEF OneServer
  <2> QED BY DEF DaemonInv, OneServer
<1> QED BY <1>1, <1>2, <1>3

\* the server processes' own steps
LEMMA ServerSteps ==
  ASSUME DaemonInv, NEW p \in Pids, NEW phase, child' = [child EXCEPT ![p].phase = phase],
         phase \in {"serving", "draining", "gone", "foreign"},
         phase \in {"serving", "draining"} => Server(p),
         UNCHANGED <<files, command, abandoned>>
  PROVE  DaemonInv'
<1>1. /\ child' \in [Pids -> Child]
      /\ \A q \in Pids : Server(q)' => Server(q) /\ child'[q].dir = child[q].dir
  <2> DEFINE c == [child[p] EXCEPT !.phase = phase]
  <2>1. child[p] \in Child /\ child' = [child EXCEPT ![p] = c] /\ child \in [Pids -> Child]
    BY DEF DaemonInv, DaemonTypeOK
  <2>2. c \in Child /\ c.dir = child[p].dir /\ c.phase = phase
    BY <2>1 DEF Child
  <2> HIDE DEF c
  <2>3. child'[p] = c /\ \A q \in Pids \ {p} : child'[q] = child[q]
    BY <2>1
  <2> QED BY <2>1, <2>2, <2>3 DEF Server
<1>2. /\ \A q \in Pids : Tracked(q)' => Tracked(q)
      /\ \A q \in Pids : Server(q)' => child'[q].dir \in Dirs
      /\ OneServer'
  BY <1>1, FewerServers DEF DaemonInv, DaemonTypeOK
<1>3. \A q \in Pids : Tracked(q)' => child'[q].dir = child[q].dir
  BY <1>1 DEF Tracked
<1>4. \A q \in Pids : Tracked(q)' /\ Named(q) => Named(q)'
  BY <1>3 DEF Named
<1>5. StepInv'
  BY <1>2, <1>3, <1>4 DEF DaemonInv, StepInv
<1> QED BY <1>1, <1>2, <1>5 DEF DaemonInv, DaemonTypeOK

\* a command knows its directory, and keeps all but its step when it goes on
LEMMA CommandFacts ==
  ASSUME DaemonInv, command # None
  PROVE  /\ command \in Command /\ Paths \subseteq Dirs /\ command.dir \in Paths
         /\ command.kind = "start" => Default \in Paths
         /\ command.kind # "start" => Paths = {command.dir}
         /\ \A step \in Steps : LET c == [command EXCEPT !.step = step]
                               IN  /\ c \in Command /\ c # None /\ c.step = step
                                   /\ c.kind = command.kind /\ c.dir = command.dir
                                   /\ c.pid = command.pid /\ c.addr = command.addr
<1>1. command \in Command
  BY DEF DaemonInv, DaemonTypeOK
<1>2. ASSUME NEW step \in Steps
      PROVE  LET c == [command EXCEPT !.step = step]
             IN  /\ c \in Command /\ c.step = step
                 /\ c.kind = command.kind /\ c.dir = command.dir
                 /\ c.pid = command.pid /\ c.addr = command.addr
  BY <1>1 DEF Command
<1>3. command.dir \in Dirs
  BY <1>1 DEF Command
<1> QED BY <1>1, <1>2, <1>3, DaemonAssumption, CommandAssumption DEF Paths

(* Steps that leave the servers and what is said of them alone.            *)
LEMMA ServersKept ==
  ASSUME DaemonInv, UNCHANGED <<child, abandoned>>
  PROVE  /\ child' \in [Pids -> Child] /\ abandoned' \subseteq Pids /\ OneServer'
         /\ \A p \in Pids : Server(p)' => child'[p].dir \in Dirs
         /\ \A p \in Pids : Tracked(p)' = Tracked(p)
  BY DEF DaemonInv, DaemonTypeOK, Server, Tracked, OneServer

(* Forgetting where no tracked server is named leaves the names of others. *)
LEMMA ForgetFacts ==
  ASSUME DaemonInv, command # None, Forget
  PROVE  /\ files' \in [Dirs -> Pids \cup {None}]
         /\ \A d \in Dirs \ Paths : files'[d] = files[d]
  BY CommandFacts DEF Forget, DaemonInv, DaemonTypeOK

\* start, status or stop looks for a running server
LEMMA LookStep == DaemonInv /\ Look => DaemonInv'
<1> SUFFICES ASSUME DaemonInv, Look PROVE DaemonInv'
  OBVIOUS
<1>0. /\ command # None /\ command.step = "look" /\ UNCHANGED <<child, abandoned>>
      /\ files \in [Dirs -> Pids \cup {None}]
      /\ \A p \in Pids : Tracked(p) => Named(p) /\ child[p].dir \in Dirs /\ Running(p)
  BY DEF Look, At, DaemonInv, DaemonTypeOK, StepInv, Tracked, Running
<1>1. CASE UNCHANGED files /\ command' = None
  BY <1>0, <1>1, ServersKept DEF DaemonInv, DaemonTypeOK, StepInv, Named
<1>2. ASSUME command.kind = "stop", UNCHANGED files, NEW p \in Found,
             command' = [command EXCEPT !.step = "signal", !.pid = p]
      PROVE  DaemonInv'
  <2>1. p \in Pids /\ files[command.dir] = p
    BY <1>0, <1>2, CommandFacts DEF Found
  <2>2. /\ command' \in Command /\ command' # None /\ command'.step = "signal"
        /\ command'.kind = "stop" /\ command'.pid = p /\ command'.dir = command.dir
    <3>1. command' \in Command /\ command'.step = "signal"
          /\ command'.kind = "stop" /\ command'.pid = p /\ command'.dir = command.dir
      BY <1>0, <1>2, <2>1, CommandFacts DEF Command, Steps
    <3> QED BY <3>1, CommandAssumption
  <2>3. \A q \in Pids : Tracked(q)' => Named(q)'
    BY <1>0, <1>2, ServersKept DEF Named
  <2> QED BY <1>0, <1>2, <2>1, <2>2, <2>3, ServersKept DEF DaemonInv, DaemonTypeOK, StepInv
<1>3. CASE Found = {} /\ Forget /\ command.kind = "start" /\ Goto("probe")
  <2>1. \A p \in Pids : ~Tracked(p)
    BY <1>0, <1>3, CommandFacts DEF Found, Named
  <2>2. command' \in Command /\ command' # None /\ command'.step = "probe" /\ command'.kind = "start"
    BY <1>0, <1>3, CommandFacts DEF Goto, Steps
  <2> QED BY <1>0, <1>3, <2>1, <2>2, ServersKept, ForgetFacts DEF DaemonInv, DaemonTypeOK, StepInv
<1>4. CASE Found = {} /\ Forget /\ command' = None
  <2>1. ASSUME NEW p \in Pids, Tracked(p) PROVE Default \notin Paths /\ child[p].dir \notin Paths
    BY <1>0, <1>4, <2>1 DEF Found, Named
  <2>2. \A p \in Pids : Tracked(p)' => Named(p)'
    BY <1>0, <1>4, <2>1, DaemonAssumption, ServersKept, ForgetFacts DEF Named
  <2> QED BY <1>0, <1>4, <2>2, ServersKept, ForgetFacts DEF DaemonInv, DaemonTypeOK, StepInv
<1> QED BY <1>0, <1>1, <1>2, <1>3, <1>4 DEF Look, End

\* steps of a start before it has a server
LEMMA StartSteps ==
  ASSUME DaemonInv, command # None, command.step \in {"probe", "open", "spawn"},
         UNCHANGED <<files, child, abandoned>>,
         command' = None \/ Goto("open") \/ Goto("spawn")
  PROVE  DaemonInv'
<1>1. \A p \in Pids : ~Tracked(p)'
  BY ServersKept DEF DaemonInv, StepInv
<1>2. command' = None \/ (/\ command' \in Command /\ command' # None /\ command'.kind = "start"
                          /\ command'.step \in {"open", "spawn"})
  <2>1. command.kind = "start" /\ {"open", "spawn"} \subseteq Steps
    BY DEF DaemonInv, StepInv, Steps
  <2>2. CASE command' = None
    BY <2>2
  <2>3. CASE Goto("open")
    BY <2>1, <2>3, CommandFacts DEF Goto
  <2>4. CASE Goto("spawn")
    BY <2>1, <2>4, CommandFacts DEF Goto
  <2> QED BY <2>2, <2>3, <2>4
<1> QED BY <1>1, <1>2, ServersKept DEF DaemonInv, DaemonTypeOK, StepInv

\* start launches a server where it has found none
LEMMA SpawnStep == ASSUME DaemonInv, NEW p \in Pids, Spawn(p) PROVE DaemonInv'
<1> DEFINE c == [phase |-> "opening", dir |-> command.dir, addr |-> command.addr]
<1>0. /\ command # None /\ command.step = "spawn" /\ command.kind = "start"
      /\ command \in Command /\ child \in [Pids -> Child]
      /\ \A q \in Pids : ~Tracked(q)
  BY DEF Spawn, At, DaemonInv, DaemonTypeOK, StepInv
<1>1. c \in Child /\ c.dir = command.dir /\ command.dir \in Dirs
  BY <1>0 DEF Command, Child
<1>2. /\ child' \in [Pids -> Child] /\ child'[p].dir = command.dir
      /\ \A q \in Pids \ {p} : child'[q] = child[q]
  BY <1>0, <1>1 DEF Spawn
<1>3. \A q \in Pids : Tracked(q)' => q = p
  BY <1>0, <1>2 DEF Spawn, Tracked, Server
<1>4. /\ command' \in Command /\ command' # None /\ command'.step = "write" /\ command'.pid = p
      /\ command'.dir = command.dir /\ command'.kind = "start"
  <2>1. /\ command' \in Command /\ command'.step = "write" /\ command'.pid = p
        /\ command'.dir = command.dir /\ command'.kind = "start"
    BY <1>0 DEF Spawn, Command, Steps
  <2> QED BY <2>1, CommandAssumption
<1>5. OneServer'
  BY <1>3 DEF OneServer, Tracked, Server
<1>6. DaemonTypeOK'
  BY <1>1, <1>2, <1>4 DEF Spawn, DaemonInv, DaemonTypeOK, Server
<1> QED BY <1>2, <1>3, <1>4, <1>5, <1>6 DEF DaemonInv, StepInv

(* The end of a command: the tracked servers that are left have to be      *)
(* named.                                                                  *)
LEMMA EndStep ==
  ASSUME DaemonInv, command' = None, child' \in [Pids -> Child],
         files' \in [Dirs -> Pids \cup {None}],
         abandoned \subseteq abandoned', abandoned' \subseteq Pids,
         \A p \in Pids : Server(p)' => Server(p) /\ child'[p].dir = child[p].dir,
         \A p \in Pids : Tracked(p)' => Named(p)'
  PROVE  DaemonInv'
<1>1. /\ \A p \in Pids : Server(p)' => child'[p].dir \in Dirs
      /\ OneServer'
  BY FewerServers
<1> QED BY <1>1 DEF DaemonInv, DaemonTypeOK, StepInv

\* ending a process makes no server and moves none to another directory
LEMMA TerminateFacts ==
  ASSUME DaemonInv, NEW p \in Pids, Terminate(p)
  PROVE  /\ child' \in [Pids -> Child]
         /\ \A q \in Pids : child'[q].dir = child[q].dir /\ (Server(q)' => Server(q))
<1> DEFINE phase == IF child[p].phase \in {"opening", "serving"} THEN "draining"
                   ELSE child[p].phase
           c == [child[p] EXCEPT !.phase = phase]
<1>1. child \in [Pids -> Child] /\ child[p] \in Child /\ child' = [child EXCEPT ![p] = c]
  BY DEF Terminate, DaemonInv, DaemonTypeOK
<1>2. /\ c \in Child /\ c.dir = child[p].dir
      /\ c.phase \in {"opening", "serving", "draining"} =>
           child[p].phase \in {"opening", "serving", "draining"}
  BY <1>1 DEF Child
<1> HIDE DEF c
<1>3. child'[p] = c /\ \A q \in Pids \ {p} : child'[q] = child[q]
  BY <1>1
<1> QED BY <1>1, <1>2, <1>3 DEF Server

\* start writes its state files, one after the other
LEMMA WriteStep == DaemonInv /\ Write => DaemonInv'
<1> SUFFICES ASSUME DaemonInv, Write PROVE DaemonInv'
  OBVIOUS
<1>0. /\ command # None /\ command.step \in {"write", "write default"}
      /\ command.kind = "start" /\ command.pid \in Pids /\ command.dir \in Dirs
      /\ files \in [Dirs -> Pids \cup {None}] /\ UNCHANGED <<child, abandoned>>
      /\ \A p \in Pids : Tracked(p) => p = command.pid /\ child[p].dir = command.dir
  BY CommandFacts DEF Write, At, DaemonInv, DaemonTypeOK, StepInv
<1>1. ASSUME command.step = "write", command.dir # Default,
             files' = [files EXCEPT ![command.dir] = command.pid], Goto("write default")
      PROVE  DaemonInv'
  <2>1. /\ command' \in Command /\ command' # None /\ command'.step = "write default"
        /\ command'.kind = "start" /\ command'.dir = command.dir /\ command'.pid = command.pid
    <3>1. "write default" \in Steps
      BY DEF Steps
    <3> QED BY <1>0, <1>1, <3>1, CommandFacts DEF Goto
  <2>2. files' \in [Dirs -> Pids \cup {None}] /\ files'[command.dir] = command.pid
    BY <1>0, <1>1
  <2> QED BY <1>0, <2>1, <2>2, ServersKept DEF DaemonInv, DaemonTypeOK, StepInv
<1>2. ASSUME files' \in [Dirs -> Pids \cup {None}], Goto("wait"),
             files'[Default] = command.pid, files'[command.dir] = command.pid
      PROVE  DaemonInv'
  <2>1. /\ command' \in Command /\ command' # None /\ command'.step = "wait"
        /\ command'.kind = "start" /\ command'.dir = command.dir /\ command'.pid = command.pid
    <3>1. "wait" \in Steps
      BY DEF Steps
    <3> QED BY <1>0, <1>2, <3>1, CommandFacts DEF Goto
  <2>2. \A p \in Pids : Tracked(p)' => Named(p)' /\ p = command'.pid /\ child'[p].dir = command'.dir
    BY <1>0, <1>2, <2>1, ServersKept DEF Named
  <2> QED BY <1>0, <1>2, <2>1, <2>2, ServersKept DEF DaemonInv, DaemonTypeOK, StepInv
<1>3. CASE command.step = "write" /\ command.dir = Default
  BY <1>0, <1>2, <1>3 DEF Write, At
<1>4. CASE command.step = "write" /\ command.dir # Default
  BY <1>0, <1>1, <1>4 DEF Write, At
<1>5. CASE command.step = "write default"
  <2>1. files[command.dir] = command.pid /\ files' = [files EXCEPT ![Default] = command.pid]
        /\ Goto("wait")
    BY <1>0, <1>5 DEF Write, At, DaemonInv, StepInv
  <2> QED BY <1>0, <1>2, <2>1, DaemonAssumption
<1> QED BY <1>0, <1>3, <1>4, <1>5

(* The steps that end a command and keep or give up its server.            *)
LEMMA Endings ==
  ASSUME DaemonInv,
         \/ WriteFails \/ Healthy \/ Exited \/ GiveUp \/ StopTimesOut \/ Kill
  PROVE  DaemonInv'
<1>0. /\ command # None /\ command' = None /\ command \in Command
      /\ files \in [Dirs -> Pids \cup {None}] /\ child \in [Pids -> Child]
      /\ abandoned \subseteq Pids
  BY DEF WriteFails, Healthy, Exited, GiveUp, StopTimesOut, Kill, At, End, DaemonInv, DaemonTypeOK
<1>1. CASE WriteFails
  <2>1. command.pid \in Pids /\ \A p \in Pids : Tracked(p) => p = command.pid
    BY <1>0, <1>1 DEF WriteFails, At, DaemonInv, StepInv
  <2>2. \A p \in Pids : ~Tracked(p)'
    BY <1>1, <2>1, TerminateFacts DEF WriteFails, Tracked
  <2> QED BY <1>0, <1>1, <2>1, <2>2, TerminateFacts, EndStep DEF WriteFails
<1>2. CASE Healthy \/ StopTimesOut
  <2>1. UNCHANGED <<files, child, abandoned>> /\ \A p \in Pids : Tracked(p) => Named(p)
    BY <1>0, <1>2 DEF Healthy, StopTimesOut, At, DaemonInv, StepInv
  <2>2. \A p \in Pids : Tracked(p)' => Named(p)'
    BY <2>1, ServersKept DEF Named
  <2> QED BY <1>0, <2>1, <2>2, EndStep DEF Server
<1>3. CASE Exited
  <2>1. UNCHANGED <<child, abandoned>> /\ \A p \in Pids : ~Tracked(p)
    BY <1>0, <1>3 DEF Exited, At, DaemonInv, StepInv, Tracked
  <2> QED BY <1>0, <1>3, <2>1, ServersKept, ForgetFacts, EndStep DEF Exited, Server
<1>4. CASE GiveUp
  <2>1. command.pid \in Pids /\ \A p \in Pids : Tracked(p) => p = command.pid
    BY <1>0, <1>4 DEF GiveUp, At, DaemonInv, StepInv
  <2>2. \A p \in Pids : ~Tracked(p)'
    BY <1>4, <2>1 DEF GiveUp, Tracked, Server
  <2> QED BY <1>0, <1>4, <2>1, <2>2, ForgetFacts, EndStep DEF GiveUp, Server
<1>5. CASE Kill
  <2>1. UNCHANGED <<files, child>> /\ abandoned \subseteq abandoned'
    BY <1>5 DEF Kill
  <2>2. CASE command.step \in {"write", "write default"}
    <3>1. command.pid \in Pids /\ abandoned' = abandoned \cup {command.pid}
          /\ \A p \in Pids : Tracked(p) => p = command.pid
      BY <1>0, <1>5, <2>2 DEF Kill, DaemonInv, StepInv
    <3>2. \A p \in Pids : ~Tracked(p)'
      BY <2>1, <3>1 DEF Tracked, Server
    <3> QED BY <1>0, <2>1, <3>1, <3>2, EndStep DEF Server
  <2>3. CASE command.step \notin {"write", "write default"}
    <3>1. abandoned' = abandoned /\ command.step \in Steps
      BY <1>0, <1>5, <2>3 DEF Kill, Command
    <3>2. \A p \in Pids : Tracked(p) => Named(p)
      BY <1>0, <2>3, <3>1 DEF DaemonInv, StepInv, Steps
    <3>3. \A p \in Pids : Tracked(p)' => Named(p)'
      BY <2>1, <3>1, <3>2, ServersKept DEF Named
    <3> QED BY <1>0, <2>1, <3>1, <3>3, EndStep DEF Server
  <2> QED BY <2>2, <2>3
<1> QED BY <1>1, <1>2, <1>3, <1>4, <1>5

\* stop signals a process, and removes the files when it is gone
LEMMA StopSteps == DaemonInv /\ (Signal \/ Stopped) => DaemonInv'
<1> SUFFICES ASSUME DaemonInv, Signal \/ Stopped PROVE DaemonInv'
  OBVIOUS
<1>0. /\ command # None /\ command.step \in {"signal", "stopping"} /\ command.kind = "stop"
      /\ command.pid \in Pids /\ files[command.dir] = command.pid
      /\ files \in [Dirs -> Pids \cup {None}] /\ child \in [Pids -> Child]
      /\ abandoned \subseteq Pids
      /\ \A p \in Pids : Tracked(p) => Named(p) /\ child[p].dir \in Dirs /\ Running(p)
  BY DEF Signal, Stopped, At, DaemonInv, DaemonTypeOK, StepInv, Tracked, Running
<1>1. CASE Signal /\ Running(command.pid)
  <2>1. Terminate(command.pid) /\ Goto("stopping") /\ UNCHANGED <<files, abandoned>>
    BY <1>1 DEF Signal
  <2>2. /\ command' \in Command /\ command' # None /\ command'.step = "stopping"
        /\ command'.kind = "stop" /\ command'.dir = command.dir /\ command'.pid = command.pid
    <3>1. "stopping" \in Steps
      BY DEF Steps
    <3> QED BY <1>0, <2>1, <3>1, CommandFacts DEF Goto
  <2>3. /\ child' \in [Pids -> Child]
        /\ \A q \in Pids : child'[q].dir = child[q].dir /\ (Server(q)' => Server(q))
    BY <1>0, <2>1, TerminateFacts
  <2>4. /\ \A p \in Pids : Tracked(p)' => Tracked(p)
        /\ \A p \in Pids : Server(p)' => child'[p].dir \in Dirs
        /\ OneServer'
    BY <1>0, <2>1, <2>3, FewerServers
  <2>5. \A p \in Pids : Tracked(p)' => Named(p)'
    BY <1>0, <2>1, <2>3, <2>4 DEF Named
  <2> QED BY <1>0, <2>1, <2>2, <2>3, <2>4, <2>5 DEF DaemonInv, DaemonTypeOK, StepInv
<1>2. CASE Signal /\ ~Running(command.pid)
  <2>1. command' = None /\ UNCHANGED <<files, child, abandoned>>
    BY <1>2 DEF Signal, End
  <2>2. \A p \in Pids : Tracked(p)' => Named(p)'
    BY <1>0, <2>1, ServersKept DEF Named
  <2> QED BY <1>0, <2>1, <2>2, EndStep DEF Server
<1>3. CASE Stopped
  <2>1. /\ command' = None /\ UNCHANGED <<child, abandoned>> /\ Forget
        /\ ~Running(command.pid) /\ Paths = {command.dir}
    BY <1>0, <1>3, CommandFacts DEF Stopped, End
  <2>2. ASSUME NEW p \in Pids, Tracked(p)
        PROVE  Default # command.dir /\ child[p].dir # command.dir
    BY <1>0, <2>1, <2>2 DEF Named
  <2>3. \A p \in Pids : Tracked(p)' => Named(p)'
    BY <1>0, <2>1, <2>2, ServersKept, ForgetFacts, DaemonAssumption DEF Named
  <2> QED BY <1>0, <2>1, <2>3, ForgetFacts, EndStep DEF Server
<1> QED BY <1>1, <1>2, <1>3

\* a command is typed
LEMMA RunStep ==
  ASSUME DaemonInv, NEW kind \in {"start", "status", "stop"}, NEW dir \in Dirs,
         NEW addr \in Addrs, Run(kind, dir, addr)
  PROVE  DaemonInv'
<1>1. command' \in Command /\ command'.step = "look" /\ command' # None
  <2>1. command' \in Command /\ command'.step = "look"
    BY DEF Run, Command, Steps
  <2> QED BY <2>1, CommandAssumption
<1>2. UNCHANGED <<files, child, abandoned>> /\ \A p \in Pids : Tracked(p) => Named(p)
  BY DEF Run, DaemonInv, StepInv
<1>3. \A p \in Pids : Tracked(p)' => Named(p)'
  BY <1>2, ServersKept DEF Named
<1> QED BY <1>1, <1>2, <1>3, ServersKept DEF DaemonInv, DaemonTypeOK, StepInv

\* every step of the composition keeps DaemonInv
LEMMA DaemonStep == DaemonInv /\ [Next]_vars => DaemonInv'
<1> SUFFICES ASSUME DaemonInv, [Next]_vars PROVE DaemonInv'
  OBVIOUS
<1>1. ASSUME UNCHANGED daemonVars PROVE DaemonInv'
  BY <1>1 DEF daemonVars, DaemonInv, DaemonTypeOK, StepInv, OneServer, Tracked, Named, Server
<1>2. CASE Probe \/ TokenReady \/ SpawnFails
  <2>1. /\ command # None /\ command.step \in {"probe", "open", "spawn"}
        /\ UNCHANGED <<files, child, abandoned>>
        /\ command' = None \/ Goto("open") \/ Goto("spawn")
    BY <1>2 DEF Probe, TokenReady, SpawnFails, At, End
  <2> QED BY <2>1, StartSteps
<1>3. CASE CommandStep
  BY <1>1, <1>2, <1>3, LookStep, SpawnStep, WriteStep, Endings, StopSteps DEF CommandStep
<1>4. ASSUME NEW p \in Pids, ServerStep(p) PROVE DaemonInv'
  <2>1. CASE Listen(p)
    BY <2>1, ServerSteps DEF Listen, Turn, Server
  <2>2. CASE Die(p)
    BY <2>2, ServerSteps DEF Die, Turn
  <2>3. CASE Reuse(p)
    <3>1. /\ child' = [child EXCEPT ![p].phase = "foreign"]
          /\ UNCHANGED <<files, command, abandoned>>
      BY <2>3 DEF Reuse, Turn
    <3>2. "foreign" \notin {"serving", "draining"}
      OBVIOUS
    <3> HIDE <2>3
    <3> QED BY <3>1, <3>2, ServerSteps
  <2> QED BY <1>1, <1>4, <2>1, <2>2, <2>3 DEF ServerStep
<1>5. CASE UNCHANGED vars
  BY <1>1, <1>5 DEF vars, daemonVars
<1> QED BY <1>3, <1>4, <1>5, RunStep DEF Next

\* a step of the composition is a step or a stutter of Migrations
LEMMA MigrationPart == [Next]_vars => [MigrationNext]_migrationVars
<1> SUFFICES ASSUME [Next]_vars PROVE [MigrationNext]_migrationVars
  OBVIOUS
<1>1. ASSUME NEW p \in Openers, OpenStep(p) \/ CloseStore(p) PROVE MigrationNext
  BY <1>1 DEF MigrationNext
<1>2. Operator \in Openers /\ Pids \subseteq Openers
  BY DaemonAssumption
<1>3. CASE CommandStep
  BY <1>1, <1>2, <1>3
     DEF CommandStep, Look, Probe, TokenReady, SpawnFails, Spawn, Write, WriteFails, Healthy,
         Exited, GiveUp, Signal, Stopped, StopTimesOut, Kill, migrationVars
<1>4. ASSUME NEW p \in Pids, ServerStep(p) PROVE [MigrationNext]_migrationVars
  BY <1>1, <1>2, <1>4 DEF ServerStep, Listen, Die, Reuse, migrationVars
<1> QED BY <1>3, <1>4 DEF Next, Run, migrationVars, vars

-----------------------------------------------------------------------------
\* both invariants hold in every reachable state
LEMMA DaemonInvariance == Spec => [](DaemonInv /\ MigrationInv)
<1>1. Init => DaemonInv /\ MigrationInv
  BY DaemonInitial, MigrationInitial DEF Init
<1> QED BY <1>1, DaemonStep, MigrationStep, MigrationPart, PTL DEF Spec

(* The type invariant of the composition: the command, the state files and *)
(* the servers (daemon.go).                                                *)
THEOREM DaemonTypeOKHolds == Spec => []TypeOK
<1>1. DaemonInv /\ MigrationInv => TypeOK
  BY DEF DaemonInv, DaemonTypeOK, MigrationInv, TypeOK
<1> QED BY <1>1, DaemonInvariance, PTL

(* Opening is as safe under the commands and servers as it is by itself.   *)
THEOREM DaemonOpensMigrated == Spec => []OpenedIsMigrated
<1>1. Init => MigrationInit
  BY DEF Init
<1> QED BY <1>1, MigrationPart, OpenedIsMigratedHolds, PTL DEF Spec, MigrationSpec

(* However many servers were started, crashed, were given up on or had     *)
(* their pid reused, what is left of them can be found and stopped.        *)
THEOREM ReachableServerHolds == Spec => []ReachableServer
<1>1. DaemonInv => ReachableServer
  BY DEF DaemonInv, StepInv, ReachableServer, Tracked, Named
<1> QED BY <1>1, DaemonInvariance, PTL

(* There is never a second server, wherever it keeps its data: a start     *)
(* finds the first, or its end, in the files (daemon.go:53-60).            *)
THEOREM OneServerHolds == Spec => []OneServer
<1>1. DaemonInv => OneServer
  BY DEF DaemonInv
<1> QED BY <1>1, DaemonInvariance, PTL

(* A start that reports health has seen its own server answer, or one that *)
(* was given up on before.                                                 *)
THEOREM StartIsTruthfulHolds == Spec => StartIsTruthful
<1> DEFINE Truth == /\ Serving(command.addr) # {}
                   /\ Serving(command.addr) \subseteq abandoned \cup {command.pid}
<1>1. DaemonInv /\ [Next]_vars => [Healthy => Truth]_vars
  <2> SUFFICES ASSUME DaemonInv, Healthy PROVE Truth
    OBVIOUS
  <2>1. Serving(command.addr) # {} /\ \A p \in Pids : Tracked(p) => p = command.pid
    BY DEF Healthy, At, DaemonInv, StepInv
  <2>2. \A p \in Serving(command.addr) : p \in Pids /\ Server(p)
    BY DEF Serving, Server
  <2> QED BY <2>1, <2>2 DEF Tracked
<1> QED BY <1>1, DaemonInvariance, PTL DEF Spec, StartIsTruthful
=============================================================================
