-------------------------------- MODULE Backup --------------------------------
(***************************************************************************)
(* `pamie backup' and `pamie restore' (cmd/pamie/main.go, internal/db/     *)
(* export.go, backup.go) beside the servers whose databases they read and  *)
(* fill.  An export reads six tables in six queries and no transaction; an *)
(* SQLite backup is one read, VACUUM INTO; an import adds the rows of an   *)
(* export in one transaction; a restore copies a file.  Files outlive the  *)
(* command that is killed while it writes them.                            *)
(***************************************************************************)
EXTENDS Naturals, FiniteSets, Sequences, Functions

CONSTANTS
  Homes,       \* paths of databases
  Populated,   \* the one that exists at first
  Exports,     \* paths of NDJSON files
  Copies,      \* paths of SQLite backups
  Jobs,        \* commands at work at once
  MaxCommits,  \* bound: transactions of the servers
  None

Paths == Homes \cup Exports \cup Copies

(* Mutant: chunks are read before the memories they belong to.             *)
TablesChunksFirst ==
  <<"memory_chunks", "memory_items", "memory_keywords", "memory_events", "retention_policies",
    "access_log">>

\* the order in which readExportData reads them
Tables ==
  <<"memory_items", "memory_chunks", "memory_keywords", "memory_events", "retention_policies",
    "access_log">>

\* a memory is named by the commit that saved it, and a text by the one that wrote it
Commits  == 1..MaxCommits
Row      == [id : Nat, memory : Commits \cup {None}, text : 0..MaxCommits]
NoRows   == [t \in Range(Tables) |-> {}]

VARIABLES
  file,      \* per path: None, or what a file is in and the rows in it
  job,       \* per command: None, or what it is doing
  commits    \* transactions so far

vars == <<file, job, commits>>

Database == [Range(Tables) -> SUBSET Row]
Content  == [state : {"empty", "partial", "whole"}, data : Database]

\* an export's next table, the rows it has, and what its source has been meanwhile
Doing(op, from, to, steps) ==
  [op : {op}, from : from, to : to, step : steps, at : 1..7, data : Database,
   seen : SUBSET Database]
Job ==
  Doing("export", Homes, Exports, {"open", "read", "write", "flush"})
    \cup Doing("copy", Homes, Copies, {"vacuum", "fill", "check"})
    \cup Doing("restore", Copies, Homes, {"create", "copy", "fill", "check"})
    \cup Doing("import", Exports, Homes, {"open", "parse", "conflicts", "apply"})

ASSUME BackupAssumption ==
  /\ Populated \in Homes /\ MaxCommits \in Nat
  /\ Homes \cap Exports = {} /\ Homes \cap Copies = {} /\ Exports \cap Copies = {}
  /\ None \notin Content \cup Job \cup Commits

TypeOK ==
  /\ \A p \in Paths : file[p] # None => file[p] \in Content
  /\ \A j \in Jobs : job[j] # None => job[j] \in Job
  /\ commits \in 0..MaxCommits

Init ==
  /\ file = [p \in Paths |-> IF p = Populated
               THEN [state |-> "whole",
                     data |-> [NoRows EXCEPT !["retention_policies"] =
                                 {[id |-> 1, memory |-> None, text |-> 0]}]]
               ELSE None]
  /\ job = [j \in Jobs |-> None]
  /\ commits = 0

-----------------------------------------------------------------------------
Is(p, states) == file[p] # None /\ file[p].state \in states
Put(p, state, data) == file' = [file EXCEPT ![p] = [state |-> state, data |-> data]]
Remove(p) == file' = [file EXCEPT ![p] = None]

At(j, op, step) == job[j] # None /\ job[j].op = op /\ job[j].step = step
Goto(j, step) == job' = [job EXCEPT ![j].step = step]
End(j) == job' = [job EXCEPT ![j] = None]

\* j has created the file at p, and has not come to its end
Writing(j, p) ==
  /\ job[j] # None /\ job[j].to = p
  /\ \/ job[j].op = "export"
     \/ job[j].op = "copy" /\ job[j].step \in {"fill", "check"}
     \/ job[j].op = "restore" /\ job[j].step \in {"copy", "fill", "check"}
Free(p) == \A j \in Jobs : ~Writing(j, p)
Unused(p) == \A j \in Jobs : job[j] # None => p \notin {job[j].from, job[j].to}

(* Mutant: the paths are passed in the wrong order.                        *)
LaunchSwapped(j, op, from, to, step) ==
  /\ job[j] = None
  /\ job' = [job EXCEPT ![j] = [op |-> op, from |-> to, to |-> from, step |-> step, at |-> 1,
                                data |-> NoRows, seen |-> {file[from].data}]]

Launch(j, op, from, to, step) ==
  /\ job[j] = None
  /\ job' = [job EXCEPT ![j] = [op |-> op, from |-> from, to |-> to, step |-> step, at |-> 1,
                                data |-> NoRows, seen |-> {file[from].data}]]

\* db.Open makes an absent or empty file a database; a damaged one it refuses
Openable(h) == file[h] = None \/ Is(h, {"empty", "whole"})
Opened(h) == Put(h, "whole", IF Is(h, {"whole"}) THEN file[h].data ELSE NoRows)

-----------------------------------------------------------------------------
(* The servers' transactions.  A memory has one chunk, and its keywords    *)
(* are one row here.                                                       *)
Insert(rows, id, m) == rows \cup {[id |-> id, memory |-> m, text |-> commits + 1]}
Replace(rows, id, m) == Insert({r \in rows : r.memory # m}, id, m)

\* AUTOINCREMENT: rows are numbered from 1 and never deleted
NextId(rows) == Cardinality(rows) + 1

\* history: what the commands that read h might have read
Noticed(h, data) ==
  [j \in Jobs |-> IF job[j] # None /\ job[j].from = h
                    THEN [job[j] EXCEPT !.seen = @ \cup {data}] ELSE job[j]]

Commit(h, data) ==
  /\ commits < MaxCommits
  /\ commits' = commits + 1
  /\ Is(h, {"whole"}) /\ Free(h)
  /\ Put(h, "whole", data)
  /\ job' = Noticed(h, data)

Save(h) ==
  LET d == file[h].data
      m == commits + 1
  IN  /\ file[h] # None
      /\ Commit(h, [d EXCEPT !["memory_items"] = Insert(@, m, m),
                             !["memory_chunks"] = Insert(@, m, m),
                             !["memory_keywords"] = Insert(@, m, m),
                             !["memory_events"] = Insert(@, NextId(@), m)])

\* Update, and what else records an event: the body and the keywords change or not
Edit(h) ==
  \E r \in file[h].data["memory_items"], changed \in SUBSET {"memory_chunks", "memory_keywords"} :
    LET d == file[h].data
        m == r.memory
    IN  Commit(h, [t \in DOMAIN d |->
          CASE t = "memory_items"  -> Replace(d[t], m, m)
            [] t = "memory_events" -> Insert(d[t], NextId(d[t]), m)
            [] t = "memory_chunks" /\ t \in changed -> Replace(d[t], commits + 1, m)
            [] t = "memory_keywords" /\ t \in changed -> Replace(d[t], m, m)
            [] OTHER -> d[t]])

Get(h) ==
  \E r \in file[h].data["memory_items"] :
    Commit(h, [file[h].data EXCEPT !["memory_items"] = Replace(@, r.memory, r.memory),
                                   !["access_log"] = Insert(@, NextId(@), r.memory)])

\* a server starts on a path that holds nothing yet
Serve(h) ==
  /\ file[h] = None \/ Is(h, {"empty"})
  /\ Free(h)
  /\ Opened(h)
  /\ UNCHANGED <<job, commits>>

-----------------------------------------------------------------------------
(* backup --format ndjson                                                  *)
StartExport(j, h, x) ==
  /\ file[h] # None /\ Free(h)
  /\ file[x] = None
  /\ Launch(j, "export", h, x, "open")
  /\ Put(x, "empty", NoRows)
  /\ UNCHANGED commits

\* a source that cannot be opened leaves the empty file behind
OpenSource(j) ==
  /\ At(j, "export", "open")
  /\ \/ Openable(job[j].from) /\ Opened(job[j].from) /\ Goto(j, "read")
     \/ End(j) /\ UNCHANGED file
  /\ UNCHANGED commits

ReadTable(j) ==
  /\ At(j, "export", "read") /\ job[j].at =< Len(Tables)
  /\ LET t == Tables[job[j].at]
     IN  job' = [job EXCEPT ![j].at = @ + 1, ![j].data[t] = file[job[j].from].data[t]]
  /\ UNCHANGED <<file, commits>>

\* the manifest carries the checksum and the counts of what follows it
WriteLines(j) ==
  /\ At(j, "export", "read") /\ job[j].at > Len(Tables)
  /\ Put(job[j].to, "partial", job[j].data)
  /\ Goto(j, "flush")
  /\ UNCHANGED commits

Flushed(j) ==
  /\ At(j, "export", "flush")
  /\ Put(job[j].to, "whole", job[j].data)
  /\ End(j)
  /\ UNCHANGED commits

ExportFails(j) ==
  /\ At(j, "export", "read") \/ At(j, "export", "flush")
  /\ Remove(job[j].to)
  /\ End(j)
  /\ UNCHANGED commits

-----------------------------------------------------------------------------
(* backup --format sqlite                                                  *)
StartCopy(j, h, b) ==
  /\ file[h] # None /\ Free(h)
  /\ file[b] = None
  /\ Launch(j, "copy", h, b, "vacuum")
  /\ UNCHANGED <<file, commits>>

(* Mutant: whatever is at the destination by now is overwritten.           *)
VacuumOver(j) ==
  /\ At(j, "copy", "vacuum") /\ Openable(job[j].from) /\ file[job[j].from] # None
  /\ Put(job[j].to, "partial", file[job[j].from].data)
  /\ job' = [job EXCEPT ![j].step = "fill", ![j].data = file[job[j].from].data]
  /\ UNCHANGED commits

\* VACUUM INTO takes no file that has something in it, and reads at one moment
Vacuum(j) ==
  /\ At(j, "copy", "vacuum") /\ Is(job[j].from, {"empty", "whole"})
  /\ file[job[j].to] = None \/ Is(job[j].to, {"empty"})
  /\ Put(job[j].to, "partial", file[job[j].from].data)
  /\ job' = [job EXCEPT ![j].step = "fill", ![j].data = file[job[j].from].data]
  /\ UNCHANGED commits

\* what it has written stays
VacuumFails(j) ==
  /\ \/ /\ At(j, "copy", "vacuum")
        /\ \/ UNCHANGED file
           \/ file[job[j].to] = None /\ Put(job[j].to, "empty", NoRows)
     \/ At(j, "copy", "fill") /\ UNCHANGED file
  /\ End(j)
  /\ UNCHANGED commits

(* Mutant: the file is copied while the servers write to it.               *)
FilledFromFile(j) ==
  /\ At(j, "copy", "fill")
  /\ Put(job[j].to, "whole",
         [file[job[j].from].data EXCEPT !["memory_items"] = job[j].data["memory_items"]])
  /\ Goto(j, "check")
  /\ UNCHANGED commits

Filled(j) ==
  /\ At(j, "copy", "fill")
  /\ Put(job[j].to, "whole", job[j].data)
  /\ Goto(j, "check")
  /\ UNCHANGED commits

\* integrityCheck: an empty file is a database without tables; it may also time out
Checked(j) ==
  /\ At(j, "copy", "check") \/ At(j, "restore", "check")
  /\ \/ Is(job[j].to, {"empty", "whole"}) /\ UNCHANGED file
     \/ Remove(job[j].to)
  /\ End(j)
  /\ UNCHANGED commits

-----------------------------------------------------------------------------
(* restore --format sqlite, from a file no command is at work on           *)
StartRestore(j, b, h) ==
  /\ Is(b, {"empty", "whole"}) /\ Unused(b)
  /\ file[h] = None /\ Unused(h)
  /\ Launch(j, "restore", b, h, "create")
  /\ UNCHANGED <<file, commits>>

\* O_EXCL: a server may have made the file since
CreateTarget(j) ==
  /\ At(j, "restore", "create")
  /\ IF file[job[j].to] = None THEN Put(job[j].to, "empty", NoRows) /\ Goto(j, "copy")
                               ELSE End(j) /\ UNCHANGED file
  /\ UNCHANGED commits

CopyTarget(j) ==
  /\ \/ At(j, "restore", "copy") /\ Put(job[j].to, "partial", NoRows) /\ Goto(j, "fill")
     \/ /\ At(j, "restore", "fill")
        /\ Put(job[j].to, file[job[j].from].state, file[job[j].from].data)
        /\ Goto(j, "check")
  /\ UNCHANGED commits

CopyFails(j) ==
  /\ At(j, "restore", "copy") \/ At(j, "restore", "fill")
  /\ Remove(job[j].to)
  /\ End(j)
  /\ UNCHANGED commits

-----------------------------------------------------------------------------
(* restore --format ndjson, with or without --dry-run                      *)
StartImport(j, x, h) ==
  /\ file[x] # None
  /\ Unused(h)
  /\ Launch(j, "import", x, h, "open")
  /\ UNCHANGED <<file, commits>>

OpenTarget(j) ==
  /\ At(j, "import", "open")
  /\ Openable(job[j].to) /\ Opened(job[j].to)
  /\ Goto(j, "parse")
  /\ UNCHANGED commits

Ids(rows) == {r.id : r \in rows}

\* validateImportData: every reference is to a memory of the file (ids come once in each query)
Closed(d) == \A t \in DOMAIN d : \A r \in d[t] : r.memory # None => r.memory \in Ids(d["memory_items"])

\* checksum and counts tell a whole file from what an interrupted export left
Parse(j) ==
  /\ At(j, "import", "parse") /\ Is(job[j].from, {"whole"})
  /\ Closed(file[job[j].from].data)
  /\ job' = [job EXCEPT ![j].step = "conflicts", ![j].data = file[job[j].from].data]
  /\ UNCHANGED <<file, commits>>

\* keywords are not looked for: they go with their memory, and replace what it has
Keyed == Range(Tables) \ {"memory_keywords"}
Conflict(d, e) == \E t \in Keyed : Ids(d[t]) \cap Ids(e[t]) # {}

\* ensureNoImportConflicts, before the transaction
NoConflicts(j) ==
  /\ At(j, "import", "conflicts") /\ ~Conflict(file[job[j].to].data, job[j].data)
  /\ Goto(j, "apply")
  /\ UNCHANGED <<file, commits>>

\* the transaction: a key that is taken by now fails it
Apply(j) ==
  /\ At(j, "import", "apply")
  /\ LET h == job[j].to
         d == [t \in Range(Tables) |-> file[h].data[t] \cup job[j].data[t]]
     IN  /\ ~Conflict(file[h].data, job[j].data)
         /\ Put(h, "whole", d)
         /\ job' = [Noticed(h, d) EXCEPT ![j] = None]
  /\ UNCHANGED commits

\* refused, rolled back, or a dry run
ImportEnds(j) ==
  /\ job[j] # None /\ job[j].op = "import"
  /\ End(j)
  /\ UNCHANGED <<file, commits>>

-----------------------------------------------------------------------------
\* the command is killed: its files stay as they are
Killed(j) ==
  /\ job[j] # None
  /\ End(j)
  /\ UNCHANGED <<file, commits>>

ServerStep(h) == Serve(h) \/ (file[h] # None /\ (Save(h) \/ Edit(h) \/ Get(h)))

Start(j) ==
  \E h \in Homes :
    \/ \E x \in Exports : StartExport(j, h, x) \/ StartImport(j, x, h)
    \/ \E b \in Copies : StartCopy(j, h, b) \/ StartRestore(j, b, h)

JobStep(j) ==
  \/ OpenSource(j) \/ ReadTable(j) \/ WriteLines(j) \/ Flushed(j) \/ ExportFails(j)
  \/ Vacuum(j) \/ VacuumFails(j) \/ Filled(j) \/ Checked(j)
  \/ CreateTarget(j) \/ CopyTarget(j) \/ CopyFails(j)
  \/ OpenTarget(j) \/ Parse(j) \/ NoConflicts(j) \/ Apply(j) \/ ImportEnds(j)
  \/ Killed(j)

Next == (\E h \in Homes : ServerStep(h)) \/ (\E j \in Jobs : Start(j) \/ JobStep(j))

Spec == Init /\ [][Next]_vars

-----------------------------------------------------------------------------
Whole(f, p) == f[p] # None /\ f[p].state = "whole"

(* A database that is served, was restored or has taken an import has no   *)
(* id twice, no row of a memory that is not there, and for every memory    *)
(* its one chunk: also when the export was taken while its source was      *)
(* written to (export.go:269-291, 702-852, 948-1019).                      *)
Consistent ==
  \A h \in Homes \cup Copies : Is(h, {"whole"}) =>
    LET d == file[h].data
    IN  /\ \A t \in DOMAIN d : \A r, s \in d[t] : r.id = s.id => r = s
        /\ Closed(d)
        /\ \A m \in Ids(d["memory_items"]) :
             \E r \in d["memory_chunks"] : r.memory = m
               /\ \A s \in d["memory_chunks"] : s.memory = m => s = r

(* An SQLite backup that ends well holds its source as it was at one       *)
(* moment while the backup ran; an NDJSON export holds each table as it    *)
(* was at some moment, and is such a snapshot if no commit fell between    *)
(* its reads (backup.go:16-62, export.go:159, 269).                        *)
BackupsAreSnapshots ==
  [][\A j \in Jobs :
       job[j] # None /\ job'[j] = None /\ job[j].op \in {"export", "copy"}
         /\ Writing(j, job[j].to) /\ Whole(file', job[j].to) =>
       LET d == file'[job[j].to].data
       IN  IF job[j].op = "copy" \/ Cardinality(job[j].seen) = 1
             THEN d \in job[j].seen
             ELSE \A t \in DOMAIN d : \E e \in job[j].seen : d[t] = e[t]]_vars

(* No command loses or changes what another has finished: a backup is      *)
(* never overwritten or removed, a database never loses a memory, and      *)
(* without a commit of its servers not a row (main.go:395-448,             *)
(* backup.go:64-112, export.go:218-255).                                   *)
NothingIsLost ==
  [][\A p \in Paths : Is(p, {"whole"}) /\ Free(p) =>
       /\ Whole(file', p)
       /\ p \notin Homes => file'[p] = file[p]
       /\ Ids(file[p].data["memory_items"]) \subseteq Ids(file'[p].data["memory_items"])
       /\ commits' = commits =>
            \A t \in DOMAIN file[p].data : file[p].data[t] \subseteq file'[p].data[t]]_vars
=============================================================================
