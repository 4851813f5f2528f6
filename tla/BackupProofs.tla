----------------------------- MODULE BackupProofs -----------------------------
(***************************************************************************)
(* For any number of paths, commands and commits: backups hold what their  *)
(* source was, and no command harms what another has finished.  The        *)
(* argument is about who may write where: at most one command writes a     *)
(* path, it made the file itself, and nobody writes what is being read;    *)
(* and about what an export holds while its source is written to.          *)
(***************************************************************************)
EXTENDS Backup, FiniteSetTheorems, TLAPS

Names == Range(Tables)

\* tables are finite, and a memory is a row with its own name
Sound(d) ==
  /\ \A t \in Names : IsFiniteSet(d[t])
  /\ \A r \in d["memory_items"] : r.memory \in Commits /\ r.id = r.memory

FilesOK ==
  /\ file \in [Paths -> Content \cup {None}]
  /\ \A p \in Paths : file[p] # None =>
       /\ Sound(file[p].data)
       /\ file[p].state = "empty" => file[p].data = NoRows

JobsOK ==
  /\ job \in [Jobs -> Job \cup {None}]
  /\ \A j \in Jobs : job[j] # None =>
       Sound(job[j].data) /\ IsFiniteSet(job[j].seen)

\* j still reads its source, or is about to
Reading(j) ==
  /\ job[j] # None
  /\ job[j].op = "export" \/ (job[j].op = "copy" /\ job[j].step = "vacuum")

\* nobody writes the source, and its present state is one of those j may have read
Copying(j, b) == job[j] # None /\ job[j].op = "copy" /\ job[j].to = b
SourceOK(j) ==
  /\ Reading(j) =>
       /\ file[job[j].from] # None /\ Free(job[j].from)
       /\ file[job[j].from].data \in job[j].seen
  /\ job[j] # None /\ job[j].op = "restore" =>
       file[job[j].from] # None /\ \A k \in Jobs : ~Copying(k, job[j].from)

\* what is at the destination of a command that has made it
TargetOK(j) ==
  /\ job[j] # None /\ job[j].op = "export" =>
       Is(job[j].to, IF job[j].step = "flush" THEN {"partial"} ELSE {"empty"})
  /\ At(j, "copy", "fill") => Is(job[j].to, {"partial"})
  /\ At(j, "copy", "check") => Is(job[j].to, {"whole"}) /\ file[job[j].to].data = job[j].data
  /\ \A p \in Paths : Writing(j, p) => file[p] # None
  /\ job[j] # None /\ job[j].op = "import" /\ job[j].step # "open" => file[job[j].to] # None

\* what j has read was there while it ran
DataOK(j) ==
  /\ job[j] # None /\ job[j].op = "export" =>
       \A i \in 1..6 : i < job[j].at \/ job[j].step = "flush" =>
         \E e \in job[j].seen : job[j].data[Tables[i]] = e[Tables[i]]
  /\ At(j, "copy", "fill") \/ At(j, "copy", "check") => job[j].data \in job[j].seen

\* a path has at most one writer, a database at most one command that fills it
Fills(j, h) == job[j] # None /\ job[j].op \in {"restore", "import"} /\ job[j].to = h
Alone ==
  /\ \A j, k \in Jobs, p \in Paths : Writing(j, p) /\ Writing(k, p) => j = k
  /\ \A j, k \in Jobs, h \in Homes : Fills(j, h) /\ Fills(k, h) => j = k

Inv ==
  /\ FilesOK /\ JobsOK /\ commits \in 0..MaxCommits /\ Alone
  /\ \A j \in Jobs : SourceOK(j) /\ TargetOK(j) /\ DataOK(j)

-----------------------------------------------------------------------------
\* the six tables of an export, in their order
LEMMA NamesOfTables ==
  /\ Names = {"memory_items", "memory_chunks", "memory_keywords", "memory_events",
              "retention_policies", "access_log"}
  /\ Len(Tables) = 6
  /\ \A i \in 1..6 : Tables[i] \in Names
  /\ \A t \in Names : \E i \in 1..6 : Tables[i] = t
<1>1. DOMAIN Tables = 1..6 /\ Len(Tables) = 6
  BY DEF Tables
<1>2. Names = {Tables[i] : i \in 1..6}
  BY <1>1 DEF Names, Range
<1>3. {Tables[i] : i \in 1..6} =
        {Tables[1], Tables[2], Tables[3], Tables[4], Tables[5], Tables[6]}
  <2>1. \A i \in 1..6 : i = 1 \/ i = 2 \/ i = 3 \/ i = 4 \/ i = 5 \/ i = 6
    OBVIOUS
  <2> QED BY <2>1
<1>4. /\ Tables[1] = "memory_items" /\ Tables[2] = "memory_chunks"
      /\ Tables[3] = "memory_keywords" /\ Tables[4] = "memory_events"
      /\ Tables[5] = "retention_policies" /\ Tables[6] = "access_log"
  BY DEF Tables
<1> QED BY <1>1, <1>2, <1>3, <1>4

\* a database without rows is sound
LEMMA NoRowsOK == NoRows \in Database /\ Sound(NoRows)
<1>1. NoRows \in Database /\ \A t \in Names : NoRows[t] = {}
  BY DEF NoRows, Database, Names
<1> QED BY <1>1, NamesOfTables, FS_EmptySet DEF Sound

\* the paths of a command are of the kinds its operation says
LEMMA JobKinds ==
  ASSUME JobsOK, NEW j \in Jobs, job[j] # None
  PROVE  /\ job[j] \in Job
         /\ job[j].op = "export" => job[j] \in Doing("export", Homes, Exports, {"open", "read", "write", "flush"})
         /\ job[j].op = "copy" => job[j] \in Doing("copy", Homes, Copies, {"vacuum", "fill", "check"})
         /\ job[j].op = "restore" => job[j] \in Doing("restore", Copies, Homes, {"create", "copy", "fill", "check"})
         /\ job[j].op = "import" => job[j] \in Doing("import", Exports, Homes, {"open", "parse", "conflicts", "apply"})
         /\ job[j].op \in {"export", "copy", "restore", "import"}
BY DEF JobsOK, Job, Doing

\* a step of the history leaves a command what it is
LEMMA SeenOnly ==
  ASSUME NEW r \in Job, NEW s \in SUBSET Database
  PROVE  LET n == [r EXCEPT !.seen = s]
         IN  /\ n \in Job /\ n.op = r.op /\ n.from = r.from /\ n.to = r.to
             /\ n.step = r.step /\ n.at = r.at /\ n.data = r.data /\ n.seen = s
<1>1. ASSUME NEW ops, NEW from, NEW to, NEW steps, r \in Doing(ops, from, to, steps)
      PROVE  LET n == [r EXCEPT !.seen = s]
             IN  /\ n \in Doing(ops, from, to, steps)
                 /\ n.op = r.op /\ n.from = r.from /\ n.to = r.to
                 /\ n.step = r.step /\ n.at = r.at /\ n.data = r.data /\ n.seen = s
  BY <1>1 DEF Doing
<1> QED BY <1>1 DEF Job

\* a command writes its destination alone, of the kind its operation makes
LEMMA WritesWithin ==
  ASSUME JobsOK, NEW j \in Jobs, NEW p, Writing(j, p)
  PROVE  /\ p \in Paths /\ p = job[j].to
         /\ job[j].op = "export" => p \in Exports
         /\ job[j].op = "copy" => p \in Copies
         /\ job[j].op = "restore" => p \in Homes
BY JobKinds DEF Writing, Doing, Paths

(* What a command does to files in one step: it changes those it writes,   *)
(* makes new ones, fills an empty file for a copy, and opens a database.   *)
OwnFiles(j) ==
  \A p \in Paths : file'[p] # file[p] =>
    \/ file[p] = None
    \/ Writing(j, p)
    \/ /\ Free(p) /\ file'[p] # None
       /\ \/ p \in Copies /\ Is(p, {"empty"})
          \/ p \in Homes /\ file'[p].state = "whole" /\ file'[p].data = file[p].data

(* A step of j keeps what the invariant says of the other commands, if it  *)
(* touches only its own files and begins to write only those.              *)
LEMMA OthersKept ==
  ASSUME Inv, FilesOK', JobsOK', commits' \in 0..MaxCommits, NEW j \in Jobs,
         \A k \in Jobs \ {j} : job'[k] = job[k],
         OwnFiles(j),
         \A p \in Paths : Writing(j, p)' =>
            Writing(j, p) \/ (Free(p) /\ (file[p] = None \/ p \in Copies)),
         \A h \in Homes : Fills(j, h)' => Fills(j, h) \/ Unused(h),
         \A b \in Copies : Copying(j, b)' => Copying(j, b) \/ file[b] = None,
         SourceOK(j)', TargetOK(j)', DataOK(j)'
  PROVE  Inv'
<1>1. ASSUME NEW k \in Jobs \ {j}, NEW p
      PROVE  Writing(k, p)' <=> Writing(k, p)
  BY <1>1 DEF Writing
<1>2. Alone'
  <2>1. ASSUME NEW a \in Jobs, NEW b \in Jobs, NEW p \in Paths, Writing(a, p)', Writing(b, p)'
        PROVE  a = b
    <3>1. CASE a # j /\ b # j
      BY <2>1, <3>1, <1>1 DEF Inv, Alone
    <3>2. CASE a = j /\ b # j
      <4>1. Writing(b, p) /\ ~Free(p)
        BY <2>1, <3>2, <1>1 DEF Free
      <4> QED BY <2>1, <3>2, <4>1 DEF Inv, Alone
    <3>3. CASE a # j /\ b = j
      <4>1. Writing(a, p) /\ ~Free(p)
        BY <2>1, <3>3, <1>1 DEF Free
      <4> QED BY <2>1, <3>3, <4>1 DEF Inv, Alone
    <3> QED BY <3>1, <3>2, <3>3
  <2>2. ASSUME NEW a \in Jobs, NEW b \in Jobs, NEW h \in Homes, Fills(a, h)', Fills(b, h)'
        PROVE  a = b
    <3>1. ASSUME NEW k \in Jobs \ {j}, Fills(k, h)' PROVE Fills(k, h) /\ ~Unused(h)
      BY <3>1 DEF Fills, Unused
    <3>2. CASE a # j /\ b # j
      BY <2>2, <3>1, <3>2 DEF Inv, Alone
    <3>3. CASE a = j /\ b # j
      BY <2>2, <3>1, <3>3 DEF Inv, Alone
    <3>4. CASE a # j /\ b = j
      BY <2>2, <3>1, <3>4 DEF Inv, Alone
    <3> QED BY <3>2, <3>3, <3>4
  <2> QED BY <2>1, <2>2 DEF Alone
<1>3. ASSUME NEW k \in Jobs \ {j}
      PROVE  SourceOK(k)' /\ TargetOK(k)' /\ DataOK(k)'
  <2>1. job'[k] = job[k]
    BY <1>3
  <2>2. SourceOK(k) /\ TargetOK(k) /\ DataOK(k)
    BY <1>3 DEF Inv
  <2>3. ASSUME NEW p \in Paths, Writing(k, p)
        PROVE  file'[p] = file[p]
    <3>1. file[p] # None /\ ~Free(p) /\ ~Writing(j, p)
      BY <1>3, <2>2, <2>3 DEF TargetOK, Free, Inv, Alone
    <3> QED BY <3>1 DEF OwnFiles
  <2>4. SourceOK(k)'
    <3>1. Reading(k)' => /\ file'[job'[k].from] # None /\ Free(job[k].from)'
                         /\ file'[job'[k].from].data \in job'[k].seen
      <4> SUFFICES ASSUME Reading(k)'
                   PROVE  /\ file'[job'[k].from] # None /\ Free(job[k].from)'
                          /\ file'[job'[k].from].data \in job'[k].seen
        OBVIOUS
      <4> DEFINE h == job[k].from
      <4>1. Reading(k)
        BY <2>1 DEF Reading
      <4>2. h \in Homes /\ h \in Paths /\ h \notin Copies
        BY <1>3, <4>1, JobKinds, BackupAssumption DEF Inv, Reading, Doing, Paths
      <4>3. file[h] # None /\ Free(h) /\ file[h].data \in job[k].seen
        BY <2>2, <4>1 DEF SourceOK
      <4>4. ~Writing(j, h)
        BY <4>3 DEF Free
      <4>5. file'[h] # None /\ file'[h].data = file[h].data
        BY <4>2, <4>3, <4>4 DEF OwnFiles
      <4>6. Free(h)'
        <5> SUFFICES ASSUME NEW i \in Jobs, Writing(i, h)'
                     PROVE  FALSE
          BY DEF Free
        <5>1. CASE i = j
          BY <5>1, <4>2, <4>3, <4>4
        <5>2. CASE i # j
          BY <5>2, <1>1, <4>3 DEF Free
        <5> QED BY <5>1, <5>2
      <4> QED BY <2>1, <4>3, <4>5, <4>6
    <3>2. ASSUME job'[k] # None, job'[k].op = "restore"
          PROVE  file'[job'[k].from] # None /\ \A i \in Jobs : ~Copying(i, job[k].from)'
      <4> DEFINE b == job[k].from
      <4>1. job[k] # None /\ job[k].op = "restore" /\ b \in Copies /\ b \in Paths
        BY <2>1, <3>2, JobKinds DEF Inv, Doing, Paths
      <4>2. file[b] # None /\ \A i \in Jobs : ~Copying(i, b)
        BY <2>2, <4>1 DEF SourceOK
      <4>3. ~Writing(j, b)
        <5> SUFFICES ASSUME Writing(j, b) PROVE FALSE
          OBVIOUS
        <5>1. job[j] # None /\ job[j].op = "copy" /\ job[j].to = b
          BY <4>1, WritesWithin, BackupAssumption DEF Inv, Writing
        <5> QED BY <4>2, <5>1 DEF Copying
      <4>4. file'[b] # None
        BY <4>1, <4>2, <4>3 DEF OwnFiles
      <4>5. \A i \in Jobs : ~Copying(i, b)'
        <5>1. ~Copying(j, b)'
          BY <4>1, <4>2
        <5>2. \A i \in Jobs \ {j} : ~Copying(i, b)'
          BY <4>2 DEF Copying
        <5> QED BY <5>1, <5>2
      <4> QED BY <2>1, <4>4, <4>5
    <3> QED BY <3>1, <3>2 DEF SourceOK
  <2>5. TargetOK(k)'
    <3>1. job[k] # None /\ job[k].op = "export" => Writing(k, job[k].to)
      BY DEF Writing
    <3>2. At(k, "copy", "fill") \/ At(k, "copy", "check") => Writing(k, job[k].to)
      BY DEF Writing, At
    <3>3. \A p : Writing(k, p) => p \in Paths
      BY <1>3, WritesWithin DEF Inv
    <3>4. \A p : Writing(k, p)' => file'[p] # None
      BY <1>1, <1>3, <2>2, <2>3, <3>3 DEF TargetOK
    <3>5. job'[k] # None /\ job'[k].op = "export" =>
            Is(job[k].to, IF job[k].step = "flush" THEN {"partial"} ELSE {"empty"})'
      BY <2>1, <2>2, <2>3, <3>1, <3>3 DEF TargetOK, Is
    <3>6. At(k, "copy", "fill")' => Is(job[k].to, {"partial"})'
      BY <2>1, <2>2, <2>3, <3>2, <3>3 DEF TargetOK, Is, At
    <3>7. At(k, "copy", "check")' =>
            Is(job[k].to, {"whole"})' /\ file'[job'[k].to].data = job'[k].data
      BY <2>1, <2>2, <2>3, <3>2, <3>3 DEF TargetOK, Is, At
    <3>8. ASSUME job'[k] # None, job'[k].op = "import", job'[k].step # "open"
          PROVE  file'[job'[k].to] # None
      <4> DEFINE h == job[k].to
      <4>1. job[k] # None /\ job[k].op = "import" /\ h \in Homes /\ h \in Paths
        BY <2>1, <3>8, JobKinds DEF Inv, Doing, Paths
      <4>2. file[h] # None /\ Fills(k, h)
        BY <2>1, <2>2, <3>8, <4>1 DEF TargetOK, Fills
      <4>3. ASSUME Writing(j, h) PROVE FALSE
        <5>1. job[j] # None /\ job[j].op = "restore" /\ job[j].to = h
          BY <4>1, <4>3, WritesWithin, BackupAssumption DEF Inv, Writing
        <5> QED BY <4>1, <4>2, <5>1 DEF Fills, Inv, Alone
      <4> QED BY <2>1, <4>1, <4>2, <4>3 DEF OwnFiles
    <3> QED BY <3>4, <3>5, <3>6, <3>7, <3>8 DEF TargetOK
  <2>6. DataOK(k)'
    BY <2>1, <2>2 DEF DataOK, At
  <2> QED BY <2>4, <2>5, <2>6
<1> QED BY <1>2, <1>3 DEF Inv

(* What Noticed does to the commands, some of which may end.               *)
LEMMA NoticedJobs ==
  ASSUME JobsOK, NEW h \in Homes, NEW data \in Database, NEW done \in SUBSET Jobs,
         job' = [j \in Jobs |-> IF j \in done THEN None ELSE Noticed(h, data)[j]]
  PROVE  /\ JobsOK'
         /\ \A j \in Jobs : job'[j] # None =>
              /\ job[j] # None
              /\ job'[j].op = job[j].op /\ job'[j].from = job[j].from
              /\ job'[j].to = job[j].to /\ job'[j].step = job[j].step
              /\ job'[j].at = job[j].at /\ job'[j].data = job[j].data
              /\ job[j].seen \subseteq job'[j].seen
              /\ job[j].from = h => data \in job'[j].seen
<1>1. ASSUME NEW j \in Jobs, job'[j] # None
      PROVE  /\ job[j] # None /\ job[j] \in Job
             /\ job'[j] = [job[j] EXCEPT !.seen = job'[j].seen]
             /\ job[j].seen \subseteq job'[j].seen
             /\ job'[j].seen \in SUBSET Database
             /\ IsFiniteSet(job'[j].seen)
             /\ job[j].from = h => data \in job'[j].seen
  <2>1. job'[j] = IF job[j] # None /\ job[j].from = h
                    THEN [job[j] EXCEPT !.seen = @ \cup {data}] ELSE job[j]
    BY <1>1 DEF Noticed
  <2>2. job[j] # None /\ job[j] \in Job /\ IsFiniteSet(job[j].seen)
    BY <1>1, <2>1 DEF JobsOK
  <2>3. job[j].seen \in SUBSET Database /\ job[j] = [job[j] EXCEPT !.seen = job[j].seen]
    BY <2>2 DEF Job, Doing
  <2>4. [job[j] EXCEPT !.seen = @ \cup {data}].seen = job[j].seen \cup {data}
    BY <2>2 DEF Job, Doing
  <2>5. IsFiniteSet(job[j].seen \cup {data})
    BY <2>2, FS_AddElement
  <2>6. CASE job[j].from = h
    BY <2>1, <2>2, <2>3, <2>4, <2>5, <2>6
  <2>7. CASE job[j].from # h
    BY <2>1, <2>2, <2>3, <2>7
  <2> QED BY <2>6, <2>7
<1>2. ASSUME NEW j \in Jobs, job'[j] # None
      PROVE  /\ job'[j] \in Job
             /\ job'[j].op = job[j].op /\ job'[j].from = job[j].from /\ job'[j].to = job[j].to
             /\ job'[j].step = job[j].step /\ job'[j].at = job[j].at /\ job'[j].data = job[j].data
  <2> DEFINE s == job'[j].seen
  <2>1. job[j] \in Job /\ s \in SUBSET Database /\ job'[j] = [job[j] EXCEPT !.seen = s]
    BY <1>1, <1>2
  <2> HIDE DEF s
  <2>2. LET n == [job[j] EXCEPT !.seen = s]
        IN  /\ n \in Job /\ n.op = job[j].op /\ n.from = job[j].from /\ n.to = job[j].to
            /\ n.step = job[j].step /\ n.at = job[j].at /\ n.data = job[j].data
    BY <2>1, SeenOnly
  <2> QED BY <2>1, <2>2
<1>3. JobsOK'
  <2>1. DOMAIN job' = Jobs /\ job' = [j \in Jobs |-> job'[j]]
    OBVIOUS
  <2>2. \A j \in Jobs : job'[j] \in Job \cup {None}
    BY <1>2
  <2>3. job' \in [Jobs -> Job \cup {None}]
    BY <2>1, <2>2
  <2> QED BY <1>1, <1>2, <2>3 DEF JobsOK
<1> QED BY <1>1, <1>2, <1>3

(* A database that no command writes takes new rows, and the commands that *)
(* read it notice.                                                         *)
LEMMA DatabaseKept ==
  ASSUME Inv, JobsOK', NEW h \in Homes, NEW data \in Database, Free(h),
         Sound(data),
         Put(h, "whole", data), commits' \in 0..MaxCommits,
         \A j \in Jobs : job'[j] # None =>
              /\ job[j] # None
              /\ job'[j].op = job[j].op /\ job'[j].from = job[j].from
              /\ job'[j].to = job[j].to /\ job'[j].step = job[j].step
              /\ job'[j].at = job[j].at /\ job'[j].data = job[j].data
              /\ job[j].seen \subseteq job'[j].seen
              /\ Reading(j) /\ job[j].from = h => data \in job'[j].seen
  PROVE  Inv'
<1>1. h \in Paths
  BY DEF Paths
<1>2. /\ file' = [file EXCEPT ![h] = [state |-> "whole", data |-> data]]
      /\ [state |-> "whole", data |-> data] \in Content
  BY DEF Put, Content
<1>3. [state |-> "whole", data |-> data] # None
  BY <1>2, BackupAssumption
<1>4. FilesOK'
  BY <1>1, <1>2, <1>3 DEF Inv, FilesOK
<1>8. ASSUME NEW j \in Jobs, NEW p, Writing(j, p)'
      PROVE  Writing(j, p) /\ p # h /\ p \in Paths /\ file'[p] = file[p]
  <2>1. Writing(j, p)
    BY <1>8 DEF Writing
  <2>2. p # h /\ p \in Paths
    BY <2>1, WritesWithin DEF Free, Inv
  <2> QED BY <1>2, <2>1, <2>2 DEF Inv, FilesOK
<1>9. Alone'
  <2>1. \A j \in Jobs, k \in Homes : Fills(j, k)' => Fills(j, k)
    BY DEF Fills
  <2> QED BY <1>8, <2>1 DEF Inv, Alone
<1>10. ASSUME NEW j \in Jobs
       PROVE  SourceOK(j)' /\ TargetOK(j)' /\ DataOK(j)'
  <2>1. SourceOK(j) /\ TargetOK(j) /\ DataOK(j)
    BY DEF Inv
  <2>2. SourceOK(j)'
    <3>1. Reading(j)' => /\ file'[job'[j].from] # None /\ Free(job[j].from)'
                         /\ file'[job'[j].from].data \in job'[j].seen
      <4> SUFFICES ASSUME Reading(j)'
                   PROVE  /\ file'[job'[j].from] # None /\ Free(job[j].from)'
                          /\ file'[job'[j].from].data \in job'[j].seen
        OBVIOUS
      <4>1. job'[j] # None /\ job'[j].from = job[j].from /\ Reading(j)
        BY DEF Reading
      <4>2. job[j].from \in Paths
        BY <4>1, JobKinds DEF Inv, Reading, Doing, Paths
      <4>3. file[job[j].from] # None /\ Free(job[j].from) /\ file[job[j].from].data \in job[j].seen
        BY <2>1, <4>1 DEF SourceOK
      <4>4. Free(job[j].from)'
        BY <4>1, <4>3, <1>8 DEF Free
      <4>5. CASE job[j].from = h
        <5>1. file'[h] = [state |-> "whole", data |-> data] /\ data \in job'[j].seen
          BY <1>1, <1>2, <4>1, <4>5 DEF Inv, FilesOK
        <5> QED BY <1>3, <4>1, <4>4, <4>5, <5>1
      <4>6. CASE job[j].from # h
        <5>1. file'[job[j].from] = file[job[j].from]
          BY <1>2, <4>2, <4>6 DEF Inv, FilesOK
        <5> QED BY <4>1, <4>3, <4>4, <5>1
      <4> QED BY <4>5, <4>6
    <3>2. ASSUME job'[j] # None, job'[j].op = "restore"
          PROVE  file'[job'[j].from] # None /\ \A i \in Jobs : ~Copying(i, job[j].from)'
      <4> DEFINE b == job[j].from
      <4>1. job[j] # None /\ job[j].op = "restore" /\ job'[j].from = b
        BY <3>2
      <4>2. b \in Paths /\ file[b] # None /\ \A i \in Jobs : ~Copying(i, b)
        BY <2>1, <4>1, JobKinds DEF SourceOK, Inv, Doing, Paths
      <4>3. file'[b] # None
        BY <1>2, <1>3, <4>2 DEF Inv, FilesOK
      <4>4. \A i \in Jobs : ~Copying(i, b)'
        BY <4>1, <4>2 DEF Copying
      <4> QED BY <4>1, <4>3, <4>4
    <3> QED BY <3>1, <3>2 DEF SourceOK
  <2>3. TargetOK(j)'
    <3>1. \A p \in Paths : Writing(j, p)' => file'[p] # None
      BY <1>8, <2>1 DEF TargetOK
    <3>2. job'[j] # None /\ job'[j].op = "export" => Writing(j, job[j].to)'
      BY DEF Writing
    <3>3. At(j, "copy", "fill")' \/ At(j, "copy", "check")' => Writing(j, job[j].to)'
      BY DEF Writing, At
    <3>4. ASSUME job'[j] # None, Writing(j, job[j].to)'
          PROVE  file'[job[j].to] = file[job[j].to] /\ job'[j].to = job[j].to
      BY <1>8, <3>4
    <3>5. job'[j] # None /\ job'[j].op = "export" =>
            Is(job[j].to, IF job[j].step = "flush" THEN {"partial"} ELSE {"empty"})'
      <4> SUFFICES ASSUME job'[j] # None, job'[j].op = "export"
                   PROVE  Is(job[j].to, IF job[j].step = "flush" THEN {"partial"} ELSE {"empty"})'
        OBVIOUS
      <4>1. job[j] # None /\ job[j].op = "export" /\ job'[j].step = job[j].step
        OBVIOUS
      <4>2. Is(job[j].to, IF job[j].step = "flush" THEN {"partial"} ELSE {"empty"})
        BY <2>1, <4>1 DEF TargetOK
      <4> QED BY <3>2, <3>4, <4>1, <4>2 DEF Is
    <3>6. At(j, "copy", "fill")' => Is(job[j].to, {"partial"})'
      <4> SUFFICES ASSUME At(j, "copy", "fill")' PROVE Is(job[j].to, {"partial"})'
        OBVIOUS
      <4>1. job'[j] # None /\ At(j, "copy", "fill")
        BY DEF At
      <4>2. Is(job[j].to, {"partial"})
        BY <2>1, <4>1 DEF TargetOK
      <4> QED BY <3>3, <3>4, <4>1, <4>2 DEF Is
    <3>7. At(j, "copy", "check")' =>
            Is(job[j].to, {"whole"})' /\ file'[job'[j].to].data = job'[j].data
      <4> SUFFICES ASSUME At(j, "copy", "check")'
                   PROVE  Is(job[j].to, {"whole"})' /\ file'[job'[j].to].data = job'[j].data
        OBVIOUS
      <4>1. job'[j] # None /\ At(j, "copy", "check") /\ job'[j].data = job[j].data
        BY DEF At
      <4>2. Is(job[j].to, {"whole"}) /\ file[job[j].to].data = job[j].data
        BY <2>1, <4>1 DEF TargetOK
      <4> QED BY <3>3, <3>4, <4>1, <4>2 DEF Is
    <3>8. ASSUME job'[j] # None, job'[j].op = "import", job'[j].step # "open"
          PROVE  file'[job'[j].to] # None
      <4>1. job[j] # None /\ job[j].op = "import" /\ job[j].step # "open" /\ job'[j].to = job[j].to
        BY <3>8
      <4>2. file[job[j].to] # None /\ job[j].to \in Paths
        BY <2>1, <4>1, JobKinds DEF TargetOK, Inv, Doing, Paths
      <4> QED BY <1>2, <1>3, <4>1, <4>2 DEF Inv, FilesOK
    <3> QED BY <3>1, <3>5, <3>6, <3>7, <3>8 DEF TargetOK
  <2>4. DataOK(j)'
    <3>1. job'[j] # None =>
            /\ job[j] # None /\ job'[j].op = job[j].op /\ job'[j].step = job[j].step
            /\ job'[j].at = job[j].at /\ job'[j].data = job[j].data
            /\ job[j].seen \subseteq job'[j].seen
      OBVIOUS
    <3> QED BY <2>1, <3>1 DEF DataOK, At
  <2> QED BY <2>2, <2>3, <2>4
<1> QED BY <1>4, <1>9, <1>10 DEF Inv

-----------------------------------------------------------------------------
(* Files and commands one at a time.                                       *)
LEMMA PutOK ==
  ASSUME FilesOK, NEW p \in Paths, NEW s \in {"empty", "partial", "whole"}, NEW d \in Database,
         Sound(d), s = "empty" => d = NoRows, Put(p, s, d)
  PROVE  /\ FilesOK'
         /\ file'[p] # None /\ file'[p].state = s /\ file'[p].data = d
         /\ \A q \in Paths \ {p} : file'[q] = file[q]
<1> DEFINE c == [state |-> s, data |-> d]
<1>1. c \in Content /\ c # None /\ c.state = s /\ c.data = d
  BY BackupAssumption DEF Content
<1>2. file' = [file EXCEPT ![p] = c]
  BY DEF Put
<1> HIDE DEF c
<1> QED BY <1>1, <1>2 DEF FilesOK

\* removing a file leaves the others
LEMMA RemoveOK ==
  ASSUME FilesOK, NEW p \in Paths, Remove(p)
  PROVE  FilesOK' /\ file'[p] = None /\ \A q \in Paths \ {p} : file'[q] = file[q]
BY DEF FilesOK, Remove

\* a command that changes leaves the others
LEMMA JobPut ==
  ASSUME JobsOK, NEW j \in Jobs, NEW r \in Job, Sound(r.data), IsFiniteSet(r.seen),
         job' = [job EXCEPT ![j] = r]
  PROVE  JobsOK' /\ job'[j] = r /\ job'[j] # None /\ \A k \in Jobs \ {j} : job'[k] = job[k]
BY BackupAssumption DEF JobsOK

\* a command that goes on to another step changes nothing else of itself
LEMMA GotoOK ==
  ASSUME JobsOK, NEW j \in Jobs, job[j] # None, NEW ops, NEW from, NEW to, NEW steps,
         job[j] \in Doing(ops, from, to, steps), Doing(ops, from, to, steps) \subseteq Job,
         NEW s \in steps, Goto(j, s)
  PROVE  /\ JobsOK'
         /\ job'[j] # None /\ job'[j].op = job[j].op /\ job'[j].from = job[j].from
         /\ job'[j].to = job[j].to /\ job'[j].step = s /\ job'[j].at = job[j].at
         /\ job'[j].data = job[j].data /\ job'[j].seen = job[j].seen
         /\ \A k \in Jobs \ {j} : job'[k] = job[k]
<1> DEFINE r == [job[j] EXCEPT !.step = s]
<1>1. /\ r \in Doing(ops, from, to, steps)
      /\ r.op = job[j].op /\ r.from = job[j].from /\ r.to = job[j].to /\ r.step = s
      /\ r.at = job[j].at /\ r.data = job[j].data /\ r.seen = job[j].seen
  BY DEF Doing
<1>2. job' = [job EXCEPT ![j] = r]
  BY DEF Goto
<1> HIDE DEF r
<1>3. r \in Job /\ Sound(r.data) /\ IsFiniteSet(r.seen)
  BY <1>1 DEF JobsOK
<1> QED BY <1>1, <1>2, <1>3, JobPut

\* a command ends
LEMMA EndOK ==
  ASSUME Inv, FilesOK', commits' \in 0..MaxCommits, NEW j \in Jobs, End(j), OwnFiles(j)
  PROVE  Inv'
<1>1. JobsOK' /\ job'[j] = None /\ \A k \in Jobs \ {j} : job'[k] = job[k]
  BY DEF Inv, JobsOK, End
<1>2. SourceOK(j)' /\ TargetOK(j)' /\ DataOK(j)'
  BY <1>1 DEF SourceOK, TargetOK, DataOK, Reading, Writing, At
<1>3. /\ \A p \in Paths : ~Writing(j, p)'
      /\ \A h \in Homes : ~Fills(j, h)'
      /\ \A b \in Copies : ~Copying(j, b)'
  BY <1>1 DEF Writing, Fills, Copying
<1> QED BY <1>1, <1>2, <1>3, OthersKept

\* a new command is what it was launched as
LEMMA Launched ==
  ASSUME JobsOK, NEW j \in Jobs, NEW op, NEW from, NEW to, NEW step,
         NEW froms, NEW tos, NEW steps, from \in froms, to \in tos, step \in steps,
         Doing(op, froms, tos, steps) \subseteq Job, file[from].data \in Database,
         Launch(j, op, from, to, step)
  PROVE  /\ JobsOK' /\ job[j] = None
         /\ job'[j] # None /\ job'[j].op = op /\ job'[j].from = from /\ job'[j].to = to
         /\ job'[j].step = step /\ job'[j].at = 1 /\ job'[j].data = NoRows
         /\ job'[j].seen = {file[from].data}
         /\ \A k \in Jobs \ {j} : job'[k] = job[k]
<1> DEFINE r == [op |-> op, from |-> from, to |-> to, step |-> step, at |-> 1,
                 data |-> NoRows, seen |-> {file[from].data}]
<1>1. r \in Doing(op, froms, tos, steps)
  BY NoRowsOK DEF Doing
<1>2. /\ r.op = op /\ r.from = from /\ r.to = to /\ r.step = step /\ r.at = 1
      /\ r.data = NoRows /\ r.seen = {file[from].data}
  OBVIOUS
<1>3. job[j] = None /\ job' = [job EXCEPT ![j] = r]
  BY DEF Launch
<1> HIDE DEF r
<1>4. r \in Job /\ Sound(r.data) /\ IsFiniteSet(r.seen)
  BY <1>1, <1>2, NoRowsOK, FS_Singleton
<1> QED BY <1>2, <1>3, <1>4, JobPut

\* the steps of each operation are steps of a command
LEMMA JobSets ==
  /\ Doing("export", Homes, Exports, {"open", "read", "write", "flush"}) \subseteq Job
  /\ Doing("copy", Homes, Copies, {"vacuum", "fill", "check"}) \subseteq Job
  /\ Doing("restore", Copies, Homes, {"create", "copy", "fill", "check"}) \subseteq Job
  /\ Doing("import", Exports, Homes, {"open", "parse", "conflicts", "apply"}) \subseteq Job
BY DEF Job

\* what is at a path is a content
LEMMA FileFacts ==
  ASSUME FilesOK, NEW p \in Paths, file[p] # None
  PROVE  /\ file[p].state \in {"empty", "partial", "whole"} /\ file[p].data \in Database
         /\ Sound(file[p].data)
         /\ file[p].state = "empty" => file[p].data = NoRows
BY DEF FilesOK, Content

\* there are neither files nor commands at first
LEMMA Initial == Init => Inv
<1> SUFFICES ASSUME Init PROVE Inv
  OBVIOUS
<1> DEFINE policy == [id |-> 1, memory |-> None, text |-> 0]
           first == [NoRows EXCEPT !["retention_policies"] = {policy}]
           c == [state |-> "whole", data |-> first]
<1>0. policy \in Row
  BY BackupAssumption DEF Row
<1> HIDE DEF policy
<1>1. first \in Database
  BY <1>0, NoRowsOK DEF Database
<1>2. Sound(first)
  <2>1. \A t \in Names : first[t] = {} \/ first[t] = {policy}
    BY DEF NoRows, Names
  <2>2. first["memory_items"] = {}
    BY NamesOfTables DEF NoRows, Names
  <2>3. \A t \in Names : IsFiniteSet(first[t])
    BY <2>1, FS_EmptySet, FS_Singleton
  <2> HIDE DEF first
  <2> QED BY <2>2, <2>3 DEF Sound
<1>3. c \in Content /\ c # None /\ c.data = first /\ c.state = "whole"
  BY <1>1, BackupAssumption DEF Content
<1>4. file = [p \in Paths |-> IF p = Populated THEN c ELSE None]
  BY DEF Init, policy
<1> HIDE DEF c, first
<1>5. FilesOK
  BY <1>2, <1>3, <1>4 DEF FilesOK
<1>6. \A j \in Jobs : job[j] = None
  BY DEF Init
<1>7. JobsOK /\ commits \in 0..MaxCommits
  BY BackupAssumption DEF Init, JobsOK
<1>8. Alone
  BY <1>6 DEF Alone, Writing, Fills
<1>9. \A j \in Jobs : SourceOK(j) /\ TargetOK(j) /\ DataOK(j)
  BY <1>6 DEF SourceOK, TargetOK, DataOK, Reading, Writing, At
<1> QED BY <1>5, <1>7, <1>8, <1>9 DEF Inv

-----------------------------------------------------------------------------
(* The servers.                                                            *)
LEMMA ServeStep ==
  ASSUME Inv, NEW h \in Homes, Serve(h)
  PROVE  Inv'
<1>0. FilesOK /\ h \in Paths
  BY DEF Inv, Paths
<1>1. ~Is(h, {"whole"}) /\ (file[h] # None => file[h].data = NoRows)
  BY <1>0, FileFacts DEF Serve, Is
<1>2. Put(h, "whole", NoRows) /\ Free(h) /\ UNCHANGED <<job, commits>>
  BY <1>1 DEF Serve, Opened
<1>3. ASSUME NEW j \in Jobs, Reading(j), job[j].from = h
      PROVE  NoRows \in job[j].seen
  BY <1>1, <1>3 DEF Inv, SourceOK
<1>4. JobsOK' /\ commits' \in 0..MaxCommits
  BY <1>2 DEF Inv, JobsOK
<1>5. \A j \in Jobs : job'[j] # None =>
        /\ job[j] # None
        /\ job'[j].op = job[j].op /\ job'[j].from = job[j].from
        /\ job'[j].to = job[j].to /\ job'[j].step = job[j].step
        /\ job'[j].at = job[j].at /\ job'[j].data = job[j].data
        /\ job[j].seen \subseteq job'[j].seen
        /\ Reading(j) /\ job[j].from = h => NoRows \in job'[j].seen
  BY <1>2, <1>3
<1> QED BY <1>2, <1>4, <1>5, NoRowsOK, DatabaseKept

\* a transaction of a server replaces the content of its database
LEMMA CommitStep ==
  ASSUME Inv, NEW h \in Homes, NEW data \in Database, Sound(data), Commit(h, data)
  PROVE  Inv'
<1>1. /\ commits < MaxCommits /\ commits' = commits + 1 /\ Free(h)
      /\ Put(h, "whole", data) /\ job' = Noticed(h, data)
  BY DEF Commit
<1>2. commits' \in 0..MaxCommits
  BY <1>1, BackupAssumption DEF Inv
<1> DEFINE done == {}
<1>3. /\ done \in SUBSET Jobs /\ JobsOK
      /\ job' = [j \in Jobs |-> IF j \in done THEN None ELSE Noticed(h, data)[j]]
  BY <1>1 DEF Noticed, Inv
<1> HIDE DEF done
<1>4. /\ JobsOK'
      /\ \A j \in Jobs : job'[j] # None =>
           /\ job[j] # None
           /\ job'[j].op = job[j].op /\ job'[j].from = job[j].from
           /\ job'[j].to = job[j].to /\ job'[j].step = job[j].step
           /\ job'[j].at = job[j].at /\ job'[j].data = job[j].data
           /\ job[j].seen \subseteq job'[j].seen
           /\ job[j].from = h => data \in job'[j].seen
  BY <1>3, NoticedJobs
<1>5. \A j \in Jobs : job'[j] # None =>
        /\ job[j] # None
        /\ job'[j].op = job[j].op /\ job'[j].from = job[j].from
        /\ job'[j].to = job[j].to /\ job'[j].step = job[j].step
        /\ job'[j].at = job[j].at /\ job'[j].data = job[j].data
        /\ job[j].seen \subseteq job'[j].seen
        /\ Reading(j) /\ job[j].from = h => data \in job'[j].seen
  BY <1>4
<1>6. JobsOK'
  BY <1>4
<1> HIDE <1>3, <1>4
<1> QED BY <1>1, <1>2, <1>5, <1>6, DatabaseKept

(* What the writers make of a table's rows.                                *)
LEMMA Written ==
  ASSUME Inv, commits < MaxCommits, NEW rows \in SUBSET Row, IsFiniteSet(rows),
         NEW id \in Nat, NEW m \in Commits \cup {None}
  PROVE  /\ Insert(rows, id, m) \in SUBSET Row /\ IsFiniteSet(Insert(rows, id, m))
         /\ Replace(rows, id, m) \in SUBSET Row /\ IsFiniteSet(Replace(rows, id, m))
         /\ NextId(rows) \in Nat
<1> DEFINE new == [id |-> id, memory |-> m, text |-> commits + 1]
           others == {r \in rows : r.memory # m}
<1>0. commits + 1 \in 0..MaxCommits
  BY BackupAssumption DEF Inv
<1>1. new \in Row
  BY <1>0 DEF Row
<1>2. others \in SUBSET Row /\ IsFiniteSet(others)
  BY FS_Subset
<1> HIDE DEF new
<1>3. IsFiniteSet(rows \cup {new}) /\ IsFiniteSet(others \cup {new})
  BY <1>2, FS_AddElement
<1>4. Insert(rows, id, m) = rows \cup {new} /\ Replace(rows, id, m) = others \cup {new}
  BY DEF Insert, Replace, new
<1>5. NextId(rows) \in Nat
  BY FS_CardinalityType DEF NextId
<1> QED BY <1>1, <1>2, <1>3, <1>4, <1>5

\* every memory's row keeps its own name
LEMMA NamedRows ==
  ASSUME NEW rows, NEW m \in Commits, \A r \in rows : r.memory \in Commits /\ r.id = r.memory
  PROVE  /\ \A r \in Insert(rows, m, m) : r.memory \in Commits /\ r.id = r.memory
         /\ \A r \in Replace(rows, m, m) : r.memory \in Commits /\ r.id = r.memory
         /\ Ids(rows) \subseteq Ids(Insert(rows, m, m))
         /\ Ids(rows) \subseteq Ids(Replace(rows, m, m))
<1>1. Ids(rows) \subseteq Ids(Replace(rows, m, m))
  <2> DEFINE new == [id |-> m, memory |-> m, text |-> commits + 1]
  <2>1. SUFFICES ASSUME NEW r \in rows
                 PROVE  \E s \in {i \in rows : i.memory # m} \cup {new} : s.id = r.id
    BY DEF Ids, Replace, Insert
  <2>2. CASE r.memory = m
    <3>1. new.id = r.id
      BY <2>2
    <3> QED BY <3>1
  <2> QED BY <2>2
<1> QED BY <1>1 DEF Ids, Insert, Replace

\* the tables of a database are finite sets of rows
LEMMA TablesOf ==
  ASSUME NEW d \in Database, Sound(d)
  PROVE  /\ \A t \in Names : d[t] \in SUBSET Row /\ IsFiniteSet(d[t])
         /\ DOMAIN d = Names /\ d = [t \in Names |-> d[t]]
         /\ \A r \in d["memory_items"] : r.memory \in Commits /\ r.id = r.memory
BY DEF Database, Sound, Names

\* what a commit may make of a database
Grown(h) ==
  \E e \in Database :
    Sound(e) /\ Commit(h, e) /\ Ids(file[h].data["memory_items"]) \subseteq Ids(e["memory_items"])

\* Save adds a memory and its rows
LEMMA SaveStep ==
  ASSUME Inv, NEW h \in Homes, Save(h)
  PROVE  Inv' /\ Grown(h)
<1> DEFINE d == file[h].data
           m == commits + 1
           e == [d EXCEPT !["memory_items"] = Insert(@, m, m),
                          !["memory_chunks"] = Insert(@, m, m),
                          !["memory_keywords"] = Insert(@, m, m),
                          !["memory_events"] = Insert(@, NextId(@), m)]
<1>1. Commit(h, e) /\ file[h] # None /\ commits < MaxCommits
  BY DEF Save, Commit
<1>2. d \in Database /\ Sound(d)
  <2>1. FilesOK /\ h \in Paths
    BY DEF Inv, Paths
  <2> QED BY <1>1, <2>1, FileFacts
<1>3. m \in Commits /\ m \in Nat
  BY <1>1, BackupAssumption DEF Inv, Commits
<1> HIDE DEF d, m
<1>4. /\ \A t \in Names : d[t] \in SUBSET Row /\ IsFiniteSet(d[t])
      /\ DOMAIN d = Names
      /\ \A r \in d["memory_items"] : r.memory \in Commits /\ r.id = r.memory
  BY <1>2, TablesOf
<1>5. \A t \in Names : /\ Insert(d[t], m, m) \in SUBSET Row /\ IsFiniteSet(Insert(d[t], m, m))
                       /\ NextId(d[t]) \in Nat
  BY <1>1, <1>3, <1>4, Written
<1>6. \A t \in Names : /\ Insert(d[t], NextId(d[t]), m) \in SUBSET Row
                       /\ IsFiniteSet(Insert(d[t], NextId(d[t]), m))
  BY <1>1, <1>3, <1>4, <1>5, Written
<1>7. \A t \in Names : \/ e[t] = d[t] \/ e[t] = Insert(d[t], m, m)
                       \/ e[t] = Insert(d[t], NextId(d[t]), m)
  BY <1>4
<1>8. e["memory_items"] = Insert(d["memory_items"], m, m)
  BY <1>4, NamesOfTables
<1>9. DOMAIN e = Names /\ e = [t \in Names |-> e[t]]
  BY <1>4
<1>10. e \in Database /\ \A t \in Names : IsFiniteSet(e[t])
  <2>1. \A t \in Names : e[t] \in SUBSET Row /\ IsFiniteSet(e[t])
    BY <1>4, <1>5, <1>6, <1>7
  <2> HIDE DEF e
  <2> QED BY <1>9, <2>1 DEF Database, Names
<1> HIDE DEF e
<1>11. Sound(e) /\ Ids(d["memory_items"]) \subseteq Ids(e["memory_items"])
  <2>1. /\ \A r \in e["memory_items"] : r.memory \in Commits /\ r.id = r.memory
        /\ Ids(d["memory_items"]) \subseteq Ids(e["memory_items"])
    BY <1>3, <1>4, <1>8, NamedRows
  <2> QED BY <1>10, <2>1 DEF Sound
<1>12. Grown(h)
  BY <1>1, <1>10, <1>11 DEF Grown, d
<1> QED BY <1>1, <1>10, <1>11, <1>12, CommitStep

\* Update rewrites the rows of a memory and adds an event
LEMMA EditStep ==
  ASSUME Inv, NEW h \in Homes, file[h] # None, Edit(h)
  PROVE  Inv' /\ Grown(h)
<1> DEFINE d == file[h].data
<1>1. d \in Database /\ Sound(d)
  <2>1. FilesOK /\ h \in Paths
    BY DEF Inv, Paths
  <2> QED BY <2>1, FileFacts
<1>2. PICK r \in d["memory_items"],
           changed \in SUBSET {"memory_chunks", "memory_keywords"} :
             Commit(h, [t \in DOMAIN d |->
               CASE t = "memory_items"  -> Replace(d[t], r.memory, r.memory)
                 [] t = "memory_events" -> Insert(d[t], NextId(d[t]), r.memory)
                 [] t = "memory_chunks" /\ t \in changed -> Replace(d[t], commits + 1, r.memory)
                 [] t = "memory_keywords" /\ t \in changed -> Replace(d[t], r.memory, r.memory)
                 [] OTHER -> d[t]])
  BY DEF Edit
<1> DEFINE m == r.memory
           e == [t \in DOMAIN d |->
                  CASE t = "memory_items"  -> Replace(d[t], m, m)
                    [] t = "memory_events" -> Insert(d[t], NextId(d[t]), m)
                    [] t = "memory_chunks" /\ t \in changed -> Replace(d[t], commits + 1, m)
                    [] t = "memory_keywords" /\ t \in changed -> Replace(d[t], m, m)
                    [] OTHER -> d[t]]
<1>3. Commit(h, e) /\ commits < MaxCommits
  BY <1>2 DEF Commit
<1> HIDE DEF d
<1>4. /\ \A t \in Names : d[t] \in SUBSET Row /\ IsFiniteSet(d[t])
      /\ DOMAIN d = Names
      /\ \A i \in d["memory_items"] : i.memory \in Commits /\ i.id = i.memory
  BY <1>1, TablesOf
<1>5. m \in Commits /\ m \in Nat /\ commits + 1 \in Nat
  BY <1>4, BackupAssumption DEF Commits, Inv
<1> HIDE DEF m
<1>6. \A t \in Names : /\ Replace(d[t], m, m) \in SUBSET Row /\ IsFiniteSet(Replace(d[t], m, m))
                       /\ Replace(d[t], commits + 1, m) \in SUBSET Row
                       /\ IsFiniteSet(Replace(d[t], commits + 1, m))
                       /\ NextId(d[t]) \in Nat
  BY <1>3, <1>4, <1>5, Written
<1>7. \A t \in Names : /\ Insert(d[t], NextId(d[t]), m) \in SUBSET Row
                       /\ IsFiniteSet(Insert(d[t], NextId(d[t]), m))
  BY <1>3, <1>4, <1>5, <1>6, Written
<1>8. \A t \in Names : e[t] \in SUBSET Row /\ IsFiniteSet(e[t])
  BY <1>4, <1>6, <1>7
<1>9. /\ \A i \in e["memory_items"] : i.memory \in Commits /\ i.id = i.memory
      /\ Ids(d["memory_items"]) \subseteq Ids(e["memory_items"])
  <2>1. e["memory_items"] = Replace(d["memory_items"], m, m)
    BY <1>4, NamesOfTables
  <2> HIDE DEF e
  <2> QED BY <1>4, <1>5, <2>1, NamedRows
<1>10. DOMAIN e = Names /\ e = [t \in Names |-> e[t]]
  BY <1>4
<1> HIDE DEF e
<1>11. e \in Database
  BY <1>8, <1>10 DEF Database, Names
<1>12. Sound(e)
  BY <1>8, <1>9 DEF Sound
<1>13. Grown(h)
  BY <1>3, <1>9, <1>11, <1>12 DEF Grown, d
<1> QED BY <1>3, <1>11, <1>12, <1>13, CommitStep

\* Get logs the access
LEMMA GetStep ==
  ASSUME Inv, NEW h \in Homes, file[h] # None, Get(h)
  PROVE  Inv' /\ Grown(h)
<1> DEFINE d == file[h].data
<1>1. d \in Database /\ Sound(d)
  <2>1. FilesOK /\ h \in Paths
    BY DEF Inv, Paths
  <2> QED BY <2>1, FileFacts
<1>2. PICK r \in d["memory_items"] :
        Commit(h, [d EXCEPT !["memory_items"] = Replace(@, r.memory, r.memory),
                            !["access_log"] = Insert(@, NextId(@), r.memory)])
  BY DEF Get
<1> DEFINE m == r.memory
           e == [d EXCEPT !["memory_items"] = Replace(@, m, m),
                          !["access_log"] = Insert(@, NextId(@), m)]
<1>3. Commit(h, e) /\ commits < MaxCommits
  BY <1>2 DEF Commit
<1> HIDE DEF d
<1>4. /\ \A t \in Names : d[t] \in SUBSET Row /\ IsFiniteSet(d[t])
      /\ DOMAIN d = Names
      /\ \A i \in d["memory_items"] : i.memory \in Commits /\ i.id = i.memory
  BY <1>1, TablesOf
<1>5. m \in Commits /\ m \in Nat
  BY <1>4, BackupAssumption DEF Commits
<1> HIDE DEF m
<1>6. \A t \in Names : /\ Replace(d[t], m, m) \in SUBSET Row /\ IsFiniteSet(Replace(d[t], m, m))
                       /\ NextId(d[t]) \in Nat
  BY <1>3, <1>4, <1>5, Written
<1>7. \A t \in Names : /\ Insert(d[t], NextId(d[t]), m) \in SUBSET Row
                       /\ IsFiniteSet(Insert(d[t], NextId(d[t]), m))
  BY <1>3, <1>4, <1>5, <1>6, Written
<1>8. \A t \in Names : e[t] \in SUBSET Row /\ IsFiniteSet(e[t])
  <2>1. \A t \in Names : \/ e[t] = d[t] \/ e[t] = Replace(d[t], m, m)
                         \/ e[t] = Insert(d[t], NextId(d[t]), m)
    BY <1>4
  <2> HIDE DEF e
  <2> QED BY <1>4, <1>6, <1>7, <2>1
<1>9. /\ \A i \in e["memory_items"] : i.memory \in Commits /\ i.id = i.memory
      /\ Ids(d["memory_items"]) \subseteq Ids(e["memory_items"])
  <2>1. e["memory_items"] = Replace(d["memory_items"], m, m)
    BY <1>4, NamesOfTables
  <2> HIDE DEF e
  <2> QED BY <1>4, <1>5, <2>1, NamedRows
<1>10. DOMAIN e = Names /\ e = [t \in Names |-> e[t]]
  BY <1>4
<1> HIDE DEF e
<1>11. e \in Database
  BY <1>8, <1>10 DEF Database, Names
<1>12. Sound(e)
  BY <1>8, <1>9 DEF Sound
<1>13. Grown(h)
  BY <1>3, <1>9, <1>11, <1>12 DEF Grown, d
<1> QED BY <1>3, <1>11, <1>12, <1>13, CommitStep

-----------------------------------------------------------------------------
(* The commands.                                                           *)
LEMMA NoneIsFree ==
  ASSUME Inv, NEW p \in Paths, file[p] = None
  PROVE  Free(p)
BY DEF Inv, TargetOK, Free

\* a path stays free when its user does not begin to write it
LEMMA StaysFree ==
  ASSUME NEW j \in Jobs, NEW p \in Paths, Free(p), \A k \in Jobs \ {j} : job'[k] = job[k],
         ~Writing(j, p)'
  PROVE  Free(p)'
BY DEF Free, Writing

\* what a restore or an import owes the invariant
LEMMA FillerOK ==
  ASSUME NEW j \in Jobs, job'[j] # None => job'[j].op \in {"restore", "import"},
         job'[j] # None => file'[job'[j].to] # None \/ job'[j].step \in {"create", "open"},
         job'[j] # None /\ job'[j].op = "restore" => job'[j].step # "open",
         job'[j] # None /\ job'[j].op = "import" => job'[j].step # "create",
         job'[j] # None /\ job'[j].op = "restore" =>
           file'[job'[j].from] # None /\ \A k \in Jobs : ~Copying(k, job[j].from)'
  PROVE  SourceOK(j)' /\ TargetOK(j)' /\ DataOK(j)'
<1>1. SourceOK(j)' /\ DataOK(j)'
  BY DEF SourceOK, DataOK, Reading, At
<1>2. \A p \in Paths : Writing(j, p)' => file'[p] # None
  BY DEF Writing
<1> QED BY <1>1, <1>2 DEF TargetOK, At

\* an export starts on a database nobody fills
LEMMA StartExportStep ==
  ASSUME Inv, NEW j \in Jobs, NEW h \in Homes, NEW x \in Exports, StartExport(j, h, x)
  PROVE  Inv' /\ OwnFiles(j)
<1>1. FilesOK /\ JobsOK /\ h \in Paths /\ x \in Paths /\ h # x /\ x \notin Homes
  BY BackupAssumption DEF Inv, Paths
<1>2. /\ file[h] # None /\ Free(h) /\ file[x] = None /\ commits' = commits
      /\ Launch(j, "export", h, x, "open") /\ Put(x, "empty", NoRows)
  BY DEF StartExport
<1>3. /\ FilesOK' /\ file'[x] # None /\ file'[x].state = "empty"
      /\ \A q \in Paths \ {x} : file'[q] = file[q]
  BY <1>1, <1>2, NoRowsOK, PutOK
<1>4. file[h].data \in Database
  BY <1>1, <1>2, FileFacts
<1>5. /\ JobsOK' /\ job[j] = None
      /\ job'[j] # None /\ job'[j].op = "export" /\ job'[j].from = h /\ job'[j].to = x
      /\ job'[j].step = "open" /\ job'[j].at = 1 /\ job'[j].seen = {file[h].data}
      /\ \A k \in Jobs \ {j} : job'[k] = job[k]
  BY <1>1, <1>2, <1>4, JobSets, Launched
<1>6. OwnFiles(j)
  BY <1>2, <1>3 DEF OwnFiles
<1>7. Free(x)
  BY <1>1, <1>2, NoneIsFree
<1>8. \A p \in Paths : Writing(j, p)' => p = x
  BY <1>5 DEF Writing
<1>9. Free(h)'
  BY <1>1, <1>2, <1>5, <1>8, StaysFree
<1>10. SourceOK(j)'
  BY <1>1, <1>2, <1>3, <1>5, <1>9 DEF SourceOK
<1>11. TargetOK(j)'
  BY <1>3, <1>5, <1>8 DEF TargetOK, Is, At
<1>12. DataOK(j)'
  BY <1>5 DEF DataOK, At
<1>13. (\A k \in Homes : ~Fills(j, k)') /\ \A b \in Copies : ~Copying(j, b)'
  BY <1>5 DEF Fills, Copying
<1>14. commits' \in 0..MaxCommits
  BY <1>2 DEF Inv
<1> QED BY <1>2, <1>3, <1>5, <1>6, <1>7, <1>8, <1>10, <1>11, <1>12, <1>13, <1>14, OthersKept

\* so does an SQLite backup
LEMMA StartCopyStep ==
  ASSUME Inv, NEW j \in Jobs, NEW h \in Homes, NEW b \in Copies, StartCopy(j, h, b)
  PROVE  Inv' /\ OwnFiles(j)
<1>1. FilesOK /\ JobsOK /\ h \in Paths /\ b \in Paths /\ h # b
  BY BackupAssumption DEF Inv, Paths
<1>2. /\ file[h] # None /\ Free(h) /\ file[b] = None /\ commits' = commits /\ file' = file
      /\ Launch(j, "copy", h, b, "vacuum")
  BY DEF StartCopy
<1>3. FilesOK' /\ OwnFiles(j)
  BY <1>1, <1>2 DEF FilesOK, OwnFiles
<1>4. file[h].data \in Database
  BY <1>1, <1>2, FileFacts
<1>5. /\ JobsOK' /\ job[j] = None
      /\ job'[j] # None /\ job'[j].op = "copy" /\ job'[j].from = h /\ job'[j].to = b
      /\ job'[j].step = "vacuum" /\ job'[j].seen = {file[h].data}
      /\ \A k \in Jobs \ {j} : job'[k] = job[k]
  BY <1>1, <1>2, <1>4, JobSets, Launched
<1>6. \A p \in Paths : ~Writing(j, p)'
  BY <1>5 DEF Writing
<1>7. Free(h)'
  BY <1>1, <1>2, <1>5, <1>6, StaysFree
<1>8. SourceOK(j)' /\ TargetOK(j)' /\ DataOK(j)'
  BY <1>2, <1>5, <1>6, <1>7 DEF SourceOK, TargetOK, DataOK, At
<1>9. (\A k \in Homes : ~Fills(j, k)') /\ \A c \in Copies : Copying(j, c)' => file[c] = None
  BY <1>2, <1>5 DEF Fills, Copying
<1>10. commits' \in 0..MaxCommits
  BY <1>2 DEF Inv
<1> QED BY <1>3, <1>5, <1>6, <1>8, <1>9, <1>10, OthersKept

\* a restore or an import starts on a database nobody uses
LEMMA StartFillStep ==
  ASSUME Inv, NEW j \in Jobs, NEW h \in Homes,
         \/ \E b \in Copies : StartRestore(j, b, h)
         \/ \E x \in Exports : StartImport(j, x, h)
  PROVE  Inv' /\ OwnFiles(j)
<1>1. FilesOK /\ JobsOK /\ h \in Paths
  BY DEF Inv, Paths
<1>2. file' = file /\ commits' = commits /\ Unused(h)
  BY DEF StartRestore, StartImport
<1>3. FilesOK' /\ OwnFiles(j) /\ commits' \in 0..MaxCommits
  BY <1>1, <1>2 DEF FilesOK, OwnFiles, Inv
<1>4. /\ JobsOK' /\ job'[j] # None /\ job'[j].to = h
      /\ \/ /\ job'[j].op = "restore" /\ job'[j].step = "create"
            /\ file[job'[j].from] # None /\ Unused(job'[j].from)
         \/ job'[j].op = "import" /\ job'[j].step = "open"
      /\ \A k \in Jobs \ {j} : job'[k] = job[k]
  <2>1. ASSUME NEW b \in Copies, StartRestore(j, b, h) PROVE <1>4
    <3>1. b \in Paths /\ file[b] # None /\ Unused(b) /\ Launch(j, "restore", b, h, "create")
      BY <2>1 DEF Paths, StartRestore, Is
    <3>2. file[b].data \in Database
      BY <1>1, <3>1, FileFacts
    <3> QED BY <1>1, <3>1, <3>2, JobSets, Launched
  <2>2. ASSUME NEW x \in Exports, StartImport(j, x, h) PROVE <1>4
    <3>1. x \in Paths /\ file[x] # None /\ Launch(j, "import", x, h, "open")
      BY <2>2 DEF Paths, StartImport
    <3>2. file[x].data \in Database
      BY <1>1, <3>1, FileFacts
    <3> QED BY <1>1, <3>1, <3>2, JobSets, Launched
  <2> QED BY <2>1, <2>2
<1>5. \A p \in Paths : ~Writing(j, p)'
  BY <1>4 DEF Writing
<1>6. \A k \in Homes : Fills(j, k)' => Unused(k)
  BY <1>2, <1>4 DEF Fills
<1>7. \A c \in Copies : ~Copying(j, c)'
  BY <1>4 DEF Copying
<1>8. ASSUME job'[j].op = "restore"
      PROVE  file'[job'[j].from] # None /\ \A k \in Jobs : ~Copying(k, job[j].from)'
  BY <1>2, <1>4, <1>8 DEF Copying, Unused
<1>9. SourceOK(j)' /\ TargetOK(j)' /\ DataOK(j)'
  BY <1>4, <1>8, FillerOK
<1> QED BY <1>3, <1>4, <1>5, <1>6, <1>7, <1>9, OthersKept

\* who changes only the file it writes keeps to its own files
LEMMA AtTarget ==
  ASSUME NEW j \in Jobs, NEW p \in Paths, Writing(j, p),
         \A q \in Paths \ {p} : file'[q] = file[q]
  PROVE  OwnFiles(j)
BY DEF OwnFiles

\* an export and its paths
LEMMA ExportFacts ==
  ASSUME Inv, NEW j \in Jobs, job[j] # None, job[j].op = "export"
  PROVE  /\ FilesOK /\ JobsOK
         /\ job[j] \in Doing("export", Homes, Exports, {"open", "read", "write", "flush"})
         /\ job[j].from \in Homes /\ job[j].from \in Paths /\ job[j].from \notin Exports
         /\ job[j].to \in Exports /\ job[j].to \in Paths /\ job[j].from # job[j].to
         /\ job[j].at \in 1..7 /\ job[j].data \in Database /\ Sound(job[j].data)
         /\ \A p \in Paths : Writing(j, p) <=> p = job[j].to
         /\ file[job[j].from] # None /\ Free(job[j].from)
         /\ file[job[j].from].data \in job[j].seen
         /\ Is(job[j].to, IF job[j].step = "flush" THEN {"partial"} ELSE {"empty"})
         /\ DataOK(j)
<1>1. FilesOK /\ JobsOK /\ SourceOK(j) /\ TargetOK(j) /\ DataOK(j)
  BY DEF Inv
<1>2. job[j] \in Doing("export", Homes, Exports, {"open", "read", "write", "flush"})
  BY <1>1, JobKinds
<1>3. /\ job[j].from \in Homes /\ job[j].to \in Exports
      /\ job[j].at \in 1..7 /\ job[j].data \in Database
  BY <1>2 DEF Doing
<1>4. /\ job[j].from \in Paths /\ job[j].to \in Paths /\ job[j].from \notin Exports
      /\ job[j].from # job[j].to
  BY <1>3, BackupAssumption DEF Paths
<1>5. \A p \in Paths : Writing(j, p) <=> p = job[j].to
  BY DEF Writing
<1>6. Sound(job[j].data)
  BY <1>1 DEF JobsOK
<1> QED BY <1>1, <1>2, <1>3, <1>4, <1>5, <1>6 DEF SourceOK, TargetOK, Reading

\* an export goes on, and its paths stay
LEMMA ExportGoesOn ==
  ASSUME Inv, FilesOK', JobsOK', commits' = commits, NEW j \in Jobs,
         job[j] # None, job[j].op = "export", OwnFiles(j),
         \A k \in Jobs \ {j} : job'[k] = job[k],
         job'[j] # None, job'[j].op = "export", job'[j].to = job[j].to,
         job'[j].from = job[j].from, job'[j].seen = job[j].seen,
         file'[job[j].from] # None, file'[job[j].from].data = file[job[j].from].data,
         job'[j].step = "flush" => Is(job[j].to, {"partial"})',
         job'[j].step # "flush" => Is(job[j].to, {"empty"})',
         DataOK(j)'
  PROVE  Inv'
<1>1. \A p \in Paths : Writing(j, p)' <=> p = job[j].to
  BY DEF Writing
<1>2. Free(job[j].from)'
  BY <1>1, ExportFacts, StaysFree
<1>3. SourceOK(j)'
  BY <1>2, ExportFacts DEF SourceOK
<1>4. TargetOK(j)'
  BY <1>1 DEF TargetOK, Is, At
<1>5. \A p \in Paths : Writing(j, p)' => Writing(j, p)
  BY <1>1, ExportFacts
<1>6. (\A k \in Homes : ~Fills(j, k)') /\ \A b \in Copies : ~Copying(j, b)'
  BY DEF Fills, Copying
<1>7. commits' \in 0..MaxCommits
  BY DEF Inv
<1> QED BY <1>3, <1>4, <1>5, <1>6, <1>7, OthersKept

\* an export opens its source, which may create and migrate it
LEMMA OpenSourceStep ==
  ASSUME Inv, NEW j \in Jobs, OpenSource(j)
  PROVE  Inv' /\ OwnFiles(j)
<1> DEFINE h == job[j].from
<1>1. /\ job[j] # None /\ job[j].op = "export" /\ job[j].step = "open" /\ commits' = commits
      /\ \/ Openable(h) /\ Opened(h) /\ Goto(j, "read")
         \/ End(j) /\ UNCHANGED file
  BY DEF OpenSource, At
<1>2. /\ FilesOK /\ JobsOK /\ h \in Paths /\ h \in Homes /\ h # job[j].to
      /\ job[j] \in Doing("export", Homes, Exports, {"open", "read", "write", "flush"})
      /\ file[h] # None /\ Free(h) /\ Is(job[j].to, {"empty"}) /\ job[j].to \in Paths /\ DataOK(j)
  BY <1>1, ExportFacts
<1>3. CASE Openable(h) /\ Opened(h) /\ Goto(j, "read")
  <2>1. /\ file[h].data \in Database /\ Sound(file[h].data)
        /\ Put(h, "whole", file[h].data)
    BY <1>2, <1>3, FileFacts DEF Openable, Opened, Is
  <2>2. /\ FilesOK' /\ file'[h] # None /\ file'[h].state = "whole" /\ file'[h].data = file[h].data
        /\ \A q \in Paths \ {h} : file'[q] = file[q]
    BY <1>2, <2>1, PutOK
  <2>3. OwnFiles(j)
    BY <1>2, <2>2 DEF OwnFiles
  <2>4. /\ JobsOK'
        /\ job'[j] # None /\ job'[j].op = job[j].op /\ job'[j].from = h
        /\ job'[j].to = job[j].to /\ job'[j].step = "read" /\ job'[j].at = job[j].at
        /\ job'[j].data = job[j].data /\ job'[j].seen = job[j].seen
        /\ \A k \in Jobs \ {j} : job'[k] = job[k]
    BY <1>1, <1>2, <1>3, JobSets, GotoOK
  <2>5. Is(job[j].to, {"empty"})'
    BY <1>2, <2>2, <2>4 DEF Is
  <2>6. DataOK(j)'
    BY <1>1, <1>2, <2>4 DEF DataOK, At
  <2> QED BY <1>1, <2>2, <2>3, <2>4, <2>5, <2>6, ExportGoesOn
<1>4. CASE End(j) /\ UNCHANGED file
  <2>1. FilesOK' /\ OwnFiles(j) /\ commits' \in 0..MaxCommits
    BY <1>1, <1>2, <1>4 DEF FilesOK, OwnFiles, Inv
  <2> QED BY <1>4, <2>1, EndOK
<1> QED BY <1>1, <1>3, <1>4

\* what a read of a table leaves the command with
LEMMA ReadTableFacts ==
  ASSUME Inv, NEW j \in Jobs, ReadTable(j)
  PROVE  LET h == job[j].from
             t == Tables[job[j].at]
         IN  /\ job[j] # None /\ job[j].op = "export" /\ job[j].step = "read"
             /\ job[j].at \in 1..6 /\ t \in Names
             /\ file' = file /\ commits' = commits
             /\ JobsOK' /\ job'[j] # None /\ job'[j].op = "export" /\ job'[j].step = "read"
             /\ job'[j].from = h /\ job'[j].to = job[j].to /\ job'[j].seen = job[j].seen
             /\ job'[j].at = job[j].at + 1
             /\ \A n \in Names : job'[j].data[n] =
                  IF n = t THEN file[h].data[n] ELSE job[j].data[n]
             /\ \A k \in Jobs \ {j} : job'[k] = job[k]
<1> DEFINE h == job[j].from
           t == Tables[job[j].at]
           r == [job[j] EXCEPT !.at = @ + 1, !.data[t] = file[h].data[t]]
<1>1. /\ job[j] # None /\ job[j].op = "export" /\ job[j].step = "read" /\ job[j].at =< 6
      /\ file' = file /\ commits' = commits /\ job' = [job EXCEPT ![j] = r]
  <2>1. /\ job[j] # None /\ job[j].op = "export" /\ job[j].step = "read" /\ job[j].at =< 6
        /\ file' = file /\ commits' = commits
        /\ job' = [job EXCEPT ![j].at = @ + 1, ![j].data[t] = file[h].data[t]]
    BY NamesOfTables DEF ReadTable, At
  <2>2. job \in [Jobs -> Job \cup {None}]
    BY DEF Inv, JobsOK
  <2> HIDE DEF h, t
  <2>3. [job EXCEPT ![j].at = @ + 1, ![j].data[t] = file[h].data[t]] = [job EXCEPT ![j] = r]
    BY <2>2
  <2> QED BY <2>1, <2>3
<1>2. /\ FilesOK /\ JobsOK /\ h \in Paths
      /\ job[j] \in Doing("export", Homes, Exports, {"open", "read", "write", "flush"})
      /\ job[j].at \in 1..7 /\ job[j].data \in Database /\ Sound(job[j].data)
      /\ file[h] # None /\ file[h].data \in job[j].seen /\ Is(job[j].to, {"empty"}) /\ DataOK(j)
  BY <1>1, ExportFacts
<1>3. file[h].data \in Database /\ Sound(file[h].data)
  BY <1>2, FileFacts
<1>4. t \in Names /\ job[j].at \in 1..6
  BY <1>1, <1>2, NamesOfTables
<1> DEFINE e == [job[j].data EXCEPT ![t] = file[h].data[t]]
<1>5. e \in Database /\ \A n \in Names : e[n] = IF n = t THEN file[h].data[n] ELSE job[j].data[n]
  BY <1>2, <1>3, <1>4 DEF Database, Names
<1>6. Sound(e)
  <2>1. \A n \in Names : IsFiniteSet(e[n])
    BY <1>2, <1>3, <1>5 DEF Sound
  <2>2. e["memory_items"] \in {job[j].data["memory_items"], file[h].data["memory_items"]}
    BY <1>5, NamesOfTables
  <2> HIDE DEF e
  <2> QED BY <1>2, <1>3, <2>1, <2>2 DEF Sound
<1>7. /\ r \in Doing("export", Homes, Exports, {"open", "read", "write", "flush"})
      /\ r.op = job[j].op /\ r.from = job[j].from /\ r.to = job[j].to /\ r.step = job[j].step
      /\ r.at = job[j].at + 1 /\ r.data = e /\ r.seen = job[j].seen
  <2>1. r = [job[j] EXCEPT !.at = job[j].at + 1, !.data = e]
    BY <1>2 DEF Doing
  <2>2. job[j].at + 1 \in 1..7
    BY <1>4
  <2> HIDE DEF r, e, t
  <2> QED BY <1>2, <1>5, <2>1, <2>2 DEF Doing
<1> HIDE DEF r, e
<1>8. /\ JobsOK' /\ job'[j] = r /\ job'[j] # None /\ \A k \in Jobs \ {j} : job'[k] = job[k]
  <2>1. r \in Job /\ Sound(r.data) /\ IsFiniteSet(r.seen)
    BY <1>1, <1>2, <1>6, <1>7, JobSets DEF JobsOK
  <2> QED BY <1>1, <1>2, <2>1, JobPut
<1> QED BY <1>1, <1>4, <1>5, <1>7, <1>8

\* an export reads the next table
LEMMA ReadTableStep ==
  ASSUME Inv, NEW j \in Jobs, ReadTable(j)
  PROVE  Inv' /\ OwnFiles(j)
<1> DEFINE h == job[j].from
           t == Tables[job[j].at]
<1>1. /\ job[j] # None /\ job[j].op = "export" /\ job[j].step = "read"
      /\ job[j].at \in 1..6 /\ t \in Names
      /\ file' = file /\ commits' = commits
      /\ JobsOK' /\ job'[j] # None /\ job'[j].op = "export" /\ job'[j].step = "read"
      /\ job'[j].from = h /\ job'[j].to = job[j].to /\ job'[j].seen = job[j].seen
      /\ job'[j].at = job[j].at + 1
      /\ \A n \in Names : job'[j].data[n] =
           IF n = t THEN file[h].data[n] ELSE job[j].data[n]
      /\ \A k \in Jobs \ {j} : job'[k] = job[k]
  BY ReadTableFacts
<1>2. /\ FilesOK /\ h \in Paths
      /\ file[h] # None /\ file[h].data \in job[j].seen /\ Is(job[j].to, {"empty"}) /\ DataOK(j)
  BY <1>1, ExportFacts
<1>3. FilesOK' /\ OwnFiles(j)
  BY <1>1, <1>2 DEF FilesOK, OwnFiles
<1>4. DataOK(j)'
  <2> SUFFICES ASSUME NEW i \in 1..6, i < job[j].at + 1
               PROVE  \E d \in job[j].seen : job'[j].data[Tables[i]] = d[Tables[i]]
    BY <1>1 DEF DataOK, At
  <2>1. Tables[i] \in Names
    BY NamesOfTables
  <2>2. CASE Tables[i] = t
    BY <1>1, <1>2, <2>1, <2>2
  <2>3. CASE Tables[i] # t
    <3>1. i < job[j].at
      BY <1>1, <2>3
    <3>2. PICK d \in job[j].seen : job[j].data[Tables[i]] = d[Tables[i]]
      BY <1>1, <1>2, <3>1 DEF DataOK
    <3> QED BY <1>1, <2>1, <2>3, <3>2
  <2> QED BY <2>2, <2>3
<1>5. Is(job[j].to, {"empty"})'
  BY <1>1, <1>2 DEF Is
<1> QED BY <1>1, <1>2, <1>3, <1>4, <1>5, ExportGoesOn

\* an export creates its file and writes to it
LEMMA WriteLinesStep ==
  ASSUME Inv, NEW j \in Jobs, WriteLines(j)
  PROVE  Inv' /\ OwnFiles(j)
<1> DEFINE x == job[j].to
<1>1. /\ job[j] # None /\ job[j].op = "export" /\ job[j].step = "read" /\ job[j].at > 6
      /\ Put(x, "partial", job[j].data) /\ commits' = commits /\ Goto(j, "flush")
  BY NamesOfTables DEF WriteLines, At
<1>2. /\ FilesOK /\ JobsOK /\ x \in Paths /\ job[j].from \in Paths /\ job[j].from # x
      /\ job[j] \in Doing("export", Homes, Exports, {"open", "read", "write", "flush"})
      /\ job[j].at \in 1..7 /\ job[j].data \in Database /\ Sound(job[j].data)
      /\ file[job[j].from] # None /\ Writing(j, x) /\ DataOK(j)
  BY <1>1, ExportFacts
<1>3. /\ FilesOK' /\ file'[x] # None /\ file'[x].state = "partial"
      /\ \A q \in Paths \ {x} : file'[q] = file[q]
  BY <1>1, <1>2, PutOK
<1>4. OwnFiles(j)
  BY <1>2, <1>3, AtTarget
<1>5. /\ JobsOK'
      /\ job'[j] # None /\ job'[j].op = job[j].op /\ job'[j].from = job[j].from
      /\ job'[j].to = x /\ job'[j].step = "flush" /\ job'[j].at = job[j].at
      /\ job'[j].data = job[j].data /\ job'[j].seen = job[j].seen
      /\ \A k \in Jobs \ {j} : job'[k] = job[k]
  BY <1>1, <1>2, JobSets, GotoOK
<1>6. Is(x, {"partial"})'
  BY <1>3, <1>5 DEF Is
<1>7. DataOK(j)'
  <2>1. \A i \in 1..6 : i < job[j].at
    BY <1>1, <1>2
  <2> QED BY <1>1, <1>2, <1>5, <2>1 DEF DataOK, At
<1> QED BY <1>1, <1>2, <1>3, <1>4, <1>5, <1>6, <1>7, ExportGoesOn

\* an export flushes its file, or gives up
LEMMA ExportEndsStep ==
  ASSUME Inv, NEW j \in Jobs, Flushed(j) \/ ExportFails(j)
  PROVE  Inv' /\ OwnFiles(j)
<1> DEFINE x == job[j].to
<1>1. /\ job[j] # None /\ job[j].op = "export" /\ commits' = commits /\ End(j)
      /\ Put(x, "whole", job[j].data) \/ Remove(x)
  BY DEF Flushed, ExportFails, At
<1>2. /\ FilesOK /\ x \in Paths /\ job[j].data \in Database /\ Sound(job[j].data) /\ Writing(j, x)
  BY <1>1, ExportFacts
<1>3. FilesOK' /\ \A q \in Paths \ {x} : file'[q] = file[q]
  BY <1>1, <1>2, PutOK, RemoveOK
<1>4. OwnFiles(j) /\ commits' \in 0..MaxCommits
  BY <1>1, <1>2, <1>3, AtTarget DEF Inv
<1> QED BY <1>1, <1>3, <1>4, EndOK

\* an SQLite backup and its paths
LEMMA CopyFacts ==
  ASSUME Inv, NEW j \in Jobs, job[j] # None, job[j].op = "copy"
  PROVE  /\ FilesOK /\ JobsOK
         /\ job[j] \in Doing("copy", Homes, Copies, {"vacuum", "fill", "check"})
         /\ job[j].from \in Homes /\ job[j].from \in Paths
         /\ job[j].to \in Copies /\ job[j].to \in Paths /\ job[j].from # job[j].to
         /\ job[j].data \in Database /\ Sound(job[j].data)
         /\ \A p \in Paths : Writing(j, p) <=> p = job[j].to /\ job[j].step \in {"fill", "check"}
         /\ job[j].step = "vacuum" =>
              /\ file[job[j].from] # None /\ Free(job[j].from)
              /\ file[job[j].from].data \in job[j].seen
         /\ job[j].step = "fill" => Is(job[j].to, {"partial"})
         /\ job[j].step = "check" => Is(job[j].to, {"whole"}) /\ file[job[j].to].data = job[j].data
         /\ job[j].step \in {"fill", "check"} => job[j].data \in job[j].seen
<1>1. FilesOK /\ JobsOK /\ SourceOK(j) /\ TargetOK(j) /\ DataOK(j)
  BY DEF Inv
<1>2. job[j] \in Doing("copy", Homes, Copies, {"vacuum", "fill", "check"})
  BY <1>1, JobKinds
<1>3. job[j].from \in Homes /\ job[j].to \in Copies /\ job[j].data \in Database
  BY <1>2 DEF Doing
<1>4. job[j].from \in Paths /\ job[j].to \in Paths /\ job[j].from # job[j].to
  BY <1>3, BackupAssumption DEF Paths
<1>5. \A p \in Paths : Writing(j, p) <=> p = job[j].to /\ job[j].step \in {"fill", "check"}
  BY DEF Writing
<1>6. Sound(job[j].data)
  BY <1>1 DEF JobsOK
<1> QED BY <1>1, <1>2, <1>3, <1>4, <1>5, <1>6 DEF SourceOK, TargetOK, DataOK, Reading, At

\* a copy goes on once it has read its source
LEMMA CopyGoesOn ==
  ASSUME Inv, FilesOK', JobsOK', commits' = commits, NEW j \in Jobs,
         job[j] # None, job[j].op = "copy", OwnFiles(j), Free(job[j].to) \/ Writing(j, job[j].to),
         \A k \in Jobs \ {j} : job'[k] = job[k],
         job'[j] # None, job'[j].op = "copy", job'[j].to = job[j].to,
         job'[j].data \in job'[j].seen, job'[j].step \in {"fill", "check"},
         job'[j].step = "fill" => Is(job[j].to, {"partial"})',
         job'[j].step = "check" => Is(job[j].to, {"whole"})' /\ file'[job[j].to].data = job'[j].data
  PROVE  Inv'
<1>1. \A p \in Paths : Writing(j, p)' => p = job[j].to
  BY DEF Writing
<1>2. SourceOK(j)' /\ DataOK(j)'
  BY DEF SourceOK, DataOK, Reading, At
<1>3. TargetOK(j)'
  BY <1>1 DEF TargetOK, Is, At
<1>4. \A p \in Paths : Writing(j, p)' => Writing(j, p) \/ (Free(p) /\ p \in Copies)
  BY <1>1, CopyFacts
<1>5. /\ \A h \in Homes : ~Fills(j, h)'
      /\ \A b \in Copies : Copying(j, b)' => Copying(j, b)
  BY DEF Fills, Copying
<1>6. commits' \in 0..MaxCommits
  BY DEF Inv
<1> QED BY <1>2, <1>3, <1>4, <1>5, <1>6, OthersKept

\* an empty file at the destination of a copy is nobody's
LEMMA EmptyIsFree ==
  ASSUME Inv, NEW b \in Copies, b \in Paths, Is(b, {"empty"})
  PROVE  Free(b)
<1> SUFFICES ASSUME NEW k \in Jobs, Writing(k, b) PROVE FALSE
  BY DEF Free
<1>1. job[k] # None /\ job[k].op = "copy" /\ job[k].to = b /\ job[k].step \in {"fill", "check"}
  BY WritesWithin, BackupAssumption DEF Inv, Writing
<1>2. Is(b, {"partial"}) \/ Is(b, {"whole"})
  BY <1>1, CopyFacts
<1> QED BY <1>2 DEF Is

\* VACUUM INTO begins its file from one state of the source
LEMMA VacuumStep ==
  ASSUME Inv, NEW j \in Jobs, Vacuum(j)
  PROVE  Inv' /\ OwnFiles(j)
<1> DEFINE h == job[j].from
           b == job[j].to
           r == [job[j] EXCEPT !.step = "fill", !.data = file[h].data]
<1>1. /\ job[j] # None /\ job[j].op = "copy" /\ job[j].step = "vacuum"
      /\ file[b] = None \/ Is(b, {"empty"})
      /\ Put(b, "partial", file[h].data) /\ commits' = commits
      /\ job' = [job EXCEPT ![j].step = "fill", ![j].data = file[h].data]
  BY DEF Vacuum, At
<1>2. /\ FilesOK /\ JobsOK /\ h \in Paths /\ b \in Paths /\ b \in Copies
      /\ job[j] \in Doing("copy", Homes, Copies, {"vacuum", "fill", "check"})
      /\ file[h] # None /\ file[h].data \in job[j].seen
  BY <1>1, CopyFacts
<1>3. file[h].data \in Database /\ Sound(file[h].data)
  BY <1>2, FileFacts
<1>4. /\ FilesOK' /\ file'[b] # None /\ file'[b].state = "partial"
      /\ \A q \in Paths \ {b} : file'[q] = file[q]
  BY <1>1, <1>2, <1>3, PutOK
<1>5. Free(b)
  BY <1>1, <1>2, NoneIsFree, EmptyIsFree
<1>6. OwnFiles(j)
  BY <1>1, <1>2, <1>4, <1>5 DEF OwnFiles
<1>7. job' = [job EXCEPT ![j] = r]
  <2>1. job \in [Jobs -> Job \cup {None}]
    BY <1>2 DEF JobsOK
  <2> HIDE DEF h
  <2> QED BY <1>1, <2>1
<1>8. /\ r \in Doing("copy", Homes, Copies, {"vacuum", "fill", "check"})
      /\ r.op = "copy" /\ r.to = b /\ r.step = "fill"
      /\ r.data = file[h].data /\ r.seen = job[j].seen
  BY <1>1, <1>2, <1>3 DEF Doing
<1> HIDE DEF r
<1>9. JobsOK' /\ job'[j] = r /\ job'[j] # None /\ \A k \in Jobs \ {j} : job'[k] = job[k]
  <2>1. r \in Job /\ Sound(r.data) /\ IsFiniteSet(r.seen)
    BY <1>1, <1>2, <1>3, <1>8, JobSets DEF JobsOK
  <2> QED BY <1>2, <1>7, <2>1, JobPut
<1>10. Is(b, {"partial"})'
  BY <1>4, <1>8, <1>9 DEF Is
<1> QED BY <1>1, <1>2, <1>4, <1>5, <1>6, <1>8, <1>9, <1>10, CopyGoesOn

\* the last block of a copy is written
LEMMA FilledStep ==
  ASSUME Inv, NEW j \in Jobs, Filled(j)
  PROVE  Inv' /\ OwnFiles(j)
<1> DEFINE b == job[j].to
<1>1. /\ job[j] # None /\ job[j].op = "copy" /\ job[j].step = "fill"
      /\ Put(b, "whole", job[j].data) /\ commits' = commits /\ Goto(j, "check")
  BY DEF Filled, At
<1>2. /\ FilesOK /\ JobsOK /\ b \in Paths /\ Writing(j, b)
      /\ job[j] \in Doing("copy", Homes, Copies, {"vacuum", "fill", "check"})
      /\ job[j].data \in Database /\ Sound(job[j].data) /\ job[j].data \in job[j].seen
  BY <1>1, CopyFacts
<1>3. /\ FilesOK' /\ file'[b] # None /\ file'[b].state = "whole" /\ file'[b].data = job[j].data
      /\ \A q \in Paths \ {b} : file'[q] = file[q]
  BY <1>1, <1>2, PutOK
<1>4. OwnFiles(j)
  BY <1>2, <1>3, AtTarget
<1>5. /\ JobsOK'
      /\ job'[j] # None /\ job'[j].op = job[j].op /\ job'[j].to = b /\ job'[j].step = "check"
      /\ job'[j].data = job[j].data /\ job'[j].seen = job[j].seen
      /\ \A k \in Jobs \ {j} : job'[k] = job[k]
  BY <1>1, <1>2, JobSets, GotoOK
<1>6. Is(b, {"whole"})'
  BY <1>3, <1>5 DEF Is
<1> QED BY <1>1, <1>2, <1>3, <1>4, <1>5, <1>6, CopyGoesOn

\* VACUUM INTO fails and leaves what it has written
LEMMA VacuumFailsStep ==
  ASSUME Inv, NEW j \in Jobs, VacuumFails(j)
  PROVE  Inv' /\ OwnFiles(j)
<1> DEFINE b == job[j].to
<1>1. /\ job[j] # None /\ job[j].op = "copy" /\ commits' = commits /\ End(j)
      /\ file' = file \/ (file[b] = None /\ Put(b, "empty", NoRows))
  BY DEF VacuumFails, At
<1>2. FilesOK /\ b \in Paths
  BY <1>1, CopyFacts
<1>3. FilesOK' /\ OwnFiles(j)
  <2>1. CASE file' = file
    BY <1>2, <2>1 DEF FilesOK, OwnFiles
  <2>2. CASE file[b] = None /\ Put(b, "empty", NoRows)
    <3>1. FilesOK' /\ \A q \in Paths \ {b} : file'[q] = file[q]
      BY <1>2, <2>2, NoRowsOK, PutOK
    <3> QED BY <2>2, <3>1 DEF OwnFiles
  <2> QED BY <1>1, <2>1, <2>2
<1>4. commits' \in 0..MaxCommits
  BY <1>1 DEF Inv
<1> QED BY <1>1, <1>3, <1>4, EndOK

\* a restore and its paths
LEMMA RestoreFacts ==
  ASSUME Inv, NEW j \in Jobs, job[j] # None, job[j].op = "restore"
  PROVE  /\ FilesOK /\ JobsOK
         /\ job[j] \in Doing("restore", Copies, Homes, {"create", "copy", "fill", "check"})
         /\ job[j].from \in Copies /\ job[j].from \in Paths
         /\ job[j].to \in Homes /\ job[j].to \in Paths /\ job[j].from # job[j].to
         /\ \A p \in Paths : Writing(j, p) <=> p = job[j].to /\ job[j].step # "create"
         /\ file[job[j].from] # None /\ \A k \in Jobs : ~Copying(k, job[j].from)
<1>1. FilesOK /\ JobsOK /\ SourceOK(j)
  BY DEF Inv
<1>2. job[j] \in Doing("restore", Copies, Homes, {"create", "copy", "fill", "check"})
  BY <1>1, JobKinds
<1>3. /\ job[j].from \in Copies /\ job[j].to \in Homes
      /\ job[j].step \in {"create", "copy", "fill", "check"}
  BY <1>2 DEF Doing
<1>4. job[j].from \in Paths /\ job[j].to \in Paths /\ job[j].from # job[j].to
  BY <1>3, BackupAssumption DEF Paths
<1>5. \A p \in Paths : Writing(j, p) <=> p = job[j].to /\ job[j].step # "create"
  BY <1>3 DEF Writing
<1> QED BY <1>1, <1>2, <1>3, <1>4, <1>5 DEF SourceOK

\* a restore that goes on has its destination to itself
LEMMA RestoreGoesOn ==
  ASSUME Inv, FilesOK', commits' = commits, NEW j \in Jobs,
         job[j] # None, job[j].op = "restore", NEW s \in {"copy", "fill", "check"}, Goto(j, s),
         file[job[j].to] = None \/ Writing(j, job[j].to),
         file'[job[j].to] # None, \A q \in Paths \ {job[j].to} : file'[q] = file[q]
  PROVE  Inv' /\ OwnFiles(j)
<1>1. /\ FilesOK /\ JobsOK /\ job[j].from \in Paths /\ job[j].to \in Paths
      /\ job[j] \in Doing("restore", Copies, Homes, {"create", "copy", "fill", "check"})
      /\ job[j].from # job[j].to
      /\ file[job[j].from] # None /\ \A k \in Jobs : ~Copying(k, job[j].from)
  BY RestoreFacts
<1>2. /\ JobsOK'
      /\ job'[j] # None /\ job'[j].op = job[j].op /\ job'[j].from = job[j].from
      /\ job'[j].to = job[j].to /\ job'[j].step = s
      /\ \A k \in Jobs \ {j} : job'[k] = job[k]
  BY <1>1, JobSets, GotoOK
<1>3. OwnFiles(j)
  BY <1>1 DEF OwnFiles
<1>4. \A p \in Paths : Writing(j, p)' => Writing(j, p) \/ (Free(p) /\ file[p] = None)
  <2>1. \A p \in Paths : Writing(j, p)' => p = job[j].to
    BY <1>2 DEF Writing
  <2> QED BY <1>1, <2>1, NoneIsFree
<1>5. /\ \A h \in Homes : Fills(j, h)' => Fills(j, h)
      /\ \A b \in Copies : ~Copying(j, b)'
  BY <1>2 DEF Fills, Copying
<1>6. \A k \in Jobs : ~Copying(k, job[j].from)'
  BY <1>1, <1>2 DEF Copying
<1>7. file'[job'[j].from] # None
  BY <1>1, <1>2
<1>8. SourceOK(j)' /\ TargetOK(j)' /\ DataOK(j)'
  BY <1>2, <1>6, <1>7, FillerOK
<1>9. commits' \in 0..MaxCommits
  BY DEF Inv
<1> QED BY <1>2, <1>3, <1>4, <1>5, <1>8, <1>9, OthersKept

\* a restore creates its destination exclusively
LEMMA CreateTargetStep ==
  ASSUME Inv, NEW j \in Jobs, CreateTarget(j)
  PROVE  Inv' /\ OwnFiles(j)
<1> DEFINE h == job[j].to
<1>1. /\ job[j] # None /\ job[j].op = "restore" /\ commits' = commits
      /\ IF file[h] = None THEN Put(h, "empty", NoRows) /\ Goto(j, "copy")
                           ELSE End(j) /\ UNCHANGED file
  BY DEF CreateTarget, At
<1>2. FilesOK /\ h \in Paths
  BY <1>1, RestoreFacts
<1>3. CASE file[h] = None
  <2>1. FilesOK' /\ file'[h] # None /\ \A q \in Paths \ {h} : file'[q] = file[q]
    BY <1>1, <1>2, <1>3, NoRowsOK, PutOK
  <2> QED BY <1>1, <1>3, <2>1, RestoreGoesOn
<1>4. CASE file[h] # None
  <2>1. FilesOK' /\ OwnFiles(j) /\ commits' \in 0..MaxCommits
    BY <1>1, <1>2, <1>4 DEF FilesOK, OwnFiles, Inv
  <2> QED BY <1>1, <1>4, <2>1, EndOK
<1> QED BY <1>3, <1>4

\* a restore copies the backup into it
LEMMA CopyTargetStep ==
  ASSUME Inv, NEW j \in Jobs, CopyTarget(j)
  PROVE  Inv' /\ OwnFiles(j)
<1> DEFINE h == job[j].to
           b == job[j].from
<1>1. /\ job[j] # None /\ job[j].op = "restore" /\ commits' = commits
      /\ job[j].step \in {"copy", "fill"}
      /\ \/ Put(h, "partial", NoRows) /\ Goto(j, "fill")
         \/ Put(h, file[b].state, file[b].data) /\ Goto(j, "check")
  BY DEF CopyTarget, At
<1>2. FilesOK /\ h \in Paths /\ b \in Paths /\ file[b] # None /\ Writing(j, h)
  BY <1>1, RestoreFacts
<1>3. FilesOK' /\ file'[h] # None /\ \A q \in Paths \ {h} : file'[q] = file[q]
  <2>1. CASE Put(h, "partial", NoRows)
    BY <1>2, <2>1, NoRowsOK, PutOK
  <2>2. CASE Put(h, file[b].state, file[b].data)
    <3>1. /\ file[b].state \in {"empty", "partial", "whole"} /\ file[b].data \in Database
          /\ Sound(file[b].data)
          /\ file[b].state = "empty" => file[b].data = NoRows
      BY <1>2, FileFacts
    <3> QED BY <1>2, <2>2, <3>1, PutOK
  <2> QED BY <1>1, <2>1, <2>2
<1> QED BY <1>1, <1>2, <1>3, RestoreGoesOn

\* the integrity check ends, or a restore gives up: the file stays or goes
LEMMA CheckOrFailStep ==
  ASSUME Inv, NEW j \in Jobs, Checked(j) \/ CopyFails(j)
  PROVE  Inv' /\ OwnFiles(j)
<1> DEFINE p == job[j].to
<1>1. /\ job[j] # None /\ commits' = commits /\ End(j)
      /\ \/ job[j].op = "copy" /\ job[j].step = "check"
         \/ job[j].op = "restore" /\ job[j].step \in {"copy", "fill", "check"}
      /\ file' = file \/ Remove(p)
  BY DEF Checked, CopyFails, At
<1>2. FilesOK /\ p \in Paths /\ Writing(j, p)
  BY <1>1, CopyFacts, RestoreFacts
<1>3. FilesOK' /\ \A q \in Paths \ {p} : file'[q] = file[q]
  <2>1. CASE file' = file
    BY <1>2, <2>1 DEF FilesOK
  <2>2. CASE Remove(p)
    BY <1>2, <2>2, RemoveOK
  <2> QED BY <1>1, <2>1, <2>2
<1>4. OwnFiles(j) /\ commits' \in 0..MaxCommits
  BY <1>1, <1>2, <1>3, AtTarget DEF Inv
<1> QED BY <1>1, <1>3, <1>4, EndOK

\* an import and its paths
LEMMA ImportFacts ==
  ASSUME Inv, NEW j \in Jobs, job[j] # None, job[j].op = "import"
  PROVE  /\ FilesOK /\ JobsOK
         /\ job[j] \in Doing("import", Exports, Homes, {"open", "parse", "conflicts", "apply"})
         /\ job[j].from \in Paths /\ job[j].to \in Homes /\ job[j].to \in Paths
         /\ job[j].data \in Database /\ Sound(job[j].data)
         /\ Free(job[j].to)
         /\ job[j].step # "open" => file[job[j].to] # None
<1>1. FilesOK /\ JobsOK /\ TargetOK(j)
  BY DEF Inv
<1>2. job[j] \in Doing("import", Exports, Homes, {"open", "parse", "conflicts", "apply"})
  BY <1>1, JobKinds
<1>3. /\ job[j].from \in Paths /\ job[j].to \in Homes /\ job[j].to \in Paths
      /\ job[j].data \in Database
  BY <1>2 DEF Doing, Paths
<1>4. Free(job[j].to)
  <2> SUFFICES ASSUME NEW k \in Jobs, Writing(k, job[j].to) PROVE FALSE
    BY DEF Free
  <2>1. job[k] # None /\ job[k].op = "restore" /\ job[k].to = job[j].to
    BY <1>1, <1>3, WritesWithin, BackupAssumption DEF Writing
  <2>2. k = j
    BY <1>3, <2>1 DEF Fills, Inv, Alone
  <2> QED BY <2>1, <2>2
<1>5. Sound(job[j].data)
  BY <1>1 DEF JobsOK
<1> QED BY <1>1, <1>2, <1>3, <1>4, <1>5 DEF TargetOK

\* an import goes on, and its paths stay
LEMMA ImportGoesOn ==
  ASSUME Inv, FilesOK', JobsOK', commits' = commits, NEW j \in Jobs,
         job[j] # None, job[j].op = "import", OwnFiles(j),
         \A k \in Jobs \ {j} : job'[k] = job[k],
         job'[j] # None, job'[j].op = "import", job'[j].to = job[j].to, job'[j].step # "create",
         file'[job[j].to] # None
  PROVE  Inv'
<1>1. \A p \in Paths : ~Writing(j, p)'
  BY DEF Writing
<1>2. /\ \A h \in Homes : Fills(j, h)' => Fills(j, h)
      /\ \A b \in Copies : ~Copying(j, b)'
  BY DEF Fills, Copying
<1>3. SourceOK(j)' /\ TargetOK(j)' /\ DataOK(j)'
  BY FillerOK
<1>4. commits' \in 0..MaxCommits
  BY DEF Inv
<1> QED BY <1>1, <1>2, <1>3, <1>4, OthersKept

\* an import opens its database, which may create and migrate it
LEMMA OpenTargetStep ==
  ASSUME Inv, NEW j \in Jobs, OpenTarget(j)
  PROVE  Inv' /\ OwnFiles(j)
<1> DEFINE h == job[j].to
           d == IF Is(h, {"whole"}) THEN file[h].data ELSE NoRows
<1>1. /\ job[j] # None /\ job[j].op = "import" /\ commits' = commits
      /\ Openable(h) /\ Put(h, "whole", d) /\ Goto(j, "parse")
  BY DEF OpenTarget, Opened, At
<1>2. /\ FilesOK /\ JobsOK /\ h \in Homes /\ h \in Paths /\ Free(h)
      /\ job[j] \in Doing("import", Exports, Homes, {"open", "parse", "conflicts", "apply"})
  BY <1>1, ImportFacts
<1>3. d \in Database /\ Sound(d) /\ (file[h] # None => d = file[h].data)
  BY <1>1, <1>2, FileFacts, NoRowsOK DEF Openable, Is
<1> HIDE DEF d
<1>4. /\ FilesOK' /\ file'[h] # None /\ file'[h].state = "whole" /\ file'[h].data = d
      /\ \A q \in Paths \ {h} : file'[q] = file[q]
  BY <1>1, <1>2, <1>3, PutOK
<1>5. OwnFiles(j)
  BY <1>2, <1>3, <1>4 DEF OwnFiles
<1>6. /\ JobsOK'
      /\ job'[j] # None /\ job'[j].op = job[j].op /\ job'[j].to = h /\ job'[j].step = "parse"
      /\ \A k \in Jobs \ {j} : job'[k] = job[k]
  BY <1>1, <1>2, JobSets, GotoOK
<1> QED BY <1>1, <1>4, <1>5, <1>6, ImportGoesOn

\* an import reads and checks the whole file
LEMMA ParseStep ==
  ASSUME Inv, NEW j \in Jobs, Parse(j)
  PROVE  Inv' /\ OwnFiles(j)
<1> DEFINE x == job[j].from
           r == [job[j] EXCEPT !.step = "conflicts", !.data = file[x].data]
<1>1. /\ job[j] # None /\ job[j].op = "import" /\ job[j].step = "parse" /\ file[x] # None
      /\ job' = [job EXCEPT ![j].step = "conflicts", ![j].data = file[x].data]
      /\ file' = file /\ commits' = commits
  BY DEF Parse, At, Is
<1>2. /\ FilesOK /\ JobsOK /\ x \in Paths /\ file[job[j].to] # None
      /\ job[j] \in Doing("import", Exports, Homes, {"open", "parse", "conflicts", "apply"})
  BY <1>1, ImportFacts
<1>3. file[x].data \in Database /\ Sound(file[x].data)
  BY <1>1, <1>2, FileFacts
<1>4. job' = [job EXCEPT ![j] = r]
  <2>1. job \in [Jobs -> Job \cup {None}]
    BY <1>2 DEF JobsOK
  <2> HIDE DEF x
  <2> QED BY <1>1, <2>1
<1>5. /\ r \in Doing("import", Exports, Homes, {"open", "parse", "conflicts", "apply"})
      /\ r.op = "import" /\ r.to = job[j].to /\ r.step = "conflicts"
      /\ r.data = file[x].data /\ r.seen = job[j].seen
  BY <1>1, <1>2, <1>3 DEF Doing
<1> HIDE DEF r
<1>6. JobsOK' /\ job'[j] = r /\ job'[j] # None /\ \A k \in Jobs \ {j} : job'[k] = job[k]
  <2>1. r \in Job /\ Sound(r.data) /\ IsFiniteSet(r.seen)
    BY <1>1, <1>2, <1>3, <1>5, JobSets DEF JobsOK
  <2> QED BY <1>2, <1>4, <2>1, JobPut
<1>7. FilesOK' /\ OwnFiles(j)
  BY <1>1, <1>2 DEF FilesOK, OwnFiles
<1> QED BY <1>1, <1>2, <1>5, <1>6, <1>7, ImportGoesOn

\* an import looks for its ids in the database
LEMMA NoConflictsStep ==
  ASSUME Inv, NEW j \in Jobs, NoConflicts(j)
  PROVE  Inv' /\ OwnFiles(j)
<1>1. /\ job[j] # None /\ job[j].op = "import" /\ job[j].step = "conflicts"
      /\ Goto(j, "apply") /\ file' = file /\ commits' = commits
  BY DEF NoConflicts, At
<1>2. /\ FilesOK /\ JobsOK /\ file[job[j].to] # None
      /\ job[j] \in Doing("import", Exports, Homes, {"open", "parse", "conflicts", "apply"})
  BY <1>1, ImportFacts
<1>3. FilesOK' /\ OwnFiles(j)
  BY <1>1, <1>2 DEF FilesOK, OwnFiles
<1>4. /\ JobsOK'
      /\ job'[j] # None /\ job'[j].op = job[j].op /\ job'[j].to = job[j].to
      /\ job'[j].step = "apply" /\ \A k \in Jobs \ {j} : job'[k] = job[k]
  BY <1>1, <1>2, JobSets, GotoOK
<1> QED BY <1>1, <1>2, <1>3, <1>4, ImportGoesOn

\* an import adds its rows to what is there
LEMMA ApplyFacts ==
  ASSUME Inv, NEW j \in Jobs, Apply(j)
  PROVE  LET h == job[j].to
             d == [t \in Names |-> file[h].data[t] \cup job[j].data[t]]
         IN  /\ h \in Homes /\ h \in Paths /\ file[h] # None /\ Free(h)
             /\ d \in Database /\ Sound(d) /\ Put(h, "whole", d)
             /\ job' = [Noticed(h, d) EXCEPT ![j] = None] /\ commits' = commits
<1> DEFINE h == job[j].to
           d == [t \in Names |-> file[h].data[t] \cup job[j].data[t]]
<1>1. /\ job[j] # None /\ job[j].op = "import" /\ job[j].step = "apply"
      /\ Put(h, "whole", d) /\ job' = [Noticed(h, d) EXCEPT ![j] = None] /\ commits' = commits
  BY DEF Apply, At, Names
<1>2. /\ FilesOK /\ h \in Homes /\ h \in Paths /\ Free(h) /\ file[h] # None
      /\ job[j].data \in Database /\ Sound(job[j].data)
  BY <1>1, ImportFacts
<1>3. file[h].data \in Database /\ Sound(file[h].data)
  BY <1>2, FileFacts
<1>4. d \in Database
  BY <1>2, <1>3 DEF Database, Names
<1>5. Sound(d)
  <2>1. \A t \in Names : d[t] = file[h].data[t] \cup job[j].data[t]
    OBVIOUS
  <2> HIDE DEF d
  <2>2. ASSUME NEW t \in Names PROVE IsFiniteSet(d[t])
    <3>1. IsFiniteSet(file[h].data[t]) /\ IsFiniteSet(job[j].data[t])
      BY <1>2, <1>3 DEF Sound
    <3>2. IsFiniteSet(file[h].data[t] \cup job[j].data[t])
      BY <3>1, FS_Union
    <3> QED BY <2>1, <3>2
  <2>3. \A r \in d["memory_items"] : r.memory \in Commits /\ r.id = r.memory
    BY <1>2, <1>3, <2>1, NamesOfTables DEF Sound
  <2> QED BY <2>2, <2>3 DEF Sound
<1> QED BY <1>1, <1>2, <1>4, <1>5

\* an import inserts all its rows in one transaction
LEMMA ApplyStep ==
  ASSUME Inv, NEW j \in Jobs, Apply(j)
  PROVE  Inv'
<1> DEFINE h == job[j].to
           d == [t \in Names |-> file[h].data[t] \cup job[j].data[t]]
           done == {j}
<1>1. /\ h \in Homes /\ file[h] # None /\ Free(h)
      /\ d \in Database /\ Sound(d) /\ Put(h, "whole", d)
      /\ job' = [Noticed(h, d) EXCEPT ![j] = None] /\ commits' = commits
  BY ApplyFacts
<1> HIDE DEF d, h
<1>2. commits' \in 0..MaxCommits /\ JobsOK
  BY <1>1 DEF Inv
<1>3. /\ done \in SUBSET Jobs
      /\ job' = [k \in Jobs |-> IF k \in done THEN None ELSE Noticed(h, d)[k]]
  BY <1>1 DEF Noticed
<1> HIDE DEF done
<1>4. /\ JobsOK'
      /\ \A k \in Jobs : job'[k] # None =>
           /\ job[k] # None
           /\ job'[k].op = job[k].op /\ job'[k].from = job[k].from
           /\ job'[k].to = job[k].to /\ job'[k].step = job[k].step
           /\ job'[k].at = job[k].at /\ job'[k].data = job[k].data
           /\ job[k].seen \subseteq job'[k].seen
           /\ job[k].from = h => d \in job'[k].seen
  BY <1>1, <1>2, <1>3, NoticedJobs
<1>5. \A k \in Jobs : job'[k] # None =>
        /\ job[k] # None
        /\ job'[k].op = job[k].op /\ job'[k].from = job[k].from
        /\ job'[k].to = job[k].to /\ job'[k].step = job[k].step
        /\ job'[k].at = job[k].at /\ job'[k].data = job[k].data
        /\ job[k].seen \subseteq job'[k].seen
        /\ Reading(k) /\ job[k].from = h => d \in job'[k].seen
  BY <1>4
<1>6. JobsOK'
  BY <1>4
<1> HIDE <1>3, <1>4
<1> QED BY <1>1, <1>2, <1>5, <1>6, DatabaseKept

\* an import ends, or a command is killed
LEMMA LeaveStep ==
  ASSUME Inv, NEW j \in Jobs, ImportEnds(j) \/ Killed(j)
  PROVE  Inv' /\ OwnFiles(j)
<1>1. End(j) /\ file' = file /\ commits' = commits
  BY DEF ImportEnds, Killed
<1>2. FilesOK' /\ OwnFiles(j) /\ commits' \in 0..MaxCommits
  BY <1>1 DEF Inv, FilesOK, OwnFiles
<1> QED BY <1>1, <1>2, EndOK

-----------------------------------------------------------------------------
(* Every step of a command but the transaction of an import keeps to its   *)
(* own files.                                                              *)
LEMMA CommandStep ==
  ASSUME Inv, NEW j \in Jobs, Start(j) \/ JobStep(j)
  PROVE  Inv' /\ (OwnFiles(j) \/ Apply(j))
<1>1. CASE Start(j)
  BY <1>1, StartExportStep, StartCopyStep, StartFillStep DEF Start
<1>2. CASE JobStep(j)
  <2>1. CASE OpenSource(j) \/ ReadTable(j) \/ WriteLines(j) \/ Flushed(j) \/ ExportFails(j)
    BY <2>1, OpenSourceStep, ReadTableStep, WriteLinesStep, ExportEndsStep
  <2>2. CASE Vacuum(j) \/ VacuumFails(j) \/ Filled(j) \/ Checked(j)
    BY <2>2, VacuumStep, VacuumFailsStep, FilledStep, CheckOrFailStep
  <2>3. CASE CreateTarget(j) \/ CopyTarget(j) \/ CopyFails(j)
    BY <2>3, CreateTargetStep, CopyTargetStep, CheckOrFailStep
  <2>4. CASE OpenTarget(j) \/ Parse(j) \/ NoConflicts(j)
    BY <2>4, OpenTargetStep, ParseStep, NoConflictsStep
  <2>5. CASE Apply(j)
    BY <2>5, ApplyStep
  <2>6. CASE ImportEnds(j) \/ Killed(j)
    BY <2>6, LeaveStep
  <2> QED BY <1>2, <2>1, <2>2, <2>3, <2>4, <2>5, <2>6 DEF JobStep
<1> QED BY <1>1, <1>2

\* every transaction of a server keeps the invariant and only adds memories
LEMMA ServersStep ==
  ASSUME Inv, NEW h \in Homes, ServerStep(h)
  PROVE  Inv' /\ (Serve(h) \/ Grown(h))
BY ServeStep, SaveStep, EditStep, GetStep DEF ServerStep

\* every step keeps the invariant
LEMMA Step == Inv /\ [Next]_vars => Inv'
<1> SUFFICES ASSUME Inv, [Next]_vars PROVE Inv'
  OBVIOUS
<1>1. CASE UNCHANGED vars
  BY <1>1 DEF vars, Inv, FilesOK, JobsOK, Alone, SourceOK, TargetOK, DataOK, Reading, Writing,
              Fills, Copying, Free, Is, At
<1> QED BY <1>1, ServersStep, CommandStep DEF Next

\* the invariant holds in every reachable state
LEMMA Always == Spec => []Inv
<1> QED BY Initial, Step, PTL DEF Spec

(* What is at a path has a state and the rows of a database, and a command *)
(* the paths and the steps of its operation (backup.go, export.go).        *)
THEOREM BackupTypeOKHolds == Spec => []TypeOK
<1>1. Inv => TypeOK
  BY DEF Inv, FilesOK, JobsOK, TypeOK
<1> QED BY <1>1, Always, PTL

-----------------------------------------------------------------------------
(* What NothingIsLost says of a step.                                      *)
Kept(p) ==
  /\ Whole(file', p)
  /\ p \notin Homes => file'[p] = file[p]
  /\ Ids(file[p].data["memory_items"]) \subseteq Ids(file'[p].data["memory_items"])
  /\ commits' = commits =>
       \A t \in DOMAIN file[p].data : file[p].data[t] \subseteq file'[p].data[t]

\* a whole file nobody writes keeps its memories through every step
LEMMA NothingLost ==
  ASSUME Inv, [Next]_vars, NEW p \in Paths, Is(p, {"whole"}), Free(p)
  PROVE  Kept(p)
<1>1. FilesOK /\ file[p] # None /\ file[p].state = "whole" /\ file[p].data \in Database
  BY FileFacts DEF Inv, Is
<1>2. ASSUME file'[p] = file[p] PROVE Kept(p)
  BY <1>1, <1>2 DEF Kept, Whole
<1>3. CASE UNCHANGED vars
  BY <1>2, <1>3 DEF vars
<1>4. ASSUME NEW h \in Homes, Serve(h) PROVE Kept(p)
  <2>1. h # p /\ \E d : Put(h, "whole", d)
    BY <1>1, <1>4 DEF Serve, Is, Opened
  <2> QED BY <1>1, <1>2, <2>1 DEF Put, FilesOK
<1>5. ASSUME NEW h \in Homes, Grown(h) PROVE Kept(p)
  <2>1. PICK e \in Database :
          /\ Sound(e) /\ Commit(h, e)
          /\ Ids(file[h].data["memory_items"]) \subseteq Ids(e["memory_items"])
    BY <1>5 DEF Grown
  <2>2. Put(h, "whole", e) /\ commits' = commits + 1 /\ commits \in Nat /\ h \in Paths
    BY <2>1, BackupAssumption DEF Commit, Inv, Paths
  <2>3. /\ file'[h] # None /\ file'[h].state = "whole" /\ file'[h].data = e
        /\ \A q \in Paths \ {h} : file'[q] = file[q]
    BY <1>1, <2>1, <2>2, PutOK
  <2>4. CASE p = h
    BY <1>5, <2>1, <2>2, <2>3, <2>4 DEF Kept, Whole
  <2> QED BY <1>2, <2>3, <2>4
<1>6. ASSUME NEW j \in Jobs, OwnFiles(j) PROVE Kept(p)
  <2>1. \/ file'[p] = file[p]
        \/ /\ file'[p] # None /\ p \in Homes
           /\ file'[p].state = "whole" /\ file'[p].data = file[p].data
    BY <1>1, <1>6 DEF OwnFiles, Free, Is
  <2> QED BY <1>2, <2>1 DEF Kept, Whole
<1>7. ASSUME NEW j \in Jobs, Apply(j) PROVE Kept(p)
  <2> DEFINE h == job[j].to
             d == [t \in Names |-> file[h].data[t] \cup job[j].data[t]]
  <2>1. h \in Homes /\ h \in Paths /\ d \in Database /\ Sound(d) /\ Put(h, "whole", d)
    BY <1>7, ApplyFacts
  <2>2. \A t \in Names : file[h].data[t] \subseteq d[t]
    OBVIOUS
  <2> HIDE DEF h, d
  <2>3. /\ file'[h] # None /\ file'[h].state = "whole" /\ file'[h].data = d
        /\ \A q \in Paths \ {h} : file'[q] = file[q]
    BY <1>1, <2>1, PutOK
  <2>4. CASE p = h
    <3>1. DOMAIN file[p].data = Names
      BY <1>1 DEF Database, Names
    <3> QED BY <2>1, <2>2, <2>3, <2>4, <3>1, NamesOfTables DEF Kept, Whole, Ids
  <2> QED BY <1>2, <2>3, <2>4
<1> QED BY <1>3, <1>4, <1>5, <1>6, <1>7, ServersStep, CommandStep DEF Next

(* No command loses or changes what another has finished: a backup is      *)
(* never overwritten or removed, a database never loses a memory, and      *)
(* without a commit not a row (main.go:395-448, backup.go:64-112).         *)
THEOREM NothingIsLostHolds == Spec => NothingIsLost
<1>1. ASSUME Inv, [Next]_vars
      PROVE  \A p \in Paths : Is(p, {"whole"}) /\ Free(p) => Kept(p)
  BY <1>1, NothingLost
<1>2. Inv /\ [Next]_vars =>
        [\A p \in Paths : Is(p, {"whole"}) /\ Free(p) =>
           /\ Whole(file', p)
           /\ p \notin Homes => file'[p] = file[p]
           /\ Ids(file[p].data["memory_items"]) \subseteq Ids(file'[p].data["memory_items"])
           /\ commits' = commits =>
                \A t \in DOMAIN file[p].data : file[p].data[t] \subseteq file'[p].data[t]]_vars
  BY <1>1 DEF Kept
<1> QED BY <1>2, Always, PTL DEF Spec, NothingIsLost

-----------------------------------------------------------------------------
(* What BackupsAreSnapshots says of the file at j's destination.           *)
Snapshot(j) ==
  LET d == file'[job[j].to].data
  IN  IF job[j].op = "copy" \/ Cardinality(job[j].seen) = 1
        THEN d \in job[j].seen
        ELSE \A t \in DOMAIN d : \E e \in job[j].seen : d[t] = e[t]

\* until its last step an export is not whole, and a whole copy is checked already
LEMMA NotYet ==
  ASSUME Inv, NEW j \in Jobs, job[j] # None, job[j].op \in {"export", "copy"},
         Writing(j, job[j].to), file'[job[j].to] = file[job[j].to], Whole(file', job[j].to)
  PROVE  Snapshot(j)
<1>1. CASE job[j].op = "export"
  BY <1>1, ExportFacts DEF Is, Whole
<1>2. CASE job[j].op = "copy"
  <2>1. job[j].to \in Paths /\ job[j].step \in {"fill", "check"}
    BY <1>2, CopyFacts
  <2>2. job[j].step = "check"
    BY <1>2, <2>1, CopyFacts DEF Is, Whole
  <2> QED BY <1>2, <2>2, CopyFacts DEF Snapshot
<1> QED BY <1>1, <1>2

\* the last write of an export: table by table it is something its source was
LEMMA ExportIsSnapshot ==
  ASSUME Inv, NEW j \in Jobs, Flushed(j)
  PROVE  Snapshot(j)
<1> DEFINE x == job[j].to
           d == job[j].data
<1>1. /\ job[j] # None /\ job[j].op = "export" /\ job[j].step = "flush" /\ Put(x, "whole", d)
  BY DEF Flushed, At
<1>2. FilesOK /\ JobsOK /\ x \in Paths /\ d \in Database /\ Sound(d) /\ DataOK(j)
  BY <1>1, ExportFacts
<1>3. file'[x].data = d
  BY <1>1, <1>2, PutOK
<1>4. \A t \in Names : \E e \in job[j].seen : d[t] = e[t]
  BY <1>1, <1>2, NamesOfTables DEF DataOK
<1>5. ASSUME Cardinality(job[j].seen) = 1 PROVE d \in job[j].seen
  <2>1. IsFiniteSet(job[j].seen) /\ job[j].seen \in SUBSET Database
    BY <1>1, <1>2, JobKinds DEF JobsOK, Doing
  <2>2. PICK e : job[j].seen = {e}
    BY <1>5, <2>1, FS_Singleton
  <2>3. e \in Database /\ \A t \in Names : d[t] = e[t]
    BY <1>4, <2>1, <2>2
  <2>4. d = e
    BY <1>2, <2>3 DEF Database, Names
  <2> QED BY <2>2, <2>4
<1>6. DOMAIN d = Names
  BY <1>2 DEF Database, Names
<1> QED BY <1>1, <1>3, <1>4, <1>5, <1>6 DEF Snapshot

\* the other steps of an export do not end it well
LEMMA ExportNotYet ==
  ASSUME Inv, NEW j \in Jobs, OpenSource(j) \/ ReadTable(j) \/ WriteLines(j) \/ ExportFails(j)
  PROVE  ~Whole(file', job[j].to)
<1>1. /\ job[j] # None /\ job[j].op = "export"
      /\ job[j].step # "flush" \/ ExportFails(j)
  BY DEF OpenSource, ReadTable, WriteLines, ExportFails, At
<1>2. /\ FilesOK /\ job[j].to \in Paths /\ job[j].from \in Paths /\ job[j].from # job[j].to
      /\ job[j].data \in Database /\ Sound(job[j].data)
      /\ job[j].step # "flush" => Is(job[j].to, {"empty"})
  BY <1>1, ExportFacts
<1>3. CASE ExportFails(j)
  BY <1>2, <1>3, RemoveOK DEF ExportFails, Whole
<1>4. CASE WriteLines(j)
  <2>1. Put(job[j].to, "partial", job[j].data)
    BY <1>4 DEF WriteLines
  <2> QED BY <1>2, <2>1, PutOK DEF Whole
<1>5. CASE ReadTable(j) \/ OpenSource(j)
  <2>1. file'[job[j].to] = file[job[j].to] /\ job[j].step # "flush"
    BY <1>2, <1>5 DEF ReadTable, OpenSource, Opened, Put, FilesOK, At
  <2> QED BY <1>2, <2>1 DEF Is, Whole
<1> QED BY <1>3, <1>4, <1>5

\* a copy that ends well is one state of its source
LEMMA CopyIsSnapshot ==
  ASSUME Inv, NEW j \in Jobs, Vacuum(j) \/ VacuumFails(j) \/ Filled(j) \/ Checked(j),
         job[j].op = "copy", Writing(j, job[j].to), Whole(file', job[j].to)
  PROVE  Snapshot(j)
<1>1. job[j] # None /\ job[j].step \in {"fill", "check"} /\ FilesOK /\ job[j].to \in Paths
  BY CopyFacts DEF Writing
<1>2. CASE Filled(j)
  <2>1. /\ Put(job[j].to, "whole", job[j].data) /\ job[j].data \in Database
        /\ Sound(job[j].data) /\ job[j].data \in job[j].seen
    BY <1>1, <1>2, CopyFacts DEF Filled
  <2>2. file'[job[j].to].data = job[j].data
    BY <1>1, <2>1, PutOK
  <2> QED BY <2>1, <2>2 DEF Snapshot
<1>3. CASE VacuumFails(j) \/ Checked(j)
  <2>1. file' = file \/ Remove(job[j].to)
    BY <1>1, <1>3 DEF VacuumFails, Checked, At
  <2>2. file'[job[j].to] = file[job[j].to]
    BY <1>1, <2>1, RemoveOK DEF Whole
  <2> QED BY <1>1, <2>2, NotYet
<1>4. ~Vacuum(j)
  BY <1>1 DEF Vacuum, At
<1> QED BY <1>2, <1>3, <1>4

\* the steps of the servers and of other commands
LEMMA OthersTargetKept ==
  ASSUME Inv, NEW j \in Jobs, job[j] # None, job[j].op \in {"export", "copy"},
         Writing(j, job[j].to),
         \/ \E h \in Homes : ServerStep(h)
         \/ \E k \in Jobs \ {j} : Start(k) \/ JobStep(k)
         \/ UNCHANGED vars
  PROVE  file'[job[j].to] = file[job[j].to]
<1> DEFINE x == job[j].to
<1>1. FilesOK /\ JobsOK /\ x \in Paths /\ x \notin Homes /\ file[x] # None /\ ~Free(x)
  <2>1. FilesOK /\ JobsOK /\ TargetOK(j)
    BY DEF Inv
  <2>2. x \in Paths /\ (x \in Exports \/ x \in Copies)
    BY <2>1, WritesWithin
  <2> QED BY <2>1, <2>2, BackupAssumption DEF TargetOK, Free
<1>2. ASSUME NEW h \in Homes, NEW d, Put(h, "whole", d) PROVE file'[x] = file[x]
  BY <1>1, <1>2 DEF Put, FilesOK
<1>3. ASSUME NEW h \in Homes, ServerStep(h) PROVE file'[x] = file[x]
  <2>1. \E d : Put(h, "whole", d)
    BY <1>3, ServersStep DEF Serve, Opened, Grown, Commit
  <2> QED BY <1>2, <2>1
<1>4. ASSUME NEW k \in Jobs \ {j}, OwnFiles(k) PROVE file'[x] = file[x]
  <2>1. ~Writing(k, x)
    BY <1>1 DEF Inv, Alone
  <2> QED BY <1>1, <1>4, <2>1 DEF OwnFiles
<1>5. ASSUME NEW k \in Jobs \ {j}, Apply(k) PROVE file'[x] = file[x]
  BY <1>2, <1>5, ApplyFacts
<1> QED BY <1>3, <1>4, <1>5, CommandStep DEF vars

\* so is every backup that ends well
LEMMA AreSnapshots ==
  ASSUME Inv, [Next]_vars, NEW j \in Jobs, job[j] # None, job'[j] = None,
         job[j].op \in {"export", "copy"}, Writing(j, job[j].to), Whole(file', job[j].to)
  PROVE  Snapshot(j)
<1>1. CASE \/ \E h \in Homes : ServerStep(h)
           \/ \E k \in Jobs \ {j} : Start(k) \/ JobStep(k)
           \/ UNCHANGED vars
  BY <1>1, OthersTargetKept, NotYet
<1>2. ~Start(j)
  BY DEF Start, StartExport, StartImport, StartCopy, StartRestore, Launch
<1>3. CASE JobStep(j)
  <2>1. CASE OpenSource(j) \/ ReadTable(j) \/ WriteLines(j) \/ ExportFails(j)
    BY <2>1, ExportNotYet
  <2>2. CASE Flushed(j)
    BY <2>2, ExportIsSnapshot
  <2>3. CASE Vacuum(j) \/ VacuumFails(j) \/ Filled(j) \/ Checked(j)
    <3>1. job[j].op = "copy"
      BY <2>3 DEF Vacuum, VacuumFails, Filled, Checked, At
    <3> QED BY <2>3, <3>1, CopyIsSnapshot
  <2>4. CASE Killed(j)
    BY <2>4, NotYet DEF Killed
  <2>5. /\ ~CreateTarget(j) /\ ~CopyTarget(j) /\ ~CopyFails(j) /\ ~OpenTarget(j) /\ ~Parse(j)
        /\ ~NoConflicts(j) /\ ~Apply(j) /\ ~ImportEnds(j)
    BY DEF CreateTarget, CopyTarget, CopyFails, OpenTarget, Parse, NoConflicts, Apply,
           ImportEnds, At
  <2> QED BY <1>3, <2>1, <2>2, <2>3, <2>4, <2>5 DEF JobStep
<1> QED BY <1>1, <1>2, <1>3 DEF Next

(* An SQLite backup that ends well holds its source as it was at one       *)
(* moment while the backup ran; an NDJSON export holds each table as it    *)
(* was at some moment, and the whole of it if no commit fell between its   *)
(* reads (backup.go:16-62, export.go:159, 269).                            *)
THEOREM BackupsAreSnapshotsHolds == Spec => BackupsAreSnapshots
<1>1. ASSUME Inv, [Next]_vars
      PROVE  \A j \in Jobs :
               job[j] # None /\ job'[j] = None /\ job[j].op \in {"export", "copy"}
                 /\ Writing(j, job[j].to) /\ Whole(file', job[j].to) => Snapshot(j)
  BY <1>1, AreSnapshots
<1>2. Inv /\ [Next]_vars =>
        [\A j \in Jobs :
           job[j] # None /\ job'[j] = None /\ job[j].op \in {"export", "copy"}
             /\ Writing(j, job[j].to) /\ Whole(file', job[j].to) =>
           LET d == file'[job[j].to].data
           IN  IF job[j].op = "copy" \/ Cardinality(job[j].seen) = 1
                 THEN d \in job[j].seen
                 ELSE \A t \in DOMAIN d : \E e \in job[j].seen : d[t] = e[t]]_vars
  BY <1>1 DEF Snapshot
<1> QED BY <1>2, Always, PTL DEF Spec, BackupsAreSnapshots

-----------------------------------------------------------------------------
(* The rows.  Of the tables whose rows are numbered by commits no row is   *)
(* ahead of them, of the logs none is ahead of their length: so the next   *)
(* number is free, also in a database that has taken an import.            *)
Logs   == {"memory_events", "access_log"}
Listed == {"memory_items", "memory_chunks", "memory_keywords"}
Named  == {"memory_items", "memory_keywords"}

TableOK(t, rows, c) ==
  /\ \A r, s \in rows : r.id = s.id => r = s
  /\ t \in Logs => \A r \in rows : r.id =< Cardinality(rows)
  /\ t \in Listed => \A r \in rows : r.id =< c
  /\ t \in Named => \A r \in rows : r.id = r.memory /\ r.memory # None

RowsOK(d, c) == \A t \in Names : TableOK(t, d[t], c)

OneChunk(d) ==
  \A m \in Ids(d["memory_items"]) :
    \E r \in d["memory_chunks"] : r.memory = m /\ \A s \in d["memory_chunks"] : s.memory = m => s = r

Good(d, c) == RowsOK(d, c) /\ OneChunk(d) /\ Closed(d)

\* a table in order stays in order when commits go on
LEMMA Later ==
  ASSUME NEW t, NEW rows \in SUBSET Row, NEW c \in Nat, NEW e \in Nat, c =< e, TableOK(t, rows, c)
  PROVE  TableOK(t, rows, e)
BY DEF TableOK, Row

\* a database without rows is in order
LEMMA NoRowsGood ==
  ASSUME NEW c
  PROVE  Good(NoRows, c)
<1>1. \A t \in Names : NoRows[t] = {}
  BY DEF NoRows, Names
<1>2. DOMAIN NoRows = Names /\ NoRows["memory_items"] = {}
  BY <1>1, NamesOfTables DEF NoRows, Names
<1> QED BY <1>1, <1>2 DEF Good, RowsOK, TableOK, OneChunk, Closed, Ids

\* a log that appends under the next id stays in order
LEMMA InsertNext ==
  ASSUME NEW t \in Logs, NEW rows \in SUBSET Row, IsFiniteSet(rows), NEW c, NEW e, NEW m,
         TableOK(t, rows, c), commits \in Nat
  PROVE  TableOK(t, Insert(rows, NextId(rows), m), e)
<1> DEFINE n == Cardinality(rows)
           new == [id |-> n + 1, memory |-> m, text |-> commits + 1]
<1>1. n \in Nat /\ \A r \in rows : r.id \in Nat /\ r.id =< n
  BY FS_CardinalityType DEF TableOK, Row
<1>2. new.id = n + 1 /\ new \notin rows
  BY <1>1
<1> HIDE DEF new
<1>3. Cardinality(rows \cup {new}) = n + 1
  BY <1>2, FS_AddElement
<1> HIDE DEF n
<1>4. Insert(rows, NextId(rows), m) = rows \cup {new}
  BY DEF Insert, NextId, new, n
<1>5. t \notin Listed /\ t \notin Named
  BY DEF Logs, Listed, Named
<1>6. \A r, s \in rows \cup {new} : r.id = s.id => r = s
  BY <1>1, <1>2 DEF TableOK
<1>7. \A r \in rows \cup {new} : r.id =< n + 1
  BY <1>1, <1>2
<1> QED BY <1>3, <1>4, <1>5, <1>6, <1>7 DEF TableOK

\* so does a listed table with the row of a new commit
LEMMA InsertNew ==
  ASSUME NEW t \in Listed, NEW rows \in SUBSET Row, commits \in Nat, TableOK(t, rows, commits),
         commits + 1 # None
  PROVE  TableOK(t, Insert(rows, commits + 1, commits + 1), commits + 1)
<1> DEFINE new == [id |-> commits + 1, memory |-> commits + 1, text |-> commits + 1]
<1>1. \A r \in rows : r.id \in Nat /\ r.id =< commits
  BY DEF TableOK, Row
<1>2. new.id = commits + 1 /\ new.memory = commits + 1
  OBVIOUS
<1>3. Insert(rows, commits + 1, commits + 1) = rows \cup {new} /\ t \notin Logs
  BY DEF Insert, Logs, Listed
<1> HIDE DEF new
<1> QED BY <1>1, <1>2, <1>3 DEF TableOK

\* and a table of named rows whose row is replaced
LEMMA ReplaceNamed ==
  ASSUME NEW t \in Named, NEW rows \in SUBSET Row, commits \in Nat, TableOK(t, rows, commits),
         NEW m \in Nat, m =< commits, m # None
  PROVE  TableOK(t, Replace(rows, m, m), commits + 1)
<1> DEFINE new == [id |-> m, memory |-> m, text |-> commits + 1]
           others == {r \in rows : r.memory # m}
<1>1. \A r \in others : /\ r.id \in Nat /\ r.id =< commits
                        /\ r.id = r.memory /\ r.memory # None /\ r.id # m
  BY DEF TableOK, Row, Named, Listed
<1>2. new.id = m /\ new.memory = m
  OBVIOUS
<1>3. Replace(rows, m, m) = others \cup {new} /\ t \notin Logs
  BY DEF Replace, Insert, Logs, Named
<1>4. \A r, s \in others : r.id = s.id => r = s
  BY DEF TableOK
<1> HIDE DEF new, others
<1> QED BY <1>1, <1>2, <1>3, <1>4 DEF TableOK

\* and the chunks, whose replacement gets the id of the commit
LEMMA ReplaceChunk ==
  ASSUME NEW rows \in SUBSET Row, commits \in Nat, TableOK("memory_chunks", rows, commits), NEW m
  PROVE  TableOK("memory_chunks", Replace(rows, commits + 1, m), commits + 1)
<1> DEFINE new == [id |-> commits + 1, memory |-> m, text |-> commits + 1]
           others == {r \in rows : r.memory # m}
<1>1. \A r \in others : r.id \in Nat /\ r.id =< commits
  BY DEF TableOK, Row, Listed
<1>2. new.id = commits + 1
  OBVIOUS
<1>3. Replace(rows, commits + 1, m) = others \cup {new}
  BY DEF Replace, Insert
<1>4. \A r, s \in others : r.id = s.id => r = s
  BY DEF TableOK
<1> HIDE DEF new, others
<1> QED BY <1>1, <1>2, <1>3, <1>4 DEF TableOK, Logs, Named

\* what a transaction about the memory m makes of a database
LEMMA WroteGood ==
  ASSUME NEW d \in Database, NEW c, NEW e \in Database, NEW f, NEW id, NEW m \in Commits,
         Good(d, c), RowsOK(e, f), Ids(e["memory_items"]) = Ids(d["memory_items"]) \cup {m},
         \A t \in Names : \A r \in e[t] : r \in d[t] \/ r.memory = m,
         \/ e["memory_chunks"] = d["memory_chunks"] /\ m \in Ids(d["memory_items"])
         \/ e["memory_chunks"] = Replace(d["memory_chunks"], id, m)
         \/ e["memory_chunks"] = Insert(d["memory_chunks"], id, m) /\ m \notin Ids(d["memory_items"])
  PROVE  Good(e, f)
<1>0. DOMAIN d = Names /\ DOMAIN e = Names /\ "memory_chunks" \in Names /\ m # None
  BY NamesOfTables, BackupAssumption DEF Database, Names
<1>1. Closed(e)
  BY <1>0 DEF Good, Closed
<1> DEFINE ch == d["memory_chunks"]
           dh == e["memory_chunks"]
           new == [id |-> id, memory |-> m, text |-> commits + 1]
<1>2. ASSUME NEW n \in Ids(e["memory_items"])
      PROVE  \E r \in dh : r.memory = n /\ \A s \in dh : s.memory = n => s = r
  <2>1. new.memory = m
    OBVIOUS
  <2>2. Replace(ch, id, m) = {r \in ch : r.memory # m} \cup {new} /\ Insert(ch, id, m) = ch \cup {new}
    BY DEF Replace, Insert
  <2> HIDE DEF new
  <2>3. CASE n # m
    <3>1. PICK r \in ch : r.memory = n /\ \A s \in ch : s.memory = n => s = r
      BY <1>2, <2>3 DEF Good, OneChunk
    <3>2. r \in dh /\ \A s \in dh : s.memory = n => s \in ch
      BY <2>1, <2>2, <2>3, <3>1
    <3> QED BY <3>1, <3>2
  <2>4. CASE n = m /\ dh = ch /\ m \in Ids(d["memory_items"])
    BY <2>4 DEF Good, OneChunk
  <2>5. CASE n = m /\ dh = Replace(ch, id, m)
    BY <2>1, <2>2, <2>5
  <2>6. CASE n = m /\ dh = Insert(ch, id, m) /\ m \notin Ids(d["memory_items"])
    <3>1. \A s \in ch : s.memory # m
      BY <1>0, <2>6 DEF Good, Closed
    <3> QED BY <2>1, <2>2, <2>6, <3>1
  <2> QED BY <2>3, <2>4, <2>5, <2>6
<1> QED BY <1>1, <1>2 DEF Good, OneChunk

\* an import of what is closed and in conflict with nothing
LEMMA UnionGood ==
  ASSUME NEW d \in Database, NEW e \in Database, NEW u \in Database, NEW c, Sound(d), Sound(e),
         Good(d, c), Good(e, c), ~Conflict(d, e), \A t \in Names : u[t] = d[t] \cup e[t]
  PROVE  Good(u, c)
<1>1. /\ DOMAIN d = Names /\ DOMAIN e = Names /\ DOMAIN u = Names
      /\ "memory_items" \in Names /\ "memory_chunks" \in Names
  BY NamesOfTables DEF Database, Names
<1>2. \A t \in Names : \A r \in d[t], s \in e[t] : r.id # s.id
  <2>1. \A t \in Names \ {"memory_keywords"} : \A r \in d[t], s \in e[t] : r.id # s.id
    BY <1>1 DEF Conflict, Keyed, Names, Ids
  <2>2. ASSUME NEW r \in d["memory_keywords"], NEW s \in e["memory_keywords"]
        PROVE  r.id # s.id
    <3>1. "memory_keywords" \in Names
      BY NamesOfTables
    <3>2. r.id = r.memory /\ r.memory # None /\ s.id = s.memory /\ s.memory # None
      BY <3>1 DEF Good, RowsOK, TableOK, Named
    <3>3. r.id \in Ids(d["memory_items"]) /\ s.id \in Ids(e["memory_items"])
      BY <1>1, <3>1, <3>2 DEF Good, Closed
    <3> QED BY <1>1, <2>1, <3>3 DEF Ids
  <2> QED BY <2>1, <2>2
<1>3. Ids(u["memory_items"]) = Ids(d["memory_items"]) \cup Ids(e["memory_items"])
  BY <1>1 DEF Ids
<1>4. Closed(u)
  BY <1>1, <1>3 DEF Good, Closed
<1>5. ASSUME NEW t \in Names PROVE TableOK(t, u[t], c)
  <2>1. IsFiniteSet(d[t]) /\ IsFiniteSet(e[t]) /\ TableOK(t, d[t], c) /\ TableOK(t, e[t], c)
    BY DEF Sound, Good, RowsOK
  <2>2. IsFiniteSet(u[t])
    BY <2>1, FS_Union
  <2>3. Cardinality(d[t]) =< Cardinality(u[t]) /\ Cardinality(e[t]) =< Cardinality(u[t])
    BY <2>2, FS_Subset
  <2>4. Cardinality(u[t]) \in Nat /\ Cardinality(d[t]) \in Nat /\ Cardinality(e[t]) \in Nat
    BY <2>1, <2>2, FS_CardinalityType
  <2>5. \A r \in u[t] : r.id \in Nat
    BY DEF Database, Row, Names
  <2>6. t \in Logs => \A r \in u[t] : r.id =< Cardinality(u[t])
    BY <2>1, <2>3, <2>4, <2>5 DEF TableOK
  <2>7. \A r, s \in u[t] : r.id = s.id => r = s
    BY <1>2, <2>1 DEF TableOK
  <2> QED BY <2>1, <2>6, <2>7 DEF TableOK
<1>6. ASSUME NEW a \in Database, NEW b \in Database, Good(a, c), Good(b, c), Sound(a),
             \A r \in a["memory_items"], s \in b["memory_items"] : r.id # s.id,
             u["memory_chunks"] = a["memory_chunks"] \cup b["memory_chunks"],
             NEW m \in Ids(a["memory_items"])
      PROVE  \E r \in u["memory_chunks"] :
               r.memory = m /\ \A s \in u["memory_chunks"] : s.memory = m => s = r
  <2>1. PICK r \in a["memory_chunks"] :
          r.memory = m /\ \A s \in a["memory_chunks"] : s.memory = m => s = r
    BY <1>6 DEF Good, OneChunk
  <2>2. m # None /\ m \notin Ids(b["memory_items"])
    BY <1>6, BackupAssumption DEF Ids, Sound
  <2>3. \A s \in b["memory_chunks"] : s.memory # m
    <3>1. "memory_chunks" \in DOMAIN b
      BY NamesOfTables DEF Database, Names
    <3> QED BY <1>6, <2>2, <3>1 DEF Good, Closed
  <2> QED BY <1>6, <2>1, <2>3
<1>7. OneChunk(u)
  BY <1>1, <1>2, <1>3, <1>6 DEF OneChunk
<1> QED BY <1>4, <1>5, <1>7 DEF Good, RowsOK

-----------------------------------------------------------------------------
(* The files.  An export may hold rows of memories it has not read, so     *)
(* Closed is not said of it: it is what an import asks.                    *)
FileGood(p) ==
  file[p] # None =>
    /\ RowsOK(file[p].data, commits) /\ OneChunk(file[p].data)
    /\ p \notin Exports => Closed(file[p].data)

\* memories are read before their chunks, and none is deleted in between
JobGood(j) ==
  job[j] # None =>
    /\ RowsOK(job[j].data, commits)
    /\ job[j].op # "export" \/ job[j].at > 2 \/ job[j].step = "flush" => OneChunk(job[j].data)
    /\ job[j].op = "export" => Ids(job[j].data["memory_items"])
                                 \subseteq Ids(file[job[j].from].data["memory_items"])
    /\ job[j].op # "export" => Closed(job[j].data)

Coherent == (\A p \in Paths : FileGood(p)) /\ \A j \in Jobs : JobGood(j)

\* there is nothing to be incoherent at first
LEMMA Coherently == Init => Coherent
<1> SUFFICES ASSUME Init PROVE Coherent
  OBVIOUS
<1> DEFINE d == [NoRows EXCEPT !["retention_policies"] = {[id |-> 1, memory |-> None, text |-> 0]}]
<1>1. /\ DOMAIN d = Names /\ DOMAIN NoRows = Names
      /\ \A t \in Names : NoRows[t] = {}
  BY DEF NoRows, Names
<1>2. /\ \A t \in Names \ {"retention_policies"} : d[t] = {}
      /\ d["retention_policies"] = {[id |-> 1, memory |-> None, text |-> 0]}
  BY <1>1, NamesOfTables
<1>3. \A r \in d["retention_policies"] : r.memory = None /\ r.id = 1
  BY <1>2
<1>4. d["memory_items"] = {} /\ d["memory_chunks"] = {} /\ "memory_items" \in Names
  BY <1>2, NamesOfTables
<1>5. \A r, s \in d["retention_policies"] : r = s
  BY <1>2
<1>6. \A p \in Paths : file[p] # None => p = Populated /\ file[p].data = d
  BY DEF Init
<1>7. \A j \in Jobs : job[j] = None
  BY DEF Init
<1> HIDE DEF d
<1>8. RowsOK(d, commits)
  <2> SUFFICES ASSUME NEW t \in Names PROVE TableOK(t, d[t], commits)
    BY DEF RowsOK
  <2>1. CASE t = "retention_policies"
    <3>1. t \notin Logs /\ t \notin Listed /\ t \notin Named
      BY <2>1 DEF Logs, Listed, Named
    <3> QED BY <2>1, <3>1, <1>5 DEF TableOK
  <2>2. CASE t # "retention_policies"
    BY <1>2, <2>2 DEF TableOK
  <2> QED BY <2>1, <2>2
<1>9. OneChunk(d) /\ Closed(d)
  <2>1. \A t \in Names : \A r \in d[t] : r.memory = None
    BY <1>2, <1>3
  <2> QED BY <1>1, <1>4, <2>1 DEF OneChunk, Closed, Ids
<1> QED BY <1>6, <1>7, <1>8, <1>9 DEF Coherent, FileGood, JobGood

\* a database in order stays in order when commits go on
LEMMA RowsLater ==
  ASSUME NEW d \in Database, NEW c \in Nat, NEW e \in Nat, c =< e, RowsOK(d, c)
  PROVE  RowsOK(d, e)
BY Later DEF RowsOK, Database, Names

\* a database gets new rows, and every command keeps what it has read
LEMMA DatabaseGood ==
  ASSUME Inv, Coherent, NEW h \in Homes, NEW d, Put(h, "whole", d), Good(d, commits'),
         commits' \in Nat, commits =< commits',
         file[h] # None => Ids(file[h].data["memory_items"]) \subseteq Ids(d["memory_items"]),
         \A j \in Jobs : job'[j] # None =>
           /\ job[j] # None /\ job'[j].op = job[j].op /\ job'[j].from = job[j].from
           /\ job'[j].step = job[j].step /\ job'[j].at = job[j].at /\ job'[j].data = job[j].data
  PROVE  Coherent'
<1>1. FilesOK /\ JobsOK /\ commits \in Nat /\ h \in Paths /\ h \notin Exports
  BY BackupAssumption DEF Inv, Paths
<1>2. /\ file'[h].data = d /\ \A p \in Paths \ {h} : file'[p] = file[p]
  BY <1>1 DEF Put, FilesOK
<1>3. ASSUME NEW p \in Paths PROVE FileGood(p)'
  <2>1. CASE p = h
    BY <1>2, <2>1 DEF FileGood, Good
  <2>2. CASE p # h /\ file[p] # None
    <3>1. RowsOK(file[p].data, commits')
      BY <1>1, <2>2, FileFacts, RowsLater DEF Coherent, FileGood
    <3> QED BY <1>2, <2>2, <3>1 DEF Coherent, FileGood
  <2>3. CASE p # h /\ file[p] = None
    BY <1>2, <2>3 DEF FileGood
  <2> QED BY <2>1, <2>2, <2>3
<1>4. ASSUME NEW j \in Jobs, job'[j] # None PROVE JobGood(j)'
  <2>1. /\ job[j] # None /\ job'[j].op = job[j].op /\ job'[j].from = job[j].from
        /\ job'[j].step = job[j].step /\ job'[j].at = job[j].at /\ job'[j].data = job[j].data
    BY <1>4
  <2>2. job[j].data \in Database
    BY <1>1, <2>1, JobKinds DEF Doing
  <2>3. RowsOK(job[j].data, commits')
    BY <1>1, <2>1, <2>2, RowsLater DEF Coherent, JobGood
  <2>4. job[j].op = "export" => Ids(file[job[j].from].data["memory_items"])
                                  \subseteq Ids(file'[job[j].from].data["memory_items"])
    <3> SUFFICES ASSUME job[j].op = "export"
                 PROVE  Ids(file[job[j].from].data["memory_items"])
                          \subseteq Ids(file'[job[j].from].data["memory_items"])
      OBVIOUS
    <3>1. job[j].from \in Paths /\ file[job[j].from] # None
      BY <2>1, ExportFacts
    <3>2. CASE job[j].from = h
      BY <1>2, <3>1, <3>2
    <3>3. CASE job[j].from # h
      BY <1>2, <3>1, <3>3
    <3> QED BY <3>2, <3>3
  <2> QED BY <2>1, <2>3, <2>4 DEF Coherent, JobGood
<1> QED BY <1>3, <1>4 DEF Coherent, JobGood

\* a server that starts where nothing is makes a database without rows
LEMMA ServeGood ==
  ASSUME Inv, Coherent, NEW h \in Homes, Serve(h)
  PROVE  Coherent'
<1>1. FilesOK /\ h \in Paths /\ commits \in Nat
  BY BackupAssumption DEF Inv, Paths
<1>2. ~Is(h, {"whole"}) /\ (file[h] # None => file[h].data = NoRows)
  BY <1>1, FileFacts DEF Serve, Is
<1>3. Put(h, "whole", NoRows) /\ job' = job /\ commits' = commits
  BY <1>2 DEF Serve, Opened
<1>4. Good(NoRows, commits')
  BY NoRowsGood
<1> QED BY <1>1, <1>2, <1>3, <1>4, DatabaseGood

\* a transaction of a server
LEMMA CommitGood ==
  ASSUME Inv, Coherent, NEW h \in Homes, NEW e \in Database, NEW m \in Commits, NEW id,
         Commit(h, e), RowsOK(e, commits + 1),
         Ids(e["memory_items"]) = Ids(file[h].data["memory_items"]) \cup {m},
         \A t \in Names : \A r \in e[t] : r \in file[h].data[t] \/ r.memory = m,
         LET c == file[h].data["memory_chunks"]
             i == Ids(file[h].data["memory_items"])
         IN  \/ e["memory_chunks"] = c /\ m \in i
             \/ e["memory_chunks"] = Replace(c, id, m)
             \/ e["memory_chunks"] = Insert(c, id, m) /\ m \notin i
  PROVE  Coherent'
<1>1. /\ commits' = commits + 1 /\ file[h] # None /\ commits \in Nat
      /\ Put(h, "whole", e) /\ job' = Noticed(h, e) /\ FilesOK /\ JobsOK
      /\ h \in Paths /\ h \notin Exports
  BY BackupAssumption DEF Commit, Inv, Is, Paths
<1>2. file[h].data \in Database /\ Good(file[h].data, commits)
  BY <1>1, FileFacts DEF Coherent, FileGood, Good
<1>3. Good(e, commits + 1)
  BY <1>2, WroteGood
<1> DEFINE done == {}
<1>4. /\ done \in SUBSET Jobs
      /\ job' = [j \in Jobs |-> IF j \in done THEN None ELSE Noticed(h, e)[j]]
  BY <1>1 DEF Noticed
<1> HIDE DEF done
<1>5. \A j \in Jobs : job'[j] # None =>
        /\ job[j] # None /\ job'[j].op = job[j].op /\ job'[j].from = job[j].from
        /\ job'[j].step = job[j].step /\ job'[j].at = job[j].at /\ job'[j].data = job[j].data
  <2>1. /\ JobsOK'
        /\ \A j \in Jobs : job'[j] # None =>
             /\ job[j] # None
             /\ job'[j].op = job[j].op /\ job'[j].from = job[j].from
             /\ job'[j].to = job[j].to /\ job'[j].step = job[j].step
             /\ job'[j].at = job[j].at /\ job'[j].data = job[j].data
             /\ job[j].seen \subseteq job'[j].seen
             /\ job[j].from = h => e \in job'[j].seen
    BY <1>1, <1>4, NoticedJobs
  <2> QED BY <2>1
<1> HIDE <1>4
<1> QED BY <1>1, <1>3, <1>5, DatabaseGood

\* an import unites two databases that share no id
LEMMA ApplyGood ==
  ASSUME Inv, Coherent, NEW j \in Jobs, Apply(j)
  PROVE  Coherent'
<1> DEFINE h == job[j].to
           u == [t \in Names |-> file[h].data[t] \cup job[j].data[t]]
           done == {j}
<1>1. /\ h \in Homes /\ h \in Paths /\ file[h] # None /\ u \in Database /\ Put(h, "whole", u)
      /\ job' = [Noticed(h, u) EXCEPT ![j] = None] /\ commits' = commits
      /\ h \notin Exports
  BY ApplyFacts, BackupAssumption
<1>2. /\ job[j] # None /\ job[j].op = "import" /\ ~Conflict(file[h].data, job[j].data)
  BY DEF Apply, At
<1>3. /\ FilesOK /\ JobsOK /\ job[j].data \in Database /\ Sound(job[j].data)
  BY <1>2, ImportFacts
<1>4. file[h].data \in Database /\ Sound(file[h].data) /\ Good(file[h].data, commits)
  BY <1>1, <1>3, FileFacts DEF Coherent, FileGood, Good
<1>5. Good(job[j].data, commits)
  BY <1>2 DEF Coherent, JobGood, Good
<1>6. \A t \in Names : u[t] = file[h].data[t] \cup job[j].data[t]
  OBVIOUS
<1> HIDE DEF u
<1>7. Good(u, commits)
  BY <1>1, <1>2, <1>3, <1>4, <1>5, <1>6, UnionGood
<1>8. Ids(file[h].data["memory_items"]) \subseteq Ids(u["memory_items"])
  BY <1>6, NamesOfTables DEF Ids
<1>9. /\ done \in SUBSET Jobs
      /\ job' = [k \in Jobs |-> IF k \in done THEN None ELSE Noticed(h, u)[k]]
  BY <1>1 DEF Noticed
<1> HIDE DEF done, h
<1>10. \A k \in Jobs : job'[k] # None =>
        /\ job[k] # None /\ job'[k].op = job[k].op /\ job'[k].from = job[k].from
        /\ job'[k].step = job[k].step /\ job'[k].at = job[k].at /\ job'[k].data = job[k].data
  <2>1. /\ JobsOK'
        /\ \A k \in Jobs : job'[k] # None =>
             /\ job[k] # None
             /\ job'[k].op = job[k].op /\ job'[k].from = job[k].from
             /\ job'[k].to = job[k].to /\ job'[k].step = job[k].step
             /\ job'[k].at = job[k].at /\ job'[k].data = job[k].data
             /\ job[k].seen \subseteq job'[k].seen
             /\ job[k].from = h => u \in job'[k].seen
    BY <1>1, <1>3, <1>9, NoticedJobs
  <2> QED BY <2>1
<1>11. commits \in Nat
  BY BackupAssumption DEF Inv
<1> HIDE <1>9
<1> QED BY <1>1, <1>7, <1>8, <1>10, <1>11, DatabaseGood

\* of a memory's row in a database of the files
LEMMA DatabaseFacts ==
  ASSUME Inv, Coherent, NEW h \in Homes, file[h] # None, commits < MaxCommits
  PROVE  LET d == file[h].data
         IN  /\ d \in Database /\ DOMAIN d = Names /\ Good(d, commits)
             /\ commits \in Nat /\ commits + 1 \in Commits /\ commits + 1 \in Nat
             /\ \A t \in Names : /\ d[t] \in SUBSET Row /\ IsFiniteSet(d[t])
                                 /\ TableOK(t, d[t], commits) /\ TableOK(t, d[t], commits + 1)
             /\ \A r \in d["memory_items"] :
                  r.memory \in Commits /\ r.id = r.memory /\ r.memory \in Nat /\ r.memory =< commits
             /\ \A t \in Logs : t \in Names
             /\ \A t \in Listed : t \in Names
<1> DEFINE d == file[h].data
<1>1. FilesOK /\ h \in Paths /\ h \notin Exports /\ commits \in Nat /\ commits + 1 \in Commits
  BY BackupAssumption DEF Inv, Paths, Commits
<1>2. d \in Database /\ Sound(d) /\ Good(d, commits)
  BY <1>1, FileFacts DEF Coherent, FileGood, Good
<1> HIDE DEF d
<1>3. /\ \A t \in Names : d[t] \in SUBSET Row /\ IsFiniteSet(d[t])
      /\ DOMAIN d = Names
      /\ \A r \in d["memory_items"] : r.memory \in Commits /\ r.id = r.memory
  BY <1>2, TablesOf
<1>4. \A t \in Names : TableOK(t, d[t], commits) /\ TableOK(t, d[t], commits + 1)
  BY <1>1, <1>2, <1>3, Later DEF Good, RowsOK
<1>5. \A t \in Logs \cup Listed : t \in Names
  BY NamesOfTables DEF Logs, Listed
<1>6. \A r \in d["memory_items"] : r.memory \in Nat /\ r.memory =< commits
  <2>1. TableOK("memory_items", d["memory_items"], commits)
    BY <1>4, NamesOfTables
  <2> QED BY <1>3, <2>1 DEF TableOK, Listed, Commits
<1> QED BY <1>1, <1>2, <1>3, <1>4, <1>5, <1>6 DEF d

\* the ids after a named row was inserted or replaced
LEMMA IdsOfNamed ==
  ASSUME NEW rows, NEW m, \A r \in rows : r.id = r.memory
  PROVE  /\ Ids(Insert(rows, m, m)) = Ids(rows) \cup {m}
         /\ Ids(Replace(rows, m, m)) = Ids(rows) \cup {m}
<1> DEFINE new == [id |-> m, memory |-> m, text |-> commits + 1]
<1>1. new.id = m
  OBVIOUS
<1>2. /\ Insert(rows, m, m) = rows \cup {new}
      /\ Replace(rows, m, m) = {r \in rows : r.memory # m} \cup {new}
  BY DEF Insert, Replace
<1> HIDE DEF new
<1> QED BY <1>1, <1>2 DEF Ids

\* a write touches the rows of its memory alone
LEMMA RowsWritten ==
  ASSUME NEW rows, NEW id, NEW m
  PROVE  /\ \A r \in Insert(rows, id, m) : r \in rows \/ r.memory = m
         /\ \A r \in Replace(rows, id, m) : r \in rows \/ r.memory = m
BY DEF Insert, Replace

\* Save leaves every database coherent
LEMMA SaveGood ==
  ASSUME Inv, Coherent, NEW h \in Homes, file[h] # None, Save(h)
  PROVE  Coherent'
<1> DEFINE d == file[h].data
           m == commits + 1
           e == [d EXCEPT !["memory_items"] = Insert(@, m, m),
                          !["memory_chunks"] = Insert(@, m, m),
                          !["memory_keywords"] = Insert(@, m, m),
                          !["memory_events"] = Insert(@, NextId(@), m)]
<1>1. Commit(h, e) /\ commits < MaxCommits
  BY DEF Save, Commit
<1>2. /\ d \in Database /\ DOMAIN d = Names
      /\ commits \in Nat /\ m \in Commits /\ m \in Nat
      /\ \A t \in Names : /\ d[t] \in SUBSET Row /\ IsFiniteSet(d[t])
                          /\ TableOK(t, d[t], commits) /\ TableOK(t, d[t], m)
      /\ \A r \in d["memory_items"] : r.id = r.memory /\ r.memory \in Nat /\ r.memory =< commits
      /\ \A t \in Logs : t \in Names
      /\ \A t \in Listed : t \in Names
  BY <1>1, DatabaseFacts
<1>3. \A t \in Listed : TableOK(t, Insert(d[t], m, m), m) /\ Insert(d[t], m, m) \in SUBSET Row
  <2>1. m # None
    BY <1>2, BackupAssumption
  <2> QED BY <1>1, <1>2, <2>1, InsertNew, Written
<1>4. \A t \in Logs : /\ TableOK(t, Insert(d[t], NextId(d[t]), m), m)
                      /\ Insert(d[t], NextId(d[t]), m) \in SUBSET Row
  <2>1. ASSUME NEW t \in Logs PROVE NextId(d[t]) \in Nat
    BY <1>2, FS_CardinalityType DEF NextId
  <2> HIDE DEF d, m
  <2> QED BY <1>1, <1>2, <2>1, InsertNext, Written
<1> HIDE DEF d
<1>5. /\ DOMAIN e = Names /\ e = [t \in Names |-> e[t]]
      /\ \A t \in Listed : e[t] = Insert(d[t], m, m)
      /\ e["memory_events"] = Insert(d["memory_events"], NextId(d["memory_events"]), m)
      /\ \A t \in Names : t \notin Listed /\ t # "memory_events" => e[t] = d[t]
  BY <1>2 DEF Listed, Logs
<1> HIDE DEF e
<1>6. "memory_events" \in Logs /\ "memory_items" \in Listed /\ "memory_chunks" \in Listed
  BY DEF Logs, Listed
<1>7. \A t \in Names : TableOK(t, e[t], m) /\ e[t] \in SUBSET Row
  <2> SUFFICES ASSUME NEW t \in Names PROVE TableOK(t, e[t], m) /\ e[t] \in SUBSET Row
    OBVIOUS
  <2>1. CASE t \in Listed
    BY <1>3, <1>5, <2>1
  <2>2. CASE t = "memory_events"
    BY <1>4, <1>5, <1>6, <2>2
  <2>3. CASE t \notin Listed /\ t # "memory_events"
    BY <1>2, <1>5, <2>3
  <2> QED BY <2>1, <2>2, <2>3
<1>8. e \in Database /\ RowsOK(e, m)
  BY <1>5, <1>7 DEF Database, Names, RowsOK
<1>9. \A t \in Names : \A r \in e[t] : r \in d[t] \/ r.memory = m
  BY <1>5, RowsWritten
<1>10. Ids(e["memory_items"]) = Ids(d["memory_items"]) \cup {m}
  BY <1>2, <1>5, <1>6, IdsOfNamed
<1>11. e["memory_chunks"] = Insert(d["memory_chunks"], m, m) /\ m \notin Ids(d["memory_items"])
  BY <1>2, <1>5, <1>6 DEF Ids
<1> QED BY <1>1, <1>2, <1>8, <1>9, <1>10, <1>11, CommitGood DEF d

\* so does Update
LEMMA EditGood ==
  ASSUME Inv, Coherent, NEW h \in Homes, file[h] # None, Edit(h)
  PROVE  Coherent'
<1> DEFINE d == file[h].data
<1>1. PICK r \in d["memory_items"],
           changed \in SUBSET {"memory_chunks", "memory_keywords"} :
             Commit(h, [t \in DOMAIN d |->
               CASE t = "memory_items"  -> Replace(d[t], r.memory, r.memory)
                 [] t = "memory_events" -> Insert(d[t], NextId(d[t]), r.memory)
                 [] t = "memory_chunks" /\ t \in changed -> Replace(d[t], commits + 1, r.memory)
                 [] t = "memory_keywords" /\ t \in changed -> Replace(d[t], r.memory, r.memory)
                 [] OTHER -> d[t]])
  BY DEF Edit
<1> DEFINE m == r.memory
           e == [t \in DOMAIN d |->
                  CASE t = "memory_items"  -> Replace(d[t], m, m)
                    [] t = "memory_events" -> Insert(d[t], NextId(d[t]), m)
                    [] t = "memory_chunks" /\ t \in changed -> Replace(d[t], commits + 1, m)
                    [] t = "memory_keywords" /\ t \in changed -> Replace(d[t], m, m)
                    [] OTHER -> d[t]]
<1>2. Commit(h, e) /\ commits < MaxCommits
  BY <1>1 DEF Commit
<1>3. /\ d \in Database /\ DOMAIN d = Names
      /\ commits \in Nat /\ commits + 1 \in Nat
      /\ \A t \in Names : /\ d[t] \in SUBSET Row /\ IsFiniteSet(d[t])
                          /\ TableOK(t, d[t], commits) /\ TableOK(t, d[t], commits + 1)
      /\ \A i \in d["memory_items"] : i.id = i.memory
      /\ m \in Commits /\ m \in Nat /\ m =< commits /\ r.id = m
  BY <1>2, DatabaseFacts
<1>4. m \in Ids(d["memory_items"])
  BY <1>3 DEF Ids
<1> HIDE DEF d, m
<1>5. \A t \in Named : TableOK(t, Replace(d[t], m, m), commits + 1)
  <2>1. m # None
    BY <1>3, BackupAssumption
  <2> QED BY <1>3, <2>1, NamesOfTables, ReplaceNamed DEF Named
<1>6. \A t \in Logs : TableOK(t, Insert(d[t], NextId(d[t]), m), commits + 1)
  BY <1>3, NamesOfTables, InsertNext DEF Logs
<1>7. TableOK("memory_chunks", Replace(d["memory_chunks"], commits + 1, m), commits + 1)
  BY <1>3, NamesOfTables, ReplaceChunk
<1>8. \A t \in Names : /\ Replace(d[t], m, m) \in SUBSET Row
                       /\ Replace(d[t], commits + 1, m) \in SUBSET Row
                       /\ NextId(d[t]) \in Nat
  BY <1>2, <1>3, Written
<1>9. \A t \in Names : Insert(d[t], NextId(d[t]), m) \in SUBSET Row
  BY <1>2, <1>3, <1>8, Written
<1>10. /\ DOMAIN e = Names /\ e = [t \in Names |-> e[t]]
       /\ e["memory_items"] = Replace(d["memory_items"], m, m)
       /\ \/ e["memory_chunks"] = d["memory_chunks"]
          \/ e["memory_chunks"] = Replace(d["memory_chunks"], commits + 1, m)
       /\ \A t \in Names :
            \/ e[t] = d[t]
            \/ t \in Named /\ e[t] = Replace(d[t], m, m)
            \/ t \in Logs /\ e[t] = Insert(d[t], NextId(d[t]), m)
            \/ t = "memory_chunks" /\ e[t] = Replace(d[t], commits + 1, m)
  BY <1>3, NamesOfTables DEF Named, Logs
<1> HIDE DEF e
<1>11. \A t \in Names : TableOK(t, e[t], commits + 1) /\ e[t] \in SUBSET Row
  BY <1>3, <1>5, <1>6, <1>7, <1>8, <1>9, <1>10
<1>12. e \in Database /\ RowsOK(e, commits + 1)
  BY <1>10, <1>11 DEF Database, Names, RowsOK
<1>13. \A t \in Names : \A i \in e[t] : i \in d[t] \/ i.memory = m
  BY <1>10, RowsWritten
<1>14. Ids(e["memory_items"]) = Ids(d["memory_items"]) \cup {m}
  BY <1>3, <1>10, IdsOfNamed
<1>15. \/ e["memory_chunks"] = d["memory_chunks"] /\ m \in Ids(d["memory_items"])
       \/ e["memory_chunks"] = Replace(d["memory_chunks"], commits + 1, m)
  BY <1>4, <1>10
<1> QED BY <1>2, <1>3, <1>12, <1>13, <1>14, <1>15, CommitGood DEF d

\* and Get
LEMMA GetGood ==
  ASSUME Inv, Coherent, NEW h \in Homes, file[h] # None, Get(h)
  PROVE  Coherent'
<1> DEFINE d == file[h].data
<1>1. PICK r \in d["memory_items"] :
        Commit(h, [d EXCEPT !["memory_items"] = Replace(@, r.memory, r.memory),
                            !["access_log"] = Insert(@, NextId(@), r.memory)])
  BY DEF Get
<1> DEFINE m == r.memory
           e == [d EXCEPT !["memory_items"] = Replace(@, m, m),
                          !["access_log"] = Insert(@, NextId(@), m)]
<1>2. Commit(h, e) /\ commits < MaxCommits
  BY <1>1 DEF Commit
<1>3. /\ d \in Database /\ DOMAIN d = Names
      /\ commits \in Nat /\ commits + 1 \in Nat
      /\ \A t \in Names : /\ d[t] \in SUBSET Row /\ IsFiniteSet(d[t])
                          /\ TableOK(t, d[t], commits) /\ TableOK(t, d[t], commits + 1)
      /\ \A i \in d["memory_items"] : i.id = i.memory
      /\ m \in Commits /\ m \in Nat /\ m =< commits /\ r.id = m
  BY <1>2, DatabaseFacts
<1>4. m \in Ids(d["memory_items"])
  BY <1>3 DEF Ids
<1> HIDE DEF d, m
<1>5. \A t \in Named : TableOK(t, Replace(d[t], m, m), commits + 1)
  <2>1. m # None
    BY <1>3, BackupAssumption
  <2> QED BY <1>3, <2>1, NamesOfTables, ReplaceNamed DEF Named
<1>6. \A t \in Logs : TableOK(t, Insert(d[t], NextId(d[t]), m), commits + 1)
  BY <1>3, NamesOfTables, InsertNext DEF Logs
<1>7. \A t \in Names : Replace(d[t], m, m) \in SUBSET Row /\ NextId(d[t]) \in Nat
  BY <1>2, <1>3, Written
<1>8. \A t \in Names : Insert(d[t], NextId(d[t]), m) \in SUBSET Row
  BY <1>2, <1>3, <1>7, Written
<1>9. /\ DOMAIN e = Names /\ e = [t \in Names |-> e[t]]
      /\ e["memory_items"] = Replace(d["memory_items"], m, m)
      /\ e["memory_chunks"] = d["memory_chunks"]
      /\ \A t \in Names :
           \/ e[t] = d[t]
           \/ t \in Named /\ e[t] = Replace(d[t], m, m)
           \/ t \in Logs /\ e[t] = Insert(d[t], NextId(d[t]), m)
  BY <1>3, NamesOfTables DEF Named, Logs
<1> HIDE DEF e
<1>10. \A t \in Names : TableOK(t, e[t], commits + 1) /\ e[t] \in SUBSET Row
  BY <1>3, <1>5, <1>6, <1>7, <1>8, <1>9
<1>11. e \in Database /\ RowsOK(e, commits + 1)
  BY <1>9, <1>10 DEF Database, Names, RowsOK
<1>12. \A t \in Names : \A i \in e[t] : i \in d[t] \/ i.memory = m
  BY <1>9, RowsWritten
<1>13. Ids(e["memory_items"]) = Ids(d["memory_items"]) \cup {m}
  BY <1>3, <1>9, IdsOfNamed
<1> QED BY <1>2, <1>3, <1>4, <1>9, <1>11, <1>12, <1>13, CommitGood DEF d

-----------------------------------------------------------------------------
(* The commands.                                                           *)
SameData(j) ==
  /\ job[j] # None /\ job'[j] # None
  /\ job'[j].op = job[j].op /\ job'[j].from = job[j].from /\ job'[j].data = job[j].data
  /\ job[j].op = "export" /\ (job'[j].at > 2 \/ job'[j].step = "flush") =>
       job[j].at > 2 \/ job[j].step = "flush"

\* a step of a command that keeps to its own files
LEMMA OwnGood ==
  ASSUME Inv, Coherent, NEW j \in Jobs, OwnFiles(j), commits' = commits,
         \A p \in Paths : file'[p] = file[p] \/ FileGood(p)',
         \A k \in Jobs \ {j} : job'[k] = job[k],
         job'[j] = None \/ SameData(j) \/ JobGood(j)'
  PROVE  Coherent'
<1>1. \A p \in Paths : FileGood(p)'
  BY DEF Coherent, FileGood
<1>2. ASSUME NEW k \in Jobs, job[k] # None, job[k].op = "export"
      PROVE  file'[job[k].from].data = file[job[k].from].data
  <2> DEFINE h == job[k].from
  <2>1. h \in Homes /\ h \in Paths /\ file[h] # None /\ Free(h) /\ h \notin Copies
    BY <1>2, ExportFacts, BackupAssumption
  <2> QED BY <2>1 DEF OwnFiles, Free
<1>3. ASSUME NEW k \in Jobs, job'[k] = None \/ job'[k] = job[k] \/ SameData(k) PROVE JobGood(k)'
  BY <1>2, <1>3 DEF JobGood, Coherent, SameData
<1> QED BY <1>1, <1>3 DEF Coherent

\* a file that is written has what its writer had
LEMMA PutGood ==
  ASSUME FilesOK, NEW p \in Paths, NEW s, NEW d, Put(p, s, d), commits' = commits,
         RowsOK(d, commits), OneChunk(d), p \notin Exports => Closed(d)
  PROVE  \A q \in Paths : file'[q] = file[q] \/ FileGood(q)'
<1>1. file'[p].data = d /\ \A q \in Paths \ {p} : file'[q] = file[q]
  BY DEF Put, FilesOK
<1>2. FileGood(p)'
  BY <1>1 DEF FileGood
<1> QED BY <1>1, <1>2

\* a file that is removed has nothing to be wrong
LEMMA RemoveGood ==
  ASSUME FilesOK, NEW p \in Paths, Remove(p)
  PROVE  \A q \in Paths : file'[q] = file[q] \/ FileGood(q)'
BY DEF FilesOK, Remove, FileGood

\* a command that goes on keeps what it has read
LEMMA GotoSame ==
  ASSUME JobsOK, NEW j \in Jobs, job[j] # None, NEW ops, NEW from, NEW to, NEW steps,
         job[j] \in Doing(ops, from, to, steps), Doing(ops, from, to, steps) \subseteq Job,
         NEW s \in steps, Goto(j, s), s = "flush" => job[j].at > 2
  PROVE  SameData(j) /\ \A k \in Jobs \ {j} : job'[k] = job[k]
BY GotoOK DEF SameData

\* a command that ends leaves the others
LEMMA EndGood ==
  ASSUME Inv, NEW j \in Jobs, End(j)
  PROVE  job'[j] = None /\ \A k \in Jobs \ {j} : job'[k] = job[k]
BY DEF Inv, JobsOK, End

\* a new command has read nothing yet
LEMMA StartGood ==
  ASSUME Inv, Coherent, NEW j \in Jobs, Start(j)
  PROVE  Coherent'
<1>1. FilesOK /\ JobsOK
  BY DEF Inv
<1>2. Good(NoRows, commits)
  BY NoRowsGood
<1>3. ASSUME NEW op, NEW from \in Paths, NEW to, NEW step, NEW froms, NEW tos, NEW steps,
             from \in froms, to \in tos, step \in steps, Doing(op, froms, tos, steps) \subseteq Job,
             file[from] # None, Launch(j, op, from, to, step), step # "flush"
      PROVE  JobGood(j)' /\ \A k \in Jobs \ {j} : job'[k] = job[k]
  <2>1. file[from].data \in Database
    BY <1>1, <1>3, FileFacts
  <2>2. /\ job'[j].data = NoRows /\ job'[j].at = 1 /\ job'[j].step # "flush"
        /\ \A k \in Jobs \ {j} : job'[k] = job[k]
    BY <1>1, <1>3, <2>1, Launched
  <2>3. commits' = commits
    BY DEF Start, StartExport, StartCopy, StartRestore, StartImport
  <2>4. Ids(NoRows["memory_items"]) = {}
    BY NamesOfTables DEF NoRows, Names, Ids
  <2> QED BY <1>2, <2>2, <2>3, <2>4 DEF JobGood, Good
<1>4. CASE \E h \in Homes, x \in Exports : StartExport(j, h, x)
  <2>1. PICK h \in Homes, x \in Exports : StartExport(j, h, x)
    BY <1>4
  <2>2. /\ h \in Paths /\ x \in Paths /\ file[h] # None /\ commits' = commits
        /\ Launch(j, "export", h, x, "open") /\ Put(x, "empty", NoRows)
    BY <2>1 DEF StartExport, Paths
  <2>3. \A p \in Paths : file'[p] = file[p] \/ FileGood(p)'
    BY <1>1, <1>2, <2>2, PutGood DEF Good
  <2>4. JobGood(j)' /\ \A k \in Jobs \ {j} : job'[k] = job[k]
    BY <1>3, <2>2, JobSets
  <2> QED BY <2>1, <2>2, <2>3, <2>4, StartExportStep, OwnGood
<1>5. CASE \E h \in Homes, b \in Copies : StartCopy(j, h, b)
  <2>1. PICK h \in Homes, b \in Copies : StartCopy(j, h, b)
    BY <1>5
  <2>2. /\ h \in Paths /\ file[h] # None /\ commits' = commits /\ file' = file
        /\ Launch(j, "copy", h, b, "vacuum")
    BY <2>1 DEF StartCopy, Paths
  <2>3. JobGood(j)' /\ \A k \in Jobs \ {j} : job'[k] = job[k]
    BY <1>3, <2>2, JobSets
  <2> QED BY <2>1, <2>2, <2>3, StartCopyStep, OwnGood
<1>6. CASE \E h \in Homes, b \in Copies : StartRestore(j, b, h)
  <2>1. PICK h \in Homes, b \in Copies : StartRestore(j, b, h)
    BY <1>6
  <2>2. /\ b \in Paths /\ file[b] # None /\ commits' = commits /\ file' = file
        /\ Launch(j, "restore", b, h, "create")
    BY <2>1 DEF StartRestore, Paths, Is
  <2>3. JobGood(j)' /\ \A k \in Jobs \ {j} : job'[k] = job[k]
    BY <1>3, <2>2, JobSets
  <2> QED BY <2>1, <2>2, <2>3, StartFillStep, OwnGood
<1>7. CASE \E h \in Homes, x \in Exports : StartImport(j, x, h)
  <2>1. PICK h \in Homes, x \in Exports : StartImport(j, x, h)
    BY <1>7
  <2>2. /\ x \in Paths /\ file[x] # None /\ commits' = commits /\ file' = file
        /\ Launch(j, "import", x, h, "open")
    BY <2>1 DEF StartImport, Paths
  <2>3. JobGood(j)' /\ \A k \in Jobs \ {j} : job'[k] = job[k]
    BY <1>3, <2>2, JobSets
  <2> QED BY <2>1, <2>2, <2>3, StartFillStep, OwnGood
<1> QED BY <1>4, <1>5, <1>6, <1>7 DEF Start

\* a command that leaves, and what it has written stays or goes
LEMMA EndsGood ==
  ASSUME Inv, Coherent, NEW j \in Jobs, End(j), OwnFiles(j), commits' = commits,
         file' = file \/ (job[j].to \in Paths /\ Remove(job[j].to))
  PROVE  Coherent'
<1>1. FilesOK
  BY DEF Inv
<1>2. \A p \in Paths : file'[p] = file[p] \/ FileGood(p)'
  BY <1>1, RemoveGood
<1> QED BY <1>2, EndGood, OwnGood

\* opening a database keeps its rows, or creates it without any
LEMMA OpenGood ==
  ASSUME Inv, Coherent, NEW h \in Homes, Openable(h), Opened(h), commits' = commits
  PROVE  \A p \in Paths : file'[p] = file[p] \/ FileGood(p)'
<1>1. FilesOK /\ h \in Paths /\ h \notin Exports
  BY BackupAssumption DEF Inv, Paths
<1>2. Good(NoRows, commits)
  BY NoRowsGood
<1>3. file[h] # None => Good(file[h].data, commits)
  BY <1>1 DEF Coherent, FileGood, Good
<1>4. \E d : Put(h, "whole", d) /\ Good(d, commits)
  BY <1>2, <1>3 DEF Opened, Is
<1> QED BY <1>1, <1>4, PutGood DEF Good

\* an export opens its source
LEMMA OpenSourceGood ==
  ASSUME Inv, Coherent, NEW j \in Jobs, OpenSource(j)
  PROVE  Coherent'
<1>1. /\ job[j] # None /\ job[j].op = "export" /\ commits' = commits /\ OwnFiles(j)
      /\ \/ Openable(job[j].from) /\ Opened(job[j].from) /\ Goto(j, "read")
         \/ End(j) /\ file' = file
  BY OpenSourceStep DEF OpenSource, At
<1>2. /\ JobsOK /\ job[j].from \in Homes
      /\ job[j] \in Doing("export", Homes, Exports, {"open", "read", "write", "flush"})
  BY <1>1, ExportFacts
<1>3. CASE Openable(job[j].from) /\ Opened(job[j].from) /\ Goto(j, "read")
  <2>1. \A p \in Paths : file'[p] = file[p] \/ FileGood(p)'
    BY <1>1, <1>2, <1>3, OpenGood
  <2>2. SameData(j) /\ \A k \in Jobs \ {j} : job'[k] = job[k]
    BY <1>1, <1>2, <1>3, JobSets, GotoSame
  <2> QED BY <1>1, <2>1, <2>2, OwnGood
<1>4. CASE End(j) /\ file' = file
  BY <1>1, <1>4, EndsGood
<1> QED BY <1>1, <1>3, <1>4

\* an export writes what it has read
LEMMA WriteLinesGood ==
  ASSUME Inv, Coherent, NEW j \in Jobs, WriteLines(j) \/ Flushed(j) \/ ExportFails(j)
  PROVE  Coherent'
<1>1. /\ job[j] # None /\ job[j].op = "export" /\ commits' = commits /\ OwnFiles(j)
      /\ \/ Put(job[j].to, "partial", job[j].data) /\ Goto(j, "flush") /\ job[j].at > 6
         \/ Put(job[j].to, "whole", job[j].data) /\ End(j) /\ job[j].step = "flush"
         \/ Remove(job[j].to) /\ End(j)
  BY WriteLinesStep, ExportEndsStep, NamesOfTables DEF WriteLines, Flushed, ExportFails, At
<1>2. /\ FilesOK /\ JobsOK /\ job[j].to \in Paths /\ job[j].to \in Exports /\ job[j].at \in 1..7
      /\ job[j] \in Doing("export", Homes, Exports, {"open", "read", "write", "flush"})
  BY <1>1, ExportFacts
<1>3. /\ RowsOK(job[j].data, commits)
      /\ job[j].at > 2 \/ job[j].step = "flush" => OneChunk(job[j].data)
  BY <1>1 DEF Coherent, JobGood
<1>4. CASE Put(job[j].to, "partial", job[j].data) /\ Goto(j, "flush") /\ job[j].at > 6
  <2>1. job[j].at > 2
    BY <1>2, <1>4
  <2>2. \A p \in Paths : file'[p] = file[p] \/ FileGood(p)'
    BY <1>1, <1>2, <1>3, <1>4, <2>1, PutGood
  <2>3. SameData(j) /\ \A k \in Jobs \ {j} : job'[k] = job[k]
    BY <1>1, <1>2, <1>4, <2>1, JobSets, GotoSame
  <2> QED BY <1>1, <2>2, <2>3, OwnGood
<1>5. CASE Put(job[j].to, "whole", job[j].data) /\ End(j) /\ job[j].step = "flush"
  <2>1. \A p \in Paths : file'[p] = file[p] \/ FileGood(p)'
    BY <1>1, <1>2, <1>3, <1>5, PutGood
  <2> QED BY <1>1, <1>5, <2>1, EndGood, OwnGood
<1>6. CASE Remove(job[j].to) /\ End(j)
  BY <1>1, <1>2, <1>6, EndsGood
<1> QED BY <1>1, <1>4, <1>5, <1>6

\* an export reads a table after those it refers to
LEMMA ReadTableGood ==
  ASSUME Inv, Coherent, NEW j \in Jobs, ReadTable(j)
  PROVE  Coherent'
<1> DEFINE h == job[j].from
           t == Tables[job[j].at]
           d == file[h].data
           e == job'[j].data
<1>1. /\ job[j] # None /\ job[j].op = "export" /\ job[j].step = "read"
      /\ job[j].at \in 1..6 /\ t \in Names
      /\ file' = file /\ commits' = commits
      /\ job'[j] # None /\ job'[j].op = "export" /\ job'[j].step = "read"
      /\ job'[j].from = h /\ job'[j].at = job[j].at + 1
      /\ \A n \in Names : e[n] = IF n = t THEN d[n] ELSE job[j].data[n]
      /\ \A k \in Jobs \ {j} : job'[k] = job[k]
  BY ReadTableFacts
<1>2. h \in Paths /\ h \notin Exports /\ file[h] # None
  BY <1>1, ExportFacts
<1>3. Good(d, commits)
  BY <1>2 DEF Coherent, FileGood, Good
<1>4. /\ RowsOK(job[j].data, commits)
      /\ job[j].at > 2 => OneChunk(job[j].data)
      /\ Ids(job[j].data["memory_items"]) \subseteq Ids(d["memory_items"])
  BY <1>1 DEF Coherent, JobGood
<1> HIDE DEF d, e
<1>5. RowsOK(e, commits)
  BY <1>1, <1>3, <1>4 DEF Good, RowsOK
<1>6. Ids(e["memory_items"]) \subseteq Ids(d["memory_items"])
  BY <1>1, <1>4, NamesOfTables
<1>7. ASSUME job[j].at + 1 > 2 PROVE OneChunk(e)
  <2>1. CASE job[j].at = 2
    <3>1. t = "memory_chunks"
      BY <2>1 DEF Tables
    <3>2. e["memory_chunks"] = d["memory_chunks"]
      BY <1>1, <3>1
    <3> QED BY <1>3, <1>6, <3>2 DEF Good, OneChunk
  <2>2. CASE job[j].at > 2
    <3>1. t # "memory_items" /\ t # "memory_chunks"
      <4>1. job[j].at = 3 \/ job[j].at = 4 \/ job[j].at = 5 \/ job[j].at = 6
        BY <1>1, <2>2
      <4> QED BY <4>1 DEF Tables
    <3>2. /\ e["memory_items"] = job[j].data["memory_items"]
          /\ e["memory_chunks"] = job[j].data["memory_chunks"]
      BY <1>1, <3>1, NamesOfTables
    <3> QED BY <1>4, <2>2, <3>2 DEF OneChunk
  <2> QED BY <1>1, <1>7, <2>1, <2>2
<1>8. JobGood(j)'
  BY <1>1, <1>5, <1>6, <1>7 DEF JobGood, d, e
<1> QED BY <1>1, <1>8, ReadTableStep, OwnGood

\* an SQLite backup copies one state of its source
LEMMA CopyGood ==
  ASSUME Inv, Coherent, NEW j \in Jobs, Vacuum(j) \/ VacuumFails(j) \/ Filled(j)
  PROVE  Coherent'
<1>1. job[j] # None /\ job[j].op = "copy" /\ commits' = commits
  BY DEF Vacuum, VacuumFails, Filled, At
<1>2. /\ FilesOK /\ JobsOK /\ job[j].from \in Paths /\ job[j].from \notin Exports
      /\ job[j].to \in Paths
      /\ job[j] \in Doing("copy", Homes, Copies, {"vacuum", "fill", "check"})
  BY <1>1, CopyFacts, BackupAssumption
<1>4. RowsOK(job[j].data, commits) /\ OneChunk(job[j].data) /\ Closed(job[j].data)
  BY <1>1 DEF Coherent, JobGood
<1>5. CASE Vacuum(j)
  <2> DEFINE d == file[job[j].from].data
             r == [job[j] EXCEPT !.step = "fill", !.data = d]
  <2>1. /\ file[job[j].from] # None /\ Put(job[j].to, "partial", d)
        /\ job' = [job EXCEPT ![j].step = "fill", ![j].data = d]
    BY <1>5 DEF Vacuum, Is
  <2>2. RowsOK(d, commits) /\ OneChunk(d) /\ Closed(d) /\ d \in Database /\ Sound(d)
    BY <1>2, <2>1, FileFacts DEF Coherent, FileGood
  <2> HIDE DEF d
  <2>3. \A p \in Paths : file'[p] = file[p] \/ FileGood(p)'
    BY <1>1, <1>2, <2>1, <2>2, PutGood
  <2>4. r \in Doing("copy", Homes, Copies, {"vacuum", "fill", "check"}) /\ r.data = d /\ r.op = "copy"
        /\ r.seen = job[j].seen
    BY <1>2, <2>2 DEF Doing
  <2>5. job' = [job EXCEPT ![j] = r]
    BY <2>1
  <2> HIDE DEF r
  <2>6. r \in Job /\ Sound(r.data) /\ IsFiniteSet(r.seen)
    BY <1>1, <1>2, <2>2, <2>4, JobSets DEF JobsOK
  <2>7. job'[j] = r /\ \A k \in Jobs \ {j} : job'[k] = job[k]
    BY <1>2, <2>5, <2>6, JobPut
  <2>8. JobGood(j)'
    BY <1>1, <2>2, <2>4, <2>7 DEF JobGood
  <2> QED BY <1>1, <1>5, <2>3, <2>7, <2>8, VacuumStep, OwnGood
<1>6. CASE VacuumFails(j)
  <2>1. End(j) /\ (file' = file \/ Put(job[j].to, "empty", NoRows))
    BY <1>6 DEF VacuumFails
  <2>2. \A p \in Paths : file'[p] = file[p] \/ FileGood(p)'
    BY <1>1, <1>2, <2>1, NoRowsGood, PutGood DEF Good
  <2> QED BY <1>1, <1>6, <2>1, <2>2, VacuumFailsStep, EndGood, OwnGood
<1>7. CASE Filled(j)
  <2>1. Goto(j, "check") /\ Put(job[j].to, "whole", job[j].data)
    BY <1>7 DEF Filled
  <2>2. \A p \in Paths : file'[p] = file[p] \/ FileGood(p)'
    BY <1>1, <1>2, <1>4, <2>1, PutGood
  <2>3. SameData(j) /\ \A k \in Jobs \ {j} : job'[k] = job[k]
    BY <1>1, <1>2, <2>1, JobSets, GotoSame
  <2> QED BY <1>1, <1>7, <2>2, <2>3, FilledStep, OwnGood
<1> QED BY <1>5, <1>6, <1>7

\* a restore copies a coherent backup
LEMMA RestoreGood ==
  ASSUME Inv, Coherent, NEW j \in Jobs, CreateTarget(j) \/ CopyTarget(j)
  PROVE  Coherent'
<1>1. /\ job[j] # None /\ job[j].op = "restore" /\ commits' = commits /\ OwnFiles(j)
  BY CreateTargetStep, CopyTargetStep DEF CreateTarget, CopyTarget, At
<1>2. /\ FilesOK /\ JobsOK /\ job[j].from \in Paths /\ job[j].from \notin Exports
      /\ job[j].to \in Paths /\ file[job[j].from] # None
      /\ job[j] \in Doing("restore", Copies, Homes, {"create", "copy", "fill", "check"})
  BY <1>1, RestoreFacts, BackupAssumption
<1>3. Good(NoRows, commits) /\ Good(file[job[j].from].data, commits)
  BY <1>2, NoRowsGood DEF Coherent, FileGood, Good
<1>4. CASE End(j) /\ file' = file
  BY <1>1, <1>4, EndsGood
<1>5. ASSUME NEW s \in {"copy", "fill", "check"}, Goto(j, s), NEW state, NEW d,
             Put(job[j].to, state, d), Good(d, commits)
      PROVE  Coherent'
  <2>1. \A p \in Paths : file'[p] = file[p] \/ FileGood(p)'
    BY <1>1, <1>2, <1>5, PutGood DEF Good
  <2>2. SameData(j) /\ \A k \in Jobs \ {j} : job'[k] = job[k]
    BY <1>1, <1>2, <1>5, JobSets, GotoSame
  <2> QED BY <1>1, <2>1, <2>2, OwnGood
<1>6. CASE CreateTarget(j)
  BY <1>3, <1>4, <1>5, <1>6 DEF CreateTarget
<1>7. CASE CopyTarget(j)
  BY <1>3, <1>5, <1>7 DEF CopyTarget
<1> QED BY <1>6, <1>7

\* an import has read a file it has checked
LEMMA ImportGood ==
  ASSUME Inv, Coherent, NEW j \in Jobs, OpenTarget(j) \/ Parse(j) \/ NoConflicts(j)
  PROVE  Coherent'
<1>1. /\ job[j] # None /\ job[j].op = "import" /\ commits' = commits /\ OwnFiles(j)
  BY OpenTargetStep, ParseStep, NoConflictsStep DEF OpenTarget, Parse, NoConflicts, At
<1>2. /\ FilesOK /\ JobsOK /\ job[j].from \in Paths /\ job[j].to \in Homes
      /\ job[j] \in Doing("import", Exports, Homes, {"open", "parse", "conflicts", "apply"})
  BY <1>1, ImportFacts
<1>3. CASE OpenTarget(j)
  <2>1. Openable(job[j].to) /\ Opened(job[j].to) /\ Goto(j, "parse")
    BY <1>3 DEF OpenTarget
  <2>2. \A p \in Paths : file'[p] = file[p] \/ FileGood(p)'
    BY <1>1, <1>2, <2>1, OpenGood
  <2>3. SameData(j) /\ \A k \in Jobs \ {j} : job'[k] = job[k]
    BY <1>1, <1>2, <2>1, JobSets, GotoSame
  <2> QED BY <1>1, <2>2, <2>3, OwnGood
<1>4. CASE NoConflicts(j)
  <2>1. Goto(j, "apply") /\ file' = file
    BY <1>4 DEF NoConflicts
  <2>2. SameData(j) /\ \A k \in Jobs \ {j} : job'[k] = job[k]
    BY <1>1, <1>2, <2>1, JobSets, GotoSame
  <2> QED BY <1>1, <2>1, <2>2, OwnGood
<1>5. CASE Parse(j)
  <2> DEFINE d == file[job[j].from].data
             r == [job[j] EXCEPT !.step = "conflicts", !.data = d]
  <2>1. /\ file[job[j].from] # None /\ Closed(d) /\ file' = file
        /\ job' = [job EXCEPT ![j].step = "conflicts", ![j].data = d]
    BY <1>5 DEF Parse, Is
  <2>2. RowsOK(d, commits) /\ OneChunk(d) /\ d \in Database /\ Sound(d)
    BY <1>2, <2>1, FileFacts DEF Coherent, FileGood
  <2> HIDE DEF d
  <2>3. r \in Doing("import", Exports, Homes, {"open", "parse", "conflicts", "apply"})
        /\ r.data = d /\ r.op = "import" /\ r.seen = job[j].seen
    BY <1>2, <2>2 DEF Doing
  <2>4. job' = [job EXCEPT ![j] = r]
    BY <2>1
  <2> HIDE DEF r
  <2>5. r \in Job /\ Sound(r.data) /\ IsFiniteSet(r.seen)
    BY <1>1, <1>2, <2>2, <2>3, JobSets DEF JobsOK
  <2>6. job'[j] = r /\ \A k \in Jobs \ {j} : job'[k] = job[k]
    BY <1>2, <2>4, <2>5, JobPut
  <2>7. JobGood(j)'
    BY <1>1, <2>1, <2>2, <2>3, <2>6 DEF JobGood
  <2> QED BY <1>1, <2>1, <2>6, <2>7, OwnGood
<1> QED BY <1>3, <1>4, <1>5

\* a command that ends or is killed writes nothing more
LEMMA LeaveGood ==
  ASSUME Inv, Coherent, NEW j \in Jobs, Checked(j) \/ CopyFails(j) \/ ImportEnds(j) \/ Killed(j)
  PROVE  Coherent'
<1>1. End(j) /\ commits' = commits /\ (file' = file \/ Remove(job[j].to)) /\ OwnFiles(j)
  BY CheckOrFailStep, LeaveStep DEF Checked, CopyFails, ImportEnds, Killed
<1>2. job[j] # None
  BY DEF Checked, CopyFails, ImportEnds, Killed, At
<1>3. job[j].to \in Paths
  BY <1>2, JobKinds DEF Inv, Doing, Paths
<1> QED BY <1>1, <1>3, EndsGood

\* every step keeps every database and every backup coherent
LEMMA Coheres == Inv /\ Coherent /\ [Next]_vars => Coherent'
<1> SUFFICES ASSUME Inv, Coherent, [Next]_vars PROVE Coherent'
  OBVIOUS
<1>1. CASE UNCHANGED vars
  BY <1>1 DEF vars, Coherent, FileGood, JobGood
<1>2. ASSUME NEW h \in Homes, ServerStep(h) PROVE Coherent'
  BY <1>2, ServeGood, SaveGood, EditGood, GetGood DEF ServerStep
<1>3. ASSUME NEW j \in Jobs, JobStep(j) PROVE Coherent'
  BY <1>3, OpenSourceGood, ReadTableGood, WriteLinesGood, CopyGood, RestoreGood, ImportGood,
     ApplyGood, LeaveGood DEF JobStep
<1> QED BY <1>1, <1>2, <1>3, StartGood DEF Next

(* A database that is served, was restored or has taken an import has no   *)
(* id twice, no row of a memory that is not there, and one chunk for each  *)
(* memory (export.go:269-291, 702-852, 948-1019).                          *)
THEOREM ConsistentHolds == Spec => []Consistent
<1>1. Inv /\ Coherent => Consistent
  <2> SUFFICES ASSUME Inv, Coherent, NEW h \in Homes \cup Copies, file[h] # None
               PROVE  LET d == file[h].data
                      IN  /\ \A t \in DOMAIN d : \A r, s \in d[t] : r.id = s.id => r = s
                          /\ Closed(d)
                          /\ OneChunk(d)
    BY DEF Consistent, Is, OneChunk
  <2>1. FilesOK /\ h \in Paths /\ h \notin Exports
    BY BackupAssumption DEF Inv, Paths
  <2>2. /\ RowsOK(file[h].data, commits) /\ OneChunk(file[h].data) /\ Closed(file[h].data)
        /\ DOMAIN file[h].data = Names
    BY <2>1, FileFacts DEF Coherent, FileGood, Database, Names
  <2> QED BY <2>2 DEF RowsOK, TableOK
<1>2. Inv /\ Coherent /\ [Next]_vars => Coherent'
  BY Coheres
<1> QED BY <1>1, <1>2, Coherently, Always, PTL DEF Spec
=============================================================================
