------------------------------ MODULE Migrations ------------------------------
(***************************************************************************)
(* Opening a database (internal/db/store.go, migrations.go): every process *)
(* of the program reads the applied versions and then runs each missing    *)
(* migration in a transaction of its own, while other processes may be     *)
(* doing the same.  A transaction is one step: its statements and the row  *)
(* that records it are committed together or rolled back.                  *)
(***************************************************************************)
EXTENDS Naturals

CONSTANTS
  Openers,   \* processes that open the database
  Last,      \* the embedded migrations are 1..Last
  None       \* a version that is not recorded

ASSUME MigrationAssumption == Last \in Nat /\ None \notin {"ours", "other"}

Versions == 1..Last
Recorded == {"ours", "other", None}    \* by the name this program has for it, or another
Opening  == [phase : {"closed", "migrating", "open", "failed"},
             seen : [Versions -> Recorded], at : 1..(Last + 1)]

VARIABLES
  recorded,   \* schema_migrations: per version, what it is recorded as
  schema,     \* how often the statements of each version have taken effect
  opener      \* per process: its progress, the versions it read, the next to look at

migrationVars == <<recorded, schema, opener>>

Unread == [v \in Versions |-> None]
Closed == [phase |-> "closed", seen |-> Unread, at |-> 1]

MigrationTypeOK ==
  /\ recorded \in [Versions -> Recorded]
  /\ schema \in [Versions -> {0, 1}]
  /\ opener \in [Openers -> Opening]

\* new, left by an older program or a crash, or by a program with other migrations
MigrationInit ==
  /\ \E n \in 0..Last :
       /\ recorded \in [Versions -> Recorded]
       /\ \A v \in Versions : recorded[v] = None <=> v > n
       /\ schema = [v \in Versions |-> IF v <= n THEN 1 ELSE 0]
  /\ opener = [p \in Openers |-> Closed]

-----------------------------------------------------------------------------
Migrating(p, v) == opener[p].phase = "migrating" /\ opener[p].at = v
Become(p, phase) == opener' = [opener EXCEPT ![p].phase = phase]
Advance(p) == opener' = [opener EXCEPT ![p].at = @ + 1]

\* Open: settings, the table of versions, and what it holds
ReadVersions(p) ==
  /\ opener[p].phase = "closed"
  /\ opener' = [opener EXCEPT ![p] = [phase |-> "migrating", seen |-> recorded, at |-> 1]]
  /\ UNCHANGED <<recorded, schema>>

(* Mutant: the names of the applied versions are not compared.             *)
SkipAny(p, v) ==
  /\ Migrating(p, v) /\ opener[p].seen[v] # None
  /\ Advance(p)
  /\ UNCHANGED <<recorded, schema>>

Skip(p, v) ==
  /\ Migrating(p, v) /\ opener[p].seen[v] = "ours"
  /\ Advance(p)
  /\ UNCHANGED <<recorded, schema>>

\* an applied version has another name
Mismatch(p, v) ==
  /\ Migrating(p, v) /\ opener[p].seen[v] = "other"
  /\ Become(p, "failed")
  /\ UNCHANGED <<recorded, schema>>

(* Mutant: a version is recorded twice.                                    *)
MigrateAgain(p, v) ==
  /\ Migrating(p, v) /\ opener[p].seen[v] = None
  /\ recorded' = [recorded EXCEPT ![v] = "ours"]
  /\ schema' = [schema EXCEPT ![v] = @ + 1]
  /\ Advance(p)

\* the version's transaction commits: the version is the table's key
Migrate(p, v) ==
  /\ Migrating(p, v) /\ opener[p].seen[v] = None
  /\ recorded[v] = None
  /\ recorded' = [recorded EXCEPT ![v] = "ours"]
  /\ schema' = [schema EXCEPT ![v] = @ + 1]
  /\ Advance(p)

\* or rolls back: another process recorded the version, or the database is locked or full
MigrationFails(p, v) ==
  /\ Migrating(p, v) /\ opener[p].seen[v] = None
  /\ Become(p, "failed")
  /\ UNCHANGED <<recorded, schema>>

Opened(p) ==
  /\ Migrating(p, Last + 1)
  /\ Become(p, "open")
  /\ UNCHANGED <<recorded, schema>>

OpenStep(p) ==
  \/ ReadVersions(p) \/ Opened(p)
  \/ \E v \in Versions : Skip(p, v) \/ Mismatch(p, v) \/ Migrate(p, v) \/ MigrationFails(p, v)

\* Close, or the process is gone
CloseStore(p) ==
  /\ opener' = [opener EXCEPT ![p] = Closed]
  /\ UNCHANGED <<recorded, schema>>

MigrationNext == \E p \in Openers : OpenStep(p) \/ CloseStore(p)

MigrationSpec == MigrationInit /\ [][MigrationNext]_migrationVars

-----------------------------------------------------------------------------
(* Whatever processes open the database at once, fail or are killed while  *)
(* they do, a program that has it open has every migration of its own in   *)
(* it, exactly once (migrations.go:86-137).                                *)
OpenedIsMigrated ==
  \A p \in Openers : opener[p].phase = "open" =>
    \A v \in Versions : recorded[v] = "ours" /\ schema[v] = 1
=============================================================================
