--------------------------- MODULE MemoryLifecycle ---------------------------
(***************************************************************************)
(* The tiering and retention core of pamie: the memory service's           *)
(* operations on a memory's lifecycle fields (internal/memory/service.go)  *)
(* and the rules RunLifecycle applies to a batch of memories               *)
(* (internal/memory/lifecycle.go), over the rows of memory_items,          *)
(* access_log and memory_events (internal/db).                             *)
(*                                                                         *)
(* Every operation runs in one SQLite transaction on the only connection   *)
(* of the process (db.Store.WithinTx), so each is one action.  What is NOT *)
(* atomic is the timestamp: every operation reads the clock before it      *)
(* waits for that connection, so it commits with a `now' that may be       *)
(* older than stamps already committed.  An action therefore takes `now'   *)
(* from the last MaxLag ticks.                                             *)
(*                                                                         *)
(* Operations that fail (not found, deleted, invalid input, a malformed    *)
(* policy, a cancelled run) roll back and change nothing; they are the     *)
(* stuttering steps of this specification.                                 *)
(***************************************************************************)
EXTENDS Integers, Sequences, FiniteSets

CONSTANTS
  Memories,     \* the memory ids that may be saved
  Sources,      \* the values of the source field
  Importances,  \* the importances clients use
  ClientTiers,  \* the tiers clients ask for
  Policies,     \* the enabled rows of retention_policies, in (created_at, id) order
  BatchSize,    \* LifecycleOptions.Limit of every run
  Day,          \* clock ticks per day
  MaxLag,       \* ticks an operation may wait between reading the clock and its commit
  MaxClock,     \* bound: the clock stops here
  MaxAccesses,  \* bound: rows access_log holds per memory
  None,         \* the NULL of a nullable column
  Inherit       \* a rule the policy's JSON omits

-----------------------------------------------------------------------------
(* Tiers, policies and their rules.                                        *)

Tiers     == {"working", "hot", "warm", "cold", "archive"}
Demotable == Tiers \ {"archive"}

(* demotionTarget, and lifecycleArchive for a cold memory.                 *)
Demotion  == [working |-> "hot", hot |-> "warm", warm |-> "cold", cold |-> "archive"]

(* Mutant: promotionTarget's second result ignored.                        *)
PromotionUnchecked ==
  [archive |-> "cold", cold |-> "warm", warm |-> "hot", hot |-> "", working |-> ""]

(* promotionTarget: the two upper tiers have no promotion.                 *)
Promotion == [archive |-> "cold", cold |-> "warm", warm |-> "hot"]

(* Rules are in ticks.  idle[t] is the idle time after which tier t is     *)
(* left downwards; deleteAfter = 0 means archived memories are kept.       *)
Rules ==
  [idle : [Demotable -> Nat], deleteAfter : Nat, promoteCount : Nat,
   promoteWindow : Nat, protectPinned : BOOLEAN, protectImportance : Nat]

(* The JSON of one policy: days, and 0 or Inherit for what it omits.       *)
Overrides ==
  [idle : [Demotable -> Nat], deleteAfter : Nat, promoteCount : Nat,
   promoteWindow : Nat, protectPinned : BOOLEAN \cup {Inherit}, protectImportance : Nat]

Policy ==
  [tiers : SUBSET Tiers, sources : SUBSET Sources, includePinned : BOOLEAN,
   rules : Overrides]

ASSUME LifecycleAssumption ==
  /\ Policies \in Seq(Policy)
  /\ BatchSize \in Int
  /\ Day \in Nat \ {0}
  /\ MaxLag \in Nat /\ MaxClock \in Nat /\ MaxAccesses \in Nat
  /\ Importances \subseteq 0..100 /\ ClientTiers \subseteq Tiers
  /\ None \notin Nat
  /\ Inherit \notin BOOLEAN

days(n) == n * Day

DefaultRules ==
  [idle |-> [working |-> days(1), hot |-> days(7), warm |-> days(30), cold |-> days(90)],
   deleteAfter |-> 0, promoteCount |-> 3, promoteWindow |-> days(7),
   protectPinned |-> TRUE, protectImportance |-> 90]

(* Mutant: an omitted protect_pinned read as false.                        *)
MergeRulesZeroBool(base, o) ==
  LET over(value, inherited) == IF value > 0 THEN value ELSE inherited
  IN [idle |-> [t \in Demotable |-> over(days(o.idle[t]), base.idle[t])],
      deleteAfter |-> over(days(o.deleteAfter), base.deleteAfter),
      promoteCount |-> over(o.promoteCount, base.promoteCount),
      promoteWindow |-> over(days(o.promoteWindow), base.promoteWindow),
      protectPinned |-> o.protectPinned = TRUE,
      protectImportance |-> over(o.protectImportance, base.protectImportance)]

(* mergeLifecycleRules: an override counts only when it is positive.       *)
MergeRules(base, o) ==
  LET over(value, inherited) == IF value > 0 THEN value ELSE inherited
  IN [idle |-> [t \in Demotable |-> over(days(o.idle[t]), base.idle[t])],
      deleteAfter |-> over(days(o.deleteAfter), base.deleteAfter),
      promoteCount |-> over(o.promoteCount, base.promoteCount),
      promoteWindow |-> over(days(o.promoteWindow), base.promoteWindow),
      protectPinned |-> IF o.protectPinned = Inherit THEN base.protectPinned ELSE o.protectPinned,
      protectImportance |-> over(o.protectImportance, base.protectImportance)]

(* policyScope.matches: an empty list of tiers or sources matches all.     *)
Matches(policy, it) ==
  /\ policy.tiers = {} \/ it.tier \in policy.tiers
  /\ policy.sources = {} \/ it.source \in policy.sources
  /\ policy.includePinned \/ ~it.pinned

(* policyForItem: the first enabled policy in scope, else the built-in.    *)
RulesFor(it) ==
  LET inScope == {i \in 1..Len(Policies) : Matches(Policies[i], it)}
  IN IF inScope = {} THEN DefaultRules
     ELSE LET first == CHOOSE i \in inScope : \A j \in inScope : i <= j
          IN MergeRules(DefaultRules, Policies[first].rules)

normalizeLifecycleLimit(limit) ==
  IF limit <= 0 THEN 500 ELSE IF limit > 5000 THEN 5000 ELSE limit

-----------------------------------------------------------------------------
(* State.                                                                  *)

VARIABLES
  clock,     \* wall-clock time
  items,     \* memory_items: Unsaved or the row's lifecycle columns
  accesses,  \* access_log: the created_at of the memory's rows, in order
  event,     \* memory_events: the event_type of the memory's newest row
  touched,   \* history: the clock at the last commit that wrote the row
  stay,      \* history: the clock when the current stay in the archive began, or None
  stamped    \* history: the clock when archived_at was set, None while it is NULL

vars == <<clock, items, accesses, event, touched, stay, stamped>>

Time  == Nat
Stamp == Time \cup {None}

Item ==
  [tier : Tiers, pinned : BOOLEAN, importance : Importances, source : Sources,
   createdAt : Time, updatedAt : Time, lastAccessedAt : Stamp,
   archivedAt : Stamp, deletedAt : Stamp]

LifecycleEvents ==
  {"lifecycle_promoted", "lifecycle_demoted", "lifecycle_archived", "lifecycle_deleted"}
Events == {"none", "created", "updated", "pinned", "deleted"} \cup LifecycleEvents

(* A row that has not been inserted yet.                                   *)
Unsaved == [tier |-> "none"]

Saved(m)   == items[m] # Unsaved
Visible(m) == Saved(m) /\ items[m].deletedAt = None

TypeOK ==
  /\ clock \in Time
  /\ items \in [Memories -> Item \cup {Unsaved}]
  /\ accesses \in [Memories -> Seq(Time)]
  /\ event \in [Memories -> Events]
  /\ touched \in [Memories -> Time]
  /\ stay \in [Memories -> Stamp]
  /\ stamped \in [Memories -> Stamp]

Init ==
  /\ clock = 0
  /\ items = [m \in Memories |-> Unsaved]
  /\ accesses = [m \in Memories |-> <<>>]
  /\ event = [m \in Memories |-> "none"]
  /\ touched = [m \in Memories |-> 0]
  /\ stay = [m \in Memories |-> None]
  /\ stamped = [m \in Memories |-> None]

(* The values an operation that commits at this clock may hold in `now'.   *)
Nows == {now \in 0..clock : now >= clock - MaxLag}

(* A client names a memory only after its Save returned, so it reads the   *)
(* clock no earlier than createdAt.                                        *)
ClientNows(m) == {now \in Nows : now >= items[m].createdAt}

(* One transaction: the rows new[m] replace items[m], ev[m] is the type of *)
(* the row it appends to memory_events, and the history follows.           *)
Commit(new, ev) ==
  /\ items' = [m \in Memories |-> IF m \in DOMAIN new THEN new[m] ELSE items[m]]
  /\ event' = [m \in Memories |-> IF m \in DOMAIN ev THEN ev[m] ELSE event[m]]
  /\ touched' = [m \in Memories |-> IF m \in DOMAIN new THEN clock ELSE touched[m]]
  /\ stay' = [m \in Memories |->
                IF m \notin DOMAIN new THEN stay[m]
                ELSE IF new[m].tier # "archive" THEN None
                ELSE IF items[m].tier = "archive" THEN stay[m] ELSE clock]
  /\ stamped' = [m \in Memories |->
                   IF m \notin DOMAIN new THEN stamped[m]
                   ELSE IF new[m].archivedAt = None THEN None
                   ELSE IF m \in DOMAIN ev /\ ev[m] = "lifecycle_archived" THEN clock
                   ELSE stamped[m]]
  /\ UNCHANGED clock

-----------------------------------------------------------------------------
(* The rules of evaluateLifecycleItem, for a row `it' and its accesses.    *)

(* Mutant: updated_at is no activity.                                      *)
ActivityUnedited(it) == {it.createdAt, it.lastAccessedAt} \ {None}

(* The instants lastActivity takes the latest of.                          *)
Activity(it) == {it.createdAt, it.updatedAt, it.lastAccessedAt} \ {None}

IdleDue(it, now) ==
  /\ it.tier \in Demotable
  /\ \A t \in Activity(it) : now >= t + RulesFor(it).idle[it.tier]

RetentionDue(it, now) ==
  /\ it.tier = "archive"
  /\ RulesFor(it).deleteAfter > 0
  /\ it.archivedAt # None
  /\ now >= it.archivedAt + RulesFor(it).deleteAfter

Protected(it) ==
  \/ RulesFor(it).protectPinned /\ it.pinned
  \/ /\ RulesFor(it).protectImportance > 0
     /\ it.importance >= RulesFor(it).protectImportance

(* CountSince: the accesses at or after an instant.                        *)
CountSince(acc, since) == Cardinality({i \in 1..Len(acc) : acc[i] >= since})

Promotes(it, acc, now) ==
  /\ RulesFor(it).promoteCount > 0
  /\ it.tier \in DOMAIN Promotion
  /\ CountSince(acc, now - RulesFor(it).promoteWindow) >= RulesFor(it).promoteCount

Promote(it, now) ==
  [it EXCEPT !.tier = Promotion[it.tier], !.updatedAt = now,
             !.archivedAt = IF it.tier = "archive" THEN None ELSE it.archivedAt]

(* Mutant: archiving keeps an archived_at an earlier stay left behind.     *)
ArchiveOnce(it, now) ==
  [it EXCEPT !.tier = "archive", !.updatedAt = now,
             !.archivedAt = IF it.archivedAt = None THEN now ELSE it.archivedAt]

Archive(it, now) ==
  [it EXCEPT !.tier = "archive", !.archivedAt = now, !.updatedAt = now]

(* Mutant: two tiers in one run.                                           *)
DemoteTwice(it, now) ==
  [it EXCEPT !.tier = IF it.tier = "warm" THEN "archive" ELSE Demotion[Demotion[it.tier]],
             !.updatedAt = now]

Demote(it, now) == [it EXCEPT !.tier = Demotion[it.tier], !.updatedAt = now]

Expire(it, now) == [it EXCEPT !.deletedAt = now, !.updatedAt = now]

(* The event a run records for a row, or "none" when it leaves it alone.   *)
Verdict(it, acc, now) ==
  IF Promotes(it, acc, now) THEN "lifecycle_promoted"
  ELSE IF Protected(it) THEN "none"
  ELSE IF RetentionDue(it, now) THEN "lifecycle_deleted"
  ELSE IF ~IdleDue(it, now) THEN "none"
  ELSE IF it.tier = "cold" THEN "lifecycle_archived" ELSE "lifecycle_demoted"

(* The row after that verdict.                                             *)
Apply(it, verdict, now) ==
  CASE verdict = "lifecycle_promoted" -> Promote(it, now)
    [] verdict = "lifecycle_archived" -> Archive(it, now)
    [] verdict = "lifecycle_demoted"  -> Demote(it, now)
    [] verdict = "lifecycle_deleted"  -> Expire(it, now)

(* Mutant: deleted rows are listed too.                                    *)
BatchesWithDeleted(limit) ==
  LET active == {m \in Memories : Saved(m)}
  IN {B \in SUBSET active :
        /\ Cardinality(B) <= limit
        /\ B # active => Cardinality(B) = limit
        /\ \A m \in B, n \in active \ B : items[m].updatedAt <= items[n].updatedAt}

(* Mutant: the last row of the limit is lost.                              *)
BatchesShort(limit) ==
  LET active == {m \in Memories : Visible(m)}
  IN {B \in SUBSET active :
        /\ Cardinality(B) < limit
        /\ B # active => Cardinality(B) = limit - 1
        /\ \A m \in B, n \in active \ B : items[m].updatedAt <= items[n].updatedAt}

(* ListActive: the `limit' visible rows with the oldest updated_at; ties   *)
(* fall as SQLite pleases.                                                 *)
Batches(limit) ==
  LET active == {m \in Memories : Visible(m)}
  IN {B \in SUBSET active :
        /\ Cardinality(B) <= limit
        /\ B # active => Cardinality(B) = limit
        /\ \A m \in B, n \in active \ B : items[m].updatedAt <= items[n].updatedAt}

-----------------------------------------------------------------------------
(* Actions: one per operation of the service.                              *)

Save(m, now, tier, pinned, importance, source) ==
  /\ ~Saved(m)
  /\ Commit([x \in {m} |->
               [tier |-> tier, pinned |-> pinned, importance |-> importance,
                source |-> source, createdAt |-> now, updatedAt |-> now,
                lastAccessedAt |-> None, archivedAt |-> None, deletedAt |-> None]],
            [x \in {m} |-> "created"])
  /\ UNCHANGED accesses

(* Get stamps the access, appends it to the log and applies access         *)
(* promotion in the same transaction.                                      *)
Get(m, now) ==
  LET read == [items[m] EXCEPT !.lastAccessedAt = now, !.updatedAt = now]
      log  == Append(accesses[m], now)
      rise == Promotes(read, log, now)
  IN /\ Visible(m)
     /\ Len(accesses[m]) < MaxAccesses
     /\ accesses' = [accesses EXCEPT ![m] = log]
     /\ Commit([x \in {m} |-> IF rise THEN Promote(read, now) ELSE read],
               [x \in IF rise THEN {m} ELSE {} |-> "lifecycle_promoted"])

(* Update writes the fields the caller gives; one it omits is the value    *)
(* the row has.  It never touches archived_at.                             *)
Update(m, now, tier, pinned, importance, source) ==
  /\ Visible(m)
  /\ Commit([x \in {m} |->
               [items[m] EXCEPT !.tier = tier, !.pinned = pinned, !.importance = importance,
                                !.source = source, !.updatedAt = now]],
            [x \in {m} |-> "updated"])
  /\ UNCHANGED accesses

(* Mutant: Pin forgets updated_at.                                         *)
PinUnstamped(m, now, pinned) ==
  /\ Visible(m)
  /\ Commit([x \in {m} |-> [items[m] EXCEPT !.pinned = pinned]], [x \in {m} |-> "pinned"])
  /\ UNCHANGED accesses

Pin(m, now, pinned) ==
  /\ Visible(m)
  /\ Commit([x \in {m} |-> [items[m] EXCEPT !.pinned = pinned, !.updatedAt = now]],
            [x \in {m} |-> "pinned"])
  /\ UNCHANGED accesses

Delete(m, now) ==
  /\ Visible(m)
  /\ Commit([x \in {m} |-> [items[m] EXCEPT !.deletedAt = now, !.updatedAt = now]],
            [x \in {m} |-> "deleted"])
  /\ UNCHANGED accesses

(* The evaluations a run at `now' may make: what it decides for each row   *)
(* of its batch.                                                           *)
Evaluations(now) ==
  {[m \in B |-> Verdict(items[m], accesses[m], now)] :
     B \in Batches(normalizeLifecycleLimit(BatchSize))}

(* One run of the lifecycle rules over one batch, all or nothing.          *)
RunLifecycle(now) ==
  \E verdict \in Evaluations(now) :
    LET changed == {m \in DOMAIN verdict : verdict[m] # "none"}
    IN /\ Commit([m \in changed |-> Apply(items[m], verdict[m], now)],
                 [m \in changed |-> verdict[m]])
       /\ UNCHANGED accesses

Tick ==
  /\ clock < MaxClock
  /\ clock' = clock + 1
  /\ UNCHANGED <<items, accesses, event, touched, stay, stamped>>

Sweep == \E now \in Nows : RunLifecycle(now)

Client(m) ==
  \/ \E now \in Nows, tier \in ClientTiers, pinned \in BOOLEAN, importance \in Importances,
        source \in Sources : Save(m, now, tier, pinned, importance, source)
  \/ /\ Visible(m)
     /\ \E now \in ClientNows(m) :
          \/ Get(m, now)
          \/ \E tier \in ClientTiers \cup {items[m].tier}, pinned \in BOOLEAN,
                importance \in Importances, source \in Sources :
               Update(m, now, tier, pinned, importance, source)
          \/ \E pinned \in BOOLEAN : Pin(m, now, pinned)
          \/ Delete(m, now)

Next ==
  \/ \E m \in Memories : Client(m)
  \/ Sweep
  \/ Tick

Spec == Init /\ [][Next]_vars

(* The worker's ticker starts run after run while it is enabled, and time  *)
(* goes on; no client is obliged to do anything.                           *)
FairSpec == Spec /\ WF_vars(Sweep) /\ WF_vars(Tick)

-----------------------------------------------------------------------------
(* Properties.                                                             *)

(* A run, or a Get that promotes, is what changed this row.                *)
LifecycleStep(m) ==
  /\ Visible(m)
  /\ \/ items'[m].tier # items[m].tier
     \/ items'[m].deletedAt # items[m].deletedAt
  /\ event'[m] \in LifecycleEvents

(* The step demotes, archives or deletes the row.                          *)
LoweringStep(m) == LifecycleStep(m) /\ event'[m] # "lifecycle_promoted"

(* A memory is demoted or archived by age only after it has been left      *)
(* alone for the whole idle time of its tier, measured on the real clock   *)
(* from the last commit that wrote it, minus the time one operation may    *)
(* have waited for the connection: Get, Update, Pin and every earlier      *)
(* tier change restart the count (lastActivity, evaluateLifecycleItem).    *)
IdleBeforeDemotion ==
  [][\A m \in Memories :
       LoweringStep(m) /\ items'[m].deletedAt = None
         => clock - touched[m] >= RulesFor(items[m]).idle[items[m].tier] - MaxLag]_vars

(* Retention deletes a memory only when delete_archived_after has passed   *)
(* since the lifecycle archived it: archived_at survives every operation   *)
(* in between unchanged (evaluateLifecycleItem, lifecycleArchive, and the  *)
(* UpdateItem of every other operation).                                   *)
RetentionAfterArchival ==
  [][\A m \in Memories :
       LoweringStep(m) /\ items'[m].deletedAt # None
         => /\ stamped[m] # None
            /\ clock - stamped[m] >= RulesFor(items[m]).deleteAfter - MaxLag]_vars

(* Retention deletes a memory only when it has been in the archive for     *)
(* delete_archived_after without a break.  The event the code records says *)
(* "archive retention threshold exceeded".                                 *)
RetentionAfterStay ==
  [][\A m \in Memories :
       LoweringStep(m) /\ items'[m].deletedAt # None
         => /\ stay[m] # None
            /\ clock - stay[m] >= RulesFor(items[m]).deleteAfter - MaxLag]_vars

(* The lifecycle lowers a pinned memory, or deletes any memory, only when  *)
(* an enabled policy that covers it says so: no merge of defaults, scope   *)
(* order or fall-through to the built-in policy lifts a protection         *)
(* (mergeLifecycleRules, policyForItem, policyScope.matches).              *)
OnlyPoliciesLiftProtection ==
  [][\A m \in Memories :
       LoweringStep(m) =>
         LET covering == {i \in 1..Len(Policies) : Matches(Policies[i], items[m])}
         IN /\ items[m].pinned =>
                 \E i \in covering : Policies[i].rules.protectPinned = FALSE
            /\ items'[m].deletedAt # None =>
                 \E i \in covering : Policies[i].rules.deleteAfter > 0]_vars

(* A deleted memory is never read, logged, changed or brought back: every  *)
(* operation tests deleted_at inside its transaction, and ListActive       *)
(* leaves deleted rows out of every batch.                                 *)
DeletedIsFinal ==
  [][\A m \in Memories :
       Saved(m) /\ ~Visible(m) =>
         UNCHANGED <<items[m], accesses[m], event[m]>>]_vars

(* Stamps never run ahead of the clock, and updated_at lags behind the     *)
(* commit that wrote it by at most MaxLag, though operations may commit    *)
(* in another order than they read the clock.                              *)
StampsTrack(m) ==
  /\ \A t \in Activity(items[m]) : t <= clock
  /\ touched[m] <= clock
  /\ items[m].updatedAt >= touched[m] - MaxLag
  /\ items[m].archivedAt # None =>
       /\ stamped[m] # None
       /\ stamped[m] <= clock
       /\ items[m].archivedAt <= stamped[m]
       /\ items[m].archivedAt >= stamped[m] - MaxLag
StampsTrackCommits == \A m \in Memories : Saved(m) => StampsTrack(m)

(* A memory a run would change does not wait forever: the batch limit      *)
(* must not keep the same rows at the head of ListActive for good.         *)
Due(m) == Visible(m) /\ Verdict(items[m], accesses[m], clock) # "none"
NoStarvation == \A m \in Memories : Due(m) ~> ~Due(m)

(* What the documentation promises of tiers, see TierLadder.               *)
Ladder == INSTANCE TierLadder WITH
  rung  <- [m \in Memories |-> IF ~Saved(m) THEN "unsaved"
                              ELSE IF Visible(m) THEN items[m].tier ELSE "deleted"],
  cause <- event
LadderSpec == Ladder!Spec

=============================================================================
