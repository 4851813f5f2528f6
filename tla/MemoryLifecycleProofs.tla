------------------------ MODULE MemoryLifecycleProofs ------------------------
(***************************************************************************)
(* Machine-checked theorems about MemoryLifecycle, for every set of        *)
(* memories, every list of policies, batch size, lag and bound.            *)
(***************************************************************************)
EXTENDS MemoryLifecycle, FiniteSetTheorems, WellFoundedInduction, TLAPS

-----------------------------------------------------------------------------
(* Lemmas about policies and rules.                                        *)

(* Every non-empty set of naturals has a least element.                    *)
LEMMA LeastElement ==
  ASSUME NEW S \in SUBSET Nat, S # {}
  PROVE  \E i \in S : \A j \in S : i <= j
<1>1. PICK i \in S : \A j \in S : ~(<<j, i>> \in OpToRel(<, Nat))
  BY WFMin, NatLessThanWellFounded
<1>2. \A j \in S : ~(j < i)
  BY <1>1 DEF OpToRel
<1> QED BY <1>2

(* The first policy in scope is one of those in scope.                     *)
LEMMA FirstInScope ==
  ASSUME NEW S \in SUBSET (1..Len(Policies)), S # {}
  PROVE  (CHOOSE i \in S : \A j \in S : i <= j) \in S
<1>1. S \in SUBSET Nat
  BY LifecycleAssumption
<1> QED BY <1>1, LeastElement

(* A merge of well-formed rules with a policy's overrides is well-formed.  *)
LEMMA MergeTyped ==
  ASSUME NEW base \in Rules, NEW o \in Overrides
  PROVE  MergeRules(base, o) \in Rules
<1>1. Day \in Nat
  BY LifecycleAssumption
<1>2. \A n \in Nat : days(n) \in Nat
  BY <1>1, SMT DEF days
<1> QED BY <1>2 DEF MergeRules, Rules, Overrides

(* So are the built-in rules.                                              *)
LEMMA DefaultsTyped == DefaultRules \in Rules
<1>1. \A n \in Nat : days(n) \in Nat
  BY LifecycleAssumption, SMT DEF days
<1> QED BY <1>1 DEF DefaultRules, Rules, Demotable, Tiers

(* Whatever the enabled policies, a row always has well-formed rules.      *)
LEMMA RulesTyped ==
  ASSUME NEW it
  PROVE  RulesFor(it) \in Rules
<1> DEFINE inScope == {i \in 1..Len(Policies) : Matches(Policies[i], it)}
           first == CHOOSE i \in inScope : \A j \in inScope : i <= j
<1>1. CASE inScope = {}
  BY <1>1, DefaultsTyped DEF RulesFor
<1>2. CASE inScope # {}
  <2>1. first \in inScope
    BY <1>2, FirstInScope
  <2>2. Policies[first] \in Policy
    BY <2>1, LifecycleAssumption
  <2>3. RulesFor(it) = MergeRules(DefaultRules, Policies[first].rules)
    BY <1>2 DEF RulesFor
  <2> HIDE DEF first
  <2>4. Policies[first].rules \in Overrides
    BY <2>2 DEF Policy
  <2> QED BY <2>3, <2>4, MergeTyped, DefaultsTyped
<1> QED BY <1>1, <1>2

-----------------------------------------------------------------------------
(* Lemmas about one row.                                                   *)

(* An operation's `now' is at most MaxLag behind the clock.                *)
LEMMA NowsTyped == clock \in Nat => \A now \in Nows : now \in Nat /\ now <= clock /\ now >= clock - MaxLag
BY LifecycleAssumption DEF Nows

(* Where the two ladders lead.                                             *)
LEMMA PromotionSteps ==
  /\ DOMAIN Promotion = {"archive", "cold", "warm"}
  /\ Promotion["archive"] = "cold" /\ Promotion["cold"] = "warm" /\ Promotion["warm"] = "hot"
BY DEF Promotion

(* Demotion goes one tier down, and never out of the archive.              *)
LEMMA DemotionSteps ==
  /\ Demotion["working"] = "hot" /\ Demotion["hot"] = "warm"
  /\ Demotion["warm"] = "cold" /\ Demotion["cold"] = "archive"
BY DEF Demotion

(* What each verdict says about the row it is given to.                    *)
LEMMA VerdictMeaning ==
  ASSUME NEW it, NEW acc, NEW now, NEW v, v = Verdict(it, acc, now)
  PROVE  /\ v \in LifecycleEvents \cup {"none"}
         /\ v = "lifecycle_promoted" => it.tier \in DOMAIN Promotion
         /\ v = "lifecycle_deleted" => RetentionDue(it, now) /\ ~Protected(it)
         /\ v = "lifecycle_archived" => it.tier = "cold" /\ IdleDue(it, now) /\ ~Protected(it)
         /\ v = "lifecycle_demoted" =>
              it.tier \in Demotable \ {"cold"} /\ IdleDue(it, now) /\ ~Protected(it)
BY DEF Verdict, LifecycleEvents, Promotes, IdleDue

(* An unsaved row is no Item, so a Visible one is.                         *)
LEMMA VisibleIsItem ==
  ASSUME TypeOK, NEW m \in Memories, Visible(m)
  PROVE  items[m] \in Item
BY DEF TypeOK, Visible, Saved

(* A verdict turns a row into a row.                                       *)
LEMMA ApplyTyped ==
  ASSUME NEW it \in Item, NEW acc, NEW now \in Nat, NEW v,
         v = Verdict(it, acc, now), v # "none"
  PROVE  Apply(it, v, now) \in Item
<1>1. it.tier \in Tiers
  BY DEF Item
<1>2. CASE v = "lifecycle_promoted"
  <2>1. Promotion[it.tier] \in Tiers
    BY <1>2, VerdictMeaning, PromotionSteps, Zenon DEF Tiers
  <2> QED BY <1>2, <2>1 DEF Apply, Promote, Item, Stamp, Time
<1>3. CASE v = "lifecycle_archived"
  BY <1>3 DEF Apply, Archive, Item, Stamp, Time, Tiers
<1>4. CASE v = "lifecycle_demoted"
  <2>1. Demotion[it.tier] \in Tiers
    <3>1. it.tier \in {"working", "hot", "warm"}
      BY <1>4, VerdictMeaning DEF Demotable, Tiers
    <3> QED BY <3>1, DemotionSteps, Zenon DEF Tiers
  <2> QED BY <1>4, <2>1 DEF Apply, Demote, Item, Stamp, Time
<1>5. CASE v = "lifecycle_deleted"
  BY <1>5 DEF Apply, Expire, Item, Stamp, Time
<1> QED BY <1>2, <1>3, <1>4, <1>5, VerdictMeaning DEF LifecycleEvents

-----------------------------------------------------------------------------
(* What a step does to one row.  Every action is one of these for every    *)
(* memory; the theorems below reason about them instead of the actions.    *)

RowKept(m) ==
  UNCHANGED <<items[m], accesses[m], event[m], touched[m], stay[m], stamped[m]>>

(* A commit that leaves the row as `it'.                                   *)
RowWritten(m, it) ==
  /\ UNCHANGED clock
  /\ items'[m] = it
  /\ touched'[m] = clock
  /\ stay'[m] = IF it.tier # "archive" THEN None
                ELSE IF items[m].tier = "archive" THEN stay[m] ELSE clock

(* What the commit leaves of the history of archived_at.                   *)
StampKept(m, it) == stamped'[m] = IF it.archivedAt = None THEN None ELSE stamped[m]

RowCreated(m) ==
  \E now \in Nows : \E it \in Item :
    /\ ~Saved(m)
    /\ it.createdAt = now /\ it.updatedAt = now /\ it.lastAccessedAt = None
    /\ it.archivedAt = None /\ it.deletedAt = None
    /\ RowWritten(m, it) /\ StampKept(m, it)
    /\ event'[m] = "created"
    /\ UNCHANGED accesses[m]

(* The row a Get leaves before it promotes.                                *)
ReadRow(m, now) == [items[m] EXCEPT !.lastAccessedAt = now, !.updatedAt = now]

RowRead(m) ==
  \E now \in Nows :
    /\ Visible(m)
    /\ RowWritten(m, ReadRow(m, now)) /\ StampKept(m, ReadRow(m, now))
    /\ UNCHANGED event[m]
    /\ accesses'[m] = Append(accesses[m], now)

RowReadAndPromoted(m) ==
  \E now \in Nows :
    LET log == Append(accesses[m], now)
    IN /\ Visible(m)
       /\ Promotes(ReadRow(m, now), log, now)
       /\ RowWritten(m, Promote(ReadRow(m, now), now))
       /\ StampKept(m, Promote(ReadRow(m, now), now))
       /\ event'[m] = "lifecycle_promoted"
       /\ accesses'[m] = log

(* Update, Pin and Delete: the stamps but updated_at and deleted_at stay.  *)
RowEdited(m) ==
  \E now \in Nows : \E it \in Item :
    /\ Visible(m)
    /\ it.createdAt = items[m].createdAt /\ it.lastAccessedAt = items[m].lastAccessedAt
    /\ it.archivedAt = items[m].archivedAt /\ it.updatedAt = now
    /\ RowWritten(m, it) /\ StampKept(m, it)
    /\ \/ event'[m] \in {"updated", "pinned"} /\ it.deletedAt = None
       \/ event'[m] = "deleted" /\ it.deletedAt = now
    /\ event'[m] \in {"pinned", "deleted"} => it.tier = items[m].tier
    /\ UNCHANGED accesses[m]

RowSwept(m) ==
  \E now \in Nows :
    LET v == Verdict(items[m], accesses[m], now)
        it == Apply(items[m], v, now)
    IN /\ Visible(m)
       /\ v # "none"
       /\ RowWritten(m, it)
       /\ stamped'[m] = IF it.archivedAt = None THEN None
                        ELSE IF v = "lifecycle_archived" THEN clock ELSE stamped[m]
       /\ event'[m] = v
       /\ UNCHANGED accesses[m]

RowStep(m) ==
  \/ RowKept(m)
  \/ RowCreated(m)
  \/ RowRead(m)
  \/ RowReadAndPromoted(m)
  \/ RowEdited(m)
  \/ RowSwept(m)

(* A client operation concerns one row.                                    *)
OnlyRow(m) == RowStep(m) /\ \A n \in Memories \ {m} : RowKept(n)

(* A commit that does not mention a row keeps it.                          *)
LEMMA CommitElsewhere ==
  ASSUME NEW new, NEW ev, Commit(new, ev), NEW m \in Memories,
         m \notin DOMAIN new, m \notin DOMAIN ev, accesses'[m] = accesses[m]
  PROVE  RowKept(m)
BY DEF Commit, RowKept

(* A commit that mentions it writes it.                                    *)
LEMMA CommitHere ==
  ASSUME NEW new, NEW ev, Commit(new, ev), NEW m \in Memories, m \in DOMAIN new
  PROVE  /\ RowWritten(m, new[m])
         /\ m \in DOMAIN ev => event'[m] = ev[m]
         /\ m \notin DOMAIN ev => event'[m] = event[m]
         /\ (m \in DOMAIN ev => ev[m] # "lifecycle_archived") => StampKept(m, new[m])
         /\ m \in DOMAIN ev =>
              stamped'[m] = IF new[m].archivedAt = None THEN None
                            ELSE IF ev[m] = "lifecycle_archived" THEN clock ELSE stamped[m]
BY DEF Commit, RowWritten, StampKept

(* Save writes one row, from scratch.                                      *)
LEMMA SaveRows ==
  ASSUME TypeOK, NEW m \in Memories, NEW now \in Nows, NEW tier \in Tiers,
         NEW pinned \in BOOLEAN, NEW importance \in Importances, NEW source \in Sources,
         Save(m, now, tier, pinned, importance, source)
  PROVE  OnlyRow(m)
<1> DEFINE row == [tier |-> tier, pinned |-> pinned, importance |-> importance,
                   source |-> source, createdAt |-> now, updatedAt |-> now,
                   lastAccessedAt |-> None, archivedAt |-> None, deletedAt |-> None]
           new == [x \in {m} |-> row]
           ev == [x \in {m} |-> "created"]
<1>1. Commit(new, ev) /\ UNCHANGED accesses /\ ~Saved(m)
  BY DEF Save
<1>2. row \in Item
  BY NowsTyped DEF TypeOK, Item, Stamp, Time
<1>3. row.createdAt = now /\ row.updatedAt = now /\ row.lastAccessedAt = None
        /\ row.archivedAt = None /\ row.deletedAt = None
  OBVIOUS
<1>4. DOMAIN new = {m} /\ DOMAIN ev = {m} /\ new[m] = row /\ ev[m] = "created"
  OBVIOUS
<1> HIDE DEF row, new, ev
<1>5. RowWritten(m, row) /\ StampKept(m, row) /\ event'[m] = "created"
  BY <1>1, <1>4, CommitHere
<1>6. RowCreated(m)
  BY <1>1, <1>2, <1>3, <1>5 DEF RowCreated
<1>7. \A n \in Memories \ {m} : RowKept(n)
  BY <1>1, <1>4, CommitElsewhere
<1> QED BY <1>6, <1>7 DEF OnlyRow, RowStep

(* Get writes one row, with or without a promotion.                        *)
LEMMA GetRows ==
  ASSUME TypeOK, NEW m \in Memories, NEW now \in Nows, Get(m, now)
  PROVE  OnlyRow(m)
<1> DEFINE log == Append(accesses[m], now)
           rise == Promotes(ReadRow(m, now), log, now)
           row == IF rise THEN Promote(ReadRow(m, now), now) ELSE ReadRow(m, now)
           new == [x \in {m} |-> row]
           ev == [x \in IF rise THEN {m} ELSE {} |-> "lifecycle_promoted"]
<1>1. Commit(new, ev) /\ Visible(m) /\ accesses' = [accesses EXCEPT ![m] = log]
  BY DEF Get, ReadRow
<1>2. accesses'[m] = log /\ \A n \in Memories \ {m} : accesses'[n] = accesses[n]
  BY <1>1 DEF TypeOK
<1>3. DOMAIN new = {m} /\ new[m] = row
  OBVIOUS
<1>4. rise => DOMAIN ev = {m} /\ ev[m] = "lifecycle_promoted"
  OBVIOUS
<1>5. ~rise => DOMAIN ev = {}
  OBVIOUS
<1>6. RowStep(m)
  <2>1. CASE rise
    <3>1. row = Promote(ReadRow(m, now), now)
      BY <2>1
    <3> HIDE DEF new, ev
    <3>2. RowWritten(m, row) /\ StampKept(m, row) /\ event'[m] = "lifecycle_promoted"
      BY <1>1, <1>3, <1>4, <2>1, CommitHere
    <3> QED BY <1>1, <1>2, <2>1, <3>1, <3>2 DEF RowReadAndPromoted, RowStep
  <2>2. CASE ~rise
    <3>1. row = ReadRow(m, now)
      BY <2>2
    <3> HIDE DEF new, ev
    <3>2. RowWritten(m, row) /\ StampKept(m, row) /\ event'[m] = event[m]
      BY <1>1, <1>3, <1>5, <2>2, CommitHere
    <3> QED BY <1>1, <1>2, <3>1, <3>2 DEF RowRead, RowStep
  <2> QED BY <2>1, <2>2
<1>7. \A n \in Memories \ {m} : RowKept(n)
  <2> HIDE DEF new, ev, rise, log
  <2>1. \A n \in Memories \ {m} : n \notin DOMAIN new /\ n \notin DOMAIN ev
    BY <1>3, <1>4, <1>5
  <2> QED BY <1>1, <1>2, <2>1, CommitElsewhere
<1> QED BY <1>6, <1>7 DEF OnlyRow, RowStep

(* Update, Pin and Delete share one argument.                              *)
LEMMA EditRows ==
  ASSUME TypeOK, NEW m \in Memories, Visible(m), NEW now \in Nows,
         NEW it \in Item, NEW kind \in {"updated", "pinned", "deleted"},
         Commit([x \in {m} |-> it], [x \in {m} |-> kind]), UNCHANGED accesses,
         it.createdAt = items[m].createdAt, it.lastAccessedAt = items[m].lastAccessedAt,
         it.archivedAt = items[m].archivedAt, it.updatedAt = now,
         kind # "deleted" => it.deletedAt = None,
         kind = "deleted" => it.deletedAt = now,
         kind # "updated" => it.tier = items[m].tier
  PROVE  OnlyRow(m)
<1> DEFINE new == [x \in {m} |-> it]
           ev == [x \in {m} |-> kind]
<1>1. DOMAIN new = {m} /\ DOMAIN ev = {m} /\ new[m] = it /\ ev[m] = kind
  OBVIOUS
<1>2. Commit(new, ev)
  OBVIOUS
<1> HIDE DEF new, ev
<1>3. RowWritten(m, it) /\ StampKept(m, it) /\ event'[m] = kind
  BY <1>1, <1>2, CommitHere
<1>4. RowEdited(m)
  BY <1>3 DEF RowEdited
<1>5. \A n \in Memories \ {m} : RowKept(n)
  BY <1>1, <1>2, CommitElsewhere
<1> QED BY <1>4, <1>5 DEF OnlyRow, RowStep

(* Every client operation writes one row.                                  *)
LEMMA ClientRows ==
  ASSUME TypeOK, NEW m \in Memories, Client(m)
  PROVE  OnlyRow(m)
<1>1. CASE \E now \in Nows, tier \in ClientTiers, pinned \in BOOLEAN, importance \in Importances,
              source \in Sources : Save(m, now, tier, pinned, importance, source)
  BY <1>1, SaveRows, LifecycleAssumption
<1>2. ASSUME Visible(m), NEW now \in ClientNows(m),
             \/ Get(m, now)
             \/ \E tier \in ClientTiers \cup {items[m].tier}, pinned \in BOOLEAN,
                    importance \in Importances, source \in Sources :
                   Update(m, now, tier, pinned, importance, source)
             \/ \E pinned \in BOOLEAN : Pin(m, now, pinned)
             \/ Delete(m, now)
      PROVE  OnlyRow(m)
  <2>1. now \in Nows /\ now \in Nat
    BY <1>2, NowsTyped DEF ClientNows, TypeOK, Time
  <2>2. items[m] \in Item /\ items[m].deletedAt = None
    BY <1>2, VisibleIsItem DEF Visible
  <2>3. CASE Get(m, now)
    BY <2>1, <2>3, GetRows
  <2>4. ASSUME NEW tier \in ClientTiers \cup {items[m].tier}, NEW pinned \in BOOLEAN,
               NEW importance \in Importances, NEW source \in Sources,
               Update(m, now, tier, pinned, importance, source)
        PROVE  OnlyRow(m)
    <3> DEFINE it == [items[m] EXCEPT !.tier = tier, !.pinned = pinned, !.importance = importance,
                                      !.source = source, !.updatedAt = now]
    <3>1. tier \in Tiers
      BY <2>2, <2>4, LifecycleAssumption DEF Item
    <3>2. it \in Item
      BY <2>1, <2>2, <2>4, <3>1 DEF Item, Time
    <3>3. /\ it.createdAt = items[m].createdAt /\ it.lastAccessedAt = items[m].lastAccessedAt
          /\ it.archivedAt = items[m].archivedAt /\ it.updatedAt = now /\ it.deletedAt = None
      BY <2>2 DEF Item
    <3>4. Commit([x \in {m} |-> it], [x \in {m} |-> "updated"]) /\ UNCHANGED accesses
      BY <2>4 DEF Update
    <3> HIDE DEF it
    <3> QED BY <1>2, <2>1, <3>2, <3>3, <3>4, EditRows
  <2>5. ASSUME NEW pinned \in BOOLEAN, Pin(m, now, pinned)
        PROVE  OnlyRow(m)
    <3> DEFINE it == [items[m] EXCEPT !.pinned = pinned, !.updatedAt = now]
    <3>1. it \in Item
      BY <2>1, <2>2, <2>5 DEF Item, Time
    <3>2. /\ it.createdAt = items[m].createdAt /\ it.lastAccessedAt = items[m].lastAccessedAt
          /\ it.archivedAt = items[m].archivedAt /\ it.updatedAt = now /\ it.deletedAt = None
          /\ it.tier = items[m].tier
      BY <2>2 DEF Item
    <3>3. Commit([x \in {m} |-> it], [x \in {m} |-> "pinned"]) /\ UNCHANGED accesses
      BY <2>5 DEF Pin
    <3> HIDE DEF it
    <3> QED BY <1>2, <2>1, <3>1, <3>2, <3>3, EditRows
  <2>6. CASE Delete(m, now)
    <3> DEFINE it == [items[m] EXCEPT !.deletedAt = now, !.updatedAt = now]
    <3>1. it \in Item
      BY <2>1, <2>2 DEF Item, Time, Stamp
    <3>2. /\ it.createdAt = items[m].createdAt /\ it.lastAccessedAt = items[m].lastAccessedAt
          /\ it.archivedAt = items[m].archivedAt /\ it.updatedAt = now /\ it.deletedAt = now
          /\ it.tier = items[m].tier
      BY <2>2 DEF Item
    <3>3. Commit([x \in {m} |-> it], [x \in {m} |-> "deleted"]) /\ UNCHANGED accesses
      BY <2>6 DEF Delete
    <3> HIDE DEF it
    <3> QED BY <1>2, <2>1, <3>1, <3>2, <3>3, EditRows
  <2> QED BY <1>2, <2>3, <2>4, <2>5, <2>6
<1> QED BY <1>1, <1>2 DEF Client

(* A run treats each row of its batch by its own verdict.                  *)
LEMMA SweepRows ==
  ASSUME TypeOK, NEW now \in Nows, RunLifecycle(now)
  PROVE  \A n \in Memories : RowKept(n) \/ RowSwept(n)
<1>1. PICK verdict \in Evaluations(now) :
         /\ Commit([m \in {m \in DOMAIN verdict : verdict[m] # "none"} |->
                       Apply(items[m], verdict[m], now)],
                   [m \in {m \in DOMAIN verdict : verdict[m] # "none"} |-> verdict[m]])
         /\ UNCHANGED accesses
  BY DEF RunLifecycle
<1>2. /\ \A m \in DOMAIN verdict :
            m \in Memories /\ Visible(m) /\ verdict[m] = Verdict(items[m], accesses[m], now)
  BY <1>1 DEF Evaluations, Batches
<1> DEFINE changed == {m \in DOMAIN verdict : verdict[m] # "none"}
           new == [m \in changed |-> Apply(items[m], verdict[m], now)]
           ev == [m \in changed |-> verdict[m]]
<1>3. DOMAIN new = changed /\ DOMAIN ev = changed
  OBVIOUS
<1>4. \A n \in changed : new[n] = Apply(items[n], verdict[n], now) /\ ev[n] = verdict[n]
  OBVIOUS
<1>5. Commit(new, ev)
  BY <1>1
<1> HIDE DEF new, ev
<1>6. ASSUME NEW n \in Memories, n \in changed
      PROVE  RowSwept(n)
  <2>1. /\ Visible(n) /\ verdict[n] # "none" /\ verdict[n] = Verdict(items[n], accesses[n], now)
    BY <1>2, <1>6
  <2>2. /\ RowWritten(n, new[n]) /\ event'[n] = ev[n]
        /\ stamped'[n] = IF new[n].archivedAt = None THEN None
                         ELSE IF ev[n] = "lifecycle_archived" THEN clock ELSE stamped[n]
    BY <1>3, <1>5, <1>6, CommitHere
  <2> HIDE DEF changed
  <2> QED BY <1>1, <1>4, <1>6, <2>1, <2>2 DEF RowSwept
<1>7. ASSUME NEW n \in Memories, n \notin changed
      PROVE  RowKept(n)
  <2> HIDE DEF changed
  <2> QED BY <1>1, <1>3, <1>5, <1>7, CommitElsewhere
<1> QED BY <1>6, <1>7

(* Every step leaves functions over Memories and does not turn time back.  *)
NextShape ==
  /\ clock' \in Nat /\ clock <= clock'
  /\ items' = [m \in Memories |-> items'[m]]
  /\ accesses' = [m \in Memories |-> accesses'[m]]
  /\ event' = [m \in Memories |-> event'[m]]
  /\ touched' = [m \in Memories |-> touched'[m]]
  /\ stay' = [m \in Memories |-> stay'[m]]
  /\ stamped' = [m \in Memories |-> stamped'[m]]

(* Commit leaves functions over Memories.                                  *)
LEMMA CommitShape ==
  ASSUME TypeOK, NEW new, NEW ev, Commit(new, ev),
         accesses' = [m \in Memories |-> accesses'[m]]
  PROVE  NextShape
BY DEF Commit, NextShape, TypeOK, Time

(* So does every client operation.                                         *)
LEMMA ClientShape ==
  ASSUME TypeOK, NEW m \in Memories, Client(m)
  PROVE  NextShape
<1>1. \E new, ev : Commit(new, ev)
  BY DEF Client, Save, Get, Update, Pin, Delete
<1>2. UNCHANGED accesses \/ \E log : accesses' = [accesses EXCEPT ![m] = log]
  BY DEF Client, Save, Get, Update, Pin, Delete
<1>3. accesses' = [n \in Memories |-> accesses'[n]]
  BY <1>2 DEF TypeOK
<1> QED BY <1>1, <1>3, CommitShape

(* So does a run.                                                          *)
LEMMA SweepShape ==
  ASSUME TypeOK, Sweep
  PROVE  NextShape
<1>1. UNCHANGED accesses /\ \E new, ev : Commit(new, ev)
  BY DEF Sweep, RunLifecycle
<1>2. accesses' = [n \in Memories |-> accesses'[n]]
  BY <1>1 DEF TypeOK
<1> QED BY <1>1, <1>2, CommitShape

(* A tick or a stutter writes no row.                                      *)
LEMMA QuietStep ==
  ASSUME TypeOK, Tick \/ UNCHANGED vars
  PROVE  NextShape /\ \A m \in Memories : RowKept(m)
BY DEF Tick, vars, NextShape, RowKept, TypeOK, Time

(* Every step, seen from one row: the row is written in one of the known   *)
(* ways, or kept.                                                          *)
LEMMA RowSteps ==
  ASSUME TypeOK, [Next]_vars
  PROVE  NextShape /\ \A m \in Memories : RowStep(m)
<1>1. CASE \E m \in Memories : Client(m)
  BY <1>1, ClientRows, ClientShape DEF OnlyRow, RowStep
<1>2. CASE Sweep
  BY <1>2, SweepRows, SweepShape DEF Sweep, RowStep
<1>3. CASE Tick \/ UNCHANGED vars
  BY <1>3, QuietStep DEF RowStep
<1> QED BY <1>1, <1>2, <1>3 DEF Next

-----------------------------------------------------------------------------
(* Type correctness.                                                       *)

(* The row a Get has stamped is a row.                                     *)
LEMMA ReadRowTyped ==
  ASSUME TypeOK, NEW m \in Memories, Visible(m), NEW now \in Nat
  PROVE  ReadRow(m, now) \in Item
BY VisibleIsItem DEF ReadRow, Item, Stamp, Time

(* The tier a Get promotes from has a promotion.                           *)
LEMMA PromoteTyped ==
  ASSUME NEW it \in Item, NEW acc, NEW now \in Nat, Promotes(it, acc, now)
  PROVE  Promote(it, now) \in Item
<1>1. Promotion[it.tier] \in Tiers
  BY PromotionSteps, Zenon DEF Promotes, Tiers
<1> QED BY <1>1 DEF Promote, Item, Stamp, Time

(* A row that is written stays a row.                                      *)
LEMMA RowTyped ==
  ASSUME TypeOK, NEW m \in Memories, RowStep(m)
  PROVE  /\ items'[m] \in Item \cup {Unsaved}
         /\ accesses'[m] \in Seq(Time)
         /\ event'[m] \in Events
         /\ touched'[m] \in Time
         /\ stay'[m] \in Stamp
         /\ stamped'[m] \in Stamp
<1>1. /\ clock \in Nat /\ items[m] \in Item \cup {Unsaved} /\ accesses[m] \in Seq(Time)
      /\ event[m] \in Events /\ touched[m] \in Time /\ stay[m] \in Stamp /\ stamped[m] \in Stamp
  BY DEF TypeOK, Time
<1>2. \A now \in Nows : now \in Nat
  BY <1>1, NowsTyped
<1>3. CASE RowKept(m)
  BY <1>1, <1>3 DEF RowKept
<1>4. CASE RowCreated(m)
  BY <1>1, <1>4 DEF RowCreated, RowWritten, StampKept, Events, Stamp, Time
<1>5. CASE RowRead(m)
  BY <1>1, <1>2, <1>5, ReadRowTyped DEF RowRead, RowWritten, StampKept, Stamp, Time
<1>6. CASE RowReadAndPromoted(m)
  BY <1>1, <1>2, <1>6, ReadRowTyped, PromoteTyped
     DEF RowReadAndPromoted, RowWritten, StampKept, Events, LifecycleEvents, Stamp, Time
<1>7. CASE RowEdited(m)
  BY <1>1, <1>7 DEF RowEdited, RowWritten, StampKept, Events, Stamp, Time
<1>8. CASE RowSwept(m)
  <2>1. PICK now \in Nows :
          LET v == Verdict(items[m], accesses[m], now)
              it == Apply(items[m], v, now)
          IN /\ Visible(m) /\ v # "none" /\ RowWritten(m, it) /\ event'[m] = v
             /\ stamped'[m] = IF it.archivedAt = None THEN None
                              ELSE IF v = "lifecycle_archived" THEN clock ELSE stamped[m]
             /\ UNCHANGED accesses[m]
    BY <1>8 DEF RowSwept
  <2>2. Apply(items[m], Verdict(items[m], accesses[m], now), now) \in Item
    BY <1>2, <2>1, VisibleIsItem, ApplyTyped
  <2>3. event'[m] \in Events
    BY <2>1, VerdictMeaning DEF Events
  <2> QED BY <1>1, <2>1, <2>2, <2>3 DEF RowWritten, Stamp, Time
<1> QED BY <1>3, <1>4, <1>5, <1>6, <1>7, <1>8 DEF RowStep

(* Every variable keeps its type: rows stay rows, the log holds times.     *)
THEOREM TypeCorrect == Spec => []TypeOK
<1>1. Init => TypeOK
  BY DEF Init, TypeOK, Events, Stamp, Time
<1>2. TypeOK /\ [Next]_vars => TypeOK'
  BY RowSteps, RowTyped DEF NextShape, TypeOK, Time
<1> QED BY <1>1, <1>2, PTL DEF Spec

-----------------------------------------------------------------------------
(* The inductive invariant: types, and stamps that track the commits.      *)

IInv == TypeOK /\ StampsTrackCommits

(* A row written now whose archived_at is the old one or NULL.             *)
LEMMA StampsWritten ==
  ASSUME TypeOK, NEW m \in Memories, Saved(m) => StampsTrack(m), NEW now \in Nows,
         NEW it \in Item, RowWritten(m, it), StampKept(m, it),
         it.updatedAt = now, it.createdAt <= clock,
         it.lastAccessedAt # None => it.lastAccessedAt <= clock,
         it.archivedAt # None => Saved(m) /\ it.archivedAt = items[m].archivedAt
  PROVE  StampsTrack(m)'
<1>1. clock \in Nat /\ now \in Nat /\ now <= clock /\ now >= clock - MaxLag /\ MaxLag \in Nat
  BY NowsTyped, LifecycleAssumption DEF TypeOK, Time
<1>2. items'[m] = it /\ touched'[m] = clock /\ clock' = clock
  BY DEF RowWritten
<1>3. \A t \in Activity(it) : t <= clock
  BY <1>1 DEF Activity
<1>4. it.archivedAt # None =>
        /\ stamped'[m] = stamped[m] /\ stamped[m] # None /\ stamped[m] <= clock
        /\ it.archivedAt <= stamped[m] /\ it.archivedAt >= stamped[m] - MaxLag
  BY DEF StampKept, StampsTrack
<1> QED BY <1>1, <1>2, <1>3, <1>4 DEF StampsTrack

(* The stamps of every row stay within MaxLag of its commits.              *)
LEMMA RowStamps ==
  ASSUME IInv, NextShape, NEW m \in Memories, RowStep(m), Saved(m)'
  PROVE  StampsTrack(m)'
<1>1. /\ TypeOK /\ clock \in Nat /\ clock' \in Nat /\ clock <= clock' /\ MaxLag \in Nat
      /\ Saved(m) => StampsTrack(m)
  BY LifecycleAssumption DEF IInv, TypeOK, StampsTrackCommits, NextShape, Time
<1>2. \A now \in Nows : now \in Nat /\ now <= clock /\ now >= clock - MaxLag
  BY <1>1, NowsTyped
<1>3. Visible(m) => /\ items[m] \in Item /\ Saved(m) /\ items[m].createdAt <= clock
                    /\ items[m].lastAccessedAt # None => items[m].lastAccessedAt <= clock
  <2> SUFFICES ASSUME Visible(m)
               PROVE  /\ items[m] \in Item /\ Saved(m) /\ items[m].createdAt <= clock
                      /\ items[m].lastAccessedAt # None => items[m].lastAccessedAt <= clock
    OBVIOUS
  <2>1. items[m] \in Item /\ Saved(m)
    BY <1>1, VisibleIsItem DEF Visible
  <2>2. items[m].createdAt # None
    BY <2>1, LifecycleAssumption DEF Item, Time
  <2> QED BY <1>1, <2>1, <2>2 DEF StampsTrack, Activity
<1>4. CASE RowKept(m)
  <2>1. Saved(m) /\ items'[m] = items[m] /\ touched'[m] = touched[m] /\ stamped'[m] = stamped[m]
    BY <1>4 DEF RowKept, Saved
  <2>2. items[m] \in Item /\ touched[m] \in Nat /\ stamped[m] \in Nat \cup {None}
    BY <1>1, <2>1 DEF TypeOK, Saved, Time, Stamp
  <2>3. \A t \in Activity(items[m]) : t \in Nat
    BY <2>2, LifecycleAssumption DEF Activity, Item, Time, Stamp
  <2> QED BY <1>1, <2>1, <2>2, <2>3 DEF StampsTrack
<1>5. CASE RowCreated(m)
  BY <1>1, <1>2, <1>5, StampsWritten DEF RowCreated
<1>6. ASSUME NEW now \in Nows, Visible(m)
      PROVE  LET it == ReadRow(m, now)
             IN it \in Item /\ it.updatedAt = now /\ it.createdAt <= clock
                  /\ it.lastAccessedAt <= clock /\ it.archivedAt = items[m].archivedAt
  <2>1. ReadRow(m, now) \in Item
    BY <1>1, <1>2, <1>6, ReadRowTyped
  <2> QED BY <1>2, <1>3, <1>6, <2>1 DEF ReadRow, Item
<1>7. CASE RowRead(m)
  <2>1. PICK now \in Nows :
          /\ Visible(m)
          /\ RowWritten(m, ReadRow(m, now)) /\ StampKept(m, ReadRow(m, now))
    BY <1>7 DEF RowRead
  <2> QED BY <1>1, <1>3, <1>6, <2>1, StampsWritten
<1>8. CASE RowReadAndPromoted(m)
  <2>1. PICK now \in Nows :
          /\ Visible(m)
          /\ Promotes(ReadRow(m, now), Append(accesses[m], now), now)
          /\ RowWritten(m, Promote(ReadRow(m, now), now))
          /\ StampKept(m, Promote(ReadRow(m, now), now))
    BY <1>8 DEF RowReadAndPromoted
  <2> DEFINE old == ReadRow(m, now)
             it == Promote(old, now)
  <2>2. it \in Item
    BY <1>2, <1>6, <2>1, PromoteTyped
  <2>3. /\ it.updatedAt = now /\ it.createdAt = old.createdAt
        /\ it.lastAccessedAt = old.lastAccessedAt
        /\ it.archivedAt # None => it.archivedAt = old.archivedAt
    BY <1>6, <2>1 DEF Promote, Item
  <2> HIDE DEF it
  <2> QED BY <1>1, <1>3, <1>6, <2>1, <2>2, <2>3, StampsWritten DEF it
<1>9. CASE RowEdited(m)
  BY <1>1, <1>2, <1>3, <1>9, StampsWritten DEF RowEdited
<1>10. CASE RowSwept(m)
  <2> DEFINE v(now) == Verdict(items[m], accesses[m], now)
             it(now) == Apply(items[m], v(now), now)
  <2>1. PICK now \in Nows :
          /\ Visible(m) /\ v(now) # "none" /\ RowWritten(m, it(now))
          /\ stamped'[m] = IF it(now).archivedAt = None THEN None
                           ELSE IF v(now) = "lifecycle_archived" THEN clock ELSE stamped[m]
    BY <1>10 DEF RowSwept
  <2>2. it(now) \in Item /\ items[m] \in Item
    BY <1>2, <1>3, <2>1, ApplyTyped
  <2>3. v(now) \in LifecycleEvents
    BY <2>1, VerdictMeaning
  <2>4. /\ it(now).updatedAt = now /\ it(now).createdAt = items[m].createdAt
        /\ it(now).lastAccessedAt = items[m].lastAccessedAt
        /\ v(now) # "lifecycle_archived" /\ it(now).archivedAt # None =>
             it(now).archivedAt = items[m].archivedAt
        /\ v(now) = "lifecycle_archived" => it(now).archivedAt = now
    BY <2>2, <2>3 DEF Apply, Promote, Archive, Demote, Expire, Item, LifecycleEvents
  <2> HIDE DEF v, it
  <2>5. CASE v(now) # "lifecycle_archived"
    <3>1. StampKept(m, it(now))
      BY <2>1, <2>5 DEF StampKept
    <3> QED BY <1>1, <1>3, <2>1, <2>2, <2>4, <2>5, <3>1, StampsWritten
  <2>6. CASE v(now) = "lifecycle_archived"
    <3>1. /\ items'[m] = it(now) /\ touched'[m] = clock /\ clock' = clock
          /\ now # None /\ stamped'[m] = clock /\ clock # None
      BY <1>1, <1>2, <2>1, <2>4, <2>6, LifecycleAssumption DEF RowWritten
    <3>2. \A t \in Activity(it(now)) : t <= clock
      BY <1>2, <1>3, <2>1, <2>4 DEF Activity
    <3> QED BY <1>1, <1>2, <2>4, <2>6, <3>1, <3>2 DEF StampsTrack
  <2> QED BY <2>5, <2>6
<1> QED BY <1>4, <1>5, <1>7, <1>8, <1>9, <1>10 DEF RowStep

(* Types and stamps are inductive together.                                *)
LEMMA Inductive == IInv /\ [Next]_vars => IInv'
<1> SUFFICES ASSUME IInv, [Next]_vars
             PROVE  IInv'
  OBVIOUS
<1>1. NextShape /\ \A m \in Memories : RowStep(m)
  BY RowSteps DEF IInv
<1>2. TypeOK'
  BY <1>1, RowTyped DEF IInv, NextShape, TypeOK, Time
<1>3. \A m \in Memories : Saved(m)' => StampsTrack(m)'
  BY <1>1, RowStamps
<1> QED BY <1>2, <1>3 DEF IInv, StampsTrackCommits

(* So they hold in every reachable state.                                  *)
LEMMA InvariantHolds == Spec => []IInv
<1>1. Init => IInv
  BY DEF Init, IInv, TypeOK, StampsTrackCommits, Saved, Events, Stamp, Time
<1> QED BY <1>1, Inductive, PTL DEF Spec

(* updated_at lags the commit that wrote it by at most MaxLag, whatever    *)
(* the order in which operations read the clock and commit.                *)
THEOREM StampsTrackCommitsHolds == Spec => []StampsTrackCommits
<1>1. IInv => StampsTrackCommits
  BY DEF IInv
<1> QED BY <1>1, InvariantHolds, PTL

-----------------------------------------------------------------------------
(* What a step may never do.                                               *)

(* Only a run lowers a row, on a verdict that was due and not protected.   *)
LEMMA LoweringIsDue ==
  ASSUME TypeOK, NEW m \in Memories, RowStep(m), LoweringStep(m)
  PROVE  /\ items[m] \in Item /\ Saved(m)
         /\ \E now \in Nows :
              /\ ~Protected(items[m])
              /\ items'[m].deletedAt = None => IdleDue(items[m], now)
              /\ items'[m].deletedAt # None => RetentionDue(items[m], now)
<1>1. /\ Visible(m) /\ items[m] \in Item /\ Saved(m) /\ items[m].deletedAt = None
      /\ event'[m] \in LifecycleEvents \ {"lifecycle_promoted"}
      /\ items'[m] # items[m]
  BY VisibleIsItem DEF LoweringStep, LifecycleStep, Visible
<1>2. ~RowKept(m) /\ ~RowCreated(m) /\ ~RowReadAndPromoted(m) /\ ~RowEdited(m)
  BY <1>1 DEF RowKept, RowCreated, RowReadAndPromoted, RowEdited, Visible, LifecycleEvents
<1>3. ~RowRead(m)
  <2> SUFFICES ASSUME NEW now \in Nows, items'[m] = ReadRow(m, now)
               PROVE  FALSE
    BY DEF RowRead, RowWritten
  <2>1. items'[m].tier = items[m].tier /\ items'[m].deletedAt = items[m].deletedAt
    BY <1>1 DEF ReadRow, Item
  <2> QED BY <2>1 DEF LoweringStep, LifecycleStep
<1>4. RowSwept(m)
  BY <1>2, <1>3 DEF RowStep
<1>5. PICK now \in Nows :
        LET v == Verdict(items[m], accesses[m], now)
        IN v # "none" /\ items'[m] = Apply(items[m], v, now) /\ event'[m] = v
  BY <1>4 DEF RowSwept, RowWritten
<1> DEFINE v == Verdict(items[m], accesses[m], now)
<1>6. v \in {"lifecycle_archived", "lifecycle_demoted", "lifecycle_deleted"}
  BY <1>1, <1>5 DEF LifecycleEvents
<1>7. /\ v = "lifecycle_deleted" => RetentionDue(items[m], now) /\ ~Protected(items[m])
      /\ v # "lifecycle_deleted" => IdleDue(items[m], now) /\ ~Protected(items[m])
  BY <1>6, VerdictMeaning
<1>8. now # None
  BY NowsTyped, LifecycleAssumption DEF TypeOK, Time
<1> HIDE DEF v
<1>9. items'[m].deletedAt = None <=> v # "lifecycle_deleted"
  BY <1>1, <1>5, <1>6, <1>8 DEF v, Apply, Archive, Demote, Expire, Item
<1> QED BY <1>1, <1>7, <1>9

(* No memory is demoted or archived before its tier's idle time has        *)
(* passed since the last commit that wrote it, lag apart.                  *)
THEOREM IdleBeforeDemotionHolds == Spec => IdleBeforeDemotion
<1> DEFINE Guarded(m) ==
      LoweringStep(m) /\ items'[m].deletedAt = None
        => clock - touched[m] >= RulesFor(items[m]).idle[items[m].tier] - MaxLag
<1>1. ASSUME IInv, [Next]_vars, NEW m \in Memories, LoweringStep(m), items'[m].deletedAt = None
      PROVE  clock - touched[m] >= RulesFor(items[m]).idle[items[m].tier] - MaxLag
  <2>1. TypeOK /\ RowStep(m)
    BY <1>1, RowSteps DEF IInv
  <2>2. PICK now \in Nows : IdleDue(items[m], now)
    BY <1>1, <2>1, LoweringIsDue
  <2>3. items[m] \in Item /\ StampsTrack(m)
    BY <1>1, <2>1, LoweringIsDue DEF IInv, StampsTrackCommits
  <2>4. /\ clock \in Nat /\ touched[m] \in Nat /\ MaxLag \in Nat /\ now \in Nat /\ now <= clock
    BY <2>1, NowsTyped, LifecycleAssumption DEF TypeOK, Time
  <2>5. items[m].updatedAt \in Nat /\ items[m].updatedAt \in Activity(items[m])
    BY <2>3, LifecycleAssumption DEF Item, Time, Activity
  <2>6. RulesFor(items[m]).idle[items[m].tier] \in Nat
    BY <2>2, RulesTyped DEF IdleDue, Rules
  <2>7. now >= items[m].updatedAt + RulesFor(items[m]).idle[items[m].tier]
    BY <2>2, <2>5 DEF IdleDue
  <2>8. items[m].updatedAt >= touched[m] - MaxLag
    BY <2>3 DEF StampsTrack
  <2> QED BY <2>4, <2>5, <2>6, <2>7, <2>8
<1>2. IInv /\ [Next]_vars => [\A m \in Memories : Guarded(m)]_vars
  BY <1>1
<1> QED BY <1>2, InvariantHolds, PTL DEF Spec, IdleBeforeDemotion

(* Retention never deletes before delete_archived_after has passed since   *)
(* the lifecycle stamped archived_at, lag apart.                           *)
THEOREM RetentionAfterArchivalHolds == Spec => RetentionAfterArchival
<1> DEFINE Guarded(m) ==
      LoweringStep(m) /\ items'[m].deletedAt # None
        => /\ stamped[m] # None
           /\ clock - stamped[m] >= RulesFor(items[m]).deleteAfter - MaxLag
<1>1. ASSUME IInv, [Next]_vars, NEW m \in Memories, LoweringStep(m), items'[m].deletedAt # None
      PROVE  /\ stamped[m] # None
             /\ clock - stamped[m] >= RulesFor(items[m]).deleteAfter - MaxLag
  <2>1. TypeOK /\ RowStep(m)
    BY <1>1, RowSteps DEF IInv
  <2>2. PICK now \in Nows : RetentionDue(items[m], now)
    BY <1>1, <2>1, LoweringIsDue
  <2>3. items[m] \in Item /\ StampsTrack(m)
    BY <1>1, <2>1, LoweringIsDue DEF IInv, StampsTrackCommits
  <2>4. /\ clock \in Nat /\ stamped[m] \in Nat \cup {None} /\ MaxLag \in Nat
        /\ now \in Nat /\ now <= clock
    BY <2>1, NowsTyped, LifecycleAssumption DEF TypeOK, Time, Stamp
  <2>5. /\ items[m].archivedAt \in Nat /\ RulesFor(items[m]).deleteAfter \in Nat
        /\ now >= items[m].archivedAt + RulesFor(items[m]).deleteAfter
    BY <2>2, <2>3, RulesTyped DEF RetentionDue, Item, Stamp, Time, Rules
  <2>6. stamped[m] # None /\ items[m].archivedAt >= stamped[m] - MaxLag
    BY <2>2, <2>3 DEF StampsTrack, RetentionDue
  <2> QED BY <2>4, <2>5, <2>6
<1>2. IInv /\ [Next]_vars => [\A m \in Memories : Guarded(m)]_vars
  BY <1>1
<1> QED BY <1>2, InvariantHolds, PTL DEF Spec, RetentionAfterArchival

(* A deleted memory is left alone by every operation.                      *)
THEOREM DeletedIsFinalHolds == Spec => DeletedIsFinal
<1> DEFINE Final(m) ==
      Saved(m) /\ ~Visible(m) => UNCHANGED <<items[m], accesses[m], event[m]>>
<1>1. ASSUME TypeOK, [Next]_vars, NEW m \in Memories, Saved(m), ~Visible(m)
      PROVE  UNCHANGED <<items[m], accesses[m], event[m]>>
  BY <1>1, RowSteps
     DEF RowStep, RowKept, RowCreated, RowRead, RowReadAndPromoted, RowEdited, RowSwept
<1>2. TypeOK /\ [Next]_vars => [\A m \in Memories : Final(m)]_vars
  BY <1>1
<1> QED BY <1>2, TypeCorrect, PTL DEF Spec, DeletedIsFinal

(* A pinned memory is lowered, and any memory deleted, by the lifecycle    *)
(* only under an enabled policy that covers it and says so.                *)
THEOREM OnlyPoliciesLiftProtectionHolds == Spec => OnlyPoliciesLiftProtection
<1> DEFINE Covering(it) == {i \in 1..Len(Policies) : Matches(Policies[i], it)}
           Allowed(m) ==
             LoweringStep(m) =>
               LET covering == Covering(items[m])
               IN /\ items[m].pinned =>
                       \E i \in covering : Policies[i].rules.protectPinned = FALSE
                  /\ items'[m].deletedAt # None =>
                       \E i \in covering : Policies[i].rules.deleteAfter > 0
<1>1. ASSUME NEW it
      PROVE  \/ RulesFor(it).protectPinned = TRUE /\ RulesFor(it).deleteAfter = 0
             \/ \E i \in Covering(it) :
                  RulesFor(it) = MergeRules(DefaultRules, Policies[i].rules)
  <2>1. CASE Covering(it) = {}
    BY <2>1 DEF RulesFor, DefaultRules
  <2>2. CASE Covering(it) # {}
    <3> DEFINE first == CHOOSE i \in Covering(it) : \A j \in Covering(it) : i <= j
    <3>1. first \in Covering(it)
      BY <2>2, FirstInScope
    <3>2. RulesFor(it) = MergeRules(DefaultRules, Policies[first].rules)
      BY <2>2 DEF RulesFor
    <3> QED BY <3>1, <3>2
  <2> QED BY <2>1, <2>2
<1>2. ASSUME NEW i \in 1..Len(Policies)
      PROVE  LET rules == MergeRules(DefaultRules, Policies[i].rules)
             IN /\ rules.protectPinned # TRUE => Policies[i].rules.protectPinned = FALSE
                /\ rules.deleteAfter > 0 => Policies[i].rules.deleteAfter > 0
  <2>0. Policies[i] \in Policy
    BY LifecycleAssumption
  <2>1. Policies[i].rules \in Overrides
    BY <2>0 DEF Policy
  <2>2. /\ Policies[i].rules.deleteAfter \in Nat
        /\ Policies[i].rules.protectPinned \in BOOLEAN \cup {Inherit}
    BY <2>1 DEF Overrides
  <2>3. DefaultRules.protectPinned = TRUE /\ DefaultRules.deleteAfter = 0
    BY DEF DefaultRules
  <2>4. days(0) = 0
    BY LifecycleAssumption DEF days
  <2> DEFINE o == Policies[i].rules
  <2>5. MergeRules(DefaultRules, o).protectPinned =
          IF o.protectPinned = Inherit THEN TRUE ELSE o.protectPinned
    BY <2>3 DEF MergeRules
  <2>6. MergeRules(DefaultRules, o).deleteAfter =
          IF days(o.deleteAfter) > 0 THEN days(o.deleteAfter) ELSE 0
    BY <2>3 DEF MergeRules
  <2>7. MergeRules(DefaultRules, o).protectPinned # TRUE => o.protectPinned = FALSE
    BY <2>2, <2>5
  <2>8. MergeRules(DefaultRules, o).deleteAfter > 0 => o.deleteAfter > 0
    <3>1. o.deleteAfter \in Nat
      BY <2>2
    <3>2. o.deleteAfter # 0 => o.deleteAfter > 0
      BY <3>1
    <3> QED BY <2>4, <2>6, <3>2
  <2> QED BY <2>7, <2>8
<1>3. ASSUME TypeOK, [Next]_vars, NEW m \in Memories, LoweringStep(m)
      PROVE  Allowed(m)
  <2>1. PICK now \in Nows :
          /\ ~Protected(items[m])
          /\ items'[m].deletedAt # None => RetentionDue(items[m], now)
    BY <1>3, RowSteps, LoweringIsDue
  <2>2. items[m].pinned => RulesFor(items[m]).protectPinned # TRUE
    BY <2>1 DEF Protected
  <2>3. items'[m].deletedAt # None => RulesFor(items[m]).deleteAfter > 0
    BY <2>1 DEF RetentionDue
  <2>4. CASE RulesFor(items[m]).protectPinned = TRUE /\ RulesFor(items[m]).deleteAfter = 0
    <3>1. ~items[m].pinned
      BY <2>2, <2>4, Zenon
    <3>2. ~(items'[m].deletedAt # None)
      <4>1. RulesFor(items[m]).deleteAfter = 0
        BY <2>4
      <4>2. ~(0 > 0)
        OBVIOUS
      <4> QED BY <2>3, <4>1, <4>2, Zenon
    <3> QED BY <3>1, <3>2, Zenon
  <2>5. ASSUME NEW i \in Covering(items[m]),
               RulesFor(items[m]) = MergeRules(DefaultRules, Policies[i].rules)
        PROVE  Allowed(m)
    <3>1. items[m].pinned => Policies[i].rules.protectPinned = FALSE
      BY <1>2, <2>2, <2>5
    <3>2. items'[m].deletedAt # None => Policies[i].rules.deleteAfter > 0
      BY <1>2, <2>3, <2>5
    <3> QED BY <2>5, <3>1, <3>2
  <2> QED BY <1>1, <2>4, <2>5
<1>4. TypeOK /\ [Next]_vars => [\A m \in Memories : Allowed(m)]_vars
  BY <1>3
<1> QED BY <1>4, TypeCorrect, PTL DEF Spec, OnlyPoliciesLiftProtection

-----------------------------------------------------------------------------
(* The tier ladder.                                                        *)

(* The tier a client sees, "unsaved" or "deleted": the mapping of Ladder.  *)
Rung(m) ==
  IF ~Saved(m) THEN "unsaved" ELSE IF Visible(m) THEN items[m].tier ELSE "deleted"

RungStays(m) == Rung(m)' = Rung(m) /\ event'[m] = event[m]

(* A row that is kept stays on its rung.                                   *)
LEMMA RowKeptStays ==
  ASSUME NEW m \in Memories, RowKept(m)
  PROVE  RungStays(m)
BY DEF RowKept, RungStays, Rung, Saved, Visible

(* What a run does to a row is a move of the lifecycle.                    *)
LEMMA SweptMoves ==
  ASSUME TypeOK, NEW m \in Memories, RowSwept(m)
  PROVE  <<Rung(m), Rung(m)', event'[m]>> \in Ladder!LifecycleMoves
<1>1. PICK now \in Nows :
        LET v == Verdict(items[m], accesses[m], now)
        IN /\ Visible(m) /\ v # "none"
           /\ items'[m] = Apply(items[m], v, now) /\ event'[m] = v
  BY DEF RowSwept, RowWritten
<1> DEFINE v == Verdict(items[m], accesses[m], now)
<1>2. items[m] \in Item /\ Saved(m) /\ items[m].deletedAt = None /\ Rung(m) = items[m].tier
  BY <1>1, VisibleIsItem DEF Visible, Rung
<1>3. now \in Nat /\ now # None
  BY NowsTyped, LifecycleAssumption DEF TypeOK, Time
<1>4. Saved(m)'
  <2>1. items'[m] \in Item
    BY <1>1, <1>2, <1>3, ApplyTyped
  <2> QED BY <2>1 DEF Saved, Unsaved, Item, Tiers
<1>5. v \in LifecycleEvents
  BY <1>1, VerdictMeaning
<1>6. CASE v = "lifecycle_promoted"
  <2>1. items'[m].tier = Promotion[items[m].tier] /\ items'[m].deletedAt = None
    BY <1>1, <1>2, <1>6 DEF Apply, Promote, Item
  <2>2. items[m].tier \in {"archive", "cold", "warm"}
    BY <1>6, VerdictMeaning, PromotionSteps
  <2>3. Rung(m)' = Promotion[items[m].tier]
    BY <1>4, <2>1 DEF Rung, Visible
  <2> QED BY <1>1, <1>2, <1>6, <2>2, <2>3, PromotionSteps, Zenon DEF Ladder!LifecycleMoves
<1>7. CASE v = "lifecycle_archived"
  <2>1. items'[m].tier = "archive" /\ items'[m].deletedAt = None /\ items[m].tier = "cold"
    BY <1>1, <1>2, <1>7, VerdictMeaning DEF Apply, Archive, Item
  <2>2. Rung(m)' = "archive"
    BY <1>4, <2>1 DEF Rung, Visible
  <2> QED BY <1>1, <1>2, <1>7, <2>1, <2>2 DEF Ladder!LifecycleMoves
<1>8. CASE v = "lifecycle_demoted"
  <2>1. items'[m].tier = Demotion[items[m].tier] /\ items'[m].deletedAt = None
    BY <1>1, <1>2, <1>8 DEF Apply, Demote, Item
  <2>2. items[m].tier \in {"working", "hot", "warm"}
    BY <1>8, VerdictMeaning DEF Demotable, Tiers
  <2>3. Rung(m)' = Demotion[items[m].tier]
    BY <1>4, <2>1 DEF Rung, Visible
  <2> QED BY <1>1, <1>2, <1>8, <2>2, <2>3, DemotionSteps, Zenon DEF Ladder!LifecycleMoves
<1>9. CASE v = "lifecycle_deleted"
  <2>1. items'[m].deletedAt = now /\ items[m].tier = "archive"
    BY <1>1, <1>2, <1>9, VerdictMeaning DEF Apply, Expire, Item, RetentionDue
  <2>2. Rung(m)' = "deleted"
    BY <1>3, <1>4, <2>1 DEF Rung, Visible
  <2> QED BY <1>1, <1>2, <1>9, <2>1, <2>2 DEF Ladder!LifecycleMoves
<1> QED BY <1>5, <1>6, <1>7, <1>8, <1>9 DEF LifecycleEvents

(* What a client operation does to its row is a move of the client, of the *)
(* lifecycle (a Get that promotes) or none (a Get that does not).          *)
LEMMA ClientRowMoves ==
  ASSUME TypeOK, NEW m \in Memories, RowCreated(m) \/ RowRead(m) \/ RowReadAndPromoted(m) \/ RowEdited(m)
  PROVE  \/ RungStays(m)
         \/ <<Rung(m), Rung(m)', event'[m]>> \in Ladder!ClientMoves \cup Ladder!LifecycleMoves
<1>1. \A it \in Item : it # Unsaved /\ it.tier \in Tiers
  BY DEF Item, Unsaved, Tiers
<1>2. \A now \in Nows : now \in Nat /\ now # None
  BY NowsTyped, LifecycleAssumption DEF TypeOK, Time
<1>3. Visible(m) => items[m] \in Item /\ Rung(m) = items[m].tier /\ items[m].deletedAt = None
  BY VisibleIsItem DEF Rung, Visible
<1>4. CASE RowCreated(m)
  <2>1. PICK it \in Item : ~Saved(m) /\ it.deletedAt = None /\ items'[m] = it /\ event'[m] = "created"
    BY <1>4 DEF RowCreated, RowWritten
  <2>2. Rung(m) = "unsaved" /\ Rung(m)' = it.tier /\ it.tier \in Tiers
    BY <1>1, <2>1 DEF Rung, Saved, Visible
  <2> QED BY <2>1, <2>2 DEF Ladder!ClientMoves, Ladder!Tiers, Tiers
<1>5. CASE RowRead(m)
  <2>1. PICK now \in Nows : Visible(m) /\ items'[m] = ReadRow(m, now) /\ event'[m] = event[m]
    BY <1>5 DEF RowRead, RowWritten
  <2>2. ReadRow(m, now) \in Item
    BY <1>2, <2>1, ReadRowTyped
  <2>3. items'[m].tier = items[m].tier /\ items'[m].deletedAt = None
    BY <1>3, <2>1 DEF ReadRow, Item
  <2>4. Rung(m)' = items[m].tier
    BY <1>1, <2>1, <2>2, <2>3 DEF Rung, Saved, Visible
  <2> QED BY <1>3, <2>1, <2>4 DEF RungStays
<1>6. CASE RowReadAndPromoted(m)
  <2>1. PICK now \in Nows :
          /\ Visible(m) /\ items'[m] = Promote(ReadRow(m, now), now)
          /\ Promotes(ReadRow(m, now), Append(accesses[m], now), now)
          /\ event'[m] = "lifecycle_promoted"
    BY <1>6 DEF RowReadAndPromoted, RowWritten
  <2>2. ReadRow(m, now) \in Item
    BY <1>2, <2>1, ReadRowTyped
  <2>3. ReadRow(m, now).tier = items[m].tier /\ ReadRow(m, now).deletedAt = None
    BY <1>3, <2>1 DEF ReadRow, Item
  <2>4. Promote(ReadRow(m, now), now) \in Item
    BY <1>2, <2>1, <2>2, PromoteTyped
  <2>5. items[m].tier \in {"archive", "cold", "warm"}
    BY <2>1, <2>3, PromotionSteps DEF Promotes
  <2>6. items'[m].tier = Promotion[items[m].tier] /\ items'[m].deletedAt = None
    BY <2>1, <2>2, <2>3 DEF Promote, Item
  <2>7. Rung(m)' = Promotion[items[m].tier]
    BY <1>1, <2>1, <2>4, <2>6 DEF Rung, Saved, Visible
  <2> QED BY <1>3, <2>1, <2>5, <2>7, PromotionSteps, Zenon DEF Ladder!LifecycleMoves
<1>7. CASE RowEdited(m)
  <2>1. PICK now \in Nows, it \in Item :
          /\ Visible(m) /\ items'[m] = it
          /\ \/ event'[m] \in {"updated", "pinned"} /\ it.deletedAt = None
             \/ event'[m] = "deleted" /\ it.deletedAt = now
          /\ event'[m] \in {"pinned", "deleted"} => it.tier = items[m].tier
    BY <1>7 DEF RowEdited, RowWritten
  <2>2. Saved(m)' /\ it.tier \in Tiers /\ items[m].tier \in Tiers
    BY <1>1, <1>3, <2>1 DEF Saved
  <2>3. CASE event'[m] = "deleted"
    <3>1. Rung(m)' = "deleted"
      BY <1>2, <2>1, <2>2, <2>3 DEF Rung, Visible
    <3> QED BY <1>3, <2>1, <2>2, <2>3, <3>1 DEF Ladder!ClientMoves, Ladder!Tiers, Tiers
  <2>4. CASE event'[m] = "updated"
    <3>1. Rung(m)' = it.tier
      BY <2>1, <2>2, <2>4 DEF Rung, Visible
    <3> QED BY <1>3, <2>1, <2>2, <2>4, <3>1 DEF Ladder!ClientMoves, Ladder!Tiers, Tiers
  <2>5. CASE event'[m] = "pinned"
    <3>1. Rung(m)' = items[m].tier
      BY <2>1, <2>2, <2>5 DEF Rung, Visible
    <3> QED BY <1>3, <2>1, <2>2, <2>5, <3>1 DEF Ladder!ClientMoves, Ladder!Tiers, Tiers
  <2> QED BY <2>1, <2>3, <2>4, <2>5
<1> QED BY <1>4, <1>5, <1>6, <1>7

(* Moves and stays of the mapped state are those of TierLadder.            *)
LEMMA LadderTerms ==
  ASSUME NEW m \in Memories
  PROVE  /\ Ladder!Stays(m) <=> RungStays(m)
         /\ \A S : Ladder!Moves(m, S) <=> <<Rung(m), Rung(m)', event'[m]>> \in S
BY DEF Ladder!Stays, Ladder!Moves, RungStays, Rung

(* The detailed specification implements the documented tier ladder: the   *)
(* lifecycle moves one rung at a time and says which way, deletes from the *)
(* archive only, and a deleted memory stays deleted.                       *)
THEOREM LifecycleImplementsLadder == Spec => LadderSpec
<1>1. Init => Ladder!Init
  BY DEF Init, Ladder!Init, Saved
<1>2. ASSUME TypeOK, [Next]_vars
      PROVE  Ladder!Next
  <2>1. NextShape /\ TypeOK'
    BY <1>2, RowSteps, RowTyped DEF NextShape, TypeOK, Time
  <2>2. \A m \in Memories : (Rung(m) \in Ladder!Rungs)' /\ (event[m] \in Ladder!Causes)'
    <3>1. \A m \in Memories :
            (items[m] \in Item \cup {Unsaved})' /\ (event[m] \in Events)'
      BY <2>1 DEF TypeOK
    <3> QED BY <3>1 DEF Rung, Saved, Visible, Item, Tiers, Events, LifecycleEvents,
                        Ladder!Rungs, Ladder!Tiers, Ladder!Causes
  <2>3. [m \in Memories |-> Rung(m)]' \in [Memories -> Ladder!Rungs]
    BY <2>2
  <2>4. event' \in [Memories -> Ladder!Causes]
    BY <2>1, <2>2 DEF NextShape
  <2>5. Ladder!Lifecycle \/ \E m \in Memories : Ladder!Client(m)
    <3>1. CASE Sweep
      <4>1. \A m \in Memories : RowKept(m) \/ RowSwept(m)
        BY <1>2, <3>1, SweepRows DEF Sweep
      <4> QED BY <1>2, <4>1, RowKeptStays, SweptMoves, LadderTerms DEF Ladder!Lifecycle
    <3>2. ASSUME NEW m \in Memories, Client(m)
          PROVE  Ladder!Lifecycle \/ Ladder!Client(m)
      <4>1. RowStep(m) /\ \A n \in Memories \ {m} : RungStays(n)
        BY <1>2, <3>2, ClientRows, RowKeptStays DEF OnlyRow
      <4>2. \/ RungStays(m)
            \/ <<Rung(m), Rung(m)', event'[m]>> \in Ladder!ClientMoves
            \/ <<Rung(m), Rung(m)', event'[m]>> \in Ladder!LifecycleMoves
        BY <1>2, <4>1, ClientRowMoves, SweptMoves, RowKeptStays DEF RowStep
      <4>3. CASE <<Rung(m), Rung(m)', event'[m]>> \in Ladder!ClientMoves
        BY <4>1, <4>3, LadderTerms DEF Ladder!Client
      <4>4. CASE \/ RungStays(m)
                 \/ <<Rung(m), Rung(m)', event'[m]>> \in Ladder!LifecycleMoves
        BY <4>1, <4>4, LadderTerms DEF Ladder!Lifecycle
      <4> QED BY <4>2, <4>3, <4>4
    <3>3. CASE Tick \/ UNCHANGED vars
      BY <1>2, <3>3, QuietStep, RowKeptStays, LadderTerms DEF Ladder!Lifecycle
    <3> QED BY <1>2, <3>1, <3>2, <3>3 DEF Next
  <2> QED BY <2>3, <2>4, <2>5 DEF Ladder!Next, Rung
<1>3. TypeOK /\ [Next]_vars => Ladder!Next
  BY <1>2
<1> QED BY <1>1, <1>3, TypeCorrect, PTL DEF Spec, LadderSpec, Ladder!Spec

-----------------------------------------------------------------------------
(* Nobody waits for ever, and who does.  The fairness of FairSpec speaks   *)
(* of ENABLED, which the provers take as it stands; SweepEnabled says what *)
(* it comes to for this module, and is the hypothesis of these theorems.   *)

(* A policy's idle time counts only when it is positive, and the built-in  *)
(* ones are: every tier is left only after some time.                      *)
LEMMA IdlePositive ==
  ASSUME NEW it, NEW t \in Demotable
  PROVE  RulesFor(it).idle[t] \in Nat \ {0}
<1> DEFINE inScope == {i \in 1..Len(Policies) : Matches(Policies[i], it)}
           first == CHOOSE i \in inScope : \A j \in inScope : i <= j
<1>1. DefaultRules.idle[t] \in Nat \ {0}
  <2>1. t \in {"working", "hot", "warm", "cold"}
    BY DEF Demotable, Tiers
  <2>2. \A n \in {1, 7, 30, 90} : days(n) \in Nat \ {0}
    BY LifecycleAssumption, SMT DEF days
  <2> QED BY <2>1, <2>2 DEF DefaultRules
<1>2. CASE inScope = {}
  BY <1>1, <1>2 DEF RulesFor
<1>3. CASE inScope # {}
  <2>1. first \in inScope
    BY <1>3, FirstInScope
  <2>2. Policies[first] \in Policy
    BY <2>1, LifecycleAssumption
  <2>3. RulesFor(it) = MergeRules(DefaultRules, Policies[first].rules)
    BY <1>3 DEF RulesFor
  <2> HIDE DEF first
  <2> DEFINE o == Policies[first].rules
  <2>4. o \in Overrides
    BY <2>2 DEF Policy
  <2>5. o.idle[t] \in Nat
    BY <2>4 DEF Overrides
  <2>6. days(o.idle[t]) \in Nat
    BY <2>5, LifecycleAssumption, SMT DEF days
  <2>7. MergeRules(DefaultRules, o).idle[t] =
          IF days(o.idle[t]) > 0 THEN days(o.idle[t]) ELSE DefaultRules.idle[t]
    BY DEF MergeRules
  <2> QED BY <1>1, <2>3, <2>6, <2>7
<1> QED BY <1>2, <1>3

(* The bound on a batch is a positive number, whatever the options say.    *)
LEMMA LimitTyped == normalizeLifecycleLimit(BatchSize) \in Nat \ {0}
BY LifecycleAssumption DEF normalizeLifecycleLimit

(* The verdicts that lower a row.                                          *)
Lowering == {"lifecycle_demoted", "lifecycle_archived", "lifecycle_deleted"}

(* A row that every run, whenever it read the clock, would lower.          *)
Overdue(m) ==
  Visible(m) /\ \A now \in Nows : Verdict(items[m], accesses[m], now) \in Lowering

(* A run's batch holds every row there can be.                             *)
Covered ==
  IsFiniteSet(Memories) /\ Cardinality(Memories) <= normalizeLifecycleLimit(BatchSize)

(* Then a run evaluates every visible row.                                 *)
LEMMA WholeBatch ==
  ASSUME Covered
  PROVE  Batches(normalizeLifecycleLimit(BatchSize)) = {{m \in Memories : Visible(m)}}
<1> DEFINE limit == normalizeLifecycleLimit(BatchSize)
           active == {m \in Memories : Visible(m)}
<1>1. limit \in Nat /\ IsFiniteSet(Memories) /\ Cardinality(Memories) <= limit
  BY LimitTyped DEF Covered
<1> HIDE DEF limit
<1>2. /\ IsFiniteSet(active) /\ Cardinality(active) <= limit
      /\ Cardinality(active) \in Nat
  BY <1>1, FS_Subset, FS_CardinalityType
<1>3. active \in Batches(limit)
  BY <1>2 DEF Batches
<1>4. ASSUME NEW B \in Batches(limit)
      PROVE  B = active
  <2>1. B \in SUBSET active /\ (B # active => Cardinality(B) = limit)
    BY <1>4 DEF Batches
  <2>2. /\ IsFiniteSet(B) /\ Cardinality(B) <= Cardinality(active)
        /\ Cardinality(B) \in Nat
        /\ Cardinality(active) = Cardinality(B) => active = B
    <3> HIDE DEF active
    <3> QED BY <1>2, <2>1, FS_Subset, FS_CardinalityType
  <2> HIDE DEF active
  <2> QED BY <1>1, <1>2, <2>1, <2>2
<1> HIDE DEF active
<1> QED BY <1>3, <1>4 DEF limit, active

(* The row a lowering leaves is due for no further one at the same `now'.  *)
LEMMA LoweredIsFresh ==
  ASSUME NEW it \in Item, NEW acc, NEW now \in Nat, NEW v \in Lowering,
         v = Verdict(it, acc, now), it.deletedAt = None, NEW acc2
  PROVE  LET new == Apply(it, v, now)
         IN new # it /\ (new.deletedAt # None \/ Verdict(new, acc2, now) \notin Lowering)
<1> DEFINE new == Apply(it, v, now)
           Fresh == new # it /\ (new.deletedAt # None \/ Verdict(new, acc2, now) \notin Lowering)
<1> SUFFICES Fresh
  OBVIOUS
<1>1. now # None
  BY LifecycleAssumption
<1>2. CASE v = "lifecycle_deleted"
  <2>1. new.deletedAt = now
    BY <1>2 DEF Apply, Expire, Item
  <2> HIDE DEF new
  <2> QED BY <1>1, <2>1
<1>3. CASE v = "lifecycle_archived"
  <2>1. new.tier = "archive" /\ new.archivedAt = now /\ it.tier = "cold"
    BY <1>3, VerdictMeaning DEF Apply, Archive, Item
  <2>2. ~IdleDue(new, now)
    BY <2>1 DEF IdleDue, Demotable
  <2>3. ~RetentionDue(new, now)
    <3>1. RulesFor(new).deleteAfter \in Nat
      BY RulesTyped DEF Rules
    <3> HIDE DEF new
    <3> QED BY <2>1, <3>1 DEF RetentionDue
  <2>4. new # it
    BY <2>1
  <2> HIDE DEF new
  <2> QED BY <2>2, <2>3, <2>4 DEF Verdict, Lowering
<1>4. CASE v = "lifecycle_demoted"
  <2>1. it.tier \in {"working", "hot", "warm"}
    BY <1>4, VerdictMeaning DEF Demotable, Tiers
  <2>2. new.tier = Demotion[it.tier] /\ new.updatedAt = now
    BY <1>4 DEF Apply, Demote, Item
  <2>3. new.tier \in {"hot", "warm", "cold"} /\ new.tier # it.tier
    BY <2>1, <2>2, DemotionSteps
  <2>4. RulesFor(new).idle[new.tier] \in Nat \ {0}
    <3>1. new.tier \in Demotable
      BY <2>3 DEF Demotable, Tiers
    <3> HIDE DEF new
    <3> QED BY <3>1, IdlePositive
  <2> HIDE DEF new
  <2>5. now \in Activity(new)
    BY <1>1, <2>2 DEF Activity
  <2>6. ~IdleDue(new, now) /\ ~RetentionDue(new, now)
    BY <2>3, <2>4, <2>5 DEF IdleDue, RetentionDue
  <2> QED BY <2>3, <2>6 DEF Verdict, Lowering
<1> HIDE DEF Fresh
<1> QED BY <1>2, <1>3, <1>4 DEF Lowering

(* A run over a batch that holds every row lowers a row that is overdue.   *)
LEMMA OverdueIsLowered ==
  ASSUME TypeOK, Covered, NEW m \in Memories, Overdue(m), Sweep
  PROVE  ~Overdue(m)'
<1>1. PICK now \in Nows : RunLifecycle(now)
  BY DEF Sweep
<1>2. PICK verdict \in Evaluations(now) :
         Commit([n \in {n \in DOMAIN verdict : verdict[n] # "none"} |->
                       Apply(items[n], verdict[n], now)],
                [n \in {n \in DOMAIN verdict : verdict[n] # "none"} |-> verdict[n]])
  BY <1>1 DEF RunLifecycle
<1> DEFINE v == Verdict(items[m], accesses[m], now)
           new == Apply(items[m], v, now)
<1>3. verdict = [n \in {n \in Memories : Visible(n)} |-> Verdict(items[n], accesses[n], now)]
  BY <1>2, WholeBatch DEF Evaluations
<1>4. Visible(m) /\ v \in Lowering /\ v # "none" /\ items[m] \in Item /\ items[m].deletedAt = None
  BY VisibleIsItem DEF Overdue, Lowering, Visible
<1>5. items'[m] = new /\ clock' = clock
  <2>1. m \in DOMAIN verdict /\ verdict[m] = v
    BY <1>3, <1>4
  <2>2. m \in {n \in DOMAIN verdict : verdict[n] # "none"}
    BY <1>4, <2>1
  <2> HIDE DEF v
  <2> QED BY <1>2, <2>1, <2>2 DEF Commit
<1>6. now \in Nat
  BY NowsTyped DEF TypeOK, Time
<1>7. new # items[m] /\ (new.deletedAt # None \/ Verdict(new, accesses'[m], now) \notin Lowering)
  BY <1>4, <1>6, LoweredIsFresh
<1>8. now \in Nows'
  BY <1>5 DEF Nows
<1> HIDE DEF new, v
<1> QED BY <1>5, <1>7, <1>8 DEF Overdue, Visible

(* What a run needs to change something: a row of one of its batches that  *)
(* it would lower to a different row.                                      *)
SweepReady ==
  \E now \in Nows : \E verdict \in Evaluations(now) : \E m \in DOMAIN verdict :
    verdict[m] # "none" /\ Apply(items[m], verdict[m], now) # items[m]

(* A run over an overdue row has something to change.                      *)
LEMMA OverdueIsReady ==
  ASSUME TypeOK, Covered, NEW m \in Memories, Overdue(m)
  PROVE  SweepReady
<1>1. clock \in Nows
  BY LifecycleAssumption DEF Nows, TypeOK, Time
<1> DEFINE active == {n \in Memories : Visible(n)}
           verdict == [n \in active |-> Verdict(items[n], accesses[n], clock)]
<1>2. verdict \in Evaluations(clock)
  BY WholeBatch DEF Evaluations
<1>3. /\ m \in active /\ items[m] \in Item /\ items[m].deletedAt = None
      /\ Verdict(items[m], accesses[m], clock) \in Lowering
  BY <1>1, VisibleIsItem DEF Overdue, Visible
<1>4. Apply(items[m], Verdict(items[m], accesses[m], clock), clock) # items[m]
  BY <1>3, LoweredIsFresh DEF TypeOK, Time
<1>5. verdict[m] = Verdict(items[m], accesses[m], clock) /\ m \in DOMAIN verdict
  BY <1>3
<1>6. verdict[m] # "none" /\ Apply(items[m], verdict[m], clock) # items[m]
  BY <1>3, <1>4, <1>5 DEF Lowering
<1> HIDE DEF verdict
<1> QED BY <1>1, <1>2, <1>5, <1>6 DEF SweepReady

(* Sweep may always take the step SweepReady describes.                    *)
SweepEnabled == SweepReady => ENABLED <<Sweep>>_vars

(* An overdue memory is lowered.                                           *)
THEOREM OverdueIsServed ==
  ASSUME Covered, NEW m \in Memories
  PROVE  FairSpec /\ []SweepEnabled => (Overdue(m) ~> ~Overdue(m))
<1>1. IInv /\ Overdue(m) /\ [Next]_vars => Overdue(m)' \/ ~Overdue(m)'
  OBVIOUS
<1>2. IInv /\ Overdue(m) /\ <<Sweep>>_vars => ~Overdue(m)'
  BY OverdueIsLowered DEF IInv
<1>3. IInv /\ Overdue(m) /\ SweepEnabled => ENABLED <<Sweep>>_vars
  BY OverdueIsReady DEF SweepEnabled, IInv
<1> QED BY <1>1, <1>2, <1>3, InvariantHolds, PTL DEF FairSpec, Spec

(* Without accesses nothing is promoted.                                   *)
NeverRead == accesses = [m \in Memories |-> <<>>]

(* A bound of no accesses keeps the access log empty.                      *)
LEMMA NeverReadHolds ==
  ASSUME MaxAccesses = 0
  PROVE  Spec => []NeverRead
<1>1. Init => NeverRead
  BY DEF Init, NeverRead
<1>2. ASSUME NeverRead, [Next]_vars
      PROVE  NeverRead'
  <2>1. \A m \in Memories : \A now : ~Get(m, now)
    BY <1>2 DEF Get, NeverRead
  <2>2. UNCHANGED accesses
    <3>1. CASE \E m \in Memories : Client(m)
      BY <2>1, <3>1 DEF Client, Save, Update, Pin, Delete
    <3>2. CASE Sweep
      BY <3>2 DEF Sweep, RunLifecycle
    <3>3. CASE Tick \/ UNCHANGED vars
      BY <3>3 DEF Tick, vars
    <3> QED BY <1>2, <3>1, <3>2, <3>3 DEF Next
  <2> QED BY <1>2, <2>2 DEF NeverRead
<1> QED BY <1>1, <1>2, PTL DEF Spec

(* With no lag and no accesses, what is due is overdue.                    *)
LEMMA DueIsOverdue ==
  ASSUME TypeOK, NeverRead, MaxLag = 0, NEW m \in Memories
  PROVE  Due(m) <=> Overdue(m)
<1>1. Nows = {clock}
  BY DEF Nows, TypeOK, Time
<1>2. ~Promotes(items[m], accesses[m], clock)
  <2>1. \A since : {i \in 1..Len(<<>>) : <<>>[i] >= since} = {}
    OBVIOUS
  <2>2. \A since : CountSince(accesses[m], since) = 0
    BY <2>1, FS_EmptySet DEF NeverRead, CountSince
  <2>3. RulesFor(items[m]).promoteCount \in Nat
    BY RulesTyped DEF Rules
  <2> QED BY <2>2, <2>3 DEF Promotes
<1>3. Verdict(items[m], accesses[m], clock) \in Lowering \cup {"none"}
  BY <1>2 DEF Verdict, Lowering
<1> QED BY <1>1, <1>3 DEF Due, Overdue, Lowering

(* No memory waits for ever: with one batch for all of them, every row a   *)
(* run would change is changed or loses its verdict.                       *)
THEOREM NoStarvationHolds ==
  ASSUME Covered, MaxLag = 0, MaxAccesses = 0
  PROVE  FairSpec /\ []SweepEnabled => NoStarvation
<1> DEFINE Served(m) == Due(m) ~> ~Due(m)
<1>1. ASSUME NEW m \in Memories
      PROVE  FairSpec /\ []SweepEnabled => Served(m)
  <2>1. FairSpec /\ []SweepEnabled => (Overdue(m) ~> ~Overdue(m))
    BY <1>1, OverdueIsServed
  <2>2. IInv /\ NeverRead => (Due(m) <=> Overdue(m))
    BY <1>1, DueIsOverdue DEF IInv
  <2> QED BY <2>1, <2>2, InvariantHolds, NeverReadHolds, PTL DEF FairSpec
<1>2. NoStarvation <=> \A m \in Memories : Served(m)
  BY DEF NoStarvation
<1> HIDE DEF Served
<1> QED BY <1>1, <1>2

-----------------------------------------------------------------------------
(* A settled row is one no run will ever change: archived under rules that *)
(* keep the archive, and read too seldom to be promoted.                   *)
Settled(m) ==
  /\ Visible(m)
  /\ items[m].tier = "archive"
  /\ RulesFor(items[m]).deleteAfter = 0
  /\ Len(accesses[m]) < RulesFor(items[m]).promoteCount

(* A memory behind a whole batch of settled rows.                          *)
Starved(m) ==
  /\ Visible(m)
  /\ \E Q \in SUBSET Memories :
       /\ Cardinality(Q) = normalizeLifecycleLimit(BatchSize)
       /\ \A q \in Q : Settled(q) /\ items[q].updatedAt < items[m].updatedAt

(* The rules have no verdict for a settled row.                            *)
LEMMA SettledIsQuiet ==
  ASSUME TypeOK, NEW m \in Memories, Settled(m), NEW now
  PROVE  Verdict(items[m], accesses[m], now) = "none"
<1> DEFINE acc == accesses[m]
<1>1. acc \in Seq(Nat) /\ Len(acc) \in Nat
  BY DEF TypeOK, Time
<1>2. RulesFor(items[m]).promoteCount \in Nat
  BY RulesTyped DEF Rules
<1>3. \A since : CountSince(acc, since) <= Len(acc) /\ CountSince(acc, since) \in Nat
  <2> TAKE since
  <2> DEFINE S == {i \in 1..Len(acc) : acc[i] >= since}
  <2>1. IsFiniteSet(1..Len(acc)) /\ Cardinality(1..Len(acc)) = Len(acc)
    BY <1>1, FS_Interval
  <2>2. S \in SUBSET (1..Len(acc))
    OBVIOUS
  <2> HIDE DEF S
  <2>3. IsFiniteSet(S) /\ Cardinality(S) <= Len(acc) /\ Cardinality(S) \in Nat
    BY <2>1, <2>2, FS_Subset, FS_CardinalityType
  <2> QED BY <2>3 DEF CountSince, S
<1> HIDE DEF acc
<1>4. ~Promotes(items[m], acc, now)
  BY <1>1, <1>2, <1>3 DEF Promotes, Settled, acc
<1>5. ~RetentionDue(items[m], now) /\ ~IdleDue(items[m], now)
  BY DEF Settled, RetentionDue, IdleDue, Demotable
<1> QED BY <1>4, <1>5 DEF Verdict, acc

(* Runs and time do not change that: the memory is never reached.          *)
THEOREM StarvationLasts ==
  ASSUME IsFiniteSet(Memories)
  PROVE  Spec => [][\A m \in Memories :
                      Starved(m) /\ (Sweep \/ Tick) =>
                        Starved(m)' /\ UNCHANGED <<items[m], accesses[m], event[m]>>]_vars
<1> DEFINE limit == normalizeLifecycleLimit(BatchSize)
<1>1. ASSUME TypeOK, NEW m \in Memories, Starved(m), Sweep \/ Tick
      PROVE  Starved(m)' /\ UNCHANGED <<items[m], accesses[m], event[m]>>
  <2>1. PICK Q \in SUBSET Memories :
          /\ Cardinality(Q) = limit
          /\ \A q \in Q : Settled(q) /\ items[q].updatedAt < items[m].updatedAt
    BY <1>1 DEF Starved
  <2>2. Visible(m) /\ items[m] \in Item /\ items[m].updatedAt \in Nat
    BY <1>1, VisibleIsItem DEF Starved, Item, Time
  <2>3. \A q \in Q : Visible(q) /\ items[q].updatedAt \in Nat
    BY <1>1, <2>1, VisibleIsItem DEF Settled, Item, Time
  <2>4. ASSUME \A n \in Q \cup {m} : RowKept(n)
        PROVE  Starved(m)' /\ UNCHANGED <<items[m], accesses[m], event[m]>>
    <3>1. \A n \in Q \cup {m} : UNCHANGED <<items[n], accesses[n], event[n]>>
      BY <2>4 DEF RowKept
    <3>2. Visible(m)' /\ \A q \in Q : Settled(q)'
      BY <2>1, <2>2, <3>1 DEF Settled, Visible, Saved
    <3> HIDE DEF limit
    <3>3. \A q \in Q : items'[q].updatedAt < items'[m].updatedAt
      BY <2>1, <3>1
    <3> QED BY <2>1, <3>1, <3>2, <3>3 DEF Starved, limit
  <2>5. CASE Tick
    BY <1>1, <2>2, <2>4, <2>5, QuietStep
  <2>6. CASE Sweep
    <3>1. PICK now \in Nows : RunLifecycle(now)
      BY <2>6 DEF Sweep
    <3>2. PICK B \in Batches(limit) :
            LET changed == {n \in B : Verdict(items[n], accesses[n], now) # "none"}
                verdict == [n \in B |-> Verdict(items[n], accesses[n], now)]
            IN /\ Commit([n \in {x \in DOMAIN verdict : verdict[x] # "none"} |->
                              Apply(items[n], verdict[n], now)],
                         [n \in {x \in DOMAIN verdict : verdict[x] # "none"} |-> verdict[n]])
               /\ UNCHANGED accesses
      BY <3>1 DEF RunLifecycle, Evaluations
    <3> DEFINE verdict == [n \in B |-> Verdict(items[n], accesses[n], now)]
               changed == {x \in DOMAIN verdict : verdict[x] # "none"}
               new == [n \in changed |-> Apply(items[n], verdict[n], now)]
               ev == [n \in changed |-> verdict[n]]
    <3>3. Commit(new, ev) /\ UNCHANGED accesses
      BY <3>2
    <3>4. DOMAIN new = changed /\ DOMAIN ev = changed
      OBVIOUS
    <3>5. m \notin B
      <4>1. /\ B \in SUBSET {n \in Memories : Visible(n)} /\ Cardinality(B) <= limit
            /\ \A b \in B, n \in {n \in Memories : Visible(n)} \ B :
                 items[b].updatedAt <= items[n].updatedAt
        BY DEF Batches
      <4>2. SUFFICES ASSUME m \in B
                     PROVE  FALSE
        OBVIOUS
      <4>3. \A q \in Q : q \in B
        BY <2>1, <2>2, <2>3, <4>1, <4>2
      <4>4. m \notin Q
        BY <2>1, <2>2
      <4>5. IsFiniteSet(B) /\ Cardinality(B) \in Nat /\ IsFiniteSet(Q) /\ Cardinality(Q) \in Nat
        BY <4>1, FS_Subset, FS_CardinalityType
      <4>6. Cardinality(Q \cup {m}) = limit + 1
        BY <2>1, <4>4, <4>5, FS_AddElement
      <4>7. Cardinality(Q \cup {m}) <= Cardinality(B)
        BY <4>2, <4>3, <4>5, FS_Subset
      <4> QED BY <4>1, <4>5, <4>6, <4>7, LimitTyped
    <3>6. \A n \in Q \cup {m} : n \notin changed
      BY <1>1, <2>1, <3>5, SettledIsQuiet
    <3> HIDE DEF new, ev, changed, verdict
    <3>7. \A n \in Q \cup {m} : RowKept(n)
      BY <3>3, <3>4, <3>6, CommitElsewhere
    <3> QED BY <2>4, <3>7
  <2> QED BY <1>1, <2>5, <2>6
<1>2. TypeOK /\ [Next]_vars =>
        [\A m \in Memories :
           Starved(m) /\ (Sweep \/ Tick) =>
             Starved(m)' /\ UNCHANGED <<items[m], accesses[m], event[m]>>]_vars
  BY <1>1
<1> QED BY <1>2, TypeCorrect, PTL DEF Spec

=============================================================================
