------------------------- MODULE EmbeddingIndexProofs -------------------------
(***************************************************************************)
(* Proofs about EmbeddingIndex: its types and its safety invariants, for   *)
(* any number of memories, chunks, requests and documents, and that a      *)
(* repeated backfill catches up.                                           *)
(***************************************************************************)
EXTENDS EmbeddingIndex, FiniteSetTheorems, TLAPS

(* A record of a title and keywords is a document.                         *)
LEMMA DocFields ==
  ASSUME NEW doc \in Doc
  PROVE  /\ doc.title \in Titles \cup {Empty} /\ doc.keywords \in Keywords \cup {Empty}
         /\ \A k \in Keywords \cup {Empty} : [doc EXCEPT !.keywords = k] \in Doc
         /\ [title |-> doc.title, keywords |-> Empty] \in Doc
         /\ doc # None
BY DocumentAssumption DEF Doc

-----------------------------------------------------------------------------
(* Types.                                                                  *)

(* The type of what Record assigns.                                        *)
LEMMA RecordTypes ==
  ASSUME TypeOK, NEW entry \in Entry, NEW outcome \in Statuses \cup {"unrecorded"},
         NEW via \in Backends \cup {None}, NEW jobs, NEW q, Record(entry, outcome, via, jobs, q)
  PROVE  /\ embedding' \in [Chunks -> Doc \cup {None}]
         /\ status' \in [Chunks -> Statuses \cup {None}]
         /\ hash' \in [Chunks -> Doc \cup {None}]
         /\ backend' \in Backends \cup {None}
         /\ mirror' \in [Chunks -> Doc \cup {None}]
         /\ disturbed' \subseteq Chunks
         /\ unmirrored' \subseteq Chunks
BY DEF TypeOK, Record, Entry, Accepts, UpsertStatus, Statuses

(* The entry a request takes up is an entry.                               *)
LEMMA StartsTypes ==
  ASSUME TypeOK, NEW c \in Chunks, NEW doc \in Doc, StartsIndexing(c, doc)
  PROVE  job' \in [Slots -> Entry \cup {None}]
BY DEF TypeOK, StartsIndexing, Entry

(* Every step keeps the types.                                             *)
LEMMA TypeInvariance == TypeOK /\ NoOrphans /\ [Next]_vars => TypeOK'
<1> SUFFICES ASSUME TypeOK, NoOrphans, [Next]_vars PROVE TypeOK'
  OBVIOUS
<1> USE DocumentAssumption
<1>1. ASSUME NEW m \in Memories, NEW c \in Chunks, NEW doc \in Documents, Save(m, c, doc)
      PROVE  TypeOK'
  <2>1. job' \in [Slots -> Entry \cup {None}]
    BY <1>1, StartsTypes DEF Save
  <2> QED BY <1>1, <2>1 DEF TypeOK, Save, toolVars
<1>2. ASSUME NEW m \in Memories, NEW c \in Chunks, NEW doc \in Documents, Retitle(m, c, doc)
      PROVE  TypeOK'
  <2>1. job' \in [Slots -> Entry \cup {None}]
    BY <1>2, StartsTypes DEF Retitle
  <2> QED BY <1>2, <2>1 DEF TypeOK, Retitle, toolVars
<1>3. ASSUME NEW m \in Memories, NEW old \in Chunks, NEW new \in Chunks, NEW doc \in Documents,
             Rewrite(m, old, new, doc)
      PROVE  TypeOK'
  <2>1. job' \in [Slots -> Entry \cup {None}]
    BY <1>3, StartsTypes DEF Rewrite
  <2>2. held' \in [Chunks -> SUBSET Doc]
    BY <1>3 DEF TypeOK, Rewrite
  <2>3. mirror' \in [Chunks -> Doc \cup {None}]
    BY <1>3 DEF TypeOK, Rewrite, MirrorWithout
  <2> QED BY <1>3, <2>1, <2>2, <2>3 DEF TypeOK, Rewrite, toolVars
<1>4. ASSUME NEW m \in Memories, Delete(m) PROVE TypeOK'
  BY <1>4 DEF TypeOK, Delete, toolVars
<1>5. ASSUME NEW s \in Slots, RequestRecords(s) PROVE TypeOK'
  <2>1. job[s] \in Entry /\ service \in Backends \cup {None}
    BY <1>5 DEF RequestRecords, TypeOK
  <2>2. PICK outcome \in Outcomes(job[s].doc) :
          Record(job[s], outcome, service, [job EXCEPT ![s] = None], queue)
    BY <1>5 DEF RequestRecords
  <2>3. outcome \in Statuses \cup {"unrecorded"}
    BY DEF Outcomes, Statuses
  <2>4. job' \in [Slots -> Entry \cup {None}]
    BY <1>5 DEF RequestRecords, TypeOK
  <2> QED BY <1>5, <2>1, <2>2, <2>3, <2>4, RecordTypes
          DEF TypeOK, RequestRecords, memoryVars, toolVars
<1>6. ASSUME NEW config \in Backends \cup {None}, Restart(config) PROVE TypeOK'
  <2>1. job' \in [Slots -> Entry \cup {None}]
    BY <1>6 DEF Restart
  <2>2. disturbed' \subseteq Chunks
    BY <1>6 DEF Restart, TypeOK
  <2> QED BY <1>6, <2>1, <2>2 DEF TypeOK, Restart, memoryVars, toolVars
<1>7. ASSUME NEW force \in BOOLEAN, BackfillLists(force) PROVE TypeOK'
  <2>1. PICK B \in Batches(Candidates(force)) :
          queue' = [c \in Chunks |-> IF c \in B
                                     THEN [title |-> document[owner[c]].title, keywords |-> Empty]
                                     ELSE None]
    BY <1>7 DEF BackfillLists
  <2>2. ASSUME NEW c \in B
        PROVE  [title |-> document[owner[c]].title, keywords |-> Empty] \in Doc
    <3>1. c \in Chunks /\ Live(c)
      BY <2>1, <2>2 DEF Batches, Candidates
    <3>2. document[owner[c]] \in Doc
      BY <3>1 DEF NoOrphans, TypeOK, Live
    <3> QED BY <3>2, DocFields
  <2>3. queue' \in [Chunks -> Doc \cup {None}]
    BY <2>1, <2>2
  <2>4. tool' \in Backends \cup {None} /\ listing' \in BOOLEAN
    BY <1>7 DEF BackfillLists
  <2> QED BY <1>7, <2>3, <2>4 DEF TypeOK, BackfillLists, memoryVars
<1>8. ASSUME BackfillReadsKeywords PROVE TypeOK'
  <2>1. ASSUME NEW c \in Chunks, queue[c] # None, Live(c)
        PROVE  [queue[c] EXCEPT !.keywords = document[owner[c]].keywords] \in Doc
    <3>1. document[owner[c]] \in Doc /\ queue[c] \in Doc
      BY <2>1 DEF NoOrphans, TypeOK, Live
    <3> QED BY <3>1, DocFields
  <2>2. queue' \in [Chunks -> Doc \cup {None}]
    BY <1>8, <2>1 DEF BackfillReadsKeywords, TypeOK
  <2> QED BY <1>8, <2>2 DEF TypeOK, BackfillReadsKeywords, memoryVars
<1>9. ASSUME NEW c \in Chunks, NEW outcome \in Statuses \cup {"unrecorded"},
             BackfillRecords(c, outcome)
      PROVE  TypeOK'
  <2>1. [chunk |-> c, doc |-> queue[c]] \in Entry /\ tool \in Backends \cup {None}
    BY <1>9 DEF BackfillRecords, TypeOK, Entry
  <2>2. queue' \in [Chunks -> Doc \cup {None}] /\ tool' \in Backends \cup {None}
    BY <1>9 DEF BackfillRecords, TypeOK
  <2> QED BY <1>9, <2>1, <2>2, RecordTypes DEF TypeOK, BackfillRecords, memoryVars
<1>10. ASSUME BackfillStops PROVE TypeOK'
  BY <1>10 DEF TypeOK, BackfillStops, NoQueue, memoryVars
<1>11. ASSUME UNCHANGED vars PROVE TypeOK'
  BY <1>11 DEF TypeOK, vars
<1> QED
  BY <1>1, <1>2, <1>3, <1>4, <1>5, <1>6, <1>7, <1>8, <1>9, <1>10, <1>11
     DEF Next, Server, Backfill

-----------------------------------------------------------------------------
(* Rows and chunks.                                                        *)

(* A chunk gets rows only while it is live, and loses them with its        *)
(* memory's old body; the replacement takes the place of the one chunk.    *)
LEMMA OrphanInvariance == TypeOK /\ NoOrphans /\ [Next]_vars => NoOrphans'
<1> SUFFICES ASSUME TypeOK, NoOrphans, [Next]_vars PROVE NoOrphans'
  OBVIOUS
<1> USE DocumentAssumption, IndexAssumption
<1>1. ASSUME NEW m \in Memories, NEW c \in Chunks, NEW doc \in Documents, Save(m, c, doc)
      PROVE  NoOrphans'
  <2>1. \A c1 \in Chunks : embedding'[c1] # None \/ status'[c1] # None => Live(c1)'
    BY <1>1 DEF TypeOK, NoOrphans, Live, Save
  <2>2. ASSUME NEW m1 \in Memories
        PROVE  document'[m1] # None <=> \E c1 \in Chunks : owner'[c1] = m1
    BY <1>1 DEF TypeOK, NoOrphans, Save
  <2>3. ASSUME NEW c1 \in Chunks, NEW c2 \in Chunks, Live(c1)', owner'[c1] = owner'[c2]
        PROVE  c1 = c2
    <3>1. \A d \in Chunks : owner[d] # m
      BY <1>1 DEF NoOrphans, Save
    <3>2. \A d \in Chunks : owner'[d] = IF d = c THEN m ELSE owner[d]
      BY <1>1 DEF TypeOK, Save
    <3> QED BY <2>3, <3>1, <3>2 DEF NoOrphans, Live
  <2> QED BY <2>1, <2>2, <2>3 DEF NoOrphans
<1>2. ASSUME NEW m \in Memories, NEW c \in Chunks, NEW doc \in Documents, Retitle(m, c, doc)
      PROVE  NoOrphans'
  <2>1. \A c1 \in Chunks : embedding'[c1] # None \/ status'[c1] # None => Live(c1)'
    BY <1>2 DEF TypeOK, NoOrphans, Live, Retitle
  <2>2. ASSUME NEW m1 \in Memories
        PROVE  document'[m1] # None <=> \E c1 \in Chunks : owner'[c1] = m1
    BY <1>2 DEF TypeOK, NoOrphans, Retitle
  <2>3. ASSUME NEW c1 \in Chunks, NEW c2 \in Chunks, Live(c1)', owner'[c1] = owner'[c2]
        PROVE  c1 = c2
    BY <1>2, <2>3 DEF TypeOK, NoOrphans, Live, Retitle
  <2> QED BY <2>1, <2>2, <2>3 DEF NoOrphans
<1>3. ASSUME NEW m \in Memories, NEW old \in Chunks, NEW new \in Chunks, NEW doc \in Documents,
             Rewrite(m, old, new, doc)
      PROVE  NoOrphans'
  <2>1. \A c1 \in Chunks : embedding'[c1] # None \/ status'[c1] # None => Live(c1)'
    BY <1>3 DEF TypeOK, NoOrphans, Live, Rewrite
  <2>a. \A d \in Chunks : owner'[d] = IF d = old THEN "gone" ELSE IF d = new THEN m ELSE owner[d]
    BY <1>3 DEF TypeOK, Rewrite
  <2>b. /\ owner[old] = m /\ owner[new] = None /\ old # new /\ m # "gone"
        /\ \A d \in Chunks : owner[d] = m => d = old
    BY <1>3 DEF Rewrite, NoOrphans, Live
  <2>2. ASSUME NEW m1 \in Memories
        PROVE  document'[m1] # None <=> \E c1 \in Chunks : owner'[c1] = m1
    <3>1. CASE m1 = m
      <4>1. document'[m1] # None
        BY <1>3, <3>1 DEF TypeOK, Rewrite
      <4> QED BY <3>1, <4>1, <2>a, <2>b
    <3>2. CASE m1 # m
      <4>1. document'[m1] = document[m1]
        BY <1>3, <3>2 DEF TypeOK, Rewrite
      <4>2. \A d \in Chunks : owner'[d] = m1 <=> owner[d] = m1
        BY <3>2, <2>a, <2>b
      <4> QED BY <4>1, <4>2 DEF NoOrphans
    <3> QED BY <3>1, <3>2
  <2>3. ASSUME NEW c1 \in Chunks, NEW c2 \in Chunks, Live(c1)', owner'[c1] = owner'[c2]
        PROVE  c1 = c2
    <3>1. owner'[c1] \in Memories /\ c1 # old /\ c2 # old
      BY <2>3, <2>a DEF Live
    <3>2. CASE c1 = new \/ c2 = new
      BY <2>3, <2>a, <2>b, <3>1, <3>2
    <3>3. CASE c1 # new /\ c2 # new
      <4>1. owner'[c1] = owner[c1] /\ owner'[c2] = owner[c2]
        BY <2>a, <3>1, <3>3
      <4> QED BY <2>3, <3>1, <4>1 DEF NoOrphans, Live
    <3> QED BY <3>2, <3>3
  <2> QED BY <2>1, <2>2, <2>3 DEF NoOrphans
<1>4. ASSUME NEW entry \in Entry, NEW outcome, NEW via, NEW jobs, NEW q,
             Record(entry, outcome, via, jobs, q), UNCHANGED memoryVars
      PROVE  NoOrphans'
  <2>1. ASSUME NEW c \in Chunks, embedding'[c] # None \/ status'[c] # None
        PROVE  Live(c)
    BY <1>4, <2>1 DEF TypeOK, NoOrphans, Live, Record, Accepts, Entry
  <2> QED BY <1>4, <2>1 DEF NoOrphans, Live, memoryVars
<1>5. ASSUME NEW s \in Slots, RequestRecords(s) PROVE NoOrphans'
  <2>1. job[s] \in Entry
    BY <1>5 DEF RequestRecords, TypeOK
  <2> QED BY <1>4, <1>5, <2>1 DEF RequestRecords
<1>6. ASSUME NEW c \in Chunks, NEW outcome, BackfillRecords(c, outcome) PROVE NoOrphans'
  <2>1. [chunk |-> c, doc |-> queue[c]] \in Entry
    BY <1>6 DEF BackfillRecords, TypeOK, Entry
  <2> QED BY <1>4, <1>6, <2>1 DEF BackfillRecords
<1>7. ASSUME UNCHANGED <<memoryVars, embedding, status>> PROVE NoOrphans'
  BY <1>7 DEF NoOrphans, Live, memoryVars
<1>8. ASSUME NEW m \in Memories, Delete(m) PROVE NoOrphans'
  BY <1>8 DEF NoOrphans, Live, Delete
<1> QED
  BY <1>1, <1>2, <1>3, <1>5, <1>6, <1>7, <1>8
     DEF Next, Server, Backfill, vars, Restart, BackfillLists, BackfillReadsKeywords, BackfillStops,
         memoryVars

-----------------------------------------------------------------------------
(* What the status, the embedding and the mirror say of each other.        *)

(* Record writes a status and the embedding it speaks of together.         *)
LEMMA StoredInvariance == TypeOK /\ IndexedMeansStored /\ [Next]_vars => IndexedMeansStored'
<1> SUFFICES ASSUME TypeOK, IndexedMeansStored, [Next]_vars PROVE IndexedMeansStored'
  OBVIOUS
<1> USE DocumentAssumption
<1>1. ASSUME NEW entry \in Entry, NEW outcome, NEW via, NEW jobs, NEW q,
             Record(entry, outcome, via, jobs, q)
      PROVE  IndexedMeansStored'
  BY <1>1 DEF TypeOK, IndexedMeansStored, Record, UpsertStatus, Entry
<1>2. ASSUME NEW s \in Slots, RequestRecords(s) PROVE IndexedMeansStored'
  <2>1. job[s] \in Entry
    BY <1>2 DEF RequestRecords, TypeOK
  <2> QED BY <1>1, <1>2, <2>1 DEF RequestRecords
<1>3. ASSUME NEW c \in Chunks, NEW outcome, BackfillRecords(c, outcome) PROVE IndexedMeansStored'
  <2>1. [chunk |-> c, doc |-> queue[c]] \in Entry
    BY <1>3 DEF BackfillRecords, TypeOK, Entry
  <2> QED BY <1>1, <1>3, <2>1 DEF BackfillRecords
<1>4. ASSUME NEW m \in Memories, NEW old \in Chunks, NEW new \in Chunks, NEW doc \in Documents,
             Rewrite(m, old, new, doc)
      PROVE  IndexedMeansStored'
  <2>1. status'[old] # "indexed"
    BY <1>4, IndexAssumption DEF TypeOK, Rewrite
  <2>2. \A c \in Chunks \ {old} : status'[c] = status[c] /\ hash'[c] = hash[c] /\ embedding'[c] = embedding[c]
    BY <1>4 DEF TypeOK, Rewrite
  <2> QED BY <2>1, <2>2 DEF IndexedMeansStored
<1>5. ASSUME UNCHANGED <<embedding, status, hash>> PROVE IndexedMeansStored'
  BY <1>5 DEF IndexedMeansStored
<1> QED
  BY <1>2, <1>3, <1>4, <1>5
     DEF Next, Server, Backfill, vars, Save, Retitle, Delete, Restart, BackfillLists,
         BackfillReadsKeywords, BackfillStops

(* Whoever records an embedding has a backend, and so the metadata does.   *)
BackendsKnown ==
  /\ \A c \in Chunks : embedding[c] # None => backend # None
  /\ \A s \in Slots : job[s] # None => service # None
  /\ \A c \in Chunks : queue[c] # None => tool # None

MirrorInv == BackendsKnown /\ MirrorAgrees

(* A mirrored row is written with its embedding and deleted with it, as    *)
(* long as the metadata names sqlite-vec.                                  *)
LEMMA MirrorInvariance == TypeOK /\ MirrorInv /\ [Next]_vars => MirrorInv'
<1> SUFFICES ASSUME TypeOK, MirrorInv, [Next]_vars PROVE MirrorInv'
  OBVIOUS
<1> USE DocumentAssumption, IndexAssumption
<1>1. ASSUME NEW entry \in Entry, NEW outcome, NEW via \in Backends, NEW jobs, NEW q,
             Record(entry, outcome, via, jobs, q)
      PROVE  /\ MirrorAgrees'
             /\ \A c \in Chunks : embedding'[c] # None => backend' # None
  <2>1. entry.chunk \in Chunks
    BY DEF Entry
  <2>2. MirrorAgrees'
    BY <1>1, <2>1 DEF TypeOK, MirrorInv, MirrorAgrees, Record
  <2>3. \A c \in Chunks : embedding'[c] # None => backend' # None
    BY <1>1, <2>1 DEF TypeOK, MirrorInv, BackendsKnown, Record
  <2> QED BY <2>2, <2>3
<1>2. ASSUME NEW s \in Slots, RequestRecords(s) PROVE MirrorInv'
  <2>1. job[s] \in Entry /\ service \in Backends
    BY <1>2 DEF RequestRecords, TypeOK, MirrorInv, BackendsKnown
  <2>2. BackendsKnown' /\ MirrorAgrees'
    BY <1>1, <1>2, <2>1 DEF RequestRecords, MirrorInv, BackendsKnown, TypeOK, toolVars
  <2> QED BY <2>2 DEF MirrorInv
<1>3. ASSUME NEW c \in Chunks, NEW outcome, BackfillRecords(c, outcome) PROVE MirrorInv'
  <2>1. [chunk |-> c, doc |-> queue[c]] \in Entry /\ tool \in Backends
    BY <1>3 DEF BackfillRecords, TypeOK, Entry, MirrorInv, BackendsKnown
  <2>2. MirrorAgrees' /\ \A d \in Chunks : embedding'[d] # None => backend' # None
    BY <1>1, <1>3, <2>1 DEF BackfillRecords
  <2>3. \A d \in Chunks : queue'[d] # None => tool' # None
    <3> DEFINE rest == [queue EXCEPT ![c] = None]
    <3>1. queue' = rest /\ tool' = (IF rest = NoQueue THEN None ELSE tool)
      BY <1>3 DEF BackfillRecords
    <3>2. CASE rest = NoQueue
      <4>1. queue' = [d \in Chunks |-> None]
        BY <3>1, <3>2 DEF NoQueue
      <4> QED BY ONLY <4>1
    <3>3. CASE rest # NoQueue
      <4>1. tool' = tool
        BY <3>1, <3>3
      <4>2. tool # None
        BY <2>1, IndexAssumption
      <4> QED BY ONLY <4>1, <4>2
    <3> QED BY ONLY <3>2, <3>3
  <2> QED BY <1>3, <2>2, <2>3 DEF MirrorInv, BackendsKnown, BackfillRecords
<1>4. ASSUME NEW c \in Chunks, NEW doc, StartsIndexing(c, doc), UNCHANGED service
      PROVE  \A s \in Slots : job'[s] # None => service' # None
  BY <1>4 DEF StartsIndexing, TypeOK, MirrorInv, BackendsKnown
<1>5. ASSUME NEW m \in Memories, NEW old \in Chunks, NEW new \in Chunks, NEW doc \in Documents,
             Rewrite(m, old, new, doc)
      PROVE  MirrorInv'
  <2>1. MirrorAgrees'
    BY <1>5 DEF TypeOK, MirrorInv, BackendsKnown, MirrorAgrees, Rewrite, MirrorWithout
  <2>2. BackendsKnown'
    BY <1>4, <1>5 DEF TypeOK, MirrorInv, BackendsKnown, Rewrite, toolVars
  <2> QED BY <2>1, <2>2 DEF MirrorInv
<1>6. ASSUME NEW m \in Memories, NEW c \in Chunks, NEW doc \in Documents,
             Save(m, c, doc) \/ Retitle(m, c, doc)
      PROVE  MirrorInv'
  BY <1>4, <1>6 DEF MirrorInv, BackendsKnown, MirrorAgrees, Save, Retitle, toolVars
<1>7. ASSUME NEW config \in Backends \cup {None}, Restart(config) PROVE MirrorInv'
  BY <1>7 DEF MirrorInv, BackendsKnown, MirrorAgrees, Restart, toolVars
<1>8. ASSUME NEW force \in BOOLEAN, BackfillLists(force) PROVE MirrorInv'
  BY <1>8 DEF MirrorInv, BackendsKnown, MirrorAgrees, BackfillLists
<1>9. ASSUME BackfillReadsKeywords PROVE MirrorInv'
  BY <1>9 DEF MirrorInv, BackendsKnown, MirrorAgrees, BackfillReadsKeywords, TypeOK
<1>10. ASSUME BackfillStops PROVE MirrorInv'
  BY <1>10 DEF MirrorInv, BackendsKnown, MirrorAgrees, BackfillStops, NoQueue
<1>11. ASSUME UNCHANGED <<embedding, backend, mirror, service, job, queue, tool, unmirrored>>
       PROVE  MirrorInv'
  BY <1>11 DEF MirrorInv, BackendsKnown, MirrorAgrees
<1> QED
  BY <1>2, <1>3, <1>5, <1>6, <1>7, <1>8, <1>9, <1>10, <1>11
     DEF Next, Server, Backfill, vars, Delete, toolVars

-----------------------------------------------------------------------------
(* Where the documents come from.                                          *)

HeldTitle(c, doc)    == \E d \in held[c] : d.title = doc.title
HeldKeywords(c, doc) == \E d \in held[c] : d.keywords = doc.keywords

(* Nobody has an entry for a chunk that does not exist yet, and every      *)
(* entry for a live chunk was read while it was live.                      *)
HeldEntries ==
  /\ \A c \in Chunks : Live(c) => document[owner[c]] \in held[c]
  /\ \A c \in Chunks : owner[c] = None => ~Pending(c)
  /\ \A s \in Slots : job[s] # None /\ Live(job[s].chunk) => job[s].doc \in held[job[s].chunk]
  /\ \A c \in Chunks : queue[c] # None /\ Live(c) =>
       HeldTitle(c, queue[c]) /\ (~listing => HeldKeywords(c, queue[c]))

HeldInv == HeldEntries /\ EmbeddingWasCurrent

(* What anybody is going to record for a live chunk was read while that    *)
(* chunk was live, so it is one of the documents the chunk has held.       *)
LEMMA HeldInvariance == TypeOK /\ NoOrphans /\ HeldInv /\ [Next]_vars => HeldInv'
<1> SUFFICES ASSUME TypeOK, NoOrphans, HeldInv, [Next]_vars PROVE HeldInv'
  OBVIOUS
<1> USE DocumentAssumption, IndexAssumption
<1> USE DEF HeldEntries, Pending, PendingIn
<1>1. ASSUME NEW m \in Memories, NEW c \in Chunks, NEW doc \in Documents, Save(m, c, doc)
      PROVE  HeldInv'
  <2>1. \A d \in Chunks : owner[d] # m
    BY <1>1 DEF NoOrphans, Save
  <2>2. \A d \in Chunks : owner'[d] = IF d = c THEN m ELSE owner[d]
    BY <1>1 DEF TypeOK, Save
  <2>3. \A d \in Chunks : held'[d] = IF d = c THEN {doc} ELSE held[d]
    BY <1>1 DEF TypeOK, Save
  <2>4. ~Pending(c) /\ embedding[c] = None /\ owner[c] = None
    <3>1. owner[c] = None
      BY <1>1 DEF Save
    <3>2. ~Pending(c)
      BY <3>1 DEF HeldInv
    <3> QED BY <3>1, <3>2 DEF NoOrphans, Live
  <2>5. \A d \in Chunks : Live(d)' => document'[owner'[d]] \in held'[d]
    BY <1>1, <2>1, <2>2, <2>3 DEF HeldInv, Live, Save, TypeOK
  <2>6. \A d \in Chunks : owner'[d] = None => ~Pending(d)'
    BY <1>1, <2>2 DEF HeldInv, Save, StartsIndexing, toolVars, TypeOK, Entry
  <2>7. ASSUME NEW s \in Slots, job'[s] # None, Live(job[s].chunk)'
        PROVE  job'[s].doc \in held'[job'[s].chunk]
    <3>1. CASE job'[s] = job[s]
      <4>1. job[s].chunk \in Chunks \ {c}
        BY <2>4, <2>7, <3>1 DEF TypeOK, Entry
      <4> QED BY <2>2, <2>3, <2>7, <3>1, <4>1 DEF HeldInv, Live
    <3>2. CASE job'[s] # job[s]
      <4>1. job'[s] = [chunk |-> c, doc |-> doc]
        BY <1>1, <3>2 DEF Save, StartsIndexing, TypeOK
      <4> QED BY <2>3, <4>1
    <3> QED BY <3>1, <3>2
  <2>8. ASSUME NEW d \in Chunks, queue'[d] # None, Live(d)'
        PROVE  HeldTitle(d, queue[d])' /\ (~listing' => HeldKeywords(d, queue[d])')
    BY <1>1, <2>2, <2>3, <2>4, <2>8 DEF HeldInv, Live, Save, toolVars, HeldTitle, HeldKeywords
  <2>9. EmbeddingWasCurrent'
    BY <1>1, <2>3, <2>4 DEF HeldInv, EmbeddingWasCurrent, Save
  <2> QED BY <2>5, <2>6, <2>7, <2>8, <2>9 DEF HeldInv
<1>2. ASSUME NEW m \in Memories, NEW c \in Chunks, NEW doc \in Documents, Retitle(m, c, doc)
      PROVE  HeldInv'
  <2>1. \A d \in Chunks : held[d] \subseteq held'[d] /\ doc \in held'[c]
    BY <1>2 DEF TypeOK, Retitle
  <2>2. \A d \in Chunks : Live(d) /\ d # c => owner[d] # m
    BY <1>2 DEF NoOrphans, Live, Retitle
  <2>3. \A d \in Chunks : Live(d)' => document'[owner'[d]] \in held'[d]
    BY <1>2, <2>1, <2>2 DEF HeldInv, Live, Retitle, TypeOK
  <2>4. \A d \in Chunks : owner'[d] = None => ~Pending(d)'
    BY <1>2 DEF HeldInv, Retitle, StartsIndexing, toolVars, TypeOK, Entry
  <2>5. ASSUME NEW s \in Slots, job'[s] # None, Live(job[s].chunk)'
        PROVE  job'[s].doc \in held'[job'[s].chunk]
    <3>1. CASE job'[s] = job[s]
      <4>1. job[s].chunk \in Chunks
        BY <2>5, <3>1 DEF TypeOK, Entry
      <4> QED BY <1>2, <2>1, <2>5, <3>1, <4>1 DEF HeldInv, Live, Retitle
    <3>2. CASE job'[s] # job[s]
      <4>1. job'[s] = [chunk |-> c, doc |-> doc]
        BY <1>2, <3>2 DEF Retitle, StartsIndexing, TypeOK
      <4> QED BY <2>1, <4>1
    <3> QED BY <3>1, <3>2
  <2>6. ASSUME NEW d \in Chunks, queue'[d] # None, Live(d)'
        PROVE  HeldTitle(d, queue[d])' /\ (~listing' => HeldKeywords(d, queue[d])')
    BY <1>2, <2>1, <2>6 DEF HeldInv, Live, Retitle, toolVars, HeldTitle, HeldKeywords
  <2>7. EmbeddingWasCurrent'
    BY <1>2, <2>1 DEF HeldInv, EmbeddingWasCurrent, Retitle
  <2> QED BY <2>3, <2>4, <2>5, <2>6, <2>7 DEF HeldInv
<1>3. ASSUME NEW m \in Memories, NEW old \in Chunks, NEW new \in Chunks, NEW doc \in Documents,
             Rewrite(m, old, new, doc)
      PROVE  HeldInv'
  <2>1. \A d \in Chunks : owner'[d] = IF d = old THEN "gone" ELSE IF d = new THEN m ELSE owner[d]
    BY <1>3 DEF TypeOK, Rewrite
  <2>2. /\ old # new /\ m # "gone" /\ "gone" \notin Memories
        /\ \A d \in Chunks : owner[d] = m => d = old
    BY <1>3 DEF Rewrite, NoOrphans, Live
  <2>3. \A d \in Chunks : held'[d] = IF d = old THEN {} ELSE IF d = new THEN {doc} ELSE held[d]
    BY <1>3, <2>2 DEF TypeOK, Rewrite
  <2>4. ~Pending(new) /\ embedding[new] = None /\ owner[new] = None
    BY <1>3 DEF HeldInv, NoOrphans, Live, Rewrite
  <2>5. ASSUME NEW d \in Chunks, Live(d)' PROVE document'[owner'[d]] \in held'[d]
    <3>1. d # old
      BY <2>1, <2>2, <2>5 DEF Live
    <3>2. CASE d = new
      BY <1>3, <2>1, <2>3, <3>1, <3>2 DEF Rewrite, TypeOK
    <3>3. CASE d # new
      <4>1. owner'[d] = owner[d] /\ owner[d] # m /\ held'[d] = held[d]
        BY <2>1, <2>2, <2>3, <3>1, <3>3
      <4>2. document'[owner[d]] = document[owner[d]]
        BY <1>3, <2>5, <4>1 DEF Rewrite, TypeOK, Live
      <4> QED BY <2>5, <4>1, <4>2 DEF HeldInv, Live
    <3> QED BY <3>2, <3>3
  <2>6. ASSUME NEW d \in Chunks, owner'[d] = None PROVE ~Pending(d)'
    <3>1. owner[d] = None /\ d # new /\ d # old
      BY <2>1, <2>2, <2>6
    <3> QED BY <1>3, <3>1 DEF HeldInv, Rewrite, StartsIndexing, toolVars, TypeOK
  <2>7. ASSUME NEW s \in Slots, job'[s] # None, Live(job[s].chunk)'
        PROVE  job'[s].doc \in held'[job'[s].chunk]
    <3>1. CASE job'[s] = job[s]
      <4>1. job[s].chunk \in Chunks \ {new, old}
        BY <2>1, <2>2, <2>4, <2>7, <3>1 DEF TypeOK, Entry, Live
      <4>2. owner'[job[s].chunk] = owner[job[s].chunk] /\ held'[job[s].chunk] = held[job[s].chunk]
        BY <2>1, <2>3, <4>1
      <4>3. job[s].doc \in held[job[s].chunk]
        BY <2>7, <3>1, <4>2 DEF HeldInv, Live
      <4> QED BY ONLY <3>1, <4>2, <4>3
    <3>2. CASE job'[s] # job[s]
      <4>1. job'[s] = [chunk |-> new, doc |-> doc]
        BY <1>3, <3>2 DEF Rewrite, StartsIndexing, TypeOK
      <4> QED BY <2>2, <2>3, <4>1
    <3> QED BY <3>1, <3>2
  <2>8. ASSUME NEW d \in Chunks, queue'[d] # None, Live(d)'
        PROVE  HeldTitle(d, queue[d])' /\ (~listing' => HeldKeywords(d, queue[d])')
    <3>1. d # old /\ d # new /\ queue' = queue /\ listing' = listing
      BY <1>3, <2>1, <2>2, <2>4, <2>8 DEF Live, Rewrite, toolVars
    <3>2. Live(d) /\ held'[d] = held[d]
      BY <2>1, <2>3, <2>8, <3>1 DEF Live
    <3> QED BY <2>8, <3>1, <3>2 DEF HeldInv, HeldTitle, HeldKeywords
  <2>9. ASSUME NEW d \in Chunks, embedding'[d] # None
        PROVE  /\ \E h \in held'[d] : h.title = embedding'[d].title
               /\ \E h \in held'[d] : h.keywords = embedding'[d].keywords
    <3>1. d # old /\ d # new /\ embedding'[d] = embedding[d]
      BY <1>3, <2>4, <2>9 DEF Rewrite, TypeOK
    <3> QED BY <2>3, <2>9, <3>1 DEF HeldInv, EmbeddingWasCurrent
  <2> QED BY <2>5, <2>6, <2>7, <2>8, <2>9 DEF HeldInv, EmbeddingWasCurrent
<1>4. ASSUME NEW entry \in Entry, NEW outcome, NEW via, NEW jobs, NEW q,
             Record(entry, outcome, via, jobs, q), UNCHANGED <<memoryVars, held>>,
             Live(entry.chunk) => /\ HeldTitle(entry.chunk, entry.doc)
                                  /\ HeldKeywords(entry.chunk, entry.doc)
      PROVE  EmbeddingWasCurrent'
  <2>1. ASSUME NEW d \in Chunks, embedding'[d] # None
        PROVE  /\ \E h \in held'[d] : h.title = embedding'[d].title
               /\ \E h \in held'[d] : h.keywords = embedding'[d].keywords
    <3>1. CASE embedding'[d] = embedding[d]
      BY <1>4, <2>1, <3>1 DEF HeldInv, EmbeddingWasCurrent
    <3>2. CASE embedding'[d] # embedding[d]
      <4>1. d = entry.chunk /\ embedding'[d] = entry.doc /\ Live(d)
        BY <1>4, <3>2 DEF Record, Accepts, TypeOK, Entry
      <4> QED BY <1>4, <4>1 DEF HeldTitle, HeldKeywords
    <3> QED BY <3>1, <3>2
  <2> QED BY <2>1 DEF EmbeddingWasCurrent
<1>5. ASSUME NEW s \in Slots, RequestRecords(s) PROVE HeldInv'
  <2>1. job[s] \in Entry
    BY <1>5 DEF RequestRecords, TypeOK
  <2>2. Live(job[s].chunk) => HeldTitle(job[s].chunk, job[s].doc) /\ HeldKeywords(job[s].chunk, job[s].doc)
    BY <1>5, <2>1 DEF HeldInv, HeldTitle, HeldKeywords, RequestRecords
  <2>3. EmbeddingWasCurrent'
    BY <1>4, <1>5, <2>1, <2>2 DEF RequestRecords
  <2>4. HeldEntries'
    BY <1>5 DEF RequestRecords, HeldInv, Live, memoryVars, toolVars, TypeOK, HeldTitle, HeldKeywords
  <2> QED BY <2>3, <2>4 DEF HeldInv
<1>6. ASSUME NEW c \in Chunks, NEW outcome, BackfillRecords(c, outcome) PROVE HeldInv'
  <2>1. [chunk |-> c, doc |-> queue[c]] \in Entry
    BY <1>6 DEF BackfillRecords, TypeOK, Entry
  <2>2. Live(c) => HeldTitle(c, queue[c]) /\ HeldKeywords(c, queue[c])
    BY <1>6 DEF HeldInv, BackfillRecords
  <2>3. EmbeddingWasCurrent'
    BY <1>4, <1>6, <2>1, <2>2 DEF BackfillRecords
  <2>4. \A d \in Chunks : queue'[d] # None => queue'[d] = queue[d]
    BY <1>6 DEF BackfillRecords, TypeOK
  <2>5. HeldEntries'
    BY <1>6, <2>4 DEF BackfillRecords, HeldInv, Live, memoryVars, HeldTitle, HeldKeywords
  <2> QED BY <2>3, <2>5 DEF HeldInv
<1>7. ASSUME NEW force \in BOOLEAN, BackfillLists(force) PROVE HeldInv'
  <2>1. PICK B \in Batches(Candidates(force)) :
          queue' = [c \in Chunks |-> IF c \in B
                                     THEN [title |-> document[owner[c]].title, keywords |-> Empty]
                                     ELSE None]
    BY <1>7 DEF BackfillLists
  <2>2. ASSUME NEW c \in Chunks, queue'[c] # None
        PROVE  Live(c) /\ HeldTitle(c, queue'[c])
    <3>1. c \in B /\ Live(c) /\ queue'[c].title = document[owner[c]].title
      BY <2>1, <2>2 DEF Batches, Candidates
    <3> QED BY <3>1 DEF HeldInv, HeldTitle
  <2>3. UNCHANGED <<memoryVars, embedding, job, held>> /\ listing' = TRUE
    BY <1>7 DEF BackfillLists
  <2>4. HeldEntries'
    BY <2>2, <2>3 DEF HeldInv, Live, memoryVars, HeldTitle
  <2> QED BY <2>3, <2>4 DEF HeldInv, EmbeddingWasCurrent
<1>8. ASSUME BackfillReadsKeywords PROVE HeldInv'
  <2>1. ASSUME NEW c \in Chunks, queue'[c] # None, Live(c)
        PROVE  HeldTitle(c, queue'[c]) /\ HeldKeywords(c, queue'[c])
    <3>1. queue[c] \in Doc /\ queue'[c] = [queue[c] EXCEPT !.keywords = document[owner[c]].keywords]
      BY <1>8, <2>1 DEF BackfillReadsKeywords, TypeOK
    <3>2. queue'[c].title = queue[c].title /\ queue'[c].keywords = document[owner[c]].keywords
      BY <3>1 DEF Doc
    <3>3. HeldTitle(c, queue[c]) /\ document[owner[c]] \in held[c]
      BY <2>1, <3>1 DEF HeldInv
    <3> QED BY <3>2, <3>3 DEF HeldTitle, HeldKeywords
  <2>2. \A c \in Chunks : queue'[c] # None => queue[c] # None
    BY <1>8 DEF BackfillReadsKeywords, TypeOK
  <2>3. UNCHANGED <<memoryVars, embedding, job, held>>
    BY <1>8 DEF BackfillReadsKeywords
  <2>4. HeldEntries'
    BY <2>1, <2>2, <2>3 DEF HeldInv, Live, memoryVars, HeldTitle, HeldKeywords
  <2> QED BY <2>3, <2>4 DEF HeldInv, EmbeddingWasCurrent
<1>9. ASSUME NEW m \in Memories, Delete(m) PROVE HeldInv'
  BY <1>9 DEF HeldInv, Live, Delete, toolVars, HeldTitle, HeldKeywords, EmbeddingWasCurrent
<1>10. ASSUME NEW config \in Backends \cup {None}, Restart(config) PROVE HeldInv'
  BY <1>10 DEF HeldInv, Live, Restart, memoryVars, toolVars, HeldTitle, HeldKeywords,
                EmbeddingWasCurrent
<1>11. ASSUME BackfillStops PROVE HeldInv'
  BY <1>11 DEF HeldInv, Live, BackfillStops, NoQueue, memoryVars, EmbeddingWasCurrent
<1>12. ASSUME UNCHANGED vars PROVE HeldInv'
  BY <1>12 DEF HeldInv, Live, vars, HeldTitle, HeldKeywords, EmbeddingWasCurrent
<1> QED
  BY <1>1, <1>2, <1>3, <1>5, <1>6, <1>7, <1>8, <1>9, <1>10, <1>11, <1>12
     DEF Next, Server, Backfill

-----------------------------------------------------------------------------
(* What undisturbed indexing achieves.                                     *)

(* Every entry for the chunk is current, and its status is truthful unless *)
(* a request is about to make it so.                                       *)
Undisturbed(c) ==
  /\ \A s \in Slots : job[s] # None /\ job[s].chunk = c => job[s].doc = document[owner[c]]
  /\ queue[c] # None =>
       /\ queue[c].title = document[owner[c]].title
       /\ ~listing => queue[c].keywords = document[owner[c]].keywords
  /\ Truthful(c) \/ \E s \in Slots : job[s] # None /\ job[s].chunk = c

UndisturbedInv == \A c \in Chunks \ disturbed : Live(c) => Undisturbed(c)

(* A result recorded for an undisturbed chunk makes its status truthful;   *)
(* it leaves the other chunks alone.                                       *)
LEMMA RecordIsTruthful ==
  ASSUME TypeOK, NEW entry \in Entry, NEW outcome \in Outcomes(entry.doc), NEW via, NEW jobs, NEW q,
         Record(entry, outcome, via, jobs, q), UNCHANGED memoryVars,
         Live(entry.chunk) /\ entry.chunk \notin disturbed => entry.doc = document[owner[entry.chunk]]
  PROVE  /\ Live(entry.chunk) /\ entry.chunk \notin disturbed' => Truthful(entry.chunk)'
         /\ Live(entry.chunk) /\ entry.chunk \in disturbed /\ entry.chunk \notin disturbed' =>
              ~PendingIn(entry.chunk, jobs, q)
         /\ \A d \in Chunks \ {entry.chunk} :
              (d \in disturbed' <=> d \in disturbed) /\ (Truthful(d)' <=> Truthful(d))
<1> DEFINE c == entry.chunk
<1>1. c \in Chunks
  BY DEF Entry
<1>2. ASSUME Live(c), c \notin disturbed'
      PROVE  Truthful(c)' /\ (c \in disturbed => ~PendingIn(c, jobs, q))
  <2>1. Accepts(c, outcome)
    BY <1>1, <1>2 DEF Record
  <2>2. entry.doc = document[owner[c]] /\ (c \in disturbed => ~PendingIn(c, jobs, q))
    BY <1>1, <1>2, <2>1 DEF Record
  <2>3. status'[c] = outcome /\ (outcome = "indexed" => embedding'[c] = entry.doc)
    BY <1>1, <2>1 DEF Record, UpsertStatus, TypeOK
  <2>4. outcome # "unrecorded" /\ document'[owner'[c]] = document[owner[c]]
    BY <2>1 DEF Accepts, memoryVars
  <2> QED BY <2>2, <2>3, <2>4 DEF Outcomes, Truthful
<1>3. ASSUME NEW d \in Chunks \ {c}
      PROVE  (d \in disturbed' <=> d \in disturbed) /\ (Truthful(d)' <=> Truthful(d))
  <2>1. status'[d] = status[d] /\ embedding'[d] = embedding[d]
    BY <1>1, <1>3 DEF Record, TypeOK
  <2>2. d \in disturbed' <=> d \in disturbed
    BY <1>3 DEF Record
  <2> QED BY <2>1, <2>2 DEF Truthful, memoryVars
<1> QED BY <1>2, <1>3

(* A chunk nobody had an entry for is undisturbed when one request takes   *)
(* up its current document.                                                *)
LEMMA OnlyJob ==
  ASSUME TypeOK, NEW c \in Chunks, NEW doc \in Doc, NEW s \in Slots,
         job' = [job EXCEPT ![s] = [chunk |-> c, doc |-> doc]], UNCHANGED queue,
         ~Pending(c), document'[owner'[c]] = doc
  PROVE  Undisturbed(c)'
<1>1. [chunk |-> c, doc |-> doc] # None
  BY DocumentAssumption DEF Entry
<1>2. queue'[c] = None
  BY DEF Pending, PendingIn
<1>3. job'[s] = [chunk |-> c, doc |-> doc]
  BY DEF TypeOK
<1>4. \A t \in Slots : job'[t] # None /\ job'[t].chunk = c => t = s
  BY DEF Pending, PendingIn, TypeOK
<1> QED BY <1>1, <1>2, <1>3, <1>4 DEF Undisturbed

(* An undisturbed chunk is truthful, or is in exactly one hand and that    *)
(* hand holds the current document.                                        *)
LEMMA UndisturbedInvariance ==
  TypeOK /\ NoOrphans /\ HeldInv /\ UndisturbedInv /\ [Next]_vars => UndisturbedInv'
<1> SUFFICES ASSUME TypeOK, NoOrphans, HeldInv, UndisturbedInv, [Next]_vars,
                    NEW c \in Chunks, c \notin disturbed', Live(c)'
             PROVE  Undisturbed(c)'
  BY DEF UndisturbedInv
<1> USE DocumentAssumption, IndexAssumption
<1>1. ASSUME NEW m \in Memories, NEW b \in Chunks, NEW doc \in Documents, Save(m, b, doc)
      PROVE  Undisturbed(c)'
  <2>1. owner' = [owner EXCEPT ![b] = m] /\ document' = [document EXCEPT ![m] = doc]
    BY <1>1 DEF Save
  <2>2. ~Pending(b) /\ \A d \in Chunks : owner[d] # m
    BY <1>1 DEF HeldInv, HeldEntries, NoOrphans, Save
  <2>3. UNCHANGED <<status, embedding, queue, listing>>
    BY <1>1 DEF Save, toolVars
  <2>4. CASE c = b
    <3>1. service # None /\ document'[owner'[c]] = doc
      BY <1>1, <2>1, <2>4 DEF Save, TypeOK
    <3>2. PICK s \in Slots : job[s] = None /\ job' = [job EXCEPT ![s] = [chunk |-> c, doc |-> doc]]
      BY <1>1, <2>4, <3>1 DEF Save, StartsIndexing
    <3> QED BY <2>2, <2>3, <2>4, <3>1, <3>2, OnlyJob
  <2>5. CASE c # b
    <3>1. Live(c) /\ owner'[c] = owner[c] /\ document'[owner'[c]] = document[owner[c]]
      BY <2>1, <2>2, <2>5 DEF TypeOK, Live
    <3>2. Undisturbed(c)
      BY <1>1, <2>5, <3>1 DEF UndisturbedInv, Save
    <3>3. \A s \in Slots : job'[s] # None /\ job'[s].chunk = c <=> job[s] # None /\ job[s].chunk = c
      BY <1>1, <2>5 DEF Save, StartsIndexing, TypeOK
    <3>4. \A s \in Slots : job'[s] # None /\ job'[s].chunk = c => job'[s] = job[s]
      BY <1>1, <2>5 DEF Save, StartsIndexing, TypeOK
    <3> QED BY <2>3, <3>1, <3>2, <3>3, <3>4 DEF Undisturbed, Truthful
  <2> QED BY <2>4, <2>5
<1>2. ASSUME NEW m \in Memories, NEW b \in Chunks, NEW doc \in Documents, Retitle(m, b, doc)
      PROVE  Undisturbed(c)'
  <2>1. UNCHANGED <<owner, status, embedding, queue, listing>> /\ document' = [document EXCEPT ![m] = doc]
    BY <1>2 DEF Retitle, toolVars
  <2>2. Live(c) /\ owner[b] = m /\ c \notin disturbed
    BY <1>2, <2>1 DEF Retitle, Live
  <2>3. Undisturbed(c)
    BY <2>2 DEF UndisturbedInv
  <2>4. CASE c = b
    <3>1. document'[owner'[c]] = doc
      BY <2>1, <2>2, <2>4 DEF TypeOK
    <3>2. CASE doc = document[m]
      <4>1. \A s \in Slots : job'[s] = job[s] \/ job'[s] = [chunk |-> c, doc |-> doc]
        BY <1>2, <2>4 DEF Retitle, StartsIndexing, TypeOK
      <4>2. \A s \in Slots : job[s] # None => job'[s] = job[s]
        BY <1>2 DEF Retitle, StartsIndexing, TypeOK
      <4> QED BY <2>1, <2>2, <2>3, <2>4, <3>1, <3>2, <4>1, <4>2 DEF Undisturbed, Truthful
    <3>3. CASE doc # document[m]
      <4>1. service # None /\ ~Pending(c)
        BY <1>2, <2>4, <3>3 DEF Retitle
      <4>2. PICK s \in Slots : job[s] = None /\ job' = [job EXCEPT ![s] = [chunk |-> c, doc |-> doc]]
        BY <1>2, <2>4, <4>1 DEF Retitle, StartsIndexing
      <4> QED BY <2>1, <3>1, <4>1, <4>2, OnlyJob
    <3> QED BY <3>2, <3>3
  <2>5. CASE c # b
    <3>1. owner[c] # m /\ document'[owner'[c]] = document[owner[c]]
      BY <2>1, <2>2, <2>5 DEF TypeOK, Live, NoOrphans
    <3>2. \A s \in Slots : job'[s] # None /\ job'[s].chunk = c <=> job[s] # None /\ job[s].chunk = c
      BY <1>2, <2>5 DEF Retitle, StartsIndexing, TypeOK
    <3>3. \A s \in Slots : job'[s] # None /\ job'[s].chunk = c => job'[s] = job[s]
      BY <1>2, <2>5 DEF Retitle, StartsIndexing, TypeOK
    <3> QED BY <2>1, <2>3, <3>1, <3>2, <3>3 DEF Undisturbed, Truthful
  <2> QED BY <2>4, <2>5
<1>3. ASSUME NEW m \in Memories, NEW old \in Chunks, NEW new \in Chunks, NEW doc \in Documents,
             Rewrite(m, old, new, doc)
      PROVE  Undisturbed(c)'
  <2>1. \A d \in Chunks : owner'[d] = IF d = old THEN "gone" ELSE IF d = new THEN m ELSE owner[d]
    BY <1>3 DEF TypeOK, Rewrite
  <2>2. old # new /\ ~Pending(new) /\ c # old /\ \A d \in Chunks : owner[d] = m => d = old
    <3>1. owner[old] = m /\ owner[new] = None /\ m # None
      BY <1>3 DEF Rewrite
    <3>2. c # old
      BY <2>1 DEF Live
    <3>3. \A d \in Chunks : owner[d] = m => d = old
      BY <3>1 DEF NoOrphans, Live
    <3> QED BY <3>1, <3>2, <3>3 DEF HeldInv, HeldEntries
  <2>3. UNCHANGED <<queue, listing>> /\ document' = [document EXCEPT ![m] = doc]
    BY <1>3 DEF Rewrite, toolVars
  <2>4. CASE c = new
    <3>1. service # None /\ document'[owner'[c]] = doc
      BY <1>3, <2>1, <2>2, <2>3, <2>4 DEF Rewrite, TypeOK
    <3>2. PICK s \in Slots : job[s] = None /\ job' = [job EXCEPT ![s] = [chunk |-> c, doc |-> doc]]
      BY <1>3, <2>4, <3>1 DEF Rewrite, StartsIndexing
    <3> QED BY <2>2, <2>3, <2>4, <3>1, <3>2, OnlyJob
  <2>5. CASE c # new
    <3>1. Live(c) /\ owner'[c] = owner[c] /\ document'[owner'[c]] = document[owner[c]]
      BY <2>1, <2>2, <2>3, <2>5 DEF TypeOK, Live
    <3>2. Undisturbed(c)
      BY <1>3, <2>2, <3>1 DEF UndisturbedInv, Rewrite
    <3>3. \A s \in Slots : job'[s] # None /\ job'[s].chunk = c <=> job[s] # None /\ job[s].chunk = c
      BY <1>3, <2>5 DEF Rewrite, StartsIndexing, TypeOK
    <3>4. \A s \in Slots : job'[s] # None /\ job'[s].chunk = c => job'[s] = job[s]
      BY <1>3, <2>5 DEF Rewrite, StartsIndexing, TypeOK
    <3>5. status'[c] = status[c] /\ embedding'[c] = embedding[c]
      BY <1>3, <2>2 DEF Rewrite, TypeOK
    <3> QED BY <2>3, <3>1, <3>2, <3>3, <3>4, <3>5 DEF Undisturbed, Truthful
  <2> QED BY <2>4, <2>5
<1>4. ASSUME NEW s \in Slots, RequestRecords(s) PROVE Undisturbed(c)'
  <2>0. PICK entry \in Entry : job[s] = entry
    BY <1>4 DEF RequestRecords, TypeOK
  <2>a. PICK rest : rest = [job EXCEPT ![s] = None]
    OBVIOUS
  <2>1. job' = rest /\ UNCHANGED <<memoryVars, queue, listing>>
    BY <1>4, <2>a DEF RequestRecords, toolVars
  <2>2. PICK outcome \in Outcomes(entry.doc) : Record(entry, outcome, service, rest, queue)
    BY <1>4, <2>0, <2>a DEF RequestRecords
  <2>3. Live(entry.chunk) /\ entry.chunk \notin disturbed => entry.doc = document[owner[entry.chunk]]
    <3>1. entry.chunk \in Chunks /\ entry # None
      BY <1>4, <2>0 DEF Entry, RequestRecords
    <3> QED BY <2>0, <3>1 DEF UndisturbedInv, Undisturbed
  <2>4. /\ Live(entry.chunk) /\ entry.chunk \notin disturbed' => Truthful(entry.chunk)'
        /\ Live(entry.chunk) /\ entry.chunk \in disturbed /\ entry.chunk \notin disturbed' =>
             ~PendingIn(entry.chunk, rest, queue)
        /\ \A d \in Chunks \ {entry.chunk} :
             (d \in disturbed' <=> d \in disturbed) /\ (Truthful(d)' <=> Truthful(d))
    BY <2>1, <2>2, <2>3, RecordIsTruthful
  <2>5. Live(c) /\ document'[owner'[c]] = document[owner[c]]
    BY <2>1 DEF memoryVars, Live
  <2>6. \A t \in Slots : job'[t] # None => t # s /\ job'[t] = job[t]
    BY <2>1, <2>a DEF TypeOK
  <2>7. CASE c \notin disturbed
    <3>1. Undisturbed(c)
      BY <2>5, <2>7 DEF UndisturbedInv
    <3>2. Truthful(c)' \/ \E t \in Slots : job'[t] # None /\ job'[t].chunk = c
      <4>1. CASE c = entry.chunk
        BY <2>4, <2>5, <4>1
      <4>2. CASE c # entry.chunk
        <5>1. \A t \in Slots : t # s => job'[t] = job[t]
          BY <2>1, <2>a DEF TypeOK
        <5> QED BY <2>0, <2>4, <3>1, <4>2, <5>1 DEF Undisturbed
      <4> QED BY <4>1, <4>2
    <3> QED BY <2>1, <2>5, <2>6, <3>1, <3>2 DEF Undisturbed
  <2>8. CASE c \in disturbed
    <3>1. c = entry.chunk
      BY <2>4, <2>8
    <3>2. Truthful(c)' /\ ~PendingIn(c, rest, queue)
      BY <2>4, <2>5, <2>8, <3>1
    <3> QED BY <2>1, <3>2 DEF Undisturbed, PendingIn
  <2> QED BY <2>7, <2>8
<1>5. ASSUME NEW b \in Chunks, NEW outcome, BackfillRecords(b, outcome) PROVE Undisturbed(c)'
  <2>a. PICK doc \in Doc : queue[b] = doc
    BY <1>5 DEF BackfillRecords, TypeOK
  <2>b. PICK entry \in Entry : entry = [chunk |-> b, doc |-> doc]
    BY DEF Entry
  <2>c. PICK rest : rest = [queue EXCEPT ![b] = None]
    OBVIOUS
  <2>1. /\ queue' = rest /\ ~listing /\ queue[b] \in Doc
        /\ entry.chunk = b /\ entry.doc = queue[b]
        /\ UNCHANGED <<memoryVars, job, listing>>
    BY <1>5, <2>a, <2>b, <2>c DEF BackfillRecords
  <2>2. outcome \in Outcomes(entry.doc) /\ Record(entry, outcome, tool, job, rest)
    BY <1>5, <2>a, <2>b, <2>c DEF BackfillRecords
  <2>3. Live(b) /\ b \notin disturbed => entry.doc = document[owner[b]]
    <3>1. ASSUME Live(b), b \notin disturbed
          PROVE  /\ queue[b].title = document[owner[b]].title
                 /\ queue[b].keywords = document[owner[b]].keywords
      BY <1>5, <2>1, <3>1 DEF UndisturbedInv, Undisturbed, BackfillRecords
    <3>2. Live(b) => document[owner[b]] \in Doc
      <4>1. Live(b) => owner[b] \in Memories /\ document[owner[b]] # None
        BY DEF Live, NoOrphans
      <4> QED BY <4>1 DEF TypeOK
    <3> QED BY <2>1, <3>1, <3>2 DEF Doc
  <2>4. /\ Live(b) /\ b \notin disturbed' => Truthful(b)'
        /\ Live(b) /\ b \in disturbed /\ b \notin disturbed' => ~PendingIn(b, job, rest)
        /\ \A d \in Chunks \ {b} :
             (d \in disturbed' <=> d \in disturbed) /\ (Truthful(d)' <=> Truthful(d))
    BY <2>1, <2>2, <2>3, RecordIsTruthful
  <2>5. Live(c) /\ document'[owner'[c]] = document[owner[c]]
    BY <2>1 DEF memoryVars, Live
  <2>6. \A d \in Chunks : queue'[d] # None => queue'[d] = queue[d]
    BY <2>1, <2>c DEF TypeOK
  <2>7. CASE c \notin disturbed
    <3>1. Undisturbed(c)
      BY <2>5, <2>7 DEF UndisturbedInv
    <3>2. Truthful(c)' \/ \E t \in Slots : job'[t] # None /\ job'[t].chunk = c
      BY <2>1, <2>4, <2>5, <3>1 DEF Undisturbed
    <3> QED BY <2>1, <2>5, <2>6, <3>1, <3>2 DEF Undisturbed
  <2>8. CASE c \in disturbed
    <3>1. c = b
      BY <2>4, <2>8
    <3>2. Truthful(c)' /\ ~PendingIn(c, job, rest)
      BY <2>4, <2>5, <2>8, <3>1
    <3> QED BY <2>1, <3>2 DEF Undisturbed, PendingIn
  <2> QED BY <2>7, <2>8
<1>6. ASSUME NEW config, Restart(config) PROVE Undisturbed(c)'
  <2>1. /\ UNCHANGED <<memoryVars, embedding, status, queue, listing>>
        /\ Live(c) /\ c \notin disturbed
        /\ \A s \in Slots : job[s] # None => job[s].chunk # c
        /\ \A s \in Slots : job'[s] = None
    BY <1>6 DEF Restart, memoryVars, toolVars, Live
  <2>2. Undisturbed(c)
    BY <2>1 DEF UndisturbedInv
  <2> QED BY <2>1, <2>2 DEF Undisturbed, Truthful, memoryVars
<1>7. ASSUME NEW force, BackfillLists(force) PROVE Undisturbed(c)'
  <2>1. /\ UNCHANGED <<memoryVars, embedding, status, job, disturbed>> /\ listing' = TRUE
        /\ queue'[c] # None => queue'[c].title = document[owner[c]].title
    BY <1>7 DEF BackfillLists
  <2>2. Undisturbed(c)
    BY <2>1 DEF UndisturbedInv, memoryVars, Live
  <2> QED BY <2>1, <2>2 DEF Undisturbed, Truthful, memoryVars
<1>8. ASSUME BackfillReadsKeywords PROVE Undisturbed(c)'
  <2>1. UNCHANGED <<memoryVars, embedding, status, job, disturbed>> /\ Live(c)
    BY <1>8 DEF BackfillReadsKeywords, memoryVars, Live
  <2>2. Undisturbed(c)
    BY <2>1 DEF UndisturbedInv
  <2>3. ASSUME queue'[c] # None
        PROVE  /\ queue'[c].title = document[owner[c]].title
               /\ queue'[c].keywords = document[owner[c]].keywords
    <3>1. queue[c] \in Doc /\ queue'[c] = [queue[c] EXCEPT !.keywords = document[owner[c]].keywords]
      BY <1>8, <2>1, <2>3 DEF BackfillReadsKeywords, TypeOK
    <3>2. queue'[c].title = queue[c].title /\ queue'[c].keywords = document[owner[c]].keywords
      BY <3>1 DEF Doc
    <3> QED BY <2>2, <3>1, <3>2 DEF Undisturbed
  <2> QED BY <2>1, <2>2, <2>3 DEF Undisturbed, Truthful, memoryVars
<1>9. ASSUME BackfillStops PROVE Undisturbed(c)'
  <2>1. /\ UNCHANGED <<memoryVars, embedding, status, job, disturbed>> /\ Live(c)
        /\ queue'[c] = None
    BY <1>9 DEF BackfillStops, NoQueue, memoryVars, Live
  <2>2. Undisturbed(c)
    BY <2>1 DEF UndisturbedInv
  <2> QED BY <2>1, <2>2 DEF Undisturbed, Truthful, memoryVars
<1>10. ASSUME UNCHANGED <<document, owner, embedding, status, job, queue, listing, disturbed>>
       PROVE  Undisturbed(c)'
  <2>1. Live(c) /\ Undisturbed(c)
    BY <1>10 DEF Live, UndisturbedInv
  <2> QED BY <1>10, <2>1 DEF Undisturbed, Truthful
<1> QED
  BY <1>1, <1>2, <1>3, <1>4, <1>5, <1>6, <1>7, <1>8, <1>9, <1>10
     DEF Next, Server, Backfill, Delete, vars, toolVars

-----------------------------------------------------------------------------
(* The theorems.                                                           *)

IInv ==
  TypeOK /\ NoOrphans /\ IndexedMeansStored /\ MirrorInv /\ HeldInv /\ UndisturbedInv

(* Nothing is stored, indexed or disturbed at first.                       *)
LEMMA Initially == Init => IInv
<1> SUFFICES ASSUME Init PROVE IInv
  OBVIOUS
<1> USE DocumentAssumption, IndexAssumption
<1>1. TypeOK
  BY DEF Init, TypeOK, NoQueue
<1>2. NoOrphans /\ IndexedMeansStored /\ UndisturbedInv
  BY DEF Init, NoOrphans, IndexedMeansStored, UndisturbedInv, Live
<1>3. MirrorInv
  BY DEF Init, MirrorInv, BackendsKnown, MirrorAgrees, NoQueue
<1>4. HeldInv
  BY DEF Init, HeldInv, HeldEntries, EmbeddingWasCurrent, Live, Pending, PendingIn, NoQueue
<1> QED BY <1>1, <1>2, <1>3, <1>4 DEF IInv

(* The parts of IInv are preserved one by one.                             *)
LEMMA Invariance == Spec => []IInv
<1>1. IInv /\ [Next]_vars => IInv'
  BY TypeInvariance, OrphanInvariance, StoredInvariance, MirrorInvariance, HeldInvariance,
     UndisturbedInvariance DEF IInv
<1> QED BY Initially, <1>1, PTL DEF Spec

(* The type invariant.  It needs NoOrphans: the backfill reads the title   *)
(* of the memory a live chunk belongs to.                                  *)
THEOREM IndexTypeCorrect == Spec => []TypeOK
<1>1. IInv => TypeOK
  BY DEF IInv
<1> QED BY Invariance, <1>1, PTL

(* Nothing is left of, or written late to, a replaced chunk, and every     *)
(* memory has one chunk (ReplaceChunks and the foreign keys).              *)
THEOREM NoOrphansHolds == Spec => []NoOrphans
<1>1. IInv => NoOrphans
  BY DEF IInv
<1> QED BY Invariance, <1>1, PTL

(* `indexed' means that the embedding is there and is the one the status   *)
(* names (the one transaction of indexMemoryEmbedding).                    *)
THEOREM IndexedMeansStoredHolds == Spec => []IndexedMeansStored
<1>1. IInv => IndexedMeansStored
  BY DEF IInv
<1> QED BY Invariance, <1>1, PTL

(* The sqlite-vec rows agree with the embeddings as long as the backend is *)
(* sqlite-vec (upsertSQLiteVecRow, deleteSQLiteVecRowsForMemory).          *)
THEOREM MirrorAgreesHolds == Spec => []MirrorAgrees
<1>1. IInv => MirrorAgrees
  BY DEF IInv, MirrorInv
<1> QED BY Invariance, <1>1, PTL

(* An embedding shows a title and keywords the memory had while the chunk  *)
(* was live (the captured chunk id of Save, Update and the backfill).      *)
THEOREM EmbeddingWasCurrentHolds == Spec => []EmbeddingWasCurrent
<1>1. IInv => EmbeddingWasCurrent
  BY DEF IInv, HeldInv
<1> QED BY Invariance, <1>1, PTL

(* The status of a quiet chunk is truthful unless its indexing was         *)
(* overtaken, lost or off, for any number of requests that race with each  *)
(* other and with the backfill.                                            *)
THEOREM AccountedForHolds == Spec => []AccountedFor
<1>1. IInv => AccountedFor
  BY DEF IInv, UndisturbedInv, Undisturbed, AccountedFor, Pending, PendingIn
<1> QED BY Invariance, <1>1, PTL

-----------------------------------------------------------------------------
(* The backfill catches up (BackfillCatchesUp, under FairSpec).            *)

(* The queue of the backfill, per chunk.                                   *)
Queued(c) == queue[c] # None
Drained   == queue = NoQueue
Turn(c)   == ~listing /\ Queued(c) /\ \A d \in Chunks : Queued(d) => c <= d

(* The rest of an entry of the queue: what only clears it.                 *)
TitleQueued(c) == Queued(c) => queue[c].title # Empty

(* What is done to the queue while something is missing.                   *)
LEMMA QueueSteps ==
  ASSUME TypeOK, NoOrphans, [Next]_vars
  PROVE  \/ queue' = queue /\ listing' = listing
         \/ \E force \in BOOLEAN : BackfillLists(force)
         \/ BackfillReadsKeywords
         \/ \E c \in Chunks : \E outcome \in Statuses \cup {"unrecorded"} : BackfillRecords(c, outcome)
         \/ Drained' /\ ~listing'
<1>1. CASE Server
  <2>1. ASSUME NEW m \in Memories, NEW c \in Chunks, NEW doc \in Documents,
               Save(m, c, doc) \/ Retitle(m, c, doc)
        PROVE  queue' = queue /\ listing' = listing
    BY <2>1 DEF Save, Retitle, toolVars
  <2>2. ASSUME NEW m \in Memories, NEW c \in Chunks, NEW doc \in Documents, NEW new \in Chunks,
               Rewrite(m, c, new, doc)
        PROVE  queue' = queue /\ listing' = listing
    BY <2>2 DEF Rewrite, toolVars
  <2>3. ASSUME NEW m \in Memories, Delete(m)
        PROVE  queue' = queue /\ listing' = listing
    BY <2>3 DEF Delete, toolVars
  <2>4. ASSUME NEW s \in Slots, RequestRecords(s)
        PROVE  queue' = queue /\ listing' = listing
    BY <2>4 DEF RequestRecords, toolVars
  <2>5. ASSUME NEW config, Restart(config)
        PROVE  queue' = queue /\ listing' = listing
    BY <2>5 DEF Restart, toolVars
  <2> QED BY <1>1, <2>1, <2>2, <2>3, <2>4, <2>5 DEF Server
<1>4. CASE UNCHANGED vars
  BY <1>4 DEF vars
<1>2. CASE Backfill \/ BackfillLists(TRUE)
  BY <1>2 DEF Backfill
<1>3. CASE BackfillStops
  BY <1>3 DEF BackfillStops, Drained
<1> QED BY <1>1, <1>2, <1>3, <1>4 DEF Next

(* What a memory says is what a client wrote.                              *)
Written == \A m \in Memories : document[m] # None => document[m] \in Documents

(* Save and Update are the only ones that change a document.              *)
LEMMA WrittenHolds == Spec => []Written
<1>1. Init => Written
  BY DEF Init, Written
<1>2. TypeOK /\ Written /\ [Next]_vars => Written'
  <2> SUFFICES ASSUME TypeOK, Written, [Next]_vars PROVE Written'
    OBVIOUS
  <2>1. ASSUME NEW m \in Memories, NEW c \in Chunks, NEW doc \in Documents,
               Save(m, c, doc) \/ Retitle(m, c, doc)
        PROVE  Written'
    BY <2>1 DEF Save, Retitle, TypeOK, Written
  <2>2. ASSUME NEW m \in Memories, NEW c \in Chunks, NEW doc \in Documents, NEW new \in Chunks,
               Rewrite(m, c, new, doc)
        PROVE  Written'
    BY <2>2 DEF Rewrite, TypeOK, Written
  <2>3. CASE UNCHANGED document
    BY <2>3 DEF Written
  <2>4. ASSUME NEW m \in Memories, Delete(m)
        PROVE  UNCHANGED document
    BY <2>4 DEF Delete
  <2>5. ASSUME NEW s \in Slots, RequestRecords(s)
        PROVE  UNCHANGED document
    BY <2>5 DEF RequestRecords, memoryVars
  <2>6. ASSUME NEW config, Restart(config)
        PROVE  UNCHANGED document
    BY <2>6 DEF Restart, memoryVars
  <2>7. ASSUME NEW force, BackfillLists(force)
        PROVE  UNCHANGED document
    BY <2>7 DEF BackfillLists, memoryVars
  <2>8. ASSUME NEW c, NEW outcome, BackfillRecords(c, outcome)
        PROVE  UNCHANGED document
    BY <2>8 DEF BackfillRecords, memoryVars
  <2>9. CASE BackfillReadsKeywords \/ BackfillStops \/ UNCHANGED vars
    BY <2>9, <2>3 DEF BackfillReadsKeywords, BackfillStops, memoryVars, vars
  <2> QED BY <2>1, <2>2, <2>3, <2>4, <2>5, <2>6, <2>7, <2>8, <2>9 DEF Next, Server, Backfill
<1> QED BY <1>1, <1>2, IndexTypeCorrect, PTL DEF Spec

(* Whoever writes keywords writes a title.                                 *)
Titled == \A doc \in Documents : Blank(doc) \/ doc.title # Empty

(* With room for every chunk, a listing takes every chunk that is missing. *)
LEMMA MissingListed ==
  ASSUME TypeOK, NoOrphans, Written, Titled,
         IsFiniteSet(Chunks), Cardinality(Chunks) <= Limit,
         NEW c \in Chunks, Missing(c), NEW force \in BOOLEAN, BackfillLists(force)
  PROVE  Queued(c)' /\ TitleQueued(c)' /\ listing' /\ Drained
<1>1. PICK B \in Batches(Candidates(force)) :
        queue' = [d \in Chunks |-> IF d \in B
                                   THEN [title |-> document[owner[d]].title, keywords |-> Empty]
                                   ELSE None]
  BY DEF BackfillLists
<1>2. c \in Candidates(force)
  BY DEF Missing, Candidates
<1>3. c \in B
  <2>1. CASE B = Candidates(force)
    BY <2>1, <1>2
  <2>2. CASE B # Candidates(force)
    <3>1. Candidates(force) \subseteq Chunks /\ B \subseteq Candidates(force)
      BY DEF Batches, Candidates
    <3>2. B \subseteq Chunks /\ B # Chunks
      BY <3>1, <2>2
    <3>3. Cardinality(B) < Cardinality(Chunks) /\ Cardinality(B) \in Nat /\ Cardinality(Chunks) \in Nat
      BY <3>2, FS_Subset, FS_CardinalityType
    <3>4. Cardinality(B) = Limit
      BY <2>2 DEF Batches
    <3> QED BY <3>3, <3>4
  <2> QED BY <2>1, <2>2
<1>4. document[owner[c]] \in Doc
  BY DEF Missing, Live, NoOrphans, TypeOK
<1>5. document[owner[c]].title # Empty
  BY <1>4, DocFields DEF Missing, Live, Written, Titled
<1>6. [title |-> document[owner[c]].title, keywords |-> Empty] # None
  BY <1>4, DocFields
<1>7. queue'[c] = [title |-> document[owner[c]].title, keywords |-> Empty]
  BY <1>1, <1>3
<1> QED BY <1>5, <1>6, <1>7 DEF Queued, TitleQueued, Drained, BackfillLists


(* The second query reads keywords: nothing leaves the queue, and no title *)
(* changes.                                                                *)
LEMMA ReadingKeeps ==
  ASSUME TypeOK, NoOrphans, BackfillReadsKeywords, NEW c \in Chunks
  PROVE  /\ listing /\ ~listing' /\ Queued(c)' = Queued(c)
         /\ TitleQueued(c) => TitleQueued(c)'
<1>1. listing /\ ~listing'
  BY DEF BackfillReadsKeywords
<1>2. queue'[c] = IF queue[c] # None /\ Live(c)
                  THEN [queue[c] EXCEPT !.keywords = document[owner[c]].keywords] ELSE queue[c]
  BY DEF BackfillReadsKeywords
<1>3. CASE Queued(c) /\ Live(c)
  <2>1. queue[c] \in Doc /\ document[owner[c]] \in Doc
    BY <1>3 DEF TypeOK, NoOrphans, Queued, Live
  <2>2. queue'[c] = [queue[c] EXCEPT !.keywords = document[owner[c]].keywords]
    BY <1>2, <1>3 DEF Queued
  <2>3. queue'[c] \in Doc
    BY <2>1, <2>2, DocFields
  <2>4. queue'[c].title = queue[c].title
    BY <2>1, <2>2 DEF Doc
  <2>5. queue'[c] # None
    BY <2>3, DocFields
  <2> QED BY <1>1, <1>3, <2>4, <2>5 DEF Queued, TitleQueued
<1>4. CASE ~(Queued(c) /\ Live(c))
  <2>1. queue'[c] = queue[c]
    BY <1>2, <1>4 DEF Queued
  <2> QED BY <1>1, <2>1 DEF Queued, TitleQueued
<1> QED BY <1>3, <1>4

(* A chunk's entry is recorded in its turn, and leaves the queue.          *)
LEMMA RecordingTakes ==
  ASSUME TypeOK, NEW c \in Chunks, NEW outcome, BackfillRecords(c, outcome)
  PROVE  /\ Turn(c) /\ ~listing' /\ ~Queued(c)'
         /\ \A d \in Chunks \ {c} : Queued(d)' = Queued(d) /\ (TitleQueued(d) => TitleQueued(d)')
<1>1. queue' = [queue EXCEPT ![c] = None] /\ ~listing /\ listing' = listing /\ queue[c] # None
  BY DEF BackfillRecords
<1>2. \A d \in Chunks : queue[d] # None => c <= d
  BY DEF BackfillRecords
<1>3. queue'[c] = None /\ \A d \in Chunks \ {c} : queue'[d] = queue[d]
  BY <1>1 DEF TypeOK
<1> QED BY <1>1, <1>2, <1>3 DEF Turn, Queued, TitleQueued

(* What a step does to the queue.                                          *)
LEMMA QueueMoves ==
  ASSUME TypeOK, NoOrphans, [Next]_vars
  PROVE  \/ listing' = listing /\ \A c \in Chunks : Queued(c)' = Queued(c) /\ TitleQueued(c)' = TitleQueued(c)
         \/ listing' /\ \E force \in BOOLEAN : BackfillLists(force)
         \/ /\ listing /\ ~listing'
            /\ \A c \in Chunks : Queued(c)' = Queued(c) /\ (TitleQueued(c) => TitleQueued(c)')
         \/ \E c \in Chunks :
              /\ Turn(c) /\ ~listing' /\ ~Queued(c)'
              /\ \A d \in Chunks \ {c} : Queued(d)' = Queued(d) /\ (TitleQueued(d) => TitleQueued(d)')
         \/ ~listing' /\ \A c \in Chunks : ~Queued(c)'
<1>1. CASE queue' = queue /\ listing' = listing
  BY <1>1 DEF Queued, TitleQueued
<1>2. ASSUME NEW force \in BOOLEAN, BackfillLists(force)
      PROVE  listing'
  BY <1>2 DEF BackfillLists
<1>3. CASE BackfillReadsKeywords
  <2>1. listing /\ ~listing'
    BY <1>3 DEF BackfillReadsKeywords
  <2>2. \A c \in Chunks : Queued(c)' = Queued(c) /\ (TitleQueued(c) => TitleQueued(c)')
    BY <1>3, ReadingKeeps
  <2> QED BY <2>1, <2>2
<1>4. ASSUME NEW c \in Chunks, NEW outcome \in Statuses \cup {"unrecorded"}, BackfillRecords(c, outcome)
      PROVE  /\ Turn(c) /\ ~listing' /\ ~Queued(c)'
             /\ \A d \in Chunks \ {c} : Queued(d)' = Queued(d) /\ (TitleQueued(d) => TitleQueued(d)')
  BY <1>4, RecordingTakes
<1>5. CASE Drained' /\ ~listing'
  <2>1. \A c \in Chunks : queue'[c] = None
    BY <1>5 DEF Drained, NoQueue
  <2> QED BY <1>5, <2>1 DEF Queued
<1> QED BY <1>1, <1>2, <1>3, <1>4, <1>5, QueueSteps


(* What the backfill does to the queue.                                    *)
LEMMA BackfillMoves ==
  ASSUME TypeOK, NoOrphans, Backfill
  PROVE  \/ listing'
         \/ listing /\ ~listing'
         \/ \E c \in Chunks :
              /\ Turn(c) /\ ~listing' /\ ~Queued(c)'
              /\ \A d \in Chunks \ {c} : Queued(d)' = Queued(d)
<1>1. CASE BackfillLists(FALSE)
  BY <1>1 DEF BackfillLists
<1>2. CASE BackfillReadsKeywords
  BY <1>2 DEF BackfillReadsKeywords
<1>3. ASSUME NEW c \in Chunks, NEW outcome \in Statuses \cup {"unrecorded"}, BackfillRecords(c, outcome)
      PROVE  /\ Turn(c) /\ ~listing' /\ ~Queued(c)'
             /\ \A d \in Chunks \ {c} : Queued(d)' = Queued(d)
  BY <1>3, RecordingTakes
<1> QED BY <1>1, <1>2, <1>3 DEF Backfill

(* When the backfill can take a step: it has something to list, keywords   *)
(* to read or an entry to record; and the call for an entry may succeed.   *)
CanSucceed(c) == ENABLED <<BackfillSucceeds(c)>>_vars
BackfillEnabled ==
  /\ Backends # {} /\ (\E c \in Chunks : Missing(c)) => ENABLED <<Backfill>>_vars
  /\ listing => ENABLED <<BackfillReadsKeywords>>_vars
  /\ \A c \in Chunks : Turn(c) => CanSucceed(c)

IndexFacts == TypeOK /\ NoOrphans /\ Written /\ BackfillEnabled

(* How much of the queue is left.                                          *)
Whole(a, b) == ~listing /\ Queued(a) /\ Queued(b)
Half(a, b)  == ~listing /\ (Queued(a) <=> ~Queued(b))
Resting(a, b) == ~listing /\ ~Queued(a) /\ ~Queued(b)

(* The backfill is repeated and not always interrupted.                    *)
FairTool == WF_vars(Backfill) /\ SF_vars(BackfillReadsKeywords)

Relists(c) == []Missing(c) => []<>listing

(* The queue runs empty and, while a chunk is missing, is filled again.    *)
LEMMA ListsAgain ==
  ASSUME NEW a, NEW b, Chunks = {a, b}, a < b, Backends # {}, NEW c \in Chunks
  PROVE  [][Next]_vars /\ []IndexFacts /\ FairTool => Relists(c)
<1> a \in Chunks /\ b \in Chunks /\ a \in Nat /\ b \in Nat
  BY IndexAssumption
<1>1. IndexFacts /\ Whole(a, b) /\ [Next]_vars =>
        (Whole(a, b) \/ Half(a, b) \/ Resting(a, b) \/ listing)'
  BY QueueMoves DEF IndexFacts, Whole, Half, Resting
<1>2. IndexFacts /\ Whole(a, b) /\ <<Backfill>>_vars => (Half(a, b) \/ listing)'
  BY BackfillMoves DEF IndexFacts, Whole, Half
<1>3. IndexFacts /\ Half(a, b) /\ [Next]_vars => (Half(a, b) \/ Resting(a, b) \/ listing)'
  BY QueueMoves DEF IndexFacts, Half, Resting, Turn
<1>4. IndexFacts /\ Half(a, b) /\ <<Backfill>>_vars => (Resting(a, b) \/ listing)'
  BY BackfillMoves DEF IndexFacts, Half, Resting, Turn
<1>5. IndexFacts /\ Resting(a, b) /\ [Next]_vars => (Resting(a, b) \/ listing)'
  BY QueueMoves DEF IndexFacts, Resting, Turn
<1>6. IndexFacts /\ Resting(a, b) /\ <<Backfill>>_vars => listing'
  BY BackfillMoves DEF IndexFacts, Resting, Turn
<1>7. IndexFacts /\ Missing(c) => ENABLED <<Backfill>>_vars
  BY DEF IndexFacts, BackfillEnabled
<1>8. listing \/ Whole(a, b) \/ Half(a, b) \/ Resting(a, b)
  BY DEF Whole, Half, Resting
<1> QED BY <1>1, <1>2, <1>3, <1>4, <1>5, <1>6, <1>7, <1>8, PTL DEF FairTool, Relists

(* A listing has what is missing, and its title, until it is recorded.     *)
Kept(c) == TitleQueued(c) /\ (listing => Queued(c))

(* It is so from the first listing on.                                     *)
LEMMA KeptFromListing ==
  ASSUME TypeOK, NoOrphans, Written, Titled, IsFiniteSet(Chunks), Cardinality(Chunks) <= Limit,
         NEW c \in Chunks, Missing(c), [Next]_vars
  PROVE  /\ ~listing => (~listing \/ Kept(c))'
         /\ Kept(c) => Kept(c)'
<1>1. ASSUME NEW force \in BOOLEAN, BackfillLists(force)
      PROVE  Kept(c)'
  BY <1>1, MissingListed DEF Kept
<1>2. CASE listing' = listing /\ \A d \in Chunks : Queued(d)' = Queued(d) /\ TitleQueued(d)' = TitleQueued(d)
  BY <1>2 DEF Kept
<1>3. CASE ~listing' /\ (TitleQueued(c) => TitleQueued(c)')
  BY <1>3 DEF Kept
<1>4. CASE ~listing' /\ ~Queued(c)'
  BY <1>4 DEF Kept, TitleQueued
<1> QED BY <1>1, <1>2, <1>3, <1>4, QueueMoves


(* Two chunks in their order.                                              *)
LEMMA TwoChunks ==
  ASSUME NEW a, NEW b, Chunks = {a, b}
  PROVE  a \in Chunks /\ b \in Chunks /\ a \in Nat /\ b \in Nat /\ IsFiniteSet(Chunks)
<1>1. IsFiniteSet({a})
  BY FS_Singleton
<1>2. IsFiniteSet({a} \cup {b})
  BY <1>1, FS_AddElement
<1>3. Chunks = {a} \cup {b}
  OBVIOUS
<1> QED BY <1>2, <1>3, IndexAssumption

(* A recorded success puts the embedding there.                            *)
LEMMA SuccessStores ==
  ASSUME TypeOK, NoOrphans, NEW c \in Chunks, Missing(c), TitleQueued(c), BackfillSucceeds(c)
  PROVE  ~Missing(c)'
<1>1. PICK outcome \in {"indexed", "skipped"} : BackfillRecords(c, outcome)
  BY DEF BackfillSucceeds
<1>2. queue[c] \in Doc /\ queue[c] # None /\ queue[c].title # Empty
  BY <1>1 DEF BackfillRecords, TitleQueued, Queued, TypeOK
<1>3. outcome = "indexed"
  BY <1>1, <1>2 DEF BackfillRecords, Outcomes, Blank
<1> DEFINE entry == [chunk |-> c, doc |-> queue[c]]
<1>4. Record(entry, outcome, tool, job, [queue EXCEPT ![c] = None])
  BY <1>1 DEF BackfillRecords
<1>5. Live(c)
  BY DEF Missing
<1>6. embedding' = [embedding EXCEPT ![c] = queue[c]]
  BY <1>3, <1>4, <1>5 DEF Record, Accepts
<1>7. embedding'[c] # None
  BY <1>2, <1>6, DocFields DEF TypeOK
<1> QED BY <1>7 DEF Missing

(* The turn of the first chunk comes with every listing, and that of the   *)
(* second when the first is recorded or not in the queue.                  *)
Ordered(a, b) == Queued(a) => Queued(b)

(* The second stays in the queue behind the first.                         *)
LEMMA OrderedFromListing ==
  ASSUME TypeOK, NoOrphans, Written, Titled, NEW a, NEW b, Chunks = {a, b}, a < b, Cardinality(Chunks) <= Limit,
         Missing(b), [Next]_vars
  PROVE  /\ ~listing => (~listing \/ Ordered(a, b))'
         /\ Ordered(a, b) => Ordered(a, b)'
<1> a \in Chunks /\ b \in Chunks /\ a \in Nat /\ b \in Nat /\ IsFiniteSet(Chunks)
  BY TwoChunks
<1>1. ASSUME NEW force \in BOOLEAN, BackfillLists(force)
      PROVE  Ordered(a, b)'
  BY <1>1, MissingListed DEF Ordered
<1>2. CASE (listing' = listing \/ ~listing') /\ \A d \in Chunks : Queued(d)' = Queued(d)
  BY <1>2 DEF Ordered
<1>3. ASSUME NEW c \in Chunks, Turn(c), ~listing', ~Queued(c)', \A d \in Chunks \ {c} : Queued(d)' = Queued(d)
      PROVE  ~listing' /\ (Ordered(a, b) => Ordered(a, b)')
  BY <1>3 DEF Ordered, Turn
<1>4. CASE ~listing' /\ \A c \in Chunks : ~Queued(c)'
  BY <1>4 DEF Ordered
<1> QED BY <1>1, <1>2, <1>3, <1>4, QueueMoves

(* The first chunk does not stay missing.                                  *)
LEMMA FirstCaughtUp ==
  ASSUME Titled, Backends # {},
         NEW a, NEW b, Chunks = {a, b}, a < b, Cardinality(Chunks) <= Limit
  PROVE  [][Next]_vars /\ []IndexFacts /\ FairTool /\ FairChunk(a)
         => (Missing(a) ~> ~Missing(a))
<1> a \in Chunks /\ b \in Chunks /\ a \in Nat /\ b \in Nat /\ IsFiniteSet(Chunks)
  BY TwoChunks
<1>1. [][Next]_vars /\ []IndexFacts /\ FairTool => Relists(a)
  BY ListsAgain
<1>2. IndexFacts /\ listing => ENABLED <<BackfillReadsKeywords>>_vars
  BY DEF IndexFacts, BackfillEnabled
<1>3. IndexFacts /\ Kept(a) /\ <<BackfillReadsKeywords>>_vars => (~listing /\ Queued(a))'
  BY ReadingKeeps DEF IndexFacts, Kept
<1>4. IndexFacts /\ <<BackfillReadsKeywords>>_vars => ~listing'
  BY DEF BackfillReadsKeywords
<1>5. IndexFacts /\ Missing(a) /\ [Next]_vars => (~listing => (~listing \/ Kept(a))')
  BY KeptFromListing DEF IndexFacts
<1>6. IndexFacts /\ Missing(a) /\ Kept(a) /\ [Next]_vars => Kept(a)'
  BY KeptFromListing DEF IndexFacts
<1>7. IndexFacts /\ ~listing /\ Queued(a) => ENABLED <<BackfillSucceeds(a)>>_vars
  <2>1. IndexFacts => (Turn(a) => CanSucceed(a))
    BY DEF IndexFacts, BackfillEnabled
  <2> QED BY <2>1 DEF Turn, CanSucceed
<1>8. IndexFacts /\ Missing(a) /\ Kept(a) /\ <<BackfillSucceeds(a)>>_vars => ~Missing(a)'
  BY SuccessStores DEF IndexFacts, Kept
<1> QED BY <1>1, <1>2, <1>3, <1>4, <1>5, <1>6, <1>7, <1>8, PTL DEF FairTool, FairChunk, Relists


(* Nor does the second: when the calls for the first succeed again and     *)
(* again, its turn comes again and again.                                  *)
LEMMA SecondCaughtUp ==
  ASSUME Titled, Backends # {},
         NEW a, NEW b, Chunks = {a, b}, a < b, Cardinality(Chunks) <= Limit
  PROVE  [][Next]_vars /\ []IndexFacts /\ FairTool /\ FairChunk(a) /\ FairChunk(b)
         => (Missing(b) ~> ~Missing(b))
<1> a \in Chunks /\ b \in Chunks /\ a \in Nat /\ b \in Nat /\ IsFiniteSet(Chunks)
  BY TwoChunks
<1>1. [][Next]_vars /\ []IndexFacts /\ FairTool => Relists(b)
  BY ListsAgain
<1>2. IndexFacts /\ listing => ENABLED <<BackfillReadsKeywords>>_vars
  BY DEF IndexFacts, BackfillEnabled
<1>3. IndexFacts /\ Kept(b) /\ <<BackfillReadsKeywords>>_vars => (~listing /\ Queued(b))'
  BY ReadingKeeps DEF IndexFacts, Kept
<1>4. IndexFacts /\ <<BackfillReadsKeywords>>_vars => ~listing'
  BY DEF BackfillReadsKeywords
<1>5. IndexFacts /\ Missing(b) /\ [Next]_vars => (~listing => (~listing \/ (Kept(b) /\ Ordered(a, b)))')
  BY KeptFromListing, OrderedFromListing DEF IndexFacts
<1>6. IndexFacts /\ Missing(b) /\ Kept(b) /\ Ordered(a, b) /\ [Next]_vars => (Kept(b) /\ Ordered(a, b))'
  BY KeptFromListing, OrderedFromListing DEF IndexFacts
<1>7. IndexFacts /\ ~listing /\ Queued(b) =>
        ENABLED <<BackfillSucceeds(a)>>_vars \/ ENABLED <<BackfillSucceeds(b)>>_vars
  <2>1. IndexFacts => (Turn(a) => CanSucceed(a)) /\ (Turn(b) => CanSucceed(b))
    BY DEF IndexFacts, BackfillEnabled
  <2> QED BY <2>1 DEF Turn, CanSucceed
<1>8. IndexFacts /\ Missing(b) /\ Kept(b) /\ <<BackfillSucceeds(b)>>_vars => ~Missing(b)'
  BY SuccessStores DEF IndexFacts, Kept
<1>9. IndexFacts /\ Ordered(a, b) /\ <<BackfillSucceeds(a)>>_vars => Turn(b)'
  <2> SUFFICES ASSUME IndexFacts, Ordered(a, b), BackfillSucceeds(a)
               PROVE  Turn(b)'
    OBVIOUS
  <2>1. Turn(a) /\ ~listing' /\ ~Queued(a)' /\ Queued(b)' = Queued(b)
    BY RecordingTakes DEF IndexFacts, BackfillSucceeds
  <2> QED BY <2>1 DEF Turn, Ordered
<1>10. IndexFacts /\ Turn(b) => ENABLED <<BackfillSucceeds(b)>>_vars
  <2>1. IndexFacts => (Turn(b) => CanSucceed(b))
    BY DEF IndexFacts, BackfillEnabled
  <2> QED BY <2>1 DEF CanSucceed
<1>11. [][Next]_vars /\ []IndexFacts /\ FairTool /\ []Missing(b) => []<>listing
  BY <1>1, PTL DEF Relists
<1>12. [][Next]_vars /\ []IndexFacts /\ FairTool /\ []Missing(b) =>
         []<><<BackfillReadsKeywords>>_vars
  BY <1>2, <1>11, PTL DEF FairTool
<1>13. [][Next]_vars /\ []IndexFacts /\ FairTool /\ []Missing(b) => <>[](Kept(b) /\ Ordered(a, b))
  BY <1>4, <1>5, <1>6, <1>11, <1>12, PTL
<1>14. [][Next]_vars /\ []IndexFacts /\ FairTool /\ []Missing(b) => []<>(~listing /\ Queued(b))
  BY <1>3, <1>12, <1>13, PTL
<1>15. [][Next]_vars /\ []IndexFacts /\ FairTool /\ FairChunk(a) /\ []Missing(b) =>
         []<>ENABLED <<BackfillSucceeds(b)>>_vars
  BY <1>7, <1>9, <1>10, <1>13, <1>14, PTL DEF FairChunk
<1>16. [][Next]_vars /\ []IndexFacts /\ FairTool /\ FairChunk(a) /\ FairChunk(b) => ~[]Missing(b)
  BY <1>8, <1>13, <1>15, PTL DEF FairChunk
<1>17. FairTool /\ FairChunk(a) /\ FairChunk(b) => [](FairTool /\ FairChunk(a) /\ FairChunk(b))
  BY PTL DEF FairTool, FairChunk
<1> QED BY <1>16, <1>17, PTL

CaughtUp(c) == Missing(c) ~> ~Missing(c)

(* A repeated backfill indexes what is missing, whatever the server and    *)
(* the clients do meanwhile, however calls fail and commands are           *)
(* interrupted, if the limit covers the chunks and no memory has keywords  *)
(* without a title (backfillEmbeddings, ListEmbeddingBackfillCandidates).  *)
(* It is for two chunks, the second in the queue behind the first: the     *)
(* provers have no induction over a longer queue.                          *)
THEOREM BackfillCatchesUpHolds ==
  ASSUME Titled, Backends # {},
         NEW a, NEW b, Chunks = {a, b}, a < b, Cardinality(Chunks) <= Limit
  PROVE  FairSpec /\ []BackfillEnabled => BackfillCatchesUp
<1>1. FairSpec => Spec /\ FairTool /\ FairChunk(a) /\ FairChunk(b)
  <2>1. a \in Chunks /\ b \in Chunks
    BY TwoChunks
  <2>2. (\A c \in Chunks : FairChunk(c)) => FairChunk(a) /\ FairChunk(b)
    BY <2>1
  <2> QED BY <2>2, PTL DEF FairSpec, FairTool
<1>2. IInv /\ Written /\ BackfillEnabled => IndexFacts
  BY DEF IInv, IndexFacts
<1>3. FairSpec /\ []BackfillEnabled => CaughtUp(a)
  BY <1>1, <1>2, FirstCaughtUp, Invariance, WrittenHolds, PTL DEF Spec, CaughtUp
<1>4. FairSpec /\ []BackfillEnabled => CaughtUp(b)
  BY <1>1, <1>2, SecondCaughtUp, Invariance, WrittenHolds, PTL DEF Spec, CaughtUp
<1>5. BackfillCatchesUp <=> \A c \in Chunks : CaughtUp(c)
  BY DEF BackfillCatchesUp, CaughtUp
<1> QED BY <1>3, <1>4, <1>5

=============================================================================
