---------------------------- MODULE EmbeddingIndex ----------------------------
(***************************************************************************)
(* The embedding index pamie keeps beside its memories: the rows of        *)
(* memory_embeddings, embedding_index_status and the sqlite-vec mirror     *)
(* (internal/db/memory_repository.go), filled by Save and Update after     *)
(* their transaction has committed, and by `pamie embeddings backfill',    *)
(* another process on the same database (internal/memory/service.go).      *)
(*                                                                         *)
(* Indexing works on a copy of the title and the keywords, for the chunk   *)
(* that was current when the copy was made: the provider is called outside *)
(* any transaction, and the result is recorded in one of its own.          *)
(*                                                                         *)
(* One target (provider, model, dimensions, scope) is in use.  A document  *)
(* is what the provider embeds, so an embedding is represented by the      *)
(* document it was computed from, and a content_hash by the document.      *)
(***************************************************************************)
EXTENDS Naturals, FiniteSets

CONSTANTS
  Memories,   \* memory ids
  Chunks,     \* chunk ids, naturals in the order of (created_at, id); none is reused
  Titles,     \* non-blank titles
  Keywords,   \* non-empty lists of keywords
  Documents,  \* the titles and keywords clients write
  Slots,      \* bound: requests of the server that index at the same time
  Backends,   \* the backends a process may be configured with
  Limit,      \* --limit of the backfill
  None        \* no row, no value

Empty == ""    \* a blank title, an empty list of keywords

ASSUME IndexAssumption ==
  /\ Chunks \subseteq Nat
  /\ Backends \subseteq {"sqlite-json", "sqlite-vec"}
  /\ Limit \in Nat \ {0}
  /\ Empty \notin Titles \cup Keywords
  /\ Chunks \cap Memories = {}
  /\ None \notin Memories \cup Backends \cup {"gone", "indexed", "skipped", "failed"}
  /\ "gone" \notin Memories

Doc   == [title : Titles \cup {Empty}, keywords : Keywords \cup {Empty}]

(* buildTitleKeywordsEmbeddingDocument returns no document.                *)
Blank(doc) == doc.title = Empty /\ doc.keywords = Empty

Entry == [chunk : Chunks, doc : Doc]

ASSUME DocumentAssumption == None \notin Doc \cup Entry /\ Documents \subseteq Doc

NoQueue == [c \in Chunks |-> None]

VARIABLES
  document,    \* per memory: the title and keywords of its rows, or None
  deleted,     \* the memories with deleted_at set
  owner,       \* memory_chunks: the memory of a chunk, None before and "gone" after
  embedding,   \* memory_embeddings: what a chunk's embedding was computed from, or None
  status,      \* embedding_index_status: the status of a chunk, or None
  hash,        \* embedding_index_status: its content_hash, or None
  backend,     \* vector_metadata: the backend of the last recorded embedding, or None
  mirror,      \* the sqlite-vec table: the vector of a chunk's rowid, or None
  service,     \* the server process: its backend, or None without vector search
  job,         \* per slot: the entry the request is indexing, or None
  listing,     \* the backfill has listed its candidates but not their keywords
  queue,       \* per chunk: the document the backfill still has to index, or None
  tool,        \* the backend of the backfill process, or None when there is none
  held,        \* history: the documents a chunk's memory had while the chunk was live
  disturbed,   \* history: chunks whose indexing was overtaken, lost or disabled
  unmirrored   \* history: chunks written or replaced while the backend was sqlite-json

vars == <<document, deleted, owner, embedding, status, hash, backend, mirror,
          service, job, listing, queue, tool, held, disturbed, unmirrored>>
memoryVars == <<document, deleted, owner>>
toolVars   == <<listing, queue, tool>>

Statuses == {"indexed", "skipped", "failed"}

TypeOK ==
  /\ document \in [Memories -> Doc \cup {None}]
  /\ deleted \subseteq Memories
  /\ owner \in [Chunks -> Memories \cup {None, "gone"}]
  /\ embedding \in [Chunks -> Doc \cup {None}]
  /\ status \in [Chunks -> Statuses \cup {None}]
  /\ hash \in [Chunks -> Doc \cup {None}]
  /\ backend \in Backends \cup {None}
  /\ mirror \in [Chunks -> Doc \cup {None}]
  /\ service \in Backends \cup {None}
  /\ job \in [Slots -> Entry \cup {None}]
  /\ listing \in BOOLEAN
  /\ queue \in [Chunks -> Doc \cup {None}]
  /\ tool \in Backends \cup {None}
  /\ held \in [Chunks -> SUBSET Doc]
  /\ disturbed \subseteq Chunks
  /\ unmirrored \subseteq Chunks

Init ==
  /\ document = [m \in Memories |-> None]
  /\ deleted = {}
  /\ owner = [c \in Chunks |-> None]
  /\ embedding = [c \in Chunks |-> None]
  /\ status = [c \in Chunks |-> None]
  /\ hash = [c \in Chunks |-> None]
  /\ backend = None
  /\ mirror = [c \in Chunks |-> None]
  /\ service \in Backends \cup {None}
  /\ job = [s \in Slots |-> None]
  /\ listing = FALSE
  /\ queue = NoQueue
  /\ tool = None
  /\ held = [c \in Chunks |-> {}]
  /\ disturbed = {}
  /\ unmirrored = {}

Live(c) == owner[c] \in Memories

(* Some request or the backfill still has an entry for the chunk.          *)
PendingIn(c, jobs, q) ==
  q[c] # None \/ \E s \in Slots : jobs[s] # None /\ jobs[s].chunk = c
Pending(c) == PendingIn(c, job, queue)

-----------------------------------------------------------------------------
(* Recording a result.                                                     *)

(* What indexMemoryEmbedding may come to for a document.  `unrecorded' is  *)
(* a transaction that fails, which is only logged.                         *)
Outcomes(doc) ==
  IF Blank(doc) THEN {"skipped", "unrecorded"} ELSE {"indexed", "failed", "unrecorded"}

(* Mutant: foreign keys are off.                                           *)
AcceptsReplaced(c, outcome) == outcome # "unrecorded"

(* Mutant: the transaction's error is taken for an outcome.                *)
AcceptsErrors(c, outcome) == Live(c)

(* The transaction commits; its foreign keys refuse a replaced chunk.      *)
Accepts(c, outcome) == Live(c) /\ outcome # "unrecorded"

(* Mutant: the conflict clause leaves out the status column.               *)
KeptStatus(c, outcome) == IF status[c] = None THEN outcome ELSE status[c]

(* UpsertEmbeddingIndexStatus, whether the row exists or not.              *)
UpsertStatus(c, outcome) == outcome

(* The transaction at the end of indexMemoryEmbedding, by a process whose  *)
(* backend is `via'.  `jobs' and `q' are the entries that are left.        *)
Record(entry, outcome, via, jobs, q) ==
  LET c       == entry.chunk
      written == Accepts(c, outcome)
      stored  == written /\ outcome = "indexed"
  IN /\ status' = IF written THEN [status EXCEPT ![c] = UpsertStatus(c, outcome)] ELSE status
     /\ hash' = IF ~written THEN hash
                ELSE [hash EXCEPT ![c] = IF outcome = "skipped" THEN None ELSE entry.doc]
     /\ embedding' = IF stored THEN [embedding EXCEPT ![c] = entry.doc] ELSE embedding
     /\ backend' = IF stored THEN via ELSE backend
     /\ mirror' = IF stored /\ via = "sqlite-vec" THEN [mirror EXCEPT ![c] = entry.doc] ELSE mirror
     /\ unmirrored' = IF ~stored THEN unmirrored
                      ELSE IF via = "sqlite-vec" THEN unmirrored \ {c} ELSE unmirrored \cup {c}
     /\ disturbed' = IF ~Live(c) THEN disturbed
                     ELSE IF ~written THEN disturbed \cup {c}
                     ELSE IF entry.doc = document[owner[c]] /\ ~PendingIn(c, jobs, q)
                          THEN disturbed \ {c} ELSE disturbed

-----------------------------------------------------------------------------
(* The server.                                                             *)

(* Mutant: a chunk that is indexed already is not indexed again.           *)
StartsIndexingOnce(c, doc) ==
  IF service = None \/ status[c] = "indexed"
  THEN job' = job
  ELSE \E s \in Slots : job[s] = None /\ job' = [job EXCEPT ![s] = [chunk |-> c, doc |-> doc]]

(* After its commit a request starts to index the chunk, if the server has *)
(* vector search.                                                          *)
StartsIndexing(c, doc) ==
  IF service = None
  THEN job' = job
  ELSE \E s \in Slots : job[s] = None /\ job' = [job EXCEPT ![s] = [chunk |-> c, doc |-> doc]]

Save(m, c, doc) ==
  /\ document[m] = None /\ owner[c] = None
  /\ document' = [document EXCEPT ![m] = doc]
  /\ owner' = [owner EXCEPT ![c] = m]
  /\ StartsIndexing(c, doc)
  /\ held' = [held EXCEPT ![c] = {doc}]
  /\ disturbed' = IF service = None THEN disturbed \cup {c} ELSE disturbed
  /\ UNCHANGED <<deleted, embedding, status, hash, backend, mirror, service, toolVars, unmirrored>>

(* Update of the title or the keywords: the chunk stays.                   *)
Retitle(m, c, doc) ==
  /\ owner[c] = m /\ m \notin deleted
  /\ document' = [document EXCEPT ![m] = doc]
  /\ StartsIndexing(c, doc)
  /\ held' = [held EXCEPT ![c] = @ \cup {doc}]
  /\ disturbed' = IF doc # document[m] /\ (service = None \/ Pending(c))
                  THEN disturbed \cup {c} ELSE disturbed
  /\ UNCHANGED <<deleted, owner, embedding, status, hash, backend, mirror,
                 service, toolVars, unmirrored>>

(* Mutant: the mirrored vectors are left to the foreign keys.              *)
MirrorKept(old) == mirror

(* deleteSQLiteVecRowsForMemory, for the vectors the metadata knows of.    *)
MirrorWithout(old) ==
  IF embedding[old] # None /\ backend = "sqlite-vec" THEN [mirror EXCEPT ![old] = None] ELSE mirror

(* Mutant: the row read before the update is what gets indexed.            *)
RewriteIndexesCurrent(m, old, new, doc) ==
  /\ owner[old] = m /\ owner[new] = None /\ m \notin deleted
  /\ document' = [document EXCEPT ![m] = doc]
  /\ owner' = [owner EXCEPT ![old] = "gone", ![new] = m]
  /\ embedding' = [embedding EXCEPT ![old] = None]
  /\ status' = [status EXCEPT ![old] = None]
  /\ hash' = [hash EXCEPT ![old] = None]
  /\ mirror' = MirrorWithout(old)
  /\ StartsIndexing(new, document[m])
  /\ held' = [held EXCEPT ![old] = {}, ![new] = {doc}]
  /\ disturbed' = disturbed \ {old}
  /\ UNCHANGED <<deleted, backend, service, toolVars, unmirrored>>

(* Update of the body, and perhaps of the rest: ReplaceChunks deletes the  *)
(* mirrored vectors, and the old chunk with all that refers to it.         *)
Rewrite(m, old, new, doc) ==
  /\ owner[old] = m /\ owner[new] = None /\ m \notin deleted
  /\ document' = [document EXCEPT ![m] = doc]
  /\ owner' = [owner EXCEPT ![old] = "gone", ![new] = m]
  /\ embedding' = [embedding EXCEPT ![old] = None]
  /\ status' = [status EXCEPT ![old] = None]
  /\ hash' = [hash EXCEPT ![old] = None]
  /\ mirror' = MirrorWithout(old)
  /\ StartsIndexing(new, doc)
  /\ held' = [held EXCEPT ![old] = {}, ![new] = {doc}]
  /\ disturbed' = (disturbed \ {old}) \cup (IF service = None THEN {new} ELSE {})
  /\ unmirrored' = IF backend = "sqlite-json" THEN unmirrored \cup {old} ELSE unmirrored
  /\ UNCHANGED <<deleted, backend, service, toolVars>>

(* Deletion is soft and leaves the index alone.                            *)
Delete(m) ==
  /\ document[m] # None /\ m \notin deleted
  /\ deleted' = deleted \cup {m}
  /\ UNCHANGED <<document, owner, embedding, status, hash, backend, mirror, service,
                 job, toolVars, held, disturbed, unmirrored>>

(* The provider has answered, or not, and the request records it.          *)
RequestRecords(s) ==
  /\ job[s] # None
  /\ job' = [job EXCEPT ![s] = None]
  /\ \E outcome \in Outcomes(job[s].doc) :
       Record(job[s], outcome, service, [job EXCEPT ![s] = None], queue)
  /\ UNCHANGED <<memoryVars, service, toolVars, held>>

(* The server dies or is stopped, and comes back, perhaps with another     *)
(* configuration.                                                          *)
Restart(config) ==
  /\ service' = config
  /\ job' = [s \in Slots |-> None]
  /\ disturbed' = disturbed \cup {c \in Chunks : Live(c) /\ \E s \in Slots : job[s] # None /\ job[s].chunk = c}
  /\ UNCHANGED <<memoryVars, embedding, status, hash, backend, mirror, toolVars, held, unmirrored>>

-----------------------------------------------------------------------------
(* The backfill process.                                                   *)

(* Mutant: a chunk with any status but `failed' is done.                   *)
CandidatesByStatus(force) ==
  {c \in Chunks :
     /\ Live(c) /\ owner[c] \notin deleted
     /\ force \/ status[c] \in {None, "failed"}}

(* ListEmbeddingBackfillCandidates, with Force for --reindex.              *)
Candidates(force) ==
  {c \in Chunks :
     /\ Live(c) /\ owner[c] \notin deleted
     /\ force \/ embedding[c] = None \/ status[c] = "failed"}

(* Its ORDER BY created_at, id and its LIMIT.                              *)
Batches(candidates) ==
  {B \in SUBSET candidates :
     /\ Cardinality(B) <= Limit
     /\ B # candidates => Cardinality(B) = Limit
     /\ \A c \in B, d \in candidates \ B : c < d}

(* The first query of the listing reads the titles ...                     *)
BackfillLists(force) ==
  /\ queue = NoQueue
  /\ \E B \in Batches(Candidates(force)) :
       /\ B # {}
       /\ queue' = [c \in Chunks |-> IF c \in B
                                     THEN [title |-> document[owner[c]].title, keywords |-> Empty]
                                     ELSE None]
  /\ listing' = TRUE
  /\ tool' \in Backends
  /\ UNCHANGED <<memoryVars, embedding, status, hash, backend, mirror, service, job,
                 held, disturbed, unmirrored>>

(* ... and the second, in no common transaction, the keywords.             *)
BackfillReadsKeywords ==
  /\ listing
  /\ listing' = FALSE
  /\ queue' = [c \in Chunks |->
       IF queue[c] # None /\ Live(c)
       THEN [queue[c] EXCEPT !.keywords = document[owner[c]].keywords] ELSE queue[c]]
  /\ UNCHANGED <<memoryVars, embedding, status, hash, backend, mirror, service, job,
                 tool, held, disturbed, unmirrored>>

(* Candidates are indexed one after another, in their order; with the last *)
(* the process ends.                                                       *)
BackfillRecords(c, outcome) ==
  LET rest == [queue EXCEPT ![c] = None]
  IN /\ ~listing /\ queue[c] # None
     /\ \A d \in Chunks : queue[d] # None => c <= d
     /\ outcome \in Outcomes(queue[c])
     /\ Record([chunk |-> c, doc |-> queue[c]], outcome, tool, job, rest)
     /\ queue' = rest
     /\ tool' = IF rest = NoQueue THEN None ELSE tool
     /\ UNCHANGED <<memoryVars, service, job, listing, held>>

(* The process is interrupted.                                             *)
BackfillStops ==
  /\ queue # NoQueue
  /\ queue' = NoQueue /\ tool' = None
  /\ listing' = FALSE
  /\ UNCHANGED <<memoryVars, embedding, status, hash, backend, mirror, service, job,
                 held, disturbed, unmirrored>>

-----------------------------------------------------------------------------

Server ==
  \/ \E m \in Memories, c \in Chunks, doc \in Documents :
       \/ Save(m, c, doc)
       \/ Retitle(m, c, doc)
       \/ \E new \in Chunks : Rewrite(m, c, new, doc)
  \/ \E m \in Memories : Delete(m)
  \/ \E s \in Slots : RequestRecords(s)
  \/ \E config \in Backends \cup {None} : Restart(config)

Backfill ==
  \/ BackfillLists(FALSE) \/ BackfillReadsKeywords
  \/ \E c \in Chunks : \E outcome \in Statuses \cup {"unrecorded"} : BackfillRecords(c, outcome)

Next == Server \/ Backfill \/ BackfillLists(TRUE) \/ BackfillStops

Spec == Init /\ [][Next]_vars

(* The operator repeats the backfill and every call of the provider        *)
(* returns; the process is not interrupted every time at the same point,   *)
(* and when a chunk's turn comes again and again, the provider and the     *)
(* database do not fail every time.  Nothing is assumed of the server.     *)
BackfillSucceeds(c) == \E outcome \in {"indexed", "skipped"} : BackfillRecords(c, outcome)
FairChunk(c) == SF_vars(BackfillSucceeds(c))

FairSpec ==
  /\ Spec /\ WF_vars(Backfill) /\ SF_vars(BackfillReadsKeywords)
  /\ \A c \in Chunks : FairChunk(c)

-----------------------------------------------------------------------------
(* Properties.                                                             *)

(* No embedding and no status is left of, or written late to, a chunk that *)
(* has been replaced, and every memory has exactly one chunk: a result     *)
(* that arrives after ReplaceChunks is refused by the foreign key and      *)
(* never lands on the new chunk.                                           *)
NoOrphans ==
  /\ \A c \in Chunks : embedding[c] # None \/ status[c] # None => Live(c)
  /\ \A m \in Memories : document[m] # None <=> \E c \in Chunks : owner[c] = m
  /\ \A c, d \in Chunks : Live(c) /\ owner[c] = owner[d] => c = d

(* `indexed' in the status table always means that the embedding is there  *)
(* and was computed from the document whose hash the status names, however *)
(* requests, backfill and failures follow each other                       *)
(* (indexMemoryEmbedding writes both in one transaction).                  *)
IndexedMeansStored ==
  \A c \in Chunks : status[c] = "indexed" => embedding[c] # None /\ hash[c] = embedding[c]

(* An embedding never shows what the memory said before its body was       *)
(* replaced, nor what another memory says: its title and its keywords are  *)
(* ones the memory had while this chunk was live.  (The backfill reads     *)
(* them in two queries, so not always at the same time.)                   *)
EmbeddingWasCurrent ==
  \A c \in Chunks : embedding[c] # None =>
    /\ \E doc \in held[c] : doc.title = embedding[c].title
    /\ \E doc \in held[c] : doc.keywords = embedding[c].keywords

(* The status tells the truth about the current document of a memory:      *)
(* indexed and fresh, skipped because there is nothing to embed, or failed *)
(* and so due for the next backfill.                                       *)
Truthful(c) ==
  LET doc == document[owner[c]]
  IN \/ status[c] = "indexed" /\ embedding[c] = doc
     \/ status[c] = "skipped" /\ Blank(doc)
     \/ status[c] = "failed"

(* When nobody works on a chunk, its status is truthful, unless its        *)
(* indexing was overtaken by another update, lost with the process or the  *)
(* transaction, or switched off, and no undisturbed indexing has followed  *)
(* (Save, Update, indexMemoryEmbedding, backfillEmbeddings).               *)
AccountedFor ==
  \A c \in Chunks : Live(c) /\ ~Pending(c) /\ c \notin disturbed => Truthful(c)

(* The sqlite-vec table agrees with the embeddings, row for row, for every *)
(* chunk whose rows were never written or replaced under another backend   *)
(* (upsertSQLiteVecRow, deleteSQLiteVecRowsForMemory: no foreign key ties  *)
(* the virtual table).                                                     *)
MirrorAgrees == \A c \in Chunks \ unmirrored : mirror[c] = embedding[c]

(* A repeated backfill indexes every memory that has something to embed    *)
(* and no embedding, after a crash, a failure or an import                 *)
(* (ListEmbeddingBackfillCandidates: its LIMIT must not cut off the same   *)
(* chunks every time).                                                     *)
Missing(c) ==
  Live(c) /\ owner[c] \notin deleted /\ embedding[c] = None /\ ~Blank(document[owner[c]])
BackfillCatchesUp == \A c \in Chunks : Missing(c) ~> ~Missing(c)

(* The same when, from some time on, nothing happens but backfills: the    *)
(* backfill is documented as resumable, so that repeating it works through *)
(* whatever is missing, batch by batch.                                    *)
BackfillIsResumable ==
  <>[][Backfill]_vars => \A c \in Chunks : []<>~Missing(c)

=============================================================================
