# A specification of pamie in TLA+

Pamie is a self-hosted memory service for MCP agents: one Go process, one SQLite
database, an HTTP endpoint with Bearer tokens, a background worker that moves memories
between tiers, an optional index of embeddings, and a command line for operators that
works on the same database. This directory models the parts of it where state, time and
concurrency meet, checks them with TLC on small instances and proves the safety
properties with TLAPS for every instance.

- [The system](#the-system): its parts, their state, how they interact, what is hard
- [Modules](#modules): which module models which part, and how
- [Runs](#runs): what each check shows, its bounds and its fairness
- [Proofs](#proofs): what is proved, from which assumptions, by which invariant
- [Findings](#findings): where the code and its documentation disagree
- [Not modelled](#not-modelled) and [Plan](#plan)

## The system

| Part | State it keeps | Operations | What makes it correct |
| --- | --- | --- | --- |
| Tiering and retention (`internal/memory/lifecycle.go`, `service.go`) | rows of `memory_items` (tier, pinned, importance, five timestamps), `access_log`, `memory_events`, `retention_policies` | Save, Get (with access promotion), Update, Pin, Delete, RunLifecycle over a batch | nothing in use is demoted, nothing is deleted without a policy and its retention time, protection holds, a deleted memory stays deleted, due memories get their turn |
| Lifecycle worker (`internal/lifecycle/worker.go`) | `running`, ticker channel, goroutine per run, context | start, tick, claim, run, skip, cancel, wait | runs do not overlap, go on until shutdown, are gone when `Run` returns |
| Server process (`cmd/pamie/main.go`, `internal/httpserver`) | listener, requests in flight, contexts, the store | serve, signal, graceful shutdown with timeout, join the worker, close the store | shutdown ends; the store outlives the worker; success means every request was answered |
| Storage core (`internal/db/store.go`) | one SQLite connection per process (`SetMaxOpenConns(1)`), WAL file | BeginTx, Commit, Rollback, Close | transactions are atomic; whoever waits for the connection gets it or is cancelled |
| Embedding index (`service.go`, `keywords.go`, `memory_repository.go`) | `memory_chunks`, `memory_embeddings`, `embedding_index_status`, `vector_metadata`, the `vec0` mirror | index after Save and Update, backfill, reindex, replacement of chunks | no rows outlive a chunk, statuses tell the truth, embeddings come from the memory's own words, the backfill catches up |
| Search and ranking (`internal/search`, `memory_repository.go`) | none; three reads of the store | text and vector candidates, merge, score, keywords | every hit passed the filters and matched, no candidate that is better whatever a match is worth is passed over |
| Tokens (`internal/auth`, `token_repository.go`, `token_commands.go`) | `auth_tokens` | create, rotate, revoke, list, authenticate, record use | a revoked, expired or rotated secret does not authenticate; nothing runs beyond the scopes granted |
| Rate limiter (`httpserver/ratelimit.go`) | a token bucket per client address | allow | no window exceeds burst plus refill; a client within its rate is never refused |
| Daemon commands (`cmd/pamie/daemon.go`) | state files with the pid, the child process | start, status, stop | the one server a start reported is found again by status and stop |
| Export, import, backup, restore (`db/export.go`, `db/backup.go`) | files | export, import, backup, restore | a backup is its source at some moment; an import leaves the references whole, all or nothing; nothing finished is lost |
| Migrations (`db/migrations.go`) | `schema_migrations` | apply on open, by several processes | each version once, in order; who has opened has all |
| MCP, tools, resources, configuration, audit, embedding providers | none that outlives a request | dispatch, scope test, parse, log, call out | scopes are tested before the call |

**How they interact.** A request passes the rate limiter and the authenticator (which reads
the database), is dispatched to a tool, and calls the memory service, which opens a
transaction. The worker calls the same service from its own goroutine. All of them share
one connection, so transactions of one process are serial, and everything a caller
has read before it got the connection may be stale. In particular every operation reads
the clock *before* `WithinTx`. After the commit of Save and Update the request goes on to
call the embedding provider, without a transaction, and records the result in another
transaction. `pamie embeddings backfill` does the same from a second process on the same
file. On SIGTERM one context stops the HTTP server and the worker; `runServer` waits for
both, in that order, and its deferred `store.Close` comes last.

**What is hard.** Commits in another order than their clock reads; batches that order by a
column the batch itself changes, or does not; policies that are merged field by field; results
that arrive after the thing they are about was replaced; reads of one object in two queries; a
virtual table no foreign key ties to the rest; a shutdown with two goroutines, one connection,
one timeout and one deferred close; a token that is checked, then used, while an operator
rotates or revokes it; processes known by files that outlive them and pids that are reused;
commands killed between two files, two migrations or two blocks of a copy; limits that cut a
list of candidates before the better half is known. `PROJECT.json` lists each at its line under
`hazards`, with the properties that are about it.

## Modules

| Module | What it is |
| --- | --- |
| `MemoryLifecycle` | tiering and retention: the service's operations and the worker's runs on the rows they share |
| `TierLadder` | the abstract specification of the documented tier model, implemented by `MemoryLifecycle` |
| `ServerProcess` | one server process: main, worker, goroutines of runs, requests, the connection |
| `LifecycleSchedule` | the abstract specification of the documented schedule, implemented by `ServerProcess` |
| `EmbeddingIndex` | chunks, embeddings, statuses and the mirror, with racing requests and the backfill |
| `WallClock` | the clock that limiter and tokens share |
| `RateLimiter` | the token buckets, with their arithmetic |
| `TokenStore` | the table of tokens, the commands that write it, the authentication of a request |
| `TokenLedger` | the abstract specification of what a secret is good for, implemented by `RequestGate` |
| `RequestGate` | limiter, authenticator and scope check in their order: the composition of the four above |
| `Migrations` | processes that open and migrate one database |
| `Daemon` | `start`, `status`, `stop` and the servers they start; composed with `Migrations`, which every start runs through |
| `Backup` | exports, imports, backups and restores beside the servers |
| `Search` | one search beside the commits of others |
| `MC*` | values and symmetry for TLC; one `.cfg` per run |
| `*Proofs` | the theorems of the component of that name |

The modules meet at two places. `ServerProcess` shows that an enabled worker takes the
connection for a run again and again until shutdown (`WorkerKeepsRunning`); that is the
weak fairness of `Sweep` that `MemoryLifecycle` assumes. And what a transaction does is the
subject of `MemoryLifecycle`, where it is one action; in `ServerProcess` it is a time
during which somebody holds the connection. `RequestGate` EXTENDS `RateLimiter` and
`TokenStore`, and `Daemon` EXTENDS `Migrations`: these are composed state by state.

Comments that begin with *Mutant:* introduce the definition of a plausible bug in the
definition that follows. They are used by no specification; `PROJECT.json` pairs each
property with a mutant that TLC must find to violate it.

### MemoryLifecycle

| Model | Code |
| --- | --- |
| `items[m]` | the lifecycle columns of a row of `memory_items`; `Unsaved` before the insert |
| `accesses[m]` | the `created_at` of the memory's rows of `access_log` |
| `event[m]` | the `event_type` of its newest row of `memory_events` |
| `Save`, `Get`, `Update`, `Pin`, `Delete` | the methods of `memory.Service`, one transaction each |
| `RunLifecycle`, `Batches`, `Verdict`, `Apply` | `RunLifecycle`, `ListActive`, `evaluateLifecycleItem`, the three writers |
| `MergeRules`, `Matches`, `RulesFor` | `mergeLifecycleRules`, `policyScope.matches`, `policyForItem` |
| `touched`, `stay`, `stamped` | history: when the row was last written, when the stay in the archive began, when `archived_at` was set |

An operation is one action because it is one transaction on the only connection. Its `now`
is any value of the last `MaxLag` ticks (`Nows`): that is what reading the clock before
waiting amounts to. A client names a memory only after Save has returned its id, so its
`now` is not before `createdAt`; a run has no such limit, and it may judge a row by a clock
older than the row. Update writes what the caller gives or the value the row has, and leaves
`archivedAt` alone, as the code does. Get stamps the access, appends to the log and
evaluates promotion in the same step. Operations that fail roll back and are stutters.

Data that no rule looks at (title, body, metadata, ids of events) is left out. Days are
`Day` ticks, thresholds keep their built-in proportions, and policies shorten them.

`TierLadder` says what the documentation says, without clock, policy or batch: clients put
a memory in any tier and delete it, the lifecycle moves it one rung and names the direction
in its event, deletes from the archive only, and deletion is final. The refinement maps
`rung` to the tier, `"unsaved"` or `"deleted"`, and `cause` to `event`.

### ServerProcess

One variable per thread of control: `main` (runServer from ListenAndServe on), `worker`
(Worker.Run), `run[r]` (the goroutine of a run), `request[q]`; and what they share:
`cancelled` (the context), `running` (the atomic flag), `tick` (the ticker's channel of
capacity one), `conn` (the connection) and `store`. The test of the context and the
compare-and-swap in `startRun` are two steps; so are the two deferred calls of a run's
goroutine, `running.Store(false)` and `runs.Done()`, between which the next run may begin,
and therefore two slots are needed for one run at a time. A run gives up its wait for the
connection when the context is cancelled; a request does not, because Shutdown does not
cancel the contexts of handlers. `LifecycleSchedule` is refined with `active` as the runs
between their start and the end of `runOnce`.

### EmbeddingIndex

One target (provider, model, dimensions, scope). A *document* is the title and the
keywords; an embedding and a content hash are represented by the document they were
computed from. `job[s]` is a request of the server between its commit and the record of its
result: the copies of chunk id and document that `indexMemoryEmbedding` works on. `queue`
is the same for the backfill process, for every candidate it has listed; the listing takes
two steps because it takes two queries. `Record` is the transaction at the end, including
the foreign keys, which refuse a chunk that is gone, and the deletion and insertion of the
mirrored row. `Restart` is a crash or a stop of the server followed by a start with any
configuration: what was being indexed is lost, what was committed stays.

Three history variables say what the tables do not: `held[c]`, the documents a memory had
while `c` was its chunk; `disturbed`, chunks whose indexing was overtaken by another update,
lost, or switched off, until an undisturbed one follows; `unmirrored`, chunks whose rows
were written or replaced under the other backend.

### RateLimiter, TokenStore, RequestGate

`buckets[c]` is a client's bucket, `Unseen` before its first request. Its content is counted
in units of one request divided by `Minute`, so that the arithmetic of `ratelimit.go` is
exact; the rounding of floats is not modelled. `opened` and `passed` belong to an observer who
may begin to count what passes at any moment, so that `WindowBound` is about every window.
`lastPass` is what `QuietClientPasses` measures a client's own spacing by; the
bound is strict where the code's comparison is.

`rows[id]` is a row of `auth_tokens`, with the number of the secret it matches instead of
salt and hash; `issued[s]` is what was promised for secret `s`. A command of an operator
(`create`, `rotate`) lists the ids, then upserts; `auth[r]` is a request in
`Authenticator.Authenticate`: it lists the active tokens, compares the secret, records the
use, three steps with everything else in between. A secret counts as accepted as of the
read of the list, and what was accepted then may be executed after a revocation: that is
what `SpentSecretsAreRefused` and `RunsWithinGrant` promise, no more. A failing
`ListActive` is answered with 503 and lets nobody in. `TokenLedger` has neither table nor
list: a secret is granted scopes and a lifetime once, it may be ended, and a request is
admitted with exactly its grant at a moment when it is good.

### Migrations and Daemon

`opener[p]` is a process in `db.Open`: what it read of `schema_migrations`, the version it is
at. A migration and its row are one transaction, atomic by SQLite; `schema[v]` counts how
often version `v` took effect. A process may be killed at any step.

In `Daemon`, servers are processes with a pid, an address and a phase (opening, serving,
draining, gone); `files[d]` is the pid in the state file of a directory; a start writes that of
its own directory and that of the default one. The operator runs one command at a time, step by
step, and may kill it at any; a pid that has become free may be taken by a foreign program. A
server is *abandoned* if its start gave up on it, was killed between the two files or could not
write them: the code tells the operator, and the properties speak of the others. All servers
use one database here. A server told to terminate while it still opens the database stays
draining until it dies. The token a start makes is `TokenStore`'s `StartupToken`.

### Backup

`file[p]` is a path of the file system: absent, or empty, partial or whole, with the rows in
it; `job[j]` is a running command, with the step it is at, the rows it has read and the
states its source has been in (`seen`, a history). Export reads one table per step in the
order of `readExportData`; the servers commit between. A memory is named by the number of
the commit that saved it (random in the code), events and accesses by their AUTOINCREMENT
ids, texts by the commit that wrote them. `partial` stands for what a checksum, a count or
an integrity check tells from a whole file. SQLite's part is external: `VACUUM INTO` reads
one snapshot, refuses a file with something in it and may leave a remainder when it fails.

Assumed of the operators: NDJSON files and SQLite backups have different paths; a restore or
an import is given a path no other command is using, and no server uses a database while a
restore writes it; nobody restores from a file that is being written. Policies are only
those the source has at first or imports. A dry run is `ImportEnds`.

### Search

A memory is what one search sees of it: whether the filters let it through, the rank of its
chunk (a memory has one, as Save and Update write it), the similarity of its embedding, what
the rest of the row is worth, the accesses that count, and the stamp. `TextQuery`,
`ScanEmbeddings` or `NearestRows`, and `Answer` are the reads of one search, in the code
without a transaction; `StoreStep` is any commit of others. `Top` is ORDER BY with LIMIT and
leaves ties open, as SQL does. `sqlite-json` takes the newest embeddings that pass the filters
and then the most similar; `sqlite-vec` takes the nearest rows of the table and then those that
pass. Scores are in half points, so that the sum of `ScoreCandidate` is exact on the ranks and
similarities of the instance. History: `fit`, who was a candidate at some moment of the search;
`touched`, who was written to; `crowded`, whom a limit may have left out, by count and
independently of what the query returned.

A point of the code that the model keeps and a reader should know: `keywordScore` is
`10 / (1 + |bm25|)`, and FTS5's bm25 is the more negative the better the match. So the
candidate cut prefers good matches and the score prefers bad ones, while
docs/search-design.md:3 and :45 name the quality of the match as a signal. Which of two unequal
matches ought to come first is therefore not settled by the sources, and
`NothingBetterIsMissing` does not settle it: a candidate *outdoes* a hit (`Outdoes`) if it has
more of everything else in the score and the hit matches the words equally well or not at all.
The property says the same of the code as it is and of a code whose score grows with the match.
What it cannot see is a good match that loses to a bad one for the inversion alone.

## Runs

| Run | Instance | States | Shows |
| --- | --- | --- | --- |
| `rules` | 1 memory, all tiers, importance 0 and 95, a day of 2 ticks, lag 1, clock to 4, 2 accesses, four rule sets by scope | 86,000 | types, `StampsTrackCommits`, `IdleBeforeDemotion`, `RetentionAfterArchival`, `OnlyPoliciesLiftProtection`, `DeletedIsFinal`, and that `MemoryLifecycle` implements `TierLadder` |
| `fair` | 2 memories, batches of 2, the built-in retention | 24,000 | `NoStarvation` when the batch covers the active memories |
| `starved` | the same with batches of 1 | | `NoStarvation` is violated |
| `stay` | 1 memory, clock to 3 | | `RetentionAfterStay` is violated |
| `server` | 2 slots, 2 requests | 20,000 | `StoreOutlivesWorker`, `CleanExitAnswersEveryRequest`, `ScheduleSpec`, `ShutdownTerminates`, `WorkerKeepsRunning` |
| `races` | 1 memory, its body replaced once, 2 requests at a time, the backfill, both backends | 1,410,000 | types, `NoOrphans`, `IndexedMeansStored`, `EmbeddingWasCurrent`, `AccountedFor`, `MirrorAgrees` |
| `backfill` | 2 memories, limit 2, documents blank or with a title, none with keywords | 289,000 | `BackfillCatchesUp` when the limit covers the candidates |
| `resumable` | the same with limit 1 | | `BackfillIsResumable` is violated |
| `gate` | 1 client, 1 request at a time, 1 operator process, 2 ids, 2 secrets, clock to 2 | 1,073,000 | `WindowBound`, `QuietClientPasses`, `SpentSecretsAreRefused`, `RunsWithinGrant`, and that the gate implements `TokenLedger` |
| `daemon` | 2 servers, 2 directories, 2 addresses, 2 migrations | 2,073,000 | `OpenedIsMigrated`, `ReachableServer`, `OneServer`, `StartIsTruthful` |
| `backup` | 2 databases, one NDJSON file, one SQLite backup, 2 commands at a time, 2 commits | 917,000 | `Consistent`, `NothingIsLost`, and `BackupsAreSnapshots`: an SQLite backup is a snapshot, an NDJSON export one table by table |
| `search` | 2 memories and a leftover row, pages of 1, 2 candidates, 2 embeddings scanned, 2 commits of others, both backends | 3,062,000 | `HitsWereFit`, `NothingBetterIsMissing` |

States are distinct states, symmetric ones counted once.

**Bounds.** `MaxClock` and `MaxAccesses` stop the clock and the log, so that the state
space is finite. Four ticks with a day of two are enough for a memory to fall through a
whole idle time with a lag on either side, and to be archived and deleted; two accesses are
the promotion count of the policy. One memory is enough for the rules because a verdict
looks at one row; what relates rows (the batch, its order, all-or-nothing runs) is in
`fair` and `starved` with two. In `rules`, Update moves a memory to any tier, so
that states beyond a slow fall through five tiers are reached within the clock's bound.
Two slots and two requests reach every order of a run that leaves, a run that begins and two
holders of the connection; more of the same only wait longer. For the index, one replaced
body is what makes results late; two requests and the backfill are three writers, enough for
one to overtake another while the third is still under way. Titles and keywords of
`races` never come together in one document, so that the backfill's two reads may see
both or neither.

In `gate` a burst of one and three quarters of a token in a tick make a client wait with a part
of a token; two secrets are what one id can have before and after a rotation, and a lifetime
of one tick ends while requests go on. Where the constants stay small, the theorems
cover the rest. In `daemon` one server can be given up on, stopped or dead while the other is
started; a third would meet the same files. In `backup` two commits fall between reads of an
export, on either side of a table; `MaxCommits` bounds the servers alone, not the commands. In
`search` the page has room for one of two memories, so that each can push the other out, and
the leftover row can push out both from the nearest rows; ranks and similarities are two
each, which is what a comparison tells apart.

Symmetry is used for safety only, on values that no definition tells apart: slots, memories,
servers, commands.

**Fairness.** `MemoryLifecycle!FairSpec`: runs go on (shown by `WorkerKeepsRunning`) and
so does the clock; clients are not obliged to anything. `ServerProcess!FairSpec`: each
goroutine that can take a step takes it, timers fire, a transaction ends. Strong fairness
is asked for in two places: the acquisition of the connection, since `database/sql` hands
it to waiters in their turn, and `WorkerCancelled`, since `select` picks at random
among ready cases and a ticker cannot win for ever. Handlers get none beyond the end of
their transactions: one may wait for its provider for ever, and shutdown still ends.
`EmbeddingIndex!FairSpec`: the operator repeats the backfill, each call of the provider
returns, and no chunk fails or is interrupted every time its turn comes. Nothing is assumed
of the server. The other specifications state no fairness: `gate`, `daemon`, `backup` and
`search` are about safety, since an operator may stop typing and a client may stop asking.

Deadlock is checked in `server`, `races`, `backfill`, `resumable` and `search`. In the
lifecycle runs it never arises either, because an evaluation that changes nothing is a step.
`ServerProcess` ends in `Exited`, which stutters. In `gate`, `daemon` and `backup` it is not
checked: no client or operator has to do anything more, and the bounds on the clock, the
secrets, the processes and the commits are reached.

## Proofs

TLAPS proves, for every value of the constants that satisfies the named assumptions:

| Module | Theorem | States |
| --- | --- | --- |
| `MemoryLifecycleProofs` | `TypeCorrect` | `Spec => []TypeOK` |
| | `StampsTrackCommitsHolds` | stamps lag their commits by at most `MaxLag` |
| | `IdleBeforeDemotionHolds`, `RetentionAfterArchivalHolds` | nothing is lowered or deleted early |
| | `OnlyPoliciesLiftProtectionHolds` | for every list of policies |
| | `DeletedIsFinalHolds` | deletion is final |
| | `LifecycleImplementsLadder` | `Spec => TierLadder!Spec` under the mapping |
| | `OverdueIsServed`, `NoStarvationHolds` | with a batch that covers the memories nothing waits for ever |
| | `StarvationLasts` | behind a full batch of rows no run changes, a memory does |
| `ServerProcessProofs` | `ServerTypeCorrect`, `StoreOutlivesWorkerHolds`, `CleanExitHolds` | for any set of slots and requests |
| | `ProcessImplementsSchedule` | `Spec => LifecycleSchedule!Spec` under the mapping |
| | `WorkerKeepsRunningHolds` | runs go on, for any set of slots and requests |
| | `ShutdownTerminatesHolds` | a cancelled process exits, for two slots and any set of requests |
| `EmbeddingIndexProofs` | `IndexTypeCorrect`, `NoOrphansHolds`, `IndexedMeansStoredHolds`, `EmbeddingWasCurrentHolds`, `MirrorAgreesHolds`, `AccountedForHolds` | for any number of memories, chunks, requests and documents, and any limit |
| | `BackfillCatchesUpHolds` | for two chunks within the limit, any number of memories, requests and documents with a title |
| `RateLimiterProofs` | `WindowBoundHolds`, `QuietClientPassesHolds` | for every rate, burst and number of clients |
| `RequestGateProofs` | `TokenInvariance`, `SpentSecretsAreRefusedHolds`, `ImplementsLedgerHolds` | the token store, for any number of ids, operators, requests and secrets |
| | `GateTypeOKHolds`, `RunsWithinGrantHolds`, `GateBounds`, `GateImplementsLedger` | the same, and the limiter's bounds, of the composition |
| `DaemonProofs` | `OpenedIsMigratedHolds` | `Migrations`, for any number of processes and versions |
| | `DaemonTypeOKHolds`, `DaemonOpensMigrated`, `ReachableServerHolds`, `OneServerHolds`, `StartIsTruthfulHolds` | the composition, for any number of directories, addresses and servers |
| `BackupProofs` | `BackupTypeOKHolds`, `NothingIsLostHolds`, `BackupsAreSnapshotsHolds`, `ConsistentHolds` | for any number of paths, commands and commits |
| `SearchProofs` | `HitsWereFitHolds`, `SearchTypeOK`, `NothingBetterIsMissingHolds` | for any number of memories and rows, every limit and depth |

**Assumptions.** `LifecycleAssumption` (policies are a sequence of well-formed rules, a day
has at least one tick, importances are in 0..100), `ServerAssumption` (runs, requests and
`Nobody` are different), `IndexAssumption` and `DocumentAssumption` (chunk ids are naturals
in listing order, the limit is positive, `None` is none of the values it stands in for),
`LimiterAssumption` (rate, burst and minute are positive, as `validate` demands),
`TokenAssumption` and `LedgerAssumption` (grants are sets of scopes, the server's own token is
no id of a row), `MigrationAssumption`, `DaemonAssumption` and `CommandAssumption` (the default
directory is one of them, the command's process is none of the servers, `None` is none of the
values), `BackupAssumption` (kinds of paths are disjoint, `None` is no file, no command and no memory), `SearchAssumption` (limits are
positive, `None` is none of the values). TLC evaluates them in every run.

**MemoryLifecycle.** The invariant is `TypeOK /\ StampsTrackCommits`. The action properties
do not follow from types alone: that a demotion was due by the *stamps* of a row says
something about real time only if the stamps are close to the commits that wrote them, and
that is `StampsTrackCommits`. The proof sees each step from one row (`RowSteps`): the row is
created, read, edited, swept or kept. Each property is then a statement about one row, and
`LoweringIsDue` reduces it to the meaning of a verdict (`VerdictMeaning`). The refinement
maps sweeps to moves of the ladder (`SweptMoves`) and client operations to moves of the
client, of the lifecycle (a Get that promotes) or to stutters (`ClientRowMoves`).

**ServerProcess.** `running` is a lock that the worker takes and a goroutine releases before
it leaves, so the invariant says who owns it (`FlagOwned`: a slot that is spawned, in its
transaction, reporting or releasing is the only one, and the flag is set); `EndsInOrder`
relates the phases of main to those of the worker and the store; `HolderInTransaction` ties
`conn` to the one in state `"tx"`; `DrainedUnlessError` is what a clean drain leaves behind.

**EmbeddingIndex.** Four of the properties need a strengthening. `MirrorAgrees` needs that
whoever records an embedding has a backend (`BackendsKnown`). `EmbeddingWasCurrent` needs
the same of the entries still in the hands of requests and of the backfill, for chunks that
are still live (`HeldEntries`), with the title and the keywords apart because the backfill
reads them apart. `AccountedFor` needs `UndisturbedInv`: an undisturbed chunk is truthful, or
exactly one actor has an entry for it and that entry is the current document. `TypeOK`
itself is inductive only together with `NoOrphans`.

**RateLimiter.** `LimiterInv` is an account: what passed since the observer began, in parts of
a token, and what is left in the bucket are together no more than a burst and what was
earned since (`PaidInv`); and what is left is no less than what was earned since the client's
last pass, up to a burst (`EarnedInv`). The first gives `WindowBound`, the second
`QuietClientPasses`. The arithmetic is in two lemmas on products, because the provers do
not multiply unknowns.

**RequestGate.** `TokenInv` says where a secret can be: in the hands of one operator process or
in one row, never both, and never in two rows (`PendingInv`, `RowsInv`), and what a granted
request carries is what its secret was generated for (`AuthInv`, `GrantInv`). A secret spent
when a request began is in neither place and cannot come back. For the composition,
`RunningInv` ties what runs to a granted request whose scopes cover it; every step of the
composition is a step or a stutter of both parts (`GateSteps`). The refinement decides a call
of the ledger at the read of the list (`LookupMaps`), issues at the upsert (`UpsertMaps`)
and maps the record of the use to a stutter.

**Daemon.** `MigrationInv`: what a process has read of `schema_migrations` stays true and what
it has passed is recorded, so that no version is applied twice. `StepInv` says what a
command has made sure of at each of its steps: between look and spawn there is no server,
from the spawn on there is at most the one of the command, and before the first and
after the last step its two files name it. `OneServer` is inductive only with it.

**Backup.** `Inv` says who may write where: a path has at most one writer (`Alone`), nobody
writes a source while an export or a copy still has to read it and a source never
disappears (`SourceOK`), and what is at the destination says how far the command is
(`TargetOK`). `DataOK` ties what a command has read to its history. Every step of a command
but the transaction of an import keeps to its own files (`OwnFiles`): that is
`NothingIsLost` for commands, and it is why the other commands' invariants survive
(`OthersKept`). A commit only adds memories (`Grown`) because a memory's row carries its own
name in every database, also in one that was imported (`Sound`).

`Consistent` is inductive only with what is still on its way, and that is `Coherent`, a second
invariant on top of the first. An export reads memories before their chunks and memories are
never deleted in between, so what it has read of them is in its source until it has their
chunks (`JobGood`); the rows of memories saved since come along and make its file refused by
an import, not inconsistent, so `Closed` is said of databases and not of exports (`FileGood`).
That the next id is free, also after an import, needs the bounds of `TableOK`: ids that come
from commits are never ahead of them, ids of the logs never ahead of the log's length.
`UnionGood` is the import: two closed databases without a common id stay coherent together.

**Search.** `IInv`: the observer has seen all present candidates, a result is about a memory
still stored, and stamps only grow; `MergeSound` shows that a merge invents and repeats
nothing. The lengths of lists need `LengthInv` and facts about cardinality.

`NothingBetterIsMissing` follows a memory that nobody touched and no limit crowded out
through the phases (`CompleteInv`): the text query has it with the row it still has if it
matches the words (`TextInv`), the merge gives it both halves of its score (`ListInv`), and
the page has it as it is stored (`Present`) or is full of results it does not outdo. The last
needs that one who outdoes a hit also has the higher total (`OutdoingScores`). Whoever falls out of a cut is behind
as many others as the limit (`LeftOut`), so the observer has counted it among the crowded
(`TextCut`, `NewestCut`, `SimilarCut`, `CloserCut`); a commit to another memory changes none
of this (`Undisturbed`).

**Liveness.** The provers know temporal logic but not when an action is enabled: `ENABLED` is an
atom to them. So each module of proofs says in one definition when the actions with a
fairness condition are enabled (`SweepEnabled`, `GuardsEnable`, `BackfillEnabled`), guard by
guard, and the theorems have it as a hypothesis: `FairSpec /\ []GuardsEnable => ...`. None of
them says more than that an action is enabled when its guard holds, because what the action
assigns can always be assigned: a sweep of the whole batch, a step of one goroutine, a listing
of the first candidates. That is an argument from the text of the actions; no run lists these
definitions as invariants, and the theorems are as good as it is. The rest is proved:
which steps leave a state, and which state a fair step leads to, as the premises of WF1 and
SF1, and PTL combines them.

- *Worker.* The flag is owned by a run that makes progress (`SpawnedProgresses`) or gives it
  back (`BusyRests`), and a worker at rest comes from every one of its states to the next
  claim (`StartupPasses`, `DelayPasses`, `TickTaken`, `StartChecks`, `ClaimSucceeds`). The
  invariant `Purpose` is needed there: a flag that is set with no run behind it would stop
  the worker for good. `WorkerKeepsRunningHolds` assumes `[]Fairness`. That is
  `Fairness` itself, true from the start or never, but under a quantifier the provers cannot
  see it.
- *Shutdown.* Main goes from stage to stage; at the join it waits for the worker, the worker
  waits for the run that owns the flag, and that one either gets the connection or gives up its
  wait because its context is cancelled. That every slot comes to rest is a conjunction over
  slots of "eventually always", and to draw the conjunction inside takes an induction over
  their number. Two slots, which is what a run that leaves and one that begins need, are
  done by cases.
- *Backfill.* While a chunk is missing the queue runs empty and is filled again
  (`ListsAgain`); with room for every chunk each listing has the missing one and its title
  (`MissingListed`, `KeptFromListing`); and when its turn comes again and again a call succeeds
  once (`SuccessStores`). A longer queue would again take an induction over what is left of
  it. `Titled` is not for convenience: without it the theorem is false, see
  [Findings](#findings). It is weaker than what the run `backfill` assumes, where nobody
  writes keywords.
- *Lifecycle.* `OverdueIsServed` is about memories that every evaluation lowers, whatever clock
  a run has read and whatever was read since, and holds for any lag. Without lag and
  accesses those are the ones that are due (`DueIsOverdue`), and that is `NoStarvation`. Its
  assumption `Covered`, a batch for all memories, is the one that `starved` lacks;
  `StarvationLasts` shows that it is needed: rows that are settled fill the batch, a run leaves
  them as they are, and so the next batch is the same.

Neither proved nor checked: that the guards enable their actions, which is the hypothesis
above, a shutdown with more than two slots and a backfill of more than two chunks. The runs
`fair`, `starved`, `server` and `backfill` check the liveness properties themselves, where TLC
computes `ENABLED` and needs no such hypothesis.

## Findings

Each of the three is a run that TLC must find violated.

- **A full batch of memories nobody changes starves the rest** (`starved`). `ListActive`
  takes the rows with the oldest `updated_at`, and a run leaves the rows it does not change
  as they are. Archived memories under the default retention, and protected ones, end up
  at the head and stay there. ARCHITECTURE.md:119 and docs/tiering-and-retention.md:17 promise
  demotion without such a condition. `fair` shows that it is the only obstacle in the
  instance: with a batch that covers the active memories nothing starves.
- **Retention may count from an earlier stay** (`stay`). Update moves a memory out of the
  archive and back without touching `archived_at`; the next run deletes it for having
  exceeded a retention that began before it left. Promotion clears the stamp
  (docs/tiering-and-retention.md:47), Update does not. What does hold, and is proved, is
  `RetentionAfterArchival`: the time since the lifecycle last stamped it.
- **A backfill with a limit may not be resumable** (`resumable`). Memories without title
  and keywords are recorded as skipped but remain candidates, oldest first.
  docs/future-vector-search.md:94 says that backfill is resumable.

Three more that the models keep and no run singles out:

- `keywordScore` (ranking.go:103) grows as the match gets worse, see [Search](#search), while
  docs/search-design.md:3 and :45 count the quality of the match in a result's favour: of two
  memories that differ in nothing else, a page of one shows the worse match.
  `NothingBetterIsMissing` leaves that case out and neither shows the disagreement nor hides it.
- `BackfillCatchesUp` fails when clients write keywords without titles: between the two queries
  of the backfill (memory_repository.go:559) a memory with only a title may become one with only
  keywords, so that the backfill reads neither and records it as skipped, in every call anew.
  The run `backfill` has no keywords; the theorem asks only that keywords come with a title.
- An NDJSON export of a running server is six reads at six moments. `BackupsAreSnapshots`
  promises a snapshot only if no commit fell between them; with one, a file may hold
  rows of a memory it does not hold, and the import refuses it (`Closed`).
  docs/backup-and-restore.md:9 speaks of consistent backups while the service runs.

## Not modelled

- *Pure parts*: the framing of MCP, the schemas of tools and resources, configuration, audit,
  the list of recent memories, formatting. They keep no state that outlives a call; the scope
  test of the two registries is in `RequestGate`.
- *Embedding providers and the Ollama runtime*: HTTP calls and a child process. In
  `EmbeddingIndex` a provider is any outcome at any later time; the child is stopped between
  the end of the worker and the close of the store, with a deadline of its own.
- *One target of embeddings*: a change of model or dimensions starts another set of rows,
  except that `vector_metadata` and the embeddings share a key without the scope. The counter
  `attempts` is left out, as nothing reads it.
- *Numbers and texts*: floats are exact, stamps are compared as numbers where SQLite compares
  their text, and days do not overflow. Each is a hazard with its line.
- *Malformed policies*: they make every run and every Get fail; the models treat failed
  operations as stutters.
- *In `Daemon`*: two commands at once. That they may start two servers is a hazard of the
  code without a property, since the code does nothing against it. Each server has the one
  database, whatever its directory.
- *In `Search`*: a change of the backend during a search, and rows that were embedded under the
  other backend and are not in the table of this one (that is `EmbeddingIndex`,
  `unmirrored`). A memory has one chunk.
- *In `Backup`*: several tables of the embeddings, which neither export nor import touches; and
  what SQLite does inside a transaction or VACUUM INTO, which is external.

## Plan

Done: every component with state of its own, with its composition where two share state. What
would add most now:

1. A second target in `EmbeddingIndex`, for the key of `vector_metadata`.
2. The order of formatted stamps (types.go:275) as an operator on digits, against the order of
   the times.
3. Two `start` commands at once, with a violation run if the documentation ever
   promises one server.
