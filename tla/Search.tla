-------------------------------- MODULE Search --------------------------------
(***************************************************************************)
(* context_search (internal/memory/service.go, internal/db/                *)
(* memory_repository.go, internal/search/ranking.go): a text query, a      *)
(* vector query, the merge, the ranking and the read of the keywords.  No  *)
(* transaction holds them together, so other handlers and the lifecycle    *)
(* run commit between any two.                                             *)
(*                                                                         *)
(* A memory is what one search sees of it: whether the filters let it      *)
(* through, the rank of its chunk for the words of the query, the          *)
(* similarity of its embedding, and what the rest of its row is worth.     *)
(***************************************************************************)
EXTENDS Integers, FiniteSets

CONSTANTS
  Memories,
  Leftovers,     \* rows of the vec0 table that no embedding names
  Backend,       \* the backends the database may be set up for
  Ranks,         \* |bm25| of a matching chunk; the greater, the better the match
  Nears,         \* similarity to the query, in sixths
  Merits,        \* recency + tier + pin + importance, in half points
  Depths,        \* the depths clients ask for
  Limit,         \* hits of a page
  CandidateCap,  \* 500 in the code
  ScanCap,       \* 2000 in the code
  MaxUsed,       \* accesses that count; 10 in the code
  MaxWrites,     \* bound: commits that change a memory
  None

VARIABLES
  memories,   \* per memory: None, or what this search may see of it
  leftovers,  \* per leftover row: None, or its similarity to the query
  backend,    \* vector_metadata.backend
  now,        \* stamp of the last commit
  phase,      \* where the search is
  query,      \* its depth, and whether the provider embedded its words
  found,      \* results so far, and at last the page
  \* observers of the search
  fit,        \* memories that were candidates for it at some moment
  touched,    \* memories that others wrote to meanwhile
  crowded     \* memories that a limit may have left out of its candidates

vars == <<memories, leftovers, backend, now, phase, query, found, fit, touched, crowded>>

Memory ==
  [shown : BOOLEAN, rank : Ranks \cup {None}, near : Nears \cup {None}, merit : Merits,
   used : 0..MaxUsed, updated : 0..MaxWrites]

Hit ==
  [memory : Memories, rank : Ranks \cup {None}, near : Nears \cup {None}, merit : Merits,
   used : 0..MaxUsed, updated : 0..MaxWrites, keywords : 0..MaxWrites \cup {None}]

Query == [depth : Depths, vector : BOOLEAN]

ASSUME SearchAssumption ==
  /\ Ranks \subseteq Nat /\ Nears \subseteq Int /\ Merits \subseteq Nat
  /\ Backend \subseteq {"sqlite-json", "sqlite-vec"}
  /\ Depths \subseteq {"shallow", "standard", "deep"}
  /\ {Limit, CandidateCap, ScanCap} \subseteq Nat \ {0} /\ CandidateCap <= ScanCap
  /\ MaxUsed \in Nat /\ MaxWrites \in Nat
  /\ None \notin Ranks \cup Nears \cup Memories \cup Memory \cup Query
  /\ IsFiniteSet(Memories) /\ IsFiniteSet(Leftovers) /\ Memories \cap Leftovers = {}

Smaller(a, b) == IF a < b THEN a ELSE b
Larger(a, b)  == IF a > b THEN a ELSE b

Multiplier     == [shallow |-> 1, standard |-> 3, deep |-> 8]
CandidateLimit == Smaller(Limit * Multiplier[query.depth], CandidateCap)
ScanLimit      == Smaller(10 * CandidateLimit, ScanCap)

-----------------------------------------------------------------------------
\* ORDER BY ... LIMIT n, ties in any order
Top(S, n, Before(_, _)) ==
  {T \in SUBSET S : /\ Cardinality(T) = Smaller(n, Cardinality(S))
                    /\ \A x \in T, y \in S \ T : ~Before(y, x)}

\* what may be left out of the first n
Crowded(S, n, Before(_, _)) ==
  {x \in S : Cardinality({y \in S \ {x} : ~Before(x, y)}) >= n}

Newer(m, k) == memories[m].updated > memories[k].updated

\* ORDER BY bm25, updated_at DESC
BetterMatch(m, k) ==
  \/ memories[m].rank > memories[k].rank
  \/ memories[m].rank = memories[k].rank /\ Newer(m, k)

\* the order by similarity after the scan of the embeddings
MoreSimilar(m, k) ==
  \/ memories[m].near > memories[k].near
  \/ memories[m].near = memories[k].near /\ Newer(m, k)

\* by distance in the vec0 table, which holds the leftovers too
Near(x)      == IF x \in Leftovers THEN leftovers[x] ELSE memories[x].near
Closer(x, y) == Near(x) > Near(y)

Shown      == {m \in Memories : memories[m] # None /\ memories[m].shown}
Matching   == {m \in Shown : memories[m].rank # None}
Neighbours == {m \in Shown : memories[m].near # None}
VecRows    == {m \in Memories : memories[m] # None /\ memories[m].near # None}
                \cup {x \in Leftovers : leftovers[x] # None}

\* memories this search is about
Candidates == Matching \cup (IF query.vector THEN Neighbours ELSE {})

-----------------------------------------------------------------------------
(* ScoreCandidate in half points.  10 / (1 + |bm25|) is highest for the    *)
(* worst match: bm25 of FTS5 is the more negative the better the match.    *)
KeywordScore(rank) == IF rank = None THEN 0 ELSE 20 \div (1 + rank)
VectorScore(near)  == IF near = None THEN 0 ELSE 2 * Larger(near, 0)
Beside(h) == VectorScore(h.near) + h.merit + h.used
Total(h)  == KeywordScore(h.rank) + Beside(h)

Better(g, h) == Total(g) > Total(h) \/ (Total(g) = Total(h) /\ g.updated > h.updated)

\* a row of either query
Result(m, rank, near) ==
  [memory |-> m, rank |-> rank, near |-> near, merit |-> memories[m].merit,
   used |-> memories[m].used, updated |-> memories[m].updated, keywords |-> None]

\* combineSearchResults: the item stays the one that was read first
Combine(left, right) ==
  [left EXCEPT !.near = right.near, !.used = Larger(left.used, right.used)]

(* Mutant: a memory found before keeps its score of the text query.        *)
MergeFirst(left, right) ==
  left \cup {r \in right : \A l \in left : l.memory # r.memory}

Merge(left, right) ==
  {l \in left : \A r \in right : r.memory # l.memory}
    \cup {r \in right : \A l \in left : l.memory # r.memory}
    \cup {Combine(p[1], p[2]) : p \in {q \in left \X right : q[1].memory = q[2].memory}}

-----------------------------------------------------------------------------
Init ==
  /\ memories \in [Memories -> {m \in Memory : m.used = 0 /\ m.updated = 0} \cup {None}]
  /\ leftovers \in [Leftovers -> Nears \cup {None}]
  /\ backend \in Backend
  /\ now = 0
  /\ phase = "idle" /\ query = None /\ found = {}
  /\ fit = {} /\ touched = {} /\ crowded = {}

storeVars == <<memories, leftovers, backend, now, touched>>

\* Service.Search; without vectors when the provider is disabled or fails
Begin(depth, vector) ==
  /\ phase = "idle"
  /\ phase' = "text"
  /\ query' = [depth |-> depth, vector |-> vector]
  /\ UNCHANGED <<storeVars, found, crowded>>

TextQuery ==
  /\ phase = "text"
  /\ \E T \in Top(Matching, CandidateLimit, BetterMatch) :
       found' = {Result(m, memories[m].rank, None) : m \in T}
  /\ crowded' = Crowded(Matching, CandidateLimit, BetterMatch)
  /\ phase' = IF query.vector THEN "vector" ELSE "answer"
  /\ UNCHANGED <<storeVars, query>>

\* what a vector query adds to the results, and whom it may have left out
AddNeighbours(T, out) ==
  /\ found' = Merge(found, {Result(m, None, memories[m].near) : m \in T})
  /\ crowded' = crowded \cup (out \cap Memories)
  /\ phase' = "answer"
  /\ UNCHANGED <<storeVars, query>>

\* sqlite-json: the newest embeddings that pass the filters, by similarity
ScanEmbeddings ==
  /\ phase = "vector" /\ backend = "sqlite-json"
  /\ \E S \in Top(Neighbours, ScanLimit, Newer) :
       \E T \in Top(S, CandidateLimit, MoreSimilar) :
         AddNeighbours(T, Crowded(Neighbours, ScanLimit, Newer)
                            \cup Crowded(S, CandidateLimit, MoreSimilar))

(* Mutant: the join with the items without the filters.                    *)
NearestRowsUnfiltered ==
  /\ phase = "vector" /\ backend = "sqlite-vec"
  /\ \E S \in Top(VecRows, ScanLimit, Closer) :
       \E T \in Top(S \cap Memories, CandidateLimit, Closer) :
         AddNeighbours(T, Crowded(VecRows, ScanLimit, Closer)
                            \cup Crowded(S \cap Memories, CandidateLimit, Closer))

\* sqlite-vec: the nearest rows of the table, and of them those that pass the filters
NearestRows ==
  /\ phase = "vector" /\ backend = "sqlite-vec"
  /\ \E S \in Top(VecRows, ScanLimit, Closer) :
       \E T \in Top(S \cap Neighbours, CandidateLimit, Closer) :
         AddNeighbours(T, Crowded(VecRows, ScanLimit, Closer)
                            \cup Crowded(S \cap Neighbours, CandidateLimit, Closer))

Keywords(h) == [h EXCEPT !.keywords = memories[h.memory].updated]

(* Mutant: the page is not cut after the merge.                            *)
AnswerUncut ==
  /\ phase = "answer"
  /\ found' = {Keywords(h) : h \in found}
  /\ phase' = "done"
  /\ UNCHANGED <<storeVars, query, crowded>>

\* the page, with the keywords its memories have by now
Answer ==
  /\ phase = "answer"
  /\ \E T \in Top(found, Limit, Better) : found' = {Keywords(h) : h \in T}
  /\ phase' = "done"
  /\ UNCHANGED <<storeVars, query, crowded>>

\* the page is sent, or a query of the search fails and nothing is
Return ==
  /\ phase # "idle"
  /\ phase' = "idle" /\ query' = None /\ found' = {} /\ crowded' = {} /\ touched' = {}
  /\ UNCHANGED <<memories, leftovers, backend, now>>

-----------------------------------------------------------------------------
\* a commit of another handler or of the lifecycle run, or an indexing
Change(m, row) ==
  /\ now < MaxWrites /\ now' = now + 1
  /\ memories' = [memories EXCEPT ![m] = row]
  /\ touched' = IF phase = "idle" THEN {} ELSE touched \cup {m}
  /\ UNCHANGED <<leftovers, backend, phase, query, found, crowded>>

\* Save; the embedding comes later
Save(m, shown, rank, merit) ==
  /\ memories[m] = None
  /\ Change(m, [shown |-> shown, rank |-> rank, near |-> None, merit |-> merit, used |-> 0,
                updated |-> now + 1])

\* Update with a body: another chunk, and the embedding of the old one is gone
Rewrite(m, shown, rank, merit) ==
  /\ memories[m] # None
  /\ Change(m, [memories[m] EXCEPT !.shown = shown, !.rank = rank, !.near = None,
                                   !.merit = merit, !.updated = now + 1])

\* Update without one, Pin, Delete, and what a lifecycle run does to it
Amend(m, shown, merit) ==
  /\ memories[m] # None
  /\ Change(m, [memories[m] EXCEPT !.shown = shown, !.merit = merit, !.updated = now + 1])

\* Get: one more access and a fresh stamp, and a promotion may move it in or out of a filter
Get(m, shown, merit) ==
  /\ memories[m] # None /\ merit >= memories[m].merit
  /\ Change(m, [memories[m] EXCEPT !.used = Smaller(@ + 1, MaxUsed), !.shown = shown,
                                   !.merit = merit, !.updated = now + 1])

\* UpsertEmbedding, after Save or Update or by a backfill
Index(m, near) ==
  /\ memories[m] # None
  /\ Change(m, [memories[m] EXCEPT !.near = near])

SearchStep ==
  \/ \E depth \in Depths, vector \in BOOLEAN : Begin(depth, vector)
  \/ TextQuery
  \/ ScanEmbeddings
  \/ NearestRows
  \/ Answer
  \/ Return

StoreStep ==
  \E m \in Memories :
    \/ \E shown \in BOOLEAN, merit \in Merits :
         \/ \E rank \in Ranks \cup {None} :
              Save(m, shown, rank, merit) \/ Rewrite(m, shown, rank, merit)
         \/ Amend(m, shown, merit)
         \/ Get(m, shown, merit)
    \/ \E near \in Nears : Index(m, near)

\* every step shows the observer who is a candidate after it
Next ==
  /\ SearchStep \/ StoreStep
  /\ fit' = IF phase' = "idle" THEN {} ELSE fit \cup Candidates'

Spec == Init /\ [][Next]_vars

-----------------------------------------------------------------------------
(* Every variable has its type, and no list is longer than its limit: the  *)
(* candidates of the text query, and the page (the cut in Search).         *)
TypeOK ==
  /\ memories \in [Memories -> Memory \cup {None}]
  /\ leftovers \in [Leftovers -> Nears \cup {None}]
  /\ backend \in Backend /\ now \in 0..MaxWrites
  /\ phase \in {"idle", "text", "vector", "answer", "done"}
  /\ query \in Query \cup {None}
  /\ query = None <=> phase = "idle"
  /\ found \subseteq Hit /\ fit \subseteq Memories
  /\ touched \subseteq Memories /\ crowded \subseteq Memories
  /\ phase = "vector" => Cardinality(found) <= CandidateLimit
  /\ phase = "done" => Cardinality(found) <= Limit

(* A result passed the filters and matched at some moment of the search,   *)
(* even if its two halves were read at different ones; no memory is on a   *)
(* page twice, and no keywords are older than the row they stand beside    *)
(* (mergeSearchResult, the filters of both queries, and the order of the   *)
(* reads in Service.Search).                                               *)
HitsWereFit ==
  /\ \A h \in found : h.memory \in fit
  /\ \A g, h \in found : g.memory = h.memory => g = h
  /\ phase = "done" => \A h \in found : h.keywords >= h.updated

\* what a search would make of a candidate, by the state of the store
Present(m) == Result(m, memories[m].rank, IF query.vector THEN memories[m].near ELSE None)

\* g is the better result whatever a match is worth: the other matches equally or not at all
Outdoes(g, h) == h.rank \in {g.rank, None} /\ Beside(g) > Beside(h)

(* A candidate that nobody wrote to while the search ran, and that no      *)
(* limit crowded out, is on the page as it is stored, with both halves, or *)
(* the page is full and the candidate outdoes no hit of it, whatever was   *)
(* done to the others (the cuts in searchVectorCandidates and Search,      *)
(* combineSearchResults).                                                  *)
(*                                                                         *)
(* Left out is what the worth of a match decides: a hit that matches the   *)
(* words when the candidate does not, or when it matches them better or    *)
(* worse.  The code prefers the worse of two matches (ranking.go:103) and  *)
(* docs/search-design.md:3 the better one; this takes no side.             *)
NothingBetterIsMissing ==
  phase = "done" =>
    \A m \in Candidates \ (touched \cup crowded) :
      \/ Keywords(Present(m)) \in found
      \/ Cardinality(found) = Limit /\ \A h \in found : ~Outdoes(Present(m), h)
=============================================================================
