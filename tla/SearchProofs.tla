----------------------------- MODULE SearchProofs -----------------------------
(***************************************************************************)
(* What a search returns was a candidate, and nothing better is missing,   *)
(* for every number of memories and every limit.  The invariant adds to    *)
(* HitsWereFit what the steps rely on: the observer knows all present      *)
(* candidates, a result is about a memory that is still stored, and        *)
(* stamps only grow.  CompleteInv then follows a memory that nobody        *)
(* touched and no limit crowded out from query to query.                   *)
(***************************************************************************)
EXTENDS Search, FiniteSetTheorems, TLAPS

\* the types without the lengths of the lists
TypeInv ==
  /\ memories \in [Memories -> Memory \cup {None}]
  /\ leftovers \in [Leftovers -> Nears \cup {None}]
  /\ backend \in Backend /\ now \in 0..MaxWrites
  /\ phase \in {"idle", "text", "vector", "answer", "done"}
  /\ query \in Query \cup {None}
  /\ query = None <=> phase = "idle"
  /\ found \subseteq Hit /\ fit \subseteq Memories
  /\ touched \subseteq Memories /\ crowded \subseteq Memories

\* every row is as old as its last commit, and results are about stored rows
StampInv ==
  /\ \A m \in Memories : memories[m] # None => memories[m].updated <= now
  /\ \A h \in found : memories[h.memory] # None /\ h.updated <= memories[h.memory].updated

\* the observer has seen all there is now
FitInv == phase # "idle" => Candidates \subseteq fit

IInv ==
  /\ TypeInv /\ StampInv /\ FitInv /\ HitsWereFit
  /\ phase = "idle" => found = {}
  /\ phase = "vector" => query.vector

\* what the results of one list have in common
Sound(results) ==
  /\ results \subseteq Hit
  /\ \A h \in results : /\ h.memory \in fit'
                        /\ memories[h.memory] # None
                        /\ h.updated <= memories[h.memory].updated
  /\ \A g, h \in results : g.memory = h.memory => g = h

\* the result made of a stored row is a hit with the stamp of the row
LEMMA ResultIsHit ==
  ASSUME TypeInv, NEW m \in Memories, memories[m] # None,
         NEW rank \in Ranks \cup {None}, NEW near \in Nears \cup {None}
  PROVE  /\ Result(m, rank, near) \in Hit
         /\ Result(m, rank, near).memory = m
         /\ Result(m, rank, near).updated = memories[m].updated
         /\ memories[m].updated \in 0..MaxWrites
BY DEF TypeInv, Memory, Hit, Result

\* the merge of two lists keeps one result of each memory of either
LEMMA MergeSound ==
  ASSUME SearchAssumption, NEW left, NEW right, Sound(left), Sound(right)
  PROVE  Sound(Merge(left, right))
<1> DEFINE pairs == {q \in left \X right : q[1].memory = q[2].memory}
           both  == {Combine(p[1], p[2]) : p \in pairs}
<1>1. ASSUME NEW l \in left, NEW r \in right
      PROVE  /\ Combine(l, r) \in Hit
             /\ Combine(l, r).memory = l.memory
             /\ Combine(l, r).updated = l.updated
  <2>1. l \in Hit /\ r \in Hit
    BY <1>1 DEF Sound
  <2>2. Larger(l.used, r.used) \in 0..MaxUsed
    BY <2>1 DEF Hit, Larger
  <2> QED BY <2>1, <2>2 DEF Combine, Hit
<1>2. \A h \in both : \E l \in left, r \in right : l.memory = r.memory /\ h = Combine(l, r)
  OBVIOUS
<1>3. \A g, h \in both : g.memory = h.memory => g = h
  <2> SUFFICES ASSUME NEW g \in both, NEW h \in both, g.memory = h.memory
               PROVE  g = h
    OBVIOUS
  <2>1. PICK l1 \in left, r1 \in right : l1.memory = r1.memory /\ g = Combine(l1, r1)
    BY <1>2
  <2>2. PICK l2 \in left, r2 \in right : l2.memory = r2.memory /\ h = Combine(l2, r2)
    BY <1>2
  <2>3. l1.memory = l2.memory
    BY <1>1, <2>1, <2>2
  <2>4. l1 = l2 /\ r1 = r2
    BY <2>1, <2>2, <2>3 DEF Sound
  <2> QED BY <2>1, <2>2, <2>4
<1>4. ASSUME NEW h \in Merge(left, right)
      PROVE  \/ h \in left /\ \A r \in right : r.memory # h.memory
             \/ h \in right /\ \A l \in left : l.memory # h.memory
             \/ h \in both
  BY <1>4 DEF Merge
<1>5. \A h \in both : /\ h \in Hit
                      /\ \E l \in left, r \in right : /\ h.memory = l.memory /\ h.memory = r.memory
                                                      /\ h.updated = l.updated
  BY <1>1, <1>2
<1>6. Merge(left, right) \subseteq Hit
  BY <1>4, <1>5 DEF Sound
<1>7. \A h \in Merge(left, right) : /\ h.memory \in fit'
                                    /\ memories[h.memory] # None
                                    /\ h.updated <= memories[h.memory].updated
  <2> SUFFICES ASSUME NEW h \in Merge(left, right)
               PROVE  /\ h.memory \in fit'
                      /\ memories[h.memory] # None
                      /\ h.updated <= memories[h.memory].updated
    OBVIOUS
  <2>1. CASE h \in left \/ h \in right
    BY <2>1 DEF Sound
  <2>2. CASE h \in both
    BY <2>2, <1>5 DEF Sound
  <2> QED BY <1>4, <2>1, <2>2
<1>8. \A g, h \in Merge(left, right) : g.memory = h.memory => g = h
  <2> SUFFICES ASSUME NEW g \in Merge(left, right), NEW h \in Merge(left, right),
                      g.memory = h.memory
               PROVE  g = h
    OBVIOUS
  <2>1. CASE g \in both /\ h \in both
    BY <2>1, <1>3
  <2>2. CASE g \in both /\ h \notin both
    BY <2>2, <1>4, <1>5
  <2>3. CASE g \notin both /\ h \in both
    BY <2>3, <1>4, <1>5
  <2>4. CASE g \notin both /\ h \notin both
    BY <2>4, <1>4 DEF Sound
  <2> QED BY <2>1, <2>2, <2>3, <2>4
<1> QED BY <1>6, <1>7, <1>8 DEF Sound
-----------------------------------------------------------------------------
\* nothing is stored and nobody searches at first
LEMMA Initial == Init => IInv
<1> SUFFICES ASSUME Init PROVE IInv
  OBVIOUS
<1>1. TypeInv
  BY SearchAssumption DEF Init, TypeInv, Memory
<1>2. StampInv
  BY SearchAssumption DEF Init, StampInv
<1> QED BY <1>1, <1>2 DEF Init, IInv, FitInv, HitsWereFit

\* a commit of somebody else leaves the results true
LEMMA ChangeStep ==
  ASSUME IInv, NEW m \in Memories, NEW row \in Memory, Change(m, row),
         row.updated <= now + 1,
         memories[m] # None => memories[m].updated <= row.updated,
         fit' = IF phase' = "idle" THEN {} ELSE fit \cup Candidates'
  PROVE  IInv'
<1> USE SearchAssumption
<1>1. row # None /\ memories' = [memories EXCEPT ![m] = row]
  BY DEF Change
<1>2. memories' \in [Memories -> Memory \cup {None}]
  BY <1>1 DEF IInv, TypeInv
<1>3. Candidates' \subseteq Memories
  BY DEF Candidates, Matching, Neighbours, Shown
<1>4. TypeInv'
  <2>1. now' \in 0..MaxWrites
    BY DEF Change, IInv, TypeInv
  <2>2. touched' \subseteq Memories
    BY DEF Change, IInv, TypeInv
  <2>3. UNCHANGED <<leftovers, backend, phase, query, found, crowded>>
    BY DEF Change
  <2> QED BY <1>2, <1>3, <2>1, <2>2, <2>3 DEF IInv, TypeInv
<1>5. \A k \in Memories :
        memories[k] # None => memories'[k] # None /\ memories[k].updated <= memories'[k].updated
  <2> SUFFICES ASSUME NEW k \in Memories, memories[k] # None
               PROVE  memories'[k] # None /\ memories[k].updated <= memories'[k].updated
    OBVIOUS
  <2>1. memories[k] \in Memory /\ memories[k].updated \in Nat
    BY DEF IInv, TypeInv, Memory
  <2> QED BY <1>1, <2>1 DEF IInv, TypeInv
<1>6. \A k \in Memories : memories'[k] # None => /\ memories'[k].updated <= now'
                                                 /\ memories'[k].updated \in Nat
  <2> SUFFICES ASSUME NEW k \in Memories, memories'[k] # None
               PROVE  memories'[k].updated <= now' /\ memories'[k].updated \in Nat
    OBVIOUS
  <2>1. now' = now + 1 /\ now \in Nat
    BY DEF Change, IInv, TypeInv
  <2>2. CASE k = m
    BY <1>1, <2>1, <2>2 DEF IInv, TypeInv, Memory
  <2>3. CASE k # m
    <3>1. memories'[k] = memories[k] /\ memories[k] \in Memory
      BY <1>1, <2>3 DEF IInv, TypeInv
    <3> QED BY <2>1, <3>1 DEF IInv, StampInv, Memory
  <2> QED BY <2>2, <2>3
<1>7. found' = found /\ phase' = phase /\ query' = query
  BY DEF Change
<1>8. StampInv'
  <2>1. ASSUME NEW h \in found
        PROVE  memories'[h.memory] # None /\ h.updated <= memories'[h.memory].updated
    <3>1. h \in Hit /\ h.memory \in Memories /\ h.updated \in Nat
      BY <2>1 DEF IInv, TypeInv, Hit
    <3>2. /\ memories[h.memory] \in Memory
          /\ memories[h.memory] # None
          /\ h.updated <= memories[h.memory].updated
          /\ memories[h.memory].updated \in Nat
      BY <2>1, <3>1 DEF IInv, TypeInv, StampInv, Memory
    <3> QED BY <1>5, <1>6, <3>1, <3>2
  <2> QED BY <1>6, <1>7, <2>1 DEF StampInv
<1>9. FitInv' /\ HitsWereFit'
  <2>1. CASE phase = "idle"
    BY <1>7, <2>1 DEF IInv, FitInv, HitsWereFit
  <2>2. CASE phase # "idle"
    BY <1>7, <2>2 DEF IInv, FitInv, HitsWereFit
  <2> QED BY <2>1, <2>2
<1> QED BY <1>4, <1>7, <1>8, <1>9 DEF IInv

\* another request saves or updates a memory during the search
LEMMA SaveStep ==
  ASSUME IInv, NEW m \in Memories, NEW shown \in BOOLEAN, NEW rank \in Ranks \cup {None},
         NEW merit \in Merits, Save(m, shown, rank, merit),
         fit' = IF phase' = "idle" THEN {} ELSE fit \cup Candidates'
  PROVE  IInv'
<1> DEFINE row == [shown |-> shown, rank |-> rank, near |-> None, merit |-> merit,
                   used |-> 0, updated |-> now + 1]
<1>1. Change(m, row) /\ memories[m] = None
  BY DEF Save
<1>2. now \in Nat /\ now + 1 \in 0..MaxWrites
  BY SearchAssumption DEF Save, Change, IInv, TypeInv
<1>3. row \in Memory /\ row.updated = now + 1
  BY <1>2, SearchAssumption DEF Memory
<1> QED BY <1>1, <1>2, <1>3, ChangeStep

\* every write to a stored row keeps its stamp or sets it to the new one
LEMMA WriteStep ==
  ASSUME IInv, NEW m \in Memories, memories[m] # None, NEW row, Change(m, row),
         row \in Memory, row.updated \in {memories[m].updated, now + 1},
         fit' = IF phase' = "idle" THEN {} ELSE fit \cup Candidates'
  PROVE  IInv'
<1>1. memories[m] \in Memory /\ memories[m].updated \in Nat /\ now \in Nat
  BY DEF IInv, TypeInv, Memory
<1>2. memories[m].updated <= now
  BY DEF IInv, StampInv
<1>3. row.updated <= now + 1 /\ memories[m].updated <= row.updated
  BY <1>1, <1>2
<1> QED BY <1>3, ChangeStep

\* commits of others keep what the search has found true of a state it has seen
LEMMA StoreSteps ==
  ASSUME IInv, StoreStep, fit' = IF phase' = "idle" THEN {} ELSE fit \cup Candidates'
  PROVE  IInv'
<1> PICK m \in Memories :
      \/ \E shown \in BOOLEAN, merit \in Merits :
           \/ \E rank \in Ranks \cup {None} :
                Save(m, shown, rank, merit) \/ Rewrite(m, shown, rank, merit)
           \/ Amend(m, shown, merit)
           \/ Get(m, shown, merit)
      \/ \E near \in Nears : Index(m, near)
  BY DEF StoreStep
<1>1. memories[m] # None => memories[m] \in Memory
  BY DEF IInv, TypeInv
<1>2. now \in Nat /\ (now < MaxWrites => now + 1 \in 0..MaxWrites)
  BY SearchAssumption DEF IInv, TypeInv
<1>3. ASSUME NEW shown \in BOOLEAN, NEW merit \in Merits, NEW rank \in Ranks \cup {None},
             Save(m, shown, rank, merit)
      PROVE  IInv'
  BY <1>3, SaveStep
<1>4. ASSUME NEW shown \in BOOLEAN, NEW merit \in Merits, NEW rank \in Ranks \cup {None},
             Rewrite(m, shown, rank, merit)
      PROVE  IInv'
  <2> DEFINE row == [memories[m] EXCEPT !.shown = shown, !.rank = rank, !.near = None,
                                        !.merit = merit, !.updated = now + 1]
  <2>1. Change(m, row) /\ memories[m] \in Memory /\ memories[m] # None /\ now < MaxWrites
    BY <1>1, <1>4 DEF Rewrite, Change
  <2>2. row \in Memory /\ row.updated = now + 1
    BY <1>2, <2>1 DEF Memory
  <2> QED BY <2>1, <2>2, WriteStep
<1>5. ASSUME NEW shown \in BOOLEAN, NEW merit \in Merits, Amend(m, shown, merit)
      PROVE  IInv'
  <2> DEFINE row == [memories[m] EXCEPT !.shown = shown, !.merit = merit, !.updated = now + 1]
  <2>1. Change(m, row) /\ memories[m] \in Memory /\ memories[m] # None /\ now < MaxWrites
    BY <1>1, <1>5 DEF Amend, Change
  <2>2. row \in Memory /\ row.updated = now + 1
    BY <1>2, <2>1 DEF Memory
  <2> QED BY <2>1, <2>2, WriteStep
<1>6. ASSUME NEW shown \in BOOLEAN, NEW merit \in Merits, Get(m, shown, merit)
      PROVE  IInv'
  <2> DEFINE used == Smaller(memories[m].used + 1, MaxUsed)
             row  == [memories[m] EXCEPT !.used = used, !.shown = shown, !.merit = merit,
                                         !.updated = now + 1]
  <2>1. Change(m, row) /\ memories[m] \in Memory /\ memories[m] # None /\ now < MaxWrites
    BY <1>1, <1>6 DEF Get, Change
  <2>2. used \in 0..MaxUsed
    BY <2>1, SearchAssumption DEF Memory, Smaller
  <2> HIDE DEF used
  <2>3. row \in Memory /\ row.updated = now + 1
    BY <1>2, <2>1, <2>2 DEF Memory
  <2> QED BY <2>1, <2>3, WriteStep
<1>7. ASSUME NEW near \in Nears, Index(m, near)
      PROVE  IInv'
  <2> DEFINE row == [memories[m] EXCEPT !.near = near]
  <2>1. Change(m, row) /\ memories[m] \in Memory /\ memories[m] # None
    BY <1>1, <1>7 DEF Index
  <2>2. row \in Memory /\ row.updated = memories[m].updated
    BY <2>1 DEF Memory
  <2> QED BY <2>1, <2>2, WriteStep
<1> QED BY <1>3, <1>4, <1>5, <1>6, <1>7
-----------------------------------------------------------------------------
\* what a step of the search that leaves the store alone has to show
LEMMA ReadStep ==
  ASSUME IInv, UNCHANGED storeVars, UNCHANGED query,
         phase' \in {"text", "vector", "answer", "done"}, phase # "idle",
         crowded' \subseteq Memories, Sound(found'), phase' = "vector" => query.vector,
         phase' = "done" => \A h \in found' : h.keywords >= h.updated,
         fit' = IF phase' = "idle" THEN {} ELSE fit \cup Candidates'
  PROVE  IInv'
<1>1. Candidates' = Candidates /\ Candidates \subseteq Memories
  BY DEF storeVars, Candidates, Matching, Neighbours, Shown
<1>2. fit' = fit \cup Candidates
  BY <1>1
<1>3. TypeInv'
  BY <1>1, <1>2 DEF IInv, TypeInv, storeVars, Sound
<1>4. StampInv'
  BY DEF IInv, StampInv, storeVars, Sound
<1>5. FitInv' /\ HitsWereFit'
  BY <1>1, <1>2 DEF FitInv, HitsWereFit, Sound
<1> QED BY <1>3, <1>4, <1>5 DEF IInv

\* what has been found so far is sound, before and after a step that only reads
LEMMA FoundSound ==
  ASSUME IInv, fit' = IF phase' = "idle" THEN {} ELSE fit \cup Candidates', phase' # "idle"
  PROVE  Sound(found)
BY DEF IInv, TypeInv, StampInv, HitsWereFit, Sound

\* results about candidates of this moment are sound
LEMMA RowsSound ==
  ASSUME IInv, NEW T \in SUBSET Candidates, NEW results, Candidates \subseteq fit',
         \A h \in results : \E m \in T, rank \in Ranks \cup {None}, near \in Nears \cup {None} :
                              h = Result(m, rank, near),
         \A g, h \in results : g.memory = h.memory => g = h
  PROVE  Sound(results)
<1>1. \A m \in T : m \in Memories /\ memories[m] # None /\ m \in fit'
  BY DEF Candidates, Matching, Neighbours, Shown
<1>2. ASSUME NEW h \in results
      PROVE  /\ h \in Hit /\ h.memory \in fit' /\ memories[h.memory] # None
             /\ h.updated <= memories[h.memory].updated
  <2>1. PICK m \in T, rank \in Ranks \cup {None}, near \in Nears \cup {None} :
               h = Result(m, rank, near)
    BY <1>2
  <2>2. /\ h \in Hit /\ h.memory = m /\ h.updated = memories[m].updated
        /\ memories[m].updated \in Nat
    BY <1>1, <2>1, ResultIsHit, SearchAssumption DEF IInv
  <2> QED BY <1>1, <2>2
<1> QED BY <1>2 DEF Sound

\* everything present is observed as soon as a search has begun
LEMMA Observed ==
  ASSUME UNCHANGED storeVars, UNCHANGED query, phase' # "idle",
         fit' = IF phase' = "idle" THEN {} ELSE fit \cup Candidates'
  PROVE  Candidates \subseteq fit'
BY DEF storeVars, Candidates, Matching, Neighbours, Shown

\* a search begins and observes what is stored
LEMMA BeginStep ==
  ASSUME IInv, NEW depth \in Depths, NEW vector \in BOOLEAN, Begin(depth, vector),
         fit' = IF phase' = "idle" THEN {} ELSE fit \cup Candidates'
  PROVE  IInv'
<1>1. Candidates' \subseteq Memories
  BY DEF Candidates, Matching, Neighbours, Shown
<1>2. found' = {} /\ phase' = "text" /\ query' \in Query
  BY DEF Begin, IInv, Query
<1>3. UNCHANGED <<memories, leftovers, backend, now, touched, crowded>>
  BY DEF Begin, storeVars
<1>4. fit' = fit \cup Candidates'
  BY <1>2
<1>5. TypeInv'
  BY <1>1, <1>2, <1>3, <1>4, SearchAssumption DEF IInv, TypeInv
<1>6. StampInv'
  BY <1>2, <1>3 DEF IInv, StampInv
<1>7. FitInv' /\ HitsWereFit'
  BY <1>2, <1>4 DEF FitInv, HitsWereFit
<1> QED BY <1>2, <1>5, <1>6, <1>7 DEF IInv

\* the text query returns rows that are stored now
LEMMA TextQueryStep ==
  ASSUME IInv, TextQuery,
         fit' = IF phase' = "idle" THEN {} ELSE fit \cup Candidates'
  PROVE  IInv'
<1>1. PICK T \in SUBSET Matching : found' = {Result(m, memories[m].rank, None) : m \in T}
  BY DEF TextQuery, Top
<1>2. /\ phase = "text" /\ phase' \in {"vector", "answer"}
      /\ phase' = "vector" => query.vector
      /\ UNCHANGED storeVars /\ UNCHANGED query
  BY DEF TextQuery
<1>3. crowded' \subseteq Memories
  BY DEF TextQuery, Crowded, Matching, Shown
<1>4. \A m \in T : /\ m \in Memories /\ memories[m] \in Memory /\ memories[m] # None
                   /\ memories[m].rank \in Ranks \cup {None}
  BY DEF IInv, TypeInv, Memory, Matching, Shown
<1>5. \A h \in found' : \E m \in T, rank \in Ranks \cup {None}, near \in Nears \cup {None} :
                          h = Result(m, rank, near)
  BY <1>1, <1>4
<1>6. \A g, h \in found' : g.memory = h.memory => g = h
  BY <1>1 DEF Result
<1>7. T \subseteq Candidates /\ Candidates \subseteq fit'
  BY <1>2, Observed DEF Candidates
<1>8. Sound(found')
  BY <1>5, <1>6, <1>7, RowsSound
<1> QED BY <1>2, <1>3, <1>8, ReadStep

\* neighbours are merged into the results with the rows they have now
LEMMA AddNeighboursStep ==
  ASSUME IInv, phase = "vector", query.vector, NEW T \in SUBSET Neighbours, NEW out,
         AddNeighbours(T, out),
         fit' = IF phase' = "idle" THEN {} ELSE fit \cup Candidates'
  PROVE  IInv'
<1> DEFINE right == {Result(m, None, memories[m].near) : m \in T}
<1>1. /\ phase' = "answer" /\ found' = Merge(found, right)
      /\ UNCHANGED storeVars /\ UNCHANGED query
      /\ crowded' = crowded \cup (out \cap Memories)
  BY DEF AddNeighbours
<1>2. \A m \in T : /\ m \in Memories /\ memories[m] \in Memory /\ memories[m] # None
                   /\ memories[m].near \in Nears \cup {None}
  BY DEF IInv, TypeInv, Memory, Neighbours, Shown
<1>3. \A h \in right : \E m \in T, rank \in Ranks \cup {None}, near \in Nears \cup {None} :
                         h = Result(m, rank, near)
  BY <1>2
<1>4. \A g, h \in right : g.memory = h.memory => g = h
  BY DEF Result
<1>5. T \subseteq Candidates /\ Candidates \subseteq fit'
  BY <1>1, Observed DEF Candidates
<1>6. Sound(right)
  BY <1>3, <1>4, <1>5, RowsSound
<1>7. Sound(found)
  BY <1>1, FoundSound
<1>8. Sound(found')
  BY <1>1, <1>6, <1>7, MergeSound, SearchAssumption
<1>9. crowded' \subseteq Memories
  BY <1>1 DEF IInv, TypeInv
<1> QED BY <1>1, <1>8, <1>9, ReadStep

\* the page is cut from the merged results
LEMMA AnswerStep ==
  ASSUME IInv, Answer,
         fit' = IF phase' = "idle" THEN {} ELSE fit \cup Candidates'
  PROVE  IInv'
<1>1. PICK T \in SUBSET found : found' = {Keywords(h) : h \in T}
  BY DEF Answer, Top
<1>2. /\ phase = "answer" /\ phase' = "done"
      /\ UNCHANGED storeVars /\ UNCHANGED query /\ crowded' = crowded
  BY DEF Answer
<1>3. Sound(found)
  BY <1>2, FoundSound
<1>4. ASSUME NEW h \in T
      PROVE  /\ Keywords(h) \in Hit /\ Keywords(h).memory = h.memory
             /\ Keywords(h).updated = h.updated
             /\ Keywords(h).keywords = memories[h.memory].updated
  <2>1. h \in Hit /\ memories[h.memory] \in Memory
    BY <1>3 DEF Sound, Hit, IInv, TypeInv
  <2> QED BY <2>1 DEF Keywords, Hit, Memory
<1>5. \A h \in found' : \E g \in T : h = Keywords(g)
  BY <1>1
<1>6. Sound(found')
  <2>1. found' \subseteq Hit
    BY <1>4, <1>5
  <2>2. \A h \in found' : /\ h.memory \in fit' /\ memories[h.memory] # None
                          /\ h.updated <= memories[h.memory].updated
    BY <1>3, <1>4, <1>5 DEF Sound
  <2>3. \A g, h \in found' : g.memory = h.memory => g = h
    BY <1>3, <1>4, <1>5 DEF Sound
  <2> QED BY <2>1, <2>2, <2>3 DEF Sound
<1>7. \A h \in found' : h.keywords >= h.updated
  <2> TAKE h \in found'
  <2>1. PICK g \in T : h = Keywords(g)
    BY <1>5
  <2>2. /\ g.updated <= memories[g.memory].updated
        /\ g.updated \in Nat /\ memories[g.memory].updated \in Nat
    BY <1>3 DEF Sound, Hit, Memory, IInv, TypeInv
  <2> QED BY <1>4, <2>1, <2>2
<1>8. crowded' \subseteq Memories
  BY <1>2 DEF IInv, TypeInv
<1> QED BY <1>2, <1>6, <1>7, <1>8, ReadStep

\* the answer is returned, and the observer forgets
LEMMA ReturnStep ==
  ASSUME IInv, Return, fit' = IF phase' = "idle" THEN {} ELSE fit \cup Candidates'
  PROVE  IInv'
<1>1. /\ phase' = "idle" /\ query' = None /\ found' = {} /\ crowded' = {} /\ touched' = {}
      /\ fit' = {} /\ UNCHANGED <<memories, leftovers, backend, now>>
  BY DEF Return
<1>2. TypeInv'
  BY <1>1 DEF IInv, TypeInv
<1>3. StampInv'
  BY <1>1 DEF IInv, StampInv
<1> QED BY <1>1, <1>2, <1>3 DEF IInv, FitInv, HitsWereFit

\* every step of the search keeps the invariant
LEMMA SearchSteps ==
  ASSUME IInv, SearchStep, fit' = IF phase' = "idle" THEN {} ELSE fit \cup Candidates'
  PROVE  IInv'
<1>1. CASE \E depth \in Depths, vector \in BOOLEAN : Begin(depth, vector)
  BY <1>1, BeginStep
<1>2. CASE TextQuery
  BY <1>2, TextQueryStep
<1>3. CASE ScanEmbeddings
  <2>1. PICK S \in SUBSET Neighbours : \E T \in SUBSET S :
               AddNeighbours(T, Crowded(Neighbours, ScanLimit, Newer)
                                  \cup Crowded(S, CandidateLimit, MoreSimilar))
    BY <1>3 DEF ScanEmbeddings, Top
  <2>2. phase = "vector" /\ query.vector
    BY <1>3 DEF ScanEmbeddings, IInv
  <2> QED BY <2>1, <2>2, AddNeighboursStep
<1>4. CASE NearestRows
  <2>1. PICK S \in SUBSET VecRows : \E T \in SUBSET (S \cap Neighbours) :
               AddNeighbours(T, Crowded(VecRows, ScanLimit, Closer)
                                  \cup Crowded(S \cap Neighbours, CandidateLimit, Closer))
    BY <1>4 DEF NearestRows, Top
  <2>2. phase = "vector" /\ query.vector
    BY <1>4 DEF NearestRows, IInv
  <2> QED BY <2>1, <2>2, AddNeighboursStep
<1>5. CASE Answer
  BY <1>5, AnswerStep
<1>6. CASE Return
  BY <1>6, ReturnStep
<1> QED BY <1>1, <1>2, <1>3, <1>4, <1>5, <1>6 DEF SearchStep

\* so does every step
LEMMA Step == IInv /\ [Next]_vars => IInv'
<1> SUFFICES ASSUME IInv, [Next]_vars PROVE IInv'
  OBVIOUS
<1>1. CASE Next
  BY <1>1, SearchSteps, StoreSteps DEF Next
<1>2. CASE UNCHANGED vars
  <2>1. TypeInv'
    BY <1>2 DEF vars, IInv, TypeInv
  <2>2. StampInv' /\ FitInv' /\ HitsWereFit'
    BY <1>2 DEF vars, IInv, StampInv, FitInv, HitsWereFit, Candidates, Matching, Neighbours,
                Shown
  <2> QED BY <1>2, <2>1, <2>2 DEF vars, IInv
<1> QED BY <1>1, <1>2

\* the invariant holds in every reachable state
LEMMA Always == Spec => []IInv
BY Initial, Step, PTL DEF Spec

(* Whatever is committed between the queries, a result was a candidate at  *)
(* some moment of the search, a memory is listed once, and its keywords    *)
(* are at least as new as its row (mergeSearchResult, the filters of the   *)
(* queries, and the order of the reads in Service.Search).                 *)
THEOREM HitsWereFitHolds == Spec => []HitsWereFit
<1>1. IInv => HitsWereFit
  BY DEF IInv
<1> QED BY <1>1, Always, PTL
-----------------------------------------------------------------------------
\* the lengths that TypeOK bounds
LengthInv ==
  /\ phase = "vector" => IsFiniteSet(found) /\ Cardinality(found) <= CandidateLimit
  /\ phase = "done" => IsFiniteSet(found) /\ Cardinality(found) <= Limit

\* limit and candidate limit of a search under way
LEMMA LimitsAreNumbers ==
  ASSUME TypeInv, phase # "idle"
  PROVE  Limit \in Nat /\ CandidateLimit \in Nat
<1>1. query.depth \in {"shallow", "standard", "deep"}
  BY SearchAssumption DEF TypeInv, Query
<1>2. Multiplier[query.depth] \in {1, 3, 8}
  BY <1>1 DEF Multiplier
<1>3. Limit * Multiplier[query.depth] \in Nat
  BY <1>2, SearchAssumption
<1> QED BY <1>3, SearchAssumption DEF CandidateLimit, Smaller

\* a result per memory: a list is no longer than the store
LEMMA ResultsAreFinite ==
  ASSUME IInv
  PROVE  IsFiniteSet(found)
<1> DEFINE f == [h \in found |-> h.memory]
<1>1. f \in [found -> Memories]
  BY DEF IInv, TypeInv, Hit
<1>2. \A g, h \in found : f[g] = f[h] => g = h
  BY DEF IInv, HitsWereFit
<1>3. f \in Injection(found, Memories)
  BY <1>1, <1>2 DEF Injection, IsInjective
<1> QED BY <1>3, FS_Injection, SearchAssumption

\* a cut is no longer than its limit
LEMMA CutLength ==
  ASSUME NEW S, IsFiniteSet(S), NEW n \in Nat, NEW T \in SUBSET S,
         Cardinality(T) = Smaller(n, Cardinality(S))
  PROVE  IsFiniteSet(T) /\ Cardinality(T) \in Nat /\ Cardinality(T) <= n
BY FS_Subset, FS_CardinalityType DEF Smaller

\* the row made of each memory or result makes a list no longer
LEMMA ImageLength ==
  ASSUME NEW T, IsFiniteSet(T), NEW R, NEW f \in [T -> R],
         NEW n \in Nat, Cardinality(T) <= n, \A r \in R : \E x \in T : f[x] = r
  PROVE  IsFiniteSet(R) /\ Cardinality(R) <= n
<1>1. f \in Surjection(T, R)
  BY DEF Surjection
<1>2. IsFiniteSet(R) /\ Cardinality(R) <= Cardinality(T)
  BY <1>1, FS_Surjection
<1>3. Cardinality(R) \in Nat /\ Cardinality(T) \in Nat
  BY <1>2, FS_CardinalityType
<1> QED BY <1>2, <1>3

\* results, candidates and page stay within their limits
LEMMA LengthStep == IInv /\ LengthInv /\ [Next]_vars => LengthInv'
<1> SUFFICES ASSUME IInv, LengthInv, [Next]_vars PROVE LengthInv'
  OBVIOUS
<1>1. CASE TextQuery
  <2>1. PICK T \in SUBSET Matching :
               /\ Cardinality(T) = Smaller(CandidateLimit, Cardinality(Matching))
               /\ found' = {Result(m, memories[m].rank, None) : m \in T}
    BY <1>1 DEF TextQuery, Top
  <2>2. /\ phase = "text" /\ phase' \in {"vector", "answer"}
        /\ CandidateLimit' = CandidateLimit
    BY <1>1 DEF TextQuery, CandidateLimit
  <2>3. CandidateLimit \in Nat
    BY <2>2, LimitsAreNumbers DEF IInv
  <2>4. IsFiniteSet(Matching)
    BY FS_Subset, SearchAssumption DEF Matching, Shown
  <2>5. IsFiniteSet(T) /\ Cardinality(T) <= CandidateLimit
    BY <2>1, <2>3, <2>4, CutLength
  <2> DEFINE f == [m \in T |-> Result(m, memories[m].rank, None)]
  <2>6. f \in [T -> found'] /\ \A r \in found' : \E x \in T : f[x] = r
    BY <2>1
  <2> HIDE DEF f
  <2>7. IsFiniteSet(found') /\ Cardinality(found') <= CandidateLimit
    BY <2>3, <2>5, <2>6, ImageLength
  <2> QED BY <2>2, <2>7 DEF LengthInv
<1>2. CASE Answer
  <2>1. PICK T \in SUBSET found :
               /\ Cardinality(T) = Smaller(Limit, Cardinality(found))
               /\ found' = {Keywords(h) : h \in T}
    BY <1>2 DEF Answer, Top
  <2>2. phase' = "done" /\ Limit \in Nat
    BY <1>2, SearchAssumption DEF Answer
  <2>3. IsFiniteSet(T) /\ Cardinality(T) <= Limit
    BY <2>1, <2>2, ResultsAreFinite, CutLength
  <2> DEFINE f == [h \in T |-> Keywords(h)]
  <2>4. f \in [T -> found'] /\ \A r \in found' : \E x \in T : f[x] = r
    BY <2>1
  <2> HIDE DEF f
  <2>5. IsFiniteSet(found') /\ Cardinality(found') <= Limit
    BY <2>2, <2>3, <2>4, ImageLength
  <2> QED BY <2>2, <2>5 DEF LengthInv
<1>3. CASE \E depth \in Depths, vector \in BOOLEAN : Begin(depth, vector)
  BY <1>3 DEF Begin, LengthInv
<1>4. CASE ScanEmbeddings \/ NearestRows \/ Return
  BY <1>4 DEF ScanEmbeddings, NearestRows, AddNeighbours, Return, LengthInv
<1>5. CASE StoreStep
  <2>1. phase' = phase /\ found' = found /\ query' = query
    BY <1>5 DEF StoreStep, Save, Rewrite, Amend, Get, Index, Change
  <2> QED BY <2>1 DEF LengthInv, CandidateLimit
<1>6. CASE UNCHANGED vars
  BY <1>6 DEF vars, LengthInv, CandidateLimit
<1> QED BY <1>1, <1>2, <1>3, <1>4, <1>5, <1>6 DEF Next, SearchStep

(* The types, and the lengths of the candidate list and of the page, for   *)
(* every limit and every depth (CandidateLimit and the cuts of Search).    *)
THEOREM SearchTypeOK == Spec => []TypeOK
<1>1. Init => LengthInv
  BY DEF Init, LengthInv
<1>2. IInv /\ LengthInv => TypeOK
  BY DEF IInv, TypeInv, LengthInv, TypeOK
<1> QED BY <1>1, <1>2, Always, LengthStep, PTL DEF Spec
-----------------------------------------------------------------------------
(* What is not left out.  An observer's memory is sure when nobody wrote   *)
(* to it since the search began and no limit may have cut it.              *)
Sure(m) == m \notin touched \cup crowded

\* the results of the text query, while the vector query is still to come
TextInv ==
  phase = "vector" =>
    /\ \A h \in found : h.memory \notin touched =>
         h = Result(h.memory, memories[h.memory].rank, None)
    /\ \A m \in Matching : Sure(m) => \E h \in found : h.memory = m

\* all results, before the page is cut
ListInv ==
  phase = "answer" =>
    \A m \in Candidates : Sure(m) => Present(m) \in found

CompleteInv == TextInv /\ ListInv /\ NothingBetterIsMissing

\* whoever is left out of a list is behind a full one
LEMMA LeftOut ==
  ASSUME NEW S, IsFiniteSet(S), NEW n \in Nat, NEW T \in SUBSET S, NEW W \in SUBSET S,
         Cardinality(T) = Smaller(n, Cardinality(S)), T \subseteq W, T # S
  PROVE  Cardinality(T) = n /\ Cardinality(W) >= n
<1>1. IsFiniteSet(T) /\ IsFiniteSet(W) /\ Cardinality(T) <= Cardinality(W)
  BY FS_Subset
<1>2. Cardinality(T) # Cardinality(S)
  BY FS_Subset
<1>3. Cardinality(S) \in Nat /\ Cardinality(T) \in Nat /\ Cardinality(W) \in Nat
  BY <1>1, FS_CardinalityType
<1> QED BY <1>1, <1>2, <1>3 DEF Smaller

\* scores can be compared
LEMMA ScoreIsNumber ==
  ASSUME NEW h \in Hit
  PROVE  /\ KeywordScore(h.rank) \in Nat /\ Beside(h) \in Int
         /\ Total(h) = KeywordScore(h.rank) + Beside(h)
<1>0. /\ h.merit \in Merits /\ h.used \in 0..MaxUsed
      /\ h.near \in Nears \cup {None} /\ h.rank \in Ranks \cup {None}
  BY DEF Hit
<1>1. h.merit \in Nat /\ h.used \in Nat
  <2>1. Merits \subseteq Nat /\ 0..MaxUsed \subseteq Nat
    BY SearchAssumption
  <2> QED BY <1>0, <2>1
<1>2. VectorScore(h.near) \in Int
  <2>1. CASE h.near = None
    BY <2>1 DEF VectorScore
  <2>2. CASE h.near # None
    <3>1. h.near \in Int
      BY <1>0, <2>2, SearchAssumption
    <3> QED BY <2>2, <3>1 DEF VectorScore, Larger
  <2> QED BY <2>1, <2>2
<1>3. KeywordScore(h.rank) \in Nat
  <2>1. CASE h.rank = None
    BY <2>1 DEF KeywordScore
  <2>2. CASE h.rank # None
    <3>1. h.rank \in Nat
      BY <1>0, <2>2, SearchAssumption
    <3>2. 20 \div (1 + h.rank) \in Nat
      BY <3>1
    <3> QED BY <2>2, <3>2 DEF KeywordScore
  <2> QED BY <2>1, <2>2
<1> QED BY <1>1, <1>2, <1>3 DEF Total, Beside

\* who is outdone, whatever a match is worth, has the lower score
LEMMA OutdoingScores ==
  ASSUME NEW g \in Hit, NEW h \in Hit, Outdoes(g, h)
  PROVE  Total(g) > Total(h)
<1>1. h.rank \in {g.rank, None} /\ Beside(g) > Beside(h)
  BY DEF Outdoes
<1>2. h.rank = None => KeywordScore(h.rank) = 0
  BY DEF KeywordScore
<1>3. KeywordScore(h.rank) =< KeywordScore(g.rank)
  BY <1>1, <1>2, ScoreIsNumber
<1> QED BY <1>1, <1>3, ScoreIsNumber

\* who falls out of the text query is behind as many better matches as its limit
LEMMA TextCut ==
  ASSUME NEW S, IsFiniteSet(S), NEW n \in Nat, NEW T \in Top(S, n, BetterMatch), NEW m \in S \ T
  PROVE  m \in Crowded(S, n, BetterMatch)
<1> DEFINE W == {y \in S \ {m} : ~BetterMatch(m, y)}
<1>1. T \in SUBSET S /\ Cardinality(T) = Smaller(n, Cardinality(S)) /\ T \subseteq W /\ T # S
  BY DEF Top
<1>2. Cardinality(W) >= n
  BY <1>1, LeftOut
<1> QED BY <1>2 DEF Crowded

\* who falls out of the scan is behind as many newer embeddings
LEMMA NewestCut ==
  ASSUME NEW S, IsFiniteSet(S), NEW n \in Nat, NEW T \in Top(S, n, Newer), NEW m \in S \ T
  PROVE  m \in Crowded(S, n, Newer)
<1> DEFINE W == {y \in S \ {m} : ~Newer(m, y)}
<1>1. T \in SUBSET S /\ Cardinality(T) = Smaller(n, Cardinality(S)) /\ T \subseteq W /\ T # S
  BY DEF Top
<1>2. Cardinality(W) >= n
  BY <1>1, LeftOut
<1> QED BY <1>2 DEF Crowded

\* who falls out of the nearest of the scan is behind as many more similar ones
LEMMA SimilarCut ==
  ASSUME NEW S, IsFiniteSet(S), NEW n \in Nat, NEW T \in Top(S, n, MoreSimilar), NEW m \in S \ T
  PROVE  m \in Crowded(S, n, MoreSimilar)
<1> DEFINE W == {y \in S \ {m} : ~MoreSimilar(m, y)}
<1>1. T \in SUBSET S /\ Cardinality(T) = Smaller(n, Cardinality(S)) /\ T \subseteq W /\ T # S
  BY DEF Top
<1>2. Cardinality(W) >= n
  BY <1>1, LeftOut
<1> QED BY <1>2 DEF Crowded

\* who falls out of the nearest rows is behind as many closer ones
LEMMA CloserCut ==
  ASSUME NEW S, IsFiniteSet(S), NEW n \in Nat, NEW T \in Top(S, n, Closer), NEW m \in S \ T
  PROVE  m \in Crowded(S, n, Closer)
<1> DEFINE W == {y \in S \ {m} : ~Closer(m, y)}
<1>1. T \in SUBSET S /\ Cardinality(T) = Smaller(n, Cardinality(S)) /\ T \subseteq W /\ T # S
  BY DEF Top
<1>2. Cardinality(W) >= n
  BY <1>1, LeftOut
<1> QED BY <1>2 DEF Crowded

\* what the queries choose from is finite
LEMMA FiniteLists ==
  /\ IsFiniteSet(Matching) /\ IsFiniteSet(Neighbours) /\ IsFiniteSet(VecRows)
  /\ \A S \in SUBSET VecRows : IsFiniteSet(S)
<1>1. IsFiniteSet(Memories \cup Leftovers)
  BY FS_Union, SearchAssumption
<1>2. /\ Matching \subseteq Memories \cup Leftovers /\ Neighbours \subseteq Memories \cup Leftovers
      /\ VecRows \subseteq Memories \cup Leftovers
  BY DEF Matching, Neighbours, VecRows, Shown
<1> QED BY <1>1, <1>2, FS_Subset

\* the scan limit of a search under way
LEMMA ScanLimitIsNumber ==
  ASSUME TypeInv, phase # "idle"
  PROVE  ScanLimit \in Nat
BY LimitsAreNumbers, SearchAssumption DEF ScanLimit, Smaller

\* what the queries make of a memory, in one list or in two
LEMMA Halves ==
  ASSUME TypeInv, NEW m \in Memories, memories[m] # None
  PROVE  LET r == memories[m].rank
             n == memories[m].near
         IN  /\ query.vector => Present(m) = Result(m, r, n)
             /\ ~query.vector => Present(m) = Result(m, r, None)
             /\ Combine(Result(m, r, None), Result(m, None, n)) = Result(m, r, n)
             /\ Result(m, r, n).memory = m /\ Result(m, r, None).memory = m
             /\ Result(m, None, n).memory = m
<1> DEFINE r == memories[m].rank
           n == memories[m].near
           l == Result(m, r, None)
           v == Result(m, None, n)
           w == Result(m, r, n)
<1>1. memories[m].used \in Int
  BY DEF TypeInv, Memory
<1>2. Larger(l.used, v.used) = memories[m].used
  BY <1>1 DEF Larger, Result
<1>3. Combine(l, v) = w
  <2>1. Combine(l, v) = [l EXCEPT !.near = v.near, !.used = Larger(l.used, v.used)]
    BY DEF Combine
  <2>2. v.near = n
    BY DEF Result
  <2>3. Combine(l, v) = [l EXCEPT !.near = n, !.used = memories[m].used]
    BY <1>2, <2>1, <2>2
  <2> HIDE DEF r, n
  <2> QED BY <2>3 DEF Result
<1>4. l.memory = m /\ v.memory = m /\ w.memory = m
  BY DEF Result
<1> QED BY <1>3, <1>4 DEF Present

\* who is sure stays as it was, whatever is done to the others
LEMMA Undisturbed ==
  ASSUME CompleteInv, NEW D \in SUBSET Memories, phase # "idle" => touched' = touched \cup D,
         \A k \in Memories \ D : memories'[k] = memories[k],
         UNCHANGED <<phase, query, found, crowded>>, TypeInv
  PROVE  CompleteInv'
<1>1. CASE phase = "idle"
  BY <1>1 DEF CompleteInv, TextInv, ListInv, NothingBetterIsMissing
<1>2. CASE phase # "idle"
  <2>1. ASSUME NEW m \in Memories, m \notin touched'
        PROVE  m \notin touched /\ memories'[m] = memories[m]
    BY <1>2, <2>1
  <2>2. ASSUME NEW m \in Memories, m \notin touched'
        PROVE  /\ m \in Matching' <=> m \in Matching
               /\ m \in Candidates' <=> m \in Candidates
               /\ Present(m)' = Present(m)
               /\ Keywords(Present(m))' = Keywords(Present(m))
               /\ Result(m, memories[m].rank, None)' = Result(m, memories[m].rank, None)
    <3>1. m \in Shown' <=> m \in Shown
      BY <2>1, <2>2 DEF Shown
    <3>2. /\ m \in Matching' <=> m \in Matching
          /\ m \in Neighbours' <=> m \in Neighbours
      BY <2>1, <2>2, <3>1 DEF Matching, Neighbours
    <3>3. m \in Candidates' <=> m \in Candidates
      BY <3>2 DEF Candidates
    <3>4. Present(m)' = Present(m)
      BY <2>1, <2>2 DEF Present, Result
    <3>5. Result(m, memories[m].rank, None)' = Result(m, memories[m].rank, None)
      BY <2>1, <2>2 DEF Result
    <3>6. Present(m).memory = m
      BY DEF Present, Result
    <3>7. Keywords(Present(m))' = Keywords(Present(m))
      BY <2>1, <2>2, <3>4, <3>6 DEF Keywords
    <3> QED BY <3>2, <3>3, <3>4, <3>5, <3>7
  <2>3. Matching' \subseteq Memories /\ Candidates' \subseteq Memories
    BY DEF Candidates, Matching, Neighbours, Shown
  <2>4. \A h \in found : h.memory \in Memories
    BY DEF TypeInv, Hit
  <2>5. TextInv'
    <3>1. SUFFICES ASSUME phase' = "vector"
                   PROVE  /\ \A h \in found' : h.memory \notin touched' =>
                               h = Result(h.memory, memories[h.memory].rank, None)'
                          /\ \A m \in Matching' : Sure(m)' => \E h \in found' : h.memory = m
      BY DEF TextInv
    <3>2. ASSUME NEW h \in found', h.memory \notin touched'
          PROVE  h = Result(h.memory, memories[h.memory].rank, None)'
      <4>1. h.memory \in Memories /\ h \in found /\ h.memory \notin touched
        BY <2>1, <2>4, <3>2
      <4>2. h = Result(h.memory, memories[h.memory].rank, None)
        BY <3>1, <4>1 DEF CompleteInv, TextInv
      <4> QED BY <2>1, <3>2, <4>1, <4>2 DEF Result
    <3>3. ASSUME NEW m \in Matching', Sure(m)'
          PROVE  \E h \in found' : h.memory = m
      <4>1. m \in Memories /\ m \notin touched'
        BY <2>3, <3>3 DEF Sure
      <4>2. m \in Matching /\ Sure(m)
        BY <2>1, <2>2, <3>3, <4>1 DEF Sure
      <4> QED BY <3>1, <4>2 DEF CompleteInv, TextInv
    <3> QED BY <3>2, <3>3
  <2>6. ListInv'
    <3>1. SUFFICES ASSUME phase' = "answer", NEW m \in Candidates', Sure(m)'
                   PROVE  Present(m)' \in found'
      BY DEF ListInv
    <3>2. m \in Memories /\ m \notin touched'
      BY <2>3, <3>1 DEF Sure
    <3>3. m \in Candidates /\ Sure(m) /\ Present(m)' = Present(m)
      BY <2>1, <2>2, <3>1, <3>2 DEF Sure
    <3> QED BY <3>1, <3>3 DEF CompleteInv, ListInv
  <2>7. NothingBetterIsMissing'
    <3>1. SUFFICES ASSUME phase' = "done", NEW m \in Candidates', m \notin touched',
                          m \notin crowded'
                   PROVE  \/ Keywords(Present(m))' \in found'
                          \/ /\ Cardinality(found') = Limit
                             /\ \A h \in found' : ~Outdoes(Present(m), h)'
      BY DEF NothingBetterIsMissing
    <3>2. m \in Memories
      BY <2>3, <3>1
    <3>3. /\ m \in Candidates \ (touched \cup crowded) /\ Present(m)' = Present(m)
          /\ Keywords(Present(m))' = Keywords(Present(m))
      BY <2>1, <2>2, <3>1, <3>2
    <3>4. \A h : Outdoes(Present(m), h)' <=> Outdoes(Present(m), h)
      BY <3>3 DEF Outdoes, Beside
    <3> QED BY <3>1, <3>3, <3>4 DEF CompleteInv, NothingBetterIsMissing
  <2> QED BY <2>5, <2>6, <2>7 DEF CompleteInv
<1> QED BY <1>1, <1>2

\* a commit about another memory takes no half of a score from an untouched one
LEMMA StoreUndisturbs ==
  ASSUME IInv, CompleteInv, StoreStep
  PROVE  CompleteInv'
<1>1. PICK m \in Memories : \E row : Change(m, row)
  BY DEF StoreStep, Save, Rewrite, Amend, Get, Index
<1>2. PICK row : Change(m, row)
  BY <1>1
<1>3. /\ memories' = [memories EXCEPT ![m] = row]
      /\ phase # "idle" => touched' = touched \cup {m}
      /\ UNCHANGED <<phase, query, found, crowded>>
  BY <1>2 DEF Change
<1>4. \A k \in Memories \ {m} : memories'[k] = memories[k]
  BY <1>3 DEF IInv, TypeInv
<1>5. TypeInv
  BY DEF IInv
<1>6. {m} \in SUBSET Memories
  OBVIOUS
<1> DEFINE D == {m}
<1>7. /\ D \in SUBSET Memories
      /\ phase # "idle" => touched' = touched \cup D
      /\ \A k \in Memories \ D : memories'[k] = memories[k]
  BY <1>3, <1>4, <1>6
<1> HIDE DEF D
<1> QED BY <1>3, <1>5, <1>7, Undisturbed

\* a step of the search leaves what it reads, and what it makes of it, as they are
LEMMA SameStore ==
  ASSUME UNCHANGED storeVars, UNCHANGED query
  PROVE  /\ Matching' = Matching /\ Candidates' = Candidates
         /\ \A m \in Memories : Present(m)' = Present(m)
         /\ \A h : Keywords(h)' = Keywords(h)
<1>1. memories' = memories
  BY DEF storeVars
<1>2. Matching' = Matching /\ Candidates' = Candidates
  BY <1>1 DEF Candidates, Matching, Neighbours, Shown
<1> QED BY <1>1, <1>2 DEF Present, Result, Keywords

\* the text query finds the untouched memory, or its limit crowds it out
LEMMA TextCompletes ==
  ASSUME IInv, TextQuery
  PROVE  CompleteInv'
<1>1. /\ phase = "text" /\ phase' = IF query.vector THEN "vector" ELSE "answer"
      /\ crowded' = Crowded(Matching, CandidateLimit, BetterMatch)
      /\ UNCHANGED storeVars /\ UNCHANGED query
  BY DEF TextQuery
<1>2. PICK T \in Top(Matching, CandidateLimit, BetterMatch) :
             found' = {Result(m, memories[m].rank, None) : m \in T}
  BY DEF TextQuery
<1>3. T \subseteq Matching /\ Matching \subseteq Memories
  BY <1>2 DEF Top, Matching, Shown
<1>4. CandidateLimit \in Nat /\ IsFiniteSet(Matching)
  BY <1>1, LimitsAreNumbers, FiniteLists DEF IInv
<1>5. \A m \in Matching \ T : m \in crowded'
  BY <1>1, <1>2, <1>4, TextCut
<1>6. memories' = memories /\ touched' = touched
  BY <1>1 DEF storeVars
<1>7. \A m \in T : /\ Result(m, memories[m].rank, None) \in found'
                   /\ Result(m, memories[m].rank, None).memory = m
  BY <1>2 DEF Result
<1>8. TextInv'
  <2>1. ASSUME NEW h \in found'
        PROVE  h = Result(h.memory, memories[h.memory].rank, None)'
    <3>1. PICK m \in T : h = Result(m, memories[m].rank, None)
      BY <1>2
    <3>2. h.memory = m
      BY <1>7, <3>1
    <3> QED BY <1>6, <3>1, <3>2 DEF Result
  <2>2. ASSUME NEW m \in Matching', Sure(m)'
        PROVE  \E h \in found' : h.memory = m
    <3>1. m \in Matching /\ m \notin crowded'
      BY <1>1, <2>2, SameStore DEF Sure
    <3>2. m \in T
      BY <1>5, <3>1
    <3> QED BY <1>7, <3>2
  <2> QED BY <2>1, <2>2 DEF TextInv
<1>9. ListInv'
  <2>1. SUFFICES ASSUME phase' = "answer", NEW m \in Candidates', Sure(m)'
                 PROVE  Present(m)' \in found'
    BY DEF ListInv
  <2>2. ~query.vector
    BY <1>1, <2>1
  <2>3. m \in Matching /\ m \notin crowded'
    BY <1>1, <2>1, <2>2, SameStore DEF Sure, Candidates
  <2>4. m \in T /\ m \in Memories /\ memories[m] # None
    BY <1>3, <1>5, <2>3 DEF Matching, Shown
  <2>5. Present(m)' = Present(m) /\ Present(m) = Result(m, memories[m].rank, None)
    BY <1>1, <2>2, <2>4, SameStore, Halves DEF IInv
  <2> QED BY <1>7, <2>4, <2>5
<1>10. NothingBetterIsMissing'
  BY <1>1 DEF NothingBetterIsMissing
<1> QED BY <1>8, <1>9, <1>10 DEF CompleteInv

\* whom the cuts of the vector query do not leave out has all its halves
LEMMA NeighboursComplete ==
  ASSUME IInv, CompleteInv, phase = "vector", NEW T \in SUBSET Neighbours, NEW out,
         AddNeighbours(T, out), \A m \in Neighbours \ T : m \in out
  PROVE  CompleteInv'
<1> DEFINE right == {Result(m, None, memories[m].near) : m \in T}
<1>1. /\ phase' = "answer" /\ found' = Merge(found, right)
      /\ UNCHANGED storeVars /\ UNCHANGED query
      /\ crowded' = crowded \cup (out \cap Memories)
  BY DEF AddNeighbours
<1>2. TextInv' /\ NothingBetterIsMissing'
  BY <1>1 DEF TextInv, NothingBetterIsMissing
<1>3. query.vector
  BY DEF IInv
<1>4. Neighbours \subseteq Memories
  BY DEF Neighbours, Shown
<1>5. /\ \A h \in found : h.memory \notin touched =>
           h = Result(h.memory, memories[h.memory].rank, None)
      /\ \A m \in Matching : Sure(m) => \E h \in found : h.memory = m
  BY DEF CompleteInv, TextInv
<1>6. \A r \in right : r.memory \in T /\ r = Result(r.memory, None, memories[r.memory].near)
  BY DEF Result
<1>7. \A m \in T : \E r \in right : r.memory = m
  <2> TAKE m \in T
  <2> WITNESS Result(m, None, memories[m].near) \in right
  <2> QED BY DEF Result
<1> HIDE DEF right
<1>8. ListInv'
  <2>1. SUFFICES ASSUME NEW m \in Candidates', Sure(m)'
                 PROVE  Present(m)' \in found'
    BY DEF ListInv
  <2>2. m \in Candidates /\ Sure(m) /\ m \notin touched /\ m \notin crowded'
    BY <1>1, <2>1, SameStore DEF Sure, storeVars
  <2>3. m \in Memories /\ memories[m] # None /\ m \in Shown
    BY <2>2 DEF Candidates, Matching, Neighbours, Shown
  <2>4. m \in Neighbours => m \in T
    BY <1>1, <1>4, <2>2
  <2> DEFINE rank == memories[m].rank
             near == memories[m].near
             l    == Result(m, rank, None)
             r    == Result(m, None, near)
  <2>5. /\ Present(m)' = Result(m, rank, near) /\ Combine(l, r) = Result(m, rank, near)
        /\ l.memory = m /\ r.memory = m
    BY <1>1, <1>3, <2>3, SameStore, Halves DEF IInv
  <2>6. \A h \in found : h.memory = m => h = l
    BY <1>5, <2>2
  <2>7. \A h \in right : h.memory = m => h = r
    BY <1>6
  <2>8. m \in T => r \in right
    BY <1>7, <2>7
  <2>9. m \in Matching => l \in found
    BY <1>5, <2>2, <2>6
  <2>10. m \notin T => near = None
    BY <2>3, <2>4 DEF Neighbours
  <2>11. m \notin Matching => rank = None
    BY <2>3 DEF Matching
  <2> HIDE DEF rank, near, l, r
  <2>12. CASE l \in found /\ m \in T
    <3>1. <<l, r>> \in {q \in found \X right : q[1].memory = q[2].memory}
      BY <2>5, <2>8, <2>12
    <3>2. Combine(l, r) \in found'
      BY <1>1, <3>1 DEF Merge
    <3> QED BY <2>5, <3>2
  <2>13. CASE l \in found /\ m \notin T
    <3>1. \A h \in right : h.memory # m
      BY <1>6, <2>13
    <3>2. l \in found'
      BY <1>1, <2>5, <2>13, <3>1 DEF Merge
    <3>3. l = Result(m, rank, near)
      BY <2>10, <2>13 DEF l
    <3> QED BY <2>5, <3>2, <3>3
  <2>14. CASE l \notin found
    <3>1. m \notin Matching /\ m \in T
      BY <2>2, <2>4, <2>9, <2>14 DEF Candidates
    <3>2. \A h \in found : h.memory # m
      BY <2>6, <2>14
    <3>3. r \in found'
      BY <1>1, <2>5, <2>8, <3>1, <3>2 DEF Merge
    <3>4. r = Result(m, rank, near)
      BY <2>11, <3>1 DEF r
    <3> QED BY <2>5, <3>3, <3>4
  <2> QED BY <2>12, <2>13, <2>14
<1> QED BY <1>2, <1>8 DEF CompleteInv

\* so do the scan of the embeddings
LEMMA ScanCompletes ==
  ASSUME IInv, CompleteInv, ScanEmbeddings
  PROVE  CompleteInv'
<1> DEFINE older(S) == Crowded(Neighbours, ScanLimit, Newer)
                         \cup Crowded(S, CandidateLimit, MoreSimilar)
<1>1. PICK S \in Top(Neighbours, ScanLimit, Newer) :
             \E T \in Top(S, CandidateLimit, MoreSimilar) : AddNeighbours(T, older(S))
  BY DEF ScanEmbeddings
<1>2. PICK T \in Top(S, CandidateLimit, MoreSimilar) : AddNeighbours(T, older(S))
  BY <1>1
<1>3. phase = "vector" /\ TypeInv
  BY DEF ScanEmbeddings, IInv
<1>4. ScanLimit \in Nat /\ CandidateLimit \in Nat /\ IsFiniteSet(Neighbours)
  BY <1>3, LimitsAreNumbers, ScanLimitIsNumber, FiniteLists
<1>5. S \subseteq Neighbours /\ T \subseteq S
  BY DEF Top
<1>6. IsFiniteSet(S)
  BY <1>4, <1>5, FS_Subset
<1>7. \A m \in Neighbours \ S : m \in Crowded(Neighbours, ScanLimit, Newer)
  BY <1>4, NewestCut
<1>8. \A m \in S \ T : m \in Crowded(S, CandidateLimit, MoreSimilar)
  BY <1>4, <1>6, SimilarCut
<1>9. T \in SUBSET Neighbours /\ \A m \in Neighbours \ T : m \in older(S)
  BY <1>5, <1>7, <1>8
<1> HIDE DEF older
<1> QED BY <1>2, <1>3, <1>9, NeighboursComplete

\* and the nearest rows of sqlite-vec
LEMMA RowsComplete ==
  ASSUME IInv, CompleteInv, NearestRows
  PROVE  CompleteInv'
<1> DEFINE farther(S) == Crowded(VecRows, ScanLimit, Closer)
                           \cup Crowded(S \cap Neighbours, CandidateLimit, Closer)
<1>1. PICK S \in Top(VecRows, ScanLimit, Closer) :
             \E T \in Top(S \cap Neighbours, CandidateLimit, Closer) : AddNeighbours(T, farther(S))
  BY DEF NearestRows
<1>2. PICK T \in Top(S \cap Neighbours, CandidateLimit, Closer) : AddNeighbours(T, farther(S))
  BY <1>1
<1>3. phase = "vector" /\ TypeInv
  BY DEF NearestRows, IInv
<1>4. ScanLimit \in Nat /\ CandidateLimit \in Nat /\ IsFiniteSet(VecRows)
  BY <1>3, LimitsAreNumbers, ScanLimitIsNumber, FiniteLists
<1>5. S \subseteq VecRows /\ T \subseteq S \cap Neighbours
  BY DEF Top
<1>6. IsFiniteSet(S \cap Neighbours)
  BY <1>5, FiniteLists
<1>7. Neighbours \subseteq VecRows
  BY DEF Neighbours, VecRows, Shown
<1>8. \A m \in VecRows \ S : m \in Crowded(VecRows, ScanLimit, Closer)
  BY <1>4, CloserCut
<1>9. \A m \in (S \cap Neighbours) \ T : m \in Crowded(S \cap Neighbours, CandidateLimit, Closer)
  <2> DEFINE U == S \cap Neighbours
  <2>1. IsFiniteSet(U) /\ T \in Top(U, CandidateLimit, Closer)
    BY <1>6
  <2> HIDE DEF U
  <2>2. \A m \in U \ T : m \in Crowded(U, CandidateLimit, Closer)
    BY <1>4, <2>1, CloserCut
  <2> QED BY <2>2 DEF U
<1>10. T \in SUBSET Neighbours /\ \A m \in Neighbours \ T : m \in farther(S)
  BY <1>5, <1>7, <1>8, <1>9
<1> HIDE DEF farther
<1> QED BY <1>2, <1>3, <1>10, NeighboursComplete

\* the keywords change neither the memory nor what a result is worth
LEMMA KeywordsKeep ==
  ASSUME NEW h \in Hit
  PROVE  /\ Keywords(h).memory = h.memory
         /\ \A g : Outdoes(g, Keywords(h)) <=> Outdoes(g, h)
<1>1. /\ Keywords(h).memory = h.memory /\ Keywords(h).rank = h.rank
      /\ Keywords(h).near = h.near /\ Keywords(h).merit = h.merit /\ Keywords(h).used = h.used
  BY DEF Keywords, Hit
<1> QED BY <1>1 DEF Outdoes, Beside

\* the page has the untouched memory, or is full of results it does not outdo
LEMMA AnswerCompletes ==
  ASSUME IInv, CompleteInv, Answer
  PROVE  CompleteInv'
<1>1. /\ phase = "answer" /\ phase' = "done" /\ crowded' = crowded
      /\ UNCHANGED storeVars /\ UNCHANGED query
  BY DEF Answer
<1>2. PICK T \in Top(found, Limit, Better) : found' = {Keywords(h) : h \in T}
  BY DEF Answer
<1>3. /\ T \subseteq found /\ Cardinality(T) = Smaller(Limit, Cardinality(found))
      /\ \A g \in T, h \in found \ T : ~Better(h, g)
  BY DEF Top
<1>4. found \subseteq Hit /\ \A g, h \in found : g.memory = h.memory => g = h
  BY DEF IInv, TypeInv, HitsWereFit
<1>5. IsFiniteSet(found) /\ Limit \in Nat
  BY ResultsAreFinite, SearchAssumption
<1>6. \A h \in T : /\ Keywords(h) \in found' /\ Keywords(h).memory = h.memory
                   /\ \A g : Outdoes(g, Keywords(h)) <=> Outdoes(g, h)
  BY <1>2, <1>3, <1>4, KeywordsKeep
<1>7. \A k \in found' : \E h \in T : k = Keywords(h)
  BY <1>2
<1>8. Cardinality(found') = Cardinality(T)
  <2>1. IsFiniteSet(T)
    BY <1>3, <1>5, FS_Subset
  <2> DEFINE f == [h \in T |-> Keywords(h)]
  <2>2. f \in [T -> found'] /\ \A k \in found' : \E h \in T : f[h] = k
    BY <1>6, <1>7
  <2>3. \A g, h \in T : f[g] = f[h] => g = h
    BY <1>3, <1>4, <1>6
  <2> HIDE DEF f
  <2>4. f \in Bijection(T, found')
    BY <2>2, <2>3 DEF Bijection, Injection, Surjection, IsInjective
  <2>5. ExistsBijection(T, found')
    BY <2>4 DEF ExistsBijection
  <2> QED BY <2>1, <2>5, FS_Bijection
<1>9. NothingBetterIsMissing'
  <2>1. SUFFICES ASSUME NEW m \in Candidates', m \notin touched', m \notin crowded'
                 PROVE  \/ Keywords(Present(m))' \in found'
                        \/ /\ Cardinality(found') = Limit
                           /\ \A h \in found' : ~Outdoes(Present(m), h)'
    BY DEF NothingBetterIsMissing
  <2>2. m \in Candidates /\ Sure(m) /\ m \in Memories
    BY <1>1, <2>1, SameStore DEF Sure, storeVars, Candidates, Matching, Neighbours, Shown
  <2>3. Present(m) \in found
    BY <1>1, <2>2 DEF CompleteInv, ListInv
  <2>4. /\ Present(m)' = Present(m) /\ Keywords(Present(m))' = Keywords(Present(m))
        /\ \A h : Outdoes(Present(m), h)' <=> Outdoes(Present(m), h)
    <3>1. Present(m)' = Present(m) /\ \A h : Keywords(h)' = Keywords(h)
      BY <1>1, <2>2, SameStore
    <3> QED BY <1>1, <3>1 DEF Keywords, Outdoes, Beside, storeVars
  <2>5. CASE Present(m) \in T
    BY <1>6, <2>4, <2>5
  <2>6. CASE Present(m) \notin T
    <3>1. Cardinality(T) = Limit
      BY <1>3, <1>5, <2>3, <2>6, LeftOut
    <3>2. ASSUME NEW g \in T
          PROVE  ~Outdoes(Present(m), g)
      <4>1. ~(Total(Present(m)) > Total(g))
        BY <1>3, <2>3, <2>6 DEF Better
      <4> QED BY <1>3, <1>4, <2>3, <4>1, OutdoingScores
    <3>3. \A k \in found' : ~Outdoes(Present(m), k)'
      BY <1>6, <1>7, <2>4, <3>2
    <3> QED BY <1>8, <3>1, <3>3
  <2> QED BY <2>5, <2>6
<1>10. TextInv' /\ ListInv'
  BY <1>1 DEF TextInv, ListInv
<1> QED BY <1>9, <1>10 DEF CompleteInv

\* every step keeps the completeness of what has been found so far
LEMMA CompleteStep == IInv /\ CompleteInv /\ [Next]_vars => CompleteInv'
<1> SUFFICES ASSUME IInv, CompleteInv, [Next]_vars PROVE CompleteInv'
  OBVIOUS
<1>1. CASE StoreStep
  BY <1>1, StoreUndisturbs
<1>2. CASE TextQuery
  BY <1>2, TextCompletes
<1>3. CASE ScanEmbeddings
  BY <1>3, ScanCompletes
<1>4. CASE NearestRows
  BY <1>4, RowsComplete
<1>5. CASE Answer
  BY <1>5, AnswerCompletes
<1>6. CASE (\E depth \in Depths, vector \in BOOLEAN : Begin(depth, vector)) \/ Return
  BY <1>6 DEF Begin, Return, CompleteInv, TextInv, ListInv, NothingBetterIsMissing
<1>7. CASE UNCHANGED vars
  <2> DEFINE D == {}
  <2>1. /\ D \in SUBSET Memories /\ touched' = touched \cup D
        /\ \A k \in Memories \ D : memories'[k] = memories[k]
        /\ UNCHANGED <<phase, query, found, crowded>> /\ TypeInv
    BY <1>7 DEF vars, IInv
  <2> HIDE DEF D
  <2> QED BY <2>1, Undisturbed
<1> QED BY <1>1, <1>2, <1>3, <1>4, <1>5, <1>6, <1>7 DEF Next, SearchStep

(* A candidate that nobody wrote to during the search and that no limit    *)
(* crowded out is on the page as it is stored, or the page is full and the *)
(* candidate outdoes no hit of it, for every store, every limit and every  *)
(* order of the commits between the queries (the cuts in                   *)
(* searchVectorCandidates and Search, combineSearchResults).  Outdoes      *)
(* leaves open which of two unequal matches is to be preferred.            *)
THEOREM NothingBetterIsMissingHolds == Spec => []NothingBetterIsMissing
<1>1. Init => CompleteInv
  BY DEF Init, CompleteInv, TextInv, ListInv, NothingBetterIsMissing
<1>2. CompleteInv => NothingBetterIsMissing
  BY DEF CompleteInv
<1> QED BY <1>1, <1>2, Always, CompleteStep, PTL DEF Spec
=============================================================================
