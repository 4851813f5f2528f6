-------------------------- MODULE RequestGateProofs --------------------------
(***************************************************************************)
(* The tokens implement the ledger, a spent secret stays spent, and what   *)
(* reaches a memory is covered by the presented secret: for every set of   *)
(* ids, scopes, operators and requests.  The gate's steps are steps of the *)
(* limiter and of the token store, so that what is proved of each holds of *)
(* the server.                                                             *)
(***************************************************************************)
EXTENDS RequestGate, RateLimiterProofs

(* A pending row has its own secret, that no row and no other command has. *)
PendingInv ==
  \A o \in Operators : operator[o] # None =>
    /\ operator[o].secret \in 1..drawn
    /\ issued[operator[o].secret] = operator[o]
    /\ \A p \in Operators :
         operator[p] # None /\ operator[p].secret = operator[o].secret => p = o
    /\ \A i \in Ids : rows[i] # None => rows[i].secret # operator[o].secret

\* a row holds what its secret was generated for
RowsInv ==
  \A i \in Ids : rows[i] # None =>
    /\ rows[i].secret \in 1..drawn
    /\ issued[rows[i].secret] = [id |-> i, secret |-> rows[i].secret,
                                 scopes |-> rows[i].scopes, expires |-> rows[i].expires]

GrantInv(a) ==
  \/ /\ a.id \in Ids /\ rows[a.id] # None /\ ~a.spent /\ a.secret \in 1..drawn
     /\ a.scopes = issued[a.secret].scopes /\ Unexpired(issued[a.secret].expires, a.at)
  \/ a.id = Boot /\ a.secret = BootSecret /\ ~a.spent /\ a.scopes = BootGrant /\ a.touched

AuthInv ==
  \A r \in Requests : auth[r] # None =>
    /\ auth[r].at <= clock
    /\ auth[r].spent => Spent(auth[r].secret)
    /\ auth[r].verdict = "undecided" => auth[r].id = None /\ auth[r].scopes = {}
    /\ auth[r].verdict = "granted" => GrantInv(auth[r])

TokenInv == TokenTypeOK /\ PendingInv /\ RowsInv /\ AuthInv

\* no secret is drawn but that of the configuration
LEMMA TokenInitial == TokenInit => TokenInv
<1> SUFFICES ASSUME TokenInit PROVE TokenInv
  OBVIOUS
<1>1. issued \in [1..drawn -> Pending]
  BY DEF TokenInit
<1>2. TokenTypeOK
  BY <1>1, TokenAssumption DEF TokenInit, TokenTypeOK
<1> QED BY <1>2 DEF TokenInit, TokenInv, PendingInv, RowsInv, AuthInv

(* A spent secret stays spent: no later row has it.                        *)
LEMMA SpentStays ==
  ASSUME TokenInv, [TokenNext]_tokenVars, NEW s, Spent(s)
  PROVE  Spent(s)'
<1>1. s \in 1..drawn /\ s \in Nat /\ drawn \in Nat
  BY DEF Spent, TokenInv, TokenTypeOK
<1>2. ASSUME NEW o \in Operators, NEW id, NEW scopes, NEW lifetime,
             Generate(o, id, scopes, lifetime)
      PROVE  Spent(s)'
  <2>1. /\ operator' = [operator EXCEPT ![o] = operator'[o]]
        /\ operator'[o].secret = drawn + 1 /\ drawn' = drawn + 1 /\ rows' = rows
    BY <1>2 DEF Generate, TokenInv, TokenTypeOK
  <2>2. \A p \in Operators : operator'[p] # None => operator'[p].secret # s
    BY <1>1, <2>1 DEF Spent, Stored, TokenInv, TokenTypeOK
  <2> QED BY <1>1, <2>1, <2>2 DEF Spent, Stored
<1>3. ASSUME NEW o \in Operators, Upsert(o) PROVE Spent(s)'
  <2>1. operator[o].secret # s /\ operator[o].id \in Ids
    BY <1>3 DEF Upsert, Spent, Stored, TokenInv, TokenTypeOK, Pending
  <2>2. \A p \in Operators : operator'[p] # None => operator'[p].secret # s
    BY <1>3 DEF Upsert, Spent, Stored, TokenInv, TokenTypeOK
  <2>3. \A i \in Ids : rows'[i] # None /\ ~rows'[i].revoked => rows'[i].secret # s
    BY <1>3, <2>1 DEF Upsert, Spent, TokenInv, TokenTypeOK
  <2> QED BY <1>1, <1>3, <2>2, <2>3 DEF Spent, Stored, Upsert
<1>4. ASSUME NEW id \in Ids, Revoke(id) PROVE Spent(s)'
  <2>1. \A i \in Ids : rows'[i] # None /\ ~rows'[i].revoked => rows'[i].secret # s
    BY <1>4 DEF Revoke, Spent, TokenInv, TokenTypeOK, Row
  <2> QED BY <1>1, <1>4, <2>1 DEF Spent, Stored, Revoke
<1>5. ASSUME NEW r \in Requests, NEW fails \in BOOLEAN, Touch(r, fails) PROVE Spent(s)'
  <2>1. \A i \in Ids : rows'[i] # None /\ ~rows'[i].revoked => rows'[i].secret # s
    BY <1>5, TokenAssumption DEF Touch, Granted, Spent, TokenInv, TokenTypeOK, AuthInv, GrantInv, Row
  <2> QED BY <1>1, <1>5, <2>1 DEF Spent, Stored, Touch
<1>6. ASSUME UNCHANGED <<rows, drawn, operator>> PROVE Spent(s)'
  BY <1>6 DEF Spent, Stored
<1> QED
  BY <1>2, <1>3, <1>4, <1>5, <1>6
     DEF TokenNext, OperatorStep, Rotate, Create, StartupToken, RequestStep,
         Lookup, LookupFails, Leave, Begin, TokenTick, tokenVars

(* What the requests' steps leave of the invariant to be shown: their own  *)
(* attempt.                                                                *)
LEMMA AttemptStep ==
  ASSUME TokenInv, NEW r \in Requests, NEW attempt \in Auth, Decide(r, attempt),
         UNCHANGED <<clock, bootstrap, rows, drawn, issued, operator>>,
         attempt.at <= clock,
         attempt.spent => Spent(attempt.secret),
         attempt.verdict = "undecided" => attempt.id = None /\ attempt.scopes = {},
         attempt.verdict = "granted" => GrantInv(attempt)
  PROVE  TokenInv'
<1>1. /\ auth'[r] = attempt /\ auth' \in [Requests -> Auth \cup {None}]
      /\ \A q \in Requests \ {r} : auth'[q] = auth[q]
  BY DEF Decide, TokenInv, TokenTypeOK
<1>2. TokenTypeOK' /\ PendingInv' /\ RowsInv'
  BY <1>1 DEF TokenInv, TokenTypeOK, PendingInv, RowsInv
<1>3. AuthInv'
  <2> SUFFICES ASSUME NEW q \in Requests, auth'[q] # None
               PROVE  /\ auth'[q].at <= clock
                      /\ auth'[q].spent => Spent(auth'[q].secret)
                      /\ auth'[q].verdict = "undecided" => auth'[q].id = None /\ auth'[q].scopes = {}
                      /\ auth'[q].verdict = "granted" => GrantInv(auth'[q])
    BY DEF AuthInv, GrantInv, Spent, Stored
  <2> QED BY <1>1 DEF TokenInv, AuthInv
<1> QED BY <1>2, <1>3 DEF TokenInv

(* The decided attempts keep what they presented.                          *)
LEMMA RefusedFacts ==
  ASSUME NEW a \in Auth, NEW verdict \in Verdicts
  PROVE  /\ Refused(a, verdict) \in Auth
         /\ Refused(a, verdict).secret = a.secret /\ Refused(a, verdict).at = a.at
         /\ Refused(a, verdict).spent = a.spent /\ Refused(a, verdict).verdict = verdict
         /\ Refused(a, verdict).id = a.id /\ Refused(a, verdict).scopes = a.scopes
  BY DEF Refused, Auth, Verdicts

\* an accepted request keeps its secret and its time, and gets an id and scopes
LEMMA AcceptedFacts ==
  ASSUME NEW a \in Auth, NEW id \in Ids \cup {Boot}, NEW scopes \in SUBSET Scopes
  PROVE  /\ Accepted(a, id, scopes) \in Auth
         /\ Accepted(a, id, scopes).secret = a.secret /\ Accepted(a, id, scopes).at = a.at
         /\ Accepted(a, id, scopes).spent = a.spent
         /\ Accepted(a, id, scopes).verdict = "granted"
         /\ Accepted(a, id, scopes).id = id /\ Accepted(a, id, scopes).scopes = scopes
         /\ Accepted(a, id, scopes).touched = a.touched
  BY DEF Accepted, Auth, Verdicts

(* What a step that leaves the attempts alone has to show of them.         *)
LEMMA AuthKept ==
  ASSUME TokenInv, [TokenNext]_tokenVars, auth' = auth, clock \in Nat, clock' \in Nat,
         clock <= clock', drawn \in Nat, drawn' \in Nat, drawn <= drawn',
         \A s \in 1..drawn : issued'[s] = issued[s],
         \A i \in Ids : rows[i] # None => rows'[i] # None
  PROVE  AuthInv'
<1> SUFFICES ASSUME NEW r \in Requests, auth[r] # None
             PROVE  /\ auth[r].at <= clock'
                    /\ auth[r].spent => Spent(auth[r].secret)'
                    /\ auth[r].verdict = "undecided" => auth[r].id = None /\ auth[r].scopes = {}
                    /\ auth[r].verdict = "granted" => GrantInv(auth[r])'
  BY DEF AuthInv, GrantInv
<1>1. auth[r].at \in Nat /\ auth[r].at <= clock /\ (auth[r].spent => Spent(auth[r].secret))
  BY DEF TokenInv, TokenTypeOK, AuthInv, Auth
<1>2. auth[r].spent => Spent(auth[r].secret)'
  BY <1>1, SpentStays
<1>3. auth[r].verdict = "granted" => GrantInv(auth[r])'
  BY DEF TokenInv, AuthInv, GrantInv, Unexpired
<1> QED BY <1>1, <1>2, <1>3 DEF TokenInv, AuthInv

\* every step of an operator or a request keeps each secret in its one place
LEMMA TokenStep == TokenInv /\ [TokenNext]_tokenVars => TokenInv'
<1> SUFFICES ASSUME TokenInv, [TokenNext]_tokenVars PROVE TokenInv'
  OBVIOUS
<1>0. /\ clock \in Nat /\ clock \in 0..MaxClock /\ drawn \in Nat /\ MaxClock \in Nat /\ MaxSecrets \in Nat
      /\ rows \in [Ids -> Row \cup {None}] /\ auth \in [Requests -> Auth \cup {None}]
  BY TokenAssumption DEF TokenInv, TokenTypeOK
<1>1. ASSUME NEW o \in Operators, NEW id \in Ids, NEW scopes \in SUBSET Scopes,
             NEW lifetime \in Nat, Generate(o, id, scopes, lifetime)
      PROVE  TokenInv'
  <2> DEFINE pending == [id |-> id, secret |-> drawn + 1, scopes |-> scopes,
                         expires |-> IF lifetime = 0 THEN None ELSE clock + lifetime]
  <2>1. /\ pending \in Pending /\ pending.secret = drawn + 1 /\ pending # None
        /\ drawn' = drawn + 1 /\ drawn' \in 0..MaxSecrets
        /\ issued' = [s \in 1..(drawn + 1) |-> IF s = drawn + 1 THEN pending ELSE issued[s]]
        /\ operator' = [operator EXCEPT ![o] = pending]
        /\ UNCHANGED <<clock, bootstrap, rows, auth>>
    BY <1>0, <1>1, TokenAssumption DEF Generate, Pending
  <2> HIDE DEF pending
  <2>2. issued' \in [1..drawn' -> Pending] /\ issued'[drawn + 1] = pending
        /\ \A s \in 1..drawn : issued'[s] = issued[s]
    BY <1>0, <2>1 DEF TokenInv, TokenTypeOK
  <2>3. /\ operator' \in [Operators -> Pending \cup {None}] /\ operator'[o] = pending
        /\ \A p \in Operators \ {o} : operator'[p] = operator[p]
    BY <2>1 DEF TokenInv, TokenTypeOK
  <2>4. TokenTypeOK'
    BY <2>1, <2>2, <2>3 DEF TokenInv, TokenTypeOK
  <2>5. PendingInv'
    <3> SUFFICES ASSUME NEW p \in Operators, operator'[p] # None
                 PROVE  /\ operator'[p].secret \in 1..drawn'
                        /\ issued'[operator'[p].secret] = operator'[p]
                        /\ \A q \in Operators :
                             operator'[q] # None /\ operator'[q].secret = operator'[p].secret => q = p
                        /\ \A i \in Ids : rows'[i] # None => rows'[i].secret # operator'[p].secret
      BY DEF PendingInv
    <3>1. \A q \in Operators \ {o} : operator'[q] # None => operator'[q].secret \in 1..drawn
      BY <2>3 DEF TokenInv, PendingInv
    <3>2. \A i \in Ids : rows[i] # None => rows[i].secret \in 1..drawn
      BY DEF TokenInv, RowsInv
    <3>3. CASE p = o
      BY <1>0, <2>1, <2>2, <2>3, <3>1, <3>2, <3>3
    <3>4. CASE p # o
      <4>1. /\ operator'[p] = operator[p] /\ operator[p].secret \in 1..drawn
            /\ issued[operator[p].secret] = operator[p]
        BY <2>3, <3>4 DEF TokenInv, PendingInv
      <4>2. \A q \in Operators :
              operator'[q] # None /\ operator'[q].secret = operator[p].secret => q = p
        BY <1>0, <2>1, <2>3, <3>4, <4>1 DEF TokenInv, PendingInv
      <4>3. \A i \in Ids : rows[i] # None => rows[i].secret # operator[p].secret
        BY <2>3, <3>4 DEF TokenInv, PendingInv
      <4> QED BY <1>0, <2>1, <2>2, <4>1, <4>2, <4>3
    <3> QED BY <3>3, <3>4
  <2>6. RowsInv'
    BY <1>0, <2>1, <2>2 DEF TokenInv, RowsInv
  <2>7. AuthInv'
    BY <1>0, <2>1, <2>2, AuthKept
  <2> QED BY <2>4, <2>5, <2>6, <2>7 DEF TokenInv
<1>2. ASSUME NEW o \in Operators, Upsert(o) PROVE TokenInv'
  <2> DEFINE i == operator[o].id
             row == [secret |-> operator[o].secret, scopes |-> operator[o].scopes,
                     expires |-> operator[o].expires, revoked |-> FALSE, used |-> None]
  <2>0. operator[o] \in Pending /\ operator[o] # None
    BY <1>2 DEF Upsert, TokenInv, TokenTypeOK
  <2>a. row \in Row
    BY <2>0 DEF Pending, Row
  <2>b. row # None /\ i \in Ids
    BY <2>0, <2>a, TokenAssumption DEF Pending
  <2>c. /\ rows' = [rows EXCEPT ![i] = row]
        /\ operator' = [operator EXCEPT ![o] = None]
        /\ UNCHANGED <<clock, bootstrap, drawn, issued, auth>>
    BY <1>2 DEF Upsert
  <2>1. /\ operator[o] \in Pending /\ operator[o] # None /\ i \in Ids /\ row \in Row /\ row # None
        /\ rows' = [rows EXCEPT ![i] = row]
        /\ operator' = [operator EXCEPT ![o] = None]
        /\ UNCHANGED <<clock, bootstrap, drawn, issued, auth>>
    BY <2>0, <2>a, <2>b, <2>c
  <2>2. /\ rows' \in [Ids -> Row \cup {None}] /\ rows'[i] = row
        /\ \A j \in Ids \ {i} : rows'[j] = rows[j]
    BY <1>0, <2>1
  <2>3. TokenTypeOK'
    BY <2>1, <2>2 DEF TokenInv, TokenTypeOK
  <2>4. PendingInv'
    BY <2>1, <2>2 DEF TokenInv, PendingInv, TokenTypeOK
  <2>5. RowsInv'
    <3>1. issued[row.secret] = [id |-> i, secret |-> row.secret,
                                scopes |-> row.scopes, expires |-> row.expires]
          /\ row.secret \in 1..drawn
      BY <2>1 DEF TokenInv, PendingInv, Pending
    <3> HIDE DEF row, i
    <3> QED BY <2>1, <2>2, <3>1 DEF TokenInv, RowsInv
  <2>6. AuthInv'
    BY <1>0, <2>1, <2>2, AuthKept
  <2> QED BY <2>3, <2>4, <2>5, <2>6 DEF TokenInv
<1>3. ASSUME rows' \in [Ids -> Row \cup {None}],
             \A i \in Ids : rows[i] = None => rows'[i] = None,
             \A i \in Ids : rows[i] # None =>
               /\ rows'[i] # None /\ rows'[i].secret = rows[i].secret
               /\ rows'[i].scopes = rows[i].scopes /\ rows'[i].expires = rows[i].expires,
             UNCHANGED <<clock, bootstrap, drawn, issued, operator>>
      PROVE  PendingInv' /\ RowsInv'
  BY <1>3 DEF TokenInv, PendingInv, RowsInv
<1>4. ASSUME NEW id \in Ids, Revoke(id) PROVE TokenInv'
  <2>1. /\ rows' \in [Ids -> Row \cup {None}]
        /\ \A i \in Ids : rows[i] = None => rows'[i] = None
        /\ \A i \in Ids : rows[i] # None =>
               /\ rows'[i] # None /\ rows'[i].secret = rows[i].secret
               /\ rows'[i].scopes = rows[i].scopes /\ rows'[i].expires = rows[i].expires
    <3> DEFINE row == [rows[id] EXCEPT !.revoked = TRUE]
    <3>1. rows[id] \in Row /\ rows[id] # None /\ rows' = [rows EXCEPT ![id] = row]
      BY <1>0, <1>4 DEF Revoke
    <3>2. /\ row \in Row /\ row.secret = rows[id].secret /\ row.scopes = rows[id].scopes
          /\ row.expires = rows[id].expires
      BY <3>1 DEF Row
    <3> HIDE DEF row
    <3>3. row # None
      BY <3>2, TokenAssumption
    <3> QED BY <1>0, <3>1, <3>2, <3>3
  <2>2. TokenTypeOK'
    BY <1>4, <2>1 DEF Revoke, TokenInv, TokenTypeOK
  <2>3. PendingInv' /\ RowsInv'
    BY <1>3, <1>4, <2>1 DEF Revoke
  <2>4. AuthInv'
    BY <1>0, <1>4, <2>1, AuthKept DEF Revoke
  <2> QED BY <2>2, <2>3, <2>4 DEF TokenInv
<1>5. ASSUME NEW r \in Requests, NEW secret \in 0..drawn \cup {None}, Begin(r, secret)
      PROVE  TokenInv'
  <2> DEFINE attempt == [secret |-> secret, at |-> clock, spent |-> Spent(secret),
               verdict |-> "undecided", id |-> None, scopes |-> {}, touched |-> FALSE]
             early == [attempt EXCEPT !.touched = TRUE]
  <2>0. Spent(secret) \in BOOLEAN /\ secret \in Nat \cup {None}
    BY <1>0 DEF Spent
  <2>a. attempt \in Auth
    BY <1>0, <2>0 DEF Auth, Verdicts
  <2>b. \A a \in Auth :
          /\ [a EXCEPT !.touched = TRUE] \in Auth /\ [a EXCEPT !.touched = TRUE].at = a.at
          /\ [a EXCEPT !.touched = TRUE].secret = a.secret /\ [a EXCEPT !.touched = TRUE].touched
          /\ [a EXCEPT !.touched = TRUE].spent = a.spent
    BY DEF Auth
  <2>c. /\ early \in Auth /\ early.at = attempt.at /\ early.secret = attempt.secret
        /\ early.touched /\ early.spent = attempt.spent
    BY <2>a, <2>b
  <2>1. /\ attempt \in Auth /\ early \in Auth /\ BootGrant \in SUBSET Scopes
        /\ attempt.at = clock /\ early.at = clock /\ early.secret = secret /\ early.touched
        /\ attempt.secret = secret /\ attempt.spent = Spent(secret) /\ early.spent = Spent(secret)
        /\ attempt.verdict = "undecided" /\ attempt.id = None /\ attempt.scopes = {}
    BY <2>a, <2>c, TokenAssumption
  <2>2. secret = BootSecret => ~Spent(secret)
    BY <1>0 DEF Spent, BootSecret
  <2>3. /\ UNCHANGED <<clock, bootstrap, rows, drawn, issued, operator>>
        /\ \/ Decide(r, attempt)
           \/ Decide(r, Refused(attempt, "unauthorized"))
           \/ secret = BootSecret /\ Decide(r, Accepted(early, Boot, BootGrant))
    BY <1>5 DEF Begin
  <2> HIDE DEF attempt, early
  <2>4. CASE Decide(r, attempt)
    BY <1>0, <2>1, <2>3, <2>4, AttemptStep
  <2>5. CASE Decide(r, Refused(attempt, "unauthorized"))
    <3> DEFINE d == Refused(attempt, "unauthorized")
    <3>1. /\ d \in Auth /\ d.at = clock /\ d.spent = Spent(secret) /\ d.secret = secret
          /\ d.verdict = "unauthorized"
      BY <2>1, RefusedFacts DEF Verdicts
    <3> HIDE DEF d
    <3>2. Decide(r, d)
      BY <2>5 DEF d
    <3> QED BY <1>0, <2>3, <3>1, <3>2, AttemptStep
  <2>6. CASE secret = BootSecret /\ Decide(r, Accepted(early, Boot, BootGrant))
    <3> DEFINE d == Accepted(early, Boot, BootGrant)
    <3>1. /\ d \in Auth /\ d.at = clock /\ d.spent = Spent(secret) /\ d.secret = secret
          /\ d.verdict = "granted" /\ d.id = Boot /\ d.scopes = BootGrant /\ d.touched
      BY <2>1, AcceptedFacts
    <3> HIDE DEF d
    <3>2. Decide(r, d) /\ GrantInv(d)
      BY <2>2, <2>6, <3>1 DEF d, GrantInv
    <3> QED BY <1>0, <2>3, <3>1, <3>2, AttemptStep
  <2> QED BY <2>3, <2>4, <2>5, <2>6
<1>6. ASSUME NEW r \in Requests, Lookup(r) \/ LookupFails(r) PROVE TokenInv'
  <2>1. /\ auth[r] \in Auth /\ auth[r].at <= clock /\ (auth[r].spent => Spent(auth[r].secret))
        /\ UNCHANGED <<clock, bootstrap, rows, drawn, issued, operator>>
    BY <1>0, <1>6 DEF Lookup, LookupFails, Undecided, TokenInv, AuthInv
  <2>2. ASSUME NEW verdict \in {"unauthorized", "unconfigured"}, Decide(r, Refused(auth[r], verdict))
        PROVE  TokenInv'
    <3> DEFINE d == Refused(auth[r], verdict)
    <3>1. /\ d \in Auth /\ d.at = auth[r].at /\ d.spent = auth[r].spent
          /\ d.secret = auth[r].secret /\ d.verdict = verdict
      BY <2>1, RefusedFacts DEF Verdicts
    <3> HIDE DEF d
    <3>2. Decide(r, d)
      BY <2>2 DEF d
    <3> QED BY <2>1, <2>2, <3>1, <3>2, AttemptStep
  <2>3. ASSUME NEW i \in Match(r), Decide(r, Accepted(auth[r], i, rows[i].scopes))
        PROVE  TokenInv'
    <3> DEFINE d == Accepted(auth[r], i, rows[i].scopes)
    <3>1. /\ i \in Ids /\ rows[i] # None /\ rows[i] \in Row /\ ~rows[i].revoked
          /\ rows[i].secret = auth[r].secret /\ Unexpired(rows[i].expires, auth[r].at)
      BY <1>0, <2>3 DEF Match, Active
    <3>2. /\ d \in Auth /\ d.at = auth[r].at /\ d.spent = auth[r].spent /\ d.id = i
          /\ d.secret = auth[r].secret /\ d.verdict = "granted" /\ d.scopes = rows[i].scopes
      <4>1. i \in Ids \cup {Boot} /\ rows[i].scopes \in SUBSET Scopes
        BY <3>1 DEF Row
      <4> QED BY <2>1, <4>1, AcceptedFacts
    <3> HIDE DEF d
    <3>3. ~d.spent
      BY <2>1, <3>1, <3>2 DEF Spent
    <3>4. Decide(r, d)
      BY <2>3 DEF d
    <3>5. /\ issued[d.secret].scopes = d.scopes /\ issued[d.secret].expires = rows[i].expires
          /\ d.secret \in 1..drawn
      <4>1. /\ rows[i].secret \in 1..drawn
            /\ issued[rows[i].secret] = [id |-> i, secret |-> rows[i].secret,
                                   scopes |-> rows[i].scopes, expires |-> rows[i].expires]
        BY <3>1 DEF TokenInv, RowsInv
      <4>2. d.secret = rows[i].secret /\ d.scopes = rows[i].scopes
        BY <3>1, <3>2
      <4> QED BY <4>1, <4>2
    <3>6. GrantInv(d)
      <4>1. d.id \in Ids /\ rows[d.id] # None /\ ~d.spent /\ d.secret \in 1..drawn
        BY <3>1, <3>2, <3>3, <3>5
      <4>2. d.scopes = issued[d.secret].scopes /\ Unexpired(issued[d.secret].expires, d.at)
        BY <3>1, <3>2, <3>5
      <4> QED BY <4>1, <4>2 DEF GrantInv
    <3> QED BY <2>1, <3>2, <3>3, <3>4, <3>6, AttemptStep
  <2> QED BY <1>6, <2>2, <2>3 DEF Lookup, LookupFails
<1>7. ASSUME NEW r \in Requests, NEW fails \in BOOLEAN, Touch(r, fails) PROVE TokenInv'
  <2> DEFINE d == [auth[r] EXCEPT !.touched = TRUE]
             i == auth[r].id
  <2>1. /\ auth[r] \in Auth /\ auth[r].verdict = "granted" /\ auth' = [auth EXCEPT ![r] = d]
        /\ GrantInv(auth[r]) /\ ~auth[r].touched
        /\ UNCHANGED <<clock, bootstrap, drawn, issued, operator>>
    BY <1>0, <1>7 DEF Touch, Granted, TokenInv, AuthInv
  <2>2. i \in Ids /\ rows[i] \in Row /\ rows[i] # None /\ auth[r].at \in Nat
    BY <1>0, <2>1 DEF GrantInv, Auth
  <2>3. /\ rows' \in [Ids -> Row \cup {None}]
        /\ \A j \in Ids : rows[j] = None => rows'[j] = None
        /\ \A j \in Ids : rows[j] # None =>
               /\ rows'[j] # None /\ rows'[j].secret = rows[j].secret
               /\ rows'[j].scopes = rows[j].scopes /\ rows'[j].expires = rows[j].expires
    BY <1>0, <1>7, <2>2, TokenAssumption DEF Touch, Row
  <2>4. PendingInv' /\ RowsInv'
    BY <1>3, <2>1, <2>3
  <2>5. /\ d \in Auth /\ d.at = auth[r].at /\ d.spent = auth[r].spent /\ d.verdict = "granted"
        /\ d.secret = auth[r].secret /\ d.scopes = auth[r].scopes /\ d.id = auth[r].id
    BY <2>1 DEF Auth
  <2> HIDE DEF d
  <2>6. TokenTypeOK'
    BY <1>0, <2>1, <2>3, <2>5 DEF TokenInv, TokenTypeOK
  <2>7. AuthInv'
    <3>1. \A a : GrantInv(a) => GrantInv(a)'
      BY <2>1, <2>3 DEF GrantInv, Unexpired
    <3>2. \A a : Spent(a) => Spent(a)'
      <4> SUFFICES ASSUME NEW a, Spent(a) PROVE Spent(a)'
        OBVIOUS
      <4> QED BY SpentStays
    <3>3. GrantInv(d)
      BY <2>1, <2>2, <2>5 DEF GrantInv
    <3>4. \A q \in Requests : auth'[q] # None =>
            /\ auth'[q].at <= clock
            /\ auth'[q].spent => Spent(auth'[q].secret)
            /\ auth'[q].verdict = "undecided" => auth'[q].id = None /\ auth'[q].scopes = {}
            /\ auth'[q].verdict = "granted" => GrantInv(auth'[q])
      <4>1. auth'[r] = d /\ \A q \in Requests \ {r} : auth'[q] = auth[q]
        BY <1>0, <2>1
      <4>2. d.at <= clock /\ (d.spent => Spent(d.secret)) /\ d.verdict # "undecided"
        <5>1. auth[r] # None
          BY <1>7 DEF Touch, Granted
        <5> QED BY <2>5, <5>1 DEF TokenInv, AuthInv
      <4>3. ASSUME NEW q \in Requests \ {r}, auth[q] # None
            PROVE  /\ auth[q].at <= clock /\ (auth[q].spent => Spent(auth[q].secret))
                   /\ auth[q].verdict = "undecided" => auth[q].id = None /\ auth[q].scopes = {}
                   /\ auth[q].verdict = "granted" => GrantInv(auth[q])
        BY <4>3 DEF TokenInv, AuthInv
      <4> QED BY <3>3, <4>1, <4>2, <4>3
    <3>5. ASSUME NEW q \in Requests, auth'[q] # None, NEW a, a = auth'[q]
          PROVE  /\ a.at <= clock' /\ (a.spent => Spent(a.secret)')
                 /\ a.verdict = "undecided" => a.id = None /\ a.scopes = {}
                 /\ a.verdict = "granted" => GrantInv(a)'
      <4>1. clock' = clock /\ a.at <= clock /\ (a.spent => Spent(a.secret))
        BY <2>1, <3>4, <3>5
      <4>2. a.verdict = "undecided" => a.id = None /\ a.scopes = {}
        BY <3>4, <3>5
      <4>3. a.verdict = "granted" => GrantInv(a)
        BY <3>4, <3>5
      <4> QED BY <3>1, <3>2, <4>1, <4>2, <4>3
    <3>6. \A q \in Requests : auth'[q] # None =>
            /\ (auth[q].at <= clock)' /\ (auth[q].spent => Spent(auth[q].secret))'
            /\ (auth[q].verdict = "undecided" => auth[q].id = None /\ auth[q].scopes = {})'
            /\ (auth[q].verdict = "granted" => GrantInv(auth[q]))'
      BY <3>5 DEF GrantInv, Spent, Stored, Unexpired
    <3> QED BY <3>6 DEF AuthInv
  <2> QED BY <2>4, <2>6, <2>7 DEF TokenInv
<1>8. ASSUME NEW r \in Requests, Leave(r) PROVE TokenInv'
  <2>1. /\ auth' = [auth EXCEPT ![r] = None]
        /\ UNCHANGED <<clock, bootstrap, rows, drawn, issued, operator>>
    BY <1>8 DEF Leave
  <2>2. TokenTypeOK' /\ PendingInv' /\ RowsInv'
    BY <1>0, <2>1 DEF TokenInv, TokenTypeOK, PendingInv, RowsInv
  <2>3. AuthInv'
    BY <1>0, <2>1 DEF TokenInv, AuthInv, GrantInv, Spent, Stored
  <2> QED BY <2>2, <2>3 DEF TokenInv
<1>9. CASE TokenTick
  <2>1. /\ clock' \in 0..MaxClock /\ clock' \in Nat /\ clock <= clock'
        /\ UNCHANGED <<bootstrap, rows, drawn, issued, operator, auth>>
    BY <1>0, <1>9 DEF TokenTick, Tick
  <2>2. TokenTypeOK' /\ PendingInv' /\ RowsInv'
    BY <2>1 DEF TokenInv, TokenTypeOK, PendingInv, RowsInv
  <2>3. AuthInv'
    BY <1>0, <2>1, AuthKept
  <2> QED BY <2>2, <2>3 DEF TokenInv
<1>10. CASE UNCHANGED tokenVars
  BY <1>10 DEF tokenVars, TokenInv, TokenTypeOK, PendingInv, RowsInv, AuthInv, GrantInv, Spent, Stored
<1>11. ASSUME NEW o \in Operators, OperatorStep(o) PROVE TokenInv'
  <2>1. ASSUME NEW id \in Ids, NEW scopes \in Grants, NEW lifetime \in Lifetimes,
               Generate(o, id, scopes, lifetime)
        PROVE  TokenInv'
    BY <1>1, <2>1, TokenAssumption
  <2>2. ASSUME Generate(o, Default, Scopes, 0) PROVE TokenInv'
    BY <1>1, <2>2, TokenAssumption
  <2> QED BY <1>2, <1>11, <2>1, <2>2 DEF OperatorStep, Rotate, Create, StartupToken
<1> QED
  BY <1>4, <1>5, <1>6, <1>7, <1>8, <1>9, <1>10, <1>11 DEF TokenNext, RequestStep

(* Where a secret can be: with one operator or in one row                  *)
(* (token_repository.go, tokens.go).                                       *)
THEOREM TokenInvariance == TokenSpec => []TokenInv
  BY TokenInitial, TokenStep, PTL DEF TokenSpec

(* A secret that was replaced or revoked before a request began is refused *)
(* to it, for every number of ids, commands and requests at work.          *)
THEOREM SpentSecretsAreRefusedHolds == TokenSpec => []SpentSecretsAreRefused
<1>1. TokenInv => SpentSecretsAreRefused
  BY DEF TokenInv, AuthInv, GrantInv, SpentSecretsAreRefused, Granted
<1> QED BY <1>1, TokenInvariance, PTL

-----------------------------------------------------------------------------
(* The server's steps are steps of the limiter and of the token store.     *)
LEMMA GateSteps ==
  /\ Init => LimiterInit /\ TokenInit
  /\ [Next]_vars => [LimiterNext]_limiterVars /\ [TokenNext]_tokenVars
<1>1. Init => LimiterInit /\ TokenInit
  BY DEF Init
<1>2. ASSUME Next PROVE [LimiterNext]_limiterVars /\ [TokenNext]_tokenVars
  <2>1. ASSUME NEW c \in Clients, TurnAway(c)
        PROVE  LimiterNext /\ UNCHANGED tokenVars
    BY <2>1 DEF TurnAway, LimiterNext, Refuse, tokenVars
  <2>2. ASSUME NEW c \in Clients, NEW r \in Requests, NEW secret \in 0..drawn \cup {None},
               Arrive(r, c, secret)
        PROVE  LimiterNext /\ TokenNext
    BY <2>2 DEF Arrive, LimiterNext, TokenNext
  <2>3. ASSUME NEW r \in Requests, NEW method \in Methods, Dispatch(r, method)
        PROVE  UNCHANGED limiterVars /\ UNCHANGED tokenVars
    BY <2>3 DEF Dispatch, limiterVars, tokenVars
  <2>4. ASSUME NEW r \in Requests, Respond(r)
        PROVE  UNCHANGED limiterVars /\ TokenNext
    BY <2>4 DEF Respond, Leave, limiterVars, TokenNext
  <2>5. ASSUME NEW r \in Requests, RequestStep(r), UNCHANGED <<buckets, opened, passed, lastPass>>
        PROVE  UNCHANGED limiterVars /\ TokenNext
    BY <2>5 DEF RequestStep, Lookup, LookupFails, Touch, limiterVars, TokenNext
  <2>6. ASSUME NEW o \in Operators, OperatorStep(o), UNCHANGED <<buckets, opened, passed, lastPass>>
        PROVE  UNCHANGED limiterVars /\ TokenNext
    BY <2>6 DEF OperatorStep, Rotate, Create, StartupToken, Generate, Upsert, limiterVars, TokenNext
  <2>7. ASSUME NEW id \in Ids, Revoke(id), UNCHANGED <<buckets, opened, passed, lastPass>>
        PROVE  UNCHANGED limiterVars /\ TokenNext
    BY <2>7 DEF Revoke, limiterVars, TokenNext
  <2>8. ASSUME LimiterTick, TokenTick PROVE LimiterNext /\ TokenNext
    BY <2>8 DEF LimiterNext, TokenNext
  <2>9. ASSUME Observe, UNCHANGED <<bootstrap, rows, drawn, issued, operator, auth>>
        PROVE  LimiterNext /\ UNCHANGED tokenVars
    BY <2>9 DEF Observe, LimiterNext, tokenVars
  <2> QED
    BY <1>2, <2>1, <2>2, <2>3, <2>4, <2>5, <2>6, <2>7, <2>8, <2>9 DEF Next
<1>3. UNCHANGED vars => UNCHANGED limiterVars /\ UNCHANGED tokenVars
  BY DEF vars, limiterVars, tokenVars
<1> QED BY <1>1, <1>2, <1>3

(* What runs is what the registries were asked for once the scopes of the  *)
(* request's principal were seen to cover it.                              *)
RunningInv ==
  /\ running \in [Requests -> Methods \cup {None}]
  /\ \A r \in Requests : running[r] # None =>
       Granted(r) /\ Answered(r) /\ Has(auth[r].scopes, RequiredScope(running[r]))

GateInv == TokenInv /\ RunningInv

\* what runs was granted, and covers the scope it needs
LEMMA RunningStep == TokenInv /\ RunningInv /\ [Next]_vars => RunningInv'
<1> SUFFICES ASSUME TokenInv, RunningInv, [Next]_vars PROVE RunningInv'
  OBVIOUS
<1>0. auth \in [Requests -> Auth \cup {None}]
  BY DEF TokenInv, TokenTypeOK
<1>1. ASSUME running' = running, \A r \in Requests : running[r] # None => auth'[r] = auth[r]
      PROVE  RunningInv'
  BY <1>1 DEF RunningInv, Granted, Answered, Undecided, Has
<1>2. ASSUME NEW r \in Requests, NEW attempt, auth' = [auth EXCEPT ![r] = attempt],
             running' = running, running[r] = None
      PROVE  RunningInv'
  BY <1>0, <1>1, <1>2
<1>3. ASSUME NEW r \in Requests, NEW method \in Methods, Dispatch(r, method)
      PROVE  RunningInv'
  BY <1>0, <1>3 DEF Dispatch, RunningInv, Granted, Answered, Undecided, Has
<1>4. ASSUME NEW r \in Requests, Respond(r) PROVE RunningInv'
  BY <1>0, <1>4 DEF Respond, Leave, RunningInv, Granted, Answered, Undecided, Has
<1>5. ASSUME NEW r \in Requests, RequestStep(r), running' = running PROVE RunningInv'
  <2>1. running[r] = None
    BY <1>5 DEF RequestStep, Lookup, LookupFails, Touch, RunningInv, Answered, Undecided, Granted
  <2> QED BY <1>2, <1>5, <2>1 DEF RequestStep, Lookup, LookupFails, Touch, Decide
<1>6. ASSUME NEW c \in Clients, NEW r \in Requests, NEW secret, Arrive(r, c, secret)
      PROVE  RunningInv'
  <2>1. running[r] = None
    BY <1>6 DEF Arrive, Begin, RunningInv, Granted
  <2> QED BY <1>2, <1>6, <2>1 DEF Arrive, Begin, Decide
<1>7. ASSUME UNCHANGED <<auth, running>> PROVE RunningInv'
  BY <1>1, <1>7
<1> QED
  BY <1>3, <1>4, <1>5, <1>6, <1>7
     DEF Next, vars, TurnAway, OperatorStep, Rotate, Create, StartupToken, Generate, Upsert,
         Revoke, TokenTick

(* The invariant of the server's way to a memory.                          *)
THEOREM GateInvariance == Spec => [](LimiterInv /\ GateInv)
<1>1. Init => LimiterInv /\ GateInv
  BY GateSteps, LimiterInitial, TokenInitial DEF Init, GateInv, RunningInv
<1>2. LimiterInv /\ GateInv /\ [Next]_vars => (LimiterInv /\ GateInv)'
  BY GateSteps, LimiterStep, TokenStep, RunningStep DEF GateInv
<1> QED BY <1>1, <1>2, PTL DEF Spec

(* Types, for every number of clients, ids, operators and requests.        *)
THEOREM GateTypeOKHolds == Spec => []TypeOK
<1>1. LimiterInv /\ GateInv => TypeOK
  BY DEF LimiterInv, GateInv, TokenInv, RunningInv, TypeOK
<1> QED BY <1>1, GateInvariance, PTL

(* Whatever operators do meanwhile, a tool or resource runs only for a     *)
(* secret that was given its scope and was good when the request came.     *)
THEOREM RunsWithinGrantHolds == Spec => []RunsWithinGrant
<1>1. ASSUME GateInv PROVE RunsWithinGrant
  <2> SUFFICES ASSUME NEW r \in Requests, running[r] # None
               PROVE  /\ Granted(r) /\ ~auth[r].spent
                      /\ Has(GivenTo(auth[r].secret), RequiredScope(running[r]))
                      /\ auth[r].secret # BootSecret =>
                           Unexpired(issued[auth[r].secret].expires, auth[r].at)
    BY DEF RunsWithinGrant
  <2>1. Granted(r) /\ GrantInv(auth[r]) /\ Has(auth[r].scopes, RequiredScope(running[r]))
    BY <1>1 DEF GateInv, RunningInv, TokenInv, AuthInv, Granted
  <2>2. auth[r].scopes = GivenTo(auth[r].secret)
    BY <1>1, <2>1 DEF GrantInv, GivenTo, BootSecret, GateInv, TokenInv, TokenTypeOK
  <2> QED BY <2>1, <2>2 DEF GrantInv, BootSecret
<1> QED BY <1>1, GateInvariance, PTL

(* A client of the composed server that has had nothing through for a      *)
(* token's time is not refused.                                            *)
THEOREM GateBounds == Spec => []WindowBound /\ QuietClientPasses /\ []SpentSecretsAreRefused
<1>1. Spec => LimiterSpec /\ TokenSpec
  BY GateSteps, PTL DEF Spec, LimiterSpec, TokenSpec
<1> QED BY <1>1, WindowBoundHolds, QuietClientPassesHolds, SpentSecretsAreRefusedHolds, PTL

-----------------------------------------------------------------------------
(* The refinement: an operator's upsert issues, a revoke retires, the      *)
(* lookup decides; generating a secret, recording a use and the clock are  *)
(* steps the ledger does not see.                                          *)

\* the server's own token was compared before any row is read
UndecidedInv ==
  \A r \in Requests : Undecided(r) /\ bootstrap => auth[r].secret \notin {None, BootSecret}

\* a request that waits for the list of tokens has a secret, and not the configured one
LEMMA UndecidedStep == TokenInv /\ UndecidedInv /\ [TokenNext]_tokenVars => UndecidedInv'
<1> SUFFICES ASSUME TokenInv, UndecidedInv, [TokenNext]_tokenVars PROVE UndecidedInv'
  OBVIOUS
<1>0. auth \in [Requests -> Auth \cup {None}]
  BY DEF TokenInv, TokenTypeOK
<1>1. ASSUME NEW r \in Requests, NEW attempt, auth' = [auth EXCEPT ![r] = attempt],
             bootstrap' = bootstrap,
             attempt # None /\ attempt.verdict = "undecided" /\ bootstrap =>
               attempt.secret \notin {None, BootSecret}
      PROVE  UndecidedInv'
  BY <1>0, <1>1 DEF UndecidedInv, Undecided
<1>2. ASSUME NEW r \in Requests, NEW secret, Begin(r, secret) PROVE UndecidedInv'
  BY <1>1, <1>2 DEF Begin, Decide, Refused, Accepted
<1>3. ASSUME NEW r \in Requests, Lookup(r) \/ LookupFails(r) PROVE UndecidedInv'
  <2>1. auth[r] \in Auth /\ bootstrap' = bootstrap
    BY <1>0, <1>3 DEF Lookup, LookupFails, Undecided
  <2>2. PICK decided \in Auth : auth' = [auth EXCEPT ![r] = decided] /\ decided.verdict # "undecided"
    <3>1. \A i \in Match(r) : i \in Ids \cup {Boot} /\ rows[i].scopes \in SUBSET Scopes
      BY DEF Match, Active, TokenInv, TokenTypeOK, Row
    <3>2. \A i \in Match(r) :
            /\ Accepted(auth[r], i, rows[i].scopes) \in Auth
            /\ Accepted(auth[r], i, rows[i].scopes).verdict = "granted"
      BY <2>1, <3>1, AcceptedFacts
    <3>3. \A v \in {"unauthorized", "unconfigured"} :
            Refused(auth[r], v) \in Auth /\ Refused(auth[r], v).verdict = v
      BY <2>1, RefusedFacts DEF Verdicts
    <3> QED BY <1>3, <3>2, <3>3 DEF Lookup, LookupFails, Decide
  <2> QED BY <1>1, <2>1, <2>2
<1>4. ASSUME NEW r \in Requests, NEW fails, Touch(r, fails) PROVE UndecidedInv'
  <2>1. auth[r] \in Auth /\ auth[r].verdict = "granted" /\ bootstrap' = bootstrap
    BY <1>0, <1>4 DEF Touch, Granted
  <2>2. [auth[r] EXCEPT !.touched = TRUE].verdict = "granted"
    BY <2>1 DEF Auth
  <2> QED BY <1>1, <1>4, <2>1, <2>2 DEF Touch
<1>5. ASSUME NEW r \in Requests, Leave(r) PROVE UndecidedInv'
  BY <1>1, <1>5 DEF Leave
<1>6. ASSUME UNCHANGED <<auth, bootstrap>> PROVE UndecidedInv'
  BY <1>6 DEF UndecidedInv, Undecided
<1> QED
  BY <1>2, <1>3, <1>4, <1>5, <1>6
     DEF TokenNext, OperatorStep, Rotate, Create, StartupToken, Generate, Upsert, Revoke,
         RequestStep, TokenTick, tokenVars

\* the initial states are those of the ledger
LEMMA LedgerStarts == TokenInit => Ledger!Init
<1> SUFFICES ASSUME TokenInit PROVE Ledger!Init
  OBVIOUS
<1>1. \A i \in Ids : LedgerForce[i] = None
  BY TokenAssumption DEF TokenInit, LedgerForce
<1>2. \A h \in Ids \cup {Boot} : LedgerForce[h] # None => h = Boot
  BY <1>1
<1>3. LedgerForce[Boot] # None <=> bootstrap
  BY LedgerAssumption, TokenAssumption DEF LedgerForce, Credential, BootSecret
<1>4. bootstrap => LedgerForce[Boot].secret = BootSecret
  BY DEF LedgerForce
<1>5. LedgerPast = {LedgerForce[h].secret : h \in {i \in Ids \cup {Boot} : LedgerForce[i] # None}}
  <2>1. LedgerPast = IF bootstrap THEN {BootSecret} ELSE {}
    BY DEF TokenInit, LedgerPast, BootSecret
  <2>2. {i \in Ids \cup {Boot} : LedgerForce[i] # None} = IF bootstrap THEN {Boot} ELSE {}
    BY <1>2, <1>3
  <2> QED BY <1>4, <2>1, <2>2
<1>6. LedgerCall = [r \in Requests |-> None]
  BY DEF TokenInit, LedgerCall
<1> QED BY <1>2, <1>5, <1>6 DEF Ledger!Init

(* What the ledger sees of an attempt.                                     *)
Seen(a) == [secret |-> a.secret, at |-> a.at, verdict |-> a.verdict, id |-> a.id,
            scopes |-> a.scopes]

\* a call of the ledger is what a request shows of itself
LEMMA CallFacts ==
  ASSUME TokenInv, NEW r \in Requests
  PROVE  /\ auth[r] = None => LedgerCall[r] = None
         /\ auth[r] # None => LedgerCall[r] = Seen(auth[r]) /\ LedgerCall[r] # None
<1>1. ASSUME auth[r] # None PROVE Seen(auth[r]) \in Attempt
  BY <1>1 DEF TokenInv, TokenTypeOK, Auth, Attempt, Seen
<1> QED BY <1>1, LedgerAssumption DEF LedgerCall, Seen

\* a decision about one request changes its call alone
LEMMA CallStep ==
  ASSUME TokenInv, NEW r \in Requests, NEW attempt \in Auth, Decide(r, attempt)
  PROVE  /\ LedgerCall'[r] = Seen(attempt)
         /\ LedgerCall' = [LedgerCall EXCEPT ![r] = Seen(attempt)]
<1>1. attempt # None /\ auth' = [auth EXCEPT ![r] = attempt] /\ auth \in [Requests -> Auth \cup {None}]
  BY TokenAssumption DEF Decide, TokenInv, TokenTypeOK
<1>2. auth'[r] = attempt /\ \A q \in Requests \ {r} : auth'[q] = auth[q]
  BY <1>1
<1>3. LedgerCall' = [q \in Requests |-> IF auth'[q] = None THEN None ELSE Seen(auth'[q])]
  BY DEF LedgerCall, Seen
<1>4. LedgerCall = [q \in Requests |-> IF auth[q] = None THEN None ELSE Seen(auth[q])]
  BY DEF LedgerCall, Seen
<1> QED BY <1>1, <1>2, <1>3, <1>4

(* An id is in force in the ledger as it is active in the table.           *)
LEMMA ForceFacts ==
  ASSUME TokenInv, NEW at
  PROVE  /\ Ledger!InForce(at) = Active(at) \cup (IF bootstrap THEN {Boot} ELSE {})
         /\ bootstrap => LedgerForce[Boot].secret = BootSecret /\ LedgerForce[Boot].scopes = BootGrant
         /\ \A i \in Active(at) : /\ LedgerForce[i].secret = rows[i].secret
                                 /\ LedgerForce[i].scopes = rows[i].scopes
<1>1. \A i \in Ids : i # Boot
  BY TokenAssumption
<1>2. ASSUME NEW i \in Ids, rows[i] # None, ~rows[i].revoked
      PROVE  /\ LedgerForce[i].secret = rows[i].secret /\ LedgerForce[i].scopes = rows[i].scopes
             /\ LedgerForce[i].expires = rows[i].expires /\ LedgerForce[i] # None
  <2>1. [secret |-> rows[i].secret, scopes |-> rows[i].scopes, expires |-> rows[i].expires] \in Credential
    BY <1>2 DEF TokenInv, TokenTypeOK, Row, Credential
  <2> QED BY <1>1, <1>2, <2>1, LedgerAssumption DEF LedgerForce
<1>3. \A i \in Ids : rows[i] = None \/ rows[i].revoked => LedgerForce[i] = None
  BY <1>1 DEF LedgerForce
<1>4. ~bootstrap => LedgerForce[Boot] = None
  BY DEF LedgerForce
<1>5. ASSUME bootstrap
      PROVE  /\ LedgerForce[Boot] = [secret |-> BootSecret, scopes |-> BootGrant, expires |-> None]
             /\ LedgerForce[Boot] # None
  <2>1. [secret |-> BootSecret, scopes |-> BootGrant, expires |-> None] \in Credential
    BY TokenAssumption DEF BootSecret, Credential
  <2> QED BY <1>5, <2>1, LedgerAssumption DEF LedgerForce
<1>6. \A i \in Ids : i \in Ledger!InForce(at) <=> i \in Active(at)
  <2>1. ASSUME NEW i \in Ids, i \in Active(at) PROVE i \in Ledger!InForce(at)
    BY <1>2, <2>1 DEF Ledger!InForce, Active, Unexpired
  <2>2. ASSUME NEW i \in Ids, i \in Ledger!InForce(at) PROVE i \in Active(at)
    <3>1. rows[i] # None /\ ~rows[i].revoked
      BY <1>3, <2>2 DEF Ledger!InForce
    <3> QED BY <1>2, <2>2, <3>1 DEF Ledger!InForce, Active, Unexpired
  <2> QED BY <2>1, <2>2
<1>7. Boot \in Ledger!InForce(at) <=> bootstrap
  BY <1>4, <1>5 DEF Ledger!InForce
<1>8. Ledger!InForce(at) \subseteq Ids \cup {Boot} /\ Active(at) \subseteq Ids
  BY DEF Ledger!InForce, Active
<1>9. Ledger!InForce(at) = Active(at) \cup (IF bootstrap THEN {Boot} ELSE {})
  BY <1>1, <1>6, <1>7, <1>8
<1>10. bootstrap => LedgerForce[Boot].secret = BootSecret /\ LedgerForce[Boot].scopes = BootGrant
  BY <1>5
<1>11. \A i \in Active(at) : /\ LedgerForce[i].secret = rows[i].secret
                            /\ LedgerForce[i].scopes = rows[i].scopes
  BY <1>2 DEF Active
<1> QED BY <1>9, <1>10, <1>11

\* tokens in force depend on the table and the configured token alone
LEMMA SameForce == UNCHANGED <<rows, bootstrap>> => LedgerForce' = LedgerForce
  BY DEF LedgerForce
\* so do spent secrets, and on what operators hold
LEMMA SamePast == UNCHANGED <<drawn, operator, bootstrap>> => LedgerPast' = LedgerPast
  BY DEF LedgerPast, Stored
\* and calls on the requests alone
LEMMA SameCall == UNCHANGED auth => LedgerCall' = LedgerCall
  BY DEF LedgerCall

(* A request's attempt, and what the ledger says of it.                    *)
LEMMA DecisionMaps ==
  ASSUME TokenInv, NEW r \in Requests, NEW a \in Auth, a.verdict = "undecided",
         NEW d \in Auth, d.secret = a.secret, d.at = a.at,
         \/ /\ d.verdict = "unauthorized" /\ d.id = a.id /\ d.scopes = a.scopes
            /\ bootstrap => a.secret # BootSecret
            /\ \A i \in Active(a.at) : rows[i].secret # a.secret
            /\ bootstrap \/ Active(a.at) # {}
         \/ d.verdict = "unconfigured" /\ d.id = a.id /\ d.scopes = a.scopes
         \/ /\ d.verdict = "granted" /\ bootstrap /\ a.secret = BootSecret
            /\ d.id = Boot /\ d.scopes = BootGrant
         \/ /\ d.verdict = "granted" /\ d.id \in Active(a.at)
            /\ rows[d.id].secret = a.secret /\ d.scopes = rows[d.id].scopes
  PROVE  Ledger!Says(Seen(a), Seen(d))
<1>1. Seen(a).at = a.at /\ Seen(a).secret = a.secret
  BY DEF Seen
<1>0. d.secret = a.secret /\ d.at = a.at
  OBVIOUS
<1>2. Seen(d) = [secret |-> Seen(a).secret, at |-> Seen(a).at, verdict |-> d.verdict,
                 id |-> d.id, scopes |-> d.scopes]
  BY <1>0 DEF Seen
<1>3. ASSUME d.id = a.id, d.scopes = a.scopes
      PROVE  Seen(d) = [Seen(a) EXCEPT !.verdict = d.verdict]
  BY <1>3 DEF Seen
<1>4. Ledger!Granting(Seen(a)) = {h \in Ledger!InForce(a.at) : LedgerForce[h].secret = a.secret}
  BY <1>1 DEF Ledger!Granting
<1>5. Ledger!InForce(Seen(a).at) = Active(a.at) \cup (IF bootstrap THEN {Boot} ELSE {})
  BY <1>1, ForceFacts
<1>6. CASE d.verdict = "unauthorized" /\ d.id = a.id /\ d.scopes = a.scopes
           /\ (bootstrap => a.secret # BootSecret)
           /\ (\A i \in Active(a.at) : rows[i].secret # a.secret)
           /\ (bootstrap \/ Active(a.at) # {})
  <2>1. \A h \in Ledger!InForce(a.at) : LedgerForce[h].secret # a.secret
    BY <1>6, ForceFacts
  <2>2. Ledger!Granting(Seen(a)) = {} /\ Ledger!InForce(Seen(a).at) # {}
    BY <1>4, <1>5, <1>6, <2>1
  <2> QED BY <1>3, <1>6, <2>2 DEF Ledger!Says
<1>7. CASE d.verdict = "unconfigured" /\ d.id = a.id /\ d.scopes = a.scopes
  BY <1>3, <1>7 DEF Ledger!Says
<1>8. CASE d.verdict = "granted" /\ bootstrap /\ a.secret = BootSecret
           /\ d.id = Boot /\ d.scopes = BootGrant
  <2>1. Boot \in Ledger!Granting(Seen(a)) /\ LedgerForce[Boot].scopes = BootGrant
    BY <1>1, <1>4, <1>5, <1>8, ForceFacts
  <2>2. Seen(d) = [secret |-> Seen(a).secret, at |-> Seen(a).at, verdict |-> "granted",
                   id |-> Boot, scopes |-> LedgerForce[Boot].scopes]
    BY ONLY <1>2, <1>8, <2>1
  <2> QED BY ONLY <2>1, <2>2 DEF Ledger!Says
<1>9. CASE d.verdict = "granted" /\ d.id \in Active(a.at)
           /\ rows[d.id].secret = a.secret /\ d.scopes = rows[d.id].scopes
  <2>1. d.id \in Ledger!Granting(Seen(a)) /\ LedgerForce[d.id].scopes = d.scopes
    BY <1>1, <1>4, <1>5, <1>9, ForceFacts
  <2> QED BY <1>2, <1>9, <2>1 DEF Ledger!Says
<1> QED BY <1>6, <1>7, <1>8, <1>9

\* reading the list of tokens decides the call, also when the read fails
LEMMA LookupMaps ==
  ASSUME TokenInv, UndecidedInv, NEW r \in Requests, Lookup(r) \/ LookupFails(r)
  PROVE  Ledger!Decide(r) /\ UNCHANGED <<LedgerForce, LedgerPast>>
<1>0. auth[r] \in Auth /\ auth[r] # None /\ auth[r].verdict = "undecided" /\ Undecided(r)
  BY DEF Lookup, LookupFails, Undecided, TokenInv, TokenTypeOK
<1>1. UNCHANGED <<LedgerForce, LedgerPast>>
  BY SameForce, SamePast DEF Lookup, LookupFails
<1>2. LedgerCall[r] = Seen(auth[r]) /\ LedgerCall[r] # None
  BY <1>0, CallFacts
<1>3. ASSUME NEW d \in Auth, Decide(r, d), Ledger!Says(Seen(auth[r]), Seen(d))
      PROVE  Ledger!Decide(r)
  <2>1. LedgerCall'[r] = Seen(d) /\ LedgerCall' = [LedgerCall EXCEPT ![r] = LedgerCall'[r]]
    BY <1>3, CallStep
  <2>2. LedgerCall[r].verdict = "undecided"
    BY <1>0, <1>2 DEF Seen
  <2> QED BY <1>1, <1>2, <1>3, <2>1, <2>2 DEF Ledger!Decide
<1>4. ASSUME NEW v \in {"unauthorized", "unconfigured"}, Decide(r, Refused(auth[r], v)),
             v = "unauthorized" => Match(r) = {} /\ (bootstrap \/ Active(auth[r].at) # {})
      PROVE  Ledger!Decide(r)
  <2> DEFINE d == Refused(auth[r], v)
  <2>1. /\ d \in Auth /\ d.at = auth[r].at /\ d.secret = auth[r].secret /\ d.verdict = v
        /\ d.id = auth[r].id /\ d.scopes = auth[r].scopes
    BY <1>0, RefusedFacts DEF Verdicts
  <2> HIDE DEF d
  <2>2. v = "unauthorized" => \A i \in Active(auth[r].at) : rows[i].secret # auth[r].secret
    BY <1>4 DEF Match
  <2>3. bootstrap => auth[r].secret # BootSecret
    BY <1>0 DEF UndecidedInv
  <2>4. Ledger!Says(Seen(auth[r]), Seen(d))
    BY <1>0, <1>4, <2>1, <2>2, <2>3, DecisionMaps
  <2>5. Decide(r, d)
    BY <1>4 DEF d
  <2> QED BY <1>3, <2>1, <2>4, <2>5
<1>5. ASSUME NEW i \in Match(r), Decide(r, Accepted(auth[r], i, rows[i].scopes))
      PROVE  Ledger!Decide(r)
  <2> DEFINE d == Accepted(auth[r], i, rows[i].scopes)
  <2>1. i \in Ids \cup {Boot} /\ rows[i].scopes \in SUBSET Scopes /\ i \in Active(auth[r].at)
        /\ rows[i].secret = auth[r].secret
    BY DEF Match, Active, TokenInv, TokenTypeOK, Row
  <2>2. /\ d \in Auth /\ d.at = auth[r].at /\ d.secret = auth[r].secret /\ d.verdict = "granted"
        /\ d.id = i /\ d.scopes = rows[i].scopes
    BY <1>0, <2>1, AcceptedFacts
  <2> HIDE DEF d
  <2>3. Ledger!Says(Seen(auth[r]), Seen(d))
    BY <1>0, <2>1, <2>2, DecisionMaps
  <2>4. Decide(r, d)
    BY <1>5 DEF d
  <2> QED BY <1>3, <2>2, <2>3, <2>4
<1> QED BY <1>1, <1>4, <1>5 DEF Lookup, LookupFails

\* a request that arrives asks
LEMMA BeginMaps ==
  ASSUME TokenInv, NEW r \in Requests, NEW secret \in 0..drawn \cup {None}, Begin(r, secret)
  PROVE  Ledger!Ask(r, secret, clock) /\ UNCHANGED <<LedgerForce, LedgerPast>>
<1> DEFINE attempt == [secret |-> secret, at |-> clock, spent |-> Spent(secret),
              verdict |-> "undecided", id |-> None, scopes |-> {}, touched |-> FALSE]
           early == [attempt EXCEPT !.touched = TRUE]
           asked == [secret |-> secret, at |-> clock, verdict |-> "undecided",
                     id |-> None, scopes |-> {}]
<1>0. clock \in Nat /\ drawn \in Nat /\ Spent(secret) \in BOOLEAN /\ secret \in Nat \cup {None}
  BY TokenAssumption DEF TokenInv, TokenTypeOK, Spent
<1>1. attempt \in Auth
  BY <1>0 DEF Auth, Verdicts
<1>2. \A a \in Auth : /\ [a EXCEPT !.touched = TRUE] \in Auth
                      /\ Seen([a EXCEPT !.touched = TRUE]) = Seen(a)
  BY DEF Auth, Seen
<1>3. early \in Auth /\ Seen(attempt) = asked /\ Seen(early) = asked
  <2>1. Seen(attempt) = asked
    BY DEF Seen
  <2> HIDE DEF asked
  <2> QED BY <1>1, <1>2, <2>1
<1>4. UNCHANGED <<LedgerForce, LedgerPast>>
  BY SameForce, SamePast DEF Begin
<1>5. LedgerCall[r] = None
  BY CallFacts DEF Begin
<1>6. \A a \in Auth : Seen(a) = asked => /\ a.secret = secret /\ a.at = clock
                                        /\ a.verdict = "undecided" /\ a.id = None /\ a.scopes = {}
  BY DEF Seen
<1>7. \/ Decide(r, attempt)
      \/ bootstrap /\ secret = None /\ Decide(r, Refused(attempt, "unauthorized"))
      \/ bootstrap /\ secret = BootSecret /\ Decide(r, Accepted(early, Boot, BootGrant))
  BY DEF Begin
<1> HIDE DEF attempt, early
<1>8. ASSUME NEW d \in Auth, Decide(r, d), Seen(d) = asked \/ Ledger!Says(asked, Seen(d))
      PROVE  Ledger!Ask(r, secret, clock)
  <2>1. LedgerCall'[r] = Seen(d) /\ LedgerCall' = [LedgerCall EXCEPT ![r] = LedgerCall'[r]]
    BY <1>8, CallStep
  <2> QED BY <1>4, <1>5, <1>8, <2>1 DEF Ledger!Ask
<1> HIDE DEF asked
<1>9. CASE Decide(r, attempt)
  BY <1>1, <1>3, <1>4, <1>8, <1>9
<1>10. CASE bootstrap /\ secret = None /\ Decide(r, Refused(attempt, "unauthorized"))
  <2> DEFINE d == Refused(attempt, "unauthorized")
  <2>1. /\ d \in Auth /\ d.at = attempt.at /\ d.secret = attempt.secret
        /\ d.verdict = "unauthorized" /\ d.id = attempt.id /\ d.scopes = attempt.scopes
    BY <1>1, RefusedFacts DEF Verdicts
  <2> HIDE DEF d
  <2>2. attempt.verdict = "undecided" /\ attempt.secret = None
    BY <1>1, <1>3, <1>6, <1>10
  <2>3. None # BootSecret /\ \A i \in Active(attempt.at) : rows[i].secret # None
    BY TokenAssumption DEF BootSecret, Active, TokenInv, TokenTypeOK, Row
  <2>4. Ledger!Says(Seen(attempt), Seen(d))
    BY <1>1, <1>10, <2>1, <2>2, <2>3, DecisionMaps
  <2>5. Decide(r, d)
    BY <1>10 DEF d
  <2> QED BY <1>3, <1>4, <1>8, <2>1, <2>4, <2>5
<1>11. CASE bootstrap /\ secret = BootSecret /\ Decide(r, Accepted(early, Boot, BootGrant))
  <2> DEFINE d == Accepted(early, Boot, BootGrant)
  <2>1. /\ d \in Auth /\ d.at = early.at /\ d.secret = early.secret
        /\ d.verdict = "granted" /\ d.id = Boot /\ d.scopes = BootGrant
    BY <1>3, AcceptedFacts, TokenAssumption
  <2> HIDE DEF d
  <2>2. early.verdict = "undecided" /\ early.secret = BootSecret
    BY <1>3, <1>6, <1>11
  <2>3. Ledger!Says(Seen(early), Seen(d))
    BY <1>3, <1>11, <2>1, <2>2, DecisionMaps
  <2>4. Decide(r, d)
    BY <1>11 DEF d
  <2> QED BY <1>3, <1>4, <1>8, <2>1, <2>3, <2>4
<1> QED BY <1>4, <1>7, <1>9, <1>10, <1>11

\* writing the row issues the secret
LEMMA UpsertMaps ==
  ASSUME TokenInv, NEW o \in Operators, Upsert(o)
  PROVE  \E h \in Ids \cup {Boot} : LedgerForce'[h] # None /\ Ledger!Issue(h, LedgerForce'[h])
<1> DEFINE i == operator[o].id
           s == operator[o].secret
           credential == [secret |-> s, scopes |-> operator[o].scopes,
                          expires |-> operator[o].expires]
<1>0. operator[o] \in Pending /\ operator[o] # None
  BY DEF Upsert, TokenInv, TokenTypeOK
<1>1. i \in Ids /\ i # Boot /\ s \in 1..drawn /\ s # BootSecret /\ drawn \in Nat
  BY <1>0, TokenAssumption DEF Pending, TokenInv, TokenTypeOK, PendingInv, BootSecret
<1>2. credential # None
  <2>1. credential \in Credential
    BY <1>0 DEF Pending, Credential
  <2> QED BY <2>1, LedgerAssumption
<1>3. /\ rows' \in [Ids -> Row \cup {None}] /\ rows'[i] # None /\ ~rows'[i].revoked
      /\ rows'[i].secret = s /\ rows'[i].scopes = operator[o].scopes
      /\ rows'[i].expires = operator[o].expires
      /\ \A j \in Ids \ {i} : rows'[j] = rows[j]
  <2> DEFINE row == [secret |-> s, scopes |-> operator[o].scopes, expires |-> operator[o].expires,
                     revoked |-> FALSE, used |-> None]
  <2>1. row \in Row
    BY <1>0 DEF Pending, Row
  <2>2. row # None
    BY <2>1, TokenAssumption
  <2>3. rows' = [rows EXCEPT ![i] = row] /\ rows \in [Ids -> Row \cup {None}]
    BY DEF Upsert, TokenInv, TokenTypeOK
  <2> QED BY <1>1, <2>1, <2>2, <2>3
<1>4. UNCHANGED <<clock, bootstrap, drawn, issued, auth>> /\ operator' = [operator EXCEPT ![o] = None]
  BY DEF Upsert
<1>5. LedgerForce'[i] = credential
  BY <1>1, <1>3 DEF LedgerForce
<1>6. LedgerForce' = [LedgerForce EXCEPT ![i] = credential]
  <2>1. \A h \in (Ids \cup {Boot}) \ {i} : LedgerForce'[h] = LedgerForce[h]
    BY <1>3, <1>4 DEF LedgerForce
  <2>2. /\ LedgerForce = [h \in Ids \cup {Boot} |-> LedgerForce[h]]
        /\ LedgerForce' = [h \in Ids \cup {Boot} |-> LedgerForce'[h]]
    BY DEF LedgerForce
  <2> HIDE DEF credential, i
  <2> QED BY <1>1, <1>5, <2>1, <2>2
<1>7. s \notin LedgerPast
  BY <1>0, <1>1 DEF LedgerPast, Stored
<1>8. LedgerPast' = LedgerPast \cup {s}
  <2>1. ASSUME NEW t \in 1..drawn PROVE Stored(t)' <=> Stored(t) \/ t = s
    <3>1. /\ operator'[o] = None /\ \A p \in Operators \ {o} : operator'[p] = operator[p]
      BY <1>4 DEF TokenInv, TokenTypeOK
    <3>2. \A p \in Operators : operator[p] # None /\ operator[p].secret = s => p = o
      BY <1>0 DEF TokenInv, PendingInv
    <3> QED BY <1>0, <3>1, <3>2 DEF Stored
  <2> HIDE DEF s
  <2> QED BY <1>1, <1>4, <2>1 DEF LedgerPast, BootSecret
<1>9. LedgerCall' = LedgerCall
  BY <1>4, SameCall
<1>10. credential.secret = s
  OBVIOUS
<1> HIDE DEF credential, i, s
<1> QED BY <1>1, <1>2, <1>5, <1>6, <1>7, <1>8, <1>9, <1>10 DEF Ledger!Issue

\* revoking the row retires it
LEMMA RevokeMaps ==
  ASSUME TokenInv, NEW id \in Ids, Revoke(id)
  PROVE  Ledger!Retire(id)
<1>1. id # Boot /\ rows[id] \in Row /\ ~rows[id].revoked /\ rows[id] # None
  BY TokenAssumption DEF Revoke, TokenInv, TokenTypeOK
<1>2. LedgerForce[id] # None
  <2>1. [secret |-> rows[id].secret, scopes |-> rows[id].scopes, expires |-> rows[id].expires] \in Credential
    BY <1>1 DEF Row, Credential
  <2> QED BY <1>1, <2>1, LedgerAssumption DEF LedgerForce
<1>3. rows'[id].revoked /\ \A j \in Ids \ {id} : rows'[j] = rows[j]
  <2>1. [rows[id] EXCEPT !.revoked = TRUE].revoked
    BY <1>1 DEF Row
  <2>2. rows' = [rows EXCEPT ![id] = [rows[id] EXCEPT !.revoked = TRUE]]
    BY DEF Revoke
  <2> QED BY <2>1, <2>2 DEF TokenInv, TokenTypeOK
<1>4. LedgerForce' = [LedgerForce EXCEPT ![id] = None]
  <2>1. LedgerForce'[id] = None
    BY <1>1, <1>3 DEF LedgerForce
  <2>2. \A h \in (Ids \cup {Boot}) \ {id} : LedgerForce'[h] = LedgerForce[h]
    BY <1>3 DEF LedgerForce, Revoke
  <2> QED BY <2>1, <2>2 DEF LedgerForce
<1>5. UNCHANGED <<LedgerPast, LedgerCall>>
  BY SamePast, SameCall DEF Revoke
<1> QED BY <1>2, <1>4, <1>5 DEF Ledger!Retire

\* a secret that is only generated is unknown to the ledger
LEMMA GenerateMaps ==
  ASSUME TokenInv, NEW o \in Operators, NEW id \in Ids, NEW scopes \in SUBSET Scopes,
         NEW lifetime \in Nat, Generate(o, id, scopes, lifetime)
  PROVE  UNCHANGED Ledger!vars
<1> DEFINE pending == [id |-> id, secret |-> drawn + 1, scopes |-> scopes,
                       expires |-> IF lifetime = 0 THEN None ELSE clock + lifetime]
<1>1. drawn' = drawn + 1 /\ drawn \in Nat /\ clock \in Nat /\ operator[o] = None
  BY DEF Generate, TokenInv, TokenTypeOK
<1>2. pending # None /\ pending.secret = drawn + 1
  <2>1. pending \in Pending
    BY <1>1 DEF Pending
  <2> QED BY <2>1, TokenAssumption
<1>3. operator' = [operator EXCEPT ![o] = pending] /\ operator \in [Operators -> Pending \cup {None}]
  BY DEF Generate, TokenInv, TokenTypeOK
<1> HIDE DEF pending
<1>4. operator'[o] = pending /\ \A p \in Operators \ {o} : operator'[p] = operator[p]
  BY <1>3
<1>5. ASSUME NEW t \in 1..drawn PROVE Stored(t)' <=> Stored(t)
  BY <1>1, <1>2, <1>4 DEF Stored
<1>6. ASSUME NEW t, t = drawn + 1 PROVE ~Stored(t)'
  BY <1>2, <1>4, <1>6 DEF Stored
<1>7. LedgerPast' = LedgerPast
  <2>1. LedgerPast' = {t \in 0..(drawn + 1) : IF t = 0 THEN bootstrap ELSE Stored(t)'}
    BY <1>1 DEF LedgerPast, BootSecret, Generate
  <2>2. LedgerPast = {t \in 0..drawn : IF t = 0 THEN bootstrap ELSE Stored(t)}
    BY DEF LedgerPast, BootSecret
  <2> QED BY <1>1, <1>5, <1>6, <2>1, <2>2
<1> QED BY <1>7, SameForce, SameCall DEF Generate, Ledger!vars

\* recording the last use is unknown to it too
LEMMA TouchMaps ==
  ASSUME TokenInv, NEW r \in Requests, NEW fails \in BOOLEAN, Touch(r, fails)
  PROVE  UNCHANGED Ledger!vars
<1> DEFINE d == [auth[r] EXCEPT !.touched = TRUE]
           i == auth[r].id
<1>1. /\ auth[r] \in Auth /\ auth[r].verdict = "granted" /\ auth[r] # None
      /\ GrantInv(auth[r]) /\ ~auth[r].touched
  BY DEF Touch, Granted, TokenInv, TokenTypeOK, AuthInv
<1>2. i \in Ids /\ rows[i] \in Row /\ rows[i] # None /\ auth[r].at \in Nat /\ i # Boot
  BY <1>1, TokenAssumption DEF GrantInv, Auth, TokenInv, TokenTypeOK
<1>3. LedgerForce' = LedgerForce
  <2> DEFINE row == [rows[i] EXCEPT !.used = auth[r].at]
  <2>1. /\ row \in Row /\ row.secret = rows[i].secret /\ row.scopes = rows[i].scopes
        /\ row.expires = rows[i].expires /\ row.revoked = rows[i].revoked
    BY <1>2 DEF Row
  <2>2. row # None
    BY <2>1, TokenAssumption
  <2>3. rows' = rows \/ rows' = [rows EXCEPT ![i] = row]
    BY DEF Touch
  <2>4. rows \in [Ids -> Row \cup {None}] /\ bootstrap' = bootstrap
    BY DEF Touch, TokenInv, TokenTypeOK
  <2> HIDE DEF row, i
  <2>5. \A h \in Ids \cup {Boot} : LedgerForce'[h] = LedgerForce[h]
    BY <1>2, <2>1, <2>2, <2>3, <2>4 DEF LedgerForce
  <2> QED BY <2>5 DEF LedgerForce
<1>4. LedgerCall' = LedgerCall
  <2>1. d \in Auth /\ Seen(d) = Seen(auth[r])
    BY <1>1 DEF Auth, Seen
  <2>2. Decide(r, d)
    BY DEF Touch, Decide
  <2> HIDE DEF d
  <2>3. LedgerCall' = [LedgerCall EXCEPT ![r] = Seen(d)]
    BY <2>1, <2>2, CallStep
  <2>4. LedgerCall[r] = Seen(d)
    BY <1>1, <2>1, CallFacts
  <2> QED BY <2>3, <2>4 DEF LedgerCall
<1> QED BY <1>3, <1>4, SamePast DEF Touch, Ledger!vars

\* a request that ends finishes its call
LEMMA LeaveMaps ==
  ASSUME TokenInv, NEW r \in Requests, Leave(r)
  PROVE  Ledger!Finish(r) /\ UNCHANGED <<LedgerForce, LedgerPast>>
<1>1. UNCHANGED <<LedgerForce, LedgerPast>>
  BY SameForce, SamePast DEF Leave
<1>2. LedgerCall[r] # None /\ LedgerCall[r].verdict # "undecided"
  <2>1. auth[r] # None /\ auth[r].verdict # "undecided"
    BY DEF Leave, Answered, Undecided
  <2>2. LedgerCall[r] = Seen(auth[r]) /\ LedgerCall[r] # None
    BY <2>1, CallFacts
  <2> QED BY <2>1, <2>2 DEF Seen
<1>3. LedgerCall' = [LedgerCall EXCEPT ![r] = None]
  <2>1. auth'[r] = None /\ \A q \in Requests \ {r} : auth'[q] = auth[q]
    BY DEF Leave, TokenInv, TokenTypeOK
  <2>2. LedgerCall'[r] = None /\ \A q \in Requests \ {r} : LedgerCall'[q] = LedgerCall[q]
    BY <2>1 DEF LedgerCall
  <2>3. /\ LedgerCall = [q \in Requests |-> LedgerCall[q]]
        /\ LedgerCall' = [q \in Requests |-> LedgerCall'[q]]
    BY DEF LedgerCall
  <2> QED BY <2>2, <2>3
<1> QED BY <1>1, <1>2, <1>3 DEF Ledger!Finish

\* every step of the token store is a step or a stutter of the ledger
LEMMA LedgerStep ==
  TokenInv /\ UndecidedInv /\ [TokenNext]_tokenVars => [Ledger!Next]_(Ledger!vars)
<1> SUFFICES ASSUME TokenInv, UndecidedInv, [TokenNext]_tokenVars
             PROVE  Ledger!Next \/ UNCHANGED Ledger!vars
  OBVIOUS
<1>1. ASSUME NEW o \in Operators, OperatorStep(o) PROVE Ledger!Next \/ UNCHANGED Ledger!vars
  <2>1. ASSUME NEW id \in Ids, NEW scopes \in Grants, NEW lifetime \in Lifetimes,
               Generate(o, id, scopes, lifetime)
        PROVE  UNCHANGED Ledger!vars
    BY <2>1, GenerateMaps, TokenAssumption
  <2>2. ASSUME Generate(o, Default, Scopes, 0) PROVE UNCHANGED Ledger!vars
    BY <2>2, GenerateMaps, TokenAssumption
  <2>3. ASSUME Upsert(o) PROVE Ledger!Next
    BY <2>3, UpsertMaps DEF Ledger!Next
  <2> QED BY <1>1, <2>1, <2>2, <2>3 DEF OperatorStep, Rotate, Create, StartupToken
<1>2. ASSUME NEW id \in Ids, Revoke(id) PROVE Ledger!Next
  BY <1>2, RevokeMaps DEF Ledger!Next
<1>3. ASSUME NEW r \in Requests, RequestStep(r) PROVE Ledger!Next \/ UNCHANGED Ledger!vars
  BY <1>3, LookupMaps, TouchMaps DEF RequestStep, Ledger!Next
<1>4. ASSUME NEW r \in Requests, NEW secret \in 0..drawn \cup {None}, Begin(r, secret)
      PROVE  Ledger!Next
  <2>1. clock \in 0..MaxClock /\ secret \in 0..MaxSecrets \cup {None}
    BY TokenAssumption DEF TokenInv, TokenTypeOK
  <2> QED BY <1>4, <2>1, BeginMaps DEF Ledger!Next
<1>5. ASSUME NEW r \in Requests, Leave(r) PROVE Ledger!Next
  BY <1>5, LeaveMaps DEF Ledger!Next
<1>6. ASSUME TokenTick PROVE UNCHANGED Ledger!vars
  BY <1>6, SameForce, SamePast, SameCall DEF TokenTick, Ledger!vars
<1>7. ASSUME UNCHANGED tokenVars PROVE UNCHANGED Ledger!vars
  BY <1>7, SameForce, SamePast, SameCall DEF tokenVars, Ledger!vars
<1> QED BY <1>1, <1>2, <1>3, <1>4, <1>5, <1>6, <1>7 DEF TokenNext

(* Between the steps of operators and of other requests, the check of a    *)
(* token is one by the credentials in force at one moment.                 *)
THEOREM ImplementsLedgerHolds == TokenSpec => ImplementsLedger
<1>1. TokenInit => TokenInv /\ UndecidedInv /\ Ledger!Init
  BY TokenInitial, LedgerStarts DEF TokenInit, UndecidedInv, Undecided
<1>2. TokenInv /\ UndecidedInv /\ [TokenNext]_tokenVars => (TokenInv /\ UndecidedInv)'
  BY TokenStep, UndecidedStep
<1> QED BY <1>1, <1>2, LedgerStep, PTL DEF TokenSpec, ImplementsLedger, Ledger!Spec

(* The composed server does so too.                                        *)
THEOREM GateImplementsLedger == Spec => ImplementsLedger
  BY GateSteps, ImplementsLedgerHolds, PTL DEF Spec, TokenSpec
=============================================================================
