------------------------------ MODULE TokenStore ------------------------------
(***************************************************************************)
(* The Bearer tokens of /mcp: the table auth_tokens                        *)
(* (internal/db/token_repository.go), the operator commands that write it  *)
(* from processes of their own (cmd/pamie/token_commands.go, and `pamie    *)
(* start', which makes the first token), and the authentication of a       *)
(* request (internal/auth/auth.go), which lists the active tokens, looks   *)
(* for the presented secret among them and records its use: three steps    *)
(* and no transaction.                                                     *)
(*                                                                         *)
(* Secrets are generated with 32 random bytes: each is new, here the next  *)
(* number, and a salted hash matches its own secret only.                  *)
(***************************************************************************)
EXTENDS WallClock

CONSTANTS
  Ids,         \* token ids of the table
  Default,     \* the id `pamie start' and `pamie token' use
  Scopes,      \* the scope names
  Grants,      \* the scope sets operators ask for
  Lifetimes,   \* --expires-in, 0 for none
  BootGrant,   \* PAMIE_TOKEN_SCOPES
  Operators,   \* bound: operator commands running at the same time
  Requests,    \* bound: requests being served at the same time
  MaxSecrets,  \* bound: secrets generated
  None         \* no row, no command, no request, no secret, no expiry

BootSecret == 0    \* PAMIE_TOKEN; it has no row
Boot == "boot"     \* its id

Row     == [secret : Nat, scopes : SUBSET Scopes, expires : Nat \cup {None},
            revoked : BOOLEAN, used : Nat \cup {None}]
Pending == [id : Ids, secret : Nat, scopes : SUBSET Scopes, expires : Nat \cup {None}]
Verdicts == {"undecided", "granted", "unauthorized", "unconfigured"}
Auth    == [secret : Nat \cup {None}, at : Nat, spent : BOOLEAN, verdict : Verdicts,
            id : Ids \cup {Boot, None}, scopes : SUBSET Scopes, touched : BOOLEAN]

ASSUME TokenAssumption ==
  /\ Default \in Ids /\ Boot \notin Ids
  /\ Grants \subseteq SUBSET Scopes /\ BootGrant \in SUBSET Scopes
  /\ Lifetimes \subseteq Nat
  /\ MaxSecrets \in Nat /\ MaxClock \in Nat
  /\ None \notin Ids \cup {Boot} \cup Nat \cup Row \cup Pending \cup Auth

VARIABLES
  bootstrap,   \* the server was started with a bootstrap token
  rows,        \* auth_tokens, or None
  drawn,       \* secrets generated so far
  issued,      \* history: what each secret was generated for
  operator,    \* per operator process: the row it is about to store, or None
  auth         \* per request: its authentication, or None

tokenVars == <<clock, bootstrap, rows, drawn, issued, operator, auth>>

TokenTypeOK ==
  /\ clock \in 0..MaxClock
  /\ bootstrap \in BOOLEAN
  /\ rows \in [Ids -> Row \cup {None}]
  /\ drawn \in 0..MaxSecrets
  /\ issued \in [1..drawn -> Pending]
  /\ operator \in [Operators -> Pending \cup {None}]
  /\ auth \in [Requests -> Auth \cup {None}]

TokenInit ==
  /\ clock = 0
  /\ bootstrap \in BOOLEAN
  /\ rows = [i \in Ids |-> None]
  /\ drawn = 0
  /\ issued = [s \in {} |-> None]
  /\ operator = [o \in Operators |-> None]
  /\ auth = [r \in Requests |-> None]

-----------------------------------------------------------------------------
(* ListActive and CountActive: not revoked, and no expiry before `at'.     *)
Unexpired(expires, at) == expires = None \/ expires > at
(* Mutant: revoked tokens are listed too.                                  *)
ActiveOrRevoked(at) == {i \in Ids : rows[i] # None /\ Unexpired(rows[i].expires, at)}

Active(at) ==
  {i \in Ids : rows[i] # None /\ ~rows[i].revoked /\ Unexpired(rows[i].expires, at)}

\* the row rotateStoredToken has generated and is about to upsert
Generate(o, id, scopes, lifetime) ==
  LET pending == [id |-> id, secret |-> drawn + 1, scopes |-> scopes,
                  expires |-> IF lifetime = 0 THEN None ELSE clock + lifetime]
  IN  /\ operator[o] = None /\ drawn < MaxSecrets
      /\ drawn' = drawn + 1
      /\ issued' = [s \in 1..(drawn + 1) |-> IF s = drawn + 1 THEN pending ELSE issued[s]]
      /\ operator' = [operator EXCEPT ![o] = pending]
      /\ UNCHANGED <<clock, bootstrap, rows, auth>>

\* token rotate
Rotate(o, id, scopes, lifetime) == Generate(o, id, scopes, lifetime)

\* token create: the id must not be in the list it reads
Create(o, id, scopes, lifetime) == rows[id] = None /\ Generate(o, id, scopes, lifetime)

\* ensureStartupToken, unless it finds an active token
StartupToken(o) == ~bootstrap /\ Active(clock) = {} /\ Generate(o, Default, Scopes, 0)

(* Mutant: the conflict clause leaves out revoked_at.                      *)
UpsertStaysRevoked(o) ==
  /\ operator[o] # None
  /\ rows' = [rows EXCEPT ![operator[o].id] =
                [secret |-> operator[o].secret, scopes |-> operator[o].scopes,
                 expires |-> operator[o].expires,
                 revoked |-> @ # None /\ @.revoked, used |-> None]]
  /\ operator' = [operator EXCEPT ![o] = None]
  /\ UNCHANGED <<clock, bootstrap, drawn, issued, auth>>

(* Mutant: the conflict clause leaves out scopes.                          *)
UpsertKeepsScopes(o) ==
  /\ operator[o] # None
  /\ rows' = [rows EXCEPT ![operator[o].id] =
                [secret |-> operator[o].secret,
                 scopes |-> IF @ = None THEN operator[o].scopes ELSE @.scopes,
                 expires |-> operator[o].expires, revoked |-> FALSE, used |-> None]]
  /\ operator' = [operator EXCEPT ![o] = None]
  /\ UNCHANGED <<clock, bootstrap, drawn, issued, auth>>

\* Upsert: a new row, or every column of the old one
Upsert(o) ==
  /\ operator[o] # None
  /\ rows' = [rows EXCEPT ![operator[o].id] =
                [secret |-> operator[o].secret, scopes |-> operator[o].scopes,
                 expires |-> operator[o].expires, revoked |-> FALSE, used |-> None]]
  /\ operator' = [operator EXCEPT ![o] = None]
  /\ UNCHANGED <<clock, bootstrap, drawn, issued, auth>>

\* token revoke
Revoke(id) ==
  /\ rows[id] # None /\ ~rows[id].revoked
  /\ rows' = [rows EXCEPT ![id].revoked = TRUE]
  /\ UNCHANGED <<clock, bootstrap, drawn, issued, operator, auth>>

-----------------------------------------------------------------------------
Undecided(r) == auth[r] # None /\ auth[r].verdict = "undecided"
Granted(r)   == auth[r] # None /\ auth[r].verdict = "granted"

\* generated and not about to be stored: it is or was the secret of a row
Stored(s) == \A o \in Operators : operator[o] # None => operator[o].secret # s

\* a secret no row in force has any more
Spent(secret) ==
  /\ secret \in 1..drawn /\ Stored(secret)
  /\ \A i \in Ids : rows[i] # None /\ ~rows[i].revoked => rows[i].secret # secret

Refused(attempt, verdict) == [attempt EXCEPT !.verdict = verdict]
Accepted(attempt, id, scopes) ==
  [attempt EXCEPT !.verdict = "granted", !.id = id, !.scopes = scopes]
Decide(r, decided) == auth' = [auth EXCEPT ![r] = decided]

(* AuthenticateRequest begins: it reads the clock; with a bootstrap token, *)
(* a missing header and that token are decided before any row is read.     *)
Begin(r, secret) ==
  LET attempt == [secret |-> secret, at |-> clock, spent |-> Spent(secret),
                  verdict |-> "undecided", id |-> None, scopes |-> {}, touched |-> FALSE]
  IN  /\ auth[r] = None
      /\ Decide(r, IF bootstrap /\ secret = None THEN Refused(attempt, "unauthorized")
                   ELSE IF bootstrap /\ secret = BootSecret
                   THEN Accepted([attempt EXCEPT !.touched = TRUE], Boot, BootGrant)
                   ELSE attempt)
      /\ UNCHANGED <<clock, bootstrap, rows, drawn, issued, operator>>

Match(r) == {i \in Active(auth[r].at) : rows[i].secret = auth[r].secret}

\* ActiveTokens, and the search for the secret in what it returned
Lookup(r) ==
  /\ Undecided(r)
  /\ \/ \E i \in Match(r) : Decide(r, Accepted(auth[r], i, rows[i].scopes))
     \/ /\ Match(r) = {} /\ (bootstrap \/ Active(auth[r].at) # {})
        /\ Decide(r, Refused(auth[r], "unauthorized"))
     \/ /\ Active(auth[r].at) = {} /\ ~bootstrap
        /\ Decide(r, Refused(auth[r], "unconfigured"))
  /\ UNCHANGED <<clock, bootstrap, rows, drawn, issued, operator>>

\* ActiveTokens fails
LookupFails(r) ==
  /\ Undecided(r)
  /\ Decide(r, Refused(auth[r], "unconfigured"))
  /\ UNCHANGED <<clock, bootstrap, rows, drawn, issued, operator>>

(* RecordTokenUsed: by id, whatever secret the row has by now, and unless  *)
(* it is revoked; an error is ignored.                                     *)
Touch(r, fails) ==
  /\ Granted(r) /\ ~auth[r].touched
  /\ LET i == auth[r].id
     IN  rows' = IF fails \/ rows[i].revoked THEN rows
                 ELSE [rows EXCEPT ![i].used = auth[r].at]
  /\ auth' = [auth EXCEPT ![r].touched = TRUE]
  /\ UNCHANGED <<clock, bootstrap, drawn, issued, operator>>

Answered(r) ==
  auth[r] # None /\ ~Undecided(r) /\ (Granted(r) => auth[r].touched)

\* the handler behind the authenticator has returned
Leave(r) ==
  /\ Answered(r)
  /\ auth' = [auth EXCEPT ![r] = None]
  /\ UNCHANGED <<clock, bootstrap, rows, drawn, issued, operator>>

TokenTick == Tick /\ UNCHANGED <<bootstrap, rows, drawn, issued, operator, auth>>

OperatorStep(o) ==
  \/ \E id \in Ids, scopes \in Grants, lifetime \in Lifetimes :
       Rotate(o, id, scopes, lifetime) \/ Create(o, id, scopes, lifetime)
  \/ StartupToken(o)
  \/ Upsert(o)

RequestStep(r) ==
  Lookup(r) \/ LookupFails(r) \/ \E fails \in BOOLEAN : Touch(r, fails)

TokenNext ==
  \/ \E o \in Operators : OperatorStep(o)
  \/ \E id \in Ids : Revoke(id)
  \/ \E r \in Requests : \/ RequestStep(r) \/ Leave(r)
                         \/ \E secret \in 0..drawn \cup {None} : Begin(r, secret)
  \/ TokenTick

TokenSpec == TokenInit /\ [][TokenNext]_tokenVars

-----------------------------------------------------------------------------
(* A secret that had been replaced or revoked when a request began is not  *)
(* accepted from it, however commands, other requests and the recording of *)
(* their use overlap (token_repository.go:28-35, 82-86, 155-158).          *)
SpentSecretsAreRefused == \A r \in Requests : Granted(r) => ~auth[r].spent

Credential == [secret : Nat, scopes : SUBSET Scopes, expires : Nat \cup {None}]
Attempt    == [secret : Nat \cup {None}, at : Nat, verdict : Verdicts,
               id : Ids \cup {Boot, None}, scopes : SUBSET Scopes]
ASSUME LedgerAssumption == None \notin Credential \cup Attempt

\* the credentials in force, the secrets that are or were, and the verdicts
LedgerForce ==
  [i \in Ids \cup {Boot} |->
     IF i = Boot
     THEN IF bootstrap THEN [secret |-> BootSecret, scopes |-> BootGrant, expires |-> None]
                       ELSE None
     ELSE IF rows[i] = None \/ rows[i].revoked THEN None
     ELSE [secret |-> rows[i].secret, scopes |-> rows[i].scopes, expires |-> rows[i].expires]]
LedgerPast == {s \in 0..drawn : IF s = BootSecret THEN bootstrap ELSE Stored(s)}
LedgerCall ==
  [r \in Requests |->
     IF auth[r] = None THEN None
     ELSE [secret |-> auth[r].secret, at |-> auth[r].at, verdict |-> auth[r].verdict,
           id |-> auth[r].id, scopes |-> auth[r].scopes]]

Ledger == INSTANCE TokenLedger WITH
  Holders <- Ids \cup {Boot}, Secrets <- 0..MaxSecrets, Times <- 0..MaxClock,
  force <- LedgerForce, past <- LedgerPast, call <- LedgerCall

(* The three steps of an authentication, between the steps of operators    *)
(* and other requests, implement the check at one moment by the credentials*)
(* then in force (auth.go:217-282).                                        *)
ImplementsLedger == Ledger!Spec
=============================================================================
