----------------------------- MODULE TokenLedger -----------------------------
(***************************************************************************)
(* What the Bearer tokens promise (docs/auth-and-security.md,              *)
(* docs/threat-model.md): a holder has one credential at most; issuing a   *)
(* new one or revoking it ends the old one for good; and a request is      *)
(* decided at one moment, by the credentials then in force.                *)
(***************************************************************************)
EXTENDS Naturals

CONSTANTS
  Holders,    \* token ids
  Requests,   \* requests being served
  Secrets,    \* what a request may present
  Times,      \* when it may begin
  None        \* no credential, no request, no secret, no expiry

VARIABLES
  force,   \* per holder: its credential, or None
  past,    \* secrets that are or have been in force
  call     \* per request: what it presented and when, and its verdict, or None

vars == <<force, past, call>>

InForce(at) ==
  {h \in Holders : force[h] # None /\ (force[h].expires = None \/ force[h].expires > at)}

Granting(attempt) == {h \in InForce(attempt.at) : force[h].secret = attempt.secret}

(* What the credentials in force say of an attempt; a failed lookup may    *)
(* answer that there are none.                                             *)
Says(attempt, decided) ==
  \/ \E h \in Granting(attempt) :
       decided = [secret |-> attempt.secret, at |-> attempt.at, verdict |-> "granted",
                  id |-> h, scopes |-> force[h].scopes]
  \/ /\ Granting(attempt) = {} /\ InForce(attempt.at) # {}
     /\ decided = [attempt EXCEPT !.verdict = "unauthorized"]
  \/ decided = [attempt EXCEPT !.verdict = "unconfigured"]

Init ==
  /\ \A h, i \in Holders :
       force[h] # None /\ force[i] # None /\ force[h].secret = force[i].secret => h = i
  /\ past = {force[h].secret : h \in {i \in Holders : force[i] # None}}
  /\ call = [r \in Requests |-> None]

Issue(h, credential) ==
  /\ credential.secret \notin past
  /\ force' = [force EXCEPT ![h] = credential]
  /\ past' = past \cup {credential.secret}
  /\ UNCHANGED call

Retire(h) ==
  /\ force[h] # None
  /\ force' = [force EXCEPT ![h] = None]
  /\ UNCHANGED <<past, call>>

\* a request may be decided as it arrives
Ask(r, secret, at) ==
  LET attempt == [secret |-> secret, at |-> at, verdict |-> "undecided",
                  id |-> None, scopes |-> {}]
  IN  /\ call[r] = None
      /\ call'[r] = attempt \/ Says(attempt, call'[r])
      /\ call' = [call EXCEPT ![r] = call'[r]]
      /\ UNCHANGED <<force, past>>

Decide(r) ==
  /\ call[r] # None /\ call[r].verdict = "undecided"
  /\ Says(call[r], call'[r])
  /\ call' = [call EXCEPT ![r] = call'[r]]
  /\ UNCHANGED <<force, past>>

Finish(r) ==
  /\ call[r] # None /\ call[r].verdict # "undecided"
  /\ call' = [call EXCEPT ![r] = None]
  /\ UNCHANGED <<force, past>>

Next ==
  \/ \E h \in Holders : Retire(h) \/ (force'[h] # None /\ Issue(h, force'[h]))
  \/ \E r \in Requests :
       \/ \E secret \in Secrets \cup {None}, at \in Times : Ask(r, secret, at)
       \/ Decide(r) \/ Finish(r)

Spec == Init /\ [][Next]_vars
=============================================================================
