----------------------------- MODULE RequestGate -----------------------------
(***************************************************************************)
(* The way of a request to a memory: the limiter, the authenticator and    *)
(* the scope check of POST /mcp (internal/httpserver/server.go,            *)
(* internal/mcp/handler.go), composed of RateLimiter and TokenStore.  The  *)
(* limiter is outermost, so a guess at a secret is paid for too; the body  *)
(* is read, and the scope it needs checked, after the authentication, with *)
(* the scopes that authentication found.                                   *)
(***************************************************************************)
EXTENDS RateLimiter, TokenStore

CONSTANT Methods   \* the tools, resources and other methods requests name

VARIABLE running   \* per request: the tool or resource the registry runs for it, or None

vars == <<clock, buckets, opened, passed, lastPass,
          bootstrap, rows, drawn, issued, operator, auth, running>>

TypeOK == LimiterTypeOK /\ TokenTypeOK /\ running \in [Requests -> Methods \cup {None}]

Init == LimiterInit /\ TokenInit /\ running = [r \in Requests |-> None]

-----------------------------------------------------------------------------
\* RequiredScope of the two registries; no other method needs one
RequiredScope(method) ==
  CASE method \in {"context_get", "context_search", "context_recent"}  -> "memory:read"
    [] method \in {"context_save", "context_update", "context_pin"}    -> "memory:write"
    [] method = "context_delete"                                       -> "memory:delete"
    [] method \in {"context_stats", "pamie://memory/stats"}            -> "stats:read"
    [] OTHER                                                           -> None

\* what reaches the memory service
MemoryMethods ==
  {"context_get", "context_search", "context_recent", "context_save", "context_update",
   "context_pin", "context_delete", "context_stats", "pamie://memory/stats"}

\* ScopeSet.Has
Has(scopes, scope) == scope = None \/ scopes \cap {"all", "memory:admin", scope} # {}

\* the limiter lets the request through to the authenticator
Arrive(r, c, secret) ==
  /\ Allow(c)
  /\ Begin(r, secret)
  /\ UNCHANGED running

\* 429; nothing behind the limiter is called
TurnAway(c) == Refuse(c) /\ UNCHANGED <<bootstrap, rows, drawn, issued, operator, auth, running>>

\* dispatch: the scope check, then the registry
Dispatch(r, method) ==
  /\ Granted(r) /\ Answered(r) /\ running[r] = None
  /\ method \in MemoryMethods
  /\ Has(auth[r].scopes, RequiredScope(method))
  /\ running' = [running EXCEPT ![r] = method]
  /\ UNCHANGED <<clock, buckets, opened, passed, lastPass,
                 bootstrap, rows, drawn, issued, operator, auth>>

(* 401 or 503; forbidden, unknown, or a method without effect; or the      *)
(* answer of the registry.                                                 *)
Respond(r) ==
  /\ Leave(r)
  /\ running' = [running EXCEPT ![r] = None]
  /\ UNCHANGED <<buckets, opened, passed, lastPass>>

Next ==
  \/ \E c \in Clients :
       \/ TurnAway(c)
       \/ \E r \in Requests, secret \in 0..drawn \cup {None} : Arrive(r, c, secret)
  \/ \E r \in Requests :
       \/ \E method \in Methods : Dispatch(r, method)
       \/ Respond(r)
       \/ RequestStep(r) /\ UNCHANGED <<buckets, opened, passed, lastPass, running>>
  \/ /\ \/ \E o \in Operators : OperatorStep(o)
        \/ \E id \in Ids : Revoke(id)
     /\ UNCHANGED <<buckets, opened, passed, lastPass, running>>
  \/ LimiterTick /\ TokenTick /\ UNCHANGED running
  \/ Observe /\ UNCHANGED <<bootstrap, rows, drawn, issued, operator, auth, running>>

Spec == Init /\ [][Next]_vars

-----------------------------------------------------------------------------
\* what a secret was given when it was made
GivenTo(secret) == IF secret = BootSecret THEN BootGrant ELSE issued[secret].scopes

(* Only what the scopes of the presented secret cover reaches a memory,    *)
(* and never for a secret that was spent or expired when the request came: *)
(* what one step of the request found is still good for the later ones     *)
(* (handler.go:213-227, 269-283; auth.go:257-273).                         *)
RunsWithinGrant ==
  \A r \in Requests : running[r] # None =>
    /\ Granted(r) /\ ~auth[r].spent
    /\ Has(GivenTo(auth[r].secret), RequiredScope(running[r]))
    /\ auth[r].secret # BootSecret => Unexpired(issued[auth[r].secret].expires, auth[r].at)
=============================================================================
