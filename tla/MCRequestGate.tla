---------------------------- MODULE MCRequestGate ----------------------------
(***************************************************************************)
(* One client and one request at a time against one operator process, two  *)
(* token ids and two secrets.  With a burst of one and three quarters of a *)
(* token in a tick, a client is refused, and waits, with a part of a       *)
(* token; a lifetime of one tick expires while requests go on.             *)
(***************************************************************************)
EXTENDS RequestGate

MCScopes  == {"memory:read", "memory:admin"}
MCGrants  == {{"memory:read"}, {"memory:admin"}}
MCBoot    == {"memory:read"}
MCMethods == {"context_get", "context_delete"}
=============================================================================
