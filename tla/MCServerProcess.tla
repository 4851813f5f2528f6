--------------------------- MODULE MCServerProcess ---------------------------
(***************************************************************************)
(* ServerProcess for TLC: two slots, so that a run may begin while the     *)
(* goroutine of the one before is still leaving, and two requests.         *)
(***************************************************************************)
EXTENDS ServerProcess

MCRuns     == {"run1", "run2"}
MCRequests == {"request1", "request2"}
=============================================================================
