-------------------------- MODULE LifecycleSchedule --------------------------
(***************************************************************************)
(* What ARCHITECTURE.md ("Lifecycle Job") and docs/tiering-and-retention.md*)
(* ("Scheduled Worker") promise of the runs of a server process: they      *)
(* never overlap, and shutdown waits for the active one, so that none is   *)
(* active when the database is closed and none begins after.               *)
(***************************************************************************)
CONSTANT Runs   \* the identities of runs

VARIABLES
  active,   \* the runs in progress
  closed    \* the process has closed its database

Init == active = {} /\ closed = FALSE

Begin ==
  /\ active = {} /\ ~closed
  /\ \E r \in Runs : active' = {r}
  /\ UNCHANGED closed

End   == active' = {} /\ UNCHANGED closed
Close == active = {} /\ closed' = TRUE /\ UNCHANGED active
Next  == Begin \/ End \/ Close

Spec == Init /\ [][Next]_<<active, closed>>

=============================================================================
