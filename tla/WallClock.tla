------------------------------ MODULE WallClock ------------------------------
(***************************************************************************)
(* The time a process reads (time.Now), shared by the parts of the server  *)
(* that read it.                                                           *)
(***************************************************************************)
EXTENDS Naturals

CONSTANT MaxClock   \* bound: the last tick

VARIABLE clock

Tick == clock < MaxClock /\ clock' = clock + 1

=============================================================================
