------------------------------- MODULE MCDaemon -------------------------------
(***************************************************************************)
(* Two servers, so that one can be given up on, stopped or dead while the  *)
(* other is started; two directories, of which one is the default, and two *)
(* addresses; two migrations, of which the database has none, one or both, *)
(* under this program's names or another's.  The servers are alike.        *)
(***************************************************************************)
EXTENDS Daemon, TLC

Alike     == Permutations(Pids)
MCOpeners == Pids \cup {Operator}
=============================================================================
