------------------------------- MODULE MCBackup -------------------------------
(***************************************************************************)
(* Values of Backup for TLC.                                               *)
(***************************************************************************)
EXTENDS Backup, TLC

Alike == Permutations(Jobs)
=============================================================================
