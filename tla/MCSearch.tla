------------------------------- MODULE MCSearch -------------------------------
(***************************************************************************)
(* Instance of Search for TLC: two memories and a leftover row compete for *)
(* a page of one hit; a shallow search has one candidate per query, a      *)
(* standard one two.                                                       *)
(***************************************************************************)
EXTENDS Search, TLC

Alike == Permutations(Memories)
=============================================================================
