-------------------------- MODULE MCEmbeddingIndex --------------------------
(***************************************************************************)
(* Values of EmbeddingIndex for TLC.                                       *)
(***************************************************************************)
EXTENDS EmbeddingIndex, TLC

(* A title and no keywords, then keywords and no title: what the two       *)
(* queries of the backfill read may be both, or neither.                   *)
MCTornDocuments ==
  {[title |-> t, keywords |-> Empty] : t \in Titles}
    \cup {[title |-> Empty, keywords |-> k] : k \in Keywords}

MCAllDocuments == Doc

Symmetry == Permutations(Slots)

=============================================================================
