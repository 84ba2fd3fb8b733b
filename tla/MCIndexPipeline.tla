-------------------------- MODULE MCIndexPipeline --------------------------
(* Instances of IndexPipeline for TLC. *)
EXTENDS IndexPipeline, TLC

Symmetry == Permutations(Index) \cup Permutations(Source)

=============================================================================
