------------------------- MODULE MCQuestionGrouping -------------------------
(* Instances of QuestionGrouping for TLC. *)
EXTENDS QuestionGrouping, TLC

Symmetry == Permutations(Canon)

=============================================================================
