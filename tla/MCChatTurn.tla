----------------------------- MODULE MCChatTurn -----------------------------
(* Instances of ChatTurn for TLC. *)
EXTENDS ChatTurn, TLC

Symmetry == Permutations(Run) \cup Permutations(Conv)

=============================================================================
