------------------------ MODULE MCDocumentIngestion ------------------------
(* Instances of DocumentIngestion for TLC. *)
EXTENDS DocumentIngestion, TLC

\* Runs, console names and bodies are interchangeable.
Symmetry == Permutations(Run) \cup Permutations(Upload) \cup Permutations(Content)

=============================================================================
