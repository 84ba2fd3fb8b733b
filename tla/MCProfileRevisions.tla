------------------------- MODULE MCProfileRevisions -------------------------
(* An instance of ProfileRevisions for TLC. *)
EXTENDS ProfileRevisions, TLC

CONSTANTS r1, r2, r3, s1, s2, c1, t1

MCSymmetry == Permutations({r1, r2, r3})
=============================================================================
