---------------------------- MODULE MCCategories ----------------------------
(* Categories on a small instance; without symmetry, which liveness rules out. *)
EXTENDS Categories

=============================================================================
