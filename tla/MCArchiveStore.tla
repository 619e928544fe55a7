--------------------------- MODULE MCArchiveStore ---------------------------
(* ArchiveStore on a small instance. *)
EXTENDS ArchiveStore, TLC

Symmetry == Permutations(Objects) \cup Permutations(Rows)
                \cup Permutations(Uploads) \cup Permutations(Sweeps)

=============================================================================
