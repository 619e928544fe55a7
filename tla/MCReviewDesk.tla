---------------------------- MODULE MCReviewDesk ----------------------------
(* The publishing core behind its moderation queue on a small instance. *)
EXTENDS ReviewDesk, TLC

(* Authors and request slots are interchangeable (HandUrls and              *)
(* GradedArchives tell archives apart, so those stay out of the symmetry). *)
Symmetry == Permutations(Authors) \cup Permutations(Requests)

=============================================================================
