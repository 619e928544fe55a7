--------------------------- MODULE MCGradePassback ---------------------------
(* GradePassback on a small instance. *)
EXTENDS GradePassback

=============================================================================
