------------------------------ MODULE MCViewer ------------------------------
(* The viewer on a small instance: an ordinary visit, one that asks for the  *)
(* stream, an LMS launch with a stray draft, a preview, and a broken link.   *)
EXTENDS Viewer

QueryOf(lti, draft, stream) == [lti |-> lti, draft |-> draft, stream |-> stream]

MCQueries ==
    {QueryOf(FALSE, "absent", TRUE), QueryOf(TRUE, "hash", FALSE),
     QueryOf(FALSE, "hash", TRUE), QueryOf(FALSE, "malformed", FALSE)}

=============================================================================
