---------------------------- MODULE MCLtiLaunch ----------------------------
(* The LTI tool on a small instance. *)
EXTENDS LtiLaunch

=============================================================================
