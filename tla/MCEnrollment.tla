---------------------------- MODULE MCEnrollment ----------------------------
(* Enrollment on small instances. *)
EXTENDS Enrollment
=============================================================================
