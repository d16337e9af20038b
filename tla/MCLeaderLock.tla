----------------------------- MODULE MCLeaderLock -----------------------------
(* LeaderLock on small instances. *)
EXTENDS LeaderLock
=============================================================================
