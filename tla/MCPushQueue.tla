----------------------------- MODULE MCPushQueue -----------------------------
(* PushQueue on small instances. *)
EXTENDS PushQueue
=============================================================================
