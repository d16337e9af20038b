--------------------------- MODULE MCServerRuntime ---------------------------
(* ServerRuntime on small instances. *)
EXTENDS ServerRuntime
=============================================================================
