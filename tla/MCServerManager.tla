---------------------------- MODULE MCServerManager ----------------------------
(* ServerManager on a few launches and two sessions of the app. *)
EXTENDS ServerManager
=============================================================================
