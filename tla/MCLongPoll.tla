------------------------------ MODULE MCLongPoll ------------------------------
(* LongPoll on small instances. *)
EXTENDS LongPoll
=============================================================================
