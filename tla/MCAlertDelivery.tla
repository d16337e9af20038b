--------------------------- MODULE MCAlertDelivery ---------------------------
(* Two rows of one webhook: one batch can hold both, and the second waits for
   the first. *)
EXTENDS AlertDelivery
OneHook == <<"hookA", "hookA">>
Servers == [hookA |-> "A", push1 |-> "A"]
=============================================================================
