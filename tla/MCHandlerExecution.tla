------------------------- MODULE MCHandlerExecution -------------------------
(* Three calls on one permit: one call waits for the permit while another  *)
(* holds it, and takes it over from a closure that outlived its timeout,   *)
(* with a third behind it.                                                 *)
EXTENDS HandlerExecution

CONSTANTS c1, c2, c3, p1
=============================================================================
