------------------------------ MODULE MCLifecycle ------------------------------
(* Lifecycle with two requests in flight. *)
EXTENDS Lifecycle
===============================================================================
