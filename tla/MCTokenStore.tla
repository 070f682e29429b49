----------------------------- MODULE MCTokenStore -----------------------------
(* TokenStore with two replicas, one token and two request goroutines. *)
EXTENDS TokenStore
===============================================================================
