------------------------------ MODULE MCKeyExpiry ------------------------------
(* KeyExpiry with integers of seven bits and seconds of four nanoseconds. *)
EXTENDS KeyExpiry
===============================================================================
