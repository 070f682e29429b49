------------------------------- MODULE MCKeysApi -------------------------------
(* KeysApi on small instances. *)
EXTENDS KeysApi, TLC

CONSTANTS u1, u2

MCNameOf == (u1 :> "alice") @@ (u2 :> "")
===============================================================================
