------------------------------- MODULE MCPolicyApi -------------------------------
(* PolicyApi on small instances. *)
EXTENDS PolicyApi, TLC

CONSTANTS c1, c2, r1, r2, r3

Symmetry == Permutations({c1, c2}) \cup Permutations({r1, r2, r3})
==================================================================================
