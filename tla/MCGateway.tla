------------------------------- MODULE MCGateway -------------------------------
(* Gateway with texts that are empty, blank, and two that are neither, and two *)
(* tokens: the client's and a stranger's.                                      *)
EXTENDS Gateway
================================================================================
