------------------------------ MODULE MCDevicesApi ------------------------------
(* DevicesApi on small instances. *)
EXTENDS DevicesApi
================================================================================
