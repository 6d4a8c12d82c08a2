---------------------------- MODULE MCEgressClient ----------------------------
(* Small instances of EgressClient for TLC. *)
EXTENDS EgressClient
===============================================================================
