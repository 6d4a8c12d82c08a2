---------------------------- MODULE MCVirtualKeys -----------------------------
(* Small instances of VirtualKeys for TLC. *)
EXTENDS VirtualKeys
===============================================================================
