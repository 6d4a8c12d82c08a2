----------------------------- MODULE MCSSEStream ------------------------------
(* The stream for TLC: a channel of 2 (10 in the code), overfilled by 4.     *)
EXTENDS SSEStream
===============================================================================
