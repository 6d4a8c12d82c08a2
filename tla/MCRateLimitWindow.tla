-------------------------- MODULE MCRateLimitWindow ---------------------------
(* The rate limiter for TLC.                                                 *)
EXTENDS RateLimitWindow, TLC

Interchangeable == Permutations(Requests)
===============================================================================
