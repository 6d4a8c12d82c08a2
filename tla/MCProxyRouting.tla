---------------------------- MODULE MCProxyRouting ----------------------------
(* Two reloads of two providers: the second configuration reverses the route, *)
(* has no client for p1 and probes p2 instead of p1, the third has forgotten  *)
(* p2 and has no route for the model.                                         *)
EXTENDS ProxyRouting

CONSTANTS p1, p2

TwoReloads == <<
    [providers |-> {p1, p2}, clients |-> {p1, p2}, probed |-> {p1},
     route |-> <<p1, p2>>],
    [providers |-> {p1, p2}, clients |-> {p2}, probed |-> {p2},
     route |-> <<p2, p1>>],
    [providers |-> {p1}, clients |-> {p1}, probed |-> {p1},
     route |-> NoRoute] >>
===============================================================================
