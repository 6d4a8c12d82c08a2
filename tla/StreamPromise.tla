---------------------------- MODULE StreamPromise -----------------------------
(***************************************************************************)
(* What the client of a streamed answer is promised, without goroutines or *)
(* a channel: it gets the chunks the upstream has made, one after another, *)
(* and is told once how the answer ended, when it has all of them: done if *)
(* the upstream said so, an error if it failed.  Nothing at all is told    *)
(* only to a client that has hung up or whose time has run out.            *)
(*                                                                         *)
(* An upstream that closes its body before it has said "[DONE]" is told as *)
(* done, too.  The specification of streaming wants an error for it, but   *)
(* the code makes no difference between the two ends (stream.go:76, 101).  *)
(***************************************************************************)
EXTENDS Naturals

VARIABLES made,     \* number of chunks the upstream has made so far
          source,   \* the upstream: "open", "finished" with "[DONE]",
                  \* "closedEarly" without it, or "failed"
          got,      \* number of chunks the client has
          told,     \* the client: "streaming", "done", "error" or "silent"
          cut       \* what interrupted it: "hungUp", "timedOut"

promiseVars == <<made, source, got, told, cut>>

Init ==
    /\ made = 0 /\ got = 0
    /\ source = "open" /\ told = "streaming"
    /\ cut = {}

Make ==
    /\ source = "open"
    /\ made' = made + 1
    /\ UNCHANGED <<source, got, told, cut>>

End ==
    /\ source = "open"
    /\ source' \in {"finished", "closedEarly", "failed"}
    /\ UNCHANGED <<made, got, told, cut>>

Deliver ==
    /\ told = "streaming"
    /\ got < made
    /\ got' = got + 1
    /\ UNCHANGED <<made, source, told, cut>>

Tell ==
    /\ told = "streaming"
    /\ got = made
    /\ \/ source \in {"finished", "closedEarly"} /\ told' = "done"
       \/ source = "failed" /\ told' = "error"
    /\ UNCHANGED <<made, source, got, cut>>

FallSilent ==
    /\ told = "streaming"
    /\ cut # {}
    /\ told' = "silent"
    /\ UNCHANGED <<made, source, got, cut>>

\* A client that has been told the end has nothing to hang up on.
Interrupt ==
    /\ \/ told = "streaming" /\ cut' = cut \union {"hungUp"}
       \/ cut' = cut \union {"timedOut"}
    /\ UNCHANGED <<made, source, got, told>>

Next == Make \/ End \/ Deliver \/ Tell \/ FallSilent \/ Interrupt

Spec == Init /\ [][Next]_promiseVars
===============================================================================
