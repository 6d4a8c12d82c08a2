------------------------------- MODULE SSEStream -------------------------------
(***************************************************************************)
(* One streamed answer, once its headers are in: the producer goroutine of *)
(* Client.streamSSE scans the upstream body into a channel, a watcher      *)
(* goroutine closes the body when the context is done, and the handler     *)
(* (streamFromProvider) writes what it receives to the client of the       *)
(* proxy.  The context of the producer is done when that client hangs up,  *)
(* when the provider's timeout runs out, and, because the server cancels   *)
(* it, some time after the handler has returned.                           *)
(*                                                                         *)
(* Data chunks are numbered in the order they are read.  Lines that are    *)
(* not data change nothing and are left out.                               *)
(***************************************************************************)
EXTENDS Naturals, Sequences

CONSTANTS Buffer,   \* capacity of the channel
          MaxChunks \* the most data chunks the upstream sends

ASSUME StreamAssumption == Buffer \in Nat \ {0} /\ MaxChunks \in Nat

VARIABLES ctx,      \* causes for which the producer's context is done
          body,     \* "open", or "closed" by watcher or producer
          chan,     \* the chunks in the channel
          closed,   \* whether the channel is closed
          read,     \* number of data chunks read so far
          prod,     \* producer: what it does next
          watch,    \* watcher: "waiting" or "ended"
          cons,     \* handler: "streaming" or "ended"
          written,  \* number of data chunks written to the client
          last,     \* what was written after them: nothing, or how it ended
          upstream  \* history: how the upstream body ended

vars == <<ctx, body, chan, closed, read, prod, watch, cons, written, last, upstream>>
producerVars == <<read, prod, upstream>>
handlerVars == <<cons, written, last>>

Causes == {"hungUp", "timedOut", "returned"}
Data(n) == [kind |-> "data", n |-> n]
Done == [kind |-> "done"]
Err == [kind |-> "error"]
CtxDone == ctx # {}

Init ==
    /\ ctx = {}
    /\ body = "open"
    /\ chan = <<>>
    /\ closed = FALSE
    /\ read = 0
    /\ prod = "scan"
    /\ watch = "waiting"
    /\ cons = "streaming"
    /\ written = 0
    /\ last = "none"
    /\ upstream = "open"

(***************************************************************************)
(* The producer.  Scan returns buffered lines even after the body has been *)
(* closed; then, or when the upstream breaks off, it reports an error.     *)
(***************************************************************************)
ScanData ==
    /\ prod = "scan"
    /\ read < MaxChunks
    /\ read' = read + 1
    /\ prod' = "sendData"
    /\ UNCHANGED <<ctx, body, chan, closed, watch, handlerVars, upstream>>

\* A line "[DONE]".
ScanDone ==
    /\ prod = "scan"
    /\ prod' = "sendDone"
    /\ upstream' = "finished"
    /\ UNCHANGED <<ctx, body, chan, closed, read, watch, handlerVars>>

\* The body ends before any "[DONE]" and Scan has no error to report.
ScanEnd ==
    /\ prod = "scan"
    /\ prod' = "sendDone"
    /\ upstream' = "closedEarly"
    /\ UNCHANGED <<ctx, body, chan, closed, read, watch, handlerVars>>

ScanError ==
    /\ prod = "scan"
    /\ prod' = "sendError"
    /\ upstream' = IF body = "open" THEN "broke" ELSE "closed"
    /\ UNCHANGED <<ctx, body, chan, closed, read, watch, handlerVars>>

Send(chunk, next) ==
    /\ Len(chan) < Buffer
    /\ chan' = Append(chan, chunk)
    /\ prod' = next

\* select: when both are possible either may be taken.
SendData ==
    /\ prod = "sendData"
    /\ \/ Send(Data(read), "scan")
       \/ CtxDone /\ prod' = "exit" /\ UNCHANGED chan
    /\ UNCHANGED <<ctx, body, closed, read, watch, handlerVars, upstream>>

SendError ==
    /\ prod = "sendError"
    /\ \/ Send(Err, "exit")
       \/ CtxDone /\ prod' = "exit" /\ UNCHANGED chan
    /\ UNCHANGED <<ctx, body, closed, read, watch, handlerVars, upstream>>

\* Mutant of SendDone: the last chunk does not wait for room.
SendDoneAnyway ==
    /\ prod = "sendDone"
    /\ chan' = Append(chan, Done)
    /\ prod' = "exit"
    /\ UNCHANGED <<ctx, body, closed, read, watch, handlerVars, upstream>>

\* This send does not look at the context.
SendDone ==
    /\ prod = "sendDone"
    /\ Send(Done, "exit")
    /\ UNCHANGED <<ctx, body, closed, read, watch, handlerVars, upstream>>

\* The deferred calls: close(done), close(ch), Body.Close, cancel.
Exit ==
    /\ prod = "exit"
    /\ prod' = "ended"
    /\ watch' = "ended"
    /\ closed' = TRUE
    /\ body' = "closed"
    /\ UNCHANGED <<ctx, chan, read, upstream, handlerVars>>

\* Mutant of Watch: the watcher ends without closing the body.
WatchOnly ==
    /\ watch = "waiting"
    /\ CtxDone
    /\ watch' = "ended"
    /\ UNCHANGED <<ctx, body, chan, closed, producerVars, handlerVars>>

Watch ==
    /\ watch = "waiting"
    /\ CtxDone
    /\ body' = "closed"
    /\ watch' = "ended"
    /\ UNCHANGED <<ctx, chan, closed, producerVars, handlerVars>>

(***************************************************************************)
(* The handler.                                                            *)
(***************************************************************************)
\* The request's context, which the provider's timeout does not touch.
RequestDone ==
    /\ cons = "streaming"
    /\ "hungUp" \in ctx
    /\ cons' = "ended"
    /\ UNCHANGED <<ctx, body, chan, closed, producerVars, watch, written, last>>

Receive ==
    /\ cons = "streaming"
    /\ chan # <<>>
    /\ chan' = Tail(chan)
    /\ IF Head(chan).kind = "data"
       THEN written' = written + 1 /\ UNCHANGED <<cons, last>>
       ELSE last' = Head(chan).kind /\ cons' = "ended" /\ UNCHANGED written
    /\ UNCHANGED <<ctx, body, closed, producerVars, watch>>

\* Mutant of ReceiveClosed: a closed channel is taken for the end.
ReceiveClosedAsDone ==
    /\ cons = "streaming"
    /\ chan = <<>> /\ closed
    /\ cons' = "ended" /\ last' = "done"
    /\ UNCHANGED <<ctx, body, chan, closed, producerVars, watch, written>>

\* The channel was closed without a last chunk: nothing more is written.
ReceiveClosed ==
    /\ cons = "streaming"
    /\ chan = <<>> /\ closed
    /\ cons' = "ended"
    /\ UNCHANGED <<ctx, body, chan, closed, producerVars, watch, written, last>>

(***************************************************************************)
(* The context.  A client may hang up at any time, a timeout runs out only *)
(* if the provider has one.                                                *)
(***************************************************************************)
Cancel(cause) ==
    /\ cause \notin ctx
    /\ prod # "ended" \/ cons = "streaming"
    /\ ctx' = ctx \union {cause}
    /\ UNCHANGED <<body, chan, closed, producerVars, watch, handlerVars>>

HangUp == cons = "streaming" /\ Cancel("hungUp")
TimeOut == Cancel("timedOut")
ServerCancels == cons = "ended" /\ Cancel("returned")

Scan == ScanData \/ ScanDone \/ ScanEnd \/ ScanError
Produce == Scan \/ SendData \/ SendError \/ SendDone \/ Exit
Handle == RequestDone \/ Receive \/ ReceiveClosed

Next == Produce \/ Watch \/ Handle \/ HangUp \/ TimeOut \/ ServerCancels

Spec == Init /\ [][Next]_vars

\* Every goroutine runs when it can.  The upstream may be silent for ever, so
\* a scan is fair only once the body has been closed under it.
Fairness ==
    /\ WF_vars(body = "closed" /\ Scan)
    /\ WF_vars(SendData) /\ WF_vars(SendError) /\ WF_vars(SendDone) /\ WF_vars(Exit)
    /\ WF_vars(Watch)
    /\ WF_vars(Handle)
    /\ WF_vars(ServerCancels)

FairSpec == Spec /\ Fairness
-------------------------------------------------------------------------------
Chunks == {Data(n) : n \in 1..MaxChunks} \union {Done, Err}

\* Type correctness, and the channel never holds more than its capacity.
TypeOK ==
    /\ ctx \subseteq Causes
    /\ body \in {"open", "closed"}
    /\ chan \in Seq(Chunks)
    /\ Len(chan) <= Buffer
    /\ closed \in BOOLEAN
    /\ read \in 0..MaxChunks
    /\ prod \in {"scan", "sendData", "sendDone", "sendError", "exit", "ended"}
    /\ watch \in {"waiting", "ended"}
    /\ cons \in {"streaming", "ended"}
    /\ written \in 0..MaxChunks
    /\ last \in {"none", "done", "error"}
    /\ upstream \in {"open", "finished", "closedEarly", "broke", "closed"}

\* What the client knows, and what it hears of.
Told == IF cons = "streaming" THEN "streaming" ELSE IF last = "none" THEN "silent" ELSE last
Source == IF upstream \in {"broke", "closed"} THEN "failed" ELSE upstream

Promise == INSTANCE StreamPromise WITH
    made <- read, source <- Source, got <- written, told <- Told,
    cut <- ctx \cap {"hungUp", "timedOut"}

\* Channel, goroutines and cancellation keep what StreamPromise says: chunks
\* arrive one by one and in full before the end is told, done or error, and a
\* body that closes early is told as done.
KeepsPromise == Promise!Spec

\* When the context is done, for whatever cause, the handler returns and the
\* connection to the upstream is closed, even if the upstream is silent or the
\* producer is stuck with a full channel.
CancelReachesUpstream == CtxDone ~> cons = "ended" /\ body = "closed"

\* A producer that outlives its handler has only its last chunk left to send.
StuckOnlyAtDone ==
    <>[](prod # "ended" /\ cons = "ended") => <>[](prod = "sendDone")

\* After the end of a stream, of whatever cause, everything that belongs to it
\* ends as well, but for a producer with its last chunk.
StreamWindsDown == CancelReachesUpstream /\ StuckOnlyAtDone
===============================================================================
