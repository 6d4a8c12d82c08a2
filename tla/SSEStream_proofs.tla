---------------------------- MODULE SSEStream_proofs ----------------------------
(***************************************************************************)
(* Theorems about SSEStream, for every capacity of the channel and every   *)
(* length of the upstream's answer.  What the client has and what the      *)
(* channel holds are one sequence: the chunks read so far, in order, but   *)
(* for the one the producer has in hand.                                   *)
(***************************************************************************)
EXTENDS SSEStream, SequenceTheorems, TLAPS

Producing == prod \in {"scan", "sendData", "sendDone", "sendError"}
InHand == IF prod = "sendData" THEN 1 ELSE 0
LastChunk == chan[Len(chan)]
HasLastChunk == chan # <<>> /\ LastChunk \in {Done, Err}

(* The i-th chunk of the channel is the i-th that is still to be written;  *)
(* the last chunk, if it is there, is behind all of them.                  *)
InOrder ==
    \A i \in 1..Len(chan) :
        chan[i] = Data(written + i) \/ (i = Len(chan) /\ chan[i] \in {Done, Err})

(* Nothing is lost while the producer goes on, nor when it has sent Done.  *)
Complete ==
    /\ Producing => ~HasLastChunk /\ written + Len(chan) + InHand = read
    /\ HasLastChunk /\ LastChunk = Done => written + Len(chan) - 1 = read
    /\ last = "done" => written = read /\ ~Producing

(* Done is sent only for a body that came to an end without an error.      *)
Ended == upstream \in {"finished", "closedEarly"}

EndKnown ==
    /\ prod = "sendDone" => Ended
    /\ HasLastChunk /\ LastChunk = Done => Ended
    /\ last = "done" => Ended

(* A producer that stops without a last chunk was cancelled.               *)
StopsForAReason ==
    /\ ~Producing /\ cons = "streaming" =>
          HasLastChunk \/ ctx \cap {"hungUp", "timedOut"} # {}
    /\ "returned" \in ctx => cons = "ended"
    /\ cons = "streaming" => last = "none"
    /\ closed => prod = "ended"

(* A client that stays is left without a last chunk only by the timeout.   *)
SilentOnlyByTimeout ==
    cons = "ended" /\ last = "none" => ctx \cap {"hungUp", "timedOut"} # {}

Inv == TypeOK /\ InOrder /\ Complete /\ EndKnown /\ StopsForAReason /\ SilentOnlyByTimeout
-----------------------------------------------------------------------------
\* What the chunks are told apart by.
LEMMA ChunkKinds ==
    /\ \A n : Data(n).kind = "data" /\ Data(n) # Done /\ Data(n) # Err
    /\ \A m, n : Data(m) = Data(n) => m = n
    /\ Done # Err /\ Done.kind = "done" /\ Err.kind = "error"
<1>1. \A n : Data(n).kind = "data" /\ Data(n).n = n
  BY DEF Data
<1>2. Done.kind = "done" /\ Err.kind = "error"
  BY DEF Done, Err
<1>3. QED
  BY <1>1, <1>2

LEMMA InitStream == Init => Inv
<1> SUFFICES ASSUME Init PROVE Inv
  OBVIOUS
<1>1. TypeOK
  <2>1. chan \in Seq(Chunks) /\ Len(chan) <= Buffer
    BY StreamAssumption, EmptySeq DEF Init
  <2>2. closed \in BOOLEAN
    BY Zenon DEF Init
  <2>3. QED
    BY StreamAssumption, <2>1, <2>2 DEF Init, TypeOK, Causes
<1>2. InOrder /\ Complete /\ EndKnown /\ StopsForAReason /\ SilentOnlyByTimeout
  BY DEF Init, InOrder, Complete, EndKnown, StopsForAReason, SilentOnlyByTimeout,
         Producing, InHand, HasLastChunk
<1>3. QED
  BY <1>1, <1>2 DEF Inv

\* The channel and the counters, as numbers.
LEMMA ChannelFacts ==
    ASSUME Inv
    PROVE  /\ chan \in Seq(Chunks) /\ Len(chan) \in Nat /\ DOMAIN chan = 1..Len(chan)
           /\ read \in Nat /\ read <= MaxChunks /\ written \in Nat
           /\ MaxChunks \in Nat /\ Buffer \in Nat
<1>1. chan \in Seq(Chunks)
  BY DEF Inv, TypeOK
<1>2. Len(chan) \in Nat /\ DOMAIN chan = 1..Len(chan)
  BY <1>1, LenProperties
<1>3. QED
  BY <1>1, <1>2, StreamAssumption DEF Inv, TypeOK

\* Sending a chunk into the channel.
LEMMA SendFacts ==
    ASSUME Inv, NEW c \in Chunks, Len(chan) < Buffer, chan' = Append(chan, c)
    PROVE  /\ chan' \in Seq(Chunks) /\ Len(chan') = Len(chan) + 1 /\ Len(chan') <= Buffer
           /\ chan' # <<>> /\ LastChunk' = c
           /\ \A i \in 1..Len(chan) : chan'[i] = chan[i]
<1>0. chan \in Seq(Chunks) /\ Len(chan) \in Nat /\ Buffer \in Nat
  BY ChannelFacts
<1>1. QED
  BY <1>0, AppendProperties DEF LastChunk

LEMMA SendDataKeepsInv == Inv /\ SendData => Inv'
<1> SUFFICES ASSUME Inv, SendData PROVE Inv'
  OBVIOUS
<1>0. /\ prod = "sendData" /\ UNCHANGED <<ctx, body, closed, read, watch, cons, written, last, upstream>>
      /\ ~HasLastChunk /\ written + Len(chan) + 1 = read /\ TypeOK
      /\ StopsForAReason /\ SilentOnlyByTimeout /\ InOrder /\ last # "done"
  BY DEF SendData, handlerVars, Inv, Complete, Producing, InHand
<1>1. CASE Send(Data(read), "scan")
  <2>1. Data(read) \in Chunks /\ Len(chan) < Buffer /\ chan' = Append(chan, Data(read))
        /\ prod' = "scan"
    BY <1>0, <1>1, ChannelFacts DEF Send, Chunks
  <2>2. /\ chan' \in Seq(Chunks) /\ Len(chan') = Len(chan) + 1 /\ Len(chan') <= Buffer
        /\ LastChunk' = Data(read) /\ \A i \in 1..Len(chan) : chan'[i] = chan[i]
    BY <2>1, SendFacts
  <2>3. TypeOK'
    BY <1>0, <2>1, <2>2 DEF TypeOK, Chunks
  <2>4. InOrder'
    <3>1. ASSUME NEW i \in 1..Len(chan) PROVE chan'[i] = Data(written + i)
      <4>1. chan'[i] = chan[i] /\ chan # <<>>
        BY <2>2, ChannelFacts
      <4>2. i = Len(chan) => chan[i] \notin {Done, Err}
        BY <1>0, <4>1 DEF HasLastChunk, LastChunk
      <4>3. QED
        BY <1>0, <4>1, <4>2 DEF InOrder
    <3>2. chan'[Len(chan')] = Data(written + Len(chan'))
      BY <1>0, <2>2, ChannelFacts DEF LastChunk
    <3>3. QED
      <4>1. \A i \in 1..Len(chan') : chan'[i] = Data(written + i)
        BY <2>2, <3>1, <3>2, ChannelFacts
      <4>2. QED
        BY <1>0, <4>1 DEF InOrder
  <2>5. ~HasLastChunk'
    BY <2>2, ChunkKinds DEF HasLastChunk
  <2>6. Complete' /\ EndKnown'
    BY <1>0, <2>1, <2>2, <2>5, ChannelFacts
       DEF Complete, EndKnown, Ended, Producing, InHand
  <2>7. StopsForAReason' /\ SilentOnlyByTimeout'
    BY <1>0, <2>1 DEF StopsForAReason, SilentOnlyByTimeout, Producing
  <2>8. QED
    BY <2>3, <2>4, <2>6, <2>7 DEF Inv
<1>2. CASE CtxDone /\ prod' = "exit" /\ UNCHANGED chan
  <2>1. TypeOK'
    BY <1>0, <1>2 DEF TypeOK
  <2>2. HasLastChunk' = HasLastChunk /\ InOrder'
    BY <1>0, <1>2 DEF HasLastChunk, LastChunk, InOrder
  <2>3. Complete' /\ EndKnown'
    BY <1>0, <1>2, <2>2 DEF Complete, EndKnown, Ended, Producing
  <2>4. StopsForAReason' /\ SilentOnlyByTimeout'
    BY <1>0, <1>2
       DEF TypeOK, Causes, CtxDone, StopsForAReason, SilentOnlyByTimeout, Producing
  <2>5. QED
    BY <2>1, <2>2, <2>3, <2>4 DEF Inv
<1>3. QED
  BY <1>1, <1>2 DEF SendData

LEMMA ScanKeepsInv == Inv /\ Scan => Inv'
<1> SUFFICES ASSUME Inv, Scan PROVE Inv'
  OBVIOUS
<1>0. /\ prod = "scan" /\ UNCHANGED <<ctx, body, chan, closed, watch, cons, written, last>>
      /\ ~HasLastChunk /\ written + Len(chan) = read /\ TypeOK
      /\ StopsForAReason /\ SilentOnlyByTimeout /\ InOrder /\ last # "done"
  BY ChannelFacts
     DEF Scan, ScanData, ScanDone, ScanEnd, ScanError, handlerVars, Inv, Complete, Producing, InHand
<1>1. ~HasLastChunk' /\ InOrder'
  BY <1>0 DEF HasLastChunk, LastChunk, InOrder
<1>2. \/ read < MaxChunks /\ read' = read + 1 /\ prod' = "sendData" /\ upstream' = upstream
      \/ read' = read /\ prod' = "sendDone" /\ upstream' \in {"finished", "closedEarly"}
      \/ read' = read /\ prod' = "sendError" /\ upstream' \in {"broke", "closed"}
  BY DEF Scan, ScanData, ScanDone, ScanEnd, ScanError
<1>3. TypeOK'
  BY <1>0, <1>2, StreamAssumption DEF TypeOK
<1>4. Complete' /\ EndKnown'
  BY <1>0, <1>1, <1>2, ChannelFacts DEF Complete, EndKnown, Ended, Producing, InHand
<1>5. StopsForAReason' /\ SilentOnlyByTimeout'
  BY <1>0, <1>2 DEF StopsForAReason, SilentOnlyByTimeout, Producing, TypeOK
<1>6. QED
  BY <1>1, <1>3, <1>4, <1>5 DEF Inv

\* Sending Done or Err, and leaving instead when the context is done.
LEMMA SendLastKeepsInv == Inv /\ (SendDone \/ SendError) => Inv'
<1> SUFFICES ASSUME Inv, SendDone \/ SendError PROVE Inv'
  OBVIOUS
<1>0. /\ prod \in {"sendDone", "sendError"} /\ prod' = "exit"
      /\ UNCHANGED <<ctx, body, closed, read, watch, cons, written, last, upstream>>
      /\ ~HasLastChunk /\ written + Len(chan) = read /\ TypeOK
      /\ StopsForAReason /\ SilentOnlyByTimeout /\ InOrder /\ last # "done"
      /\ prod = "sendDone" => Ended
  BY ChannelFacts
     DEF SendDone, SendError, Send, handlerVars, Inv, Complete, EndKnown, Ended, Producing, InHand
<1>1. ASSUME NEW c \in {Done, Err}, Len(chan) < Buffer, chan' = Append(chan, c),
             c = Done => prod = "sendDone"
      PROVE  Inv'
  <2>1. c \in Chunks
    BY DEF Chunks
  <2>2. /\ chan' \in Seq(Chunks) /\ Len(chan') = Len(chan) + 1 /\ Len(chan') <= Buffer
        /\ chan' # <<>> /\ LastChunk' = c /\ \A i \in 1..Len(chan) : chan'[i] = chan[i]
    BY <1>1, <2>1, SendFacts
  <2>3. TypeOK'
    BY <1>0, <2>2 DEF TypeOK
  <2>4. InOrder'
    <3>1. ASSUME NEW i \in 1..Len(chan) PROVE chan'[i] = Data(written + i)
      <4>1. chan'[i] = chan[i] /\ chan # <<>>
        BY <2>2, ChannelFacts
      <4>2. i = Len(chan) => chan[i] \notin {Done, Err}
        BY <1>0, <4>1 DEF HasLastChunk, LastChunk
      <4>3. QED
        BY <1>0, <4>1, <4>2 DEF InOrder
    <3>2. chan'[Len(chan')] \in {Done, Err}
      BY <2>2 DEF LastChunk
    <3>3. \A i \in 1..Len(chan') : i \in 1..Len(chan) \/ i = Len(chan')
      BY <2>2, ChannelFacts
    <3>4. QED
      BY <1>0, <3>1, <3>2, <3>3 DEF InOrder
  <2>5. HasLastChunk'
    BY <2>2 DEF HasLastChunk
  <2>6. Complete' /\ EndKnown'
    BY <1>0, <1>1, <2>2, <2>5, ChannelFacts, ChunkKinds
       DEF Complete, EndKnown, Ended, Producing, InHand
  <2>7. StopsForAReason' /\ SilentOnlyByTimeout'
    BY <1>0, <2>5 DEF StopsForAReason, SilentOnlyByTimeout, Producing, TypeOK
  <2>8. QED
    BY <2>3, <2>4, <2>6, <2>7 DEF Inv
<1>2. CASE CtxDone /\ UNCHANGED chan
  <2>1. TypeOK'
    BY <1>0, <1>2 DEF TypeOK
  <2>2. HasLastChunk' = HasLastChunk /\ InOrder'
    BY <1>0, <1>2 DEF HasLastChunk, LastChunk, InOrder
  <2>3. Complete' /\ EndKnown'
    BY <1>0, <1>2, <2>2 DEF Complete, EndKnown, Ended, Producing
  <2>4. StopsForAReason' /\ SilentOnlyByTimeout'
    BY <1>0, <1>2
       DEF TypeOK, Causes, CtxDone, StopsForAReason, SilentOnlyByTimeout, Producing
  <2>5. QED
    BY <2>1, <2>2, <2>3, <2>4 DEF Inv
<1>3. QED
  BY <1>1, <1>2, ChunkKinds DEF SendDone, SendError, Send

\* The handler takes the next chunk.
LEMMA ReceiveKeepsInv == Inv /\ Receive => Inv'
<1> SUFFICES ASSUME Inv, Receive PROVE Inv'
  OBVIOUS
<1>0. /\ cons = "streaming" /\ chan # <<>> /\ chan' = Tail(chan)
      /\ UNCHANGED <<ctx, body, closed, read, prod, watch, upstream>>
      /\ TypeOK /\ InOrder /\ Complete /\ EndKnown /\ StopsForAReason
      /\ last = "none"
  BY DEF Receive, producerVars, Inv, StopsForAReason
<1>1. /\ chan' \in Seq(Chunks) /\ Len(chan') = Len(chan) - 1 /\ Head(chan) = chan[1]
      /\ \A i \in 1..Len(chan') : chan'[i] = chan[i + 1]
      /\ Len(chan) >= 1
  BY <1>0, ChannelFacts, HeadTailProperties
<1>n. Len(chan) \in Nat /\ Len(chan') \in Nat /\ written \in Nat
  BY <1>1, ChannelFacts
<1>2. Len(chan') >= 1 => chan' # <<>> /\ LastChunk' = LastChunk /\ HasLastChunk' = HasLastChunk
  <2> SUFFICES ASSUME Len(chan') >= 1
               PROVE  chan' # <<>> /\ LastChunk' = LastChunk /\ HasLastChunk' = HasLastChunk
    OBVIOUS
  <2>1. Len(chan') \in 1..Len(chan') /\ Len(chan') + 1 = Len(chan)
    BY <1>1, <1>n
  <2>2. chan'[Len(chan')] = chan[Len(chan)]
    BY <1>1, <2>1
  <2>3. chan' # <<>>
    BY <1>1, <2>1
  <2>4. QED
    BY <1>0, <2>2, <2>3 DEF LastChunk, HasLastChunk
<1>3. Len(chan') = 0 => ~HasLastChunk' /\ LastChunk = Head(chan)
  BY <1>1, ChannelFacts DEF LastChunk, HasLastChunk
<1>4. CASE Head(chan) = Data(written + 1)
  <2>1. written' = written + 1 /\ cons' = cons /\ last' = last
    BY <1>4, ChunkKinds DEF Receive
  <2>2. Data(written + 1) \in Chunks
    BY <1>1, <1>4, ChannelFacts, ElementOfSeq
  <2>3. written + 1 <= MaxChunks
    BY <2>2, ChannelFacts, ChunkKinds DEF Chunks
  <2>4. TypeOK'
    BY <1>0, <1>1, <2>1, <2>3, ChannelFacts DEF TypeOK
  <2>5. InOrder'
    <3> SUFFICES ASSUME NEW i \in 1..Len(chan')
                 PROVE  \/ chan'[i] = Data(written' + i)
                        \/ i = Len(chan') /\ chan'[i] \in {Done, Err}
      BY DEF InOrder
    <3>1. i + 1 \in 1..Len(chan) /\ chan'[i] = chan[i + 1] /\ written' + i = written + (i + 1)
      <4>1. i \in Nat /\ i + 1 \in 1..Len(chan)
        BY <1>1, <1>n
      <4>2. QED
        BY <1>1, <1>n, <2>1, <4>1
    <3>2. i + 1 = Len(chan) => i = Len(chan')
      BY <1>1, ChannelFacts
    <3>3. QED
      BY <1>0, <3>1, <3>2 DEF InOrder
  <2>6. HasLastChunk' = HasLastChunk
    <3>1. CASE Len(chan') = 0
      BY <1>3, <1>4, <3>1, ChunkKinds DEF HasLastChunk
    <3>2. CASE Len(chan') >= 1
      BY <1>2, <3>2
    <3>3. QED
      BY <1>n, <3>1, <3>2
  <2>7. HasLastChunk => LastChunk' = LastChunk
    <3>1. CASE Len(chan') = 0
      BY <1>3, <1>4, <3>1, ChunkKinds DEF HasLastChunk
    <3>2. CASE Len(chan') >= 1
      BY <1>2, <3>2
    <3>3. QED
      BY <1>n, <3>1, <3>2
  <2>8. Complete' /\ EndKnown'
    <3>1. written' + Len(chan') = written + Len(chan)
      BY <1>1, <1>n, <2>1
    <3>2. Complete'
      BY <1>0, <1>1, <1>n, <2>1, <2>6, <2>7, <3>1 DEF Complete, Producing, InHand
    <3>3. EndKnown'
      BY <1>0, <2>1, <2>6, <2>7 DEF EndKnown, Ended, Producing, InHand
    <3>4. QED
      BY <3>2, <3>3
  <2>9. StopsForAReason' /\ SilentOnlyByTimeout'
    BY <1>0, <2>1, <2>6 DEF StopsForAReason, SilentOnlyByTimeout, Producing
  <2>10. QED
    BY <2>4, <2>5, <2>8, <2>9 DEF Inv
<1>5. CASE Head(chan) \in {Done, Err}
  <2>1. written' = written /\ cons' = "ended" /\ last' = Head(chan).kind
    BY <1>5, ChunkKinds DEF Receive
  <2>2. Len(chan) = 1 /\ Len(chan') = 0 /\ chan' = <<>>
    <3>1. 1 \in 1..Len(chan) /\ chan[1] # Data(written + 1)
      BY <1>1, <1>5, <1>n, ChunkKinds
    <3>2. Len(chan) = 1
      BY <1>0, <3>1 DEF InOrder
    <3>3. QED
      BY <1>1, <3>2
  <2>3. HasLastChunk /\ LastChunk = Head(chan) /\ ~HasLastChunk'
    BY <1>0, <1>3, <1>5, <2>2 DEF HasLastChunk
  <2>4. ~Producing /\ ~Producing' /\ (LastChunk = Done => written = read /\ Ended)
    BY <1>0, <2>2, <2>3, ChannelFacts DEF Complete, EndKnown, Ended, Producing
  <2>5. last' \in {"done", "error"} /\ (last' = "done" => LastChunk = Done)
    BY <1>5, <2>1, <2>3, ChunkKinds
  <2>6. TypeOK'
    BY <1>0, <1>1, <2>1, <2>2, <2>5, ChannelFacts DEF TypeOK
  <2>7. InOrder'
    BY <2>2, ChannelFacts DEF InOrder
  <2>8. Complete' /\ EndKnown'
    BY <1>0, <2>1, <2>3, <2>4, <2>5 DEF Complete, EndKnown, Ended, Producing
  <2>9. StopsForAReason' /\ SilentOnlyByTimeout'
    BY <1>0, <2>1, <2>5 DEF StopsForAReason, SilentOnlyByTimeout
  <2>10. QED
    BY <2>6, <2>7, <2>8, <2>9 DEF Inv
<1>6. QED
  <2>1. 1 \in 1..Len(chan)
    BY <1>1, ChannelFacts
  <2>2. QED
    BY <1>0, <1>1, <1>4, <1>5, <2>1 DEF InOrder

\* The steps that touch neither the channel nor what was read and written.
LEMMA OtherStepsKeepInv ==
    ASSUME Inv,
           \/ Exit \/ Watch \/ RequestDone \/ ReceiveClosed
           \/ \E cause \in {"hungUp", "timedOut"} : Cancel(cause)
           \/ ServerCancels
           \/ UNCHANGED vars
    PROVE  Inv'
<1>0. /\ TypeOK /\ InOrder /\ Complete /\ EndKnown /\ StopsForAReason /\ SilentOnlyByTimeout
      /\ UNCHANGED <<chan, read, written, last, upstream>>
  BY DEF Inv, Exit, Watch, RequestDone, ReceiveClosed, Cancel, ServerCancels, vars,
         producerVars, handlerVars
<1>1. /\ UNCHANGED <<prod, closed>> \/ (prod = "exit" /\ prod' = "ended" /\ closed' = TRUE)
      /\ body' \in {body, "closed"} /\ watch' \in {watch, "ended"} /\ cons' \in {cons, "ended"}
      /\ ctx' = ctx \/ \E cause \in Causes : ctx' = ctx \union {cause}
  BY DEF Exit, Watch, RequestDone, ReceiveClosed, Cancel, ServerCancels, vars,
         producerVars, handlerVars, Causes
<1>2. closed' \in BOOLEAN
  BY <1>0, <1>1, Zenon DEF TypeOK
<1>3. TypeOK'
  BY <1>0, <1>1, <1>2 DEF TypeOK
<1>4. InOrder' /\ HasLastChunk' = HasLastChunk /\ LastChunk' = LastChunk /\ Producing' = Producing
      /\ InHand' = InHand
  BY <1>0, <1>1 DEF InOrder, HasLastChunk, LastChunk, Producing, InHand
<1>5. Complete' /\ EndKnown'
  BY <1>0, <1>1, <1>4 DEF Complete, EndKnown, Ended
<1>6. StopsForAReason'
  <2>1. "returned" \in ctx' => cons' = "ended"
    BY <1>0 DEF StopsForAReason, Exit, Watch, RequestDone, ReceiveClosed, Cancel, ServerCancels,
                vars, producerVars, handlerVars
  <2>2. cons' = "streaming" => cons = "streaming"
    BY <1>1
  <2>3. ctx \subseteq ctx'
    BY <1>1
  <2>4. closed' => prod' = "ended"
    BY <1>0, <1>1 DEF StopsForAReason
  <2>5. QED
    BY <1>0, <1>4, <2>1, <2>2, <2>3, <2>4 DEF StopsForAReason
<1>7. SilentOnlyByTimeout'
  <2>1. CASE RequestDone
    BY <2>1 DEF RequestDone, SilentOnlyByTimeout
  <2>2. CASE ReceiveClosed
    BY <1>0, <2>2 DEF ReceiveClosed, StopsForAReason, HasLastChunk, Producing, SilentOnlyByTimeout
  <2>3. CASE cons' = cons
    BY <1>0, <1>1, <2>3 DEF SilentOnlyByTimeout
  <2>4. QED
    BY <2>1, <2>2, <2>3 DEF Exit, Watch, Cancel, ServerCancels, vars, handlerVars
<1>8. QED
  BY <1>3, <1>4, <1>5, <1>6, <1>7 DEF Inv

LEMMA StepStream == Inv /\ [Next]_vars => Inv'
BY ScanKeepsInv, SendDataKeepsInv, SendLastKeepsInv, ReceiveKeepsInv, OtherStepsKeepInv
   DEF Next, Produce, Handle, HangUp, TimeOut

LEMMA StreamInvariant == Spec => []Inv
<1> QED
  BY InitStream, StepStream, PTL DEF Spec

\* The channel holds chunks, at most its capacity, and the counters stay bounded.
THEOREM StreamTypeOK == Spec => []TypeOK
<1>1. Inv => TypeOK
  BY DEF Inv
<1>2. QED
  BY <1>1, StreamInvariant, PTL

\* The client gets the chunks in the order they were read, none twice and none
\* left out: the one the handler takes next is the one after those written.
NextIsNext ==
    chan # <<>> /\ Head(chan).kind = "data" => Head(chan) = Data(written + 1)

THEOREM ChunksInOrder == Spec => []NextIsNext
<1>1. Inv => NextIsNext
  <2> SUFFICES ASSUME Inv, chan # <<>>, Head(chan).kind = "data"
               PROVE  Head(chan) = Data(written + 1)
    BY DEF NextIsNext
  <2>1. Head(chan) = chan[1] /\ 1 \in 1..Len(chan)
    BY ChannelFacts
  <2>2. QED
    BY <2>1, ChunkKinds DEF Inv, InOrder
<1>2. QED
  BY <1>1, StreamInvariant, PTL
-------------------------------------------------------------------------------
(***************************************************************************)
(* The refinement of StreamPromise.  Inv says too little of a stream that  *)
(* fails: that an error, too, is behind everything that was read, and that *)
(* what a producer which was cancelled leaves in the channel was read.     *)
(***************************************************************************)
Pending == Len(chan) - (IF HasLastChunk THEN 1 ELSE 0)

Counted ==
    /\ written + Pending <= read
    /\ HasLastChunk => written + Pending = read

(* The body is open as long as it is scanned, and an error means that it   *)
(* failed.                                                                 *)
Sourced ==
    /\ prod \in {"scan", "sendData"} => Source = "open"
    /\ prod = "sendError" => Source = "failed"
    /\ HasLastChunk /\ LastChunk = Err => Source = "failed"

PromiseInv == Inv /\ Counted /\ Sourced

Numbers ==
    /\ chan \in Seq(Chunks) /\ Len(chan) \in Nat /\ written \in Nat /\ read \in Nat
    /\ Pending \in Nat
    /\ chan # <<>> <=> Len(chan) >= 1
    /\ HasLastChunk => Pending = Len(chan) - 1
    /\ ~HasLastChunk => Pending = Len(chan)

LEMMA PendingFacts == Inv => Numbers
<1> SUFFICES ASSUME Inv PROVE Numbers
  OBVIOUS
<1>1. chan \in Seq(Chunks) /\ Len(chan) \in Nat /\ written \in Nat /\ read \in Nat
  BY ChannelFacts
<1>2. chan # <<>> <=> Len(chan) >= 1
  BY <1>1, EmptySeq, LenProperties
<1>3. HasLastChunk => chan # <<>>
  BY DEF HasLastChunk
<1>4. QED
  BY <1>1, <1>2, <1>3 DEF Pending, Numbers

LEMMA PendingFactsThen == Inv' => Numbers'
BY PendingFacts, PTL

LEMMA InitPromise == Init => PromiseInv
<1> SUFFICES ASSUME Init PROVE PromiseInv
  OBVIOUS
<1>1. Inv
  BY InitStream
<1>2. chan = <<>> /\ written = 0 /\ read = 0 /\ ~HasLastChunk /\ Pending = 0
  BY DEF Init, HasLastChunk, Pending
<1>3. Counted /\ Sourced
  BY <1>2 DEF Init, Counted, Sourced, Source
<1>4. QED
  BY <1>1, <1>3 DEF PromiseInv

\* While the producer goes on, everything is counted and no last chunk is there.
ProducingFacts == Producing => ~HasLastChunk /\ written + Pending + InHand = read

LEMMA ProducingCounts == Inv => ProducingFacts
BY PendingFacts DEF Inv, Complete, ProducingFacts, Numbers

LEMMA ProducingCountsThen == Inv' => ProducingFacts'
BY ProducingCounts, PTL

\* What is received of the channel, in terms of what it was.
LEMMA ReceivedFacts ==
    ASSUME PromiseInv, Receive
    PROVE  \/ /\ written' = written + 1 /\ cons' = cons /\ last' = last
              /\ Pending >= 1 /\ Pending' = Pending - 1
              /\ (HasLastChunk' <=> HasLastChunk) /\ (HasLastChunk => LastChunk' = LastChunk)
           \/ /\ written' = written /\ cons' = "ended" /\ last' = Head(chan).kind
              /\ HasLastChunk /\ LastChunk = Head(chan) /\ Head(chan) \in {Done, Err}
              /\ Pending = 0 /\ Pending' = 0 /\ ~HasLastChunk'
<1>0. Inv /\ Inv'
  BY ReceiveKeepsInv DEF PromiseInv
<1>1. /\ chan \in Seq(Chunks) /\ Len(chan) \in Nat /\ written \in Nat
      /\ Pending \in Nat /\ Pending' \in Nat
      /\ HasLastChunk => Pending = Len(chan) - 1
      /\ ~HasLastChunk => Pending = Len(chan)
  BY <1>0, PendingFacts, PendingFactsThen DEF Numbers
<1>2. chan # <<>> /\ chan' = Tail(chan) /\ InOrder
  BY <1>0 DEF Receive, Inv
<1>3. /\ Len(chan') = Len(chan) - 1 /\ Head(chan) = chan[1] /\ Len(chan) >= 1
      /\ \A i \in 1..Len(chan') : chan'[i] = chan[i + 1]
  BY <1>1, <1>2, HeadTailProperties
<1>4. Len(chan') \in Nat
  BY <1>1, <1>3
<1>5. CASE Head(chan).kind = "data"
  <2>1. written' = written + 1 /\ cons' = cons /\ last' = last
    BY <1>5 DEF Receive
  <2>2. (HasLastChunk' <=> HasLastChunk) /\ (HasLastChunk => LastChunk' = LastChunk)
    <3>1. CASE Len(chan') = 0
      <4>1. chan' = <<>>
        BY <1>0, <3>1, PendingFactsThen DEF Numbers
      <4>2. ~HasLastChunk'
        BY <4>1 DEF HasLastChunk
      <4>3. LastChunk = Head(chan)
          <5>1. Len(chan) = 1
          BY <1>1, <1>3, <3>1
        <5>2. QED
          BY <1>3, <5>1 DEF LastChunk
      <4>4. ~HasLastChunk
        BY <1>5, <4>3, ChunkKinds DEF HasLastChunk
      <4>5. QED
        BY <4>2, <4>4
    <3>2. CASE Len(chan') >= 1
      <4>1. Len(chan') \in 1..Len(chan') /\ Len(chan') + 1 = Len(chan)
        BY <1>1, <1>3, <1>4, <3>2
      <4>2. chan'[Len(chan')] = chan[Len(chan)]
        BY <1>3, <4>1
      <4>3. chan' # <<>>
        BY <1>0, <3>2, PendingFactsThen DEF Numbers
      <4>4. LastChunk' = LastChunk
        BY <4>2 DEF LastChunk
      <4>5. chan # <<>>
        BY <1>2
      <4>6. HasLastChunk' <=> HasLastChunk
        BY <4>3, <4>4, <4>5 DEF HasLastChunk
      <4>7. QED
        BY <4>4, <4>6
    <3>3. QED
      BY <1>4, <3>1, <3>2
  <2>3. Pending' = IF HasLastChunk' THEN Len(chan') - 1 ELSE Len(chan')
    BY <1>4 DEF Pending
  <2>4. Pending' = Pending - 1
    BY <1>1, <1>3, <1>4, <2>2, <2>3
  <2>5. Pending >= 1
    BY <1>1, <2>4
  <2>6. QED
    BY <2>1, <2>2, <2>4, <2>5
<1>6. CASE Head(chan).kind # "data"
  <2>1. Head(chan) \in {Done, Err} /\ Len(chan) = 1
    <3>1. 1 \in 1..Len(chan) /\ chan[1] # Data(written + 1)
      BY <1>1, <1>3, <1>6, ChunkKinds
    <3>2. QED
      BY <1>2, <1>3, <3>1 DEF InOrder
  <2>2. written' = written /\ cons' = "ended" /\ last' = Head(chan).kind
    BY <1>6 DEF Receive
  <2>3. HasLastChunk /\ LastChunk = Head(chan)
    BY <1>2, <1>3, <2>1 DEF HasLastChunk, LastChunk
  <2>4. Len(chan') = 0
    BY <1>3, <2>1
  <2>5. chan' = <<>>
    BY <1>0, <2>4, PendingFactsThen DEF Numbers
  <2>6. ~HasLastChunk' /\ Pending' = 0 /\ Pending = 0
    BY <1>1, <2>1, <2>3, <2>4, <2>5 DEF HasLastChunk, Pending
  <2>7. QED
    BY <2>1, <2>2, <2>3, <2>6
<1>7. QED
  BY <1>5, <1>6

LEMMA PromiseStep == PromiseInv /\ [Next]_vars => PromiseInv'
<1> SUFFICES ASSUME PromiseInv, [Next]_vars PROVE PromiseInv'
  OBVIOUS
<1>0. Inv /\ Inv' /\ Counted /\ Sourced
  BY StepStream DEF PromiseInv
<1>1. Numbers /\ Numbers' /\ ProducingFacts /\ ProducingFacts'
  BY <1>0, PendingFacts, PendingFactsThen, ProducingCounts, ProducingCountsThen
<1>2. ASSUME UNCHANGED <<chan, written, read>> PROVE Counted'
  <2>1. HasLastChunk' <=> HasLastChunk
    BY <1>2 DEF HasLastChunk, LastChunk
  <2>2. Len(chan') = Len(chan) /\ written' = written /\ read' = read
    BY <1>2
  <2>3. Pending' = Pending
    BY <1>1, <2>1, <2>2 DEF Numbers
  <2>4. QED
    BY <1>0, <2>1, <2>2, <2>3 DEF Counted
<1>3. ASSUME Producing' PROVE Counted'
  <2>1. ~HasLastChunk' /\ written' + Pending' + InHand' = read'
    BY <1>1, <1>3 DEF ProducingFacts
  <2>2. InHand' \in {0, 1}
    BY DEF InHand
  <2>3. written' \in Nat /\ Pending' \in Nat /\ read' \in Nat
    BY <1>1 DEF Numbers
  <2>4. \A w, p, h, n \in Nat : w + p + h = n => w + p <= n
    OBVIOUS
  <2>5. InHand' \in Nat
    BY <2>2
  <2>6. written' + Pending' <= read'
    BY <2>1, <2>3, <2>4, <2>5
  <2>7. QED
    BY <2>1, <2>6 DEF Counted
<1>4. CASE Scan
  <2>1. /\ prod = "scan" /\ ~HasLastChunk'
        /\ \/ prod' = "sendData" /\ upstream' = upstream
           \/ prod' = "sendDone"
           \/ prod' = "sendError" /\ upstream' \in {"broke", "closed"}
    BY <1>1, <1>4 DEF Scan, ScanData, ScanDone, ScanEnd, ScanError, ProducingFacts, Producing
  <2>2. Counted'
    BY <1>3, <2>1 DEF Producing
  <2>3. Sourced'
    BY <1>0, <2>1 DEF Sourced, Source
  <2>4. QED
    BY <1>0, <2>2, <2>3 DEF PromiseInv
<1>5. CASE SendData
  <2>1. /\ prod = "sendData" /\ UNCHANGED <<upstream, written, read>>
        /\ \/ prod' = "scan"
           \/ prod' = "exit" /\ UNCHANGED chan
    BY <1>5 DEF SendData, Send, handlerVars
  <2>2. Counted'
    BY <1>2, <1>3, <2>1 DEF Producing
  <2>3. prod' = "scan" => ~HasLastChunk'
    BY <1>1 DEF ProducingFacts, Producing
  <2>4. ~HasLastChunk
    BY <1>1, <2>1 DEF ProducingFacts, Producing
  <2>5. Sourced'
    BY <1>0, <2>1, <2>3, <2>4 DEF Sourced, Source, HasLastChunk, LastChunk
  <2>6. QED
    BY <1>0, <2>2, <2>5 DEF PromiseInv
<1>6. CASE SendDone \/ SendError
  <2>1. PICK c \in {Done, Err} :
          /\ prod = (IF c = Done THEN "sendDone" ELSE "sendError")
          /\ prod' = "exit" /\ UNCHANGED <<upstream, written, read>>
          /\ UNCHANGED chan \/ (Len(chan) < Buffer /\ chan' = Append(chan, c))
    BY <1>6, ChunkKinds DEF SendDone, SendError, Send, handlerVars
  <2>2. ~HasLastChunk /\ written + Pending = read /\ Pending = Len(chan)
    BY <1>1, <2>1 DEF ProducingFacts, Producing, Numbers, InHand
  <2>3. CASE UNCHANGED chan
    <3>1. Counted'
      BY <1>2, <2>1, <2>3
    <3>2. Sourced'
      BY <1>0, <2>1, <2>2, <2>3 DEF Sourced, HasLastChunk, LastChunk
    <3>3. QED
      BY <1>0, <3>1, <3>2 DEF PromiseInv
  <2>4. CASE Len(chan) < Buffer /\ chan' = Append(chan, c)
    <3>1. c \in Chunks
      BY DEF Chunks
    <3>2. Len(chan') = Len(chan) + 1 /\ chan' # <<>> /\ LastChunk' = c
      BY <1>0, <2>4, <3>1, SendFacts
    <3>3. HasLastChunk'
      BY <3>2 DEF HasLastChunk
    <3>4. Pending' = Pending
      BY <1>1, <2>2, <3>2, <3>3 DEF Numbers
    <3>5. Counted'
      BY <1>1, <2>1, <2>2, <3>4 DEF Counted, Numbers
    <3>6. Source' = Source
      BY <2>1 DEF Source
    <3>7. Sourced'
      BY <1>0, <2>1, <3>2, <3>6, ChunkKinds DEF Sourced
    <3>8. QED
      BY <1>0, <3>5, <3>7 DEF PromiseInv
  <2>5. QED
    BY <2>1, <2>3, <2>4
<1>7. CASE Receive
  <2>1. UNCHANGED <<prod, upstream, read>>
    BY <1>7 DEF Receive, producerVars
  <2>2. Counted'
    <3>1. \/ written' = written + 1 /\ Pending' = Pending - 1 /\ (HasLastChunk' <=> HasLastChunk)
          \/ written' = written /\ Pending' = Pending /\ ~HasLastChunk'
      BY <1>7, ReceivedFacts
    <3>2. written' + Pending' = written + Pending
      <4>1. written \in Nat /\ Pending \in Nat
        BY <1>1 DEF Numbers
      <4>2. QED
        BY <3>1, <4>1
    <3>3. read' = read
      BY <2>1
    <3>4. HasLastChunk' => HasLastChunk
      BY <3>1
    <3>5. QED
      BY <1>0, <3>2, <3>3, <3>4 DEF Counted
  <2>3. HasLastChunk' => HasLastChunk /\ LastChunk' = LastChunk
    BY <1>7, ReceivedFacts
  <2>4. Sourced'
    BY <1>0, <2>1, <2>3 DEF Sourced, Source
  <2>5. QED
    BY <1>0, <2>2, <2>4 DEF PromiseInv
<1>8. CASE \/ Exit \/ Watch \/ RequestDone \/ ReceiveClosed \/ HangUp \/ TimeOut \/ ServerCancels
           \/ UNCHANGED vars
  <2>1. /\ UNCHANGED <<chan, written, read, upstream>> /\ prod' \in {prod, "ended"}
    BY <1>8 DEF Exit, Watch, RequestDone, ReceiveClosed, HangUp, TimeOut, ServerCancels, Cancel,
                vars, producerVars, handlerVars
  <2>2. Counted'
    BY <1>2, <2>1
  <2>3. Sourced'
    BY <1>0, <2>1 DEF Sourced, Source, HasLastChunk, LastChunk
  <2>4. QED
    BY <1>0, <2>2, <2>3 DEF PromiseInv
<1>9. QED
  BY <1>4, <1>5, <1>6, <1>7, <1>8 DEF Next, Produce, Handle

LEMMA StepKeepsPromise == PromiseInv /\ [Next]_vars => [Promise!Next]_(Promise!promiseVars)
<1> SUFFICES ASSUME PromiseInv, [Next]_vars
             PROVE  Promise!Next \/ UNCHANGED <<read, Source, written, Told, ctx \cap {"hungUp", "timedOut"}>>
  BY DEF Promise!promiseVars
<1> DEFINE cut == ctx \cap {"hungUp", "timedOut"}
<1>0. Inv /\ Counted /\ Sourced /\ Numbers
  BY PendingFacts DEF PromiseInv
<1>1. CASE Scan
  <2>1. Source = "open" /\ UNCHANGED <<written, ctx, Told>>
    BY <1>0, <1>1 DEF Sourced, Scan, ScanData, ScanDone, ScanEnd, ScanError, handlerVars, Told
  <2>2. \/ read' = read + 1 /\ UNCHANGED Source
        \/ read' = read /\ Source' \in {"finished", "closedEarly", "failed"}
    BY <1>1 DEF Scan, ScanData, ScanDone, ScanEnd, ScanError, Source
  <2>3. QED
    BY <2>1, <2>2 DEF Promise!Next, Promise!Make, Promise!End
<1>2. CASE SendData \/ SendDone \/ SendError \/ Exit \/ Watch \/ UNCHANGED vars
  BY <1>2 DEF SendData, SendDone, SendError, Exit, Watch, vars, producerVars, handlerVars, Source, Told
<1>3. CASE RequestDone \/ ReceiveClosed
  <2>1. Told = "streaming" /\ Told' = "silent" /\ UNCHANGED <<read, written, ctx, Source>>
    BY <1>0, <1>3
       DEF RequestDone, ReceiveClosed, producerVars, Told, Source, Inv, StopsForAReason
  <2>2. cut # {}
    BY <1>0, <1>3 DEF RequestDone, ReceiveClosed, Inv, StopsForAReason, HasLastChunk, Producing
  <2>3. QED
    BY <2>1, <2>2 DEF Promise!Next, Promise!FallSilent
<1>4. CASE Receive
  <2>1. cons = "streaming" /\ Told = "streaming" /\ UNCHANGED <<read, ctx, Source>>
    BY <1>4 DEF Receive, producerVars, Told, Source
  <2>2. CASE written' = written + 1 /\ cons' = cons /\ last' = last /\ Pending >= 1
    <3>1. written < read
      BY <1>0, <2>2 DEF Counted, Numbers
    <3>2. Told' = Told
      BY <2>2 DEF Told
    <3>3. QED
      BY <2>1, <2>2, <3>1, <3>2 DEF Promise!Next, Promise!Deliver
  <2>3. CASE /\ written' = written /\ cons' = "ended" /\ last' = Head(chan).kind
             /\ HasLastChunk /\ LastChunk = Head(chan) /\ Head(chan) \in {Done, Err} /\ Pending = 0
    <3>1. written = read
      BY <1>0, <2>3 DEF Counted, Numbers
    <3>2. CASE Head(chan) = Done
      <4>1. Source \in {"finished", "closedEarly"}
        BY <1>0, <2>3, <3>2 DEF Inv, EndKnown, Ended, Source
      <4>2. Told' = "done"
        BY <2>3, <3>2, ChunkKinds DEF Told
      <4>3. QED
        BY <2>1, <2>3, <3>1, <4>1, <4>2 DEF Promise!Next, Promise!Tell
    <3>3. CASE Head(chan) = Err
      <4>1. Source = "failed"
        BY <1>0, <2>3, <3>3 DEF Sourced
      <4>2. Told' = "error"
        BY <2>3, <3>3, ChunkKinds DEF Told
      <4>3. QED
        BY <2>1, <2>3, <3>1, <4>1, <4>2 DEF Promise!Next, Promise!Tell
    <3>4. QED
      BY <2>3, <3>2, <3>3
  <2>4. QED
    BY <1>4, <2>2, <2>3, ReceivedFacts
<1>5. CASE HangUp \/ TimeOut \/ ServerCancels
  <2>1. UNCHANGED <<read, Source, written, Told>>
    BY <1>5 DEF HangUp, TimeOut, ServerCancels, Cancel, producerVars, handlerVars, Source, Told
  <2>2. \/ Told = "streaming" /\ cut' = cut \union {"hungUp"}
        \/ cut' = cut \union {"timedOut"}
        \/ cut' = cut
    BY <1>5 DEF HangUp, TimeOut, ServerCancels, Cancel, Told
  <2>3. QED
    BY <2>1, <2>2 DEF Promise!Next, Promise!Interrupt
<1>6. QED
  BY <1>1, <1>2, <1>3, <1>4, <1>5 DEF Next, Produce, Handle

\* Buffering, select and cancellation are not to be told from a promise of one
\* sequence: for every capacity and every length, streamSSE and its handler
\* deliver what was read chunk by chunk, and tell the end, good or bad, once and
\* after all of it, or nothing to a client that has hung up or run out of time.
THEOREM StreamKeepsPromise == Spec => KeepsPromise
<1>1. Init => Promise!Init
  BY DEF Init, Promise!Init, Source, Told
<1>2. QED
  BY <1>1, InitPromise, PromiseStep, StepKeepsPromise, PTL DEF Spec, KeepsPromise, Promise!Spec
===============================================================================
