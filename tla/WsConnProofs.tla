----------------------------- MODULE WsConnProofs -----------------------------
(***************************************************************************)
(* Theorems about WsConn for every channel capacity, every size limit,     *)
(* every set of client frames and every bound.                             *)
(***************************************************************************)
EXTENDS WsConn, SequenceTheorems, TLAPS

-------------------------------------------------------------------------------
(* The frames the server sends are well formed. *)

(* A close frame made from one of the reader's or the handler's codes. *)
LEMMA CloseFrameType ==
  ASSUME NEW code \in {1000, 1002, 1007, 1009}
  PROVE  CloseFrame(code) \in ServerFrame /\ CloseFrame(code).op = Close
BY DEF CloseFrame, ClosePayload, Frame, ServerFrame, Close

LEMMA FailCodeType ==
  ASSUME NEW a, NEW f, FailCode(a, f) # 0
  PROVE  FailCode(a, f) \in {1000, 1002, 1007, 1009}
BY DEF FailCode

LEMMA PayloadType ==
  ASSUME NEW f \in ClientFrame
  PROVE  f.payload \in Seq(Nat) /\ Len(f.payload) \in Nat /\ f.op \in Nat
<1>1. f.payload \in Seq(0..255) /\ f.op \in Nat
  BY DEF ClientFrame, Opcodes
<1>2. 0..255 \subseteq Nat
  OBVIOUS
<1>3. f.payload \in Seq(Nat)
  BY ONLY <1>1, <1>2, SeqMonotonic
<1> QED
  BY ONLY <1>1, <1>3, LenProperties

(* The echo of a client's close frame, and the answer to its ping. *)
LEMMA ReplyType ==
  ASSUME NEW f \in ClientFrame
  PROVE  /\ CloseReply(f) \in ServerFrame /\ CloseReply(f).op = Close
         /\ PongReply(f) \in ServerFrame /\ PongReply(f).op = Pong
<1>1. f.payload \in Seq(Nat) /\ Len(f.payload) \in Nat
  BY PayloadType
<1>2. ASSUME NEW n \in 0..Len(f.payload)
      PROVE  SubSeq(f.payload, 1, n) \in Seq(Nat)
  BY <1>1, <1>2
<1>3. ClosePayload(1002) \in Seq(Nat)
  BY DEF ClosePayload
<1>4. CloseReply(f) \in ServerFrame
  BY <1>1, <1>2, <1>3 DEF CloseReply, Frame, ServerFrame, Close
<1> QED
  BY <1>1, <1>4 DEF CloseReply, PongReply, Frame, ServerFrame, Close, Pong

LEMMA ValueFrameType ==
  ASSUME NEW n \in Nat
  PROVE  ValueFrame(n) \in ServerFrame /\ ValueFrame(n).op \in DataOps
BY DEF ValueFrame, Frame, ServerFrame, DataOps, Text, Binary

(* What one data frame leaves in the assembly and hands to the channel. *)
MessageType == [op : Nat, msg : Seq(Nat)]

LEMMA AssemblyType ==
  ASSUME NEW a \in MessageType, NEW f \in ClientFrame
  PROVE  Assembled(a, f) \in MessageType /\ Message(a, f) \in MessageType
<1>1. f.payload \in Seq(Nat) /\ f.op \in Nat
  BY PayloadType
<1>2. Grown(a, f) \in Seq(Nat)
  BY <1>1 DEF Grown, MessageType
<1>3. OpOf(a, f) \in Nat
  BY <1>1 DEF OpOf, MessageType
<1> QED
  BY <1>2, <1>3 DEF Assembled, Message, NoMessage, MessageType

-------------------------------------------------------------------------------
(* Type correctness, one step per action. *)

(* What the end of a send leaves behind is well typed. *)
LEMMA SendReturnsType ==
  ASSUME TypeOK, NEW g \in Writers, NEW ok \in BOOLEAN, SendReturns(g, ok)
  PROVE  /\ pc' \in [Writers -> Goroutine]
         /\ sending' \in [Writers -> ServerFrame]
         /\ socket' \in {"open", "closed"}
         /\ inClosed' \in BOOLEAN
<1>1. AfterSend(g, ok) \in Goroutine
  BY DEF AfterSend, Goroutine, Writers
<1>2. NoFrame \in ServerFrame
  BY DEF NoFrame, ServerFrame
<1> QED
  BY <1>1, <1>2 DEF SendReturns, TypeOK

LEMMA TypeStep == TypeOK /\ [Next]_vars => TypeOK'
<1> SUFFICES ASSUME TypeOK, [Next]_vars PROVE TypeOK'
  OBVIOUS
<1> USE ConnAssumption DEF TypeOK, puts
<1>0. ASSUME Puts, pc' \in [Writers -> Goroutine] PROVE TypeOK'
  <2>1. out' \in Seq(Nat) /\ Len(out') <= ChanCap /\ queued' \in Nat
    BY <1>0 DEF Puts
  <2> QED
    BY <1>0, <2>1 DEF Puts, others, wire, readSide
<1>1. ASSUME NEW g \in Writers, SendRejected(g) PROVE TypeOK'
  <2>1. SendReturns(g, FALSE)
    BY <1>1 DEF SendRejected
  <2> QED
    BY <1>1, <2>1, SendReturnsType DEF SendRejected, SendReturns, wire, readSide
<1>2. ASSUME NEW g \in Writers, SendHeader(g) PROVE TypeOK'
  <2>1. heads' \in Seq(Writers)
    BY <1>2 DEF SendHeader
  <2>2. writing' \subseteq Writers
    BY <1>2 DEF SendHeader
  <2> QED
    BY <1>2, <2>1, <2>2 DEF SendHeader, channels, readSide
<1>3. ASSUME NEW g \in Writers, SendBody(g) PROVE TypeOK'
  <2>1. SendReturns(g, TRUE)
    BY <1>3 DEF SendBody
  <2>2. frames' \in Seq(ServerFrame) /\ flushed' \in Nat /\ heads' \in Seq(Writers)
    BY <1>3 DEF SendBody
  <2>3. mixed' \in BOOLEAN /\ closer' \in Writers \cup {"none"} /\ closeSent' \in BOOLEAN
    BY <1>3 DEF SendBody
  <2> QED
    BY <1>3, <2>1, <2>2, <2>3, SendReturnsType DEF SendBody, SendReturns, readSide
<1>4. ASSUME NEW g \in Writers, SendFails(g) PROVE TypeOK'
  <2>1. SendReturns(g, FALSE)
    BY <1>4 DEF SendFails
  <2>2. heads' \in Seq(Writers) /\ writing' \subseteq Writers
    BY <1>4 DEF SendFails
  <2> QED
    BY <1>4, <2>1, <2>2, SendReturnsType DEF SendFails, SendReturns, readSide
<1>5. ASSUME NEW g \in Writers, Send(g) PROVE TypeOK'
  BY <1>1, <1>2, <1>3, <1>4, <1>5 DEF Send
<1>6. CASE Pump
  <2>1. ASSUME NEW from, NEW to \in Goroutine, TakesFromOut(from, to) PROVE TypeOK'
    <3>1. Head(out) \in Nat /\ out' \in Seq(Nat) /\ Len(out') <= ChanCap
      BY <2>1, HeadTailProperties DEF TakesFromOut
    <3>2. sending' \in [Writers -> ServerFrame] /\ pc' \in [Writers -> Goroutine]
      BY <2>1, <3>1, ValueFrameType DEF TakesFromOut, Writers
    <3> QED
      BY <2>1, <3>1, <3>2 DEF TakesFromOut, wire, readSide
  <2>2. ASSUME NEW from, NEW to \in Goroutine, PumpMoves(from, to) PROVE TypeOK'
    <3>1. pc' \in [Writers -> Goroutine]
      BY <2>2 DEF PumpMoves
    <3> QED
      BY <2>2, <3>1 DEF PumpMoves, wire, readSide, channels
  <2>3. {"send", "drainSend", "done", "drain"} \subseteq Goroutine /\ "pump" \in Writers
    BY DEF Goroutine, Writers
  <2> QED
    BY <1>5, <1>6, <2>1, <2>2, <2>3
    DEF Pump, PumpTakes, PumpOutClosed, PumpStops, PumpDrains, PumpDrained
<1>7. CASE Pinger
  <2>1. ASSUME PingTicks PROVE TypeOK'
    <3>1. Frame(Ping, <<>>) \in ServerFrame
      BY DEF Frame, Ping, ServerFrame
    <3>2. sending' \in [Writers -> ServerFrame]
      BY <2>1, <3>1 DEF PingTicks
    <3>3. pc' \in [Writers -> Goroutine]
      BY <2>1 DEF PingTicks, Goroutine
    <3>4. pings' \in Nat
      BY <2>1 DEF PingTicks
    <3> QED
      BY <2>1, <3>2, <3>3, <3>4 DEF PingTicks, wire, readSide, channels
  <2>2. ASSUME PingStops PROVE TypeOK'
    <3>1. pc' \in [Writers -> Goroutine]
      BY <2>2 DEF PingStops, Goroutine
    <3> QED
      BY <2>2, <3>1 DEF PingStops, wire, readSide, channels
  <2> QED
    BY <1>5, <1>7, <2>1, <2>2 DEF Pinger, Writers
<1>8. CASE Reader
  <2>1. ASSUME ReaderReads PROVE TypeOK'
    <3>1. PICK f \in ClientFrames :
            \/ TooLarge(f) /\ GivesUp
            \/ FailCode(asm, f) # 0 /\ Replies(CloseFrame(FailCode(asm, f)))
            \/ Acceptable(asm, f) /\ \/ f.op = Close /\ Replies(CloseReply(f))
                                     \/ f.op = Ping /\ Replies(PongReply(f))
                                     \/ f.op = Pong /\ Ignores
                                     \/ CarriesData(f) /\ TakesData(f)
      BY <2>1 DEF ReaderReads
    <3>2. f \in ClientFrame
      OBVIOUS
    <3> DEFINE Typed == /\ pc' \in [Writers -> Goroutine]
                        /\ sending' \in [Writers -> ServerFrame]
                        /\ asm' \in MessageType
                        /\ delivering' \in Seq(MessageType) /\ Len(delivering') <= 1
                        /\ inClosed' \in BOOLEAN
    <3>3. ASSUME NEW r \in ServerFrame, Replies(r) PROVE Typed
      BY <3>3 DEF Replies, Goroutine, MessageType
    <3>4. ASSUME GivesUp PROVE Typed
      <4>1. NoMessage \in MessageType
        BY DEF NoMessage, MessageType
      <4> QED
        BY <3>4, <4>1 DEF GivesUp, Goroutine, MessageType
    <3>5. ASSUME TakesData(f) PROVE Typed
      <4>1. Assembled(asm, f) \in MessageType /\ Message(asm, f) \in MessageType
        BY <3>2, AssemblyType DEF MessageType
      <4>2. delivering' \in Seq(MessageType) /\ Len(delivering') <= 1
        BY <3>5, <4>1 DEF TakesData
      <4> QED
        BY <3>5, <4>1, <4>2 DEF TakesData, Goroutine
    <3>6. ASSUME Ignores PROVE Typed
      BY <3>6 DEF Ignores, MessageType
    <3>7. ASSUME FailCode(asm, f) # 0, Replies(CloseFrame(FailCode(asm, f))) PROVE Typed
      BY ONLY <3>3, <3>7, CloseFrameType, FailCodeType
    <3>8. ASSUME Replies(CloseReply(f)) \/ Replies(PongReply(f)) PROVE Typed
      BY ONLY <3>2, <3>3, <3>8, ReplyType
    <3>9. Typed
      BY ONLY <3>1, <3>4, <3>5, <3>6, <3>7, <3>8
    <3> QED
      BY <2>1, <3>9 DEF ReaderReads, MessageType, wire
  <2>2. ASSUME ReadFails PROVE TypeOK'
    <3>1. pc' \in [Writers -> Goroutine]
      BY <2>2 DEF ReadFails, GivesUp, Goroutine
    <3> QED
      BY <2>2, <3>1 DEF ReadFails, GivesUp, NoMessage, wire
  <2>3. ASSUME ReaderDelivers PROVE TypeOK'
    <3>1. pc' \in [Writers -> Goroutine]
      BY <2>3 DEF ReaderDelivers, Goroutine
    <3>2. in' \in Seq(MessageType) /\ Len(in') <= ChanCap
      BY <2>3, ConcatProperties DEF ReaderDelivers, MessageType
    <3> QED
      BY <2>3, <3>1, <3>2 DEF ReaderDelivers, wire, MessageType
  <2> QED
    BY <1>5, <1>8, <2>1, <2>2, <2>3 DEF Reader, ReaderEnds, Writers
<1>9. CASE HandlerForced
  <2>1. ASSUME HandlerPuts PROVE TypeOK'
    <3>1. pc' \in [Writers -> Goroutine]
      BY <2>1 DEF HandlerPuts, HandlerMoves, Goroutine
    <3> QED
      BY <1>0, <2>1, <3>1 DEF HandlerPuts
  <2>2. ASSUME HandlerJoins PROVE TypeOK'
    <3>1. CloseFrame(1000) \in ServerFrame
      BY CloseFrameType
    <3>2. sending' \in [Writers -> ServerFrame]
      BY <2>2, <3>1 DEF HandlerJoins
    <3>3. pc' \in [Writers -> Goroutine]
      BY <2>2 DEF HandlerJoins, HandlerMoves, Goroutine
    <3> QED
      BY <2>2, <3>2, <3>3 DEF HandlerJoins, HandlerMoves, wire, readSide, channels
  <2> QED
    BY <1>5, <1>9, <2>1, <2>2 DEF HandlerForced, Writers
<1>10. CASE HandlerChooses
  <2>1. ASSUME NEW from, NEW to \in Goroutine, HandlerMoves(from, to)
        PROVE  pc' \in [Writers -> Goroutine]
    BY <2>1 DEF HandlerMoves
  <2>2. {"running", "put", "waiting", "panicked"} \subseteq Goroutine
    BY DEF Goroutine
  <2>3. CASE HandlerReceives
    <3>1. in' \in Seq(MessageType) /\ Len(in') <= ChanCap
      BY <2>3, HeadTailProperties DEF HandlerReceives, MessageType
    <3> QED
      BY <2>3, <3>1 DEF HandlerReceives, others, wire, readSide, MessageType
  <2>4. CASE HandlerSends
    BY <2>1, <2>2, <2>4 DEF HandlerSends, others, wire, readSide, channels
  <2>5. CASE HandlerClosesOut
    BY <2>5 DEF HandlerClosesOut, others, wire, readSide
  <2>6. CASE HandlerReturns
    BY <2>1, <2>2, <2>6 DEF HandlerReturns, others, wire, readSide
  <2>7. CASE HandlerPanics
    BY <2>1, <2>2, <2>7 DEF HandlerPanics, others, wire, readSide, channels
  <2>8. CASE ProducerPuts
    BY <1>0, <2>8 DEF ProducerPuts
  <2>9. CASE ProducersEnd
    BY <2>9 DEF ProducersEnd, others, wire, readSide, channels
  <2> QED
    BY <1>10, <2>3, <2>4, <2>5, <2>6, <2>7, <2>8, <2>9 DEF HandlerChooses
<1>11. CASE ClientLeaves
  <2>1. pc' \in [Writers -> Goroutine]
    BY <1>11 DEF ClientLeaves, ReadFails, GivesUp, Goroutine
  <2> QED
    BY <1>11, <2>1 DEF ClientLeaves, ReadFails, GivesUp, NoMessage, wire
<1>12. CASE UNCHANGED vars
  BY <1>12 DEF vars, channels, wire, readSide
<1> QED
  BY <1>6, <1>7, <1>8, <1>9, <1>10, <1>11, <1>12 DEF Next

LEMMA TypeInit == Init => TypeOK
<1> SUFFICES ASSUME Init PROVE TypeOK
  OBVIOUS
<1>1. pc \in [Writers -> Goroutine]
  BY DEF Init, Goroutine, Writers
<1>2. sending \in [Writers -> ServerFrame]
  BY DEF Init, NoFrame, ServerFrame
<1>3. asm \in [op : Nat, msg : Seq(Nat)]
  BY DEF Init, NoMessage
<1>4. in \in Seq([op : Nat, msg : Seq(Nat)]) /\ Len(in) <= ChanCap
  BY ConnAssumption DEF Init
<1>5. out \in Seq(Nat) /\ Len(out) <= ChanCap
  BY ConnAssumption DEF Init
<1>6. delivering \in Seq([op : Nat, msg : Seq(Nat)]) /\ Len(delivering) <= 1
  BY DEF Init
<1>7. frames \in Seq(ServerFrame) /\ heads \in Seq(Writers)
  BY DEF Init
<1> QED
  BY <1>1, <1>2, <1>3, <1>4, <1>5, <1>6, <1>7 DEF Init, TypeOK

(* Every reachable state is well typed; in particular neither channel ever *)
(* holds more than its capacity.                                           *)
THEOREM TypeCorrect == Spec => []TypeOK
BY TypeInit, TypeStep, PTL DEF Spec

-------------------------------------------------------------------------------
(* The inductive invariant, one lemma for the steps of wsConn.send and one *)
(* for each goroutine's own steps.                                         *)

LEMMA InSendValue ==
  ASSUME NEW n \in Nat
  PROVE  ValueFrame(n) # NoFrame
BY DEF ValueFrame, NoFrame, Frame, Text, Binary

LEMMA RejectedInv ==
  ASSUME IInv, NEW g \in Writers, SendRejected(g)
  PROVE  LockInv' /\ SendingInv' /\ OutInv' /\ StopInv' /\ CloseInv' /\ FramesWhole'
         /\ FlushedBeforeClose'
<1> USE DEF IInv, TypeOK, puts, SendRejected, SendReturns, InSend, wire, readSide
<1>1. LockInv'
  BY DEF LockInv
<1>2. SendingInv'
  BY DEF SendingInv, AfterSend, Writers
<1>3. OutInv'
  BY DEF OutInv, InFlight, SendingInv, AfterSend, Writers
<1>4. StopInv'
  BY DEF StopInv, SendingInv, AfterSend, Writers
<1>5. CloseInv'
  BY DEF CloseInv, ClientView!Closed
<1>6. FramesWhole' /\ FlushedBeforeClose'
  BY DEF FramesWhole, FlushedBeforeClose
<1> QED
  BY <1>1, <1>2, <1>3, <1>4, <1>5, <1>6

LEMMA HeaderInv ==
  ASSUME IInv, NEW g \in Writers, SendHeader(g)
  PROVE  LockInv' /\ SendingInv' /\ OutInv' /\ StopInv' /\ CloseInv' /\ FramesWhole'
         /\ FlushedBeforeClose'
<1> USE DEF IInv, TypeOK, puts, SendHeader, InSend, readSide, channels
<1>0. heads = <<>> /\ ~broken => heads' = <<g>>
  OBVIOUS
<1>1. LockInv'
  BY <1>0 DEF LockInv
<1>2. SendingInv'
  BY DEF SendingInv
<1>3. OutInv'
  BY DEF OutInv, InFlight
<1>4. StopInv'
  BY DEF StopInv
<1>5. CloseInv'
  BY DEF CloseInv, ClientView!Closed
<1>6. FramesWhole' /\ FlushedBeforeClose'
  BY DEF FramesWhole, FlushedBeforeClose
<1> QED
  BY <1>1, <1>2, <1>3, <1>4, <1>5, <1>6

LEMMA BodyInv ==
  ASSUME IInv, NEW g \in Writers, SendBody(g)
  PROVE  LockInv' /\ SendingInv' /\ OutInv' /\ StopInv' /\ CloseInv' /\ FramesWhole'
         /\ FlushedBeforeClose'
<1> USE DEF IInv, TypeOK, puts, SendBody, SendReturns, InSend, readSide
<1>1. InSend(g) /\ ~closeSent /\ writing = {g} /\ writing' = {}
  BY DEF LockInv
<1>2. LockInv'
  BY <1>1 DEF LockInv
<1>3. SendingInv'
  BY DEF SendingInv, AfterSend, Writers
<1>4. sending[g].op \in DataOps <=> g = "pump"
  <2>1. ValueFrame(flushed + 1).op \in DataOps
    BY ValueFrameType
  <2>2. CASE g = "pump"
    BY ONLY <1>1, <2>1, <2>2, OutInv DEF OutInv, InSend
  <2>3. CASE g # "pump"
    <3>1. sending[g].op \in {Close, Ping, Pong}
      BY ONLY <1>1, <2>3, g \in Writers, SendingInv DEF SendingInv
    <3> QED
      BY ONLY <2>3, <3>1 DEF DataOps, Text, Binary, Close, Ping, Pong
  <2> QED
    BY <2>2, <2>3
<1>5. OutInv'
  <2>1. CASE g = "pump"
    <3>1. InFlight = 1 /\ InFlight' = 0 /\ flushed' = flushed + 1 /\ pc["pump"] # "done"
      BY <1>1, <1>4, <2>1 DEF InFlight, SendingInv, Writers
    <3>2. flushed < queued /\ ~InSend("pump")'
      BY <1>1, <2>1 DEF OutInv, Writers
    <3>3. /\ queued = flushed + 1 + Len(out)
          /\ \A i \in 1..Len(out) : out[i] = flushed + 1 + i
      BY <3>1 DEF OutInv
    <3>4. queued' = queued /\ out' = out
      OBVIOUS
    <3> QED
      BY ONLY <3>1, <3>2, <3>3, <3>4, flushed \in Nat, queued \in Nat DEF OutInv, InSend
  <2>2. CASE g # "pump"
    <3>1. /\ InFlight' = InFlight /\ flushed' = flushed /\ pc'["pump"] = pc["pump"]
          /\ sending'["pump"] = sending["pump"] /\ queued' = queued /\ out' = out
      BY <1>4, <2>2 DEF InFlight, Writers
    <3> QED
      BY ONLY <3>1, OutInv DEF OutInv, InSend
  <2> QED
    BY <2>1, <2>2
<1>6. StopInv'
  BY <1>1, <1>4 DEF StopInv, SendingInv, AfterSend, Writers
<1>7. CloseInv'
  <2>1. ~ClientView!Closed
    BY <1>1 DEF CloseInv
  <2>2. /\ Len(frames') = Len(frames) + 1
        /\ frames'[Len(frames) + 1] = sending[g]
        /\ \A i \in 1..Len(frames) : frames'[i] = frames[i]
    OBVIOUS
  <2>3. ClientView!Closed' <=> sending[g].op = 8
    BY ONLY <2>1, <2>2, frames \in Seq(ServerFrame) DEF ClientView!Closed, ClientView!Close
  <2> QED
    BY <1>1, <2>3 DEF CloseInv, Close
<1>8. FramesWhole'
  BY <1>1 DEF FramesWhole, LockInv
<1>9. FlushedBeforeClose'
  BY <1>1, <1>4 DEF FlushedBeforeClose, StopInv, SendingInv
<1> QED
  BY <1>2, <1>3, <1>5, <1>6, <1>7, <1>8, <1>9

LEMMA FailsInv ==
  ASSUME IInv, NEW g \in Writers, SendFails(g)
  PROVE  LockInv' /\ SendingInv' /\ OutInv' /\ StopInv' /\ CloseInv' /\ FramesWhole'
         /\ FlushedBeforeClose'
<1> USE DEF IInv, TypeOK, puts, SendFails, SendReturns, InSend, readSide
<1>1. LockInv'
  BY DEF LockInv
<1>2. SendingInv'
  BY DEF SendingInv, AfterSend, Writers
<1>3. OutInv'
  BY DEF OutInv, InFlight, SendingInv, AfterSend, Writers
<1>4. StopInv'
  BY DEF StopInv, SendingInv, AfterSend, Writers
<1>5. CloseInv'
  BY DEF CloseInv, ClientView!Closed
<1>6. FramesWhole' /\ FlushedBeforeClose'
  BY DEF FramesWhole, FlushedBeforeClose
<1> QED
  BY <1>1, <1>2, <1>3, <1>4, <1>5, <1>6

LEMMA SendInv ==
  ASSUME IInv, NEW g \in Writers, Send(g)
  PROVE  LockInv' /\ SendingInv' /\ OutInv' /\ StopInv' /\ CloseInv' /\ FramesWhole'
         /\ FlushedBeforeClose'
BY RejectedInv, HeaderInv, BodyInv, FailsInv DEF Send

LEMMA PumpInv ==
  ASSUME IInv, Pump
  PROVE  LockInv' /\ SendingInv' /\ OutInv' /\ StopInv' /\ CloseInv' /\ FramesWhole'
         /\ FlushedBeforeClose'
<1> USE DEF IInv, TypeOK, puts, InSend, wire, readSide
<1>1. ASSUME NEW from \in {"select", "drain"}, NEW to \in {"send", "drainSend"},
             from = "drain" <=> to = "drainSend", TakesFromOut(from, to)
      PROVE  LockInv' /\ SendingInv' /\ OutInv' /\ StopInv' /\ CloseInv' /\ FramesWhole'
             /\ FlushedBeforeClose'
  <2> USE <1>1 DEF TakesFromOut
  <2>1. ~InSend("pump") /\ "pump" \in Writers /\ "pump" \notin writing
    BY DEF SendingInv, LockInv, Writers
  <2>2. /\ Head(out) = out[1] /\ Len(out') = Len(out) - 1
        /\ \A i \in 1..Len(out') : out'[i] = out[i + 1]
    BY HeadTailProperties
  <2>3. Len(out) \in Nat \ {0} /\ out[1] = flushed + 1 /\ flushed < queued
    BY <2>1 DEF OutInv, InFlight
  <2>4. sending'["pump"] = ValueFrame(flushed + 1) /\ sending'["pump"] # NoFrame
    <3>1. sending'["pump"] = ValueFrame(Head(out))
      BY <2>1
    <3>2. Head(out) = flushed + 1
      BY <2>2, <2>3
    <3>3. ValueFrame(flushed + 1) # NoFrame
      BY InSendValue
    <3> QED
      BY ONLY <3>1, <3>2, <3>3
  <2>5. LockInv'
    BY <2>1, <2>4 DEF LockInv
  <2>6. SendingInv'
    BY <2>1, <2>4 DEF SendingInv, Writers
  <2>7. OutInv'
    <3>1. InFlight = 0 /\ InFlight' = 1 /\ flushed' = flushed /\ queued' = queued
      BY <2>1, <2>4 DEF InFlight
    <3>2. /\ queued = flushed + Len(out)
          /\ \A i \in 1..Len(out) : out[i] = flushed + i
      BY <3>1 DEF OutInv
    <3>3. /\ queued' = flushed' + InFlight' + Len(out')
          /\ \A i \in 1..Len(out') : out'[i] = flushed' + InFlight' + i
      BY ONLY <2>2, <2>3, <3>1, <3>2, flushed \in Nat, queued \in Nat
    <3> QED
      BY <2>3, <2>4, <3>1, <3>3 DEF OutInv
  <2>8. StopInv'
    BY <2>1 DEF StopInv, Writers
  <2>9. CloseInv' /\ FramesWhole' /\ FlushedBeforeClose'
    BY DEF CloseInv, ClientView!Closed, FramesWhole, FlushedBeforeClose
  <2> QED
    BY <2>5, <2>6, <2>7, <2>8, <2>9
<1>2. ASSUME NEW from \in {"select", "drain"}, NEW to \in {"drain", "done"},
             PumpMoves(from, to), to = "drain" => stop,
             to = "done" => out = <<>> /\ (outClosed \/ stop)
      PROVE  LockInv' /\ SendingInv' /\ OutInv' /\ StopInv' /\ CloseInv' /\ FramesWhole'
             /\ FlushedBeforeClose'
  <2> USE <1>2 DEF PumpMoves, channels
  <2>1. ~InSend("pump") /\ "pump" \in Writers
    BY DEF SendingInv, Writers
  <2>2. LockInv'
    BY DEF LockInv
  <2>3. SendingInv'
    BY <2>1 DEF SendingInv, Writers
  <2>4. OutInv'
    BY <2>1 DEF OutInv, InFlight
  <2>5. to = "done" => flushed = queued
    BY <2>1 DEF OutInv, InFlight
  <2>6. StopInv'
    BY <2>1, <2>5 DEF StopInv, Writers
  <2>7. CloseInv' /\ FramesWhole' /\ FlushedBeforeClose'
    BY DEF CloseInv, ClientView!Closed, FramesWhole, FlushedBeforeClose
  <2> QED
    BY <2>2, <2>3, <2>4, <2>6, <2>7
<1>3. pc["pump"] = "drain" => stop
  BY DEF StopInv
<1>4. CASE PumpTakes
  BY <1>1, <1>4 DEF PumpTakes
<1>5. CASE PumpDrains
  BY <1>1, <1>5 DEF PumpDrains
<1>6. CASE PumpOutClosed
  BY <1>2, <1>6 DEF PumpOutClosed
<1>7. CASE PumpStops
  BY <1>2, <1>7 DEF PumpStops
<1>8. CASE PumpDrained
  BY <1>2, <1>3, <1>8 DEF PumpDrained, PumpMoves
<1>9. CASE Send("pump")
  BY <1>9, SendInv DEF Writers
<1> QED
  BY <1>4, <1>5, <1>6, <1>7, <1>8, <1>9 DEF Pump

LEMMA PingerInv ==
  ASSUME IInv, Pinger
  PROVE  LockInv' /\ SendingInv' /\ OutInv' /\ StopInv' /\ CloseInv' /\ FramesWhole'
         /\ FlushedBeforeClose'
<1> USE DEF IInv, TypeOK, puts, InSend, wire, readSide, channels
<1>1. CASE PingTicks
  <2> USE <1>1 DEF PingTicks
  <2>1. sending'["pinger"].op = Ping /\ sending'["pinger"] # NoFrame
    BY DEF Frame, Ping, NoFrame, Writers
  <2>2. LockInv'
    BY <2>1 DEF LockInv
  <2>3. SendingInv'
    BY <2>1 DEF SendingInv, Writers
  <2>4. OutInv'
    BY DEF OutInv, InFlight, Writers
  <2>5. StopInv'
    BY DEF StopInv, Writers
  <2>6. CloseInv' /\ FramesWhole' /\ FlushedBeforeClose'
    BY DEF CloseInv, ClientView!Closed, FramesWhole, FlushedBeforeClose
  <2> QED
    BY <2>2, <2>3, <2>4, <2>5, <2>6
<1>2. CASE PingStops
  <2> USE <1>2 DEF PingStops
  <2>1. LockInv' /\ SendingInv' /\ OutInv'
    BY DEF LockInv, SendingInv, OutInv, InFlight, Writers
  <2>2. StopInv'
    BY DEF StopInv, Writers
  <2>3. CloseInv' /\ FramesWhole' /\ FlushedBeforeClose'
    BY DEF CloseInv, ClientView!Closed, FramesWhole, FlushedBeforeClose
  <2> QED
    BY <2>1, <2>2, <2>3
<1>3. CASE Send("pinger")
  BY <1>3, SendInv DEF Writers
<1> QED
  BY <1>1, <1>2, <1>3 DEF Pinger

(* The reader touches the write side only through the frame it sends. *)
LEMMA ReaderInv ==
  ASSUME IInv, Reader \/ ClientLeaves
  PROVE  LockInv' /\ SendingInv' /\ OutInv' /\ StopInv' /\ CloseInv' /\ FramesWhole'
         /\ FlushedBeforeClose'
<1> USE DEF IInv, TypeOK, puts, InSend, wire
<1> DEFINE ReaderOnly ==
      /\ pc' = [pc EXCEPT !["reader"] = pc'["reader"]]
      /\ \/ sending' = sending
         \/ /\ sending' = [sending EXCEPT !["reader"] = sending'["reader"]]
            /\ sending'["reader"].op \in {Close, Ping, Pong}
      /\ UNCHANGED <<writing, closeSent, out, outClosed, stop, puts, wire>>
<1>1. ASSUME ReaderOnly
      PROVE  LockInv' /\ SendingInv' /\ OutInv' /\ StopInv' /\ CloseInv' /\ FramesWhole'
             /\ FlushedBeforeClose'
  <2> USE <1>1
  <2>1. \A g \in Writers \ {"reader"} : pc'[g] = pc[g] /\ sending'[g] = sending[g]
    OBVIOUS
  <2>2. sending' = sending \/ sending'["reader"] # NoFrame
    BY DEF NoFrame, Close, Ping, Pong
  <2>3. LockInv'
    BY <2>1, <2>2 DEF LockInv
  <2>4. SendingInv'
    BY <2>1 DEF SendingInv, Writers
  <2>5. OutInv'
    BY <2>1 DEF OutInv, InFlight, Writers
  <2>6. StopInv'
    BY <2>1 DEF StopInv, Writers
  <2>7. CloseInv' /\ FramesWhole' /\ FlushedBeforeClose'
    BY DEF CloseInv, ClientView!Closed, FramesWhole, FlushedBeforeClose
  <2> QED
    BY <2>3, <2>4, <2>5, <2>6, <2>7
<1>2. CASE ReaderReads
  <2>1. PICK f \in ClientFrames :
          \/ GivesUp \/ Ignores \/ TakesData(f)
          \/ FailCode(asm, f) # 0 /\ Replies(CloseFrame(FailCode(asm, f)))
          \/ Replies(CloseReply(f)) \/ Replies(PongReply(f))
    BY <1>2 DEF ReaderReads
  <2>2. f \in ClientFrame
    BY ConnAssumption
  <2>3. ASSUME NEW r, r.op \in {Close, Ping, Pong}, Replies(r) PROVE ReaderOnly
    BY <1>2, <2>3 DEF ReaderReads, Replies, Writers
  <2>4. ASSUME GivesUp \/ Ignores \/ TakesData(f) PROVE ReaderOnly
    BY <1>2, <2>4 DEF ReaderReads, GivesUp, Ignores, TakesData, Writers
  <2>5. ReaderOnly
    BY ONLY <2>1, <2>2, <2>3, <2>4, CloseFrameType, FailCodeType, ReplyType
  <2> QED
    BY <1>1, <2>5
<1>3. CASE ReadFails
  <2>1. ReaderOnly
    BY <1>3 DEF ReadFails, GivesUp, Writers
  <2> QED
    BY <1>1, <2>1
<1>4. CASE ReaderDelivers
  <2>1. ReaderOnly
    BY <1>4 DEF ReaderDelivers, Writers
  <2> QED
    BY <1>1, <2>1
<1>5. CASE Send("reader")
  BY <1>5, SendInv DEF Writers
<1> QED
  BY <1>2, <1>3, <1>4, <1>5 DEF Reader, ReaderEnds, ClientLeaves

(* The handler's steps other than its close frame. *)
LEMMA HandlerInv ==
  ASSUME IInv, HandlerForced \/ HandlerChooses
  PROVE  LockInv' /\ SendingInv' /\ OutInv' /\ StopInv' /\ CloseInv' /\ FramesWhole'
         /\ FlushedBeforeClose'
<1> USE DEF IInv, TypeOK, puts, InSend, wire, readSide, channels, others, HandlerMoves
<1>1. ASSUME Puts, pc'["pump"] = pc["pump"],
             pc' = pc \/ (pc["handler"] = "put" /\ pc'["handler"] = "running")
      PROVE  LockInv' /\ SendingInv' /\ OutInv' /\ StopInv' /\ CloseInv' /\ FramesWhole'
             /\ FlushedBeforeClose'
  <2> USE <1>1 DEF Puts
  <2>1. /\ Len(out') = Len(out) + 1 /\ out'[Len(out) + 1] = queued + 1
        /\ \A i \in 1..Len(out) : out'[i] = out[i]
    OBVIOUS
  <2>2. LockInv' /\ SendingInv'
    BY DEF LockInv, SendingInv, Writers
  <2>3. InFlight' = InFlight /\ InFlight \in {0, 1}
    BY DEF InFlight
  <2>4. OutInv'
    <3>1. ASSUME pc["pump"] # "done"
          PROVE  /\ queued' = flushed' + InFlight' + Len(out')
                 /\ \A i \in 1..Len(out') : out'[i] = flushed' + InFlight' + i
      <4>1. /\ queued = flushed + InFlight + Len(out)
            /\ \A i \in 1..Len(out) : out[i] = flushed + InFlight + i
        BY <3>1 DEF OutInv
      <4>2. flushed' = flushed /\ queued' = queued + 1 /\ Len(out) \in Nat
        OBVIOUS
      <4> QED
        BY ONLY <2>1, <2>3, <4>1, <4>2, flushed \in Nat, queued \in Nat
    <3>3. flushed' <= queued' /\ (InSend("pump") => flushed' < queued')
      BY DEF OutInv
    <3> QED
      BY <3>1, <3>3 DEF OutInv
  <2>5. StopInv'
    BY DEF StopInv, Writers
  <2>6. CloseInv' /\ FramesWhole' /\ FlushedBeforeClose'
    BY DEF CloseInv, ClientView!Closed, FramesWhole, FlushedBeforeClose, StopInv
  <2> QED
    BY <2>2, <2>4, <2>5, <2>6
<1>2. CASE HandlerJoins
  <2> USE <1>2 DEF HandlerJoins
  <2>1. sending'["handler"].op = Close /\ sending'["handler"] # NoFrame
    BY CloseFrameType DEF NoFrame, Close, Writers
  <2>2. ~InSend("handler")
    BY DEF SendingInv
  <2>3. LockInv'
    BY <2>1, <2>2 DEF LockInv
  <2>4. SendingInv'
    BY <2>1 DEF SendingInv, Writers
  <2>5. OutInv'
    BY DEF OutInv, InFlight, Writers
  <2>6. StopInv'
    BY DEF StopInv, Writers
  <2>7. CloseInv' /\ FramesWhole' /\ FlushedBeforeClose'
    BY DEF CloseInv, ClientView!Closed, FramesWhole, FlushedBeforeClose
  <2> QED
    BY <2>3, <2>4, <2>5, <2>6, <2>7
<1>3. CASE Send("handler")
  BY <1>3, SendInv DEF Writers
<1>4. CASE HandlerReceives \/ HandlerSends \/ HandlerClosesOut
  <2> USE <1>4 DEF HandlerReceives, HandlerSends, HandlerClosesOut
  <2>1. LockInv'
    BY DEF LockInv
  <2>5. SendingInv'
    <3>1. sending' = sending /\ pc'["pump"] = pc["pump"]
      BY DEF Writers
    <3>2. pc["handler"] = "send" <=> pc'["handler"] = "send"
      BY DEF Writers
    <3> QED
      BY ONLY <3>1, <3>2, SendingInv DEF SendingInv, InSend
  <2>2. OutInv'
    BY DEF OutInv, InFlight, Writers
  <2>3. StopInv'
    <3>1. /\ pc'["pump"] = pc["pump"] /\ (outClosed => outClosed')
          /\ UNCHANGED <<stop, owed, queued, flushed, closer, closeSent, broken>>
      BY DEF Writers
    <3>2. \/ pc'["handler"] = pc["handler"]
          \/ pc["handler"] = "running" /\ pc'["handler"] = "put"
      BY DEF Writers
    <3> QED
      BY ONLY <3>1, <3>2, StopInv DEF StopInv
  <2>4. CloseInv' /\ FramesWhole' /\ FlushedBeforeClose'
    <3>1. closeSent' = closeSent /\ frames' = frames /\ mixed' = mixed
      OBVIOUS
    <3>2. CloseInv'
      BY ONLY <3>1, CloseInv DEF CloseInv, ClientView!Closed
    <3>3. FramesWhole'
      BY DEF FramesWhole
    <3>4. FlushedBeforeClose'
      BY DEF FlushedBeforeClose
    <3> QED
      BY ONLY <3>2, <3>3, <3>4
  <2> QED
    BY <2>1, <2>2, <2>3, <2>4, <2>5
<1>5. CASE HandlerReturns \/ HandlerPanics
  <2> USE <1>5 DEF HandlerReturns, HandlerPanics
  <2>1. LockInv'
    BY DEF LockInv
  <2>5. SendingInv'
    <3>1. sending' = sending /\ pc'["pump"] = pc["pump"]
      BY DEF Writers
    <3>2. pc["handler"] # "send" /\ pc'["handler"] # "send"
      BY DEF Writers
    <3> QED
      BY ONLY <3>1, <3>2, SendingInv DEF SendingInv, InSend
  <2>2. OutInv'
    BY DEF OutInv, InFlight, Writers
  <2>3. StopInv'
    BY DEF StopInv, Writers
  <2>4. CloseInv' /\ FramesWhole' /\ FlushedBeforeClose'
    <3>1. closer' = closer /\ closer # "handler"
      BY DEF StopInv, Writers
    <3> QED
      BY <3>1 DEF CloseInv, ClientView!Closed, FramesWhole, FlushedBeforeClose
  <2> QED
    BY <2>1, <2>2, <2>3, <2>4, <2>5
<1>6. CASE HandlerPuts
  BY <1>1, <1>6 DEF HandlerPuts, Writers
<1>7. CASE ProducerPuts
  BY <1>1, <1>7 DEF ProducerPuts
<1>8. CASE ProducersEnd
  <2> USE <1>8 DEF ProducersEnd
  <2>1. LockInv' /\ SendingInv' /\ OutInv'
    BY DEF LockInv, SendingInv, OutInv, InFlight
  <2>2. StopInv' /\ CloseInv' /\ FramesWhole' /\ FlushedBeforeClose'
    BY DEF StopInv, CloseInv, ClientView!Closed, FramesWhole, FlushedBeforeClose
  <2> QED
    BY <2>1, <2>2
<1> QED
  BY <1>2, <1>3, <1>4, <1>5, <1>6, <1>7, <1>8 DEF HandlerForced, HandlerChooses

LEMMA InvInit == Init => IInv
<1> SUFFICES ASSUME Init PROVE IInv
  OBVIOUS
<1>1. TypeOK
  BY TypeInit
<1>2. \A g \in Writers : ~InSend(g)
  BY DEF Init, InSend
<1>3. LockInv /\ SendingInv
  BY <1>2 DEF Init, LockInv, SendingInv, Writers
<1>4. OutInv
  BY <1>2 DEF Init, OutInv, InFlight, Writers
<1>5. StopInv
  BY DEF Init, StopInv
<1>6. CloseInv /\ FramesWhole /\ FlushedBeforeClose
  BY DEF Init, CloseInv, ClientView!Closed, FramesWhole, FlushedBeforeClose
<1> QED
  BY <1>1, <1>3, <1>4, <1>5, <1>6 DEF IInv

LEMMA InvStep == IInv /\ [Next]_vars => IInv'
<1> SUFFICES ASSUME IInv, [Next]_vars PROVE IInv'
  OBVIOUS
<1>1. TypeOK'
  BY TypeStep DEF IInv
<1>2. CASE UNCHANGED vars
  <2> USE <1>2 DEF vars, puts, channels, wire, readSide, InSend
  <2>1. LockInv' /\ SendingInv' /\ OutInv'
    BY DEF IInv, LockInv, SendingInv, OutInv, InFlight
  <2>2. StopInv' /\ CloseInv' /\ FramesWhole' /\ FlushedBeforeClose'
    BY DEF IInv, StopInv, CloseInv, ClientView!Closed, FramesWhole, FlushedBeforeClose
  <2> QED
    BY <1>1, <2>1, <2>2 DEF IInv
<1>3. CASE Next
  BY <1>1, <1>3, PumpInv, PingerInv, ReaderInv, HandlerInv DEF Next, IInv
<1> QED
  BY <1>2, <1>3

THEOREM Invariance == Spec => []IInv
BY InvInit, InvStep, PTL DEF Spec

(* wc.mu: no interleaving of the pump, the ticker, the reader and the      *)
(* handler splits a frame on the wire, as long as every write succeeds.    *)
THEOREM FramesAreWhole == Spec => []FramesWhole
<1>1. IInv => FramesWhole
  BY DEF IInv
<1> QED
  BY <1>1, Invariance, PTL

(* When the handler's own close frame is on the wire, so is every value    *)
(* that was on out at its return, whatever the capacity of the channel and *)
(* whatever its producers put later.                                       *)
THEOREM OutIsFlushed == Spec => []FlushedBeforeClose
<1>1. IInv => FlushedBeforeClose
  BY DEF IInv
<1> QED
  BY <1>1, Invariance, PTL

-------------------------------------------------------------------------------
(* WsConn implements WsStream. *)

LEMMA StreamStep == IInv /\ [Next]_vars => [ClientView!StreamNext]_(ClientView!streamVars)
<1> SUFFICES ASSUME IInv, [Next]_vars
             PROVE  ClientView!StreamNext \/ UNCHANGED <<queued, flushed, frames>>
  BY DEF ClientView!streamVars
<1>1. ASSUME NEW g \in Writers, Send(g)
      PROVE  ClientView!StreamNext \/ UNCHANGED <<queued, flushed, frames>>
  <2>1. CASE SendBody(g)
    <3>1. InSend(g) /\ ~closeSent
      BY <2>1 DEF SendBody, IInv, LockInv
    <3>2. ~ClientView!Closed
      BY <3>1 DEF IInv, CloseInv
    <3>3. frames' = Append(frames, sending[g]) /\ queued' = queued
      BY <2>1 DEF SendBody, SendReturns, puts
    <3>4. CASE g = "pump"
      <4>1. sending[g] = ValueFrame(flushed + 1) /\ flushed < queued
        BY ONLY <3>1, <3>4, IInv DEF IInv, OutInv, InSend
      <4>2. ValueFrame(flushed + 1) = ClientView!ValueFrame(flushed + 1)
        BY DEF ValueFrame, Frame, ClientView!ValueFrame, Text, Binary, ClientView!Text,
               ClientView!Binary
      <4>3. sending[g].op \in DataOps
        BY <4>1, ValueFrameType DEF IInv, TypeOK
      <4>4. flushed' = flushed + 1
        BY <2>1, <4>3 DEF SendBody
      <4> QED
        BY ONLY <3>2, <3>3, <4>1, <4>2, <4>4 DEF ClientView!StreamNext, ClientView!SendValue
    <3>5. CASE g # "pump"
      <4>1. sending[g].op \in {Close, Ping, Pong}
        BY ONLY <3>1, <3>5, g \in Writers, IInv DEF IInv, SendingInv, InSend
      <4>2. flushed' = flushed
        BY <2>1, <4>1 DEF SendBody, DataOps, Text, Binary, Close, Ping, Pong
      <4>3. /\ Len(frames') = Len(frames) + 1
            /\ frames'[Len(frames) + 1] = sending[g]
        BY <3>3 DEF IInv, TypeOK
      <4>4. sending[g].op \in ClientView!Control
        BY <4>1 DEF ClientView!Control, ClientView!Close, Close, Ping, Pong
      <4> QED
        BY ONLY <3>2, <3>3, <4>2, <4>3, <4>4 DEF ClientView!StreamNext, ClientView!SendControl
    <3> QED
      BY <3>4, <3>5
  <2>2. CASE SendRejected(g) \/ SendHeader(g) \/ SendFails(g)
    BY <2>2 DEF puts, SendRejected, SendHeader, SendFails, SendReturns, wire
  <2> QED
    BY <1>1, <2>1, <2>2 DEF Send
<1>2. CASE Puts
  BY <1>2 DEF Puts, others, wire, ClientView!StreamNext, ClientView!Put
<1>3. CASE Pump
  BY <1>1, <1>3 DEF puts, Pump, PumpTakes, PumpOutClosed, PumpStops, PumpDrains, PumpDrained,
     TakesFromOut, PumpMoves, wire, Writers
<1>4. CASE Pinger
  BY <1>1, <1>4 DEF puts, Pinger, PingTicks, PingStops, wire, Writers
<1>5. CASE Reader \/ ClientLeaves
  BY <1>1, <1>5 DEF puts, Reader, ReaderReads, ReaderEnds, ReaderDelivers, ClientLeaves, ReadFails,
     wire, Writers
<1>6. CASE HandlerForced
  BY <1>1, <1>2, <1>6 DEF puts, HandlerForced, HandlerPuts, HandlerJoins, wire, Writers
<1>7. CASE HandlerChooses
  BY <1>2, <1>7 DEF puts, HandlerChooses, HandlerReceives, HandlerSends, HandlerClosesOut,
     HandlerReturns, HandlerPanics, ProducerPuts, ProducersEnd, others, wire
<1>8. CASE UNCHANGED vars
  BY <1>8 DEF vars, puts, wire
<1> QED
  BY <1>3, <1>4, <1>5, <1>6, <1>7, <1>8 DEF Next

(* The client receives the handler's values in order, each once, with      *)
(* control frames between them and nothing after a close frame.            *)
THEOREM Refinement == Spec => StreamRefined
<1>1. Init => ClientView!StreamInit
  BY DEF Init, ClientView!StreamInit
<1> QED
  BY <1>1, StreamStep, Invariance, PTL DEF Spec, StreamRefined, ClientView!Stream

-------------------------------------------------------------------------------
(* The shutdown.  The pump is in its select, in the drain, in a send of    *)
(* either, or done.                                                        *)
PumpPlaces == pc["pump"] \in {"select", "send", "drain", "drainSend", "done"}

(* What a goroutine's step leaves of the pump's state, and of the          *)
(* handler's.                                                              *)
PumpAlone ==
  /\ pc'["pump"] = pc["pump"] /\ out' = out
  /\ "pump" \in writing' <=> "pump" \in writing
HandlerAlone ==
  /\ pc'["handler"] = pc["handler"]
  /\ "handler" \in writing' <=> "handler" \in writing

LEMMA AloneKeeps ==
  /\ PumpAlone => PumpSteps' = PumpSteps
  /\ HandlerAlone => HandlerSteps' = HandlerSteps
BY DEF PumpAlone, HandlerAlone, PumpSteps, HandlerSteps

LEMMA StepsTyped ==
  ASSUME TypeOK
  PROVE  /\ Len(out) \in Nat /\ PumpSteps \in 0..(3 * ChanCap + 4) /\ HandlerSteps \in 0..3
<1>1. Len(out) \in Nat /\ Len(out) <= ChanCap /\ ChanCap \in Nat
  BY ConnAssumption DEF TypeOK
<1>2. PumpSteps \in 0..(3 * ChanCap + 4)
  BY <1>1 DEF PumpSteps
<1> QED
  BY <1>1, <1>2 DEF HandlerSteps

(* A send of another goroutine leaves the pump and the handler's as they   *)
(* are; one of their own brings them on.                                   *)
LEMMA SendLeaves ==
  ASSUME IInv, NEW g \in Writers, Send(g)
  PROVE  /\ g # "pump" => PumpAlone
         /\ g # "handler" => HandlerAlone
<1>1. out' = out /\ \A h \in Writers : h # g => pc'[h] = pc[h] /\ (h \in writing' <=> h \in writing)
  BY DEF Send, SendRejected, SendHeader, SendBody, SendFails, SendReturns, IInv, TypeOK, LockInv,
     channels
<1> QED
  BY <1>1 DEF PumpAlone, HandlerAlone, Writers

LEMMA PumpSends ==
  ASSUME IInv, PumpPlaces, Send("pump")
  PROVE  PumpSteps' < PumpSteps /\ PumpPlaces'
<1>1. Len(out) \in Nat /\ out' = out
  BY StepsTyped DEF Send, SendRejected, SendHeader, SendBody, SendFails, SendReturns, channels, IInv
<1>2. pc["pump"] \in {"send", "drainSend"} /\ "pump" \in Writers /\ pc \in [Writers -> Goroutine]
  <2>1. InSend("pump")
    BY DEF Send, SendRejected, SendHeader, SendBody, SendFails, IInv, LockInv
  <2> QED
    BY <2>1 DEF IInv, SendingInv, Writers, TypeOK
<1>3. CASE SendHeader("pump")
  <2>1. "pump" \notin writing /\ "pump" \in writing' /\ pc' = pc
    BY <1>3 DEF SendHeader
  <2> QED
    BY <1>1, <1>2, <2>1 DEF PumpSteps, PumpPlaces
<1>4. CASE SendRejected("pump") \/ SendFails("pump")
  <2>1. SendReturns("pump", FALSE)
    BY <1>4 DEF SendRejected, SendFails
  <2>2. pc'["pump"] = "done"
    BY <1>2, <2>1 DEF SendReturns, AfterSend
  <2> QED
    BY <1>1, <1>2, <2>2 DEF PumpSteps, PumpPlaces
<1>5. CASE SendBody("pump")
  <2>1. SendReturns("pump", TRUE)
    BY <1>5 DEF SendBody
  <2>2. pc'["pump"] = IF pc["pump"] = "drainSend" THEN "drain" ELSE "select"
    BY <1>2, <2>1 DEF SendReturns, AfterSend
  <2>3. "pump" \in writing
    BY <1>5 DEF SendBody
  <2> QED
    BY <1>1, <1>2, <2>2, <2>3 DEF PumpSteps, PumpPlaces
<1> QED
  BY <1>3, <1>4, <1>5 DEF Send

LEMMA HandlerSendsClose ==
  ASSUME IInv, Send("handler")
  PROVE  HandlerSteps' < HandlerSteps
<1>1. pc["handler"] = "send" /\ "handler" \in Writers /\ pc \in [Writers -> Goroutine]
  <2>1. InSend("handler")
    BY DEF Send, SendRejected, SendHeader, SendBody, SendFails, IInv, LockInv
  <2> QED
    BY <2>1 DEF IInv, SendingInv, Writers, TypeOK
<1>2. CASE SendHeader("handler")
  <2>1. "handler" \notin writing /\ "handler" \in writing' /\ pc' = pc
    BY <1>2 DEF SendHeader
  <2> QED
    BY <1>1, <2>1 DEF HandlerSteps
<1>3. ASSUME NEW ok \in BOOLEAN, SendReturns("handler", ok) PROVE HandlerSteps' < HandlerSteps
  <2>1. pc'["handler"] = "returned"
    BY <1>1, <1>3 DEF SendReturns, AfterSend
  <2> QED
    BY <1>1, <2>1 DEF HandlerSteps
<1> QED
  BY <1>2, <1>3 DEF Send, SendRejected, SendFails, SendBody

(* The pump's own steps. *)
LEMMA PumpCounts ==
  ASSUME IInv, PumpPlaces, Pump
  PROVE  PumpSteps' < PumpSteps /\ HandlerAlone /\ PumpPlaces'
<1> USE DEF IInv, TypeOK
<1>0. "pump" \in Writers /\ "handler" \in Writers /\ Len(out) \in Nat
  BY StepsTyped DEF Writers
<1>1. ASSUME NEW from \in {"select", "drain"},
             TakesFromOut(from, IF from = "select" THEN "send" ELSE "drainSend")
      PROVE  PumpSteps' < PumpSteps /\ HandlerAlone /\ PumpPlaces'
  <2>1. /\ pc["pump"] = from /\ out # <<>> /\ writing' = writing
        /\ pc'["pump"] = (IF from = "select" THEN "send" ELSE "drainSend")
        /\ pc'["handler"] = pc["handler"]
    BY <1>0, <1>1 DEF TakesFromOut
  <2>2. Len(out) > 0 /\ Len(out') = Len(out) - 1
    BY <1>1 DEF TakesFromOut
  <2>3. "pump" \notin writing
    BY <2>1 DEF LockInv, SendingInv
  <2> QED
    BY <1>0, <2>1, <2>2, <2>3 DEF PumpSteps, PumpPlaces, HandlerAlone
<1>2. ASSUME NEW from \in {"select", "drain"}, NEW to \in {"drain", "done"}, from = to => FALSE,
             PumpMoves(from, to)
      PROVE  PumpSteps' < PumpSteps /\ HandlerAlone /\ PumpPlaces'
  <2>1. /\ pc["pump"] = from /\ pc'["pump"] = to /\ out' = out /\ writing' = writing
        /\ pc'["handler"] = pc["handler"]
    BY <1>0, <1>2 DEF PumpMoves, channels
  <2> QED
    BY <1>0, <1>2, <2>1 DEF PumpSteps, PumpPlaces, HandlerAlone
<1>3. CASE PumpTakes
  BY <1>1, <1>3 DEF PumpTakes
<1>4. CASE PumpDrains
  BY <1>1, <1>4 DEF PumpDrains
<1>5. CASE PumpOutClosed \/ PumpStops \/ PumpDrained
  BY <1>2, <1>5 DEF PumpOutClosed, PumpStops, PumpDrained
<1>6. CASE Send("pump")
  BY <1>0, <1>6, PumpSends, SendLeaves
<1> QED
  BY <1>3, <1>4, <1>5, <1>6 DEF Pump

(* The steps of the ticker and the reader. *)
LEMMA OthersLeave ==
  ASSUME IInv, Pinger \/ Reader \/ ClientLeaves
  PROVE  PumpAlone /\ HandlerAlone
<1>0. {"pump", "handler", "pinger", "reader"} \subseteq Writers /\ pc \in [Writers -> Goroutine]
  BY DEF Writers, IInv, TypeOK
<1>1. CASE PingTicks \/ PingStops
  BY <1>0, <1>1 DEF PingTicks, PingStops, channels, PumpAlone, HandlerAlone
<1>2. CASE ReaderReads
  <2>1. UNCHANGED <<writing, out>>
    BY <1>2 DEF ReaderReads
  <2>2. pc'["pump"] = pc["pump"] /\ pc'["handler"] = pc["handler"]
    BY <1>0, <1>2 DEF ReaderReads, GivesUp, Replies, Ignores, TakesData
  <2> QED
    BY <2>1, <2>2 DEF PumpAlone, HandlerAlone
<1>3. CASE ReadFails \/ ReaderDelivers
  BY <1>0, <1>3 DEF ReadFails, GivesUp, ReaderDelivers, PumpAlone, HandlerAlone
<1>4. CASE Send("pinger") \/ Send("reader")
  BY <1>0, <1>4, SendLeaves
<1> QED
  BY <1>1, <1>2, <1>3, <1>4 DEF Pinger, Reader, ReaderEnds, ClientLeaves

(* The handler's goroutine, once the handler has returned. *)
LEMMA HandlerCounts ==
  ASSUME IInv, stop, HandlerForced
  PROVE  PumpAlone /\ HandlerSteps' < HandlerSteps
<1>0. {"pump", "handler"} \subseteq Writers /\ pc \in [Writers -> Goroutine]
  BY DEF Writers, IInv, TypeOK
<1>1. pc["handler"] \in {"waiting", "send", "returned"}
  BY DEF IInv, StopInv
<1>2. ~HandlerPuts
  BY <1>1 DEF HandlerPuts, HandlerMoves
<1>3. CASE HandlerJoins
  <2>1. pc["handler"] = "waiting" /\ pc'["handler"] = "send" /\ pc'["pump"] = pc["pump"]
    BY <1>0, <1>3 DEF HandlerJoins, HandlerMoves
  <2>2. writing' = writing /\ out' = out
    BY <1>3 DEF HandlerJoins, channels
  <2> QED
    BY <1>3, <2>1, <2>2 DEF PumpAlone, HandlerSteps
<1>4. CASE Send("handler")
  BY <1>0, <1>4, SendLeaves, HandlerSendsClose
<1> QED
  BY <1>2, <1>3, <1>4 DEF HandlerForced

(* Its producers: what they receive, close or end changes nothing for the  *)
(* pump, and a value they put is three steps more while the pump is there. *)
LEMMA ProducersCount ==
  ASSUME IInv, PumpPlaces, stop, HandlerChooses
  PROVE  /\ HandlerAlone
         /\ \/ PumpAlone
            \/ /\ producing /\ queued' = queued + 1
               /\ PumpSteps' = PumpSteps \/ PumpSteps' = PumpSteps + 3
<1>0. {"pump", "handler"} \subseteq Writers /\ pc \in [Writers -> Goroutine]
  BY DEF Writers, IInv, TypeOK
<1>1. pc["handler"] \in {"waiting", "send", "returned"}
  BY DEF IInv, StopInv
<1>2. ~HandlerSends /\ ~HandlerReturns /\ ~HandlerPanics
  BY <1>1 DEF HandlerSends, HandlerReturns, HandlerPanics, HandlerMoves
<1>3. CASE HandlerReceives \/ HandlerClosesOut \/ ProducersEnd
  BY <1>3 DEF HandlerReceives, HandlerClosesOut, ProducersEnd, others, channels, PumpAlone,
     HandlerAlone
<1>4. CASE ProducerPuts
  <2>1. /\ producing /\ queued' = queued + 1 /\ pc' = pc /\ writing' = writing
        /\ Len(out') = Len(out) + 1 /\ Len(out) \in Nat
    BY <1>4 DEF ProducerPuts, Puts, others, IInv, TypeOK
  <2>2. HandlerAlone
    BY <2>1 DEF HandlerAlone
  <2>3. PumpSteps' = PumpSteps \/ PumpSteps' = PumpSteps + 3
    BY <2>1 DEF PumpSteps, PumpPlaces
  <2> QED
    BY <2>1, <2>2, <2>3
<1> QED
  BY <1>2, <1>3, <1>4 DEF HandlerChooses

LEMMA PlacesStep == IInv /\ PumpPlaces /\ [Next]_vars => PumpPlaces'
<1> SUFFICES ASSUME IInv, PumpPlaces, [Next]_vars PROVE PumpPlaces'
  OBVIOUS
<1>0. {"pump", "handler"} \subseteq Writers /\ pc \in [Writers -> Goroutine]
  BY DEF Writers, IInv, TypeOK
<1>1. CASE Pump
  BY <1>1, PumpCounts
<1>2. CASE Pinger \/ Reader \/ ClientLeaves
  BY <1>2, OthersLeave DEF PumpAlone, PumpPlaces
<1>3. CASE HandlerForced \/ HandlerChooses
  <2>1. CASE Send("handler")
    BY <1>0, <2>1, SendLeaves DEF PumpAlone, PumpPlaces
  <2>2. ASSUME NEW from, NEW to, HandlerMoves(from, to) PROVE pc'["pump"] = pc["pump"]
    BY <1>0, <2>2 DEF HandlerMoves
  <2>3. CASE HandlerReceives \/ HandlerClosesOut \/ ProducerPuts \/ ProducersEnd
    BY <2>3 DEF HandlerReceives, HandlerClosesOut, ProducerPuts, ProducersEnd, PumpPlaces
  <2>4. CASE HandlerPuts \/ HandlerJoins \/ HandlerSends \/ HandlerReturns \/ HandlerPanics
    BY <2>2, <2>4 DEF HandlerPuts, HandlerJoins, HandlerSends, HandlerReturns, HandlerPanics, PumpPlaces
  <2> QED
    BY <1>3, <2>1, <2>3, <2>4 DEF HandlerForced, HandlerChooses
<1>4. CASE UNCHANGED vars
  BY <1>4 DEF vars, PumpPlaces
<1> QED
  BY <1>1, <1>2, <1>3, <1>4 DEF Next

LEMMA SumLess ==
  ASSUME NEW a \in Nat, NEW b \in Nat, NEW c \in Nat, NEW d \in Nat,
         (a < b /\ c = d) \/ (a = b /\ c < d)
  PROVE  a + c < b + d /\ a + c <= b + d
OBVIOUS

LEMMA SumThree ==
  ASSUME NEW a \in Nat, NEW b \in Nat
  PROVE  (a + 3) + b = (a + b) + 3
OBVIOUS

LEMMA PlacesInvariance == Spec => [](IInv /\ PumpPlaces)
<1>1. Init => PumpPlaces
  BY DEF Init, PumpPlaces
<1> QED
  BY Invariance, <1>1, PlacesStep, PTL DEF Spec

(* Once the handler has returned, no goroutine waits for another in a      *)
(* circle until its socket is closed; and the pump and its own goroutine   *)
(* are at most 3 * ChanCap + 7 steps from there.                           *)
THEOREM CloseNeverStuck == Spec => []ClosingMoves
<1>1. IInv /\ PumpPlaces => ClosingMoves
  <2> SUFFICES ASSUME IInv, PumpPlaces, stop
               PROVE  /\ CloseSteps <= 3 * ChanCap + 7
                      /\ pc["handler"] # "returned" => CanMove
    BY DEF ClosingMoves
  <2>1. CloseSteps <= 3 * ChanCap + 7
    BY StepsTyped, ConnAssumption DEF CloseSteps, IInv
  <2>2. ASSUME NEW g \in Writers, InSend(g) PROVE CanMove
    <3>1. CASE writing = {}
      BY <2>2, <3>1 DEF CanMove
    <3>2. CASE writing # {}
      <4>1. PICK h \in writing : TRUE
        BY <3>2
      <4>2. h \in Writers /\ InSend(h)
        BY <4>1 DEF IInv, TypeOK, LockInv
      <4> QED
        BY <4>1, <4>2 DEF CanMove
    <3> QED
      BY <3>1, <3>2
  <2>3. pc["handler"] \in {"waiting", "send", "returned"}
    BY DEF IInv, StopInv
  <2>4. CASE pc["handler"] = "send" \/ pc["pump"] \in {"send", "drainSend"}
    <3>1. InSend("handler") \/ InSend("pump")
      BY <2>4 DEF IInv, SendingInv
    <3>2. CanMove
      BY <2>2, <3>1 DEF Writers
    <3> QED
      BY <2>1, <3>2
  <2>5. CASE pc["handler"] = "waiting" /\ pc["pump"] \in {"select", "drain", "done"}
    <3>1. CanMove
      BY <2>5 DEF CanMove
    <3> QED
      BY <2>1, <3>1
  <2> QED
    BY <2>1, <2>3, <2>4, <2>5 DEF PumpPlaces
<1> QED
  BY PlacesInvariance, <1>1, PTL

(* From the handler's return on, every step of the pump and of its own     *)
(* goroutine brings the end of the connection nearer; of all the others'   *)
(* steps only a producer's put takes it further away, and by three steps.  *)
THEOREM CloseIsNearer == Spec => CloseCountsDown
<1> DEFINE A == stop => IF Pump \/ HandlerForced THEN CloseSteps' < CloseSteps
                        ELSE CloseSteps' > CloseSteps => /\ producing /\ queued' = queued + 1
                                                         /\ CloseSteps' = CloseSteps + 3
<1>1. IInv /\ IInv' /\ PumpPlaces /\ [Next]_vars => [A]_vars
  <2> SUFFICES ASSUME IInv, IInv', PumpPlaces, Next, stop
               PROVE  A
    OBVIOUS
  <2>1. PumpSteps \in Nat /\ HandlerSteps \in Nat
    BY StepsTyped DEF IInv
  <2>2. PumpSteps' \in Nat /\ HandlerSteps' \in Nat
    <3>1. Len(out') \in Nat
      BY DEF IInv, TypeOK
    <3> QED
      BY <3>1 DEF PumpSteps, HandlerSteps
  <2>3. CASE Pump
    <3>1. PumpSteps' < PumpSteps /\ HandlerSteps' = HandlerSteps
      BY <2>3, PumpCounts, AloneKeeps
    <3>2. CloseSteps' < CloseSteps
      BY <2>1, <2>2, <3>1, SumLess DEF CloseSteps
    <3> QED
      BY <2>3, <3>2
  <2>4. CASE HandlerForced
    <3>1. HandlerSteps' < HandlerSteps /\ PumpSteps' = PumpSteps
      BY <2>4, HandlerCounts, AloneKeeps
    <3>2. CloseSteps' < CloseSteps
      BY <2>1, <2>2, <3>1, SumLess DEF CloseSteps
    <3> QED
      BY <2>4, <3>2
  <2>5. CASE (Pinger \/ Reader \/ ClientLeaves) /\ ~Pump /\ ~HandlerForced
    <3>1. HandlerSteps' = HandlerSteps /\ PumpSteps' = PumpSteps
      BY <2>5, OthersLeave, AloneKeeps
    <3> QED
      BY <2>1, <2>2, <2>5, <3>1 DEF CloseSteps
  <2>6. CASE HandlerChooses /\ ~Pump /\ ~HandlerForced
    <3>1. HandlerSteps' = HandlerSteps
      BY <2>6, ProducersCount, AloneKeeps
    <3>2. \/ PumpSteps' = PumpSteps
          \/ producing /\ queued' = queued + 1 /\ PumpSteps' = PumpSteps + 3
      BY <2>6, ProducersCount, AloneKeeps
    <3>3. CloseSteps' = CloseSteps \/ (producing /\ queued' = queued + 1 /\ CloseSteps' = CloseSteps + 3)
      <4>1. PumpSteps' = PumpSteps => CloseSteps' = CloseSteps
        BY <3>1 DEF CloseSteps
      <4>2. PumpSteps' = PumpSteps + 3 => CloseSteps' = CloseSteps + 3
        <5>1. (PumpSteps + 3) + HandlerSteps = (PumpSteps + HandlerSteps) + 3
          BY <2>1, SumThree
        <5> QED
          BY <3>1, <5>1 DEF CloseSteps
      <4> QED
        BY <3>2, <4>1, <4>2
    <3>4. CloseSteps \in Nat
      BY <2>1 DEF CloseSteps
    <3>5. CASE CloseSteps' = CloseSteps
      <4>1. ~(CloseSteps' > CloseSteps)
        BY ONLY <3>4, <3>5
      <4> QED
        BY <2>6, <4>1
    <3>6. CASE producing /\ queued' = queued + 1 /\ CloseSteps' = CloseSteps + 3
      BY <2>6, <3>6
    <3> QED
      BY <3>3, <3>5, <3>6
  <2> QED
    BY <2>3, <2>4, <2>5, <2>6 DEF Next
<1> HIDE DEF A
<1>2. Spec => [][A]_vars
  BY Invariance, PlacesInvariance, <1>1, PTL DEF Spec
<1> QED
  BY <1>2 DEF A, CloseCountsDown
===============================================================================
