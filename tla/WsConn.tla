-------------------------------- MODULE WsConn --------------------------------
(***************************************************************************)
(* One websocket connection of web/ws.go from the end of the handshake:    *)
(* upgradeWs starts an out pump, a ping ticker and a reader, runs the      *)
(* user's handler in the request goroutine, and shuts the others down when *)
(* it returns.  The four share the write side of the socket through        *)
(* wsConn.send, and talk over two channels and the stop signal.            *)
(*                                                                         *)
(* A frame is written in two steps, its header and its payload, under the  *)
(* mutex; either may fail (a reset peer, the 10 s write deadline) and may  *)
(* leave a part of a frame on the wire.  The handler is any glisp code: it *)
(* may receive, put, close out, spawn producers, return or panic; and a    *)
(* producer may use both channels as long as it lives, the handler's       *)
(* return or not.  The client sends any frame of ClientFrames at any time, *)
(* and may go away; what the reader has buffered by then, or when the      *)
(* socket is closed, is still read.                                        *)
(***************************************************************************)
EXTENDS WsFrames, FiniteSets

CONSTANTS
  ChanCap,       \* capacity of in and of out: 8
  BinaryValues,  \* which of the handler's values are []byte
  ClientFrames,  \* the frames the client may send
  MaxRead,       \* bound: frames the client sends
  MaxPuts,       \* bound: values the handler and its producers put on out
  MaxPings       \* bound: idle pings written

ASSUME ConnAssumption ==
  /\ ChanCap \in Nat \ {0}
  /\ ClientFrames \subseteq ClientFrame
  /\ MaxRead \in Nat /\ MaxPuts \in Nat /\ MaxPings \in Nat

Writers == {"handler", "pump", "pinger", "reader"}

NoFrame == [op |-> 0, body |-> <<>>]

VARIABLES
  pc,         \* where each goroutine is
  sending,    \* the frame each goroutine is inside send() with, or NoFrame
  writing,    \* the goroutine between header and payload, holding wc.mu: a set
  closeSent,  \* wsConn.closeSent
  socket,     \* conn: "open" or "closed"
  in, inClosed, out, outClosed,
  stop,       \* the stop channel is closed
  asm,        \* readLoop's msgOp and msg
  delivering, \* the message the reader is handing to in: a sequence of 0 or 1
  queued,     \* values put on out, numbered from 1
  producing,  \* goroutines the handler spawned have outlived it
  read, pings,
  (* History, for the properties only. *)
  frames,     \* the complete frames on the wire
  flushed,    \* the values among them
  owed,       \* the values put on out when the handler returned
  heads,      \* writers of the headers on the wire since the last whole frame,
              \* followed until a write fails
  mixed,      \* a frame was completed over another frame's header
  closer,     \* who wrote the close frame, or "none"
  broken      \* some write has failed

channels == <<in, inClosed, out, outClosed, stop>>
wire     == <<frames, flushed, heads, mixed, closer, broken>>
readSide == <<asm, delivering, read>>
puts     == <<queued, producing, owed>>
vars == <<pc, sending, writing, closeSent, socket, channels, readSide, puts, pings, wire>>

Init ==
  /\ pc = [handler |-> "running", pump |-> "select", pinger |-> "select", reader |-> "reading"]
  /\ sending = [g \in Writers |-> NoFrame]
  /\ writing = {} /\ closeSent = FALSE /\ socket = "open"
  /\ in = <<>> /\ inClosed = FALSE /\ out = <<>> /\ outClosed = FALSE /\ stop = FALSE
  /\ asm = NoMessage /\ delivering = <<>>
  /\ queued = 0 /\ producing = FALSE /\ owed = 0 /\ read = 0 /\ pings = 0
  /\ frames = <<>> /\ flushed = 0 /\ heads = <<>> /\ mixed = FALSE
  /\ closer = "none" /\ broken = FALSE

-------------------------------------------------------------------------------
(* wsConn.send, shared by the four goroutines. *)

(* Where a goroutine goes when its send returns: the out pump gives up on  *)
(* the first error, the ticker too; the reader goes on after a pong only;  *)
(* the handler's goroutine returns from upgradeWs either way.              *)
AfterSend(g, ok) ==
  CASE g = "handler" -> "returned"
    [] g = "pump"    -> IF ~ok THEN "done" ELSE IF pc[g] = "drainSend" THEN "drain" ELSE "select"
    [] g = "pinger"  -> IF ok THEN "select" ELSE "done"
    [] g = "reader"  -> IF ok /\ sending[g].op = Pong THEN "reading" ELSE "done"

SendReturns(g, ok) ==
  /\ pc' = [pc EXCEPT ![g] = AfterSend(g, ok)]
  /\ sending' = [sending EXCEPT ![g] = NoFrame]
  /\ inClosed' = (inClosed \/ (g = "reader" /\ AfterSend(g, ok) = "done"))
  /\ socket' = IF g = "handler" THEN "closed" ELSE socket
  /\ UNCHANGED <<in, out, outClosed, stop, readSide, puts, pings>>

InSend(g) == sending[g] # NoFrame

(* closeSent is set: errWsClosed, and nothing is written. *)
SendRejected(g) ==
  /\ InSend(g) /\ writing = {} /\ closeSent
  /\ SendReturns(g, FALSE)
  /\ UNCHANGED <<writing, closeSent, wire>>

(* Mutant: the header is written without taking the mutex. *)
SendHeaderUnlocked(g) ==
  /\ InSend(g) /\ g \notin writing /\ ~closeSent
  /\ socket = "open"
  /\ writing' = writing \cup {g}
  /\ heads' = IF broken THEN <<>> ELSE Append(heads, g)
  /\ UNCHANGED <<pc, sending, closeSent, socket, channels, readSide, puts, pings,
                 frames, flushed, mixed, closer, broken>>

(* The write deadline is set and the header goes out. *)
SendHeader(g) ==
  /\ InSend(g) /\ writing = {} /\ ~closeSent
  /\ socket = "open"
  /\ writing' = {g}
  /\ heads' = IF broken THEN <<>> ELSE Append(heads, g)
  /\ UNCHANGED <<pc, sending, closeSent, socket, channels, readSide, puts, pings,
                 frames, flushed, mixed, closer, broken>>

(* Mutant: closeSent is never set. *)
SendBodyForgets(g) ==
  /\ g \in writing /\ socket = "open"
  /\ writing' = writing \ {g}
  /\ frames' = Append(frames, sending[g])
  /\ flushed' = IF sending[g].op \in DataOps THEN flushed + 1 ELSE flushed
  /\ heads' = <<>>
  /\ mixed' = (mixed \/ (~broken /\ heads # <<g>>))
  /\ closer' = IF sending[g].op = Close THEN g ELSE closer
  /\ SendReturns(g, TRUE)
  /\ UNCHANGED <<closeSent, broken>>

(* The payload follows; a close frame sets closeSent under the same lock. *)
SendBody(g) ==
  /\ g \in writing /\ socket = "open"
  /\ writing' = writing \ {g}
  /\ closeSent' = (closeSent \/ sending[g].op = Close)
  /\ frames' = Append(frames, sending[g])
  /\ flushed' = IF sending[g].op \in DataOps THEN flushed + 1 ELSE flushed
  /\ heads' = <<>>
  /\ mixed' = (mixed \/ (~broken /\ heads # <<g>>))
  /\ closer' = IF sending[g].op = Close THEN g ELSE closer
  /\ SendReturns(g, TRUE)
  /\ UNCHANGED broken

(* A write fails, before or after the header: closeSent stays as it is. *)
SendFails(g) ==
  /\ InSend(g)
  /\ \/ writing = {} /\ ~closeSent
     \/ g \in writing
  /\ writing' = writing \ {g}
  /\ broken' = TRUE /\ heads' = <<>>
  /\ SendReturns(g, FALSE)
  /\ UNCHANGED <<closeSent, frames, flushed, mixed, closer>>

Send(g) == SendRejected(g) \/ SendHeader(g) \/ SendBody(g) \/ SendFails(g)

-------------------------------------------------------------------------------
(* The out pump: values of the handler become data frames. *)

ValueFrame(n) == Frame(IF n \in BinaryValues THEN Binary ELSE Text, <<n>>)

TakesFromOut(from, to) ==
  /\ pc["pump"] = from
  /\ out # <<>>
  /\ out' = Tail(out)
  /\ sending' = [sending EXCEPT !["pump"] = ValueFrame(Head(out))]
  /\ pc' = [pc EXCEPT !["pump"] = to]
  /\ UNCHANGED <<writing, closeSent, socket, in, inClosed, outClosed, stop, readSide,
                 puts, pings, wire>>

PumpMoves(from, to) ==
  /\ pc["pump"] = from
  /\ pc' = [pc EXCEPT !["pump"] = to]
  /\ UNCHANGED <<sending, writing, closeSent, socket, channels, readSide, puts,
                 pings, wire>>

PumpTakes     == TakesFromOut("select", "send")
PumpOutClosed == out = <<>> /\ outClosed /\ PumpMoves("select", "done")

(* Mutant: the pump ends on stop without draining out. *)
PumpStopsAtOnce == stop /\ PumpMoves("select", "done")
PumpStops       == stop /\ PumpMoves("select", "drain")

PumpDrains    == TakesFromOut("drain", "drainSend")

(* Mutants: the drain ranges over out, waiting for someone to close it; the *)
(* drain waits only when the client has not been told to close.            *)
PumpDrainRanges == out = <<>> /\ outClosed /\ PumpMoves("drain", "done")
PumpDrainWaits  == out = <<>> /\ (outClosed \/ closeSent) /\ PumpMoves("drain", "done")
PumpDrained     == out = <<>> /\ PumpMoves("drain", "done")

Pump == PumpTakes \/ PumpOutClosed \/ PumpStops \/ PumpDrains \/ PumpDrained \/ Send("pump")

-------------------------------------------------------------------------------
(* The idle ping.  Only pings that reach an open socket are bounded. *)

PingTicks ==
  /\ pc["pinger"] = "select"
  /\ pings < MaxPings \/ socket = "closed" \/ closeSent
  /\ pings' = IF pings < MaxPings THEN pings + 1 ELSE pings
  /\ pc' = [pc EXCEPT !["pinger"] = "send"]
  /\ sending' = [sending EXCEPT !["pinger"] = Frame(Ping, <<>>)]
  /\ UNCHANGED <<writing, closeSent, socket, channels, readSide, puts, wire>>

PingStops ==
  /\ pc["pinger"] = "select" /\ stop
  /\ pc' = [pc EXCEPT !["pinger"] = "done"]
  /\ UNCHANGED <<sending, writing, closeSent, socket, channels, readSide, puts,
                 pings, wire>>

Pinger == PingTicks \/ PingStops \/ Send("pinger")
-------------------------------------------------------------------------------
(* The reader: one client frame per turn of readLoop. *)

Replies(f) ==
  /\ pc' = [pc EXCEPT !["reader"] = "send"]
  /\ sending' = [sending EXCEPT !["reader"] = f]
  /\ UNCHANGED <<asm, delivering, inClosed>>

GivesUp ==
  /\ pc' = [pc EXCEPT !["reader"] = "done"]
  /\ inClosed' = TRUE
  /\ asm' = NoMessage
  /\ UNCHANGED <<delivering, sending>>

(* deliver and the reset of msg, or one more fragment. *)
TakesData(f) ==
  /\ asm' = Assembled(asm, f)
  /\ delivering' = IF f.fin THEN <<Message(asm, f)>> ELSE <<>>
  /\ pc' = [pc EXCEPT !["reader"] = IF f.fin THEN "deliver" ELSE "reading"]
  /\ UNCHANGED <<sending, inClosed>>

Ignores == UNCHANGED <<pc, asm, delivering, sending, inClosed>>

ReaderReads ==
  /\ pc["reader"] = "reading"
  /\ read < MaxRead
  /\ read' = read + 1
  /\ \E f \in ClientFrames :
       \/ TooLarge(f) /\ GivesUp
       \/ FailCode(asm, f) # 0 /\ Replies(CloseFrame(FailCode(asm, f)))
       \/ Acceptable(asm, f) /\ \/ f.op = Close /\ Replies(CloseReply(f))
                                \/ f.op = Ping /\ Replies(PongReply(f))
                                \/ f.op = Pong /\ Ignores
                                \/ CarriesData(f) /\ TakesData(f)
  /\ UNCHANGED <<writing, closeSent, socket, in, out, outClosed, stop, puts, pings, wire>>

(* readFrame returns an I/O error: the socket is closed, or the client has  *)
(* left (end of file, a reset).                                            *)
ReadFails ==
  /\ pc["reader"] = "reading"
  /\ GivesUp
  /\ UNCHANGED <<writing, closeSent, socket, in, out, outClosed, stop, read, puts,
                 pings, wire>>

(* Mutant: the message is queued without limit. *)
ReaderDeliversUnbounded ==
  /\ pc["reader"] = "deliver"
  /\ in' = in \o delivering
  /\ delivering' = <<>>
  /\ pc' = [pc EXCEPT !["reader"] = "reading"]
  /\ UNCHANGED <<sending, writing, closeSent, socket, inClosed, out, outClosed, stop, asm,
                 read, puts, pings, wire>>

(* in <- msg, which waits while in is full. *)
ReaderDelivers ==
  /\ pc["reader"] = "deliver"
  /\ Len(in) < ChanCap
  /\ in' = in \o delivering
  /\ delivering' = <<>>
  /\ pc' = [pc EXCEPT !["reader"] = "reading"]
  /\ UNCHANGED <<sending, writing, closeSent, socket, inClosed, out, outClosed, stop, asm,
                 read, puts, pings, wire>>

(* Mutant: a read error is retried until stop is closed. *)
ReaderRetries == stop /\ socket = "closed" /\ ReadFails

ReaderEnds   == socket = "closed" /\ ReadFails
ClientLeaves == socket = "open" /\ ReadFails

Reader == ReaderReads \/ ReaderEnds \/ ReaderDelivers \/ Send("reader")

-------------------------------------------------------------------------------
(* The handler, any glisp function of (req, in, out), and the goroutines   *)
(* it spawns.  While the handler runs its steps are theirs too; when it    *)
(* returns or panics some of them may be left, and go on receiving,        *)
(* putting and closing out as long as they live.  A panic ends a producer, *)
(* not the process: web/go-recover.                                        *)

HandlerMoves(from, to) == pc["handler"] = from /\ pc' = [pc EXCEPT !["handler"] = to]

others == <<sending, writing, closeSent, readSide, pings, wire>>

UsesChannels == pc["handler"] = "running" \/ producing

HandlerReceives ==
  /\ UsesChannels
  /\ in # <<>>
  /\ in' = Tail(in)
  /\ UNCHANGED <<pc, socket, inClosed, out, outClosed, stop, puts, others>>

Puts ==
  /\ ~outClosed
  /\ Len(out) < ChanCap
  /\ out' = Append(out, queued + 1)
  /\ queued' = queued + 1
  /\ UNCHANGED <<socket, in, inClosed, outClosed, stop, producing, owed, others>>

(* A producer's (send! out v), which waits while out is full. *)
ProducerPuts == producing /\ queued < MaxPuts /\ Puts /\ UNCHANGED pc

(* The last of the producers ends. *)
ProducersEnd ==
  /\ producing
  /\ producing' = FALSE
  /\ UNCHANGED <<pc, socket, channels, queued, owed, others>>

(* (send! out v) begins; it waits while out is full. *)
HandlerSends ==
  /\ queued < MaxPuts
  /\ HandlerMoves("running", "put")
  /\ UNCHANGED <<socket, channels, puts, others>>

HandlerPuts == HandlerMoves("put", "running") /\ Puts

HandlerClosesOut ==
  /\ UsesChannels /\ ~outClosed
  /\ outClosed' = TRUE
  /\ UNCHANGED <<pc, socket, in, inClosed, out, stop, puts, others>>

(* close(stop) and <-outDone begins. *)
HandlerReturns ==
  /\ HandlerMoves("running", "waiting")
  /\ stop' = TRUE
  /\ owed' = queued /\ producing' \in BOOLEAN
  /\ UNCHANGED <<socket, in, inClosed, out, outClosed, queued, others>>

(* A panic, or a send on the closed out channel: net/http recovers it, and *)
(* of upgradeWs only the deferred conn.Close runs.                         *)
HandlerPanics ==
  /\ \/ HandlerMoves("running", "panicked")
     \/ outClosed /\ HandlerMoves("put", "panicked")
  /\ socket' = "closed" /\ producing' \in BOOLEAN
  /\ UNCHANGED <<channels, queued, owed, others>>

(* The out pump is done: the closing frame, a no-op after another one. *)
HandlerJoins ==
  /\ pc["pump"] = "done"
  /\ HandlerMoves("waiting", "send")
  /\ sending' = [sending EXCEPT !["handler"] = CloseFrame(1000)]
  /\ UNCHANGED <<writing, closeSent, socket, channels, readSide, puts, pings, wire>>

(* The steps the runtime takes for the handler, and those its code and its *)
(* producers choose.                                                       *)
HandlerForced == HandlerPuts \/ HandlerJoins \/ Send("handler")
HandlerChooses ==
  \/ HandlerReceives \/ HandlerSends \/ HandlerClosesOut \/ HandlerReturns \/ HandlerPanics
  \/ ProducerPuts \/ ProducersEnd

Next == Pump \/ Pinger \/ Reader \/ HandlerForced \/ HandlerChooses \/ ClientLeaves

(* Goroutines are scheduled and writes have a deadline; neither the client *)
(* nor the handler's own code, its producers' included, owes anything.     *)
Fairness == WF_vars(Pump) /\ WF_vars(Pinger) /\ WF_vars(Reader) /\ WF_vars(HandlerForced)

Spec == Init /\ [][Next]_vars
FairSpec == Spec /\ Fairness

-------------------------------------------------------------------------------
Goroutine == {"running", "put", "waiting", "send", "returned", "panicked", "select", "drain",
              "drainSend", "reading", "deliver", "done"}

ServerFrame == [op : Nat, body : Seq(Nat)]

TypeOK ==
  /\ pc \in [Writers -> Goroutine]
  /\ sending \in [Writers -> ServerFrame]
  /\ writing \subseteq Writers
  /\ closeSent \in BOOLEAN /\ socket \in {"open", "closed"}
  /\ in \in Seq([op : Nat, msg : Seq(Nat)]) /\ Len(in) <= ChanCap /\ inClosed \in BOOLEAN
  /\ out \in Seq(Nat) /\ Len(out) <= ChanCap /\ outClosed \in BOOLEAN /\ stop \in BOOLEAN
  /\ asm \in [op : Nat, msg : Seq(Nat)]
  /\ delivering \in Seq([op : Nat, msg : Seq(Nat)]) /\ Len(delivering) <= 1
  /\ queued \in Nat /\ producing \in BOOLEAN /\ owed \in Nat
  /\ read \in Nat /\ pings \in Nat
  /\ frames \in Seq(ServerFrame) /\ flushed \in Nat /\ heads \in Seq(Writers)
  /\ mixed \in BOOLEAN /\ closer \in Writers \cup {"none"} /\ broken \in BOOLEAN

(* wsConn serialises the frame writes of its four goroutines: as long as   *)
(* every write has succeeded, each header on the wire is followed by its   *)
(* own payload.                                                            *)
FramesWhole == ~mixed

(* "Anything already buffered at stop time is still flushed before the     *)
(* close frame": when the handler returned and its close frame is on the   *)
(* wire, so is every value that was on out at the return, whoever put it   *)
(* there and whatever the producers put since, unless a write failed.      *)
FlushedBeforeClose == closer = "handler" /\ ~broken => flushed >= owed

(* The client sees what WsStream promises. *)
ClientView == INSTANCE WsStream WITH queued <- queued, flushed <- flushed, frames <- frames
StreamRefined == ClientView!Stream

(* "Returning from the handler closes the connection", once the producers  *)
(* it spawned have ended.  That they end is the user's part ("producers    *)
(* spawned by the handler should [...] stop when in closes or (web/done    *)
(* req) fires"): one that goes on, and puts values faster than the pump    *)
(* writes them, keeps the drain loop from its default for ever.            *)
ReturnCloses == pc["handler"] = "waiting" /\ ~producing ~> socket = "closed"

(* "The stop case prevents a goroutine leak when the handler returns       *)
(* without closing out": the out pump ends, and so does the ticker, again  *)
(* once no producer is left.                                               *)
PumpsEnd == stop /\ ~producing ~> pc["pump"] = "done" /\ pc["pinger"] = "done"

(* Once the socket is closed, the reader ends, or is stuck on a full in    *)
(* channel that nobody reads.                                              *)
ReaderEndsUnlessFull ==
  socket = "closed" ~> pc["reader"] = "done" \/ (pc["reader"] = "deliver" /\ Len(in) = ChanCap)

-------------------------------------------------------------------------------
(* What ReturnCloses rests on that needs no fairness.                      *)

(* Of the steps the pump, then the handler's goroutine have to take once   *)
(* the handler has returned, those that are left: three for each value in  *)
(* out (taken, header, payload) and a few to end.                          *)
PumpSteps ==
  CASE pc["pump"] = "select"    -> 3 * Len(out) + 2
    [] pc["pump"] = "send"      -> 3 * Len(out) + IF "pump" \in writing THEN 3 ELSE 4
    [] pc["pump"] = "drain"     -> 3 * Len(out) + 1
    [] pc["pump"] = "drainSend" -> 3 * Len(out) + IF "pump" \in writing THEN 2 ELSE 3
    [] OTHER                    -> 0
HandlerSteps ==
  CASE pc["handler"] = "waiting" -> 3
    [] pc["handler"] = "send"    -> IF "handler" \in writing THEN 1 ELSE 2
    [] OTHER                     -> 0
CloseSteps == PumpSteps + HandlerSteps

(* The guards of the pump, of the handler's goroutine and of send. *)
CanMove ==
  \/ \E g \in Writers : InSend(g) /\ (writing = {} \/ g \in writing)
  \/ pc["pump"] \in {"select", "drain"}
  \/ pc["handler"] = "waiting" /\ pc["pump"] = "done"

(* Until the socket is closed somebody can move, and what is left to do is *)
(* bounded by the capacity of out, however many values were put.           *)
ClosingMoves ==
  stop => CloseSteps <= 3 * ChanCap + 7 /\ (pc["handler"] # "returned" => CanMove)

(* The pump and the handler's goroutine only come nearer to the end.  What *)
(* sets them back is a producer's put alone, by the three steps of its     *)
(* value; the other goroutines, the client and the producers' other steps  *)
(* do not.                                                                 *)
CloseCountsDown ==
  [][stop => IF Pump \/ HandlerForced THEN CloseSteps' < CloseSteps
             ELSE CloseSteps' > CloseSteps => /\ producing /\ queued' = queued + 1
                                              /\ CloseSteps' = CloseSteps + 3]_vars

-------------------------------------------------------------------------------
(* The inductive invariant behind FramesWhole, FlushedBeforeClose and      *)
(* StreamRefined.                                                          *)

(* wc.mu: at most one goroutine is between header and payload, and it      *)
(* found closeSent unset; its header is the only loose one.                *)
LockInv ==
  /\ \A g, h \in writing : g = h
  /\ \A g \in writing : InSend(g) /\ ~closeSent
  /\ ~broken => /\ \A g \in writing : heads = <<g>>
                /\ writing = {} => heads = <<>>

(* Only the out pump sends data frames. *)
SendingInv ==
  /\ \A g \in Writers \ {"pump"} : InSend(g) => sending[g].op \in {Close, Ping, Pong}
  /\ InSend("pump") <=> pc["pump"] \in {"send", "drainSend"}
  /\ InSend("handler") <=> pc["handler"] = "send"

(* Every value put on out is on the wire, in the pump's hands or in out,   *)
(* in that order, until the pump gives up.                                 *)
InFlight == IF InSend("pump") THEN 1 ELSE 0

OutInv ==
  /\ flushed <= queued
  /\ InSend("pump") => sending["pump"] = ValueFrame(flushed + 1) /\ flushed < queued
  /\ pc["pump"] # "done" => /\ queued = flushed + InFlight + Len(out)
                            /\ \A i \in 1..Len(out) : out[i] = flushed + InFlight + i

(* The pump ends for three reasons only, and the handler's own close frame *)
(* comes after that.                                                       *)
StopInv ==
  /\ stop <=> pc["handler"] \in {"waiting", "send", "returned"}
  /\ pc["handler"] \in {"send", "returned"} => pc["pump"] = "done"
  /\ pc["pump"] \in {"drain", "drainSend"} => stop
  /\ owed <= queued /\ (~stop => owed = 0)
  /\ pc["pump"] = "done" => \/ broken \/ closeSent
                            \/ flushed = queued /\ outClosed
                            \/ flushed >= owed /\ stop
  /\ closer = "handler" => pc["handler"] = "returned" /\ closeSent

CloseInv == closeSent <=> ClientView!Closed

IInv ==
  /\ TypeOK /\ LockInv /\ SendingInv /\ OutInv /\ StopInv /\ CloseInv
  /\ FramesWhole /\ FlushedBeforeClose
===============================================================================
