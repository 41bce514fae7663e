------------------------------- MODULE WsFrames -------------------------------
(***************************************************************************)
(* The frame layer of the websocket server, web/ws.go: what readFrame      *)
(* accepts, and what readLoop and deliver do with one client frame given   *)
(* the fragmented message that is being assembled.  Pure operators; the    *)
(* goroutines that use them are in WsConn.                                 *)
(*                                                                         *)
(* Payload bytes are numbers.  UTF-8 is reduced to ASCII and two-byte      *)
(* characters, enough to tell a message that is valid as a whole from one  *)
(* whose fragments are each valid.                                         *)
(***************************************************************************)
EXTENDS Naturals, Sequences

CONSTANTS
  MaxControl,  \* longest control payload: 125
  MaxFrame,    \* longest frame readFrame allocates: 1 << 24
  MaxMessage   \* longest message, wsMaxMessage(resp)

ASSUME LimitsAssumption ==
  /\ MaxControl \in Nat
  /\ MaxFrame \in Nat
  /\ MaxMessage \in Nat

Continuation == 0
Text         == 1
Binary       == 2
Close        == 8
Ping         == 9
Pong         == 10

DataOps    == {Text, Binary}
ControlOps == 8..15
Opcodes    == 0..15

(* A client frame as its bytes arrive, before any check. *)
ClientFrame ==
  [rsv : BOOLEAN, fin : BOOLEAN, op : Opcodes, masked : BOOLEAN, payload : Seq(0..255)]

(* A server frame: always final and unmasked, so the opcode and the body. *)
Frame(op, body) == [op |-> op, body |-> body]

ClosePayload(code) == <<code \div 256, code % 256>>
CloseFrame(code)   == Frame(Close, ClosePayload(code))

-------------------------------------------------------------------------------
(* readFrame's checks, in its order: the length test comes before the mask  *)
(* test, so an oversized frame is dropped with no close code.              *)
BadControl(f) == f.op \in ControlOps /\ (~f.fin \/ Len(f.payload) > MaxControl)
TooLarge(f)   == ~f.rsv /\ ~BadControl(f) /\ Len(f.payload) > MaxFrame
Malformed(f)  == f.rsv \/ BadControl(f) \/ (~TooLarge(f) /\ ~f.masked)

IsLead(b) == b \in 194..223
IsTail(b) == b \in 128..191

(* utf8.Valid on one- and two-byte characters. *)
Utf8Valid(p) ==
  \A i \in 1..Len(p) :
    /\ p[i] < 128 \/ IsLead(p[i]) \/ IsTail(p[i])
    /\ IsLead(p[i]) => i < Len(p) /\ IsTail(p[i + 1])
    /\ IsTail(p[i]) => i > 1 /\ IsLead(p[i - 1])

-------------------------------------------------------------------------------
(* The message under assembly: msgOp and msg of readLoop. *)
NoMessage == [op |-> 0, msg |-> <<>>]

CarriesData(f) == f.op = Continuation \/ f.op \in DataOps

Grown(asm, f) == asm.msg \o f.payload

OpOf(asm, f) == IF f.op = Continuation THEN asm.op ELSE f.op

(* The frame opens a message over another one, or continues none. *)
OutOfPlace(asm, f) ==
  \/ f.op = Continuation /\ asm.op = 0
  \/ f.op \in DataOps /\ asm.op # 0

Reserved(f) == f.op \notin DataOps \cup {Continuation, Close, Ping, Pong}

TooBig(asm, f) == CarriesData(f) /\ Len(Grown(asm, f)) > MaxMessage

BadText(asm, f) ==
  CarriesData(f) /\ f.fin /\ OpOf(asm, f) = Text /\ ~Utf8Valid(Grown(asm, f))

(* The close code the reader fails the connection with; 0 when it does not. *)
FailCode(asm, f) ==
  IF TooLarge(f) THEN 0
  ELSE IF Malformed(f) \/ OutOfPlace(asm, f) \/ Reserved(f) THEN 1002
  ELSE IF TooBig(asm, f) THEN 1009
  ELSE IF BadText(asm, f) THEN 1007
  ELSE 0

(* The frames a connection survives. *)
Acceptable(asm, f) == ~TooLarge(f) /\ FailCode(asm, f) = 0

Assembled(asm, f) ==
  IF f.fin THEN NoMessage ELSE [op |-> OpOf(asm, f), msg |-> Grown(asm, f)]

(* What deliver puts on the in channel. *)
Message(asm, f) == [op |-> OpOf(asm, f), msg |-> Grown(asm, f)]

(* The answer to a close frame: the client's code, without the reason; a   *)
(* one-byte body is malformed.                                             *)
CloseReply(f) ==
  Frame(Close, IF Len(f.payload) = 1 THEN ClosePayload(1002)
               ELSE SubSeq(f.payload, 1, IF Len(f.payload) > 2 THEN 2 ELSE Len(f.payload)))

PongReply(f) == Frame(Pong, f.payload)
===============================================================================
