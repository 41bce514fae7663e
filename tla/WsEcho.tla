-------------------------------- MODULE WsEcho --------------------------------
(***************************************************************************)
(* WsConn under the handler its documentation shows (web/ws.go's header,   *)
(* docs/web-enhancements-exploration.md section 4.2):                      *)
(*   (for-chan [msg in] (send! out (str "echo: " msg)))                    *)
(* It answers each message in turn, and returns once in is closed and has  *)
(* been emptied.                                                           *)
(***************************************************************************)
EXTENDS WsConn

EchoReceives ==
  /\ in # <<>>
  /\ in' = Tail(in)
  /\ HandlerMoves("running", "put")
  /\ UNCHANGED <<socket, inClosed, out, outClosed, stop, puts, others>>

EchoReturns == in = <<>> /\ inClosed /\ HandlerReturns

Echo == EchoReceives \/ EchoReturns

EchoNext == Pump \/ Pinger \/ Reader \/ HandlerForced \/ Echo \/ ClientLeaves

EchoSpec == Init /\ [][EchoNext]_vars /\ Fairness /\ WF_vars(Echo)

EchoFrames ==
  { [rsv |-> FALSE, fin |-> TRUE, op |-> Text, masked |-> TRUE, payload |-> <<97>>],
    [rsv |-> FALSE, fin |-> TRUE, op |-> Close, masked |-> TRUE, payload |-> <<3, 232>>] }

NoBinary == {}

(* "in closes when the client disconnects, [...] and returning from the    *)
(* handler closes the connection": with this handler, once in is closed    *)
(* the connection gets closed.  It does not when more messages are waiting *)
(* than out holds: the out pump ended on the first send after the close    *)
(* frame, and the handler waits on a full out for ever.                    *)
EchoEnds == inClosed ~> socket = "closed"
===============================================================================
