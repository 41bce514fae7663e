------------------------------- MODULE WsConnMC -------------------------------
(* WsConn for TLC: one frame of each kind readLoop tells apart, among them *)
(* a two-byte character split over two fragments; a message over its limit *)
(* is left out, its 1009 being answered as the 1002 of a misplaced frame.  *)
EXTENDS WsConn

ClientSends(fin, op, payload) ==
  [rsv |-> FALSE, fin |-> fin, op |-> op, masked |-> TRUE, payload |-> payload]

MCClientFrames ==
  { ClientSends(TRUE, Text, <<97>>), ClientSends(FALSE, Text, <<195>>),
    ClientSends(TRUE, Continuation, <<169>>), ClientSends(TRUE, Ping, <<7>>),
    ClientSends(TRUE, Pong, <<>>), ClientSends(TRUE, Close, <<3, 232, 66>>),
    ClientSends(TRUE, Binary, <<97, 97, 97, 97>>) }

MCBinaryValues == {2}
===============================================================================
