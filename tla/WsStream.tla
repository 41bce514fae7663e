------------------------------- MODULE WsStream -------------------------------
(***************************************************************************)
(* What a websocket client can rely on about the frames it receives,       *)
(* whatever the goroutines behind web/ws.go do: the values the handler put *)
(* on its out channel arrive one by one, in the order they were put, each  *)
(* at most once, never before it was put and under the opcode of its type; *)
(* control frames come in between; and nothing follows a close frame.      *)
(***************************************************************************)
EXTENDS Naturals, Sequences

CONSTANT BinaryValues  \* the numbers of the values that are []byte

VARIABLES
  queued,   \* how many values the handler has put on out: 1, 2, ..., queued
  flushed,  \* how many of them the client has received
  frames    \* the complete frames, in the order the client receives them

streamVars == <<queued, flushed, frames>>

Text    == 1
Binary  == 2
Close   == 8
Control == {Close, 9, 10}

(* The frame of the n-th value: a []byte goes out as a binary frame. *)
ValueFrame(n) == [op |-> IF n \in BinaryValues THEN Binary ELSE Text, body |-> <<n>>]

Closed == \E i \in 1..Len(frames) : frames[i].op = Close

StreamInit == queued = 0 /\ flushed = 0 /\ frames = <<>>

Put == queued' = queued + 1 /\ UNCHANGED <<flushed, frames>>

SendValue ==
  /\ ~Closed
  /\ flushed < queued
  /\ flushed' = flushed + 1
  /\ frames' = Append(frames, ValueFrame(flushed + 1))
  /\ UNCHANGED queued

SendControl ==
  /\ ~Closed
  /\ Len(frames') = Len(frames) + 1
  /\ frames' = Append(frames, frames'[Len(frames) + 1])
  /\ frames'[Len(frames) + 1].op \in Control
  /\ UNCHANGED <<queued, flushed>>

StreamNext == Put \/ SendValue \/ SendControl

Stream == StreamInit /\ [][StreamNext]_streamVars
===============================================================================
