---------------------------------- MODULE Web ----------------------------------
(***************************************************************************)
(* The web library's server (web/web.go, web/sse.go): requests that go     *)
(* through a middleware chain with WrapRecover and WrapTimeout to a        *)
(* handler, the answer, event stream or websocket it returns, and          *)
(* ServeGraceful.                                                          *)
(*                                                                         *)
(* net/http gives each request a goroutine of its own.  Under WrapTimeout  *)
(* the handler runs in another one, which nothing stops when the time is   *)
(* up.  The handler is any glisp function: it may start a producer of      *)
(* events with GoRecover, return a page, nil, a status net/http refuses,   *)
(* the producer's stream or a websocket (WsConn), panic, or never return.  *)
(***************************************************************************)
EXTENDS Naturals, Sequences, SequencesExt

CONSTANTS
  Requests,  \* the requests clients may make
  Streaming, \* bound: those whose handler may start a producer, or return more than
             \* a page or nil, and whose client may disconnect
  Chains,    \* middleware chains, outermost first, of "recover" and "timeout"
  Events,    \* bound: events a producer sends
  EventCap   \* capacity of an event channel

ASSUME WebAssumption ==
  /\ Streaming \subseteq Requests
  /\ \A c \in Chains : c \in Seq({"recover", "timeout"}) /\ IsInjective(c)
  /\ Events \in Nat /\ EventCap \in Nat \ {0}

VARIABLES
  chain,     \* the application's middleware
  server,    \* ServeGraceful: "serving", "draining", "returned"; or "crashed"
  listening, \* ListenAndServe has its port
  overdue,   \* Shutdown's deadline has passed
  at,        \* the goroutine of each request
  response,  \* the response in its hands
  answer,    \* what was written to the client
  gone,      \* requests whose client has disconnected
  handler,   \* where the handler of each request is
  given,     \* the response it has returned
  result,    \* WrapTimeout's channel, with room for one response
  producer,  \* the producer of each request's events
  watching,  \* requests whose producer races (web/done req)
  events, eventsClosed,  \* the event channels
  made, wrote            \* how many events were sent, and those written

requests == <<at, response, answer, gone>>
handlers == <<handler, given, result>>
streams  == <<producer, watching, events, eventsClosed, made>>
shutdown == <<server, listening, overdue>>
vars == <<chain, shutdown, requests, handlers, streams, wrote>>

Each(x) == [r \in Requests |-> x]

Init ==
  /\ chain \in Chains
  /\ server = "serving" /\ listening \in BOOLEAN /\ overdue = FALSE
  /\ at = Each("none") /\ response = Each("none") /\ answer = Each("none") /\ gone = {}
  /\ handler = Each("none") /\ given = Each("none") /\ result = Each(<<>>)
  /\ producer = Each("none") /\ watching = {}
  /\ events = Each(<<>>) /\ eventsClosed = {} /\ made = Each(0) /\ wrote = Each(<<>>)

Up == server \in {"serving", "draining"}

Timed == Contains(chain, "timeout")

(* The middleware that runs in the handler's goroutine. *)
Inside ==
  IF Timed THEN SubSeq(chain, SelectInSeq(chain, LAMBDA m : m = "timeout"), Len(chain)) ELSE chain

Recovered == Contains(Inside, "recover")

-------------------------------------------------------------------------------
(* RingToHTTP: the request map, and the call of the chain. *)

Accept(r) ==
  /\ server = "serving" /\ listening /\ at[r] = "none"
  /\ at' = [at EXCEPT ![r] = IF Timed THEN "waiting" ELSE "handling"]
  /\ handler' = [handler EXCEPT ![r] = "running"]
  /\ UNCHANGED <<chain, shutdown, response, answer, gone, given, result, streams, wrote>>

(* net/http no longer looks at a connection that was hijacked. *)
Disconnect(r) ==
  /\ Up /\ at[r] \notin {"none", "upgraded", "ended"} /\ r \in Streaming \ gone
  /\ gone' = gone \cup {r}
  /\ UNCHANGED <<chain, shutdown, at, response, answer, handlers, streams, wrote>>

(* The request's context is done: its client is gone, or it was served.    *)
Cancelled(r) == r \in gone \/ at[r] = "ended"

-------------------------------------------------------------------------------
(* The handler, called directly or in the goroutine of WrapTimeout. *)

StartsProducer(r) ==
  /\ Up /\ handler[r] = "running" /\ producer[r] = "none" /\ r \in Streaming
  /\ producer' = [producer EXCEPT ![r] = "running"]
  /\ watching' \in {watching, watching \cup {r}}
  /\ UNCHANGED <<chain, shutdown, requests, handlers, events, eventsClosed, made, wrote>>

Gives(r, resp) ==
  /\ IF Timed
       THEN /\ handler' = [handler EXCEPT ![r] = "sending"]
            /\ given' = [given EXCEPT ![r] = resp]
            /\ UNCHANGED <<at, response>>
       ELSE /\ handler' = [handler EXCEPT ![r] = "done"]
            /\ at' = [at EXCEPT ![r] = "answering"]
            /\ response' = [response EXCEPT ![r] = resp]
            /\ UNCHANGED given
  /\ UNCHANGED <<chain, shutdown, answer, gone, result, streams, wrote>>

HandlerReturns(r) ==
  /\ Up /\ handler[r] = "running"
  /\ \E resp \in {"page", "nil", "badStatus", "stream", "websocket"} :
       /\ resp = "stream" => producer[r] # "none"
       /\ resp \in {"badStatus", "websocket"} => r \in Streaming
       /\ Gives(r, resp)

(* WrapRecover answers for it if it is in this goroutine.  Otherwise       *)
(* net/http drops the connection, if this is the request's goroutine, and  *)
(* nobody is there to stop the panic if it is not.                         *)
HandlerPanics(r) ==
  /\ Up /\ handler[r] = "running"
  /\ IF Recovered THEN Gives(r, "500")
     ELSE IF Timed
       THEN /\ server' = "crashed"
            /\ UNCHANGED <<chain, listening, overdue, requests, handlers, streams, wrote>>
       ELSE /\ handler' = [handler EXCEPT ![r] = "done"]
            /\ at' = [at EXCEPT ![r] = "ended"]
            /\ UNCHANGED <<chain, shutdown, response, answer, gone, given, result, streams, wrote>>

(* Mutant: the channel has no room, the sender waits for a receiver. *)
SendsUnbuffered(r) ==
  /\ Up /\ handler[r] = "sending" /\ at[r] = "waiting"
  /\ result' = [result EXCEPT ![r] = <<given[r]>>]
  /\ handler' = [handler EXCEPT ![r] = "done"]
  /\ UNCHANGED <<chain, shutdown, requests, given, streams, wrote>>

Sends(r) ==
  /\ Up /\ handler[r] = "sending" /\ result[r] = <<>>
  /\ result' = [result EXCEPT ![r] = <<given[r]>>]
  /\ handler' = [handler EXCEPT ![r] = "done"]
  /\ UNCHANGED <<chain, shutdown, requests, given, streams, wrote>>

-------------------------------------------------------------------------------
(* The request's goroutine. *)

Answering(r, resp) ==
  /\ at' = [at EXCEPT ![r] = "answering"]
  /\ response' = [response EXCEPT ![r] = resp]
  /\ UNCHANGED <<chain, shutdown, answer, gone, handler, given, streams, wrote>>

(* Mutant: the select is tried again after the 503. *)
ResultArrivesLate(r) ==
  /\ Up /\ at[r] \in {"waiting", "ended"} /\ result[r] # <<>>
  /\ Answering(r, result[r][1])
  /\ result' = [result EXCEPT ![r] = <<>>]

ResultArrives(r) ==
  /\ Up /\ at[r] = "waiting" /\ result[r] # <<>>
  /\ Answering(r, result[r][1])
  /\ result' = [result EXCEPT ![r] = <<>>]

(* Mutant: the deadline is noticed when the handler has returned. *)
TimeoutLooksLate(r) ==
  /\ Up /\ at[r] = "waiting" /\ handler[r] = "done"
  /\ Answering(r, "503")
  /\ UNCHANGED result

TimesOut(r) ==
  /\ Up /\ at[r] = "waiting"
  /\ Answering(r, "503")
  /\ UNCHANGED result

(* RingToHTTP has written a, nothing if it is "none", and goes on at l. *)
Wrote(r, a, l) ==
  /\ answer' = [answer EXCEPT ![r] = a]
  /\ at' = [at EXCEPT ![r] = l]
  /\ UNCHANGED <<chain, shutdown, response, gone, handlers, streams, wrote>>

(* writeResponse, where nil is a 500.  A status that net/http refuses      *)
(* panics outside of every middleware: the connection is dropped.          *)
WritesResponse(r) ==
  \/ response[r] = "nil" /\ Wrote(r, "500", "ended")
  \/ response[r] = "badStatus" /\ Wrote(r, "none", "ended")
  \/ response[r] \in {"page", "500", "503"} /\ Wrote(r, response[r], "ended")

(* streamSse: the header. *)
OpensStream(r) == response[r] = "stream" /\ Wrote(r, "stream", "streaming")

(* upgradeWs: a bad handshake is refused; the connection is hijacked, or   *)
(* it cannot be.                                                           *)
Upgrades(r) ==
  /\ response[r] = "websocket"
  /\ Wrote(r, "400", "ended") \/ Wrote(r, "101", "upgraded") \/ Wrote(r, "none", "ended")

Answers(r) ==
  /\ Up /\ at[r] = "answering"
  /\ WritesResponse(r) \/ OpensStream(r) \/ Upgrades(r)

(* The websocket is over (WsConn). *)
UpgradeEnds(r) ==
  /\ Up /\ at[r] = "upgraded"
  /\ at' = [at EXCEPT ![r] = "ended"]
  /\ UNCHANGED <<chain, shutdown, response, answer, gone, handlers, streams, wrote>>

(* streamSse's loop.  What is written to a client that is gone is lost.    *)
StreamsEvent(r) ==
  /\ at[r] = "streaming" /\ events[r] # <<>>
  /\ events' = [events EXCEPT ![r] = Tail(@)]
  /\ wrote' = IF r \in gone THEN wrote ELSE [wrote EXCEPT ![r] = Append(@, Head(events[r]))]
  /\ UNCHANGED <<chain, shutdown, requests, handlers, producer, watching, eventsClosed, made>>

(* Mutant: the close of the channel is seen before what is in it. *)
StreamMayEndEarly(r) == r \in eventsClosed

StreamMayEnd(r) == events[r] = <<>> /\ r \in eventsClosed


StreamEnds(r) ==
  /\ at[r] = "streaming"
  /\ StreamMayEnd(r) \/ r \in gone
  /\ at' = [at EXCEPT ![r] = "ended"]
  /\ UNCHANGED <<chain, shutdown, response, answer, gone, handlers, streams, wrote>>

Stream(r) == Up /\ (StreamsEvent(r) \/ StreamEnds(r))

-------------------------------------------------------------------------------
(* A producer: it sends and in the end, or on a panic, closes the channel. *)

Produces(r) ==
  /\ Up /\ producer[r] = "running" /\ made[r] < Events /\ Len(events[r]) < EventCap
  /\ made' = [made EXCEPT ![r] = @ + 1]
  /\ events' = [events EXCEPT ![r] = Append(@, made[r] + 1)]
  /\ UNCHANGED <<chain, shutdown, requests, handlers, producer, watching, eventsClosed, wrote>>

ProducerCloses(r) ==
  /\ Up /\ producer[r] = "running"
  /\ producer' = [producer EXCEPT ![r] = "done"]
  /\ eventsClosed' = eventsClosed \cup {r}
  /\ UNCHANGED <<chain, shutdown, requests, handlers, watching, events, made, wrote>>

(* It closes after its last event; or web/done is closed, by the goroutine *)
(* that waits for the request's context.                                   *)
ProducerFinishes(r) == made[r] = Events /\ ProducerCloses(r)
ProducerPanics(r)   == made[r] < Events /\ ProducerCloses(r)

Done(r)              == r \in watching /\ Cancelled(r)
ProducerSeesDone(r)  == Done(r) /\ ProducerCloses(r)

-------------------------------------------------------------------------------
(* ServeGraceful.  A server that could not listen waits for the signal too. *)

Signal ==
  /\ server = "serving" /\ server' = "draining" /\ listening' = FALSE
  /\ UNCHANGED <<chain, overdue, requests, handlers, streams, wrote>>

(* Mutant: Shutdown does not wait for the streams. *)
StreamsAreIdle == \A r \in Requests : at[r] \in {"none", "upgraded", "streaming", "ended"}

(* Shutdown knows nothing of hijacked connections. *)
Idle == \A r \in Requests : at[r] \in {"none", "upgraded", "ended"}

Drained ==
  /\ server = "draining" /\ Idle
  /\ server' = "returned"
  /\ UNCHANGED <<chain, listening, overdue, requests, handlers, streams, wrote>>

DeadlinePasses ==
  /\ server = "draining" /\ ~Idle
  /\ server' = "returned" /\ overdue' = TRUE
  /\ UNCHANGED <<chain, listening, requests, handlers, streams, wrote>>

-------------------------------------------------------------------------------
Goroutine(r) ==
  Sends(r) \/ ResultArrives(r) \/ TimesOut(r) \/ Answers(r) \/ Stream(r)

Next ==
  \/ \E r \in Requests :
       \/ Accept(r) \/ Disconnect(r) \/ StartsProducer(r) \/ HandlerReturns(r) \/ HandlerPanics(r)
       \/ Goroutine(r) \/ Produces(r) \/ ProducerFinishes(r) \/ ProducerPanics(r)
       \/ ProducerSeesDone(r) \/ UpgradeEnds(r)
  \/ Signal \/ Drained \/ DeadlinePasses

Spec == Init /\ [][Next]_vars

(* Goroutines and timers run.  Handlers, producers, clients and websockets *)
(* owe nothing.                                                            *)
FairSpec ==
  /\ Spec
  /\ \A r \in Requests : /\ WF_vars(Sends(r))
                         /\ WF_vars(ResultArrives(r) \/ TimesOut(r) \/ Answers(r) \/ Stream(r))

-------------------------------------------------------------------------------
Response == {"page", "nil", "badStatus", "stream", "websocket", "500", "503"}
Answer   == {"page", "stream", "101", "400", "500", "503"}

TypeOK ==
  /\ chain \in Chains
  /\ server \in {"serving", "draining", "returned", "crashed"}
  /\ listening \in BOOLEAN /\ overdue \in BOOLEAN
  /\ at \in [Requests -> {"none", "waiting", "handling", "answering", "streaming", "upgraded", "ended"}]
  /\ response \in [Requests -> Response \cup {"none"}]
  /\ answer \in [Requests -> Answer \cup {"none"}]
  /\ gone \subseteq Requests /\ watching \subseteq Requests /\ eventsClosed \subseteq Requests
  /\ handler \in [Requests -> {"none", "running", "sending", "done"}]
  /\ given \in [Requests -> Response \cup {"none"}]
  /\ producer \in [Requests -> {"none", "running", "done"}]
  /\ result \in [Requests -> {<<>>} \cup { <<resp>> : resp \in Response }]
  /\ made \in [Requests -> 0..Events]
  /\ events \in [Requests -> Seq(1..Events)] /\ wrote \in [Requests -> Seq(1..Events)]
  /\ \A r \in Requests : Len(events[r]) <= EventCap

(* A stream delivers the producer's events in order, all of them when it   *)
(* has ended and its client is still there.                                *)
StreamWhole ==
  \A r \in Requests :
    /\ \A i \in DOMAIN wrote[r] : wrote[r][i] = i
    /\ answer[r] = "stream" /\ at[r] = "ended" /\ r \notin gone => Len(wrote[r]) = made[r]

(* "Drains in-flight requests": when the server returns before the         *)
(* deadline, every request it accepted is over and no stream was cut, save *)
(* the websockets, which are left as they are.  All have their answer but  *)
(* those dropped: by a panic with no middleware at all, a status net/http  *)
(* refuses, or a hijack that failed.                                       *)
DrainsRequests ==
  server = "returned" /\ ~overdue =>
    \A r \in Requests :
      /\ at[r] \in {"none", "ended"} \/ (at[r] = "upgraded" /\ answer[r] = "101")
      /\ at[r] = "ended" /\ answer[r] = "none" =>
           (chain = <<>> /\ response[r] = "none") \/ response[r] \in {"badStatus", "websocket"}

(* "Returns 503 if the handler does not respond in time": under            *)
(* WrapTimeout every request is answered, whatever the handler does, save  *)
(* one dropped for what its handler returned in time.                      *)
TimeoutAnswers ==
  \A r \in Requests :
    at[r] = "waiting" ~> \/ answer[r] # "none" \/ ~Up
                         \/ at[r] = "ended" /\ response[r] \in {"badStatus", "websocket"}

(* "Its eventual response is discarded": the goroutine of a handler that   *)
(* returns after the time was up ends too.                                 *)
LateHandlersEnd == \A r \in Requests : handler[r] = "sending" ~> handler[r] = "done" \/ ~Up


(* A request is answered once: after the 503 of WrapTimeout the late       *)
(* response is not written, nor the other way round.                       *)
AnsweredOnce == [][\A r \in Requests : answer[r] # "none" => answer'[r] = answer[r]]_vars

-------------------------------------------------------------------------------
(* What these rest on that needs no fairness.                              *)

(* The channel of WrapTimeout has room when the handler returns, late or   *)
(* not: the send never waits for a receiver that is gone.                  *)
LateSendersNeverWait == \A r \in Requests : handler[r] = "sending" => result[r] = <<>>

(* What (web/done req) reports stays so: a late handler does not bring a   *)
(* request that is over back, and no handler returns twice.                *)
OverForGood ==
  [][\A r \in Requests : /\ Cancelled(r) => Cancelled(r)'
                         /\ handler[r] = "done" => handler'[r] = "done"]_vars
================================================================================
