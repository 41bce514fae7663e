------------------------------ MODULE WebProofs ------------------------------
(***************************************************************************)
(* Theorems about Web, for any requests, middleware chains, number of      *)
(* events and capacity of their channels.                                  *)
(***************************************************************************)
EXTENDS Web, TLAPS

-------------------------------------------------------------------------------
(* The inductive invariant. *)

(* What a request's goroutine has written by the time it is somewhere, and *)
(* what ends it with nothing written.                                      *)
DroppedFor(r) ==
  \/ chain = <<>> /\ response[r] = "none"
  \/ response[r] \in {"badStatus", "websocket"}

AnsweredWhen ==
  \A r \in Requests :
    /\ at[r] \in {"none", "waiting", "handling", "answering"} => answer[r] = "none"
    /\ at[r] \in {"none", "waiting", "handling"} => response[r] = "none"
    /\ at[r] = "answering" => response[r] # "none"
    /\ at[r] = "streaming" => answer[r] = "stream"
    /\ at[r] = "upgraded" => answer[r] = "101"
    /\ at[r] = "ended" => answer[r] # "none" \/ DroppedFor(r)

(* Without WrapTimeout the handler runs in the request's goroutine, and    *)
(* with it what the handler has returned is a response.                    *)
HandlerWhere ==
  \A r \in Requests :
    /\ handler[r] = "running" /\ ~Timed => at[r] = "handling"
    /\ handler[r] = "sending" => given[r] # "none"

(* The channel of a stream holds the last events sent, in order; those     *)
(* before them were written, unless the client had gone.                   *)
EventsInOrder ==
  \A r \in Requests :
    /\ Len(events[r]) <= made[r]
    /\ \A k \in 1..Len(events[r]) : events[r][k] = made[r] - Len(events[r]) + k
    /\ \A k \in 1..Len(wrote[r]) : wrote[r][k] = k
    /\ r \notin gone => Len(wrote[r]) = made[r] - Len(events[r])

(* Nothing is sent once the channel is closed, and a stream that ended by  *)
(* itself had found it closed and empty.                                   *)
ClosedLast ==
  \A r \in Requests :
    /\ r \in eventsClosed <=> producer[r] = "done"
    /\ answer[r] = "stream" /\ at[r] = "ended" /\ r \notin gone => StreamMayEnd(r)

ReturnsIdle == server = "returned" => Idle \/ overdue

Inv ==
  /\ TypeOK /\ AnsweredWhen /\ HandlerWhere /\ EventsInOrder /\ ClosedLast
  /\ ReturnsIdle

LEMMA InitInv == Init => Inv
<1> SUFFICES ASSUME Init PROVE Inv
  OBVIOUS
<1> USE WebAssumption
<1>1. TypeOK
  <2>1. /\ chain \in Chains /\ server = "serving" /\ listening \in BOOLEAN /\ overdue \in BOOLEAN
        /\ gone = {} /\ watching = {} /\ eventsClosed = {}
    BY DEF Init
  <2>2. /\ at \in [Requests -> {"none", "waiting", "handling", "answering", "streaming", "upgraded", "ended"}]
        /\ response \in [Requests -> Response \cup {"none"}]
        /\ answer \in [Requests -> Answer \cup {"none"}]
        /\ handler \in [Requests -> {"none", "running", "sending", "done"}]
        /\ given \in [Requests -> Response \cup {"none"}]
        /\ producer \in [Requests -> {"none", "running", "done"}]
    BY DEF Init, Each
  <2>3. /\ result \in [Requests -> {<<>>} \cup { <<resp>> : resp \in Response }]
        /\ made \in [Requests -> 0..Events]
    BY DEF Init, Each
  <2>4. /\ events \in [Requests -> Seq(1..Events)] /\ wrote \in [Requests -> Seq(1..Events)]
        /\ \A r \in Requests : Len(events[r]) <= EventCap
    BY DEF Init, Each
  <2> QED
    BY <2>1, <2>2, <2>3, <2>4 DEF TypeOK
<1>2. AnsweredWhen /\ HandlerWhere /\ EventsInOrder /\ ClosedLast
  BY DEF Init, Each, AnsweredWhen, HandlerWhere, EventsInOrder, ClosedLast
<1>3. ReturnsIdle
  BY DEF Init, ReturnsIdle
<1> QED
  BY <1>1, <1>2, <1>3 DEF Inv

-------------------------------------------------------------------------------
(* The steps of the handler: it hands over a response, the panic ends the  *)
(* request, or the panic ends the process.                                 *)
Crashes(r) ==
  /\ Up /\ handler[r] = "running" /\ Timed /\ ~Recovered
  /\ server' = "crashed"
  /\ UNCHANGED <<chain, listening, overdue, requests, handlers, streams, wrote>>

Dropped(r) ==
  /\ Up /\ handler[r] = "running" /\ ~Timed /\ ~Recovered
  /\ handler' = [handler EXCEPT ![r] = "done"]
  /\ at' = [at EXCEPT ![r] = "ended"]
  /\ UNCHANGED <<chain, shutdown, response, answer, gone, given, result, streams, wrote>>

LEMMA HandlerSteps ==
  ASSUME NEW r \in Requests, HandlerReturns(r) \/ HandlerPanics(r)
  PROVE  \/ Up /\ handler[r] = "running" /\ \E resp \in Response : Gives(r, resp)
         \/ Dropped(r) \/ Crashes(r)
BY DEF HandlerReturns, HandlerPanics, Dropped, Crashes, Response

(* Each step of the system is one of these. *)
HandlerGives(r) == Up /\ handler[r] = "running" /\ \E resp \in Response : Gives(r, resp)

RequestStep(r) ==
  \/ Accept(r) \/ Disconnect(r) \/ StartsProducer(r) \/ HandlerGives(r) \/ Dropped(r) \/ Crashes(r)
  \/ Sends(r) \/ ResultArrives(r) \/ TimesOut(r) \/ Answers(r)
  \/ (Up /\ StreamsEvent(r)) \/ (Up /\ StreamEnds(r)) \/ UpgradeEnds(r)
  \/ Produces(r) \/ ProducerCloses(r)

(* What RingToHTTP writes, and where it goes on: with a stream or with a   *)
(* websocket it has answered as such, and it ends without an answer only   *)
(* for a bad status and a hijack that failed.                              *)
LEMMA AnswersWrite ==
  ASSUME NEW r \in Requests, Answers(r)
  PROVE  /\ Up /\ at[r] = "answering"
         /\ UNCHANGED <<chain, shutdown, response, gone, handlers, streams, wrote>>
         /\ \E a \in Answer \cup {"none"}, l \in {"streaming", "upgraded", "ended"} :
              /\ answer' = [answer EXCEPT ![r] = a] /\ at' = [at EXCEPT ![r] = l]
              /\ l = "streaming" <=> a = "stream"
              /\ l = "upgraded" <=> a = "101"
              /\ a = "none" => response[r] \in {"badStatus", "websocket"}
<1>1. /\ Up /\ at[r] = "answering"
      /\ UNCHANGED <<chain, shutdown, response, gone, handlers, streams, wrote>>
  BY DEF Answers, WritesResponse, OpensStream, Upgrades, Wrote
<1> DEFINE W(a, l) == answer' = [answer EXCEPT ![r] = a] /\ at' = [at EXCEPT ![r] = l]
<1>2. WritesResponse(r) \/ OpensStream(r) \/ Upgrades(r)
  BY DEF Answers
<1>3. CASE WritesResponse(r)
  <2>1. \/ W("500", "ended") \/ (response[r] = "badStatus" /\ W("none", "ended"))
        \/ (response[r] \in {"page", "500", "503"} /\ W(response[r], "ended"))
    BY <1>3 DEF WritesResponse, Wrote
  <2> QED
    BY <1>1, <2>1 DEF Answer
<1>4. CASE OpensStream(r)
  <2>1. W("stream", "streaming")
    BY <1>4 DEF OpensStream, Wrote
  <2> QED
    BY <1>1, <2>1 DEF Answer
<1>5. CASE Upgrades(r)
  <2>1. /\ response[r] = "websocket"
        /\ W("400", "ended") \/ W("101", "upgraded") \/ W("none", "ended")
    BY <1>5 DEF Upgrades, Wrote
  <2> QED
    BY <1>1, <2>1 DEF Answer
<1> QED
  BY <1>2, <1>3, <1>4, <1>5

LEMMA Steps ==
  ASSUME [Next]_vars
  PROVE  \/ \E r \in Requests : RequestStep(r)
         \/ Signal \/ Drained \/ DeadlinePasses \/ UNCHANGED vars
<1>1. ASSUME NEW r \in Requests, HandlerReturns(r) \/ HandlerPanics(r) PROVE RequestStep(r)
  BY <1>1, HandlerSteps DEF RequestStep, HandlerGives
<1>2. ASSUME NEW r \in Requests, Goroutine(r) PROVE RequestStep(r)
  BY <1>2 DEF Goroutine, Stream, RequestStep
<1>3. ASSUME NEW r \in Requests, ProducerFinishes(r) \/ ProducerPanics(r) \/ ProducerSeesDone(r)
      PROVE  RequestStep(r)
  BY <1>3 DEF ProducerFinishes, ProducerPanics, ProducerSeesDone, RequestStep
<1>4. ASSUME NEW r \in Requests,
             Accept(r) \/ Disconnect(r) \/ StartsProducer(r) \/ Produces(r) \/ UpgradeEnds(r)
      PROVE  RequestStep(r)
  BY <1>4 DEF RequestStep
<1> QED
  BY <1>1, <1>2, <1>3, <1>4 DEF Next

-------------------------------------------------------------------------------
LEMMA FirstAndRest ==
  ASSUME NEW S, NEW e \in Seq(S), e # <<>>
  PROVE  /\ Head(e) \in S /\ Tail(e) \in Seq(S)
         /\ Len(e) \in Nat \ {0} /\ Len(Tail(e)) = Len(e) - 1 /\ Head(e) = e[1]
         /\ \A k \in 1..(Len(e) - 1) : Tail(e)[k] = e[k + 1]
         /\ \A w \in Seq(S) : Append(w, Head(e)) \in Seq(S)
<1>1. Head(e) \in S /\ Len(e) \in Nat \ {0} /\ Head(e) = e[1]
  OBVIOUS
<1>2. /\ Tail(e) \in Seq(S) /\ Len(Tail(e)) = Len(e) - 1
      /\ \A k \in 1..(Len(e) - 1) : Tail(e)[k] = e[k + 1]
  OBVIOUS
<1> QED
  BY <1>1, <1>2

LEMMA TypeStep == TypeOK /\ HandlerWhere /\ [Next]_vars => TypeOK'
<1> SUFFICES ASSUME TypeOK, HandlerWhere, [Next]_vars PROVE TypeOK'
  OBVIOUS
<1> USE DEF TypeOK
<1>1. ASSUME NEW r \in Requests, Accept(r) PROVE TypeOK'
  <2>1. at' \in [Requests -> {"none", "waiting", "handling", "answering", "streaming", "upgraded", "ended"}]
    BY <1>1 DEF Accept
  <2> QED
    BY <1>1, <2>1 DEF Accept, shutdown, streams
<1>2. ASSUME NEW r \in Requests, Disconnect(r) PROVE TypeOK'
  BY <1>2 DEF Disconnect, shutdown, handlers, streams
<1>3. ASSUME NEW r \in Requests, StartsProducer(r) PROVE TypeOK'
  <2>1. watching' \subseteq Requests
    BY <1>3 DEF StartsProducer
  <2> QED
    BY <1>3, <2>1 DEF StartsProducer, shutdown, requests, handlers
<1>4. ASSUME NEW r \in Requests, HandlerGives(r) PROVE TypeOK'
  <2>1. PICK resp \in Response : Gives(r, resp)
    BY <1>4 DEF HandlerGives
  <2>2. CASE Timed
    <3>1. /\ handler' = [handler EXCEPT ![r] = "sending"] /\ given' = [given EXCEPT ![r] = resp]
          /\ UNCHANGED <<chain, server, listening, overdue, at, response, answer, gone, result,
                         producer, watching, events, eventsClosed, made, wrote>>
      BY <2>1, <2>2 DEF Gives, shutdown, streams
    <3> QED
      BY <3>1
  <2>3. CASE ~Timed
    <3>1. /\ handler' = [handler EXCEPT ![r] = "done"] /\ at' = [at EXCEPT ![r] = "answering"]
          /\ response' = [response EXCEPT ![r] = resp]
          /\ UNCHANGED <<chain, server, listening, overdue, answer, gone, given, result,
                         producer, watching, events, eventsClosed, made, wrote>>
      BY <2>1, <2>3 DEF Gives, shutdown, streams
    <3> QED
      BY <3>1
  <2> QED
    BY <2>2, <2>3
<1>5. ASSUME NEW r \in Requests, Dropped(r) \/ Crashes(r) PROVE TypeOK'
  <2>1. CASE Dropped(r)
    BY <2>1 DEF Dropped, shutdown, streams
  <2>2. CASE Crashes(r)
    BY <2>2 DEF Crashes, requests, handlers, streams
  <2> QED
    BY <1>5, <2>1, <2>2
<1>6. ASSUME NEW r \in Requests, Sends(r) PROVE TypeOK'
  <2>1. given[r] \in Response
    BY <1>6 DEF Sends, HandlerWhere
  <2>2. result' \in [Requests -> {<<>>} \cup { <<resp>> : resp \in Response }]
    BY <1>6, <2>1 DEF Sends
  <2> QED
    BY <1>6, <2>2 DEF Sends, shutdown, requests, streams
<1>7. ASSUME NEW r \in Requests, ResultArrives(r) PROVE TypeOK'
  <2>1. result[r][1] \in Response
    BY <1>7 DEF ResultArrives
  <2>2. result' \in [Requests -> {<<>>} \cup { <<resp>> : resp \in Response }]
    BY <1>7 DEF ResultArrives
  <2> QED
    BY <1>7, <2>1, <2>2 DEF ResultArrives, Answering, shutdown, streams
<1>8. ASSUME NEW r \in Requests, TimesOut(r) PROVE TypeOK'
  <2>1. "503" \in Response
    BY DEF Response
  <2> QED
    BY <1>8, <2>1 DEF TimesOut, Answering, shutdown, streams
<1>9. ASSUME NEW r \in Requests, Answers(r) PROVE TypeOK'
  <2>1. PICK a \in Answer \cup {"none"}, l \in {"streaming", "upgraded", "ended"} :
          answer' = [answer EXCEPT ![r] = a] /\ at' = [at EXCEPT ![r] = l]
    BY <1>9, AnswersWrite
  <2>2. UNCHANGED <<chain, shutdown, response, gone, handlers, streams, wrote>>
    BY <1>9, AnswersWrite
  <2> QED
    BY <2>1, <2>2 DEF shutdown, handlers, streams
<1>10. ASSUME NEW r \in Requests, StreamsEvent(r) PROVE TypeOK'
  <2>0. events[r] \in Seq(1..Events) /\ events[r] # <<>> /\ wrote[r] \in Seq(1..Events)
    BY <1>10 DEF StreamsEvent
  <2>1. /\ Head(events[r]) \in 1..Events /\ Tail(events[r]) \in Seq(1..Events)
        /\ Len(Tail(events[r])) = Len(events[r]) - 1 /\ Len(events[r]) \in Nat
        /\ Append(wrote[r], Head(events[r])) \in Seq(1..Events)
    BY <2>0, FirstAndRest
  <2>2. /\ events' \in [Requests -> Seq(1..Events)]
        /\ \A q \in Requests : Len(events'[q]) <= EventCap
    BY <1>10, <2>1, WebAssumption DEF StreamsEvent
  <2>3. wrote' \in [Requests -> Seq(1..Events)]
    BY <1>10, <2>1 DEF StreamsEvent
  <2> QED
    BY <1>10, <2>2, <2>3 DEF StreamsEvent, shutdown, requests, handlers
<1>11. ASSUME NEW r \in Requests, StreamEnds(r) \/ UpgradeEnds(r) PROVE TypeOK'
  BY <1>11 DEF StreamEnds, UpgradeEnds, shutdown, handlers, streams
<1>12. ASSUME NEW r \in Requests, Produces(r) PROVE TypeOK'
  <2>1. made[r] + 1 \in 1..Events /\ made' \in [Requests -> 0..Events]
    BY <1>12, WebAssumption DEF Produces
  <2>2. /\ Append(events[r], made[r] + 1) \in Seq(1..Events)
        /\ Len(Append(events[r], made[r] + 1)) = Len(events[r]) + 1 /\ Len(events[r]) \in Nat
    BY <2>1
  <2>3. /\ events' \in [Requests -> Seq(1..Events)]
        /\ \A q \in Requests : Len(events'[q]) <= EventCap
    BY <1>12, <2>2, WebAssumption DEF Produces
  <2> QED
    BY <1>12, <2>1, <2>3 DEF Produces, shutdown, requests, handlers
<1>13. ASSUME NEW r \in Requests, ProducerCloses(r) PROVE TypeOK'
  BY <1>13 DEF ProducerCloses, shutdown, requests, handlers
<1>14. CASE Signal \/ Drained \/ DeadlinePasses
  <2>1. /\ server' \in {"serving", "draining", "returned", "crashed"}
        /\ listening' \in BOOLEAN /\ overdue' \in BOOLEAN
    BY <1>14 DEF Signal, Drained, DeadlinePasses
  <2>2. UNCHANGED <<chain, requests, handlers, streams, wrote>>
    BY <1>14 DEF Signal, Drained, DeadlinePasses
  <2> QED
    BY <2>1, <2>2 DEF requests, handlers, streams
<1>15. CASE UNCHANGED vars
  BY <1>15 DEF vars, shutdown, requests, handlers, streams
<1> QED
  BY <1>1, <1>2, <1>3, <1>4, <1>5, <1>6, <1>7, <1>8, <1>9, <1>10, <1>11, <1>12, <1>13, <1>14,
     <1>15, Steps DEF RequestStep

-------------------------------------------------------------------------------
(* The middleware. *)

LEMMA ChainKept == [Next]_vars => chain' = chain /\ Timed' = Timed
<1> SUFFICES ASSUME [Next]_vars
             PROVE  chain' = chain /\ Timed' = Timed
  OBVIOUS
<1>1. ASSUME NEW r \in Requests, RequestStep(r) PROVE chain' = chain
  BY <1>1 DEF RequestStep, Accept, Disconnect, StartsProducer, HandlerGives, Gives, Dropped, Crashes,
     Sends, ResultArrives, TimesOut, Answering, Answers, WritesResponse, OpensStream, Upgrades, Wrote,
     StreamsEvent, StreamEnds, UpgradeEnds, Produces, ProducerCloses
<1>2. chain' = chain
  BY <1>1, Steps DEF Signal, Drained, DeadlinePasses, vars
<1>3. Timed' = Timed
  BY <1>2 DEF Timed, Contains
<1> QED
  BY <1>2, <1>3

LEMMA NoMiddleware ==
  ASSUME TypeOK, ~Timed, ~Recovered
  PROVE  chain = <<>>
<1>1. chain \in Seq({"recover", "timeout"})
  BY WebAssumption DEF TypeOK
<1>2. \A i \in 1..Len(chain) : chain[i] # "recover" /\ chain[i] # "timeout"
  BY DEF Timed, Recovered, Inside, Contains
<1>3. \A i \in 1..Len(chain) : chain[i] \in {"recover", "timeout"}
  BY <1>1
<1>4. Len(chain) = 0
  BY <1>1, <1>2, <1>3
<1> QED
  BY <1>1, <1>4

LEMMA AnsweredStep ==
  TypeOK /\ AnsweredWhen /\ HandlerWhere /\ [Next]_vars => AnsweredWhen'
<1> SUFFICES ASSUME TypeOK, AnsweredWhen, HandlerWhere, [Next]_vars PROVE AnsweredWhen'
  OBVIOUS
<1>0. chain' = chain
  BY ChainKept
<1>1. ASSUME UNCHANGED <<at, response, answer>> PROVE AnsweredWhen'
  BY <1>0, <1>1 DEF AnsweredWhen, DroppedFor
<1>2. ASSUME NEW r \in Requests, Accept(r) PROVE AnsweredWhen'
  <2>1. /\ at[r] = "none" /\ at'[r] \in {"waiting", "handling"} /\ UNCHANGED <<response, answer>>
        /\ \A q \in Requests : q # r => at'[q] = at[q]
    BY <1>2 DEF Accept, TypeOK
  <2> QED
    BY <1>0, <2>1 DEF AnsweredWhen, DroppedFor
<1>3. ASSUME NEW r \in Requests, HandlerGives(r) PROVE AnsweredWhen'
  <2>1. PICK resp \in Response : Gives(r, resp) /\ handler[r] = "running"
    BY <1>3 DEF HandlerGives
  <2>2. CASE Timed
    BY <1>1, <2>1, <2>2 DEF Gives
  <2>3. CASE ~Timed
    <3>1. at[r] = "handling"
      BY <2>1, <2>3 DEF HandlerWhere
    <3>2. /\ at'[r] = "answering" /\ response'[r] = resp /\ resp # "none" /\ answer' = answer
          /\ \A q \in Requests : q # r => at'[q] = at[q] /\ response'[q] = response[q]
      BY <2>1, <2>3 DEF Gives, TypeOK, Response
    <3> QED
      BY <1>0, <3>1, <3>2 DEF AnsweredWhen, DroppedFor
  <2> QED
    BY <2>2, <2>3
<1>4. ASSUME NEW r \in Requests, Dropped(r) PROVE AnsweredWhen'
  <2>1. chain = <<>>
    BY <1>4, NoMiddleware DEF Dropped
  <2>2. /\ at'[r] = "ended" /\ UNCHANGED <<response, answer>>
        /\ \A q \in Requests : q # r => at'[q] = at[q]
    BY <1>4 DEF Dropped, TypeOK
  <2>3. response[r] = "none"
    BY <1>4 DEF Dropped, HandlerWhere, AnsweredWhen
  <2> QED
    BY <1>0, <2>1, <2>2, <2>3 DEF AnsweredWhen, DroppedFor
<1>5. ASSUME NEW r \in Requests, ResultArrives(r) \/ TimesOut(r) PROVE AnsweredWhen'
  <2>1. PICK resp \in Response : at[r] = "waiting" /\ Answering(r, resp)
    <3>1. CASE ResultArrives(r)
      <4>1. result[r][1] \in Response
        BY <3>1 DEF ResultArrives, TypeOK
      <4> QED
        BY <3>1, <4>1 DEF ResultArrives
    <3>2. CASE TimesOut(r)
      BY <3>2 DEF TimesOut, Response
    <3> QED
      BY <1>5, <3>1, <3>2
  <2>2. /\ at'[r] = "answering" /\ response'[r] = resp /\ resp # "none" /\ answer' = answer
        /\ \A q \in Requests : q # r => at'[q] = at[q] /\ response'[q] = response[q]
    BY <2>1 DEF Answering, TypeOK, Response
  <2> QED
    BY <1>0, <2>1, <2>2 DEF AnsweredWhen, DroppedFor
<1>6. ASSUME NEW r \in Requests, Answers(r) PROVE AnsweredWhen'
  <2>1. PICK a \in Answer \cup {"none"}, l \in {"streaming", "upgraded", "ended"} :
          /\ answer' = [answer EXCEPT ![r] = a] /\ at' = [at EXCEPT ![r] = l]
          /\ l = "streaming" <=> a = "stream"
          /\ l = "upgraded" <=> a = "101"
          /\ a = "none" => response[r] \in {"badStatus", "websocket"}
    BY <1>6, AnswersWrite
  <2>2. /\ at'[r] = l /\ answer'[r] = a
        /\ \A q \in Requests : q # r => at'[q] = at[q] /\ answer'[q] = answer[q]
    BY <2>1 DEF TypeOK
  <2>3. response' = response
    BY <1>6, AnswersWrite
  <2> QED
    BY <1>0, <2>1, <2>2, <2>3 DEF AnsweredWhen, DroppedFor
<1>7. ASSUME NEW r \in Requests, StreamEnds(r) \/ UpgradeEnds(r) PROVE AnsweredWhen'
  <2>1. /\ at[r] \in {"streaming", "upgraded"} /\ at'[r] = "ended" /\ UNCHANGED <<response, answer>>
        /\ \A q \in Requests : q # r => at'[q] = at[q]
    BY <1>7 DEF StreamEnds, UpgradeEnds, TypeOK
  <2> QED
    BY <1>0, <2>1 DEF AnsweredWhen, DroppedFor
<1>8. ASSUME NEW r \in Requests, Disconnect(r) \/ StartsProducer(r) \/ Crashes(r) \/ Sends(r)
      PROVE  AnsweredWhen'
  BY <1>1, <1>8 DEF Disconnect, StartsProducer, Crashes, Sends, requests
<1>9. ASSUME NEW r \in Requests, StreamsEvent(r) \/ Produces(r) \/ ProducerCloses(r)
      PROVE  AnsweredWhen'
  BY <1>1, <1>9 DEF StreamsEvent, Produces, ProducerCloses, requests
<1>10. CASE Signal \/ Drained \/ DeadlinePasses \/ UNCHANGED vars
  BY <1>1, <1>10 DEF Signal, Drained, DeadlinePasses, vars, requests
<1> QED
  BY <1>2, <1>3, <1>4, <1>5, <1>6, <1>7, <1>8, <1>9, <1>10, Steps DEF RequestStep

LEMMA HandlerStep == TypeOK /\ HandlerWhere /\ [Next]_vars => HandlerWhere'
<1> SUFFICES ASSUME TypeOK, HandlerWhere, [Next]_vars PROVE HandlerWhere'
  OBVIOUS
<1>0. Timed' = Timed
  BY ChainKept
<1>1. ASSUME UNCHANGED <<at, handler, given>> PROVE HandlerWhere'
  BY <1>0, <1>1 DEF HandlerWhere
<1>2. ASSUME NEW r \in Requests, Accept(r) PROVE HandlerWhere'
  <2>1. /\ handler'[r] = "running" /\ given' = given /\ at'[r] = IF Timed THEN "waiting" ELSE "handling"
        /\ \A q \in Requests : q # r => at'[q] = at[q] /\ handler'[q] = handler[q]
    BY <1>2 DEF Accept, TypeOK
  <2> QED
    BY <1>0, <2>1 DEF HandlerWhere
<1>3. ASSUME NEW r \in Requests, HandlerGives(r) PROVE HandlerWhere'
  <2>1. PICK resp \in Response : Gives(r, resp)
    BY <1>3 DEF HandlerGives
  <2>2. CASE Timed
    <3>1. /\ handler'[r] = "sending" /\ given'[r] = resp /\ resp # "none" /\ at' = at
          /\ \A q \in Requests : q # r => handler'[q] = handler[q] /\ given'[q] = given[q]
      BY <2>1, <2>2 DEF Gives, TypeOK, Response
    <3> QED
      BY <1>0, <3>1, <2>2 DEF HandlerWhere
  <2>3. CASE ~Timed
    <3>1. /\ handler'[r] = "done" /\ given' = given
          /\ \A q \in Requests : q # r => handler'[q] = handler[q] /\ at'[q] = at[q]
      BY <2>1, <2>3 DEF Gives, TypeOK
    <3> QED
      BY <1>0, <3>1 DEF HandlerWhere
  <2> QED
    BY <2>2, <2>3
<1>4. ASSUME NEW r \in Requests, Dropped(r) \/ Sends(r) PROVE HandlerWhere'
  <2>1. /\ handler'[r] = "done" /\ given' = given
        /\ \A q \in Requests : q # r => handler'[q] = handler[q] /\ at'[q] = at[q]
    BY <1>4 DEF Dropped, Sends, requests, TypeOK
  <2> QED
    BY <1>0, <2>1 DEF HandlerWhere
<1>5. ASSUME NEW r \in Requests,
             ResultArrives(r) \/ TimesOut(r) \/ Answers(r) \/ StreamEnds(r) \/ UpgradeEnds(r)
      PROVE  HandlerWhere'
  <2>1. /\ at[r] # "handling" /\ UNCHANGED <<handler, given>>
        /\ \A q \in Requests : q # r => at'[q] = at[q]
    <3>1. CASE Answers(r)
      <4>1. PICK l \in {"streaming", "upgraded", "ended"} : at' = [at EXCEPT ![r] = l]
        BY <3>1, AnswersWrite
      <4>2. at[r] = "answering" /\ UNCHANGED <<handler, given>>
        BY <3>1, AnswersWrite DEF handlers
      <4> QED
        BY <4>1, <4>2 DEF TypeOK
    <3>2. CASE ResultArrives(r) \/ TimesOut(r) \/ StreamEnds(r) \/ UpgradeEnds(r)
      BY <3>2 DEF ResultArrives, TimesOut, Answering, StreamEnds, UpgradeEnds, handlers, TypeOK
    <3> QED
      BY <1>5, <3>1, <3>2
  <2> QED
    BY <1>0, <2>1 DEF HandlerWhere
<1>6. ASSUME NEW r \in Requests, Disconnect(r) \/ StartsProducer(r) \/ Crashes(r)
      PROVE  HandlerWhere'
  BY <1>1, <1>6 DEF Disconnect, StartsProducer, Crashes, requests, handlers
<1>7. ASSUME NEW r \in Requests, StreamsEvent(r) \/ Produces(r) \/ ProducerCloses(r)
      PROVE  HandlerWhere'
  BY <1>1, <1>7 DEF StreamsEvent, Produces, ProducerCloses, requests, handlers
<1>8. CASE Signal \/ Drained \/ DeadlinePasses \/ UNCHANGED vars
  BY <1>1, <1>8 DEF Signal, Drained, DeadlinePasses, vars, requests, handlers
<1> QED
  BY <1>2, <1>3, <1>4, <1>5, <1>6, <1>7, <1>8, Steps DEF RequestStep

-------------------------------------------------------------------------------
(* The streams. *)

LEMMA EventsStep == TypeOK /\ EventsInOrder /\ [Next]_vars => EventsInOrder'
<1> SUFFICES ASSUME TypeOK, EventsInOrder, [Next]_vars PROVE EventsInOrder'
  OBVIOUS
<1>1. ASSUME UNCHANGED <<events, made, wrote>>, gone \subseteq gone' PROVE EventsInOrder'
  BY <1>1 DEF EventsInOrder
<1>2. ASSUME NEW r \in Requests, StreamsEvent(r) PROVE EventsInOrder'
  <2> DEFINE e == events[r]
             w == wrote[r]
  <2>1. /\ e \in Seq(1..Events) /\ e # <<>> /\ w \in Seq(1..Events) /\ made[r] \in Nat
    BY <1>2 DEF StreamsEvent, TypeOK
  <2>2. /\ Len(e) \in Nat \ {0} /\ Len(Tail(e)) = Len(e) - 1 /\ Head(e) = e[1]
        /\ \A k \in 1..(Len(e) - 1) : Tail(e)[k] = e[k + 1]
    BY <2>1, FirstAndRest
  <2>3. /\ Len(e) <= made[r] /\ Len(w) \in Nat
        /\ r \notin gone => Len(w) = made[r] - Len(e)
        /\ e[1] = made[r] - Len(e) + 1
    BY <2>1, <2>2 DEF EventsInOrder
  <2>4. /\ events'[r] = Tail(e) /\ wrote'[r] = (IF r \in gone THEN w ELSE Append(w, Head(e)))
        /\ UNCHANGED <<made, gone>>
        /\ \A q \in Requests : q # r => events'[q] = events[q] /\ wrote'[q] = wrote[q]
    BY <1>2 DEF StreamsEvent, requests, TypeOK
  <2>5. /\ Len(Tail(e)) <= made[r]
        /\ \A k \in 1..Len(Tail(e)) : Tail(e)[k] = made[r] - Len(Tail(e)) + k
    <3>1. \A k \in 1..Len(Tail(e)) : Tail(e)[k] = e[k + 1] /\ k + 1 \in 1..Len(e)
      BY <2>2
    <3>2. \A k \in 1..Len(e) : e[k] = made[r] - Len(e) + k
      BY DEF EventsInOrder
    <3>3. \A k \in 1..Len(Tail(e)) : made[r] - Len(e) + (k + 1) = made[r] - Len(Tail(e)) + k
      BY <2>1, <2>2
    <3> QED
      BY <2>1, <2>2, <2>3, <3>1, <3>2, <3>3
  <2>6. CASE r \in gone
    BY <2>4, <2>5, <2>6 DEF EventsInOrder
  <2>7. CASE r \notin gone
    <3>1. /\ Len(Append(w, Head(e))) = Len(w) + 1
          /\ \A k \in 1..(Len(w) + 1) :
               Append(w, Head(e))[k] = IF k = Len(w) + 1 THEN Head(e) ELSE w[k]
      BY <2>1
    <3>2. Head(e) = Len(w) + 1
      BY <2>1, <2>2, <2>3, <2>7
    <3>3. \A k \in 1..Len(wrote'[r]) : wrote'[r][k] = k
      <4>1. \A k \in 1..(Len(w) + 1) : k # Len(w) + 1 => k \in 1..Len(w)
        BY <2>3
      <4> QED
        BY <2>4, <2>7, <3>1, <3>2, <4>1 DEF EventsInOrder
    <3>4. Len(wrote'[r]) = made[r] - Len(Tail(e))
      BY <2>1, <2>2, <2>3, <2>4, <2>7, <3>1
    <3> QED
      BY <2>4, <2>5, <3>3, <3>4 DEF EventsInOrder
  <2> QED
    BY <2>6, <2>7
<1>3. ASSUME NEW r \in Requests, Produces(r) PROVE EventsInOrder'
  <2> DEFINE e == events[r]
             n == made[r] + 1
  <2>1. e \in Seq(1..Events) /\ made[r] \in Nat /\ Len(e) \in Nat /\ n \in 1..Events
    BY <1>3, WebAssumption DEF Produces, TypeOK
  <2>2. /\ Len(Append(e, n)) = Len(e) + 1
        /\ \A k \in 1..(Len(e) + 1) : Append(e, n)[k] = IF k = Len(e) + 1 THEN n ELSE e[k]
    BY <2>1
  <2>3. /\ events'[r] = Append(e, n) /\ made'[r] = n /\ UNCHANGED <<wrote, gone>>
        /\ \A q \in Requests : q # r => events'[q] = events[q] /\ made'[q] = made[q]
    BY <1>3 DEF Produces, requests, TypeOK
  <2>4. n - Len(Append(e, n)) = made[r] - Len(e) /\ Len(Append(e, n)) <= n
    BY <2>1, <2>2 DEF EventsInOrder
  <2>5. \A k \in 1..(Len(e) + 1) : Append(e, n)[k] = made[r] - Len(e) + k
    <3>1. \A k \in 1..(Len(e) + 1) : k # Len(e) + 1 => k \in 1..Len(e)
      BY <2>1
    <3>2. made[r] - Len(e) + (Len(e) + 1) = n
      BY <2>1
    <3>3. \A k \in 1..Len(e) : e[k] = made[r] - Len(e) + k
      BY DEF EventsInOrder
    <3> QED
      BY <2>2, <3>1, <3>2, <3>3
  <2> HIDE DEF e
  <2>6. /\ Len(events'[r]) <= made'[r]
        /\ \A k \in 1..Len(events'[r]) : events'[r][k] = made'[r] - Len(events'[r]) + k
        /\ made'[r] - Len(events'[r]) = made[r] - Len(e)
    BY <2>2, <2>3, <2>4, <2>5
  <2> QED
    BY <2>3, <2>6 DEF EventsInOrder, e
<1>4. ASSUME NEW r \in Requests, Disconnect(r) PROVE EventsInOrder'
  BY <1>1, <1>4 DEF Disconnect, streams
<1>5. ASSUME NEW r \in Requests, Accept(r) \/ HandlerGives(r) \/ Dropped(r) PROVE EventsInOrder'
  BY <1>1, <1>5 DEF Accept, HandlerGives, Gives, Dropped, streams
<1>6. ASSUME NEW r \in Requests, StartsProducer(r) \/ Crashes(r) \/ Sends(r) PROVE EventsInOrder'
  BY <1>1, <1>6 DEF StartsProducer, Crashes, Sends, requests, streams
<1>7. ASSUME NEW r \in Requests, ResultArrives(r) \/ TimesOut(r) \/ Answers(r) PROVE EventsInOrder'
  <2>1. CASE Answers(r)
    BY <1>1, <2>1, AnswersWrite DEF streams
  <2>2. CASE ResultArrives(r) \/ TimesOut(r)
    BY <1>1, <2>2 DEF ResultArrives, TimesOut, Answering, streams
  <2> QED
    BY <1>7, <2>1, <2>2
<1>8. ASSUME NEW r \in Requests, StreamEnds(r) \/ UpgradeEnds(r) \/ ProducerCloses(r)
      PROVE  EventsInOrder'
  BY <1>1, <1>8 DEF StreamEnds, UpgradeEnds, ProducerCloses, requests, streams
<1>9. CASE Signal \/ Drained \/ DeadlinePasses \/ UNCHANGED vars
  BY <1>1, <1>9 DEF Signal, Drained, DeadlinePasses, vars, requests, streams
<1> QED
  BY <1>2, <1>3, <1>4, <1>5, <1>6, <1>7, <1>8, <1>9, Steps DEF RequestStep

LEMMA ClosedStep ==
  TypeOK /\ AnsweredWhen /\ HandlerWhere /\ ClosedLast /\ [Next]_vars => ClosedLast'
<1> SUFFICES ASSUME TypeOK, AnsweredWhen, HandlerWhere, ClosedLast, [Next]_vars
             PROVE  ClosedLast'
  OBVIOUS
<1> USE DEF StreamMayEnd
<1>1. ASSUME NEW r \in Requests, UNCHANGED <<producer, events, eventsClosed, gone>>,
             at'[r] = "ended" => answer'[r] # "stream" \/ r \in gone \/ StreamMayEnd(r),
             \A q \in Requests : q # r => at'[q] = at[q] /\ answer'[q] = answer[q]
      PROVE  ClosedLast'
  BY <1>1 DEF ClosedLast
<1>2. ASSUME UNCHANGED <<at, answer, producer, events, eventsClosed>>, gone \subseteq gone'
      PROVE  ClosedLast'
  BY <1>2 DEF ClosedLast
<1>3. ASSUME NEW r \in Requests, Accept(r) PROVE ClosedLast'
  <2>1. /\ UNCHANGED <<answer, producer, events, eventsClosed, gone>>
        /\ at'[r] # "ended" /\ \A q \in Requests : q # r => at'[q] = at[q]
    BY <1>3 DEF Accept, streams, TypeOK
  <2> QED
    BY <1>1, <2>1
<1>4. ASSUME NEW r \in Requests, HandlerGives(r) PROVE ClosedLast'
  <2>1. PICK resp \in Response : Gives(r, resp)
    BY <1>4 DEF HandlerGives
  <2>2. CASE Timed
    BY <1>2, <2>1, <2>2 DEF Gives, streams
  <2>3. CASE ~Timed
    <3>1. /\ UNCHANGED <<answer, producer, events, eventsClosed, gone>>
          /\ at'[r] # "ended" /\ \A q \in Requests : q # r => at'[q] = at[q]
      BY <2>1, <2>3 DEF Gives, streams, TypeOK
    <3> QED
      BY <1>1, <3>1
  <2> QED
    BY <2>2, <2>3
<1>5. ASSUME NEW r \in Requests, Dropped(r) PROVE ClosedLast'
  <2>1. at[r] = "handling" /\ answer[r] = "none"
    BY <1>5 DEF Dropped, HandlerWhere, AnsweredWhen
  <2>2. /\ UNCHANGED <<answer, producer, events, eventsClosed, gone>>
        /\ \A q \in Requests : q # r => at'[q] = at[q]
    BY <1>5 DEF Dropped, streams, TypeOK
  <2> QED
    BY <1>1, <2>1, <2>2
<1>6. ASSUME NEW r \in Requests, ResultArrives(r) \/ TimesOut(r) PROVE ClosedLast'
  <2>1. /\ UNCHANGED <<answer, producer, events, eventsClosed, gone>>
        /\ at'[r] = "answering" /\ \A q \in Requests : q # r => at'[q] = at[q]
    BY <1>6 DEF ResultArrives, TimesOut, Answering, streams, TypeOK
  <2> QED
    BY <1>1, <2>1
<1>7. ASSUME NEW r \in Requests, Answers(r) PROVE ClosedLast'
  <2>1. UNCHANGED <<producer, events, eventsClosed, gone>>
    BY <1>7, AnswersWrite DEF streams
  <2>2. PICK a \in Answer \cup {"none"}, l \in {"streaming", "upgraded", "ended"} :
          /\ answer' = [answer EXCEPT ![r] = a] /\ at' = [at EXCEPT ![r] = l]
          /\ l = "streaming" <=> a = "stream"
    BY <1>7, AnswersWrite
  <2>3. /\ at'[r] = "ended" => answer'[r] # "stream"
        /\ \A q \in Requests : q # r => at'[q] = at[q] /\ answer'[q] = answer[q]
    BY <2>2 DEF TypeOK
  <2> QED
    BY <1>1, <2>1, <2>3
<1>8. ASSUME NEW r \in Requests, StreamEnds(r) PROVE ClosedLast'
  <2>1. /\ UNCHANGED <<answer, producer, events, eventsClosed, gone>>
        /\ StreamMayEnd(r) \/ r \in gone
        /\ \A q \in Requests : q # r => at'[q] = at[q]
    BY <1>8 DEF StreamEnds, streams, TypeOK
  <2> QED
    BY <1>1, <2>1
<1>9. ASSUME NEW r \in Requests, StreamsEvent(r) PROVE ClosedLast'
  <2>1. /\ at[r] = "streaming" /\ UNCHANGED <<at, answer, producer, eventsClosed, gone>>
        /\ \A q \in Requests : q # r => events'[q] = events[q]
    BY <1>9 DEF StreamsEvent, requests, TypeOK
  <2> QED
    BY <2>1 DEF ClosedLast
<1>10. ASSUME NEW r \in Requests, Produces(r) PROVE ClosedLast'
  <2>1. /\ producer[r] = "running" /\ UNCHANGED <<at, answer, producer, eventsClosed, gone>>
        /\ \A q \in Requests : q # r => events'[q] = events[q]
    BY <1>10 DEF Produces, requests, TypeOK
  <2>2. r \notin eventsClosed
    BY <2>1 DEF ClosedLast
  <2> QED
    BY <2>1, <2>2 DEF ClosedLast
<1>11. ASSUME NEW r \in Requests, ProducerCloses(r) PROVE ClosedLast'
  <2>1. /\ eventsClosed' = eventsClosed \cup {r} /\ producer'[r] = "done"
        /\ UNCHANGED <<at, answer, events, gone>>
        /\ \A q \in Requests : q # r => producer'[q] = producer[q]
    BY <1>11 DEF ProducerCloses, requests, TypeOK
  <2> QED
    BY <2>1 DEF ClosedLast
<1>12. ASSUME NEW r \in Requests, StartsProducer(r) PROVE ClosedLast'
  <2>1. /\ producer[r] = "none" /\ producer'[r] = "running"
        /\ UNCHANGED <<at, answer, events, eventsClosed, gone>>
        /\ \A q \in Requests : q # r => producer'[q] = producer[q]
    BY <1>12 DEF StartsProducer, requests, TypeOK
  <2> QED
    BY <2>1 DEF ClosedLast
<1>13. ASSUME NEW r \in Requests, Disconnect(r) \/ Crashes(r) \/ Sends(r) PROVE ClosedLast'
  BY <1>2, <1>13 DEF Disconnect, Crashes, Sends, requests, streams
<1>14. CASE Signal \/ Drained \/ DeadlinePasses \/ UNCHANGED vars
  BY <1>2, <1>14 DEF Signal, Drained, DeadlinePasses, vars, requests, streams
<1>15. ASSUME NEW r \in Requests, UpgradeEnds(r) PROVE ClosedLast'
  <2>1. answer[r] = "101"
    BY <1>15 DEF UpgradeEnds, AnsweredWhen
  <2>2. /\ UNCHANGED <<answer, producer, events, eventsClosed, gone>>
        /\ \A q \in Requests : q # r => at'[q] = at[q]
    BY <1>15 DEF UpgradeEnds, streams, TypeOK
  <2> QED
    BY <1>1, <2>1, <2>2
<1> QED
  BY <1>3, <1>4, <1>5, <1>6, <1>7, <1>8, <1>9, <1>10, <1>11, <1>12, <1>13, <1>14, <1>15, Steps
  DEF RequestStep

-------------------------------------------------------------------------------
(* The server. *)

LEMMA ServerStep ==
  ReturnsIdle /\ [Next]_vars => ReturnsIdle'
<1> SUFFICES ASSUME ReturnsIdle, [Next]_vars PROVE ReturnsIdle'
  OBVIOUS
<1>1. ASSUME NEW r \in Requests, RequestStep(r) PROVE ReturnsIdle'
  <2>1. server \in {"serving", "draining"}
    BY <1>1 DEF RequestStep, Up, Accept, Disconnect, StartsProducer, HandlerGives, Dropped, Crashes,
       Sends, ResultArrives, TimesOut, Answers, UpgradeEnds, Produces, ProducerCloses
  <2>2. server' = server \/ Crashes(r)
    BY <1>1 DEF RequestStep, shutdown, Accept, Disconnect, StartsProducer, HandlerGives, Gives,
       Dropped, Sends, ResultArrives, TimesOut, Answering, Answers, WritesResponse, OpensStream,
       Upgrades, Wrote, StreamsEvent, StreamEnds, UpgradeEnds, Produces, ProducerCloses
  <2>3. server' \in {"serving", "draining", "crashed"}
    BY <2>1, <2>2 DEF Crashes
  <2> QED
    BY <2>3 DEF ReturnsIdle
<1>2. CASE Signal
  BY <1>2 DEF Signal, ReturnsIdle
<1>3. CASE Drained
  <2>1. Idle' /\ server' = "returned"
    BY <1>3 DEF Drained, Idle, requests
  <2> QED
    BY <2>1 DEF ReturnsIdle
<1>4. CASE DeadlinePasses
  BY <1>4 DEF DeadlinePasses, ReturnsIdle
<1>5. CASE UNCHANGED vars
  <2>1. UNCHANGED <<server, overdue, at>>
    BY <1>5 DEF vars, shutdown, requests
  <2> QED
    BY <2>1 DEF ReturnsIdle, Idle
<1> QED
  BY <1>1, <1>2, <1>3, <1>4, <1>5, Steps

-------------------------------------------------------------------------------
LEMMA Invariance == Spec => []Inv
<1>1. Inv /\ [Next]_vars => Inv'
  BY TypeStep, AnsweredStep, HandlerStep, EventsStep, ClosedStep, ServerStep DEF Inv
<1> QED
  BY InitInv, <1>1, PTL DEF Spec

(* The types of Web's variables: WrapTimeout's channel never has more than *)
(* the one response it has room for, an event channel no more than its     *)
(* capacity.                                                               *)
THEOREM TypeCorrect == Spec => []TypeOK
<1>1. Inv => TypeOK
  BY DEF Inv
<1> QED
  BY Invariance, <1>1, PTL

(* A stream is the producer's events in order, and all of them when it has *)
(* ended by itself: the close of the channel never overtakes what is in it. *)
THEOREM StreamsArrive == Spec => []StreamWhole
<1>1. Inv => StreamWhole
  <2> SUFFICES ASSUME TypeOK, EventsInOrder, ClosedLast, NEW r \in Requests
               PROVE  /\ \A i \in DOMAIN wrote[r] : wrote[r][i] = i
                      /\ answer[r] = "stream" /\ at[r] = "ended" /\ r \notin gone =>
                           Len(wrote[r]) = made[r]
    BY DEF Inv, StreamWhole
  <2>1. DOMAIN wrote[r] = 1..Len(wrote[r]) /\ made[r] \in Nat
    BY DEF TypeOK
  <2>2. events[r] = <<>> => Len(events[r]) = 0
    OBVIOUS
  <2> QED
    BY <2>1, <2>2 DEF EventsInOrder, ClosedLast, StreamMayEnd
<1> QED
  BY Invariance, <1>1, PTL

(* ServeGraceful returns before its deadline only when every request it    *)
(* accepted is over or a websocket; and one that is over with no answer    *)
(* was dropped for a panic with no middleware, a status net/http refuses   *)
(* or a failed hijack.                                                     *)
THEOREM ShutdownDrains == Spec => []DrainsRequests
<1>1. Inv => DrainsRequests
  BY DEF Inv, ReturnsIdle, Idle, AnsweredWhen, DroppedFor, DrainsRequests
<1> QED
  BY Invariance, <1>1, PTL

-------------------------------------------------------------------------------
(* Each request has one handler and one answer.  A handler starts with its *)
(* request's goroutine, and a response is in the channel of WrapTimeout    *)
(* only once the handler is done.                                          *)
StartsOnce ==
  \A r \in Requests : /\ at[r] = "none" => handler[r] = "none"
                      /\ result[r] # <<>> => handler[r] = "done"

LEMMA StartsInit == Init => StartsOnce
BY DEF Init, Each, StartsOnce

(* What a step may do to a request. *)
Forward(r) ==
  /\ r \in gone => r \in gone'
  /\ answer[r] # "none" => answer'[r] = answer[r]
  /\ at[r] = "ended" => at'[r] = "ended"
  /\ handler[r] = "done" => handler'[r] = "done"
  /\ at'[r] = "none" => handler'[r] = "none"
  /\ result'[r] # <<>> => handler'[r] = "done"

LEMMA StepsGoForward ==
  ASSUME TypeOK, AnsweredWhen, HandlerWhere, StartsOnce, [Next]_vars
  PROVE  \A q \in Requests : Forward(q)
<1> SUFFICES ASSUME NEW q \in Requests PROVE Forward(q)
  OBVIOUS
<1> USE DEF TypeOK, StartsOnce, Forward
<1>1. ASSUME NEW r \in Requests, Accept(r) PROVE Forward(q)
  BY <1>1 DEF Accept
<1>2. ASSUME NEW r \in Requests, Disconnect(r) PROVE Forward(q)
  BY <1>2 DEF Disconnect, handlers
<1>3. ASSUME NEW r \in Requests,
             StartsProducer(r) \/ (Up /\ StreamsEvent(r)) \/ Produces(r) \/ ProducerCloses(r)
      PROVE  Forward(q)
  <2>1. UNCHANGED <<requests, handlers>>
    BY <1>3 DEF StartsProducer, StreamsEvent, Produces, ProducerCloses
  <2> QED
    BY <2>1 DEF requests, handlers
<1>4. ASSUME NEW r \in Requests, HandlerGives(r) PROVE Forward(q)
  <2>1. PICK resp \in Response : Gives(r, resp)
    BY <1>4 DEF HandlerGives
  <2>2. handler[r] = "running" /\ UNCHANGED <<answer, gone, result>>
    BY <1>4, <2>1 DEF HandlerGives, Gives
  <2>3. CASE Timed
    BY <2>1, <2>2, <2>3 DEF Gives
  <2>4. CASE ~Timed
    <3>1. at[r] = "handling"
      BY <2>2, <2>4 DEF HandlerWhere
    <3> QED
      BY <2>1, <2>2, <2>4, <3>1 DEF Gives
  <2> QED
    BY <2>3, <2>4
<1>5. ASSUME NEW r \in Requests, Dropped(r) PROVE Forward(q)
  BY <1>5 DEF Dropped
<1>6. ASSUME NEW r \in Requests, Sends(r) PROVE Forward(q)
  BY <1>6 DEF Sends, requests
<1>7. ASSUME NEW r \in Requests, ResultArrives(r) \/ TimesOut(r)
      PROVE  Forward(q)
  <2>1. at[r] = "waiting" /\ at' = [at EXCEPT ![r] = "answering"] /\ UNCHANGED <<answer, gone, handler>>
    BY <1>7 DEF ResultArrives, TimesOut, Answering
  <2>2. result'[q] # <<>> => result[q] # <<>>
    BY <1>7 DEF ResultArrives, TimesOut
  <2> QED
    BY <2>1, <2>2
<1>8. ASSUME NEW r \in Requests, Answers(r) PROVE Forward(q)
  <2>1. at[r] = "answering" /\ answer[r] = "none"
    BY <1>8, AnswersWrite DEF AnsweredWhen
  <2>2. PICK a \in Answer \cup {"none"}, l \in {"streaming", "upgraded", "ended"} :
          answer' = [answer EXCEPT ![r] = a] /\ at' = [at EXCEPT ![r] = l]
    BY <1>8, AnswersWrite
  <2>3. UNCHANGED <<gone, handler, result>>
    BY <1>8, AnswersWrite DEF handlers
  <2> QED
    BY <2>1, <2>2, <2>3
<1>9. ASSUME NEW r \in Requests, StreamEnds(r) \/ UpgradeEnds(r) PROVE Forward(q)
  BY <1>9 DEF StreamEnds, UpgradeEnds, handlers
<1>10. CASE UNCHANGED <<requests, handlers>>
  BY <1>10 DEF requests, handlers
<1>11. Signal \/ Drained \/ DeadlinePasses \/ (\E r \in Requests : Crashes(r)) \/ UNCHANGED vars =>
         UNCHANGED <<requests, handlers>>
  BY DEF Signal, Drained, DeadlinePasses, Crashes, vars
<1> QED
  BY <1>1, <1>2, <1>3, <1>4, <1>5, <1>6, <1>7, <1>8, <1>9, <1>10, <1>11, Steps DEF RequestStep

LEMMA StartsInvariance == Spec => [](Inv /\ StartsOnce)
<1>1. Inv /\ StartsOnce /\ [Next]_vars => StartsOnce'
  <2> SUFFICES ASSUME Inv, StartsOnce, [Next]_vars PROVE StartsOnce'
    OBVIOUS
  <2>1. \A q \in Requests : Forward(q)
    BY StepsGoForward DEF Inv
  <2> QED
    BY <2>1 DEF Forward, StartsOnce
<1> QED
  BY Invariance, StartsInit, <1>1, PTL DEF Spec

(* A handler of WrapTimeout that returns, in time or late, finds room for  *)
(* its response: its goroutine is not kept for ever.                       *)
THEOREM SendersFindRoom == Spec => []LateSendersNeverWait
<1>1. StartsOnce => LateSendersNeverWait
  BY DEF StartsOnce, LateSendersNeverWait
<1> QED
  BY StartsInvariance, <1>1, PTL

(* A request is answered once: the 503 of WrapTimeout and the response of  *)
(* a late handler exclude each other.                                      *)
THEOREM OneAnswer == Spec => AnsweredOnce
<1> DEFINE A == \A r \in Requests : answer[r] # "none" => answer'[r] = answer[r]
<1>1. Inv /\ StartsOnce /\ [Next]_vars => A
  BY StepsGoForward DEF Inv, Forward
<1> HIDE DEF A
<1>2. Spec => [][A]_vars
  BY StartsInvariance, <1>1, PTL DEF Spec
<1> QED
  BY <1>2 DEF A, AnsweredOnce

(* A request that is over stays over, and a handler that is done stays     *)
(* done: what a producer reads from web/done is never taken back.          *)
THEOREM StaysOver == Spec => OverForGood
<1> DEFINE A == \A r \in Requests : /\ Cancelled(r) => Cancelled(r)'
                                    /\ handler[r] = "done" => handler'[r] = "done"
<1>1. Inv /\ StartsOnce /\ [Next]_vars => A
  BY StepsGoForward DEF Inv, Forward, Cancelled
<1> HIDE DEF A
<1>2. Spec => [][A]_vars
  BY StartsInvariance, <1>1, PTL DEF Spec
<1> QED
  BY <1>2 DEF A, OverForGood
================================================================================
