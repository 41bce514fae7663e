---------------------------------- MODULE Flow ----------------------------------
(***************************************************************************)
(* The goroutines the transpiler emits for the dataflow forms              *)
(* (internal/transpiler/emit_concurrency.go), in the composition the book  *)
(* shows (chapter 13, "Pipelines: fan-in, pipeline, fan-out"):             *)
(*   (let [merged (fan-in src ...)                                         *)
(*         piped  (pipeline [x merged] stage ...)]                         *)
(*     (fan-out n [x piped]                                                *)
(*       (try (swap! seen f x) (catch e ...))))                            *)
(* with the atom of emit_runtime.go under swap!.  The channel of fan-out   *)
(* is a name, or the pipeline form itself: the emitted `range` evaluates   *)
(* it in every worker, which then has stages of its own.                   *)
(*                                                                         *)
(* A source is any channel its producers close in the end.  The channels   *)
(* the forms make are unbuffered: a send and its receive are one step.     *)
(***************************************************************************)
EXTENDS Naturals, Sequences, FiniteSets, SequencesExt

CONSTANTS
  Sources,    \* number of channels merged
  Items,      \* bound: values sent on each
  SourceCap,  \* capacity of a source
  Stages,     \* stages of the pipeline
  Workers     \* n of fan-out

ASSUME FlowAssumption ==
  /\ Sources \in Nat /\ Items \in Nat /\ SourceCap \in Nat \ {0}
  /\ Stages \in Nat \ {0} /\ Workers \in Nat \ {0}

Item(s, n) == <<s, n>>
AllItems   == { Item(s, n) : s \in 1..Sources, n \in 1..Items }

VARIABLES
  inline,        \* the channel of fan-out is the pipeline form itself
  sent, buf, sourceClosed,  \* per source: items sent, its buffer, closed
  hold,          \* what each goroutine has received and not passed on: 0 or 1 item
  ended,         \* goroutines that have returned
  fanInLeft, fanOutLeft,    \* the two WaitGroups
  closed,        \* closed channels among merged and the pipes
  main,          \* the goroutine in fan-out: "waiting" or "done"
  atomLock,      \* worker holding atom.mu, or 0
  atomVal,       \* atom.val: the items put in it
  arg,           \* per worker: the value swap! called its function with
  (* History. *)
  got,           \* items in the order workers received them
  via,           \* per item: the line it was received from, or 0
  failed         \* items whose body panicked and was caught

sources == <<sent, buf, sourceClosed>>
groups  == <<fanInLeft, fanOutLeft, closed, main>>
atom    == <<atomLock, atomVal, arg>>
vars == <<inline, sources, hold, ended, groups, atom, got, via, failed>>

-------------------------------------------------------------------------------
(* The goroutines, and the channels between them. *)

Lines == IF inline THEN 1..Workers ELSE {1}

Merge(s)    == <<"merge", s, 0>>
Stage(l, i) == <<"stage", l, i>>
Worker(w)   == <<"worker", w, 0>>

Merges     == { Merge(s) : s \in 1..Sources }
StageProcs == { Stage(l, i) : l \in 1..Workers, i \in 1..Stages }
WorkProcs  == { Worker(w) : w \in 1..Workers }
Procs      == Merges \cup StageProcs \cup WorkProcs

Merged     == <<0, 0>>
Pipe(l, i) == IF i = 0 THEN Merged ELSE <<l, i>>
Pipes      == { Pipe(l, i) : l \in 1..Workers, i \in 0..Stages }

(* The line a worker ranges over. *)
LineOf(w) == IF inline THEN w ELSE 1

From(g) == CASE g[1] = "stage"  -> Pipe(g[2], g[3] - 1)
             [] g[1] = "worker" -> Pipe(LineOf(g[2]), Stages)

To(g) == CASE g[1] = "merge" -> Merged
           [] g[1] = "stage" -> Pipe(g[2], g[3])

Live(g)      == g \notin ended
Receiving(g) == Live(g) /\ hold[g] = <<>>
Sending(g)   == Live(g) /\ hold[g] # <<>> /\ g \notin WorkProcs

Init ==
  /\ inline \in BOOLEAN
  /\ sent = [s \in 1..Sources |-> 0] /\ buf = [s \in 1..Sources |-> <<>>]
  /\ sourceClosed = {}
  /\ hold = [g \in Procs |-> <<>>]  \* and the stages that were not started count as ended:
  /\ ended = StageProcs \ { Stage(l, i) : l \in Lines, i \in 1..Stages }
  /\ fanInLeft = Sources /\ fanOutLeft = Workers
  /\ closed = {} /\ main = "waiting"
  /\ atomLock = 0 /\ atomVal = {} /\ arg = [w \in 1..Workers |-> <<>>]
  /\ got = <<>> /\ via = [x \in AllItems |-> 0] /\ failed = {}

-------------------------------------------------------------------------------
(* The producers: some goroutine of the program. *)

Produce(s) ==
  /\ sent[s] < Items /\ Len(buf[s]) < SourceCap
  /\ sent' = [sent EXCEPT ![s] = @ + 1]
  /\ buf' = [buf EXCEPT ![s] = Append(@, Item(s, sent[s] + 1))]
  /\ UNCHANGED <<inline, sourceClosed, hold, ended, groups, atom, got, via, failed>>

CloseSource(s) ==
  /\ sent[s] = Items /\ s \notin sourceClosed
  /\ sourceClosed' = sourceClosed \cup {s}
  /\ UNCHANGED <<inline, sent, buf, hold, ended, groups, atom, got, via, failed>>

-------------------------------------------------------------------------------
(* fan-in: a goroutine per source, and one that closes the merged channel. *)

(* Mutant: the goroutines share the loop's variable, so that each of them  *)
(* ranges over the last channel.                                           *)
MergeSharesLast(s) ==
  /\ Receiving(Merge(s)) /\ buf[Sources] # <<>>
  /\ hold' = [hold EXCEPT ![Merge(s)] = <<Head(buf[Sources])>>]
  /\ buf' = [buf EXCEPT ![Sources] = Tail(@)]
  /\ UNCHANGED <<inline, sent, sourceClosed, ended, groups, atom, got, via, failed>>

MergeReceives(s) ==
  /\ Receiving(Merge(s)) /\ buf[s] # <<>>
  /\ hold' = [hold EXCEPT ![Merge(s)] = <<Head(buf[s])>>]
  /\ buf' = [buf EXCEPT ![s] = Tail(@)]
  /\ UNCHANGED <<inline, sent, sourceClosed, ended, groups, atom, got, via, failed>>

(* The range is over; defer _wg.Done(). *)
MergeEnds(s) ==
  /\ Receiving(Merge(s)) /\ buf[s] = <<>> /\ s \in sourceClosed
  /\ ended' = ended \cup {Merge(s)}
  /\ fanInLeft' = fanInLeft - 1
  /\ UNCHANGED <<inline, sources, hold, fanOutLeft, closed, main, atom, got, via, failed>>

(* Mutant: the goroutine does not wait for all of them. *)
FanInClosesEarly ==
  /\ fanInLeft < Sources /\ Merged \notin closed
  /\ closed' = closed \cup {Merged}
  /\ UNCHANGED <<inline, sources, hold, ended, fanInLeft, fanOutLeft, main, atom, got, via, failed>>

(* _wg.Wait(); close(_out) *)
FanInCloses ==
  /\ fanInLeft = 0 /\ Merged \notin closed
  /\ closed' = closed \cup {Merged}
  /\ UNCHANGED <<inline, sources, hold, ended, fanInLeft, fanOutLeft, main, atom, got, via, failed>>

-------------------------------------------------------------------------------
(* One value goes over an unbuffered channel. *)

HandOver(g, h) ==
  /\ Sending(g) /\ Receiving(h) /\ h \notin Merges /\ To(g) = From(h) /\ To(g) \notin closed
  /\ hold' = [hold EXCEPT ![h] = hold[g], ![g] = <<>>]
  /\ IF h \in WorkProcs
       THEN /\ got' = got \o hold[g]
            /\ via' = [x \in AllItems |-> IF hold[g] = <<x>> THEN LineOf(h[2]) ELSE via[x]]
       ELSE UNCHANGED <<got, via>>
  /\ UNCHANGED <<inline, sources, ended, groups, atom, failed>>

(* The loop of a pipeline stage is over; defer close(out). *)
StageEnds(l, i) ==
  /\ Receiving(Stage(l, i)) /\ Pipe(l, i - 1) \in closed
  /\ ended' = ended \cup {Stage(l, i)}
  /\ closed' = closed \cup {Pipe(l, i)}
  /\ UNCHANGED <<inline, sources, hold, fanInLeft, fanOutLeft, main, atom, got, via, failed>>

-------------------------------------------------------------------------------
(* The workers of fan-out.  Each runs (swap! seen f x) for its item: Lock,  *)
(* the call of f, the store, and the deferred Unlock.                      *)

SwapLocks(w) ==
  /\ hold[Worker(w)] # <<>> /\ atomLock = 0
  /\ atomLock' = w
  /\ arg' = [arg EXCEPT ![w] = <<atomVal>>]
  /\ UNCHANGED <<inline, sources, hold, ended, groups, atomVal, got, via, failed>>

WorkerNext(w) == hold' = [hold EXCEPT ![Worker(w)] = <<>>]

SwapStores(w) ==
  /\ arg[w] # <<>>
  /\ atomVal' = Head(arg[w]) \cup Range(hold[Worker(w)])
  /\ atomLock' = 0
  /\ arg' = [arg EXCEPT ![w] = <<>>]
  /\ WorkerNext(w)
  /\ UNCHANGED <<inline, sources, ended, groups, got, via, failed>>

(* Mutants: Unlock is not deferred; what was computed so far is stored.    *)
SwapPanicsLocked(w) ==
  /\ arg[w] # <<>>
  /\ arg' = [arg EXCEPT ![w] = <<>>]
  /\ failed' = failed \cup Range(hold[Worker(w)])
  /\ WorkerNext(w)
  /\ UNCHANGED <<inline, sources, ended, groups, atomLock, atomVal, got, via>>

SwapPanicsStored(w) ==
  /\ arg[w] # <<>>
  /\ atomLock' = 0
  /\ atomVal' = Head(arg[w]) \cup Range(hold[Worker(w)])
  /\ arg' = [arg EXCEPT ![w] = <<>>]
  /\ failed' = failed \cup Range(hold[Worker(w)])
  /\ WorkerNext(w)
  /\ UNCHANGED <<inline, sources, ended, groups, got, via>>

(* f panics: nothing is stored, the mutex is unlocked, catch goes on.      *)
SwapPanics(w) ==
  /\ arg[w] # <<>>
  /\ atomLock' = 0
  /\ arg' = [arg EXCEPT ![w] = <<>>]
  /\ failed' = failed \cup Range(hold[Worker(w)])
  /\ WorkerNext(w)
  /\ UNCHANGED <<inline, sources, ended, groups, atomVal, got, via>>

WorkerEnds(w) ==
  /\ Receiving(Worker(w)) /\ From(Worker(w)) \in closed
  /\ ended' = ended \cup {Worker(w)}
  /\ fanOutLeft' = fanOutLeft - 1
  /\ UNCHANGED <<inline, sources, hold, fanInLeft, closed, main, atom, got, via, failed>>

(* Mutant: fan-out returns when the channel is closed. *)
FanOutReturnsEarly ==
  /\ From(Worker(1)) \in closed /\ main = "waiting"
  /\ main' = "done"
  /\ UNCHANGED <<inline, sources, hold, ended, fanInLeft, fanOutLeft, closed, atom, got, via, failed>>

(* _wg.Wait() of fan-out returns. *)
FanOutReturns ==
  /\ fanOutLeft = 0 /\ main = "waiting"
  /\ main' = "done"
  /\ UNCHANGED <<inline, sources, hold, ended, fanInLeft, fanOutLeft, closed, atom, got, via, failed>>

-------------------------------------------------------------------------------
Next ==
  \/ \E s \in 1..Sources : Produce(s) \/ CloseSource(s) \/ MergeReceives(s) \/ MergeEnds(s)
  \/ FanInCloses
  \/ \E g, h \in Procs : HandOver(g, h)
  \/ \E l \in Lines, i \in 1..Stages : StageEnds(l, i)
  \/ \E w \in 1..Workers : SwapLocks(w) \/ SwapStores(w) \/ SwapPanics(w) \/ WorkerEnds(w)
  \/ FanOutReturns

Spec == Init /\ [][Next]_vars

(* Goroutines are scheduled, and the producers close their channels. *)
FairSpec == Spec /\ WF_vars(Next)

-------------------------------------------------------------------------------
Holding == {<<>>} \cup { <<x>> : x \in AllItems }

TypeOK ==
  /\ inline \in BOOLEAN
  /\ sent \in [1..Sources -> 0..Items]
  /\ buf \in [1..Sources -> Seq(AllItems)] /\ \A s \in 1..Sources : Len(buf[s]) <= SourceCap
  /\ sourceClosed \subseteq 1..Sources
  /\ hold \in [Procs -> Holding]
  /\ ended \subseteq Procs
  /\ fanInLeft \in 0..Sources /\ fanOutLeft \in 0..Workers
  /\ closed \subseteq Pipes /\ main \in {"waiting", "done"}
  /\ atomLock \in 0..Workers /\ atomVal \subseteq AllItems
  /\ arg \in [1..Workers -> {<<>>} \cup { <<v>> : v \in SUBSET AllItems }]
  /\ got \in Seq(AllItems) /\ via \in [AllItems -> 0..Workers] /\ failed \subseteq AllItems

(* "Closes output when all inputs are exhausted": nothing sends on a       *)
(* channel that has been closed, which would panic and end the program.    *)
NoSendOnClosed == \A g \in Procs : Sending(g) => To(g) \notin closed

(* The values of a source that go through one pipeline are received in the *)
(* order they were sent, by whichever workers range over it.  Where every  *)
(* worker has a pipeline of its own, values of one source do overtake each *)
(* other, from pipeline to pipeline, but never within one.                 *)
SourceOrder ==
  \A i, j \in DOMAIN got :
    i < j /\ got[i][1] = got[j][1] /\ via[got[i]] = via[got[j]] => got[i][2] < got[j][2]

(* "Blocks until ch is closed and all workers finish": when fan-out        *)
(* returns, every value has been processed, the atom holds those whose     *)
(* function returned and no other, and every goroutine of the forms ended. *)
FanOutComplete ==
  main = "done" => /\ Range(got) = AllItems
                   /\ atomVal = AllItems \ failed
                   /\ ended = Procs

(* swap! is atomic: every processed value is in the atom, whatever the     *)
(* other workers do in between; a panic in the function leaves it as it    *)
(* was and unlocked.                                                       *)
SwapAtomic ==
  Range(got) \ (failed \cup UNION { Range(hold[g]) : g \in WorkProcs }) = atomVal

(* fan-out returns: nobody waits for somebody who waits. *)
FanOutEnds == <>(main = "done")

-------------------------------------------------------------------------------
(* The two halves of FanOutEnds that need no fairness.                     *)

(* The guards of Next: some goroutine is not blocked. *)
Unblocked ==
  \/ \E s \in 1..Sources : \/ sent[s] < Items /\ Len(buf[s]) < SourceCap
                           \/ sent[s] = Items /\ s \notin sourceClosed
                           \/ Receiving(Merge(s)) /\ (buf[s] # <<>> \/ s \in sourceClosed)
  \/ fanInLeft = 0 /\ Merged \notin closed
  \/ \E g, h \in Procs :
       Sending(g) /\ Receiving(h) /\ h \notin Merges /\ To(g) = From(h) /\ To(g) \notin closed
  \/ \E l \in Lines, i \in 1..Stages : Receiving(Stage(l, i)) /\ Pipe(l, i - 1) \in closed
  \/ \E w \in 1..Workers : \/ hold[Worker(w)] # <<>> /\ atomLock = 0
                           \/ arg[w] # <<>>
                           \/ Receiving(Worker(w)) /\ From(Worker(w)) \in closed
  \/ fanOutLeft = 0 /\ main = "waiting"

(* No deadlock: as long as fan-out waits, somebody can move. *)
NobodyStuck == main = "waiting" => Unblocked

(* What is ever done, each thing once: an item is sent, taken by fan-in,   *)
(* enters a stage, is received by a worker, is passed to the function and  *)
(* is done with; a channel is closed, a goroutine returns, and fan-out.    *)
Milestones ==
  ({"sent", "taken", "got", "called", "over"} \X AllItems) \cup ({"entered"} \X AllItems \X (1..Stages))
    \cup ({"source"} \X (1..Sources)) \cup ({"pipe"} \X Pipes) \cup ({"ended"} \X Procs) \cup {<<"main">>}

Entered(x, i) ==
  x \in Range(got) \/ \E l \in 1..Workers, j \in i..Stages : hold[Stage(l, j)] = <<x>>
Called(x) == \E w \in 1..Workers : hold[Worker(w)] = <<x>> /\ arg[w] # <<>>
Over(x) == x \in atomVal \cup failed

Reached(m) ==
  CASE m[1] = "sent"    -> m[2][2] <= sent[m[2][1]]
    [] m[1] = "taken"   -> m[2][2] <= sent[m[2][1]] - Len(buf[m[2][1]])
    [] m[1] = "entered" -> Entered(m[2], m[3])
    [] m[1] = "got"     -> m[2] \in Range(got)
    [] m[1] = "called"  -> Called(m[2]) \/ Over(m[2])
    [] m[1] = "over"    -> Over(m[2])
    [] m[1] = "source"  -> m[2] \in sourceClosed
    [] m[1] = "pipe"    -> m[2] \in closed
    [] m[1] = "ended"   -> m[2] \in ended
    [] m[1] = "main"    -> main = "done"
Achieved == { m \in Milestones : Reached(m) }

(* No livelock: every step does one of these things, and undoes none. *)
EveryStepCounts == [][Achieved \subseteq Achieved' /\ Achieved # Achieved']_vars
================================================================================
