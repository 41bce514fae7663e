------------------------------ MODULE FlowProofs ------------------------------
(***************************************************************************)
(* Theorems about Flow, for any number of sources, items, stages and       *)
(* workers and any capacity of the sources.                                *)
(***************************************************************************)
EXTENDS Flow, FiniteSetTheorems, SequenceTheorems, WellFoundedInduction, TLAPS

-------------------------------------------------------------------------------
(* The inductive invariant. *)

(* What a goroutine has in its hands; what a source's goroutine of fan-in  *)
(* has taken and passed on.                                                *)
Holds(g, x) == hold[g] = <<x>>
Taken(s)    == sent[s] - Len(buf[s])
Passed(s)   == IF hold[Merge(s)] = <<>> THEN Taken(s) ELSE Taken(s) - 1

(* The WaitGroups count the goroutines that have not returned. *)
LiveMerges  == { s \in 1..Sources : Merge(s) \notin ended }
LiveWorkers == { w \in 1..Workers : Worker(w) \notin ended }

GroupsCount ==
  /\ fanInLeft = Cardinality(LiveMerges)
  /\ fanOutLeft = Cardinality(LiveWorkers)

(* Who has returned has nothing in hand and found its input closed, and a  *)
(* channel is closed when its senders have returned; so the end of a line  *)
(* tells of the end of everything before it.                               *)
EndsPassOn ==
  /\ \A g \in ended : hold[g] = <<>>
  /\ \A s \in sourceClosed : sent[s] = Items
  /\ \A s \in 1..Sources : Merge(s) \in ended => buf[s] = <<>> /\ sent[s] = Items
  /\ Merged \in closed => \A s \in 1..Sources : Merge(s) \in ended
  /\ \A l \in 1..Workers, i \in 1..Stages : Pipe(l, i) \in closed => Stage(l, i) \in ended
  /\ \A l \in 1..Workers : \A i \in 1..Stages :
       IF l \in Lines
         THEN Stage(l, i) \in ended =>
                Merged \in closed /\ \A j \in 1..i : Stage(l, j) \in ended
         ELSE Stage(l, i) \in ended
  /\ \A w \in 1..Workers : Worker(w) \in ended => From(Worker(w)) \in closed
  /\ main = "done" => \A w \in 1..Workers : Worker(w) \in ended

(* A source's buffer holds its last items, in order, and its goroutine the *)
(* one before them.                                                        *)
BufferInOrder ==
  \A s \in 1..Sources :
    /\ Len(buf[s]) <= sent[s]
    /\ \A k \in 1..Len(buf[s]) : buf[s][k] = Item(s, Taken(s) + k)
    /\ hold[Merge(s)] # <<>> => hold[Merge(s)] = <<Item(s, Taken(s))>> /\ Taken(s) > 0

(* The items fan-in passed on are those in a stage or received by a        *)
(* worker, and none is in two places.                                      *)
Onward(x) == x \in Range(got) \/ \E g \in StageProcs : Holds(g, x)

Conserved ==
  /\ \A s \in 1..Sources, n \in 1..Items : n <= Passed(s) <=> Onward(Item(s, n))
  /\ \A g, h \in StageProcs, x \in AllItems : Holds(g, x) /\ Holds(h, x) => g = h
  /\ \A g \in StageProcs, x \in AllItems : Holds(g, x) => x \notin Range(got)

(* The atom: only the holder of its lock is in the function, called with   *)
(* what the atom still contains; and the items received are those in it,   *)
(* those that failed, and those in a worker's hands.                       *)
AtomLocked ==
  \A w \in 1..Workers :
    arg[w] # <<>> => atomLock = w /\ arg[w] = <<atomVal>> /\ hold[Worker(w)] # <<>>

Pending == { x \in AllItems : \E w \in 1..Workers : Holds(Worker(w), x) }
AtomHolds ==
  /\ Range(got) = atomVal \cup failed \cup Pending
  /\ atomVal \cap failed = {} /\ Pending \cap (atomVal \cup failed) = {}
  /\ \A v, w \in 1..Workers, x \in AllItems : Holds(Worker(v), x) /\ Holds(Worker(w), x) => v = w

(* In one pipeline the items of a source keep their order: what is further *)
(* down was sent earlier.                                                  *)
LineInOrder ==
  /\ \A r \in 1..Workers, i, j \in 1..Stages, x, y \in AllItems :
       i < j /\ Holds(Stage(r, i), x) /\ Holds(Stage(r, j), y) /\ x[1] = y[1] => y[2] < x[2]
  /\ \A r \in 1..Workers, i \in 1..Stages, x \in AllItems, k \in 1..Len(got) :
       Holds(Stage(r, i), x) /\ via[got[k]] = r /\ got[k][1] = x[1] => got[k][2] < x[2]

Inv ==
  /\ TypeOK /\ GroupsCount /\ EndsPassOn /\ BufferInOrder /\ Conserved /\ AtomLocked
  /\ AtomHolds /\ LineInOrder /\ SourceOrder

-------------------------------------------------------------------------------
(* The goroutines and the channels. *)

LEMMA ProcsDiffer ==
  /\ \A s, t : Merge(s) = Merge(t) => s = t
  /\ \A v, w : Worker(v) = Worker(w) => v = w
  /\ \A l, i, m, j : Stage(l, i) = Stage(m, j) => l = m /\ i = j
  /\ \A s, l, i : Merge(s) # Stage(l, i)
  /\ \A s, w : Merge(s) # Worker(w)
  /\ \A l, i, w : Stage(l, i) # Worker(w)
BY DEF Merge, Stage, Worker

LEMMA ProcsTyped ==
  /\ \A s \in 1..Sources : Merge(s) \in Merges /\ Merge(s) \in Procs
  /\ \A l \in 1..Workers, i \in 1..Stages : Stage(l, i) \in StageProcs /\ Stage(l, i) \in Procs
  /\ \A w \in 1..Workers : Worker(w) \in WorkProcs /\ Worker(w) \in Procs
  /\ \A g \in Merges : \E s \in 1..Sources : g = Merge(s)
  /\ \A g \in StageProcs : \E l \in 1..Workers, i \in 1..Stages : g = Stage(l, i)
  /\ \A g \in WorkProcs : \E w \in 1..Workers : g = Worker(w)
BY DEF Merges, StageProcs, WorkProcs, Procs

LEMMA PipesTyped == \A l \in 1..Workers, i \in 0..Stages : Pipe(l, i) \in Pipes
BY DEF Pipes

LEMMA PipesDiffer ==
  ASSUME NEW l \in 1..Workers, NEW m \in 1..Workers, NEW i \in 0..Stages, NEW j \in 0..Stages,
         Pipe(l, i) = Pipe(m, j)
  PROVE  i = j /\ (i # 0 => l = m)
BY FlowAssumption DEF Pipe, Merged

LEMMA Ends ==
  /\ \A s : To(Merge(s)) = Merged
  /\ \A l, i : To(Stage(l, i)) = Pipe(l, i) /\ From(Stage(l, i)) = Pipe(l, i - 1)
  /\ \A w : From(Worker(w)) = Pipe(LineOf(w), Stages)
  /\ \A l : Pipe(l, 0) = Merged
BY DEF To, From, Merge, Stage, Worker, Pipe

(* A value goes from a merge to a first stage, from a stage to the next    *)
(* one of its line, or from the last stage of a line to a worker.          *)
MergeToStage(g, h) ==
  \E s \in 1..Sources, l \in 1..Workers : g = Merge(s) /\ h = Stage(l, 1)
StageToStage(g, h) ==
  \E l \in 1..Workers, i \in 1..Stages : i + 1 <= Stages /\ g = Stage(l, i) /\ h = Stage(l, i + 1)
StageToWorker(g, h) ==
  \E w \in 1..Workers : g = Stage(LineOf(w), Stages) /\ h = Worker(w)

LEMMA LineTyped == \A w \in 1..Workers : LineOf(w) \in 1..Workers
BY FlowAssumption DEF LineOf

LEMMA HandOverForms ==
  ASSUME NEW g \in Procs, NEW h \in Procs, HandOver(g, h)
  PROVE  MergeToStage(g, h) \/ StageToStage(g, h) \/ StageToWorker(g, h)
<1> USE FlowAssumption
<1>1. /\ g \in Merges \/ g \in StageProcs
      /\ h \in StageProcs \/ h \in WorkProcs
      /\ To(g) = From(h)
  BY DEF HandOver, Sending, Procs
<1>2. ASSUME NEW s \in 1..Sources, g = Merge(s), NEW l \in 1..Workers, NEW i \in 1..Stages,
             h = Stage(l, i)
      PROVE  MergeToStage(g, h)
  <2>1. Pipe(l, i - 1) = Pipe(l, 0)
    BY <1>1, <1>2, Ends
  <2>2. i = 1
    BY <2>1, PipesDiffer
  <2> QED
    BY <1>2, <2>2 DEF MergeToStage
<1>3. ASSUME NEW s \in 1..Sources, g = Merge(s), NEW w \in 1..Workers, h = Worker(w)
      PROVE  FALSE
  <2>1. PICK l \in 1..Workers : Pipe(l, 0) = Pipe(l, Stages)
    BY <1>1, <1>3, Ends, LineTyped
  <2> QED
    BY <2>1, PipesDiffer
<1>4. ASSUME NEW l \in 1..Workers, NEW i \in 1..Stages, g = Stage(l, i),
             NEW m \in 1..Workers, NEW j \in 1..Stages, h = Stage(m, j)
      PROVE  StageToStage(g, h)
  <2>1. Pipe(l, i) = Pipe(m, j - 1)
    BY <1>1, <1>4, Ends
  <2>2. i = j - 1 /\ l = m
    BY <2>1, PipesDiffer
  <2>3. j = i + 1
    BY <2>2
  <2> QED
    BY <1>4, <2>2, <2>3 DEF StageToStage
<1>5. ASSUME NEW l \in 1..Workers, NEW i \in 1..Stages, g = Stage(l, i),
             NEW w \in 1..Workers, h = Worker(w)
      PROVE  StageToWorker(g, h)
  <2> DEFINE m == LineOf(w)
  <2>1. m \in 1..Workers
    BY LineTyped
  <2>2. Pipe(l, i) = Pipe(m, Stages)
    BY <1>1, <1>5, Ends
  <2>3. i = Stages /\ l = m
    BY <2>1, <2>2, PipesDiffer
  <2> QED
    BY <1>5, <2>3 DEF StageToWorker
<1> QED
  BY <1>1, <1>2, <1>3, <1>4, <1>5, ProcsTyped

(* One item changes hands.                                                 *)
LEMMA OneItemMoves ==
  ASSUME TypeOK, NEW g \in Procs, NEW h \in Procs, HandOver(g, h)
  PROVE  \E x \in AllItems :
           /\ hold[g] = <<x>> /\ hold[h] = <<>> /\ g # h
           /\ hold' = [hold EXCEPT ![h] = <<x>>, ![g] = <<>>]
           /\ hold' \in [Procs -> Holding]
           /\ \A k \in Procs : k # g /\ k # h => hold'[k] = hold[k]
           /\ \A k \in Procs : \A y :
                Holds(k, y)' <=> (k # g /\ Holds(k, y)) \/ (k = h /\ y = x)
<1>1. PICK x \in AllItems : hold[g] = <<x>>
  BY DEF TypeOK, HandOver, Sending, Holding
<1>2. hold' = [hold EXCEPT ![h] = <<x>>, ![g] = <<>>]
  BY <1>1 DEF HandOver
<1>3. <<x>> \in Holding /\ <<>> \in Holding
  BY DEF Holding
<1>4. /\ hold[h] = <<>> /\ g # h /\ hold' \in [Procs -> Holding]
      /\ hold'[g] = <<>> /\ hold'[h] = <<x>>
      /\ \A k \in Procs : k # g /\ k # h => hold'[k] = hold[k]
  BY <1>1, <1>2, <1>3 DEF HandOver, Receiving, Sending, TypeOK
<1>5. \A k \in Procs : \A y :
        Holds(k, y)' <=> (k # g /\ Holds(k, y)) \/ (k = h /\ y = x)
  <2> SUFFICES ASSUME NEW k \in Procs, NEW y
               PROVE  hold'[k] = <<y>> <=> (k # g /\ hold[k] = <<y>>) \/ (k = h /\ y = x)
    BY DEF Holds
  <2>1. <<y>> # <<>> /\ (<<x>> = <<y>> <=> x = y)
    OBVIOUS
  <2>2. CASE k = g
    BY <1>4, <2>1, <2>2
  <2>3. CASE k = h
    BY <1>4, <2>1, <2>3
  <2>4. CASE k # g /\ k # h
    BY <1>4, <2>4
  <2> QED
    BY <2>2, <2>3, <2>4
<1> QED
  BY <1>1, <1>2, <1>4, <1>5

-------------------------------------------------------------------------------
(* Init. *)

LEMMA InitInv == Init => Inv
<1> SUFFICES ASSUME Init PROVE Inv
  OBVIOUS
<1> USE FlowAssumption
<1>1. TypeOK
  <2>1. /\ sent \in [1..Sources -> 0..Items] /\ buf \in [1..Sources -> Seq(AllItems)]
        /\ \A s \in 1..Sources : Len(buf[s]) <= SourceCap
    BY DEF Init
  <2>2. hold \in [Procs -> Holding] /\ ended \subseteq Procs
    BY DEF Init, Holding, Procs
  <2>3. inline \in BOOLEAN /\ sourceClosed \subseteq 1..Sources
    BY DEF Init
  <2>4. /\ fanInLeft \in 0..Sources /\ fanOutLeft \in 0..Workers /\ closed \subseteq Pipes
        /\ main \in {"waiting", "done"} /\ atomLock \in 0..Workers
    BY DEF Init
  <2>5. /\ atomVal \subseteq AllItems /\ failed \subseteq AllItems /\ got \in Seq(AllItems)
        /\ via \in [AllItems -> 0..Workers]
        /\ arg \in [1..Workers -> {<<>>} \cup { <<v>> : v \in SUBSET AllItems }]
    BY DEF Init
  <2> QED
    BY <2>1, <2>2, <2>3, <2>4, <2>5 DEF TypeOK
<1>2. /\ \A g \in Procs : hold[g] = <<>>
      /\ \A s \in 1..Sources : hold[Merge(s)] = <<>> /\ Merge(s) \notin ended
      /\ \A g \in StageProcs : hold[g] = <<>>
      /\ \A w \in 1..Workers : hold[Worker(w)] = <<>> /\ Worker(w) \notin ended
  <2>1. ended \subseteq StageProcs /\ StageProcs \subseteq Procs
    BY DEF Init, Procs
  <2> QED
    BY <2>1, ProcsDiffer, ProcsTyped DEF Init
<1>3. GroupsCount
  <2>1. LiveMerges = 1..Sources /\ LiveWorkers = 1..Workers
    BY <1>2 DEF LiveMerges, LiveWorkers
  <2>2. Cardinality(1..Sources) = Sources /\ Cardinality(1..Workers) = Workers
    BY FS_Interval
  <2> QED
    BY <2>1, <2>2 DEF Init, GroupsCount
<1>4. EndsPassOn
  <2>1. \A l \in 1..Workers, i \in 1..Stages : l \notin Lines <=> Stage(l, i) \in ended
    BY ProcsDiffer, ProcsTyped DEF Init, Lines
  <2> QED
    BY <1>1, <1>2, <2>1 DEF Init, EndsPassOn, TypeOK
<1>5. BufferInOrder
  BY <1>2 DEF Init, BufferInOrder, Taken
<1>6. Conserved
  <2>1. Range(got) = {}
    BY DEF Init, Range
  <2>2. \A s \in 1..Sources : Passed(s) = 0
    BY <1>2 DEF Init, Passed, Taken
  <2>3. \A g \in StageProcs, x \in AllItems : ~Holds(g, x)
    BY <1>2 DEF Holds
  <2>4. \A s \in 1..Sources, n \in 1..Items :
          ~(n <= Passed(s)) /\ \A g \in StageProcs : ~Holds(g, Item(s, n))
    BY <2>2, <2>3 DEF AllItems
  <2> QED
    BY <2>1, <2>3, <2>4 DEF Conserved, Onward
<1>7. AtomLocked /\ AtomHolds
  <2>1. Range(got) = {}
    BY DEF Init, Range
  <2>2. \A w \in 1..Workers, x \in AllItems : ~Holds(Worker(w), x)
    BY <1>2 DEF Holds
  <2>3. Pending = {}
    BY <2>2 DEF Pending
  <2>4. AtomLocked
    BY DEF Init, AtomLocked
  <2>5. Range(got) = atomVal \cup failed \cup Pending
    BY <2>1, <2>3 DEF Init
  <2> QED
    BY <2>2, <2>3, <2>4, <2>5 DEF Init, AtomHolds
<1>8. LineInOrder /\ SourceOrder
  <2>1. \A r \in 1..Workers, i \in 1..Stages : hold[Stage(r, i)] = <<>>
    BY <1>2, ProcsTyped
  <2>2. \A r \in 1..Workers, i \in 1..Stages, x \in AllItems : ~Holds(Stage(r, i), x)
    BY <2>1 DEF Holds
  <2>4. LineInOrder
    BY <2>2 DEF LineInOrder
  <2>5. SourceOrder
    BY DEF Init, SourceOrder
  <2> QED
    BY <2>4, <2>5
<1> QED
  BY <1>1, <1>3, <1>4, <1>5, <1>6, <1>7, <1>8 DEF Inv

-------------------------------------------------------------------------------
(* What the received items become when a worker gets one more. *)
LEMMA GotGrows ==
  ASSUME got \in Seq(AllItems), NEW x \in AllItems
  PROVE  /\ got \o <<x>> \in Seq(AllItems)
         /\ Len(got) \in Nat /\ Len(got \o <<x>>) = Len(got) + 1
         /\ \A k \in 1..Len(got) : (got \o <<x>>)[k] = got[k]
         /\ (got \o <<x>>)[Len(got) + 1] = x
         /\ Range(got \o <<x>>) = Range(got) \cup {x}
<1>1. /\ got \o <<x>> \in Seq(AllItems)
      /\ Len(got) \in Nat /\ Len(got \o <<x>>) = Len(got) + 1
      /\ \A k \in 1..Len(got) : (got \o <<x>>)[k] = got[k]
      /\ (got \o <<x>>)[Len(got) + 1] = x
  OBVIOUS
<1>2. /\ DOMAIN got = 1..Len(got) /\ DOMAIN (got \o <<x>>) = 1..(Len(got) + 1)
      /\ 1..(Len(got) + 1) = (1..Len(got)) \cup {Len(got) + 1}
  BY <1>1
<1>3. Range(got \o <<x>>) = Range(got) \cup {x}
  BY <1>1, <1>2 DEF Range
<1> QED
  BY <1>1, <1>3

LEMMA RangeOfOne == Range(<<>>) = {} /\ \A x : Range(<<x>>) = {x}
BY DEF Range

(* The goroutines that have not returned. *)
LEMMA LiveFinite ==
  /\ IsFiniteSet(LiveMerges) /\ (Cardinality(LiveMerges) = 0 <=> LiveMerges = {})
  /\ IsFiniteSet(LiveWorkers) /\ (Cardinality(LiveWorkers) = 0 <=> LiveWorkers = {})
  /\ \A s : s \in LiveMerges =>
       Cardinality(LiveMerges \ {s}) = Cardinality(LiveMerges) - 1
  /\ \A w : w \in LiveWorkers =>
       Cardinality(LiveWorkers \ {w}) = Cardinality(LiveWorkers) - 1
<1>1. IsFiniteSet(1..Sources) /\ IsFiniteSet(1..Workers)
  <2>1. /\ Sources \in Int /\ Workers \in Int /\ 1 \in Int
    BY FlowAssumption
  <2> QED
    BY <2>1, FS_Interval
<1>2. LiveMerges \subseteq 1..Sources /\ LiveWorkers \subseteq 1..Workers
  BY DEF LiveMerges, LiveWorkers
<1>3. IsFiniteSet(LiveMerges) /\ IsFiniteSet(LiveWorkers)
  BY <1>1, <1>2, FS_Subset
<1> QED
  BY <1>3, FS_EmptySet, FS_RemoveElement

(* What Append does to a sequence over a set. *)
LEMMA AppendAdds ==
  ASSUME NEW S, NEW q \in Seq(S), NEW e \in S
  PROVE  /\ Append(q, e) \in Seq(S)
         /\ Len(Append(q, e)) = Len(q) + 1 /\ Len(q) \in Nat
OBVIOUS

LEMMA TypeStep == TypeOK /\ GroupsCount /\ [Next]_vars => TypeOK'
<1> SUFFICES ASSUME TypeOK, GroupsCount, [Next]_vars PROVE TypeOK'
  OBVIOUS
<1> USE FlowAssumption DEF TypeOK
<1>0. /\ <<>> \in Holding /\ \A x \in AllItems : <<x>> \in Holding
      /\ \A g \in Procs : Range(hold[g]) \subseteq AllItems
  BY RangeOfOne DEF Holding
<1>1. ASSUME NEW s \in 1..Sources, Produce(s) PROVE TypeOK'
  <2>0. sent[s] + 1 \in 1..Items
    BY <1>1 DEF Produce
  <2>1. Item(s, sent[s] + 1) \in AllItems
    BY <2>0 DEF AllItems
  <2>2. /\ Append(buf[s], Item(s, sent[s] + 1)) \in Seq(AllItems)
        /\ Len(Append(buf[s], Item(s, sent[s] + 1))) = Len(buf[s]) + 1 /\ Len(buf[s]) \in Nat
    <3>1. buf[s] \in Seq(AllItems)
      OBVIOUS
    <3> QED
      BY <2>1, <3>1, AppendAdds
  <2>3. buf' \in [1..Sources -> Seq(AllItems)] /\ \A t \in 1..Sources : Len(buf'[t]) <= SourceCap
    BY <1>1, <2>2 DEF Produce
  <2>4. sent' \in [1..Sources -> 0..Items]
    BY <1>1 DEF Produce
  <2> QED
    BY <1>1, <2>3, <2>4 DEF Produce, groups, atom
<1>2. ASSUME NEW s \in 1..Sources, CloseSource(s) PROVE TypeOK'
  BY <1>2 DEF CloseSource, groups, atom
<1>3. ASSUME NEW s \in 1..Sources, MergeReceives(s) PROVE TypeOK'
  <2>1. /\ Head(buf[s]) \in AllItems /\ Tail(buf[s]) \in Seq(AllItems)
        /\ Len(Tail(buf[s])) = Len(buf[s]) - 1 /\ Len(buf[s]) \in Nat
    BY <1>3 DEF MergeReceives
  <2>2. buf' \in [1..Sources -> Seq(AllItems)] /\ \A t \in 1..Sources : Len(buf'[t]) <= SourceCap
    BY <1>3, <2>1 DEF MergeReceives
  <2>3. hold' \in [Procs -> Holding]
    BY <1>0, <1>3, <2>1 DEF MergeReceives
  <2> QED
    BY <1>3, <2>2, <2>3 DEF MergeReceives, groups, atom
<1>4. ASSUME NEW s \in 1..Sources, MergeEnds(s) PROVE TypeOK'
  <2>1. s \in LiveMerges /\ LiveMerges \subseteq 1..Sources
    BY <1>4 DEF MergeEnds, Receiving, Live, LiveMerges
  <2>2. fanInLeft # 0
    BY <2>1, LiveFinite DEF GroupsCount
  <2>3. fanInLeft - 1 \in 0..Sources
    BY <2>2
  <2> QED
    BY <1>4, <2>3, ProcsTyped DEF MergeEnds, sources, atom
<1>5. CASE FanInCloses
  <2>1. 1 \in 1..Workers /\ 0 \in 0..Stages
    OBVIOUS
  <2>2. Pipe(1, 0) \in Pipes
    BY <2>1, PipesTyped
  <2>3. Merged \in Pipes
    BY <2>2, Ends
  <2> QED
    BY <1>5, <2>3 DEF FanInCloses, sources, atom
<1>6. ASSUME NEW g \in Procs, NEW h \in Procs, HandOver(g, h) PROVE TypeOK'
  <2>1. PICK x \in AllItems : hold[g] = <<x>> /\ hold' \in [Procs -> Holding]
    BY <1>6, OneItemMoves
  <2>2. got' \in Seq(AllItems) /\ via' \in [AllItems -> 0..Workers]
    <3>1. CASE h \notin WorkProcs
      BY <1>6, <3>1 DEF HandOver
    <3>2. CASE h \in WorkProcs
      <4>1. PICK w \in 1..Workers : h = Worker(w)
        BY <3>2, ProcsTyped
      <4>2. LineOf(h[2]) \in 0..Workers
        BY <4>1, LineTyped DEF Worker
      <4>3. /\ got' = got \o <<x>>
            /\ via' = [y \in AllItems |-> IF hold[g] = <<y>> THEN LineOf(h[2]) ELSE via[y]]
        BY <1>6, <2>1, <3>2 DEF HandOver
      <4>4. got' \in Seq(AllItems)
        BY <4>3, GotGrows
      <4>5. \A y \in AllItems : via[y] \in 0..Workers
        OBVIOUS
      <4> HIDE DEF TypeOK
      <4>6. via' \in [AllItems -> 0..Workers]
        BY <4>2, <4>3, <4>5
      <4> QED
        BY <4>4, <4>6
    <3> QED
      BY <3>1, <3>2
  <2>3. UNCHANGED <<inline, sources, ended, groups, atom, failed>>
    BY <1>6 DEF HandOver
  <2> QED
    BY <2>1, <2>2, <2>3 DEF sources, groups, atom
<1>7. ASSUME NEW l \in Lines, NEW i \in 1..Stages, StageEnds(l, i) PROVE TypeOK'
  <2>1. l \in 1..Workers /\ Pipe(l, i) \in Pipes
    BY DEF Lines, Pipes
  <2> QED
    BY <1>7, <2>1, ProcsTyped DEF StageEnds, sources, atom
<1>8. ASSUME NEW w \in 1..Workers, SwapLocks(w) PROVE TypeOK'
  <2>1. arg' \in [1..Workers -> {<<>>} \cup { <<v>> : v \in SUBSET AllItems }]
    BY <1>8 DEF SwapLocks
  <2> QED
    BY <1>8, <2>1 DEF SwapLocks, sources, groups
<1>9. ASSUME NEW w \in 1..Workers, SwapStores(w) \/ SwapPanics(w) PROVE TypeOK'
  <2>1. arg' \in [1..Workers -> {<<>>} \cup { <<v>> : v \in SUBSET AllItems }]
    BY <1>9 DEF SwapStores, SwapPanics
  <2>2. hold' \in [Procs -> Holding]
    BY <1>0, <1>9 DEF SwapStores, SwapPanics, WorkerNext
  <2>3. Range(hold[Worker(w)]) \subseteq AllItems
    BY <1>0, ProcsTyped
  <2>4. arg[w] # <<>> => Head(arg[w]) \subseteq AllItems
    OBVIOUS
  <2>5. CASE SwapStores(w)
    <3>1. atomVal' \subseteq AllItems /\ atomLock' \in 0..Workers
      BY <2>3, <2>4, <2>5 DEF SwapStores
    <3>2. UNCHANGED <<inline, sources, ended, groups, got, via, failed>>
      BY <2>5 DEF SwapStores
    <3> QED
      BY <2>1, <2>2, <3>1, <3>2 DEF sources, groups
  <2>6. CASE SwapPanics(w)
    <3>1. failed' \subseteq AllItems /\ atomLock' \in 0..Workers
      BY <2>3, <2>6 DEF SwapPanics
    <3>2. UNCHANGED <<inline, sources, ended, groups, atomVal, got, via>>
      BY <2>6 DEF SwapPanics
    <3> QED
      BY <2>1, <2>2, <3>1, <3>2 DEF sources, groups
  <2> QED
    BY <1>9, <2>5, <2>6
<1>10. ASSUME NEW w \in 1..Workers, WorkerEnds(w) PROVE TypeOK'
  <2>1. w \in LiveWorkers /\ LiveWorkers \subseteq 1..Workers
    BY <1>10 DEF WorkerEnds, Receiving, Live, LiveWorkers
  <2>2. fanOutLeft # 0
    BY <2>1, LiveFinite DEF GroupsCount
  <2>3. fanOutLeft - 1 \in 0..Workers
    BY <2>2
  <2> QED
    BY <1>10, <2>3, ProcsTyped DEF WorkerEnds, sources, atom
<1>11. CASE FanOutReturns
  BY <1>11 DEF FanOutReturns, sources, atom
<1>12. CASE UNCHANGED vars
  BY <1>12 DEF vars, sources, groups, atom
<1> QED
  BY <1>1, <1>2, <1>3, <1>4, <1>5, <1>6, <1>7, <1>8, <1>9, <1>10, <1>11, <1>12 DEF Next

-------------------------------------------------------------------------------
LEMMA GroupsStep == TypeOK /\ GroupsCount /\ [Next]_vars => GroupsCount'
<1> SUFFICES ASSUME TypeOK, GroupsCount, [Next]_vars PROVE GroupsCount'
  OBVIOUS
<1>1. ASSUME NEW s \in 1..Sources, MergeEnds(s) PROVE GroupsCount'
  <2>1. s \in LiveMerges /\ LiveMerges' = LiveMerges \ {s} /\ LiveWorkers' = LiveWorkers
    BY <1>1, ProcsDiffer DEF MergeEnds, Receiving, Live, LiveMerges, LiveWorkers
  <2> QED
    BY <1>1, <2>1, LiveFinite DEF MergeEnds, GroupsCount
<1>2. ASSUME NEW w \in 1..Workers, WorkerEnds(w) PROVE GroupsCount'
  <2>1. w \in LiveWorkers /\ LiveWorkers' = LiveWorkers \ {w} /\ LiveMerges' = LiveMerges
    BY <1>2, ProcsDiffer DEF WorkerEnds, Receiving, Live, LiveMerges, LiveWorkers
  <2> QED
    BY <1>2, <2>1, LiveFinite DEF WorkerEnds, GroupsCount
<1>3. ASSUME NEW l \in Lines, NEW i \in 1..Stages, StageEnds(l, i) PROVE GroupsCount'
  <2>1. LiveMerges' = LiveMerges /\ LiveWorkers' = LiveWorkers
    BY <1>3, ProcsDiffer DEF StageEnds, LiveMerges, LiveWorkers
  <2> QED
    BY <1>3, <2>1 DEF StageEnds, GroupsCount
<1>4. ASSUME UNCHANGED <<ended, fanInLeft, fanOutLeft>> PROVE GroupsCount'
  BY <1>4 DEF GroupsCount, LiveMerges, LiveWorkers
<1>5. ASSUME NEW s \in 1..Sources, Produce(s) \/ CloseSource(s) \/ MergeReceives(s)
      PROVE  GroupsCount'
  BY <1>4, <1>5 DEF Produce, CloseSource, MergeReceives, groups
<1>6. CASE FanInCloses \/ FanOutReturns \/ UNCHANGED vars
  BY <1>4, <1>6 DEF FanInCloses, FanOutReturns, vars, groups
<1>7. ASSUME NEW g \in Procs, NEW h \in Procs, HandOver(g, h) PROVE GroupsCount'
  BY <1>4, <1>7 DEF HandOver, groups
<1>8. ASSUME NEW w \in 1..Workers, SwapLocks(w) \/ SwapStores(w) \/ SwapPanics(w)
      PROVE  GroupsCount'
  BY <1>4, <1>8 DEF SwapLocks, SwapStores, SwapPanics, groups
<1> QED
  BY <1>1, <1>2, <1>3, <1>5, <1>6, <1>7, <1>8 DEF Next

(* A worker's step with the atom empties its hands and leaves the rest. *)
LEMMA SwapEnds ==
  ASSUME TypeOK, NEW w \in 1..Workers, SwapStores(w) \/ SwapPanics(w)
  PROVE  /\ hold' = [hold EXCEPT ![Worker(w)] = <<>>] /\ hold'[Worker(w)] = <<>>
         /\ \A g \in Procs : g # Worker(w) => hold'[g] = hold[g]
         /\ UNCHANGED <<inline, sources, ended, groups, got, via>>
BY ProcsTyped DEF TypeOK, SwapStores, SwapPanics, WorkerNext

LEMMA EndsStep == TypeOK /\ GroupsCount /\ EndsPassOn /\ [Next]_vars => EndsPassOn'
<1> SUFFICES ASSUME TypeOK, GroupsCount, EndsPassOn, [Next]_vars PROVE EndsPassOn'
  OBVIOUS
<1>0. /\ \A g \in ended : g \in Procs
      /\ \A s \in 1..Sources : Merge(s) \in Procs
  BY ProcsTyped DEF TypeOK
<1>1. ASSUME NEW s \in 1..Sources, Produce(s) PROVE EndsPassOn'
  <2>1. sent[s] # Items /\ UNCHANGED <<inline, sourceClosed, hold, ended, closed, main>>
    BY <1>1, FlowAssumption DEF Produce, groups
  <2>2. \A t \in 1..Sources : t # s => sent'[t] = sent[t] /\ buf'[t] = buf[t]
    BY <1>1 DEF Produce, TypeOK
  <2>3. s \notin sourceClosed /\ Merge(s) \notin ended
    BY <2>1 DEF EndsPassOn
  <2>4. Lines' = Lines /\ \A w : From(Worker(w))' = From(Worker(w))
    BY <2>1 DEF Lines, From
  <2> QED
    BY <2>1, <2>2, <2>3, <2>4 DEF EndsPassOn, TypeOK
<1>2. ASSUME NEW s \in 1..Sources, CloseSource(s) PROVE EndsPassOn'
  <2>1. /\ sourceClosed' = sourceClosed \cup {s} /\ sent[s] = Items
        /\ UNCHANGED <<inline, sent, buf, hold, ended, closed, main>>
    BY <1>2 DEF CloseSource, groups
  <2>2. Lines' = Lines /\ \A v : From(Worker(v))' = From(Worker(v))
    BY <2>1 DEF Lines, From
  <2> QED
    BY <2>1, <2>2 DEF EndsPassOn
<1>3. ASSUME NEW s \in 1..Sources, MergeReceives(s) PROVE EndsPassOn'
  <2>1. /\ Merge(s) \notin ended /\ UNCHANGED <<inline, sourceClosed, sent, ended, closed, main>>
        /\ \A g \in Procs : g # Merge(s) => hold'[g] = hold[g]
        /\ \A t \in 1..Sources : t # s => buf'[t] = buf[t]
    BY <1>3 DEF MergeReceives, Receiving, Live, groups, TypeOK
  <2>2. Lines' = Lines /\ \A w : From(Worker(w))' = From(Worker(w))
    BY <2>1 DEF Lines, From
  <2> QED
    BY <1>0, <2>1, <2>2 DEF EndsPassOn
<1>4. ASSUME NEW s \in 1..Sources, MergeEnds(s) PROVE EndsPassOn'
  <2>1. /\ hold[Merge(s)] = <<>> /\ buf[s] = <<>> /\ sent[s] = Items
        /\ ended' = ended \cup {Merge(s)}
        /\ UNCHANGED <<inline, sourceClosed, sent, buf, hold, closed, main>>
    BY <1>4 DEF MergeEnds, Receiving, sources, EndsPassOn
  <2>2. Lines' = Lines /\ \A w : From(Worker(w))' = From(Worker(w))
    BY <2>1 DEF Lines, From
  <2> QED
    BY <2>1, <2>2, ProcsDiffer DEF EndsPassOn
<1>5. CASE FanInCloses
  <2>1. LiveMerges = {}
    BY <1>5, LiveFinite DEF FanInCloses, GroupsCount
  <2>2. \A s \in 1..Sources : Merge(s) \in ended
    BY <2>1 DEF LiveMerges
  <2>3. \A l \in 1..Workers, i \in 1..Stages : Pipe(l, i) # Merged
    BY FlowAssumption DEF Pipe, Merged
  <2>4. /\ closed' = closed \cup {Merged}
        /\ UNCHANGED <<inline, sourceClosed, sent, buf, hold, ended, main>>
    BY <1>5 DEF FanInCloses, sources
  <2>5. Lines' = Lines /\ \A w : From(Worker(w))' = From(Worker(w))
    BY <2>4 DEF Lines, From
  <2> QED
    BY <2>2, <2>3, <2>4, <2>5 DEF EndsPassOn
<1>6. ASSUME NEW g \in Procs, NEW h \in Procs, HandOver(g, h) PROVE EndsPassOn'
  <2>1. /\ g \notin ended /\ h \notin ended
        /\ \A k \in Procs : k # g /\ k # h => hold'[k] = hold[k]
        /\ UNCHANGED <<inline, sourceClosed, sent, buf, ended, closed, main>>
    BY <1>6 DEF HandOver, Sending, Receiving, Live, sources, groups, TypeOK
  <2>2. Lines' = Lines /\ \A w : From(Worker(w))' = From(Worker(w))
    BY <2>1 DEF Lines, From
  <2> QED
    BY <1>0, <2>1, <2>2 DEF EndsPassOn
<1>7. ASSUME NEW l \in Lines, NEW i \in 1..Stages, StageEnds(l, i) PROVE EndsPassOn'
  <2>1. /\ hold[Stage(l, i)] = <<>> /\ Pipe(l, i - 1) \in closed
        /\ ended' = ended \cup {Stage(l, i)} /\ closed' = closed \cup {Pipe(l, i)}
        /\ UNCHANGED <<inline, sourceClosed, sent, buf, hold, main>>
    BY <1>7 DEF StageEnds, Receiving, sources
  <2>2. Lines' = Lines /\ \A w : From(Worker(w))' = From(Worker(w))
    BY <2>1 DEF Lines, From
  <2>3. l \in 1..Workers
    BY FlowAssumption DEF Lines
  <2>4. Pipe(l, i) # Merged
    BY FlowAssumption DEF Pipe, Merged
  <2>5. Merged \in closed /\ \A j \in 1..(i - 1) : Stage(l, j) \in ended
    <3>1. CASE i = 1
      BY <2>1, <3>1, Ends
    <3>2. CASE i # 1
      <4>1. i - 1 \in 1..Stages
        BY <3>2, FlowAssumption
      <4>2. Stage(l, i - 1) \in ended
        BY <2>1, <2>3, <4>1 DEF EndsPassOn
      <4> QED
        BY <2>3, <4>1, <4>2 DEF EndsPassOn
    <3> QED
      BY <3>1, <3>2
  <2>6. \A j \in 1..i : Stage(l, j) \in ended'
    <3>1. \A j \in 1..i : j = i \/ j \in 1..(i - 1)
      OBVIOUS
    <3> QED
      BY <2>1, <2>5, <3>1
  <2>7. \A m \in 1..Workers, j \in 1..Stages : Pipe(m, j) = Pipe(l, i) => m = l /\ j = i
    <3>1. 1..Stages \subseteq 0..Stages /\ \A j \in 1..Stages : j # 0
      OBVIOUS
    <3> QED
      BY <2>3, <3>1, PipesDiffer
  <2>8. \A m \in 1..Workers, j \in 1..Stages : Pipe(m, j) \in closed' => Stage(m, j) \in ended'
    BY <2>1, <2>7 DEF EndsPassOn
  <2>9. \A m \in 1..Workers : \A j \in 1..Stages :
          IF m \in Lines'
            THEN Stage(m, j) \in ended' =>
                   Merged \in closed' /\ \A k \in 1..j : Stage(m, k) \in ended'
            ELSE Stage(m, j) \in ended'
    <3> SUFFICES ASSUME NEW m \in 1..Workers, NEW j \in 1..Stages
                 PROVE  IF m \in Lines
                          THEN Stage(m, j) \in ended' =>
                                 Merged \in closed' /\ \A k \in 1..j : Stage(m, k) \in ended'
                          ELSE Stage(m, j) \in ended'
      BY <2>2
    <3>1. CASE m = l /\ j = i
      BY <2>1, <2>5, <2>6, <3>1
    <3>2. CASE ~(m = l /\ j = i)
      <4>1. Stage(m, j) \in ended' <=> Stage(m, j) \in ended
        BY <2>1, <3>2, ProcsDiffer
      <4> QED
        BY <2>1, <4>1 DEF EndsPassOn
    <3> QED
      BY <3>1, <3>2
  <2>10. /\ \A g \in ended' : hold'[g] = <<>>
         /\ \A s \in 1..Sources : Merge(s) \in ended' <=> Merge(s) \in ended
         /\ \A w \in 1..Workers : Worker(w) \in ended' <=> Worker(w) \in ended
         /\ Merged \in closed' <=> Merged \in closed
         /\ closed \subseteq closed'
    BY <2>1, <2>4, ProcsDiffer DEF EndsPassOn
  <2> QED
    BY <2>1, <2>2, <2>8, <2>9, <2>10 DEF EndsPassOn
<1>8. ASSUME NEW w \in 1..Workers, SwapLocks(w) PROVE EndsPassOn'
  <2>1. UNCHANGED <<inline, sourceClosed, sent, buf, hold, ended, closed, main>>
    BY <1>8 DEF SwapLocks, sources, groups
  <2>2. Lines' = Lines /\ \A v : From(Worker(v))' = From(Worker(v))
    BY <2>1 DEF Lines, From
  <2> QED
    BY <2>1, <2>2 DEF EndsPassOn
<1>9. ASSUME NEW w \in 1..Workers, SwapStores(w) \/ SwapPanics(w) PROVE EndsPassOn'
  <2>1. /\ \A g \in ended : hold'[g] = <<>>
        /\ UNCHANGED <<inline, sourceClosed, sent, buf, ended, closed, main>>
    BY <1>0, <1>9, SwapEnds DEF EndsPassOn, sources, groups
  <2>2. Lines' = Lines /\ \A v : From(Worker(v))' = From(Worker(v))
    BY <2>1 DEF Lines, From
  <2> QED
    BY <2>1, <2>2 DEF EndsPassOn
<1>10. ASSUME NEW w \in 1..Workers, WorkerEnds(w) PROVE EndsPassOn'
  <2>1. /\ hold[Worker(w)] = <<>> /\ From(Worker(w)) \in closed
        /\ ended' = ended \cup {Worker(w)}
        /\ UNCHANGED <<inline, sourceClosed, sent, buf, hold, closed, main>>
    BY <1>10 DEF WorkerEnds, Receiving, sources
  <2>2. Lines' = Lines /\ \A v : From(Worker(v))' = From(Worker(v))
    BY <2>1 DEF Lines, From
  <2> QED
    BY <2>1, <2>2, ProcsDiffer DEF EndsPassOn
<1>11. CASE FanOutReturns
  <2>1. LiveWorkers = {}
    BY <1>11, LiveFinite DEF FanOutReturns, GroupsCount
  <2>2. \A w \in 1..Workers : Worker(w) \in ended
    BY <2>1 DEF LiveWorkers
  <2>3. UNCHANGED <<inline, sourceClosed, sent, buf, hold, ended, closed>>
    BY <1>11 DEF FanOutReturns, sources
  <2>4. Lines' = Lines /\ \A v : From(Worker(v))' = From(Worker(v))
    BY <2>3 DEF Lines, From
  <2> QED
    BY <2>2, <2>3, <2>4 DEF EndsPassOn
<1>12. CASE UNCHANGED vars
  <2>1. UNCHANGED <<inline, sourceClosed, sent, buf, hold, ended, closed, main>>
    BY <1>12 DEF vars, sources, groups
  <2>2. Lines' = Lines /\ \A v : From(Worker(v))' = From(Worker(v))
    BY <2>1 DEF Lines, From
  <2> QED
    BY <2>1, <2>2 DEF EndsPassOn
<1> QED
  BY <1>1, <1>2, <1>3, <1>4, <1>5, <1>6, <1>7, <1>8, <1>9, <1>10, <1>11, <1>12 DEF Next

-------------------------------------------------------------------------------
(* The items. *)

LEMMA ItemParts ==
  /\ \A x \in AllItems : x[1] \in 1..Sources /\ x[2] \in 1..Items /\ x = Item(x[1], x[2])
  /\ \A s \in 1..Sources, n \in 1..Items : Item(s, n) \in AllItems
  /\ \A s, n : Item(s, n)[1] = s /\ Item(s, n)[2] = n
  /\ \A s, n, t, m : Item(s, n) = Item(t, m) => s = t /\ n = m
BY DEF AllItems, Item

(* Only a source's goroutine takes its items and passes them on. *)
LEMMA TakenTyped ==
  ASSUME TypeOK, BufferInOrder, NEW s \in 1..Sources
  PROVE  /\ sent[s] \in 0..Items /\ Len(buf[s]) \in Nat /\ buf[s] \in Seq(AllItems)
         /\ Taken(s) \in 0..Items /\ Passed(s) \in 0..Items
<1>1. sent[s] \in 0..Items /\ Len(buf[s]) \in Nat /\ buf[s] \in Seq(AllItems)
  BY DEF TypeOK
<1>2. Taken(s) \in 0..Items
  BY <1>1, FlowAssumption DEF Taken, BufferInOrder
<1>3. Passed(s) \in 0..Items
  BY <1>2, FlowAssumption DEF Passed, BufferInOrder
<1> QED
  BY <1>1, <1>2, <1>3

LEMMA NothingTaken ==
  ASSUME UNCHANGED <<sent, buf>>, \A s \in 1..Sources : hold'[Merge(s)] = hold[Merge(s)]
  PROVE  /\ BufferInOrder => BufferInOrder'
         /\ \A s \in 1..Sources : Passed(s)' = Passed(s)
BY DEF BufferInOrder, Passed, Taken

LEMMA ProducedLater ==
  ASSUME TypeOK, BufferInOrder, NEW s \in 1..Sources, Produce(s)
  PROVE  /\ BufferInOrder'
         /\ \A t \in 1..Sources : Passed(t)' = Passed(t)
<1> DEFINE b == Append(buf[s], Item(s, sent[s] + 1))
<1>1. /\ hold' = hold
      /\ \A t \in 1..Sources : t # s => sent'[t] = sent[t] /\ buf'[t] = buf[t]
      /\ sent'[s] = sent[s] + 1 /\ buf'[s] = b
  BY DEF Produce, TypeOK
<1>2. Len(b) = Len(buf[s]) + 1 /\ b[Len(buf[s]) + 1] = Item(s, sent[s] + 1)
  BY TakenTyped
<1>2a. \A k \in 1..Len(buf[s]) : b[k] = buf[s][k]
  BY TakenTyped
<1>3. Taken(s)' = Taken(s) /\ Len(buf[s])' <= sent'[s]
  BY <1>1, <1>2, TakenTyped DEF Taken, BufferInOrder
<1>4. \A k \in 1..Len(b) : b[k] = Item(s, Taken(s) + k)
  <2> SUFFICES ASSUME NEW k \in 1..Len(b) PROVE b[k] = Item(s, Taken(s) + k)
    OBVIOUS
  <2>1. CASE k \in 1..Len(buf[s])
    BY <1>2a, <2>1 DEF BufferInOrder
  <2>2. CASE k \notin 1..Len(buf[s])
    <3>1. k = Len(buf[s]) + 1
      BY <1>2, <2>2, TakenTyped
    <3>2. Taken(s) + k = sent[s] + 1
      BY <3>1, TakenTyped DEF Taken
    <3> QED
      BY <1>2, <3>1, <3>2
  <2> QED
    BY <2>1, <2>2
<1>5. \A t \in 1..Sources : Taken(t)' = Taken(t)
  BY <1>1, <1>3 DEF Taken
<1>6. BufferInOrder'
  <2> SUFFICES ASSUME NEW t \in 1..Sources
               PROVE  /\ Len(buf'[t]) <= sent'[t]
                      /\ \A k \in 1..Len(buf'[t]) : buf'[t][k] = Item(t, Taken(t) + k)
                      /\ hold[Merge(t)] # <<>> =>
                           hold[Merge(t)] = <<Item(t, Taken(t))>> /\ Taken(t) > 0
    BY <1>1, <1>5 DEF BufferInOrder
  <2> QED
    BY <1>1, <1>3, <1>4 DEF BufferInOrder
<1> QED
  BY <1>1, <1>5, <1>6 DEF Passed

LEMMA ReceivedInOrder ==
  ASSUME TypeOK, BufferInOrder, NEW s \in 1..Sources, MergeReceives(s)
  PROVE  /\ BufferInOrder'
         /\ \A t \in 1..Sources : Passed(t)' = Passed(t)
         /\ \A g \in Procs : g \notin Merges => hold'[g] = hold[g]
<1> DEFINE b == buf[s]
<1>1. /\ b # <<>> /\ hold[Merge(s)] = <<>> /\ sent' = sent
      /\ buf'[s] = Tail(b) /\ hold'[Merge(s)] = <<Head(b)>>
      /\ \A t \in 1..Sources : t # s => buf'[t] = buf[t]
      /\ \A g \in Procs : g # Merge(s) => hold'[g] = hold[g]
  BY ProcsTyped DEF MergeReceives, Receiving, TypeOK
<1>2. /\ Len(b) \in Nat \ {0} /\ Len(Tail(b)) = Len(b) - 1 /\ Head(b) = b[1]
      /\ \A k \in 1..(Len(b) - 1) : Tail(b)[k] = b[k + 1]
  BY <1>1, TakenTyped
<1>3. Taken(s)' = Taken(s) + 1 /\ \A t \in 1..Sources : t # s => Taken(t)' = Taken(t)
  BY <1>1, <1>2, TakenTyped DEF Taken
<1>4. Head(b) = Item(s, Taken(s) + 1)
  BY <1>2 DEF BufferInOrder
<1>5. \A k \in 1..Len(Tail(b)) : Tail(b)[k] = Item(s, Taken(s) + 1 + k)
  <2> SUFFICES ASSUME NEW k \in 1..Len(Tail(b)) PROVE Tail(b)[k] = Item(s, Taken(s) + 1 + k)
    OBVIOUS
  <2>1. k + 1 \in 1..Len(b) /\ Tail(b)[k] = b[k + 1]
    BY <1>2
  <2>2. b[k + 1] = Item(s, Taken(s) + (k + 1))
    BY <2>1 DEF BufferInOrder
  <2>3. Taken(s) + (k + 1) = Taken(s) + 1 + k
    BY TakenTyped
  <2> QED
    BY <2>1, <2>2, <2>3
<1>6. \A t \in 1..Sources : t # s => hold'[Merge(t)] = hold[Merge(t)]
  BY <1>1, ProcsDiffer, ProcsTyped
<1>7. BufferInOrder'
  <2>1. ASSUME NEW t \in 1..Sources, t # s
        PROVE  /\ Len(buf'[t]) <= sent'[t]
               /\ \A k \in 1..Len(buf'[t]) : buf'[t][k] = Item(t, Taken(t)' + k)
               /\ hold'[Merge(t)] # <<>> =>
                    hold'[Merge(t)] = <<Item(t, Taken(t)')>> /\ Taken(t)' > 0
    BY <1>1, <1>3, <1>6, <2>1 DEF BufferInOrder
  <2>2. /\ Len(buf'[s]) <= sent'[s]
        /\ \A k \in 1..Len(buf'[s]) : buf'[s][k] = Item(s, Taken(s)' + k)
        /\ hold'[Merge(s)] = <<Item(s, Taken(s)')>> /\ Taken(s)' > 0
    <3>1. Len(buf'[s]) <= sent'[s]
      BY <1>1, <1>2, TakenTyped DEF BufferInOrder
    <3>2. Taken(s)' > 0
      BY <1>3, TakenTyped
    <3> QED
      BY <1>1, <1>3, <1>4, <1>5, <3>1, <3>2
  <2> QED
    BY <2>1, <2>2 DEF BufferInOrder
<1>8. Passed(s)' = Passed(s)
  <2>1. <<Head(b)>> # <<>>
    OBVIOUS
  <2> QED
    BY <1>1, <1>3, <2>1, TakenTyped DEF Passed
<1>9. \A t \in 1..Sources : Passed(t)' = Passed(t)
  BY <1>3, <1>6, <1>8 DEF Passed
<1>10. \A g \in Procs : g \notin Merges => hold'[g] = hold[g]
  BY <1>1, ProcsTyped
<1> QED
  BY <1>7, <1>9, <1>10

(* The item a goroutine of fan-in passes on is the one it took last. *)
LEMMA PassedOn ==
  ASSUME TypeOK, BufferInOrder, NEW s \in 1..Sources, NEW h \in Procs, HandOver(Merge(s), h)
  PROVE  /\ BufferInOrder' /\ Taken(s) \in 1..Items
         /\ hold[Merge(s)] = <<Item(s, Taken(s))>>
         /\ Passed(s) = Taken(s) - 1 /\ Passed(s)' = Taken(s)
         /\ \A t \in 1..Sources : t # s => Passed(t)' = Passed(t)
<1>1. /\ hold[Merge(s)] # <<>> /\ h \notin Merges /\ UNCHANGED <<sent, buf>>
      /\ \A g \in Procs : g # Merge(s) /\ g # h => hold'[g] = hold[g]
      /\ hold'[Merge(s)] = <<>>
  BY ProcsTyped DEF HandOver, Sending, sources, TypeOK
<1>2. /\ \A t \in 1..Sources : t # s => hold'[Merge(t)] = hold[Merge(t)]
      /\ \A t \in 1..Sources : Taken(t)' = Taken(t)
  BY <1>1, ProcsDiffer, ProcsTyped DEF Taken
<1>3. hold[Merge(s)] = <<Item(s, Taken(s))>> /\ Taken(s) \in 1..Items
  BY <1>1, TakenTyped DEF BufferInOrder
<1>4. Passed(s) = Taken(s) - 1 /\ Passed(s)' = Taken(s)
  BY <1>1, <1>2 DEF Passed
<1>5. \A t \in 1..Sources : t # s => Passed(t)' = Passed(t)
  BY <1>2 DEF Passed
<1>6. BufferInOrder'
  BY <1>1, <1>2 DEF BufferInOrder
<1> QED
  BY <1>3, <1>4, <1>5, <1>6

-------------------------------------------------------------------------------
(* A step that leaves alone what the stages hold, and what fan-in took and *)
(* the workers received, keeps what is said of them.                       *)
StagesAlone ==
  /\ \A g \in StageProcs : hold'[g] = hold[g]
  /\ \A s \in 1..Sources : Passed(s)' = Passed(s)
  /\ UNCHANGED <<got, via, inline>>

LEMMA StagesKept ==
  ASSUME StagesAlone, Conserved, LineInOrder, SourceOrder
  PROVE  Conserved' /\ LineInOrder' /\ SourceOrder'
<1>1. \A g \in StageProcs : \A x : Holds(g, x)' <=> Holds(g, x)
  BY DEF StagesAlone, Holds
<1>2. \A r \in 1..Workers, i \in 1..Stages : \A x :
        Holds(Stage(r, i), x)' <=> Holds(Stage(r, i), x)
  BY <1>1, ProcsTyped
<1>3. Conserved'
  BY <1>1 DEF StagesAlone, Conserved, Onward
<1>4. LineInOrder'
  BY <1>2 DEF StagesAlone, LineInOrder
<1> QED
  BY <1>3, <1>4 DEF StagesAlone, SourceOrder

(* Every step but a hand-over is one of these. *)
LEMMA OnlyHandOverMoves ==
  ASSUME TypeOK, BufferInOrder, [Next]_vars
  PROVE  \/ StagesAlone /\ BufferInOrder'
         \/ \E g, h \in Procs : HandOver(g, h)
<1>1. ASSUME NEW s \in 1..Sources, Produce(s) PROVE StagesAlone /\ BufferInOrder'
  BY <1>1, ProducedLater DEF Produce, StagesAlone
<1>2. ASSUME NEW s \in 1..Sources, MergeReceives(s) PROVE StagesAlone /\ BufferInOrder'
  <2>1. \A g \in StageProcs : g \in Procs /\ g \notin Merges
    BY ProcsDiffer, ProcsTyped
  <2> QED
    BY <1>2, <2>1, ReceivedInOrder DEF MergeReceives, StagesAlone
<1>3. ASSUME UNCHANGED <<inline, sent, buf, hold, got, via>> PROVE StagesAlone /\ BufferInOrder'
  BY <1>3, NothingTaken DEF StagesAlone
<1>4. ASSUME NEW s \in 1..Sources, CloseSource(s) \/ MergeEnds(s)
      PROVE  StagesAlone /\ BufferInOrder'
  BY <1>3, <1>4 DEF CloseSource, MergeEnds, sources
<1>5. CASE FanInCloses \/ FanOutReturns \/ UNCHANGED vars
  BY <1>3, <1>5 DEF FanInCloses, FanOutReturns, sources, vars
<1>6. ASSUME NEW l \in Lines, NEW i \in 1..Stages, StageEnds(l, i)
      PROVE  StagesAlone /\ BufferInOrder'
  BY <1>3, <1>6 DEF StageEnds, sources
<1>7. ASSUME NEW w \in 1..Workers, SwapLocks(w) \/ WorkerEnds(w)
      PROVE  StagesAlone /\ BufferInOrder'
  BY <1>3, <1>7 DEF SwapLocks, WorkerEnds, sources
<1>8. ASSUME NEW w \in 1..Workers, SwapStores(w) \/ SwapPanics(w)
      PROVE  StagesAlone /\ BufferInOrder'
  <2>1. /\ \A g \in Procs : g # Worker(w) => hold'[g] = hold[g]
        /\ UNCHANGED <<inline, sent, buf, got, via>>
    BY <1>8, SwapEnds DEF sources
  <2>2. /\ \A g \in StageProcs : g \in Procs /\ g # Worker(w)
        /\ \A s \in 1..Sources : Merge(s) \in Procs /\ Merge(s) # Worker(w)
    BY ProcsDiffer, ProcsTyped
  <2> QED
    BY <2>1, <2>2, NothingTaken DEF StagesAlone
<1> QED
  BY <1>1, <1>2, <1>4, <1>5, <1>6, <1>7, <1>8 DEF Next

LEMMA BufferStep == TypeOK /\ BufferInOrder /\ [Next]_vars => BufferInOrder'
<1> SUFFICES ASSUME TypeOK, BufferInOrder, [Next]_vars PROVE BufferInOrder'
  OBVIOUS
<1>1. ASSUME NEW g \in Procs, NEW h \in Procs, HandOver(g, h) PROVE BufferInOrder'
  <2>1. CASE \E s \in 1..Sources : g = Merge(s)
    BY <1>1, <2>1, PassedOn
  <2>2. CASE ~\E s \in 1..Sources : g = Merge(s)
    <3>1. \A s \in 1..Sources : Merge(s) # g /\ Merge(s) # h /\ Merge(s) \in Procs
      BY <1>1, <2>2, ProcsTyped DEF HandOver
    <3>2. \A s \in 1..Sources : hold'[Merge(s)] = hold[Merge(s)]
      BY <1>1, <3>1, OneItemMoves
    <3> QED
      BY <1>1, <3>2, NothingTaken DEF HandOver, sources
  <2> QED
    BY <2>1, <2>2
<1> QED
  BY <1>1, OnlyHandOverMoves

(* Items that go on, but no further than a worker, are counted as before.  *)
LEMMA OnwardKept ==
  ASSUME Conserved, \A s \in 1..Sources : Passed(s)' = Passed(s),
         \A y \in AllItems : Onward(y)' <=> Onward(y)
  PROVE  \A s \in 1..Sources, n \in 1..Items : n <= Passed(s)' <=> Onward(Item(s, n))'
<1> SUFFICES ASSUME NEW s \in 1..Sources, NEW n \in 1..Items
             PROVE  n <= Passed(s)' <=> Onward(Item(s, n))'
  OBVIOUS
<1>1. PICK y \in AllItems : y = <<s, n>>
  BY ItemParts DEF Item
<1>2. n <= Passed(s)' <=> Onward(y)'
  BY <1>1 DEF Conserved, Item
<1>3. Onward(<<s, n>>)' <=> Onward(y)'
  BY <1>1 DEF Onward, Holds
<1> QED
  BY <1>2, <1>3 DEF Item

(* A hand-over from fan-in passes on an item that was nowhere further; any *)
(* other moves one within the line or out of it.                           *)
LEMMA ConservedStep ==
  TypeOK /\ BufferInOrder /\ Conserved /\ LineInOrder /\ SourceOrder /\ [Next]_vars => Conserved'
<1> SUFFICES ASSUME TypeOK, BufferInOrder, Conserved, LineInOrder, SourceOrder, [Next]_vars
             PROVE  Conserved'
  OBVIOUS
<1>1. ASSUME NEW g \in Procs, NEW h \in Procs, HandOver(g, h) PROVE Conserved'
  <2>1. PICK x \in AllItems :
          /\ hold[g] = <<x>> /\ hold[h] = <<>> /\ g # h
          /\ \A k \in Procs : k # g /\ k # h => hold'[k] = hold[k]
          /\ \A k \in Procs : \A y :
               Holds(k, y)' <=> (k # g /\ Holds(k, y)) \/ (k = h /\ y = x)
    BY <1>1, OneItemMoves
  <2>2. StageProcs \subseteq Procs /\ Holds(g, x) /\ got' \in {got, got \o <<x>>}
    BY <1>1, <2>1 DEF Procs, Holds, HandOver
  <2>3. CASE MergeToStage(g, h)
    <3>1. PICK s \in 1..Sources, l \in 1..Workers : g = Merge(s) /\ h = Stage(l, 1)
      BY <2>3 DEF MergeToStage
    <3>2. h \in StageProcs /\ g \notin StageProcs /\ got' = got
      <4>1. 1 \in 1..Stages
        BY FlowAssumption
      <4> QED
        BY <1>1, <3>1, <4>1, ProcsDiffer, ProcsTyped DEF HandOver
    <3>3. /\ Taken(s) \in 1..Items /\ x = Item(s, Taken(s))
          /\ Passed(s) = Taken(s) - 1 /\ Passed(s)' = Taken(s)
          /\ \A t \in 1..Sources : t # s => Passed(t)' = Passed(t)
      BY <1>1, <2>1, <3>1, PassedOn
    <3>4. x \notin Range(got) /\ \A k \in StageProcs : ~Holds(k, x)
      BY <3>3 DEF Conserved, Onward
    <3>5. \A k \in StageProcs : \A y : Holds(k, y)' <=> Holds(k, y) \/ (k = h /\ y = x)
      BY <2>1, <2>2, <3>2
    <3>6. \A t \in 1..Sources, n \in 1..Items :
            n <= Passed(t)' <=> n <= Passed(t) \/ Item(t, n) = x
      <4> SUFFICES ASSUME NEW t \in 1..Sources, NEW n \in 1..Items
                   PROVE  n <= Passed(t)' <=> n <= Passed(t) \/ Item(t, n) = x
        OBVIOUS
      <4>1. Item(t, n) = x <=> t = s /\ n = Taken(s)
        BY <3>3, ItemParts
      <4>2. CASE t = s
        BY <3>3, <4>1, <4>2
      <4>3. CASE t # s
        BY <3>3, <4>1, <4>3
      <4> QED
        BY <4>2, <4>3
    <3>7. \A t \in 1..Sources, n \in 1..Items :
            n <= Passed(t)' <=> Onward(Item(t, n))'
      BY <3>2, <3>5, <3>6 DEF Conserved, Onward
    <3>8. \A k, m \in StageProcs, y \in AllItems : Holds(k, y)' /\ Holds(m, y)' => k = m
      BY <3>4, <3>5 DEF Conserved
    <3>9. \A k \in StageProcs, y \in AllItems : Holds(k, y)' => y \notin Range(got)
      BY <3>4, <3>5 DEF Conserved
    <3> QED
      BY <3>2, <3>7, <3>8, <3>9 DEF Conserved
  <2>4. CASE ~MergeToStage(g, h)
    <3>1. g \in StageProcs /\ h \in StageProcs \cup WorkProcs
      <4>1. StageToStage(g, h) \/ StageToWorker(g, h)
        BY <1>1, <2>4, HandOverForms
      <4>2. Stages \in 1..Stages /\ \A w \in 1..Workers : LineOf(w) \in 1..Workers
        BY FlowAssumption, LineTyped
      <4>3. \A i \in 1..Stages : i + 1 <= Stages => i + 1 \in 1..Stages
        BY FlowAssumption
      <4>4. CASE StageToStage(g, h)
        BY <4>3, <4>4, ProcsTyped DEF StageToStage
      <4>5. CASE StageToWorker(g, h)
        BY <4>2, <4>5, ProcsTyped DEF StageToWorker
      <4> QED
        BY <4>1, <4>4, <4>5
    <3>2. \A t \in 1..Sources : Passed(t)' = Passed(t)
      <4>1. \A t \in 1..Sources : Merge(t) # g /\ Merge(t) # h /\ Merge(t) \in Procs
        BY <3>1, ProcsDiffer, ProcsTyped
      <4>2. \A t \in 1..Sources : hold'[Merge(t)] = hold[Merge(t)]
        BY <2>1, <4>1
      <4> QED
        BY <1>1, <4>2, NothingTaken DEF HandOver, sources
    <3>3. \A k \in StageProcs : \A y :
            Holds(k, y)' <=> (k # g /\ Holds(k, y)) \/ (k = h /\ y = x)
      BY <2>1, <2>2
    <3>4. \A k \in StageProcs : k # g => ~Holds(k, x)
      BY <2>2, <3>1 DEF Conserved
    <3>5. \A y : Holds(g, y) => y = x
      BY <2>1 DEF Holds
    <3>6. CASE h \in StageProcs
      <4>1. got' = got
        BY <1>1, <3>6, ProcsDiffer, ProcsTyped DEF HandOver
      <4>2. \A y : (\E k \in StageProcs : Holds(k, y)') <=> (\E k \in StageProcs : Holds(k, y))
        BY <2>2, <3>1, <3>3, <3>5, <3>6
      <4>2a. \A y \in AllItems : Onward(y)' <=> Onward(y)
        BY <4>1, <4>2 DEF Onward
      <4>3. \A t \in 1..Sources, n \in 1..Items : n <= Passed(t)' <=> Onward(Item(t, n))'
        BY <3>2, <4>2a, OnwardKept
      <4>4. \A k, m \in StageProcs, y \in AllItems : Holds(k, y)' /\ Holds(m, y)' => k = m
        BY <3>3, <3>4 DEF Conserved
      <4>5. \A k \in StageProcs, y \in AllItems : Holds(k, y)' => y \notin Range(got)
        BY <2>2, <3>1, <3>3 DEF Conserved
      <4> QED
        BY <4>1, <4>3, <4>4, <4>5 DEF Conserved
    <3>7. CASE h \notin StageProcs
      <4>1. got' = got \o <<x>>
        BY <1>1, <2>1, <3>1, <3>7 DEF HandOver
      <4>2. Range(got)' = Range(got) \cup {x}
        BY <4>1, GotGrows DEF TypeOK
      <4>3. \A k \in StageProcs : \A y : Holds(k, y)' <=> k # g /\ Holds(k, y)
        BY <3>3, <3>7
      <4>4. \A y \in AllItems : Onward(y)' <=> Onward(y)
        BY <2>2, <3>1, <3>5, <4>2, <4>3 DEF Onward
      <4>5. \A t \in 1..Sources, n \in 1..Items : n <= Passed(t)' <=> Onward(Item(t, n))'
        BY <3>2, <4>4, OnwardKept
      <4>6. \A k, m \in StageProcs, y \in AllItems : Holds(k, y)' /\ Holds(m, y)' => k = m
        BY <4>3 DEF Conserved
      <4>7. \A k \in StageProcs, y \in AllItems : Holds(k, y)' => y \notin Range(got)'
        BY <3>4, <4>2, <4>3 DEF Conserved
      <4> QED
        BY <4>5, <4>6, <4>7 DEF Conserved
    <3> QED
      BY <3>6, <3>7
  <2> QED
    BY <2>3, <2>4
<1> QED
  BY <1>1, OnlyHandOverMoves, StagesKept

-------------------------------------------------------------------------------
(* The order of a source's items in each pipeline. *)

(* All that is in the line or received was passed on by fan-in. *)
LEMMA FurtherIsEarlier ==
  ASSUME Conserved, NEW x \in AllItems, Onward(x)
  PROVE  x[2] <= Passed(x[1])
BY ItemParts DEF Conserved

LEMMA ReceivedIsItem ==
  ASSUME TypeOK
  PROVE  /\ Len(got) \in Nat
         /\ \A k \in 1..Len(got) : got[k] \in AllItems /\ Onward(got[k])
BY DEF TypeOK, Onward, Range

LEMMA LineStep ==
  TypeOK /\ BufferInOrder /\ Conserved /\ LineInOrder /\ SourceOrder /\ [Next]_vars
    => LineInOrder' /\ SourceOrder'
<1> SUFFICES ASSUME TypeOK, BufferInOrder, Conserved, LineInOrder, SourceOrder, [Next]_vars
             PROVE  LineInOrder' /\ SourceOrder'
  OBVIOUS
<1>1. ASSUME NEW g \in Procs, NEW h \in Procs, HandOver(g, h) PROVE LineInOrder' /\ SourceOrder'
  <2>0. inline' = inline /\ 1 \in 1..Workers /\ Stages \in 1..Stages
    BY <1>1, FlowAssumption DEF HandOver
  <2>1. PICK x \in AllItems :
          /\ hold[g] = <<x>> /\ hold[h] = <<>> /\ g # h
          /\ \A k \in Procs : \A y :
               Holds(k, y)' <=> (k # g /\ Holds(k, y)) \/ (k = h /\ y = x)
    BY <1>1, OneItemMoves
  <2>2. \A r \in 1..Workers, i \in 1..Stages : Stage(r, i) \in Procs /\ Stage(r, i) \in StageProcs
    BY <2>0, ProcsTyped
  <2>3. Holds(g, x) /\ \A y : Holds(g, y) => y = x
    BY <2>1 DEF Holds
  <2>4. \A r \in 1..Workers, i \in 1..Stages : \A y : Holds(Stage(r, i), y)' <=>
          (Stage(r, i) # g /\ Holds(Stage(r, i), y)) \/ (Stage(r, i) = h /\ y = x)
    BY <2>1, <2>2
  <2>5. CASE MergeToStage(g, h)
    <3>1. PICK s \in 1..Sources, l \in 1..Workers : g = Merge(s) /\ h = Stage(l, 1)
      BY <2>5 DEF MergeToStage
    <3>2. /\ got' = got /\ via' = via /\ h \in StageProcs
          /\ \A r \in 1..Workers, i \in 1..Stages : Stage(r, i) # g
      <4>1. 1 \in 1..Stages
        BY FlowAssumption
      <4> QED
        BY <1>1, <3>1, <4>1, ProcsDiffer, ProcsTyped DEF HandOver
    <3>3. \A r \in 1..Workers, i \in 1..Stages : Stage(r, i) = h => i = 1
      BY <3>1, ProcsDiffer
    <3>4. x[1] = s /\ x[2] = Passed(s) + 1 /\ Passed(s) \in Int
      <4>1. hold[g] = <<Item(s, Taken(s))>> /\ Passed(s) = Taken(s) - 1
        BY <1>1, <3>1, PassedOn
      <4>2. x = Item(s, Taken(s))
        BY <2>1, <4>1
      <4> QED
        BY <4>1, <4>2, ItemParts, TakenTyped
    <3>5. \A y \in AllItems : Onward(y) /\ y[1] = x[1] => y[2] < x[2]
      <4> SUFFICES ASSUME NEW y \in AllItems, Onward(y), y[1] = x[1] PROVE y[2] < x[2]
        OBVIOUS
      <4>1. y[2] <= Passed(s) /\ y[2] \in Int
        BY <3>4, FurtherIsEarlier, ItemParts
      <4> QED
        BY <3>4, <4>1
    <3>6. \A r \in 1..Workers, i, j \in 1..Stages, y, z \in AllItems :
            i < j /\ Holds(Stage(r, i), y)' /\ Holds(Stage(r, j), z)' /\ y[1] = z[1] => z[2] < y[2]
      <4> SUFFICES ASSUME NEW r \in 1..Workers, NEW i \in 1..Stages, NEW j \in 1..Stages, NEW y \in AllItems,
                          NEW z \in AllItems, i < j, Holds(Stage(r, i), y)',
                          Holds(Stage(r, j), z)', y[1] = z[1]
                   PROVE  z[2] < y[2]
        OBVIOUS
      <4>1. Holds(Stage(r, j), z)
        BY <2>4, <3>3
      <4>2. CASE Holds(Stage(r, i), y)
        BY <4>1, <4>2 DEF LineInOrder
      <4>3. CASE y = x
        <5>1. Onward(z)
          BY <2>2, <4>1 DEF Onward
        <5> QED
          BY <3>5, <4>3, <5>1
      <4> QED
        BY <2>4, <4>2, <4>3
    <3>7. \A r \in 1..Workers, i \in 1..Stages, y \in AllItems, k \in 1..Len(got) :
            Holds(Stage(r, i), y)' /\ via[got[k]] = r /\ got[k][1] = y[1] => got[k][2] < y[2]
      <4> SUFFICES ASSUME NEW r \in 1..Workers, NEW i \in 1..Stages, NEW y \in AllItems, NEW k \in 1..Len(got),
                          Holds(Stage(r, i), y)', via[got[k]] = r, got[k][1] = y[1]
                   PROVE  got[k][2] < y[2]
        OBVIOUS
      <4>1. CASE Holds(Stage(r, i), y)
        BY <4>1 DEF LineInOrder
      <4>2. CASE y = x
        BY <3>5, <4>2, ReceivedIsItem
      <4> QED
        BY <2>4, <4>1, <4>2
    <3>8. LineInOrder'
      BY <3>2, <3>6, <3>7 DEF LineInOrder
    <3>9. SourceOrder'
      BY <2>0, <3>2 DEF SourceOrder
    <3> QED
      BY <3>8, <3>9
  <2>6. CASE StageToStage(g, h)
    <3>1. PICK l \in 1..Workers, m \in 1..Stages :
            m + 1 <= Stages /\ g = Stage(l, m) /\ h = Stage(l, m + 1)
      BY <2>6 DEF StageToStage
    <3>2. got' = got /\ via' = via
      <4>1. m + 1 \in 1..Stages
        BY <3>1
      <4> QED
        BY <1>1, <3>1, <4>1, ProcsDiffer, ProcsTyped DEF HandOver
    <3>3. \A r \in 1..Workers, i \in 1..Stages :
            /\ Stage(r, i) = h <=> l = r /\ i = m + 1
            /\ Stage(r, i) = g <=> l = r /\ i = m
      BY <3>1, ProcsDiffer
    <3>3a. \A r \in 1..Workers, i \in 1..Stages : \A y :
             Holds(Stage(r, i), y)' =>
               Holds(Stage(r, i), y) \/ (l = r /\ i = m + 1 /\ y = x)
      BY <2>4, <3>3
    <3>3b. \A i \in 1..Stages : \A y :
             Holds(Stage(l, i), y)' => i # m
      BY <2>4, <3>1, <3>3
    <3>4. \A r \in 1..Workers, i, j \in 1..Stages, y, z \in AllItems :
            i < j /\ Holds(Stage(r, i), y)' /\ Holds(Stage(r, j), z)' /\ y[1] = z[1] => z[2] < y[2]
      <4> SUFFICES ASSUME NEW r \in 1..Workers, NEW i \in 1..Stages, NEW j \in 1..Stages, NEW y \in AllItems,
                          NEW z \in AllItems, i < j, Holds(Stage(r, i), y)',
                          Holds(Stage(r, j), z)', y[1] = z[1]
                   PROVE  z[2] < y[2]
        OBVIOUS
      <4>1. CASE Holds(Stage(r, i), y) /\ Holds(Stage(r, j), z)
        BY <4>1 DEF LineInOrder
      <4>2. CASE ~Holds(Stage(r, i), y)
        <5>1. l = r /\ i = m + 1 /\ y = x
          BY <3>3a, <4>2
        <5>2. Holds(Stage(r, j), z)
          BY <3>3a, <5>1
        <5>3. Holds(Stage(r, m), y) /\ m < j
          BY <2>3, <3>1, <5>1
        <5> QED
          BY <5>2, <5>3 DEF LineInOrder
      <4>3. CASE ~Holds(Stage(r, j), z)
        <5>1. l = r /\ j = m + 1 /\ z = x
          BY <3>3a, <4>3
        <5>2. Holds(Stage(r, i), y) /\ i # m
          BY <3>3a, <3>3b, <5>1
        <5>3. Holds(Stage(r, m), z) /\ i < m
          BY <2>3, <3>1, <5>1, <5>2
        <5> QED
          BY <5>2, <5>3 DEF LineInOrder
      <4> QED
        BY <4>1, <4>2, <4>3
    <3>5. \A r \in 1..Workers, i \in 1..Stages, y \in AllItems, k \in 1..Len(got) :
            Holds(Stage(r, i), y)' /\ via[got[k]] = r /\ got[k][1] = y[1] => got[k][2] < y[2]
      <4> SUFFICES ASSUME NEW r \in 1..Workers, NEW i \in 1..Stages, NEW y \in AllItems, NEW k \in 1..Len(got),
                          Holds(Stage(r, i), y)', via[got[k]] = r, got[k][1] = y[1]
                   PROVE  got[k][2] < y[2]
        OBVIOUS
      <4>1. CASE Holds(Stage(r, i), y)
        BY <4>1 DEF LineInOrder
      <4>2. CASE ~Holds(Stage(r, i), y)
        <5>1. l = r /\ i = m + 1 /\ y = x
          BY <3>3a, <4>2
        <5>2. Holds(Stage(r, m), y)
          BY <2>3, <3>1, <5>1
        <5> QED
          BY <5>2 DEF LineInOrder
      <4> QED
        BY <4>1, <4>2
    <3>6. LineInOrder'
      BY <3>2, <3>4, <3>5 DEF LineInOrder
    <3>7. SourceOrder'
      BY <2>0, <3>2 DEF SourceOrder
    <3> QED
      BY <3>6, <3>7
  <2>7. CASE StageToWorker(g, h)
    <3>1. PICK w \in 1..Workers, l \in 1..Workers :
            l = LineOf(w) /\ g = Stage(l, Stages) /\ h = Worker(w)
      BY <2>7, LineTyped DEF StageToWorker
    <3>2. /\ got' = got \o <<x>>
          /\ \A r \in 1..Workers, i \in 1..Stages :
               /\ Stage(r, i) # h
               /\ Stage(r, i) = g <=> r = l /\ i = Stages
      BY <1>1, <2>1, <3>1, ProcsDiffer, ProcsTyped DEF HandOver
    <3>2a. /\ x \notin Range(got)
           /\ via'[x] = l /\ \A y \in AllItems : y # x => via'[y] = via[y]
      <4>1. x \notin Range(got)
        BY <2>0, <2>2, <2>3, <3>1 DEF Conserved
      <4>2. h \in WorkProcs /\ h[2] = w
        BY <3>1, ProcsTyped DEF Worker
      <4>3. via' = [y \in AllItems |-> IF hold[g] = <<y>> THEN LineOf(h[2]) ELSE via[y]]
        BY <1>1, <4>2 DEF HandOver
      <4>4. \A y \in AllItems : hold[g] = <<y>> <=> y = x
        BY <2>1
      <4> QED
        BY <3>1, <4>1, <4>2, <4>3, <4>4
    <3>3. \A r \in 1..Workers, i \in 1..Stages : \A y :
            Holds(Stage(r, i), y)' => Holds(Stage(r, i), y) /\ (r = l => i < Stages)
      BY <2>4, <3>2, FlowAssumption
    <3>4. /\ Len(got) \in Nat /\ Len(got') = Len(got) + 1 /\ got' \in Seq(AllItems)
          /\ \A k \in 1..Len(got) : got'[k] = got[k] /\ got[k] \in AllItems
          /\ got'[Len(got) + 1] = x
      BY <3>2, GotGrows, ReceivedIsItem DEF TypeOK
    <3>4a. \A k \in 1..Len(got) : via'[got[k]] = via[got[k]]
      <4>1. \A k \in 1..Len(got) : got[k] \in Range(got)
        BY DEF TypeOK, Range
      <4> QED
        BY <3>2a, <3>4, <4>1
    <3>5. \A k \in 1..Len(got) : via[got[k]] = l /\ got[k][1] = x[1] => got[k][2] < x[2]
      BY <2>0, <2>3, <3>1 DEF LineInOrder
    <3>6. \A i \in 1..Stages, y \in AllItems :
            Holds(Stage(l, i), y)' /\ x[1] = y[1] => x[2] < y[2]
      BY <2>0, <2>3, <3>1, <3>3 DEF LineInOrder
    <3>7. \A r \in 1..Workers, i, j \in 1..Stages, y, z \in AllItems :
            i < j /\ Holds(Stage(r, i), y)' /\ Holds(Stage(r, j), z)' /\ y[1] = z[1] => z[2] < y[2]
      BY <3>3 DEF LineInOrder
    <3>8. \A r \in 1..Workers, i \in 1..Stages, y \in AllItems, k \in 1..Len(got') :
            Holds(Stage(r, i), y)' /\ via'[got'[k]] = r /\ got'[k][1] = y[1] => got'[k][2] < y[2]
      <4> SUFFICES ASSUME NEW r \in 1..Workers, NEW i \in 1..Stages, NEW y \in AllItems,
                          NEW k \in 1..Len(got'), Holds(Stage(r, i), y)',
                          via'[got'[k]] = r, got'[k][1] = y[1]
                   PROVE  got'[k][2] < y[2]
        OBVIOUS
      <4>1. CASE k \in 1..Len(got)
        BY <3>3, <3>4, <3>4a, <4>1 DEF LineInOrder
      <4>2. CASE k \notin 1..Len(got)
        <5>1. k = Len(got) + 1
          BY <3>4, <4>2
        <5>2. got'[k] = x /\ r = l
          BY <3>2a, <3>4, <5>1
        <5> QED
          BY <3>6, <5>2
      <4> QED
        BY <4>1, <4>2
    <3>9. LineInOrder'
      BY <2>0, <3>7, <3>8 DEF LineInOrder
    <3>10. \A i, j \in 1..Len(got') :
             i < j /\ got'[i][1] = got'[j][1] /\ via'[got'[i]] = via'[got'[j]]
               => got'[i][2] < got'[j][2]
      <4> SUFFICES ASSUME NEW i \in 1..Len(got'), NEW j \in 1..Len(got'), i < j,
                          got'[i][1] = got'[j][1], via'[got'[i]] = via'[got'[j]]
                   PROVE  got'[i][2] < got'[j][2]
        OBVIOUS
      <4>1. i \in 1..Len(got) /\ got'[i] = got[i] /\ via'[got[i]] = via[got[i]]
        BY <3>4, <3>4a
      <4>2. CASE j \in 1..Len(got)
        <5>1. got'[j] = got[j] /\ via'[got[j]] = via[got[j]]
          BY <3>4, <3>4a, <4>2
        <5> QED
          BY <4>1, <4>2, <5>1 DEF SourceOrder
      <4>3. CASE j \notin 1..Len(got)
        <5>1. j = Len(got) + 1
          BY <3>4, <4>3
        <5>2. got'[j] = x /\ via[got[i]] = l
          BY <3>2a, <3>4, <4>1, <5>1
        <5> QED
          BY <3>5, <4>1, <5>2
      <4> QED
        BY <4>2, <4>3
    <3>11. SourceOrder'
      BY <3>4, <3>10 DEF SourceOrder
    <3> QED
      BY <3>9, <3>11
  <2> QED
    BY <1>1, <2>5, <2>6, <2>7, HandOverForms
<1> QED
  BY <1>1, OnlyHandOverMoves, StagesKept

-------------------------------------------------------------------------------
(* The atom. *)

LEMMA LockedStep == TypeOK /\ AtomLocked /\ [Next]_vars => AtomLocked'
<1> SUFFICES ASSUME TypeOK, AtomLocked, [Next]_vars PROVE AtomLocked'
  OBVIOUS
<1>1. ASSUME UNCHANGED atom, \A w \in 1..Workers : hold[Worker(w)] # <<>> => hold'[Worker(w)] # <<>>
      PROVE  AtomLocked'
  BY <1>1 DEF atom, AtomLocked
<1>2. ASSUME NEW s \in 1..Sources, Produce(s) \/ CloseSource(s) \/ MergeEnds(s) PROVE AtomLocked'
  BY <1>1, <1>2 DEF Produce, CloseSource, MergeEnds
<1>3. ASSUME NEW s \in 1..Sources, MergeReceives(s) PROVE AtomLocked'
  <2>1. \A g \in Procs : g # Merge(s) => hold'[g] = hold[g]
    BY <1>3 DEF MergeReceives, TypeOK
  <2> QED
    BY <1>1, <1>3, <2>1, ProcsDiffer, ProcsTyped DEF MergeReceives
<1>4. CASE FanInCloses \/ FanOutReturns \/ UNCHANGED vars
  BY <1>1, <1>4 DEF FanInCloses, FanOutReturns, vars
<1>5. ASSUME NEW g \in Procs, NEW h \in Procs, HandOver(g, h) PROVE AtomLocked'
  <2>1. hold[h] = <<>> /\ \A w \in 1..Workers : Worker(w) # g /\ Worker(w) \in Procs
    BY <1>5, ProcsTyped DEF HandOver, Sending, Receiving
  <2>2. \A w \in 1..Workers : hold[Worker(w)] # <<>> => hold'[Worker(w)] # <<>>
    BY <1>5, <2>1, OneItemMoves
  <2> QED
    BY <1>1, <1>5, <2>2 DEF HandOver
<1>6. ASSUME NEW l \in Lines, NEW i \in 1..Stages, StageEnds(l, i) PROVE AtomLocked'
  BY <1>1, <1>6 DEF StageEnds
<1>7. ASSUME NEW w \in 1..Workers, SwapLocks(w) PROVE AtomLocked'
  <2>1. \A v \in 1..Workers : arg[v] = <<>>
    BY <1>7 DEF SwapLocks, AtomLocked
  <2>2. /\ \A v \in 1..Workers : v # w => arg'[v] = <<>>
        /\ arg'[w] = <<atomVal>> /\ atomLock' = w /\ atomVal' = atomVal /\ hold' = hold
        /\ hold[Worker(w)] # <<>>
    BY <1>7, <2>1 DEF SwapLocks, TypeOK
  <2> QED
    BY <2>2 DEF AtomLocked
<1>8. ASSUME NEW w \in 1..Workers, SwapStores(w) \/ SwapPanics(w) PROVE AtomLocked'
  <2>1. arg[w] # <<>> /\ arg' = [arg EXCEPT ![w] = <<>>]
    BY <1>8 DEF SwapStores, SwapPanics
  <2>2. \A v \in 1..Workers : v # w => arg[v] = <<>>
    BY <2>1 DEF AtomLocked
  <2>3. \A v \in 1..Workers : arg'[v] = <<>>
    BY <2>1, <2>2 DEF TypeOK
  <2> QED
    BY <2>3 DEF AtomLocked
<1>9. ASSUME NEW w \in 1..Workers, WorkerEnds(w) PROVE AtomLocked'
  BY <1>1, <1>9 DEF WorkerEnds
<1> QED
  BY <1>2, <1>3, <1>4, <1>5, <1>6, <1>7, <1>8, <1>9 DEF Next

(* A step that leaves alone the atom and what the workers received. *)
LEMMA AtomAlone ==
  ASSUME AtomHolds, UNCHANGED <<got, atomVal, failed>>,
         \A w \in 1..Workers : hold'[Worker(w)] = hold[Worker(w)]
  PROVE  AtomHolds'
<1>1. \A w \in 1..Workers : \A x : Holds(Worker(w), x)' <=> Holds(Worker(w), x)
  BY DEF Holds
<1>2. Pending' = Pending
  BY <1>1 DEF Pending
<1> QED
  BY <1>1, <1>2 DEF AtomHolds

LEMMA AtomStep ==
  TypeOK /\ BufferInOrder /\ Conserved /\ AtomLocked /\ AtomHolds /\ [Next]_vars => AtomHolds'
<1> SUFFICES ASSUME TypeOK, BufferInOrder, Conserved, AtomLocked, AtomHolds, [Next]_vars
             PROVE  AtomHolds'
  OBVIOUS
<1>2. ASSUME NEW s \in 1..Sources, Produce(s) \/ CloseSource(s) \/ MergeEnds(s) PROVE AtomHolds'
  BY <1>2, AtomAlone DEF Produce, CloseSource, MergeEnds, atom
<1>3. ASSUME NEW s \in 1..Sources, MergeReceives(s) PROVE AtomHolds'
  <2>1. \A g \in Procs : g # Merge(s) => hold'[g] = hold[g]
    BY <1>3 DEF MergeReceives, TypeOK
  <2> QED
    BY <1>3, <2>1, AtomAlone, ProcsDiffer, ProcsTyped DEF MergeReceives, atom
<1>4. CASE FanInCloses \/ FanOutReturns \/ UNCHANGED vars
  BY <1>4, AtomAlone DEF FanInCloses, FanOutReturns, vars, atom
<1>5. ASSUME NEW g \in Procs, NEW h \in Procs, HandOver(g, h) PROVE AtomHolds'
  <2>1. PICK x \in AllItems :
          /\ hold[g] = <<x>> /\ hold[h] = <<>> /\ g # h
          /\ \A k \in Procs : k # g /\ k # h => hold'[k] = hold[k]
          /\ \A k \in Procs : \A y :
               Holds(k, y)' <=> (k # g /\ Holds(k, y)) \/ (k = h /\ y = x)
    BY <1>5, OneItemMoves
  <2>2. \A w \in 1..Workers : Worker(w) # g /\ Worker(w) \in Procs
    BY <1>5, ProcsTyped DEF HandOver, Sending
  <2>3. CASE \A w \in 1..Workers : Worker(w) # h
    <3>1. got' = got /\ UNCHANGED <<atomVal, failed>>
      BY <1>5, <2>3, ProcsTyped DEF HandOver, atom
    <3> QED
      BY <2>1, <2>2, <2>3, <3>1, AtomAlone
  <2>4. ASSUME NEW w \in 1..Workers, Worker(w) = h PROVE AtomHolds'
    <3>1. got' = got \o <<x>> /\ UNCHANGED <<atomVal, failed>>
      BY <1>5, <2>1, <2>4, ProcsTyped DEF HandOver, atom
    <3>2. Range(got)' = Range(got) \cup {x}
      BY <3>1, GotGrows DEF TypeOK
    <3>3. g \in StageProcs
      <4>1. h \notin StageProcs
        BY <2>4, ProcsDiffer, ProcsTyped
      <4>2. StageToWorker(g, h)
        <5>1. \A i \in 1..Stages : i + 1 <= Stages => i + 1 \in 1..Stages
          OBVIOUS
        <5>2. 1 \in 1..Stages
          BY FlowAssumption
        <5> QED
          <6>1. ~MergeToStage(g, h)
            BY <4>1, <5>2, ProcsTyped DEF MergeToStage
          <6>2. ~StageToStage(g, h)
            BY <4>1, <5>1, ProcsTyped DEF StageToStage
          <6> QED
            BY <1>5, <6>1, <6>2, HandOverForms
      <4>3. Stages \in 1..Stages /\ \A v \in 1..Workers : LineOf(v) \in 1..Workers
        BY FlowAssumption, LineTyped
      <4> QED
        BY <4>2, <4>3, ProcsTyped DEF StageToWorker
    <3>4. x \notin Range(got)
      BY <2>1, <3>3 DEF Conserved, Holds
    <3>5. x \notin atomVal /\ x \notin failed /\ x \notin Pending
      BY <3>4 DEF AtomHolds
    <3>6. \A v \in 1..Workers : \A y : Holds(Worker(v), y)' <=> Holds(Worker(v), y) \/ (v = w /\ y = x)
      BY <2>1, <2>2, <2>4, ProcsDiffer
    <3>7. Pending' = Pending \cup {x}
      BY <3>6 DEF Pending
    <3>8. \A v, u \in 1..Workers, y \in AllItems :
            Holds(Worker(v), y)' /\ Holds(Worker(u), y)' => v = u
      BY <3>5, <3>6 DEF AtomHolds, Pending
    <3> QED
      BY <3>1, <3>2, <3>5, <3>7, <3>8 DEF AtomHolds
  <2> QED
    BY <2>3, <2>4
<1>6. ASSUME NEW l \in Lines, NEW i \in 1..Stages, StageEnds(l, i) PROVE AtomHolds'
  BY <1>6, AtomAlone DEF StageEnds, atom
<1>7. ASSUME NEW w \in 1..Workers, SwapLocks(w) \/ WorkerEnds(w) PROVE AtomHolds'
  BY <1>7, AtomAlone DEF SwapLocks, WorkerEnds, atom
<1>8. ASSUME NEW w \in 1..Workers, SwapStores(w) \/ SwapPanics(w) PROVE AtomHolds'
  <2>1. arg[w] = <<atomVal>> /\ hold[Worker(w)] # <<>>
    BY <1>8 DEF SwapStores, SwapPanics, AtomLocked
  <2>2. PICK x \in AllItems : hold[Worker(w)] = <<x>>
    BY <2>1, ProcsTyped DEF TypeOK, Holding
  <2>3. /\ Range(hold[Worker(w)]) = {x} /\ Head(arg[w]) = atomVal
    BY <2>1, <2>2, RangeOfOne
  <2>4. /\ hold'[Worker(w)] = <<>> /\ got' = got
        /\ \A g \in Procs : g # Worker(w) => hold'[g] = hold[g]
    BY <1>8, SwapEnds
  <2>5. \A v \in 1..Workers : \A y : Holds(Worker(v), y)' <=> Holds(Worker(v), y) /\ v # w
    <3> SUFFICES ASSUME NEW v \in 1..Workers, NEW y
                 PROVE  hold'[Worker(v)] = <<y>> <=> hold[Worker(v)] = <<y>> /\ v # w
      BY DEF Holds
    <3>1. CASE v = w
      BY <2>4, <3>1
    <3>2. CASE v # w
      BY <2>4, <3>2, ProcsDiffer, ProcsTyped
    <3> QED
      BY <3>1, <3>2
  <2>6. Pending' = Pending \ {x} /\ x \in Pending
    <3>1. \A y : Holds(Worker(w), y) <=> y = x
      BY <2>2 DEF Holds
    <3>2. \A v \in 1..Workers : Holds(Worker(v), x) => v = w
      BY <3>1 DEF AtomHolds
    <3> QED
      BY <2>5, <3>1, <3>2 DEF Pending
  <2>7. \A v, u \in 1..Workers, y \in AllItems :
          Holds(Worker(v), y)' /\ Holds(Worker(u), y)' => v = u
    BY <2>5 DEF AtomHolds
  <2>8. CASE SwapStores(w)
    <3>1. atomVal' = atomVal \cup {x} /\ failed' = failed
      BY <2>3, <2>8 DEF SwapStores
    <3> QED
      BY <2>4, <2>6, <2>7, <3>1 DEF AtomHolds
  <2>9. CASE SwapPanics(w)
    <3>1. atomVal' = atomVal /\ failed' = failed \cup {x}
      BY <2>3, <2>9 DEF SwapPanics
    <3> QED
      BY <2>4, <2>6, <2>7, <3>1 DEF AtomHolds
  <2> QED
    BY <1>8, <2>8, <2>9
<1> QED
  BY <1>2, <1>3, <1>4, <1>5, <1>6, <1>7, <1>8 DEF Next

-------------------------------------------------------------------------------
LEMMA Invariance == Spec => []Inv
<1>1. Inv /\ [Next]_vars => Inv'
  BY TypeStep, GroupsStep, EndsStep, BufferStep, ConservedStep, LockedStep, AtomStep, LineStep
  DEF Inv
<1> QED
  BY InitInv, <1>1, PTL DEF Spec

(* The types of Flow's variables, the bounds of the WaitGroups and of the  *)
(* sources' buffers among them.                                            *)
THEOREM TypeCorrect == Spec => []TypeOK
<1>1. Inv => TypeOK
  BY DEF Inv
<1> QED
  BY Invariance, <1>1, PTL

(* fan-in's close and the deferred closes of the stages come after the     *)
(* last send: no goroutine that has a value to send finds its channel      *)
(* closed, which would panic, for any number of sources, stages and        *)
(* workers.                                                                *)
THEOREM NoSendAfterClose == Spec => []NoSendOnClosed
<1>1. Inv => NoSendOnClosed
  <2> SUFFICES ASSUME EndsPassOn, NEW g \in Procs, Sending(g) PROVE To(g) \notin closed
    BY DEF Inv, NoSendOnClosed
  <2>1. g \notin ended /\ (g \in Merges \/ g \in StageProcs)
    BY DEF Sending, Live, Procs
  <2>2. ASSUME NEW s \in 1..Sources, g = Merge(s) PROVE To(g) \notin closed
    BY <2>1, <2>2, Ends DEF EndsPassOn
  <2>3. ASSUME NEW l \in 1..Workers, NEW i \in 1..Stages, g = Stage(l, i) PROVE To(g) \notin closed
    BY <2>1, <2>3, Ends DEF EndsPassOn
  <2> QED
    BY <2>1, <2>2, <2>3, ProcsTyped
<1> QED
  BY Invariance, <1>1, PTL

(* One pipeline keeps the order of each source, whatever the number of its *)
(* stages and of the workers that take from its end.                       *)
THEOREM SourcesKeepOrder == Spec => []SourceOrder
<1>1. Inv => SourceOrder
  BY DEF Inv
<1> QED
  BY Invariance, <1>1, PTL

(* swap! under the atom's mutex loses no update: the atom holds what was   *)
(* received, less what failed or is still in a worker's hands.             *)
THEOREM SwapLosesNothing == Spec => []SwapAtomic
<1>1. Inv => SwapAtomic
  <2> SUFFICES ASSUME TypeOK, AtomHolds PROVE SwapAtomic
    BY DEF Inv
  <2>1. UNION { Range(hold[g]) : g \in WorkProcs } = Pending
    <3>1. \A g \in WorkProcs : \A x : x \in Range(hold[g]) <=> x \in AllItems /\ Holds(g, x)
      <4> SUFFICES ASSUME NEW g \in WorkProcs, NEW x
                   PROVE  x \in Range(hold[g]) <=> x \in AllItems /\ hold[g] = <<x>>
        BY DEF Holds
      <4>1. hold[g] \in Holding
        BY DEF TypeOK, Procs
      <4>2. CASE hold[g] = <<>>
        BY <4>2, RangeOfOne
      <4>3. ASSUME NEW y \in AllItems, hold[g] = <<y>>
            PROVE  x \in Range(hold[g]) <=> x \in AllItems /\ hold[g] = <<x>>
        BY <4>3, RangeOfOne
      <4> QED
        BY <4>1, <4>2, <4>3 DEF Holding
    <3> QED
      BY <3>1, ProcsTyped DEF Pending
  <2> QED
    BY <2>1 DEF AtomHolds, SwapAtomic
<1> QED
  BY Invariance, <1>1, PTL

(* When fan-out returns nothing is left behind: every goroutine has ended, *)
(* every value has been received, and the atom holds all that did not fail. *)
THEOREM FanOutLeavesNothing == Spec => []FanOutComplete
<1>1. Inv => FanOutComplete
  <2> SUFFICES ASSUME Inv, main = "done"
               PROVE  /\ Range(got) = AllItems /\ atomVal = AllItems \ failed
                      /\ ended = Procs
    BY DEF FanOutComplete
  <2> USE DEF Inv
  <2>1. /\ Stages \in 1..Stages /\ 1 \in 1..Workers
        /\ \A w \in 1..Workers : LineOf(w) \in 1..Workers
    BY FlowAssumption, LineTyped
  <2>2. \A w \in 1..Workers : Worker(w) \in ended /\ Pipe(LineOf(w), Stages) \in closed
    BY Ends DEF EndsPassOn
  <2>3. \A l \in Lines : Stage(l, Stages) \in ended
    BY <2>1, <2>2 DEF EndsPassOn, Lines, LineOf
  <2>4. \A l \in Lines : l \in 1..Workers
    BY <2>1 DEF Lines
  <2>5. Merged \in closed /\ \A l \in 1..Workers, i \in 1..Stages : Stage(l, i) \in ended
    <3>1. \A l \in Lines : Merged \in closed /\ \A i \in 1..Stages : Stage(l, i) \in ended
      BY <2>1, <2>3, <2>4 DEF EndsPassOn
    <3>2. 1 \in Lines
      BY <2>1 DEF Lines
    <3> QED
      BY <3>1, <3>2 DEF EndsPassOn
  <2>6. \A s \in 1..Sources : Merge(s) \in ended /\ hold[Merge(s)] = <<>> /\ buf[s] = <<>> /\ sent[s] = Items
    BY <2>5 DEF EndsPassOn
  <2>7. ended = Procs
    BY <2>2, <2>5, <2>6, ProcsTyped DEF TypeOK, Procs
  <2>8. \A g \in Procs, x \in AllItems : ~Holds(g, x)
    BY <2>7 DEF EndsPassOn, Holds
  <2>9. \A s \in 1..Sources : Passed(s) = Items
    BY <2>6, FlowAssumption DEF Passed, Taken
  <2>10. AllItems \subseteq Range(got)
    <3> SUFFICES ASSUME NEW x \in AllItems PROVE x \in Range(got)
      OBVIOUS
    <3>1. Onward(x)
      <4>1. x[1] \in 1..Sources /\ x[2] \in 1..Items /\ x = Item(x[1], x[2])
        BY ItemParts
      <4>2. x[2] <= Passed(x[1])
        BY <2>9, <4>1, FlowAssumption
      <4> QED
        BY <4>1, <4>2 DEF Conserved
    <3> QED
      BY <2>8, <3>1 DEF Onward, Procs
  <2>11. Pending = {}
    BY <2>8, ProcsTyped DEF Pending
  <2>12. Range(got) \subseteq AllItems
    BY DEF TypeOK, Range
  <2>13. Range(got) = AllItems
    BY <2>10, <2>12
  <2>14. atomVal = AllItems \ failed
    BY <2>11, <2>13 DEF AtomHolds
  <2> QED
    BY <2>7, <2>13, <2>14
<1> QED
  BY Invariance, <1>1, PTL

-------------------------------------------------------------------------------
(* Deadlock freedom.  Who waits for the atom waits for a worker that is in *)
(* the function; and a stage that has returned has closed its channel.     *)
Waits ==
  /\ atomLock # 0 => arg[atomLock] # <<>>
  /\ \A l \in Lines, i \in 1..Stages : Stage(l, i) \in ended => Pipe(l, i) \in closed

LEMMA WaitsInit == Init => Waits
<1> SUFFICES ASSUME Init PROVE Waits
  OBVIOUS
<1>1. atomLock = 0
  BY DEF Init
<1>2. ASSUME NEW l \in Lines, NEW i \in 1..Stages PROVE Stage(l, i) \notin ended
  BY ProcsDiffer DEF Init
<1> QED
  BY <1>1, <1>2 DEF Waits

LEMMA WaitsStep == TypeOK /\ Waits /\ [Next]_vars => Waits'
<1> SUFFICES ASSUME TypeOK, Waits, [Next]_vars PROVE Waits'
  OBVIOUS
<1> USE FlowAssumption
<1>1. Lines' = Lines
  BY DEF Lines, Next, vars, Produce, CloseSource, MergeReceives, MergeEnds, FanInCloses, HandOver,
         StageEnds, SwapLocks, SwapStores, SwapPanics, WorkerEnds, FanOutReturns
<1>2. atomLock' # 0 => arg'[atomLock'] # <<>>
  <2>1. CASE UNCHANGED atom
    BY <2>1 DEF Waits, atom
  <2>2. ASSUME NEW w \in 1..Workers, SwapLocks(w) PROVE atomLock' # 0 => arg'[atomLock'] # <<>>
    BY <2>2 DEF SwapLocks, TypeOK
  <2>3. ASSUME NEW w \in 1..Workers, SwapStores(w) \/ SwapPanics(w) PROVE atomLock' = 0
    BY <2>3 DEF SwapStores, SwapPanics
  <2>4. UNCHANGED atom \/ \E w \in 1..Workers : SwapLocks(w) \/ SwapStores(w) \/ SwapPanics(w)
    BY DEF Next, vars, Produce, CloseSource, MergeReceives, MergeEnds, FanInCloses, HandOver,
           StageEnds, WorkerEnds, FanOutReturns
  <2> QED
    BY <2>1, <2>2, <2>3, <2>4
<1>3. ASSUME NEW l \in Lines, NEW i \in 1..Stages, Stage(l, i) \in ended'
      PROVE  Pipe(l, i) \in closed'
  <2>1. CASE Stage(l, i) \in ended
    <3>1. closed \subseteq closed'
      BY DEF Next, vars, groups, Produce, CloseSource, MergeReceives, MergeEnds, FanInCloses, HandOver,
             StageEnds, SwapLocks, SwapStores, SwapPanics, WorkerEnds, FanOutReturns
    <3> QED
      BY <2>1, <3>1 DEF Waits
  <2>2. CASE Stage(l, i) \notin ended
    <3>1. PICK m \in Lines, j \in 1..Stages : StageEnds(m, j) /\ Stage(m, j) = Stage(l, i)
      <4>1. ASSUME NEW m \in Lines, NEW j \in 1..Stages, StageEnds(m, j) PROVE Stage(m, j) = Stage(l, i)
        BY <1>3, <2>2, <4>1 DEF StageEnds
      <4>2. ASSUME NEW s \in 1..Sources, MergeEnds(s) PROVE FALSE
        BY <1>3, <2>2, <4>2, ProcsDiffer DEF MergeEnds
      <4>3. ASSUME NEW w \in 1..Workers, WorkerEnds(w) PROVE FALSE
        BY <1>3, <2>2, <4>3, ProcsDiffer DEF WorkerEnds
      <4>4. CASE UNCHANGED ended
        BY <1>3, <2>2, <4>4
      <4> QED
        BY <4>1, <4>2, <4>3, <4>4 DEF Next, vars, Produce, CloseSource, MergeReceives, FanInCloses,
           HandOver, SwapLocks, SwapStores, SwapPanics, FanOutReturns
    <3>2. m = l /\ j = i
      BY <3>1, ProcsDiffer
    <3> QED
      BY <3>1, <3>2 DEF StageEnds
  <2> QED
    BY <2>1, <2>2
<1> QED
  BY <1>1, <1>2, <1>3 DEF Waits

LEMMA LeastOf ==
  ASSUME NEW S \in SUBSET Nat, S # {}
  PROVE  \E x \in S : \A y \in S : x <= y
<1>1. PICK x \in S : \A y \in S : ~ (<<y, x>> \in OpToRel(<, Nat))
  BY NatLessThanWellFounded, WFMin
<1>2. ASSUME NEW y \in S, ~(x <= y) PROVE FALSE
  <2>1. x \in Nat /\ y \in Nat /\ y < x
    BY <1>2
  <2>2. <<y, x>> \in OpToRel(<, Nat)
    BY <2>1 DEF OpToRel
  <2> QED
    BY <1>1, <2>2
<1> QED
  BY <1>2

(* A line whose last stage has not returned, with a worker that can take   *)
(* from it: some stage can pass its value on or return, unless all of them *)
(* wait for the merged channel.                                            *)
Waiting(l, i) == Stage(l, i) \notin ended /\ hold[Stage(l, i)] = <<>>

LEMMA StageUnblocks ==
  ASSUME TypeOK, EndsPassOn, Waits, NEW l \in Lines, NEW i \in 1..Stages, NEW h \in Procs,
         Receiving(h), h \notin Merges, From(h) = Pipe(l, i), Pipe(l, i) \notin closed, ~Unblocked
  PROVE  Waiting(l, i) /\ Pipe(l, i - 1) \notin closed
<1> USE FlowAssumption
<1>1. l \in 1..Workers /\ Stage(l, i) \in Procs /\ Stage(l, i) \in StageProcs
  BY ProcsTyped DEF Lines
<1>2. Stage(l, i) \notin ended
  BY DEF Waits
<1>3. Stage(l, i) \notin WorkProcs /\ To(Stage(l, i)) = Pipe(l, i)
  BY <1>1, ProcsDiffer, ProcsTyped, Ends
<1>4. hold[Stage(l, i)] = <<>>
  <2> SUFFICES ASSUME hold[Stage(l, i)] # <<>> PROVE FALSE
    OBVIOUS
  <2>1. Sending(Stage(l, i))
    BY <1>2, <1>3 DEF Sending, Live
  <2> QED
    BY <1>1, <1>3, <2>1 DEF Unblocked
<1>5. Pipe(l, i - 1) \notin closed
  BY <1>2, <1>4 DEF Unblocked, Receiving, Live
<1> QED
  BY <1>2, <1>4, <1>5 DEF Waiting

LEMMA LineUnblocks ==
  ASSUME TypeOK, EndsPassOn, Waits, NEW w \in 1..Workers, Receiving(Worker(w)), ~Unblocked
  PROVE  Merged \notin closed /\ \E l \in Lines : Waiting(l, 1)
<1> USE FlowAssumption
<1> DEFINE l == LineOf(w)
<1>1. l \in Lines /\ l \in 1..Workers
  BY DEF Lines, LineOf
<1>2. /\ Worker(w) \in Procs /\ Worker(w) \in WorkProcs /\ Worker(w) \notin Merges
      /\ From(Worker(w)) = Pipe(l, Stages)
  BY ProcsTyped, ProcsDiffer, Ends
<1>3. Pipe(l, Stages) \notin closed
  BY <1>2 DEF Unblocked
<1> DEFINE Dry == { i \in 1..Stages : Waiting(l, i) /\ Pipe(l, i - 1) \notin closed }
<1>4. Stages \in Dry
  BY <1>1, <1>2, <1>3, StageUnblocks
<1>5. \A i \in Dry : i = 1 \/ i - 1 \in Dry
  <2> SUFFICES ASSUME NEW i \in Dry, i # 1 PROVE i - 1 \in Dry
    OBVIOUS
  <2>1. i - 1 \in 1..Stages /\ i \in 1..Stages
    OBVIOUS
  <2>2. /\ Stage(l, i) \in Procs /\ Stage(l, i) \in StageProcs /\ Stage(l, i) \notin Merges
        /\ From(Stage(l, i)) = Pipe(l, i - 1)
    BY <1>1, <2>1, ProcsTyped, ProcsDiffer, Ends
  <2>3. Receiving(Stage(l, i))
    BY DEF Waiting, Receiving, Live
  <2>4. Waiting(l, i - 1) /\ Pipe(l, (i - 1) - 1) \notin closed
    BY <1>1, <2>1, <2>2, <2>3, StageUnblocks
  <2> QED
    BY <2>1, <2>4
<1>6. PICK i \in Dry : \A j \in Dry : i <= j
  <2>1. Dry \in SUBSET Nat /\ Dry # {}
    BY <1>4
  <2> QED
    BY <2>1, LeastOf
<1>7. i = 1
  <2> SUFFICES ASSUME i # 1 PROVE FALSE
    OBVIOUS
  <2>1. i - 1 \in Dry
    BY <1>5
  <2> QED
    BY <1>6, <2>1
<1>8. Pipe(l, 0) \notin closed /\ Waiting(l, 1)
  BY <1>7
<1> QED
  BY <1>1, <1>8, Ends

LEMMA Progress == Inv /\ Waits => NobodyStuck
<1> SUFFICES ASSUME Inv, Waits, main = "waiting", ~Unblocked PROVE FALSE
  BY DEF NobodyStuck
<1> USE FlowAssumption DEF Inv
<1>1. \A w \in 1..Workers : arg[w] = <<>>
  BY DEF Unblocked
<1>2. atomLock = 0
  BY <1>1 DEF Waits, TypeOK
<1>3. \A w \in 1..Workers : hold[Worker(w)] = <<>>
  BY <1>2 DEF Unblocked
<1>4. PICK w \in 1..Workers : Worker(w) \notin ended
  <2> SUFFICES ASSUME \A w \in 1..Workers : Worker(w) \in ended PROVE FALSE
    OBVIOUS
  <2>1. LiveWorkers = {}
    BY DEF LiveWorkers
  <2>2. fanOutLeft = 0
    BY <2>1, FS_EmptySet DEF GroupsCount
  <2> QED
    BY <2>2 DEF Unblocked
<1>5. Receiving(Worker(w))
  BY <1>3, <1>4 DEF Receiving, Live
<1>6. PICK l \in Lines : Merged \notin closed /\ Waiting(l, 1)
  BY <1>5, LineUnblocks
<1>7. /\ 1 \in 1..Stages /\ l \in 1..Workers
      /\ Stage(l, 1) \in Procs /\ Stage(l, 1) \notin Merges /\ Receiving(Stage(l, 1))
      /\ From(Stage(l, 1)) = Merged
  <2>1. 1 \in 1..Stages /\ l \in 1..Workers
    BY DEF Lines
  <2>2. From(Stage(l, 1)) = Pipe(l, 0)
    BY Ends
  <2> QED
    BY <1>6, <2>1, <2>2, ProcsTyped, ProcsDiffer, Ends DEF Waiting, Receiving, Live
<1>8. \A s \in 1..Sources : Merge(s) \in ended
  <2> SUFFICES ASSUME NEW s \in 1..Sources, Merge(s) \notin ended PROVE FALSE
    OBVIOUS
  <2>1. Merge(s) \in Procs /\ Merge(s) \notin WorkProcs /\ To(Merge(s)) = Merged
    BY ProcsTyped, ProcsDiffer, Ends
  <2>2. hold[Merge(s)] = <<>>
    <3> SUFFICES ASSUME hold[Merge(s)] # <<>> PROVE FALSE
      OBVIOUS
    <3>1. Sending(Merge(s))
      BY <2>1 DEF Sending, Live
    <3> QED
      BY <1>6, <1>7, <2>1, <3>1 DEF Unblocked
  <2>3. Receiving(Merge(s))
    BY <2>2 DEF Receiving, Live
  <2>4. buf[s] = <<>> /\ s \notin sourceClosed
    BY <2>3 DEF Unblocked
  <2>5. sent[s] # Items
    BY <2>4 DEF Unblocked
  <2>6. sent[s] < Items /\ Len(buf[s]) < SourceCap
    BY <2>4, <2>5 DEF TypeOK
  <2> QED
    BY <2>6 DEF Unblocked
<1>9. fanInLeft = 0
  <2>1. LiveMerges = {}
    BY <1>8 DEF LiveMerges
  <2> QED
    BY <2>1, FS_EmptySet DEF GroupsCount
<1> QED
  BY <1>6, <1>9 DEF Unblocked

(* No deadlock, for any number of sources, stages and workers and any      *)
(* capacity: as long as fan-out waits, some goroutine is not blocked.      *)
THEOREM NoDeadlock == Spec => []NobodyStuck
<1>1. Inv /\ Waits /\ [Next]_vars => Waits'
  BY WaitsStep DEF Inv
<1> QED
  BY Invariance, WaitsInit, <1>1, Progress, PTL DEF Spec

-------------------------------------------------------------------------------
(* Every step counts.  Kept: no milestone is taken back, kind by kind.     *)
Kept ==
  /\ \A s \in 1..Sources : sent[s] <= sent'[s] /\ Taken(s) <= Taken(s)'
  /\ \A x \in AllItems : \A i \in 1..Stages : Entered(x, i) => Entered(x, i)'
  /\ Range(got) \subseteq Range(got')
  /\ \A x \in AllItems : /\ Called(x) \/ Over(x) => (Called(x) \/ Over(x))'
                         /\ Over(x) => Over(x)'
  /\ sourceClosed \subseteq sourceClosed' /\ closed \subseteq closed' /\ ended \subseteq ended'
  /\ main = "done" => main' = "done"

Counts == Achieved \subseteq Achieved' /\ Achieved # Achieved'

LEMMA KeptCounts ==
  ASSUME TypeOK, TypeOK', Kept, NEW m \in Milestones, ~Reached(m), Reached(m)'
  PROVE  Counts
<1>1. ASSUME NEW k \in Milestones, Reached(k) PROVE Reached(k)'
  <2>1. CASE k[1] \in {"sent", "taken"}
    <3>1. k[2] \in AllItems
      BY <2>1 DEF Milestones
    <3>2. k[2][1] \in 1..Sources /\ k[2][2] \in Nat
      BY <3>1, ItemParts
    <3>a. /\ sent[k[2][1]] \in Nat /\ sent'[k[2][1]] \in Nat
          /\ buf[k[2][1]] \in Seq(AllItems) /\ buf'[k[2][1]] \in Seq(AllItems)
      BY <3>2, FlowAssumption DEF TypeOK
    <3>3. /\ sent[k[2][1]] \in Nat /\ sent'[k[2][1]] \in Nat
          /\ Len(buf[k[2][1]]) \in Nat /\ Len(buf'[k[2][1]]) \in Nat
      BY <3>a
    <3>4. /\ sent[k[2][1]] <= sent'[k[2][1]]
          /\ sent[k[2][1]] - Len(buf[k[2][1]]) <= sent'[k[2][1]] - Len(buf'[k[2][1]])
      BY <3>2 DEF Kept, Taken
    <3>5. CASE k[1] = "sent"
      BY <1>1, <3>2, <3>3, <3>4, <3>5 DEF Reached
    <3>6. CASE k[1] = "taken"
      <4>1. Reached(k) <=> k[2][2] <= sent[k[2][1]] - Len(buf[k[2][1]])
        BY <3>6 DEF Reached
      <4>2. Reached(k)' <=> k[2][2] <= sent'[k[2][1]] - Len(buf'[k[2][1]])
        BY <3>6 DEF Reached
      <4>3. k[2][2] <= sent[k[2][1]] - Len(buf[k[2][1]])
        BY <1>1, <4>1
      <4>4. k[2][2] <= sent'[k[2][1]] - Len(buf'[k[2][1]])
        <5> DEFINE a == sent[k[2][1]] - Len(buf[k[2][1]])
                   b == sent'[k[2][1]] - Len(buf'[k[2][1]])
        <5>1. a \in Int /\ b \in Int /\ a <= b
          BY <3>3, <3>4
        <5>2. k[2][2] <= a
          BY <4>3
        <5> HIDE DEF a, b
        <5>3. k[2][2] <= b
          BY <3>2, <5>1, <5>2
        <5> QED
          BY <5>3 DEF b
      <4> QED
        BY <4>2, <4>4
    <3> QED
      BY <2>1, <3>5, <3>6
  <2>2. CASE k[1] = "entered"
    <3>1. k[2] \in AllItems /\ k[3] \in 1..Stages
      BY <2>2 DEF Milestones
    <3> QED
      BY <1>1, <2>2, <3>1 DEF Reached, Kept
  <2>3. CASE k[1] \in {"called", "over"}
    <3>1. k[2] \in AllItems
      BY <2>3 DEF Milestones
    <3> QED
      BY <1>1, <2>3, <3>1 DEF Reached, Kept
  <2>4. CASE k[1] \in {"got", "source", "pipe", "ended", "main"}
    <3>1. CASE k[1] = "got"
      BY <1>1, <3>1 DEF Reached, Kept
    <3>2. CASE k[1] = "source"
      <4>1. Reached(k) <=> k[2] \in sourceClosed
        BY <3>2 DEF Reached
      <4>2. Reached(k)' <=> k[2] \in sourceClosed'
        BY <3>2 DEF Reached
      <4> QED
        BY <1>1, <4>1, <4>2 DEF Kept
    <3>3. CASE k[1] = "pipe"
      BY <1>1, <3>3 DEF Reached, Kept
    <3>4. CASE k[1] = "ended"
      BY <1>1, <3>4 DEF Reached, Kept
    <3>5. CASE k[1] = "main"
      BY <1>1, <3>5 DEF Reached, Kept
    <3> QED
      BY <2>4, <3>1, <3>2, <3>3, <3>4, <3>5
  <2>5. k[1] \in {"sent", "taken", "entered", "called", "over", "got", "source", "pipe", "ended", "main"}
    BY DEF Milestones
  <2> QED
    BY <2>1, <2>2, <2>3, <2>4, <2>5
<1>2. Milestones' = Milestones
  BY DEF Milestones
<1> QED
  BY <1>1, <1>2 DEF Achieved, Counts

(* What a step leaves alone it does not take back. *)
LEMMA KeptSources ==
  ASSUME TypeOK, UNCHANGED <<sent, buf>>, NEW s \in 1..Sources
  PROVE  sent[s] <= sent'[s] /\ Taken(s) <= Taken(s)'
<1>1. sent[s] \in Nat /\ buf[s] \in Seq(AllItems)
  BY FlowAssumption DEF TypeOK
<1>2. Len(buf[s]) \in Nat
  BY <1>1
<1> QED
  BY <1>1, <1>2 DEF Taken

LEMMA KeptEntered ==
  ASSUME UNCHANGED got, \A l \in 1..Workers, i \in 1..Stages : hold'[Stage(l, i)] = hold[Stage(l, i)],
         NEW x \in AllItems, NEW i \in 1..Stages, Entered(x, i)
  PROVE  Entered(x, i)'
<1>1. ASSUME NEW l \in 1..Workers, NEW j \in i..Stages, hold[Stage(l, j)] = <<x>>
      PROVE  hold'[Stage(l, j)] = <<x>>
  <2>1. j \in 1..Stages
    BY FlowAssumption
  <2> QED
    BY <1>1, <2>1
<1> QED
  BY <1>1 DEF Entered

LEMMA KeptCalled ==
  ASSUME UNCHANGED <<arg, atomVal, failed>>,
         \A w \in 1..Workers : arg[w] # <<>> => hold'[Worker(w)] = hold[Worker(w)],
         NEW x \in AllItems
  PROVE  /\ Called(x) \/ Over(x) => (Called(x) \/ Over(x))'
         /\ Over(x) => Over(x)'
BY DEF Called, Over

-------------------------------------------------------------------------------
(* What each action adds. *)

LEMMA ProduceCounts ==
  ASSUME Inv, TypeOK', NEW s \in 1..Sources, Produce(s)
  PROVE  Counts
<1> USE FlowAssumption
<1>1. /\ sent[s] \in Nat /\ sent[s] + 1 \in 1..Items /\ buf[s] \in Seq(AllItems)
      /\ \A t \in 1..Sources : sent[t] \in Nat /\ buf[t] \in Seq(AllItems)
  BY DEF Inv, TypeOK, Produce
<1>2. PICK x \in AllItems : x[1] = s /\ x[2] = sent[s] + 1
  BY <1>1, ItemParts
<1>3. /\ sent'[s] = sent[s] + 1 /\ Len(buf'[s]) = Len(buf[s]) + 1
      /\ \A t \in 1..Sources : t # s => sent'[t] = sent[t] /\ buf'[t] = buf[t]
  <2>1. buf'[s] = Append(buf[s], Item(s, sent[s] + 1)) /\ sent'[s] = sent[s] + 1
    BY DEF Inv, TypeOK, Produce
  <2>2. Len(Append(buf[s], Item(s, sent[s] + 1))) = Len(buf[s]) + 1
    BY <1>1
  <2> QED
    BY <2>1, <2>2 DEF Inv, TypeOK, Produce
<1>4. \A t \in 1..Sources : Len(buf[t]) \in Nat
  BY <1>1
<1>5. Kept
  <2>1. ASSUME NEW t \in 1..Sources PROVE sent[t] <= sent'[t] /\ Taken(t) <= Taken(t)'
    <3>1. CASE t = s
      BY <1>1, <1>3, <1>4, <3>1 DEF Taken
    <3>2. CASE t # s
      BY <1>1, <1>3, <1>4, <3>2 DEF Taken
    <3> QED
      BY <3>1, <3>2
  <2>2. UNCHANGED <<hold, got, arg, atomVal, failed, sourceClosed, closed, ended, main>>
    BY DEF Produce, groups, atom
  <2> QED
    BY <2>1, <2>2, KeptEntered, KeptCalled DEF Kept
<1>6. <<"sent", x>> \in Milestones
  BY <1>2 DEF Milestones
<1>7. ~Reached(<<"sent", x>>) /\ Reached(<<"sent", x>>)'
  <2>1. ~(x[2] <= sent[x[1]]) /\ x[2] <= sent'[x[1]]
    BY <1>1, <1>2, <1>3
  <2> QED
    BY <2>1 DEF Reached
<1> QED
  BY <1>5, <1>6, <1>7, KeptCounts DEF Inv

LEMMA CloseSourceCounts ==
  ASSUME Inv, TypeOK', NEW s \in 1..Sources, CloseSource(s)
  PROVE  Counts
<1>1. Kept
  <2>1. UNCHANGED <<sent, buf, hold, got, arg, atomVal, failed, closed, ended, main>>
    BY DEF CloseSource, groups, atom
  <2>2. sourceClosed \subseteq sourceClosed'
    BY DEF CloseSource
  <2> QED
    BY <2>1, <2>2, KeptSources, KeptEntered, KeptCalled DEF Kept, Inv
<1>2. <<"source", s>> \in Milestones
  BY DEF Milestones
<1>3. ~Reached(<<"source", s>>) /\ Reached(<<"source", s>>)'
  BY DEF CloseSource, Reached
<1> QED
  BY <1>1, <1>2, <1>3, KeptCounts DEF Inv

LEMMA MergeReceivesCounts ==
  ASSUME Inv, TypeOK', NEW s \in 1..Sources, MergeReceives(s)
  PROVE  Counts
<1> USE FlowAssumption
<1>1. \A t \in 1..Sources : sent[t] \in Nat /\ sent[t] <= Items /\ buf[t] \in Seq(AllItems)
  BY DEF Inv, TypeOK
<1>2. \A t \in 1..Sources : Len(buf[t]) \in Nat
  BY <1>1
<1>3. Len(buf[s]) > 0 /\ Len(buf[s]) <= sent[s]
  BY <1>1 DEF Inv, BufferInOrder, MergeReceives
<1>4. /\ UNCHANGED sent /\ Len(buf'[s]) = Len(buf[s]) - 1
      /\ \A t \in 1..Sources : t # s => buf'[t] = buf[t]
  <2>1. buf'[s] = Tail(buf[s]) /\ buf[s] # <<>>
    BY DEF Inv, TypeOK, MergeReceives
  <2>2. Len(Tail(buf[s])) = Len(buf[s]) - 1
    BY <1>1, <2>1
  <2> QED
    BY <2>1, <2>2 DEF Inv, TypeOK, MergeReceives
<1>5. Taken(s) + 1 \in 1..Items /\ Taken(s)' = Taken(s) + 1
  BY <1>1, <1>2, <1>3, <1>4 DEF Taken
<1>6. PICK x \in AllItems : x[1] = s /\ x[2] = Taken(s) + 1
  BY <1>5, ItemParts
<1>7. Kept
  <2>1. ASSUME NEW t \in 1..Sources PROVE sent[t] <= sent'[t] /\ Taken(t) <= Taken(t)'
    BY <1>1, <1>2, <1>4 DEF Taken
  <2>2. UNCHANGED <<got, arg, atomVal, failed, sourceClosed, closed, ended, main>>
    BY DEF MergeReceives, groups, atom
  <2>3. /\ \A l \in 1..Workers, i \in 1..Stages : hold'[Stage(l, i)] = hold[Stage(l, i)]
        /\ \A w \in 1..Workers : hold'[Worker(w)] = hold[Worker(w)]
    <3>1. DOMAIN hold = Procs
      BY DEF Inv, TypeOK
    <3>2. \A g \in Procs : g # Merge(s) => hold'[g] = hold[g]
      BY <3>1 DEF MergeReceives
    <3> QED
      BY <3>2, ProcsTyped, ProcsDiffer
  <2> QED
    BY <2>1, <2>2, <2>3, KeptEntered, KeptCalled DEF Kept
<1>8. <<"taken", x>> \in Milestones
  BY <1>6 DEF Milestones
<1>9. ~Reached(<<"taken", x>>) /\ Reached(<<"taken", x>>)'
  <2>1. /\ Taken(x[1]) \in Int /\ x[2] = Taken(x[1]) + 1 /\ Taken(x[1])' = Taken(x[1]) + 1
        /\ Taken(x[1]) = sent[x[1]] - Len(buf[x[1]])
        /\ Taken(x[1])' = sent'[x[1]] - Len(buf'[x[1]])
    BY <1>1, <1>2, <1>5, <1>6 DEF Taken
  <2>2. ~(x[2] <= sent[x[1]] - Len(buf[x[1]])) /\ x[2] <= sent'[x[1]] - Len(buf'[x[1]])
    BY <2>1
  <2> QED
    BY <2>2 DEF Reached
<1> QED
  BY <1>7, <1>8, <1>9, KeptCounts DEF Inv

LEMMA EndsCount ==
  ASSUME Inv, TypeOK', NEW g \in Procs, Live(g), ended' = ended \cup {g}, closed \subseteq closed',
         UNCHANGED <<sources, hold, main, atom, got, failed>>
  PROVE  Counts
<1>1. Kept
  <2>1. UNCHANGED <<sent, buf, sourceClosed, hold, got, arg, atomVal, failed, main>>
    BY DEF sources, atom
  <2>2. closed \subseteq closed' /\ ended \subseteq ended'
    OBVIOUS
  <2> QED
    BY <2>1, <2>2, KeptSources, KeptEntered, KeptCalled DEF Kept, Inv
<1>2. <<"ended", g>> \in Milestones
  BY DEF Milestones
<1>3. ~Reached(<<"ended", g>>) /\ Reached(<<"ended", g>>)'
  BY DEF Live, Reached
<1> QED
  BY <1>1, <1>2, <1>3, KeptCounts DEF Inv

LEMMA FanInClosesCounts ==
  ASSUME Inv, TypeOK', FanInCloses
  PROVE  Counts
<1>1. Kept
  <2>1. UNCHANGED <<sent, buf, sourceClosed, hold, got, arg, atomVal, failed, ended, main>>
    BY DEF FanInCloses, sources, atom
  <2>2. closed \subseteq closed'
    BY DEF FanInCloses
  <2> QED
    BY <2>1, <2>2, KeptSources, KeptEntered, KeptCalled DEF Kept, Inv
<1>2. Merged \in Pipes
  BY Ends, PipesTyped, FlowAssumption
<1>3. <<"pipe", Merged>> \in Milestones
  BY <1>2 DEF Milestones
<1>4. ~Reached(<<"pipe", Merged>>) /\ Reached(<<"pipe", Merged>>)'
  BY DEF FanInCloses, Reached
<1> QED
  BY <1>1, <1>3, <1>4, KeptCounts DEF Inv

LEMMA FanOutReturnsCounts ==
  ASSUME Inv, TypeOK', FanOutReturns
  PROVE  Counts
<1>1. Kept
  <2>1. UNCHANGED <<sent, buf, sourceClosed, hold, got, arg, atomVal, failed, ended, closed>>
    BY DEF FanOutReturns, sources, atom
  <2>2. main # "done" /\ main' = "done"
    BY DEF FanOutReturns
  <2> QED
    BY <2>1, <2>2, KeptSources, KeptEntered, KeptCalled DEF Kept, Inv
<1>2. <<"main">> \in Milestones
  BY DEF Milestones
<1>3. ~Reached(<<"main">>) /\ Reached(<<"main">>)'
  BY DEF FanOutReturns, Reached
<1> QED
  BY <1>1, <1>2, <1>3, KeptCounts DEF Inv

(* A value moves on: out of fan-in into a first stage, into the next       *)
(* stage, or to a worker.                                                  *)
LEMMA HandOverKeeps ==
  ASSUME Inv, NEW g \in Procs, NEW h \in Procs, HandOver(g, h)
  PROVE  Kept
<1> USE FlowAssumption
<1>1. UNCHANGED <<sent, buf, sourceClosed, arg, atomVal, failed, closed, ended, main>>
  BY DEF HandOver, sources, groups, atom
<1>2. PICK x \in AllItems :
        /\ hold[g] = <<x>> /\ hold[h] = <<>> /\ g # h
        /\ hold' = [hold EXCEPT ![h] = <<x>>, ![g] = <<>>]
        /\ \A k \in Procs : k # g /\ k # h => hold'[k] = hold[k]
  BY OneItemMoves DEF Inv
<1>3. hold'[h] = <<x>> /\ hold'[g] = <<>>
  BY <1>2 DEF Inv, TypeOK
<1>4. Range(got) \subseteq Range(got')
  <2>1. CASE h \in WorkProcs
    <3>1. got' = got \o <<x>>
      BY <1>2, <2>1 DEF HandOver
    <3> QED
      BY <3>1, GotGrows DEF Inv, TypeOK
  <2>2. CASE h \notin WorkProcs
    BY <2>2 DEF HandOver
  <2> QED
    BY <2>1, <2>2
<1>5. ASSUME NEW y \in AllItems, NEW i \in 1..Stages, Entered(y, i) PROVE Entered(y, i)'
  <2>1. CASE y \in Range(got)
    BY <1>4, <2>1 DEF Entered
  <2>2. ASSUME NEW l \in 1..Workers, NEW j \in i..Stages, hold[Stage(l, j)] = <<y>>
        PROVE  Entered(y, i)'
    <3>0. j \in 1..Stages /\ Stage(l, j) \in Procs
      BY ProcsTyped
    <3>1. CASE Stage(l, j) # g
      <4>1. Stage(l, j) # h
        <5>1. <<y>> # <<>>
          OBVIOUS
        <5> QED
          BY <1>2, <2>2, <5>1
      <4>2. hold'[Stage(l, j)] = <<y>>
        BY <1>2, <2>2, <3>0, <3>1, <4>1
      <4> QED
        BY <4>2 DEF Entered
    <3>2. CASE Stage(l, j) = g
      <4>1. y = x
        BY <1>2, <2>2, <3>2
      <4>2. CASE StageToStage(g, h)
        <5>1. h = Stage(l, j + 1) /\ j + 1 \in i..Stages
          BY <3>0, <3>2, <4>2, ProcsDiffer DEF StageToStage
        <5> QED
          BY <1>3, <4>1, <5>1 DEF Entered
      <4>3. CASE StageToWorker(g, h)
        <5>1. h \in WorkProcs
          BY <4>3, ProcsTyped DEF StageToWorker
        <5>2. got' = got \o <<x>>
          BY <1>2, <5>1 DEF HandOver
        <5>3. x \in Range(got')
          BY <5>2, GotGrows DEF Inv, TypeOK
        <5> QED
          BY <4>1, <5>3 DEF Entered
      <4>4. ~MergeToStage(g, h)
        BY <3>2, ProcsDiffer DEF MergeToStage
      <4> QED
        BY <4>2, <4>3, <4>4, HandOverForms
    <3> QED
      BY <3>1, <3>2
  <2> QED
    BY <1>5, <2>1, <2>2 DEF Entered
<1>6. ASSUME NEW w \in 1..Workers, arg[w] # <<>> PROVE hold'[Worker(w)] = hold[Worker(w)]
  <2>1. Worker(w) \in Procs /\ Worker(w) \in WorkProcs
    BY ProcsTyped
  <2>2. Worker(w) # h
    BY <1>2, <1>6 DEF Inv, AtomLocked
  <2>3. Worker(w) # g
    BY <2>1 DEF HandOver, Sending
  <2> QED
    BY <1>2, <2>1, <2>2, <2>3
<1> QED
  BY <1>1, <1>4, <1>5, <1>6, KeptSources, KeptCalled DEF Kept, Inv

LEMMA EntersStage ==
  ASSUME Inv, TypeOK', NEW g \in Procs, NEW h \in Procs, HandOver(g, h),
         NEW x \in AllItems, hold'[h] = <<x>>,
         NEW l \in 1..Workers, NEW i \in 1..Stages, h = Stage(l, i), ~Entered(x, i)
  PROVE  Counts
<1>1. <<"entered", x, i>> \in Milestones
  BY DEF Milestones
<1>2. Entered(x, i)'
  <2>1. i \in i..Stages
    BY FlowAssumption
  <2> QED
    BY <2>1 DEF Entered
<1>3. ~Reached(<<"entered", x, i>>)
  BY DEF Reached
<1>4. Reached(<<"entered", x, i>>)'
  BY <1>2 DEF Reached
<1> QED
  BY <1>1, <1>3, <1>4, HandOverKeeps, KeptCounts DEF Inv

LEMMA HandOverCounts ==
  ASSUME Inv, TypeOK', NEW g \in Procs, NEW h \in Procs, HandOver(g, h)
  PROVE  Counts
<1> USE FlowAssumption
<1>1. PICK x \in AllItems :
        /\ hold[g] = <<x>> /\ hold[h] = <<>> /\ g # h
        /\ hold' = [hold EXCEPT ![h] = <<x>>, ![g] = <<>>]
  BY OneItemMoves DEF Inv
<1>2. hold'[h] = <<x>>
  BY <1>1 DEF Inv, TypeOK
<1>3. ASSUME NEW s \in 1..Sources, NEW l \in 1..Workers, g = Merge(s), h = Stage(l, 1)
      PROVE  Counts
  <2>1. /\ Taken(s) \in 1..Items /\ x = Item(s, Taken(s)) /\ Passed(s) = Taken(s) - 1
    BY <1>1, <1>3, PassedOn DEF Inv
  <2>2. ~Onward(x)
    BY <2>1 DEF Inv, Conserved
  <2>3. ~Entered(x, 1)
    BY <2>2, ProcsTyped DEF Onward, Entered, Holds
  <2> QED
    BY <1>2, <1>3, <2>3, EntersStage
<1>4. ASSUME NEW l \in 1..Workers, NEW i \in 1..Stages, g \in StageProcs, g = Stage(l, i)
      PROVE  /\ x \notin Range(got)
             /\ ~ \E m \in 1..Workers, j \in (i + 1)..Stages : hold[Stage(m, j)] = <<x>>
  <2>1. Holds(g, x)
    BY <1>1 DEF Holds
  <2>2. ASSUME NEW m \in 1..Workers, NEW j \in (i + 1)..Stages, hold[Stage(m, j)] = <<x>>
        PROVE  FALSE
    <3>1. Stage(m, j) \in StageProcs /\ Holds(Stage(m, j), x)
      BY <2>2, ProcsTyped DEF Holds
    <3>2. Stage(m, j) = g
      BY <1>4, <2>1, <3>1 DEF Inv, Conserved
    <3>3. i = j
      BY <1>4, <3>2, ProcsDiffer
    <3> QED
      BY <3>3
  <2> QED
    BY <1>4, <2>1, <2>2 DEF Inv, Conserved
<1>5. ASSUME NEW l \in 1..Workers, NEW i \in 1..Stages, i + 1 <= Stages, g = Stage(l, i),
             h = Stage(l, i + 1)
      PROVE  Counts
  <2>1. ~Entered(x, i + 1)
    BY <1>4, <1>5, ProcsTyped DEF Entered
  <2> QED
    BY <1>2, <1>5, <2>1, EntersStage
<1>6. ASSUME NEW w \in 1..Workers, g = Stage(LineOf(w), Stages), h = Worker(w)
      PROVE  Counts
  <2> DEFINE m == LineOf(w)
  <2>1. m \in 1..Workers /\ Stages \in 1..Stages /\ g = Stage(m, Stages)
    BY <1>6, LineTyped
  <2>2. x \notin Range(got)
    <3> HIDE DEF m
    <3> QED
      BY <1>4, <2>1, ProcsTyped
  <2>3. x \in Range(got')
    <3>1. got' = got \o <<x>>
      BY <1>1, <1>6, ProcsTyped DEF HandOver
    <3> QED
      BY <3>1, GotGrows DEF Inv, TypeOK
  <2>4. <<"got", x>> \in Milestones
    BY DEF Milestones
  <2>5. ~Reached(<<"got", x>>)
    BY <2>2 DEF Reached
  <2>6. Reached(<<"got", x>>)'
    BY <2>3 DEF Reached
  <2> QED
    BY <2>4, <2>5, <2>6, HandOverKeeps, KeptCounts DEF Inv
<1> QED
  BY <1>3, <1>5, <1>6, HandOverForms DEF MergeToStage, StageToStage, StageToWorker

(* A worker's swap! takes the lock; then it stores, or its function        *)
(* panicked.                                                               *)
LEMMA SwapLocksCounts ==
  ASSUME Inv, TypeOK', NEW w \in 1..Workers, SwapLocks(w)
  PROVE  Counts
<1>1. PICK x \in AllItems : hold[Worker(w)] = <<x>>
  BY ProcsTyped DEF Inv, TypeOK, Holding, SwapLocks
<1>2. \A v \in 1..Workers : arg[v] = <<>>
  BY FlowAssumption DEF Inv, AtomLocked, SwapLocks
<1>3. arg'[w] # <<>> /\ hold'[Worker(w)] = <<x>>
  BY <1>1 DEF SwapLocks, Inv, TypeOK
<1>4. Kept
  <2>1. UNCHANGED <<sent, buf, sourceClosed, hold, got, atomVal, failed, closed, ended, main>>
    BY DEF SwapLocks, sources, groups
  <2>2. \A y \in AllItems : /\ Called(y) \/ Over(y) => (Called(y) \/ Over(y))'
                            /\ Over(y) => Over(y)'
    BY <1>2, <2>1 DEF Called, Over
  <2> QED
    BY <2>1, <2>2, KeptSources, KeptEntered DEF Kept, Inv
<1>5. x \in Pending
  BY <1>1 DEF Pending, Holds
<1>6. ~Called(x) /\ ~Over(x)
  BY <1>2, <1>5 DEF Called, Over, Inv, AtomHolds
<1>7. Called(x)'
  BY <1>3 DEF Called
<1>8. <<"called", x>> \in Milestones
  BY DEF Milestones
<1>9. ~Reached(<<"called", x>>)
  BY <1>6 DEF Reached
<1>10. Reached(<<"called", x>>)'
  BY <1>7 DEF Reached
<1> QED
  BY <1>4, <1>8, <1>9, <1>10, KeptCounts DEF Inv

LEMMA SwapEndsCounts ==
  ASSUME Inv, TypeOK', NEW w \in 1..Workers, SwapStores(w) \/ SwapPanics(w)
  PROVE  Counts
<1>1. arg[w] # <<>> /\ arg[w] = <<atomVal>> /\ atomLock = w /\ hold[Worker(w)] # <<>>
  BY DEF SwapStores, SwapPanics, Inv, AtomLocked
<1>2. PICK x \in AllItems : hold[Worker(w)] = <<x>>
  BY <1>1, ProcsTyped DEF Inv, TypeOK, Holding
<1>3. /\ atomVal \subseteq atomVal' /\ failed \subseteq failed'
      /\ x \in atomVal' \cup failed'
  <2>1. Range(hold[Worker(w)]) = {x}
    BY <1>2, RangeOfOne
  <2>2. CASE SwapStores(w)
    <3>1. atomVal' = atomVal \cup {x} /\ failed' = failed
      BY <1>1, <2>1, <2>2 DEF SwapStores
    <3> QED
      BY <3>1
  <2>3. CASE SwapPanics(w)
    <3>1. atomVal' = atomVal /\ failed' = failed \cup {x}
      BY <2>1, <2>3 DEF SwapPanics
    <3> QED
      BY <3>1
  <2> QED
    BY <2>2, <2>3
<1>4. \A y \in AllItems : Called(y) => y = x
  <2>1. \A v \in 1..Workers : arg[v] # <<>> => v = w
    BY <1>1 DEF Inv, AtomLocked
  <2> QED
    BY <1>2, <2>1 DEF Called
<1>5. Kept
  <2>1. UNCHANGED <<sent, buf, sourceClosed, got, closed, ended, main>>
    BY SwapEnds DEF Inv, sources, groups
  <2>2. \A l \in 1..Workers, i \in 1..Stages : hold'[Stage(l, i)] = hold[Stage(l, i)]
    BY SwapEnds, ProcsTyped, ProcsDiffer DEF Inv
  <2>3. \A y \in AllItems : /\ Called(y) \/ Over(y) => (Called(y) \/ Over(y))'
                            /\ Over(y) => Over(y)'
    BY <1>3, <1>4 DEF Over
  <2> QED
    BY <2>1, <2>2, <2>3, KeptSources, KeptEntered DEF Kept, Inv
<1>6. ~Over(x)
  <2>1. x \in Pending
    BY <1>2 DEF Pending, Holds
  <2> QED
    BY <2>1 DEF Over, Inv, AtomHolds
<1>7. <<"over", x>> \in Milestones
  BY DEF Milestones
<1>8. ~Reached(<<"over", x>>)
  BY <1>6 DEF Reached
<1>9. Reached(<<"over", x>>)'
  BY <1>3 DEF Reached, Over
<1> QED
  BY <1>5, <1>7, <1>8, <1>9, KeptCounts DEF Inv

LEMMA NextCounts ==
  ASSUME Inv, TypeOK', Next
  PROVE  Counts
<1>1. ASSUME NEW s \in 1..Sources, MergeEnds(s) PROVE Counts
  <2>1. Merge(s) \in Procs /\ Live(Merge(s))
    BY <1>1, ProcsTyped DEF MergeEnds, Receiving
  <2> QED
    BY <1>1, <2>1, EndsCount DEF MergeEnds
<1>2. ASSUME NEW l \in Lines, NEW i \in 1..Stages, StageEnds(l, i) PROVE Counts
  <2>1. l \in 1..Workers
    BY FlowAssumption DEF Lines
  <2>2. Stage(l, i) \in Procs /\ Live(Stage(l, i))
    BY <1>2, <2>1, ProcsTyped DEF StageEnds, Receiving
  <2> QED
    BY <1>2, <2>2, EndsCount DEF StageEnds
<1>3. ASSUME NEW w \in 1..Workers, WorkerEnds(w) PROVE Counts
  <2>1. Worker(w) \in Procs /\ Live(Worker(w))
    BY <1>3, ProcsTyped DEF WorkerEnds, Receiving
  <2> QED
    BY <1>3, <2>1, EndsCount DEF WorkerEnds
<1>4. ASSUME NEW s \in 1..Sources, Produce(s) \/ CloseSource(s) \/ MergeReceives(s) PROVE Counts
  BY <1>4, ProduceCounts, CloseSourceCounts, MergeReceivesCounts
<1>5. ASSUME NEW w \in 1..Workers, SwapLocks(w) \/ SwapStores(w) \/ SwapPanics(w) PROVE Counts
  BY <1>5, SwapLocksCounts, SwapEndsCounts
<1>6. CASE FanInCloses \/ FanOutReturns
  BY <1>6, FanInClosesCounts, FanOutReturnsCounts
<1>7. ASSUME NEW g \in Procs, NEW h \in Procs, HandOver(g, h) PROVE Counts
  BY <1>7, HandOverCounts
<1> QED
  BY <1>1, <1>2, <1>3, <1>4, <1>5, <1>6, <1>7 DEF Next

(* No livelock: every step of a producer, of a goroutine of the forms or   *)
(* of fan-out does one of the things that are done once, and takes none    *)
(* back.                                                                   *)
THEOREM StepsCount == Spec => EveryStepCounts
<1>1. Inv /\ Inv' /\ [Next]_vars => [Counts]_vars
  <2>1. CASE Next
    BY <2>1, NextCounts DEF Inv
  <2> QED
    BY <2>1
<1>2. Spec => []Inv
  BY Invariance
<1>3. Spec => [][Next]_vars
  BY DEF Spec
<1>4. Spec => [][Counts]_vars
  BY <1>1, <1>2, <1>3, PTL
<1> QED
  BY <1>4 DEF EveryStepCounts, Counts

-------------------------------------------------------------------------------
(* There are finitely many milestones. *)

LEMMA ImageFinite ==
  ASSUME NEW S, IsFiniteSet(S), NEW f, NEW T, f \in [S -> T], \A y \in T : \E x \in S : f[x] = y
  PROVE  IsFiniteSet(T)
<1>1. f \in Surjection(S, T)
  BY DEF Surjection
<1> QED
  BY <1>1, FS_Surjection

LEMMA TaggedFinite ==
  ASSUME NEW k, NEW S, IsFiniteSet(S)
  PROVE  IsFiniteSet({k} \X S)
BY FS_Product, FS_Singleton

LEMMA PairsFinite ==
  ASSUME NEW k, NEW S, NEW T, IsFiniteSet(S), IsFiniteSet(T)
  PROVE  IsFiniteSet({k} \X S \X T)
<1> DEFINE f == [p \in S \X T |-> <<k, p[1], p[2]>>]
<1>1. IsFiniteSet(S \X T)
  BY FS_Product
<1>2. f \in [S \X T -> {k} \X S \X T]
  OBVIOUS
<1>3. ASSUME NEW y \in {k} \X S \X T PROVE \E x \in S \X T : f[x] = y
  <2>1. <<y[2], y[3]>> \in S \X T /\ f[<<y[2], y[3]>>] = y
    OBVIOUS
  <2> QED
    BY <2>1
<1> HIDE DEF f
<1> QED
  BY <1>1, <1>2, <1>3, ImageFinite

(* A run has no more steps than there are milestones: finitely many.       *)
LEMMA MilestonesFinite == IsFiniteSet(Milestones)
<1> USE FlowAssumption
<1>1. /\ IsFiniteSet(1..Sources) /\ IsFiniteSet(1..Items) /\ IsFiniteSet(1..Workers)
      /\ IsFiniteSet(1..Stages) /\ IsFiniteSet(0..Stages)
  <2>1. /\ Sources \in Int /\ Items \in Int /\ Workers \in Int /\ Stages \in Int
        /\ 0 \in Int /\ 1 \in Int
    OBVIOUS
  <2> QED
    BY <2>1, FS_Interval
<1>2. IsFiniteSet(AllItems)
  <2>1. AllItems = (1..Sources) \X (1..Items)
    BY DEF AllItems, Item
  <2> QED
    BY <1>1, <2>1, FS_Product
<1>3. IsFiniteSet(Procs)
  <2>1. Merges \subseteq {"merge"} \X (1..Sources) \X {0}
    BY DEF Merges, Merge
  <2>2. StageProcs \subseteq {"stage"} \X (1..Workers) \X (1..Stages)
    BY DEF StageProcs, Stage
  <2>3. WorkProcs \subseteq {"worker"} \X (1..Workers) \X {0}
    BY DEF WorkProcs, Worker
  <2>4. IsFiniteSet(Merges) /\ IsFiniteSet(StageProcs) /\ IsFiniteSet(WorkProcs)
    BY <1>1, <2>1, <2>2, <2>3, PairsFinite, FS_Singleton, FS_Subset
  <2> QED
    BY <2>4, FS_Union DEF Procs
<1>4. IsFiniteSet(Pipes)
  <2>1. Pipes \subseteq {Merged} \cup ((1..Workers) \X (0..Stages))
    BY DEF Pipes, Pipe
  <2>2. IsFiniteSet({Merged} \cup ((1..Workers) \X (0..Stages)))
    BY <1>1, FS_Product, FS_Singleton, FS_Union
  <2> QED
    BY <2>1, <2>2, FS_Subset
<1>5. IsFiniteSet({"sent", "taken", "got", "called", "over"} \X AllItems)
  <2>a. IsFiniteSet({"sent"} \cup {"taken"}) /\ IsFiniteSet({"got"} \cup {"called"})
    BY FS_Singleton, FS_Union
  <2>b. IsFiniteSet((({"sent"} \cup {"taken"}) \cup ({"got"} \cup {"called"})) \cup {"over"})
    BY <2>a, FS_Singleton, FS_Union
  <2>1. {"sent", "taken", "got", "called", "over"}
          = (({"sent"} \cup {"taken"}) \cup ({"got"} \cup {"called"})) \cup {"over"}
    OBVIOUS
  <2>2. IsFiniteSet({"sent", "taken", "got", "called", "over"})
    BY <2>b, <2>1
  <2> QED
    BY <1>2, <2>2, FS_Product
<1>6. IsFiniteSet({"entered"} \X AllItems \X (1..Stages))
  BY <1>1, <1>2, PairsFinite
<1>7. /\ IsFiniteSet({"source"} \X (1..Sources)) /\ IsFiniteSet({"pipe"} \X Pipes)
      /\ IsFiniteSet({"ended"} \X Procs) /\ IsFiniteSet({<<"main">>})
  BY <1>1, <1>3, <1>4, TaggedFinite, FS_Singleton
<1> QED
  BY <1>5, <1>6, <1>7, FS_Union DEF Milestones
================================================================================
