----------------------------- MODULE WatchProofs -----------------------------
(***************************************************************************)
(* Theorems about Watch, for any number of saves.                          *)
(***************************************************************************)
EXTENDS Watch, FiniteSetTheorems, SequenceTheorems, TLAPS

-------------------------------------------------------------------------------
(* The inductive invariant. *)

(* From the stop of the old process to the start of the new one. *)
Building == {"stat", "compile", "goBuild", "remove", "spawn"}
Starting == Building \cup {"stop", "reap"}

(* Every start but the first has a save of its own, so children are no     *)
(* more than saves: a snapshot that differs is a later one.                *)
StartsCounted ==
  /\ main \in {"sleep", "stop", "reap"} => started
  /\ last <= saves
  /\ Len(runs) + (IF main \in Starting THEN 1 ELSE 0) <= (IF started THEN last ELSE 0) + 1

(* Who holds the mutex is in the middle of stop(), and who is there        *)
(* unless os.Exit took it holds the mutex.                                 *)
LockHeld ==
  /\ main = "reap" => mu = "main"
  /\ handler = "reap" => mu = "handler" /\ cur # NoChild

(* Main has a child in its hands only until it records it, and starts one  *)
(* only when none is recorded.                                             *)
OneKnown ==
  /\ cur = NoChild \/ child = NoChild
  /\ main \in Building \cup {"record"} => cur = NoChild
  /\ main \notin {"record", "exited"} => child = NoChild

(* What runs is the recorded child or the one in main's hands, and not the *)
(* recorded one any more when stop() reaps it.                             *)
AliveKnown ==
  /\ alive \subseteq {cur, child} \ {NoChild}
  /\ "reap" \in {main, handler} => cur \notin alive

(* The signal goroutine has ended the child there was; any other started   *)
(* in one of the two windows.                                              *)
NoneAlive == handler \in {"reap", "cleanup", "exit", "exited"} => alive = {} \/ escaped

(* Until a go build fails, a .go that was not there at first is there only *)
(* while a build is at work on it.                                         *)
GoFileInBuild ==
  ~leftover => ~preexisted /\ (goFile => main \in {"goBuild", "remove", "exited"})

BothExited == main = "exited" <=> handler = "exited"

Inv ==
  /\ TypeOK /\ StartsCounted /\ LockHeld /\ OneKnown /\ AliveKnown /\ NoneAlive
  /\ GoFileInBuild /\ BothExited

LEMMA InitInv == Init => Inv
<1> SUFFICES ASSUME Init PROVE Inv
  OBVIOUS
<1>1. TypeOK
  <2>1. runs \in Seq(0..MaxSaves) /\ Len(runs) <= MaxSaves + 1
    BY SavesAssumption DEF Init
  <2>2. /\ goFile \in BOOLEAN /\ preexisted \in BOOLEAN /\ valid \in BOOLEAN /\ tmpDir \in BOOLEAN
        /\ started \in BOOLEAN /\ missed = 0 /\ leftover \in BOOLEAN /\ escaped \in BOOLEAN
    BY DEF Init
  <2> QED
    BY SavesAssumption, <2>1, <2>2 DEF Init, TypeOK, Children, NoChild, Nobody
<1>2. StartsCounted
  BY DEF Init, StartsCounted, Starting, Building
<1>3. LockHeld /\ OneKnown /\ AliveKnown /\ NoneAlive /\ GoFileInBuild /\ BothExited
  BY DEF Init, LockHeld, OneKnown, AliveKnown, NoneAlive, GoFileInBuild, BothExited, Building,
         NoChild
<1> QED
  BY <1>1, <1>2, <1>3 DEF Inv

(* A child's number is one of those there have been. *)
LEMMA RunsType ==
  ASSUME TypeOK, NEW v \in 0..MaxSaves
  PROVE  /\ Len(runs) \in Nat
         /\ Append(runs, v) \in Seq(0..MaxSaves) /\ Len(Append(runs, v)) = Len(runs) + 1
BY DEF TypeOK

LEMMA TypeStep == TypeOK /\ StartsCounted /\ [Next]_vars => TypeOK'
<1> SUFFICES ASSUME TypeOK, StartsCounted, [Next]_vars PROVE TypeOK'
  OBVIOUS
<1> USE SavesAssumption DEF TypeOK, Children
<1>1. CASE Start
  <2>1. CASE BuildStats
    BY <2>1 DEF BuildStats, AfterStart, files, children, history
  <2>2. CASE BuildCompiles
    <3>1. goFile' \in BOOLEAN /\ valid' \in BOOLEAN /\ compiled' \in 0..MaxSaves
      BY <2>2 DEF BuildCompiles
    <3> QED
      BY <2>2, <3>1 DEF BuildCompiles, AfterStart, files, children, history
  <2>3. CASE BuildLinks
    BY <2>3 DEF BuildLinks, AfterStart, files, build, children
  <2>4. CASE BuildRemoves
    BY <2>4 DEF BuildRemoves, files, children, history
  <2>5. CASE Spawns
    <3>1. Len(runs) \in Nat /\ Len(runs) + 1 <= MaxSaves + 1
      BY <2>5, RunsType DEF Spawns, StartsCounted, Starting, Building
    <3>2. Append(runs, compiled) \in Seq(0..MaxSaves) /\ Len(Append(runs, compiled)) = Len(runs) + 1
      BY RunsType
    <3>3. main' \in {"record", "sleep", "snapshot"} /\ escaped' \in BOOLEAN
      BY <2>5 DEF Spawns, AfterStart
    <3>4. child' \in Children \cup {NoChild} /\ alive' \subseteq Children
      <4>1. Len(runs) + 1 \in Children
        BY <3>1
      <4> QED
        BY <2>5, <4>1 DEF Spawns
    <3>5. runs' \in Seq(0..MaxSaves) /\ Len(runs') <= MaxSaves + 1
      BY <2>5, <3>1, <3>2 DEF Spawns
    <3> QED
      BY <2>5, <3>3, <3>4, <3>5 DEF Spawns, files, build
  <2>6. CASE Records
    BY <2>6 DEF Records, AfterStart, files, build, history
  <2> QED
    BY <1>1, <2>1, <2>2, <2>3, <2>4, <2>5, <2>6 DEF Start
<1>2. ASSUME NEW g \in {"main", "handler"}, Stop(g) PROVE TypeOK'
  <2>1. CASE StopLocks(g)
    <3>1. escaped' \in BOOLEAN
      BY <2>1 DEF StopLocks
    <3>2. main' \in {"stat", "reap", main} /\ handler' \in {"cleanup", "reap", handler}
      BY <2>1 DEF StopLocks, Moves, AfterStop
    <3>3. alive' \subseteq Children /\ mu' \in {Nobody, "main", "handler"}
      BY <2>1 DEF StopLocks
    <3> QED
      BY <2>1, <3>1, <3>2, <3>3 DEF StopLocks, files, build
  <2>2. CASE StopReaps(g)
    BY <2>2 DEF StopReaps, At, Moves, AfterStop, files, build, history
  <2> QED
    BY <1>2, <2>1, <2>2 DEF Stop
<1>3. CASE FirstSnapshot
  BY <1>3 DEF FirstSnapshot, files, build, children, history
<1>4. CASE Polls
  BY <1>4 DEF Polls, files, build, children, history
<1>5. CASE Signal \/ CleansUp \/ Exits
  <2>1. CASE Signal
    BY <2>1 DEF Signal, files, build, children, history
  <2>2. CASE CleansUp
    <3>1. tmpDir' \in BOOLEAN
      BY <2>2 DEF CleansUp
    <3> QED
      BY <2>2, <3>1 DEF CleansUp, files, build, children, history
  <2>3. CASE Exits
    BY <2>3 DEF Exits, files, build, children, history
  <2> QED
    BY <1>5, <2>1, <2>2, <2>3
<1>6. CASE Save
  BY <1>6 DEF Save, build, children
<1>7. CASE ChildExits
  BY <1>7 DEF ChildExits, files, build, history
<1>8. CASE UNCHANGED vars
  BY <1>8 DEF vars, files, build, children, history
<1> QED
  BY <1>1, <1>2, <1>3, <1>4, <1>5, <1>6, <1>7, <1>8 DEF Next, Main, Handler

-------------------------------------------------------------------------------
(* The rest of the invariant, one step per action. *)

LEMMA StartsStep == TypeOK /\ StartsCounted /\ [Next]_vars => StartsCounted'
<1> SUFFICES ASSUME TypeOK, StartsCounted, [Next]_vars PROVE StartsCounted'
  OBVIOUS
<1> USE DEF StartsCounted, Starting, Building
<1>0. Len(runs) \in Nat /\ last \in Nat /\ saves \in Nat /\ started \in BOOLEAN
  BY DEF TypeOK
<1>1. CASE Spawns
  <2>1. Len(runs') \in {Len(runs), Len(runs) + 1}
    BY <1>1 DEF Spawns, TypeOK
  <2>2. /\ main' \in {"record", "sleep", "snapshot"} /\ (main' # "record" => runs' = runs)
        /\ main' = "sleep" => started
    BY <1>1 DEF Spawns, AfterStart
  <2> QED
    BY <1>0, <1>1, <2>1, <2>2 DEF Spawns, files
<1>2. CASE BuildStats \/ BuildCompiles \/ BuildLinks \/ BuildRemoves \/ Records
  <2>1. runs' = runs /\ last' = last /\ saves' = saves /\ started' = started
    BY <1>2 DEF BuildStats, BuildCompiles, BuildLinks, BuildRemoves, Records, files, children
  <2>2. /\ main' \in Starting => main \in Starting
        /\ main' \in {"sleep", "stop", "reap"} => started
    BY <1>2 DEF BuildStats, BuildCompiles, BuildLinks, BuildRemoves, Records, AfterStart
  <2> QED
    BY <1>0, <2>1, <2>2
<1>3. ASSUME NEW g \in {"main", "handler"}, Stop(g) PROVE StartsCounted'
  <2>1. runs' = runs /\ last' = last /\ saves' = saves /\ started' = started
    BY <1>3 DEF Stop, StopLocks, StopReaps, files
  <2>2. /\ main' \in Starting => main \in Starting
        /\ main' \in {"sleep", "stop", "reap"} => started
    BY <1>3 DEF Stop, StopLocks, StopReaps, At, Moves, AfterStop
  <2> QED
    BY <1>0, <2>1, <2>2
<1>4. CASE FirstSnapshot
  BY <1>0, <1>4 DEF FirstSnapshot, files, children
<1>5. CASE Polls
  BY <1>0, <1>5 DEF Polls, files, children
<1>6. CASE Signal \/ CleansUp \/ Exits \/ Save \/ ChildExits \/ UNCHANGED vars
  <2>1. runs' = runs /\ last' = last /\ started' = started /\ saves' \in {saves, saves + 1}
    BY <1>6 DEF Signal, CleansUp, Exits, Save, ChildExits, vars, files, children
  <2>2. main' \in {main, "exited"}
    BY <1>6 DEF Signal, CleansUp, Exits, Save, ChildExits, vars
  <2> QED
    BY <1>0, <2>1, <2>2
<1> QED
  BY <1>1, <1>2, <1>3, <1>4, <1>5, <1>6 DEF Next, Main, Handler, Start

(* The children and who knows of them. *)
Known == LockHeld /\ OneKnown /\ AliveKnown /\ NoneAlive /\ BothExited

LEMMA KnownStep == TypeOK /\ Known /\ [Next]_vars => Known'
<1> SUFFICES ASSUME TypeOK, Known, [Next]_vars PROVE Known'
  OBVIOUS
<1> USE DEF Known, LockHeld, OneKnown, AliveKnown, NoneAlive, BothExited, Building
<1>1. CASE BuildStats \/ BuildCompiles \/ BuildLinks \/ BuildRemoves
  <2>1. UNCHANGED <<children, handler, escaped>>
    BY <1>1 DEF BuildStats, BuildCompiles, BuildLinks, BuildRemoves, history
  <2>2. main \in Building /\ main' \in Building \cup {"sleep", "snapshot"}
    BY <1>1 DEF BuildStats, BuildCompiles, BuildLinks, BuildRemoves, AfterStart
  <2> QED
    BY <2>1, <2>2 DEF children
<1>2. CASE Spawns
  <2>1. main' \in {"record", "sleep", "snapshot"} /\ handler' = handler /\ mu' = mu /\ cur' = cur
    BY <1>2 DEF Spawns, AfterStart
  <2>2. \/ child' = Len(runs) + 1 /\ alive' = alive \cup {child'} /\ main' = "record"
        \/ child' = child /\ alive' = alive /\ main' # "record"
    BY <1>2 DEF Spawns, AfterStart
  <2>3. /\ escaped => escaped'
        /\ handler \in {"cleanup", "exit"} /\ main' = "record" => escaped'
    BY <1>2, <2>2 DEF Spawns, AfterStart
  <2>4. cur = NoChild /\ child = NoChild /\ Len(runs) + 1 # NoChild /\ handler \notin {"reap", "exited"}
    BY <1>2 DEF Spawns, TypeOK, NoChild
  <2> QED
    BY <1>2, <2>1, <2>2, <2>3, <2>4 DEF Spawns
<1>3. CASE Records
  BY <1>3 DEF Records, AfterStart, Nobody, history
<1>4. ASSUME NEW g \in {"main", "handler"}, StopLocks(g) PROVE Known'
  <2>1. CASE g = "main"
    BY <1>4, <2>1 DEF StopLocks, At, Moves, AfterStop, Overlooks, Nobody
  <2>2. CASE g = "handler"
    BY <1>4, <2>2 DEF StopLocks, At, Moves, AfterStop, Overlooks, Nobody
  <2> QED
    BY <2>1, <2>2
<1>5. ASSUME NEW g \in {"main", "handler"}, StopReaps(g) PROVE Known'
  <2>1. CASE g = "main"
    BY <1>5, <2>1 DEF StopReaps, At, Moves, AfterStop, history
  <2>2. CASE g = "handler"
    BY <1>5, <2>2 DEF StopReaps, At, Moves, AfterStop, history
  <2> QED
    BY <2>1, <2>2
<1>6. CASE FirstSnapshot \/ Polls
  BY <1>6 DEF FirstSnapshot, Polls, children, history
<1>7. CASE Signal \/ CleansUp \/ Exits
  BY <1>7 DEF Signal, CleansUp, Exits, children, history
<1>8. CASE Save \/ UNCHANGED vars
  BY <1>8 DEF Save, vars, children, history
<1>9. CASE ChildExits
  BY <1>9 DEF ChildExits, history
<1> QED
  BY <1>1, <1>2, <1>3, <1>4, <1>5, <1>6, <1>7, <1>8, <1>9 DEF Next, Main, Handler, Start, Stop

LEMMA GoFileStep == TypeOK /\ GoFileInBuild /\ [Next]_vars => GoFileInBuild'
<1> SUFFICES ASSUME TypeOK, GoFileInBuild, [Next]_vars PROVE GoFileInBuild'
  OBVIOUS
<1> USE DEF GoFileInBuild
<1>1. CASE BuildStats
  BY <1>1 DEF BuildStats, AfterStart, history
<1>2. CASE BuildCompiles
  BY <1>2 DEF BuildCompiles, AfterStart, history
<1>3. CASE BuildLinks
  BY <1>3 DEF BuildLinks, AfterStart, build
<1>4. CASE BuildRemoves
  BY <1>4 DEF BuildRemoves, history
<1>5. CASE Spawns \/ Records \/ FirstSnapshot \/ Polls
  BY <1>5 DEF Spawns, Records, FirstSnapshot, Polls, AfterStart, build, history
<1>6. ASSUME NEW g \in {"main", "handler"}, Stop(g) PROVE GoFileInBuild'
  BY <1>6 DEF Stop, StopLocks, StopReaps, At, Moves, AfterStop, build, history
<1>7. CASE Signal \/ CleansUp \/ Exits \/ Save \/ ChildExits \/ UNCHANGED vars
  BY <1>7 DEF Signal, CleansUp, Exits, Save, ChildExits, vars, build, history
<1> QED
  BY <1>1, <1>2, <1>3, <1>4, <1>5, <1>6, <1>7 DEF Next, Main, Handler, Start

-------------------------------------------------------------------------------
(* The theorems. *)

LEMMA Invariance == Spec => []Inv
<1>1. Inv /\ [Next]_vars => Inv'
  BY TypeStep, StartsStep, KnownStep, GoFileStep DEF Inv, Known
<1> QED
  BY InitInv, <1>1, PTL DEF Spec

(* The variables have their types; in particular no more children are      *)
(* started than there are saves, and one.                                  *)
THEOREM TypeCorrect == Spec => []TypeOK
<1>1. Inv => TypeOK
  BY DEF Inv
<1> QED
  BY Invariance, <1>1, PTL

(* The old process is killed before the new one starts, whatever the       *)
(* signal goroutine does in stop() meanwhile: never two children run.      *)
THEOREM AtMostOneChild == Spec => []OneChild
<1>1. ASSUME Inv PROVE OneChild
  <2>1. alive \subseteq {cur} \/ alive \subseteq {child}
    BY <1>1 DEF Inv, OneKnown, AliveKnown
  <2>2. ASSUME NEW c, alive \subseteq {c} PROVE Cardinality(alive) <= 1
    <3>1. IsFiniteSet({c}) /\ Cardinality({c}) = 1
      BY FS_Singleton
    <3> QED
      BY <2>2, <3>1, FS_Subset
  <2> QED
    BY <2>1, <2>2 DEF OneChild
<1> QED
  BY Invariance, <1>1, PTL

(* Between builds there is no generated .go that was not there at first,   *)
(* until a go build has failed.                                            *)
THEOREM SourceStaysClean == Spec => []SourceClean
<1>1. Inv => SourceClean
  BY DEF Inv, GoFileInBuild, SourceClean
<1> QED
  BY Invariance, <1>1, PTL

(* When the signal has ended glisp, the program it started has ended too,  *)
(* but for the two windows between its start and its recording.            *)
THEOREM NoOrphan == Spec => []NoOrphanUnlessRaced
<1>1. Inv => NoOrphanUnlessRaced
  BY DEF Inv, NoneAlive, BothExited, NoOrphanUnlessRaced
<1> QED
  BY Invariance, <1>1, PTL

-------------------------------------------------------------------------------
(* What runs is no older than the last snapshot, which is taken before the *)
(* build it causes reads the file.  The first one is taken after it: up to *)
(* then what has been built is the file's version, or that was overlooked. *)
Newest(v) == v = saves \/ Overlooked(saves)

FreshStart ==
  /\ last = 0
  /\ main \in {"stat", "compile"} => missed = 0
  /\ main \in {"goBuild", "remove", "spawn"} => Newest(compiled)
  /\ main = "record" => child # NoChild /\ Newest(runs[child])
  /\ main = "snapshot" /\ cur # NoChild => Newest(runs[cur])

FreshLater ==
  /\ main \in {"goBuild", "remove", "spawn"} => last <= compiled
  /\ main = "record" => child # NoChild /\ last <= runs[child]
  /\ main = "sleep" /\ cur # NoChild /\ ~Overlooked(last) => last <= runs[cur]

Fresh ==
  /\ compiled <= saves /\ \A c \in 1..Len(runs) : runs[c] <= saves
  /\ {cur, child} \ {NoChild} \subseteq 1..Len(runs)
  /\ main = "snapshot" => ~started
  /\ IF started THEN FreshLater ELSE FreshStart

LEMMA FreshInit == Init => Fresh
BY SavesAssumption DEF Init, Fresh, FreshStart, NoChild

LEMMA FreshStep == TypeOK /\ StartsCounted /\ Known /\ Fresh /\ [Next]_vars => Fresh'
<1> SUFFICES ASSUME TypeOK, StartsCounted, Known, Fresh, [Next]_vars PROVE Fresh'
  OBVIOUS
<1> USE SavesAssumption DEF FreshStart, FreshLater, Newest, Overlooked
<1>0. /\ saves \in Nat /\ last \in Nat /\ compiled \in Nat /\ Len(runs) \in Nat /\ last <= saves
      /\ \A c \in 1..Len(runs) : runs[c] \in Nat
      /\ started \in BOOLEAN /\ missed \in Nat
  BY DEF TypeOK, StartsCounted
<1>1. CASE BuildStats \/ BuildLinks \/ BuildRemoves
  <2>1. /\ UNCHANGED <<saves, compiled, started, last, cur, child, runs, missed>>
        /\ main \in {"stat", "goBuild", "remove"}
    BY <1>1 DEF BuildStats, BuildLinks, BuildRemoves, files, build, children, history
  <2>2. /\ main' = "snapshot" => ~started
        /\ main' \in {"goBuild", "remove", "spawn"} => main \in {"goBuild", "remove", "spawn"}
        /\ main' \in {"stat", "compile"} => main = "stat"
        /\ main' \notin {"record", "stop", "reap"}
    BY <1>1 DEF BuildStats, BuildLinks, BuildRemoves, AfterStart
  <2>3. cur = NoChild
    BY <2>1 DEF Known, OneKnown, Building
  <2> QED
    BY <2>1, <2>2, <2>3 DEF Fresh
<1>2. CASE BuildCompiles
  <2>1. UNCHANGED <<saves, started, last, cur, child, runs, missed>> /\ main = "compile"
    BY <1>2 DEF BuildCompiles, files, children, history
  <2>2. \/ main' = AfterStart /\ compiled' = compiled
        \/ main' = "goBuild" /\ compiled' = saves
    BY <1>2 DEF BuildCompiles
  <2>3. cur = NoChild
    BY <2>1 DEF Known, OneKnown, Building
  <2> QED
    BY <1>0, <2>1, <2>2, <2>3 DEF Fresh, AfterStart
<1>3. CASE Spawns
  <2>1. /\ UNCHANGED <<saves, compiled, started, last, cur, missed>> /\ main = "spawn"
        /\ cur = NoChild /\ child = NoChild
    BY <1>3 DEF Spawns, files, build, Known, OneKnown, Building
  <2>2. CASE tmpDir
    <3>1. /\ runs' = Append(runs, compiled) /\ child' = Len(runs) + 1 /\ main' = "record"
      BY <1>3, <2>2 DEF Spawns
    <3>2. /\ Len(runs') = Len(runs) + 1 /\ runs'[Len(runs) + 1] = compiled
          /\ \A c \in 1..Len(runs) : runs'[c] = runs[c]
      BY <3>1 DEF TypeOK
    <3>3. Len(runs) + 1 # NoChild /\ Len(runs) + 1 \in 1..Len(runs')
      BY <1>0, <3>2 DEF NoChild
    <3>4. \A c \in 1..Len(runs') : runs'[c] <= saves
      BY <1>0, <3>2 DEF Fresh
    <3> QED
      BY <2>1, <3>1, <3>2, <3>3, <3>4 DEF Fresh
  <2>3. CASE ~tmpDir
    <3>1. main' = AfterStart /\ UNCHANGED <<child, runs>>
      BY <1>3, <2>3 DEF Spawns
    <3> QED
      BY <2>1, <3>1 DEF Fresh, AfterStart
  <2> QED
    BY <2>2, <2>3
<1>4. CASE Records
  <2>1. /\ UNCHANGED <<saves, compiled, started, last, runs, missed>> /\ main = "record"
        /\ cur' = child /\ child' = NoChild /\ main' = AfterStart
    BY <1>4 DEF Records, files, build, history
  <2> QED
    BY <2>1 DEF Fresh, AfterStart
<1>5. ASSUME NEW g \in {"main", "handler"}, Stop(g) PROVE Fresh'
  <2>1. /\ UNCHANGED <<saves, compiled, started, last, child, runs, missed>>
        /\ cur' \in {cur, NoChild}
    BY <1>5 DEF Stop, StopLocks, StopReaps, files, build, history
  <2>2. main' = main \/ (main \in {"stop", "reap"} /\ main' \in {"stat", "reap"})
    BY <1>5 DEF Stop, StopLocks, StopReaps, At, Moves, AfterStop
  <2>3. main \in {"stop", "reap"} => started
    BY DEF StartsCounted
  <2> QED
    BY <2>1, <2>2, <2>3 DEF Fresh
<1>6. CASE FirstSnapshot
  <2>1. /\ UNCHANGED <<saves, compiled, cur, child, runs, missed>>
        /\ main = "snapshot" /\ main' = "sleep" /\ last' = saves /\ started' = TRUE
    BY <1>6 DEF FirstSnapshot, files, build, children, history
  <2>2. ~started
    BY <2>1 DEF Fresh
  <2>3. cur # NoChild => runs[cur] = saves \/ Overlooked(saves)
    BY <2>1, <2>2 DEF Fresh
  <2> QED
    BY <1>0, <2>1, <2>3 DEF Fresh
<1>7. CASE Polls
  <2>1. /\ UNCHANGED <<saves, compiled, cur, child, runs, missed, started>>
        /\ main = "sleep" /\ main' = "stop"
    BY <1>7 DEF Polls, files, build, children, history
  <2>2. started
    BY <2>1 DEF StartsCounted
  <2> QED
    BY <2>1, <2>2 DEF Fresh
<1>8. CASE Save
  <2>1. /\ UNCHANGED <<compiled, cur, child, runs, started, last, main>>
        /\ saves' = saves + 1
        /\ missed' = IF Unwatched THEN saves + 1 ELSE missed
    BY <1>8 DEF Save, build, children
  <2>2. \A c \in 1..Len(runs) : runs[c] <= saves'
    BY <1>0, <2>1 DEF Fresh
  <2>3. CASE started
    <3>1. missed' = missed /\ FreshLater
      BY <2>1, <2>3 DEF Unwatched, Fresh
    <3>2. FreshLater'
      BY <2>1, <3>1
    <3> QED
      BY <1>0, <2>1, <2>2, <2>3, <3>2 DEF Fresh
  <2>4. CASE ~started
    <3>1. FreshStart
      BY <2>4 DEF Fresh
    <3>2. FreshStart'
      <4>1. CASE main \in {"stat", "compile"}
        BY <2>1, <3>1, <4>1 DEF Unwatched
      <4>2. CASE main \notin {"stat", "compile"}
        <5>1. missed' = saves' /\ saves' # 0
          BY <1>0, <2>1, <2>4, <4>2 DEF Unwatched
        <5>2. Overlooked(saves)'
          BY <5>1
        <5> QED
          BY <2>1, <3>1, <4>2, <5>2
      <4> QED
        BY <4>1, <4>2
    <3> QED
      BY <1>0, <2>1, <2>2, <2>4, <3>2 DEF Fresh
  <2> QED
    BY <1>0, <2>3, <2>4
<1>9. CASE ChildExits \/ Signal \/ CleansUp \/ Exits \/ UNCHANGED vars
  <2>1. UNCHANGED <<saves, compiled, started, last, cur, child, runs, missed>>
    BY <1>9 DEF ChildExits, Signal, CleansUp, Exits, vars, files, build, children, history
  <2>2. main' \in {main, "exited"}
    BY <1>9 DEF ChildExits, Signal, CleansUp, Exits, vars
  <2> QED
    BY <2>1, <2>2 DEF Fresh
<1> QED
  BY <1>1, <1>2, <1>3, <1>4, <1>5, <1>6, <1>7, <1>8, <1>9 DEF Next, Main, Handler, Start

(* Nothing older than the last snapshot runs between builds, unless it is  *)
(* the version saved between the first build's read and the snapshot.      *)
THEOREM RunsTheSnapshot == Spec => []NothingOlderRuns
<1>1. Inv /\ Fresh /\ [Next]_vars => Fresh'
  BY FreshStep DEF Inv, Known
<1>2. Inv /\ Fresh => NothingOlderRuns
  <2> SUFFICES ASSUME Inv, Fresh, main = "sleep", ~Overlooked(last), NEW c \in alive
               PROVE  last <= runs[c] /\ runs[c] <= saves
    BY DEF NothingOlderRuns
  <2>1. c = cur /\ cur # NoChild
    BY DEF Inv, OneKnown, AliveKnown
  <2>2. started
    BY DEF Inv, StartsCounted
  <2> QED
    BY <2>1, <2>2 DEF Fresh, FreshLater
<1> QED
  BY Invariance, FreshInit, <1>1, <1>2, PTL DEF Spec

(* The mutex of stop() is held by a goroutine that is reaping: the main    *)
(* goroutine and the signal's never wait for each other for ever.          *)
THEOREM StopIsReleased == Spec => []LockIsReleased
<1>1. Init => LockIsReleased
  BY DEF Init, LockIsReleased
<1>2. Inv /\ LockIsReleased /\ [Next]_vars => LockIsReleased'
  <2> SUFFICES ASSUME Inv, LockIsReleased, [Next]_vars PROVE LockIsReleased'
    OBVIOUS
  <2> USE DEF LockIsReleased, At
  <2>0. mu \in {Nobody, "main", "handler"} /\ (main = "reap" => mu = "main")
        /\ (handler = "reap" => mu = "handler") /\ Nobody \notin {"main", "handler"}
    BY DEF Inv, TypeOK, LockHeld, Nobody
  <2>1. CASE BuildStats \/ BuildCompiles \/ BuildLinks \/ BuildRemoves \/ Spawns \/ FirstSnapshot \/ Polls
    <3>1. UNCHANGED <<mu, handler>> /\ main # "reap" /\ main # "exited"
      BY <2>1 DEF BuildStats, BuildCompiles, BuildLinks, BuildRemoves, Spawns, FirstSnapshot, Polls,
         children
    <3> QED
      BY <2>0, <3>1
  <2>2. CASE Records
    BY <2>2 DEF Records
  <2>3. ASSUME NEW g \in {"main", "handler"}, StopLocks(g) PROVE LockIsReleased'
    BY <2>0, <2>3 DEF StopLocks, Moves
  <2>4. ASSUME NEW g \in {"main", "handler"}, StopReaps(g) PROVE LockIsReleased'
    BY <2>4 DEF StopReaps
  <2>5. CASE Signal \/ CleansUp
    BY <2>0, <2>5 DEF Signal, CleansUp, children
  <2>6. CASE Exits
    BY <2>6 DEF Exits
  <2>7. CASE Save \/ ChildExits \/ UNCHANGED vars
    BY <2>7 DEF Save, ChildExits, vars, children
  <2> QED
    BY <2>1, <2>2, <2>3, <2>4, <2>5, <2>6, <2>7 DEF Next, Main, Handler, Start, Stop
<1> QED
  BY Invariance, <1>1, <1>2, PTL DEF Spec
===============================================================================
