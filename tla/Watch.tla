--------------------------------- MODULE Watch ---------------------------------
(***************************************************************************)
(* `glisp run --watch file.glsp` (cmd/glisp/main.go, runWatch): the main   *)
(* goroutine builds and runs the target, polls its fingerprint and         *)
(* restarts it on a change; a second goroutine waits for SIGINT or SIGTERM *)
(* and cleans up.  The build is BuildTarget of internal/compiler for a     *)
(* single file.  The user saves the file at any time, in any state: it may *)
(* be missing, not be glisp, or be glisp whose Go does not compile.        *)
(*                                                                         *)
(* A version of the file is numbered by the saves before it, and stands    *)
(* for its fingerprint (path, modification time, size).                    *)
(***************************************************************************)
EXTENDS Naturals, Sequences, FiniteSets

CONSTANT MaxSaves  \* bound: saves of the file

ASSUME SavesAssumption == MaxSaves \in Nat

Contents == {"good", "badGo", "badGlisp", "missing"}
Nobody   == "nobody"
NoChild  == 0

VARIABLES
  saves, content,  \* the file: its version, and what is in it
  goFile,          \* the generated .go is in the source directory
  preexisted,      \* goPreexisted
  compiled,        \* the version the .go and then the binary were built from
  valid,           \* that .go compiles
  tmpDir,          \* the temporary directory is there
  main, handler,   \* where the two goroutines are
  started,         \* main is past its first build
  last,            \* the last snapshot
  mu,              \* holder of mu
  cur,             \* the recorded child
  child,           \* the child start() has started and not yet recorded
  alive,           \* children running: 1, 2, ... in the order they started
  runs,            \* the version each child was built from
  (* History. *)
  missed,          \* the last version saved between the first build's read and the
                   \* first snapshot; 0 if there is none
  leftover,        \* the .go was there at first, or a go build has failed
  escaped          \* a child was started, or not yet recorded, when the handler had
                   \* stopped the recorded one

files    == <<saves, content>>
build    == <<goFile, preexisted, compiled, valid>>
children == <<mu, cur, child, alive, runs>>
history  == <<missed, leftover, escaped>>
vars == <<files, build, tmpDir, main, handler, started, last, children, history>>

Init ==
  /\ saves = 0 /\ content \in Contents
  /\ goFile \in BOOLEAN /\ preexisted = FALSE /\ compiled = 0 /\ valid = FALSE
  /\ tmpDir = TRUE
  /\ main = "stat" /\ handler = "waiting"
  /\ started = FALSE /\ last = 0
  /\ mu = Nobody /\ cur = NoChild /\ child = NoChild /\ alive = {} /\ runs = <<>>
  /\ missed = 0 /\ leftover = goFile /\ escaped = FALSE

-------------------------------------------------------------------------------
(* Saving the file; a child may also end on its own. *)

(* The first build has read the file, and the first snapshot not yet. *)
Unwatched == ~started /\ main \notin {"stat", "compile"}

Save ==
  /\ saves < MaxSaves
  /\ saves' = saves + 1
  /\ content' \in Contents
  /\ missed' = IF Unwatched THEN saves + 1 ELSE missed
  /\ UNCHANGED <<build, tmpDir, main, handler, started, last, children, leftover,
                 escaped>>

ChildExits ==
  /\ \E c \in alive : alive' = alive \ {c}
  /\ UNCHANGED <<files, build, tmpDir, main, handler, started, last, mu, cur, child,
                 runs, history>>

-------------------------------------------------------------------------------
(* start(), with BuildTarget: stat, transpile, go build, remove the .go.   *)

AfterStart == IF started THEN "sleep" ELSE "snapshot"

BuildStats ==
  /\ main = "stat"
  /\ preexisted' = goFile
  /\ main' = IF content = "missing" THEN AfterStart ELSE "compile"
  /\ UNCHANGED <<files, goFile, compiled, valid, tmpDir, handler, started, last, children,
                 history>>

BuildCompiles ==
  /\ main = "compile"
  /\ IF content \in {"missing", "badGlisp"}
       THEN main' = AfterStart /\ UNCHANGED <<goFile, compiled, valid>>
       ELSE /\ main' = "goBuild"
            /\ goFile' = TRUE /\ compiled' = saves /\ valid' = (content = "good")
  /\ UNCHANGED <<files, preexisted, tmpDir, handler, started, last, children, history>>

(* go build writes the binary, and makes the temporary directory for it    *)
(* when the signal goroutine has removed it.                               *)
BuildLinks ==
  /\ main = "goBuild"
  /\ main' = IF valid THEN "remove" ELSE AfterStart
  /\ tmpDir' = (tmpDir \/ valid)
  /\ leftover' = (leftover \/ ~valid)
  /\ UNCHANGED <<files, build, handler, started, last, children, missed, escaped>>

(* Mutant: the generated .go is kept. *)
BuildKeeps ==
  /\ main = "remove" /\ main' = "spawn"
  /\ UNCHANGED <<files, build, tmpDir, handler, started, last, children, history>>

BuildRemoves ==
  /\ main = "remove" /\ main' = "spawn"
  /\ goFile' = (goFile /\ preexisted)
  /\ UNCHANGED <<files, preexisted, compiled, valid, tmpDir, handler, started, last, children,
                 history>>

(* c.Start() and, apart from it, cur = c. *)
Spawns ==
  /\ main = "spawn"
  /\ IF tmpDir
       THEN /\ child' = Len(runs) + 1
            /\ runs' = Append(runs, compiled)
            /\ alive' = alive \cup {child'}
            /\ main' = "record"
            /\ escaped' = (escaped \/ handler \in {"cleanup", "exit"})
       ELSE main' = AfterStart /\ UNCHANGED <<child, runs, alive, escaped>>
  /\ UNCHANGED <<files, build, tmpDir, handler, started, last, mu, cur, missed, leftover>>

Records ==
  /\ main = "record" /\ mu = Nobody
  /\ cur' = child /\ child' = NoChild
  /\ main' = AfterStart
  /\ UNCHANGED <<files, build, tmpDir, handler, started, last, mu, alive, runs, history>>

Start == BuildStats \/ BuildCompiles \/ BuildLinks \/ BuildRemoves \/ Spawns \/ Records

-------------------------------------------------------------------------------
(* stop(), called by both goroutines: kill the recorded child and reap it  *)
(* under mu.                                                               *)

At(g) == IF g = "main" THEN main ELSE handler

Moves(g, to) ==
  IF g = "main" THEN main' = to /\ UNCHANGED handler ELSE handler' = to /\ UNCHANGED main

AfterStop(g) == IF g = "main" THEN "stat" ELSE "cleanup"

(* The handler stops the recorded child, if any, when main may have one    *)
(* started and not recorded.                                               *)
Overlooks(g) == g = "handler" /\ main = "record"

(* Mutant: only main's stop() kills; the handler just forgets the child.   *)
StopForgets(g) ==
  /\ At(g) = "stop" /\ mu = Nobody
  /\ IF cur = NoChild
       THEN Moves(g, AfterStop(g)) /\ UNCHANGED <<mu, alive>>
       ELSE /\ alive' = IF g = "main" THEN alive \ {cur} ELSE alive
            /\ mu' = g
            /\ Moves(g, "reap")
  /\ escaped' = (escaped \/ Overlooks(g))
  /\ UNCHANGED <<files, build, tmpDir, started, last, cur, child, runs, missed, leftover>>

StopLocks(g) ==
  /\ At(g) = "stop" /\ mu = Nobody
  /\ IF cur = NoChild
       THEN Moves(g, AfterStop(g)) /\ UNCHANGED <<mu, alive>>
       ELSE /\ alive' = alive \ {cur}
            /\ mu' = g
            /\ Moves(g, "reap")
  /\ escaped' = (escaped \/ Overlooks(g))
  /\ UNCHANGED <<files, build, tmpDir, started, last, cur, child, runs, missed, leftover>>

(* Mutant: the deferred Unlock is forgotten when a child was killed. *)
StopKeepsLock(g) ==
  /\ At(g) = "reap"
  /\ cur' = NoChild
  /\ Moves(g, AfterStop(g))
  /\ UNCHANGED <<files, build, tmpDir, started, last, mu, child, alive, runs, history>>

StopReaps(g) ==
  /\ At(g) = "reap"
  /\ cur' = NoChild /\ mu' = Nobody
  /\ Moves(g, AfterStop(g))
  /\ UNCHANGED <<files, build, tmpDir, started, last, child, alive, runs, history>>

Stop(g) == StopLocks(g) \/ StopReaps(g)

-------------------------------------------------------------------------------
(* The polling loop.  The first snapshot comes after the first build, the  *)
(* others before the build they cause.                                     *)

FirstSnapshot ==
  /\ main = "snapshot" /\ main' = "sleep"
  /\ last' = saves /\ started' = TRUE
  /\ UNCHANGED <<files, build, tmpDir, handler, children, history>>

(* Mutant: the new process is started before the old one is stopped. *)
PollStarts ==
  /\ main = "sleep" /\ saves # last
  /\ last' = saves /\ main' = "stat"
  /\ UNCHANGED <<files, build, tmpDir, handler, started, children, history>>

(* Mutant: only the number of files is compared. *)
PollMisses ==
  /\ main = "sleep" /\ saves # last /\ content = "missing"
  /\ last' = saves /\ main' = "stop"
  /\ UNCHANGED <<files, build, tmpDir, handler, started, children, history>>

Polls ==
  /\ main = "sleep" /\ saves # last
  /\ last' = saves /\ main' = "stop"
  /\ UNCHANGED <<files, build, tmpDir, handler, started, children, history>>

Main == Start \/ Stop("main") \/ FirstSnapshot \/ Polls

-------------------------------------------------------------------------------
(* The signal goroutine.  A signal reaches glisp alone, as SIGTERM does; a *)
(* second one stays in sigCh.                                              *)

Signal ==
  /\ handler = "waiting" /\ handler' = "stop"
  /\ UNCHANGED <<files, build, tmpDir, main, started, last, children, history>>

CleansUp ==
  /\ handler = "cleanup" /\ handler' = "exit"
  /\ tmpDir' = FALSE
  /\ UNCHANGED <<files, build, main, started, last, children, history>>

(* os.Exit ends both goroutines wherever they are. *)
Exits ==
  /\ handler = "exit" /\ main # "exited"
  /\ main' = "exited" /\ handler' = "exited"
  /\ UNCHANGED <<files, build, tmpDir, started, last, children, history>>

Handler == Stop("handler") \/ CleansUp \/ Exits

Next == Main \/ Handler \/ Signal \/ Save \/ ChildExits

(* The goroutines run; the user, the children and signals owe nothing. *)
Spec == Init /\ [][Next]_vars /\ WF_vars(Main) /\ WF_vars(Handler)

-------------------------------------------------------------------------------
Children == 1..(MaxSaves + 1)

TypeOK ==
  /\ saves \in 0..MaxSaves /\ content \in Contents
  /\ goFile \in BOOLEAN /\ preexisted \in BOOLEAN /\ compiled \in 0..MaxSaves
  /\ valid \in BOOLEAN /\ tmpDir \in BOOLEAN
  /\ main \in {"stat", "compile", "goBuild", "remove", "spawn", "record", "snapshot", "sleep",
               "stop", "reap", "exited"}
  /\ handler \in {"waiting", "stop", "reap", "cleanup", "exit", "exited"}
  /\ started \in BOOLEAN /\ last \in 0..MaxSaves
  /\ mu \in {Nobody, "main", "handler"}
  /\ cur \in Children \cup {NoChild} /\ child \in Children \cup {NoChild}
  /\ alive \subseteq Children
  /\ runs \in Seq(0..MaxSaves) /\ Len(runs) <= MaxSaves + 1
  /\ missed \in 0..MaxSaves /\ leftover \in BOOLEAN /\ escaped \in BOOLEAN

(* The old process is killed before the new one starts, so that a server   *)
(* finds its port free: never two children, whatever the signal goroutine  *)
(* does meanwhile.                                                         *)
OneChild == Cardinality(alive) <= 1

(* "A generated .go that did not exist beforehand is removed afterward":   *)
(* between builds none is there, until a go build has failed (BuildTarget  *)
(* then returns before the removal, and finds the file there from then on).*)
SourceClean == main = "sleep" /\ goFile => leftover

(* "Any edit, addition, or removal changes the result": once the user      *)
(* stops saving, the watcher has seen the last version of the file and     *)
(* nothing older runs, unless it is this last version that was saved after *)
(* the first build had read the file and before the first snapshot.  An    *)
(* overlooked version is made good by the next save.                       *)
Overlooked(v) == v # 0 /\ v = missed

LastSaveRuns ==
  <>[](\/ main = "exited" \/ Overlooked(saves)
       \/ main = "sleep" /\ last = saves /\ \A c \in alive : runs[c] = saves)

(* A signal ends glisp, in the middle of a build or of a restart too: the  *)
(* two goroutines never wait for each other in stop().                     *)
SignalExits == handler = "stop" ~> main = "exited"

(* "Clean up the child and temp dir on Ctrl-C / SIGTERM": when glisp is    *)
(* gone, so is the program it started, whatever main was doing, except in  *)
(* two windows: main had started it and not yet recorded it when the       *)
(* handler looked, or started it afterwards, before os.Exit.               *)
NoOrphanUnlessRaced == main = "exited" => alive = {} \/ escaped

-------------------------------------------------------------------------------
(* What the two liveness properties rest on that needs no fairness.        *)

(* Between builds nothing older than the last snapshot runs, but when the  *)
(* snapshot is the version overlooked at the start: a version that main    *)
(* does not know of differs from the snapshot, and the next poll sees it.  *)
NothingOlderRuns ==
  main = "sleep" /\ ~Overlooked(last) => \A c \in alive : last <= runs[c] /\ runs[c] <= saves

(* Who holds mu has only to reap its child, for which it waits on nobody;  *)
(* so the one that waits for mu in stop() gets it.                         *)
LockIsReleased == main # "exited" /\ mu # Nobody => At(mu) = "reap"
================================================================================
