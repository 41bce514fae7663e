-------------------------------- MODULE DirBuild --------------------------------
(***************************************************************************)
(* `glisp build dir/` (internal/compiler/compiler.go, compileDir, and the  *)
(* core library of internal/transpiler/core_inject.go): every .glsp of a   *)
(* directory becomes a .go beside it, what they share goes to              *)
(* glisp_runtime.go and glisp_core.go, and go build takes whatever .go the *)
(* directory holds.  Between and during builds the user saves and deletes  *)
(* sources; a build may be killed, a write may fail.                       *)
(*                                                                         *)
(* A source is what matters of it: whether it parses and transpiles, its   *)
(* ns, what it declares and calls, the runtime helpers and the core        *)
(* namespaces it uses.  A .go is its package, what it declares and what it *)
(* refers to.                                                              *)
(***************************************************************************)
EXTENDS Integers, Sequences, SequencesExt

CONSTANTS
  Glob,        \* the source files the directory may hold, as filepath.Glob sorts them
  Texts,       \* what may be in one
  Core,        \* the core namespaces
  CoreCalls,   \* the core namespaces each one uses
  CoreNeeds,   \* the runtime helpers each one uses
  MaxSaves     \* bound: saves and deletions

Runtime == "glisp_runtime.go"
CoreFile == "glisp_core.go"
Files == ToSet(Glob)

(* No source's .go is one of the two the build adds: compileDir does not   *)
(* look whether there is a glisp_runtime.glsp.                             *)
ASSUME DirBuildAssumption ==
  /\ Glob \in Seq(Files) /\ Runtime \notin Files /\ CoreFile \notin Files
  /\ CoreCalls \in [Core -> SUBSET Core] /\ "base" \notin Core
  /\ \A n \in Core : CoreNeeds[n] \cap Core = {}
  /\ MaxSaves \in Nat

VARIABLES
  sources,   \* the text of each .glsp there is
  disk,      \* the .go files there are: by their source, and the two above
  at,        \* where the build is
  todo,      \* sources it has not read, or .go files it has not written
  read,      \* the texts it has read
  result,    \* how the last build ended
  binary,    \* the .go files linked
  saves,
  undisturbed  \* history: nothing was saved since the build began

vars == <<sources, disk, at, todo, read, result, binary, saves, undisturbed>>

-----------------------------------------------------------------------------
(* What is generated *)

\* Files are read and written in this order.
Order == Glob \o <<Runtime, CoreFile>>
First(files) == Order[Min({i \in DOMAIN Order : Order[i] \in files})]

Used(texts) == UNION {texts[f].needs \cup texts[f].core : f \in DOMAIN texts}

\* CoreSource emits again until what it emitted needs no other namespace.
Unclosed(namespaces) == namespaces
Closure(namespaces) ==
  {n \in Core : \A C \in SUBSET Core : namespaces \subseteq C /\ (\A c \in C : CoreCalls[c] \subseteq C) => n \in C}
coreNamespaces(texts) == Closure(Used(texts) \cap Core)
coreBuiltins(texts) == UNION {CoreNeeds[n] : n \in coreNamespaces(texts)}

Generated(text) == [pkg |-> text.ns, defs |-> text.defs, uses |-> text.calls \cup text.needs \cup text.core]
\* "base" is what every runtime has.
RuntimeSource(pkg, builtins) == [pkg |-> pkg, defs |-> {"base"} \cup (builtins \ Core), uses |-> {}]
CoreSource(pkg, texts) ==
  [pkg |-> pkg, defs |-> coreNamespaces(texts),
   uses |-> coreBuiltins(texts) \cup UNION {CoreCalls[n] : n \in coreNamespaces(texts)}]
\* The .go of a single-file build carries its helpers itself.
Standalone(text) ==
  LET one == [f \in {Head(Glob)} |-> text]
  IN [pkg |-> text.ns, defs |-> {"base"} \cup text.defs \cup text.needs \cup coreNamespaces(one) \cup coreBuiltins(one),
      uses |-> text.calls]
Torn == [pkg |-> "", defs |-> {}, uses |-> {}]

pkgName == read[First(DOMAIN read)].ns
GoSource(file) ==
  CASE file = Runtime -> RuntimeSource(pkgName, Used(read) \cup coreBuiltins(read))
    [] file = CoreFile -> CoreSource(pkgName, read)
    [] OTHER -> Generated(read[file])

-----------------------------------------------------------------------------
(* go build *)

Disjoint(gos) == \A a, b \in DOMAIN gos : a # b => gos[a].defs \cap gos[b].defs = {}
Resolved(gos) == UNION {gos[a].uses : a \in DOMAIN gos} \subseteq UNION {gos[a].defs : a \in DOMAIN gos}
OnePackage(gos) == \E pkg \in {gos[a].pkg : a \in DOMAIN gos} \ {""} : \A a \in DOMAIN gos : gos[a].pkg = pkg
Compiles(gos) == OnePackage(gos) /\ Disjoint(gos) /\ Resolved(gos)

-----------------------------------------------------------------------------
Init ==
  /\ sources \in [Files -> Texts]
  /\ disk = [a \in {} |-> Torn] /\ binary = [a \in {} |-> Torn]
  /\ at = "idle" /\ todo = {} /\ read = [f \in {} |-> 0] /\ result = "none"
  /\ saves = 0 /\ undisturbed = TRUE

(* The user. *)

Save ==
  /\ saves < MaxSaves /\ saves' = saves + 1
  /\ \E f \in Files, text \in Texts : sources' = [g \in DOMAIN sources \cup {f} |-> IF g = f THEN text ELSE sources[g]]
  /\ undisturbed' = FALSE
  /\ UNCHANGED <<disk, at, todo, read, result, binary>>

Delete ==
  /\ saves < MaxSaves /\ saves' = saves + 1
  /\ \E f \in DOMAIN sources : sources' = [g \in DOMAIN sources \ {f} |-> sources[g]]
  /\ undisturbed' = FALSE
  /\ UNCHANGED <<disk, at, todo, read, result, binary>>

\* glisp build file.glsp, in one step: a failed write or a kill leaves it torn.
BuildFile ==
  /\ at = "idle"
  /\ \E f \in DOMAIN sources :
       /\ sources[f].state = "good"
       /\ \E go \in {Standalone(sources[f]), Torn} :
            disk' = [a \in DOMAIN disk \cup {f} |-> IF a = f THEN go ELSE disk[a]]
  /\ UNCHANGED <<sources, at, todo, read, result, binary, saves, undisturbed>>

(* compileDir *)

Ends(how) == at' = "idle" /\ result' = how /\ todo' = {}

Begin ==
  /\ at = "idle" /\ undisturbed' = TRUE /\ read' = [f \in {} |-> 0]
  /\ IF DOMAIN sources = {} THEN Ends("sourceError")
     ELSE at' = "collect" /\ todo' = DOMAIN sources /\ result' = "none"
  /\ UNCHANGED <<sources, disk, binary, saves>>

Collects ==
  /\ at = "collect"
  /\ LET f == First(todo) IN
       IF f \in DOMAIN sources /\ sources[f].state # "badParse"
         THEN /\ read' = [g \in DOMAIN read \cup {f} |-> IF g = f THEN sources[f] ELSE read[g]]
              /\ todo' = todo \ {f}
              /\ at' = IF todo = {f} THEN "transpile" ELSE at
              /\ UNCHANGED result
         ELSE Ends("sourceError") /\ UNCHANGED read
  /\ UNCHANGED <<sources, disk, binary, saves, undisturbed>>

\* Mutant: a .go that is there is not written again.
FilesMissing ==
  (DOMAIN read \ DOMAIN disk) \cup {Runtime}
    \cup (IF coreNamespaces(read) = {} THEN {} ELSE {CoreFile})

FilesToWrite ==
  DOMAIN read \cup {Runtime} \cup (IF coreNamespaces(read) = {} THEN {} ELSE {CoreFile})

Transpiles ==
  /\ at = "transpile"
  /\ IF \A f, g \in DOMAIN read : read[f].state = "good" /\ read[f].ns = read[g].ns
       THEN at' = "write" /\ todo' = FilesToWrite /\ UNCHANGED result
       ELSE Ends("sourceError")
  /\ UNCHANGED <<sources, disk, read, binary, saves, undisturbed>>

Put(file, go) == disk' = [a \in DOMAIN disk \cup {file} |-> IF a = file THEN go ELSE disk[a]]

Writes ==
  /\ at = "write"
  /\ LET file == First(todo) IN
       /\ Put(file, GoSource(file))
       /\ todo' = todo \ {file}
       /\ at' = IF todo = {file} THEN "link" ELSE at
  /\ UNCHANGED <<sources, read, result, binary, saves, undisturbed>>

\* os.WriteFile has emptied the file.
WriteFails ==
  /\ at = "write"
  /\ Put(First(todo), Torn)
  /\ Ends("writeError")
  /\ UNCHANGED <<sources, read, binary, saves, undisturbed>>

Killed ==
  /\ at # "idle"
  /\ Ends("killed")
  /\ UNCHANGED <<sources, disk, read, binary, saves, undisturbed>>

GoBuild ==
  /\ at = "link"
  /\ Ends(IF Compiles(disk) THEN "built" ELSE "goError")
  /\ binary' = IF Compiles(disk) THEN disk ELSE binary
  /\ UNCHANGED <<sources, disk, read, saves, undisturbed>>

Next ==
  \/ Save \/ Delete \/ BuildFile
  \/ Begin \/ Collects \/ Transpiles \/ Writes \/ WriteFails \/ Killed \/ GoBuild

Spec == Init /\ [][Next]_vars

-----------------------------------------------------------------------------
Drafts == UNION {[S -> Texts] : S \in SUBSET Files}

TypeOK ==
  /\ sources \in Drafts /\ read \in Drafts
  /\ DOMAIN disk \subseteq ToSet(Order) /\ DOMAIN binary \subseteq DOMAIN disk
  /\ at \in {"idle", "collect", "transpile", "write", "link"}
  /\ todo \subseteq ToSet(Order) /\ (todo # {} <=> at \in {"collect", "write"})
  /\ result \in {"none", "sourceError", "writeError", "killed", "goError", "built"}
  /\ saves \in 0..MaxSaves /\ undisturbed \in BOOLEAN

\* A build that succeeds while nobody touches the sources links what they say,
\* whatever earlier builds left: the .go of every source, the runtime with the
\* helpers they use and, if they use any of it, the core library.  What else it
\* links was left behind: the .go of a source that is gone, or a glisp_core.go
\* the sources no longer use.
BuildIsCurrent ==
  result = "built" /\ undisturbed =>
    LET pkg == binary[Runtime].pkg IN
    /\ \A f \in DOMAIN sources : binary[f] = Generated(sources[f])
    /\ binary[Runtime] = RuntimeSource(pkg, Used(sources) \cup coreBuiltins(sources))
    /\ coreNamespaces(sources) # {} => binary[CoreFile] = CoreSource(pkg, sources)

\* Building again heals: after any failed, killed or single-file build, sources
\* that fit together (and declare nothing that is generated for them) fail in
\* go build only if the directory holds a .go that this build did not write, of
\* a deleted source, or the core library of a build whose sources still used it.
Fit(texts) ==
  LET gos == [f \in DOMAIN texts |-> [Generated(texts[f]) EXCEPT !.uses = texts[f].calls]] IN
  /\ Compiles(gos)
  /\ \A f \in DOMAIN texts :
       texts[f].defs \cap ({"base"} \cup Used(texts) \cup coreBuiltins(texts) \cup Core) = {}
LeftBehind == DOMAIN disk \ FilesToWrite
RebuildHeals == result = "goError" /\ Fit(read) => LeftBehind # {}
=============================================================================
