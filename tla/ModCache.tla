------------------------------- MODULE ModCache -------------------------------
(***************************************************************************)
(* Dependency resolution: ResolveDeps and GetModule of internal/compiler   *)
(* with internal/module, as `glisp build` and `glisp get` run them in      *)
(* several projects at once over the one module cache of the user.  Each   *)
(* project depends on the same module, at a version; the module has glisp  *)
(* sources, a glisp.mod and a Go dependency of its own.                    *)
(*                                                                         *)
(* A download, an extraction, a transpilation or a `go` command may fail,  *)
(* and glisp may be killed between any two steps.                          *)
(***************************************************************************)
EXTENDS Naturals, Sequences, FiniteSets, SequencesExt

CONSTANTS
  Projects,    \* project directories, one glisp at a time in each
  Versions,    \* versions of the module
  None,        \* no version
  Sources,     \* the module's .glsp files
  MaxCommands, \* bound: glisp commands and edits of glisp.mod
  MaxKills     \* bound: glisp processes killed

ASSUME CacheAssumption ==
  /\ None \notin Versions
  /\ Sources # {} /\ "glisp.mod" \notin Sources /\ "runtime" \notin Sources
  /\ MaxCommands \in Nat /\ MaxKills \in Nat

Archive   == Sources \cup {"glisp.mod"}
Generated == Sources \cup {"runtime"}  \* one .go per source, and glisp_runtime.go

(* One module directory of the cache; goDep is its Go dependency in go.mod. *)
Absent == [dir |-> FALSE, files |-> {}, goMod |-> FALSE, goDep |-> FALSE, gen |-> {}]

(* A project: the version glisp.mod requires, the one go.mod requires, and *)
(* go.mod's replace directives, to this machine's cache or (here = FALSE)  *)
(* to another's; goDep is the module's Go dependency in go.mod, goPkg the  *)
(* version of the module's path as a go-require of glisp.mod.              *)
VARIABLES
  cache, project,
  pc,       \* where each project's glisp is; "idle" when none runs
  getting,  \* `glisp get` rather than `glisp build`
  want,     \* the version it is resolving
  left,     \* files still to be extracted, or .go files still to be written
  hasMod,   \* GetModule read a glisp.mod with a Go dependency
  viaCache, \* the module was found cached
  commands, kills,
  (* History. *)
  spoiled,  \* versions of which a get was killed, failed after the extraction or overlapped
  drifted   \* projects where glisp.mod was edited by hand, or only go.mod was updated

process == <<getting, want, left, hasMod, viaCache>>
vars == <<cache, project, pc, process, commands, kills, spoiled, drifted>>

Replace(v, here) == [v |-> v, here |-> here]

NewProjects ==
  { [required |-> r, goMod |-> FALSE, goRequire |-> None, replaces |-> <<>>, goDep |-> FALSE,
     goPkg |-> None] : r \in Versions \cup {None} }

(* A fresh clone with another machine's go.mod. *)
ClonedProjects ==
  { [required |-> v, goMod |-> TRUE, goRequire |-> v, replaces |-> <<Replace(v, FALSE)>>,
     goDep |-> TRUE, goPkg |-> None] : v \in Versions }

Init ==
  /\ cache = [v \in Versions |-> Absent]
  /\ project \in [Projects -> NewProjects \cup ClonedProjects]
  /\ pc = [q \in Projects |-> "idle"]
  /\ getting = [q \in Projects |-> FALSE]
  /\ want = [q \in Projects |-> None]
  /\ left = [q \in Projects |-> {}]
  /\ hasMod = [q \in Projects |-> FALSE] /\ viaCache = [q \in Projects |-> FALSE]
  /\ commands = 0 /\ kills = 0
  /\ spoiled = {} /\ drifted = {}

Goto(q, to) == pc' = [pc EXCEPT ![q] = to]

Entry(q) == cache[want[q]]
SetCache(q, entry) == cache' = [cache EXCEPT ![want[q]] = entry]

(* The process is gone, and its variables with it. *)
Exits(q) ==
  /\ Goto(q, "idle")
  /\ getting' = [getting EXCEPT ![q] = FALSE]
  /\ want' = [want EXCEPT ![q] = None]
  /\ left' = [left EXCEPT ![q] = {}]
  /\ hasMod' = [hasMod EXCEPT ![q] = FALSE]
  /\ viaCache' = [viaCache EXCEPT ![q] = FALSE]

(* A get is under way between the download and the registration. *)
Busy(q) == pc[q] \in {"extract", "readMod", "ensureMod", "modEdit", "collect", "write"}

(* The command is over, with an error or killed: what it has done stays.   *)
Ends(q) ==
  /\ Exits(q)
  /\ spoiled' = IF Busy(q) THEN spoiled \cup {want[q]} ELSE spoiled
  /\ drifted' = IF pc[q] \in {"replace", "propagate", "record", "goRecord"}
                THEN drifted \cup {q} ELSE drifted
  /\ UNCHANGED <<cache, project, commands>>

(* A version is looked up or extracted while another get of it is busy, or  *)
(* extracted over what another get has put there since Download looked.    *)
Overlap(q) ==
  spoiled' = IF \/ \E r \in Projects \ {q} : Busy(r) /\ want[r] = want[q]
                \/ pc[q] = "fetch" /\ Entry(q).dir
             THEN spoiled \cup {want[q]} ELSE spoiled

-------------------------------------------------------------------------------
(* The commands, and the user's hand on glisp.mod.  A project that requires *)
(* nothing has no dependency to resolve.  EnsureProjectGoMod comes first: a *)
(* go-require of glisp.mod, also one of the module's own path, goes into   *)
(* go.mod again.  `glisp get -go` does not ask for a glisp module.         *)

Synced(m) == [m EXCEPT !.goMod = TRUE,
                       !.goRequire = IF m.goPkg = None THEN m.goRequire ELSE m.goPkg]

Begins(q, v, get, at) ==
  /\ pc[q] = "idle" /\ commands < MaxCommands
  /\ commands' = commands + 1
  /\ project' = [project EXCEPT ![q] = Synced(@)]
  /\ want' = [want EXCEPT ![q] = v]
  /\ getting' = [getting EXCEPT ![q] = get]
  /\ viaCache' = [viaCache EXCEPT ![q] = FALSE]
  /\ Goto(q, at)
  /\ UNCHANGED <<cache, left, hasMod, kills, spoiled, drifted>>

Build(q) ==
  project[q].required # None /\ Begins(q, project[q].required, FALSE, "resolve")

Get(q) == \E v \in Versions, at \in {"download", "goGet"} : Begins(q, v, TRUE, at)

Edits(q) ==
  /\ pc[q] = "idle" /\ commands < MaxCommands
  /\ \E v \in Versions \ {project[q].required} :
       project' = [project EXCEPT ![q].required = v]
  /\ commands' = commands + 1
  /\ drifted' = drifted \cup {q}
  /\ UNCHANGED <<cache, pc, process, kills, spoiled>>

-------------------------------------------------------------------------------
(* ResolveDeps, for the one requirement. *)

IsCached(v) == cache[v].goMod

(* The first replace directive of the module's path, of whatever version.  *)
ProjectReplaceValid(q) ==
  LET rs == project[q].replaces IN rs # <<>> /\ rs[1].here /\ cache[rs[1].v].dir

(* Mutant: the replace directive is not looked at. *)
ResolveTrusts(q) ==
  /\ pc[q] = "resolve"
  /\ Goto(q, IF IsCached(want[q]) THEN "goBuild" ELSE "download")
  /\ UNCHANGED <<cache, project, process, commands, kills, spoiled, drifted>>

Resolve(q) ==
  /\ pc[q] = "resolve"
  /\ LET cached == IsCached(want[q]) IN
       /\ Goto(q, IF ~cached THEN "download"
                  ELSE IF ProjectReplaceValid(q) THEN "goBuild" ELSE "require")
       /\ viaCache' = [viaCache EXCEPT ![q] = cached]
  /\ Overlap(q)
  /\ UNCHANGED <<cache, project, getting, want, left, hasMod, commands, kills, drifted>>

-------------------------------------------------------------------------------
(* GetModule: download, extract, go.mod, transpile. *)

(* A directory that is there counts as downloaded. *)
Download(q) ==
  /\ pc[q] = "download"
  /\ IF Entry(q).dir THEN Goto(q, "readMod") /\ Overlap(q)
                     ELSE Goto(q, "fetch") /\ UNCHANGED spoiled
  /\ UNCHANGED <<cache, project, process, commands, kills, drifted>>

Fetch(q) ==
  /\ pc[q] = "fetch"
  /\ SetCache(q, [Entry(q) EXCEPT !.dir = TRUE])
  /\ left' = [left EXCEPT ![q] = Archive]
  /\ Goto(q, "extract") /\ Overlap(q)
  /\ UNCHANGED <<project, getting, want, hasMod, viaCache, commands, kills, drifted>>

(* HTTP 404: `glisp get` falls back on a Go package. *)
NotFound(q) ==
  /\ pc[q] = "fetch" /\ getting[q]
  /\ Goto(q, "goGet")
  /\ UNCHANGED <<cache, project, process, commands, kills, spoiled, drifted>>

Extract(q) ==
  /\ pc[q] = "extract"
  /\ IF left[q] = {} THEN Goto(q, "readMod") /\ UNCHANGED <<cache, left>>
     ELSE \E f \in left[q] :
            /\ SetCache(q, [Entry(q) EXCEPT !.dir = TRUE, !.files = @ \cup {f}])
            /\ left' = [left EXCEPT ![q] = @ \ {f}]
            /\ UNCHANGED pc
  /\ UNCHANGED <<project, getting, want, hasMod, viaCache, commands, kills, spoiled, drifted>>

(* Mutant: what was extracted is left behind. *)
ExtractLeaves(q) ==
  /\ pc[q] = "extract"
  /\ Exits(q)
  /\ UNCHANGED <<cache, project, commands, kills, spoiled, drifted>>

ExtractFails(q) ==
  /\ pc[q] = "extract"
  /\ SetCache(q, Absent)
  /\ Exits(q)
  /\ UNCHANGED <<project, commands, kills, spoiled, drifted>>

ReadMod(q) ==
  /\ pc[q] = "readMod"
  /\ hasMod' = [hasMod EXCEPT ![q] = "glisp.mod" \in Entry(q).files]
  /\ Goto(q, "ensureMod")
  /\ UNCHANGED <<cache, project, getting, want, left, viaCache, commands, kills, spoiled, drifted>>

(* EnsureGoMod: from here on the module counts as cached. *)
EnsureMod(q) ==
  /\ pc[q] = "ensureMod" /\ Entry(q).dir
  /\ SetCache(q, [Entry(q) EXCEPT !.goMod = TRUE])
  /\ Goto(q, IF hasMod[q] /\ ~Entry(q).goMod THEN "modEdit" ELSE "collect")
  /\ UNCHANGED <<project, process, commands, kills, spoiled, drifted>>

ModEdit(q) ==
  /\ pc[q] = "modEdit" /\ Entry(q).goMod
  /\ SetCache(q, [Entry(q) EXCEPT !.goDep = TRUE])
  /\ Goto(q, "collect")
  /\ UNCHANGED <<project, process, commands, kills, spoiled, drifted>>

(* TranspileDir: the module's own go.mod is synced with its glisp.mod, and  *)
(* its sources are read and transpiled before any .go is written.          *)
Collect(q) ==
  /\ pc[q] = "collect" /\ Entry(q).files \cap Sources # {}
  /\ IF "glisp.mod" \in Entry(q).files
       THEN SetCache(q, [Entry(q) EXCEPT !.goMod = TRUE, !.goDep = TRUE])
       ELSE UNCHANGED cache
  /\ left' = [left EXCEPT ![q] = (Entry(q).files \cap Sources) \cup {"runtime"}]
  /\ Goto(q, "write")
  /\ UNCHANGED <<project, getting, want, hasMod, viaCache, commands, kills, spoiled, drifted>>

(* "no .glsp files found": not a glisp module either. *)
NoSources(q) ==
  /\ pc[q] = "collect" /\ getting[q] /\ Entry(q).files \cap Sources = {}
  /\ Goto(q, "goGet")
  /\ spoiled' = spoiled \cup {want[q]}
  /\ UNCHANGED <<cache, project, process, commands, kills, drifted>>

(* One file more; the shared runtime is the last. *)
Write(q) ==
  /\ pc[q] = "write" /\ Entry(q).dir
  /\ \E f \in IF left[q] = {"runtime"} THEN left[q] ELSE left[q] \ {"runtime"} :
       /\ SetCache(q, [Entry(q) EXCEPT !.gen = @ \cup {f}])
       /\ left' = [left EXCEPT ![q] = @ \ {f}]
       /\ Goto(q, IF left[q] = {f} THEN "require" ELSE "write")
  /\ UNCHANGED <<project, getting, want, hasMod, viaCache, commands, kills, spoiled, drifted>>

GetModule(q) ==
  \/ Download(q) \/ Fetch(q) \/ Extract(q) \/ ExtractFails(q) \/ ReadMod(q)
  \/ EnsureMod(q) \/ ModEdit(q) \/ Collect(q) \/ Write(q)

-------------------------------------------------------------------------------
(* RegisterInGoMod and what follows: one `go mod edit` each. *)

Require(q) ==
  /\ pc[q] = "require"
  /\ project' = [project EXCEPT ![q].goRequire = want[q]]
  /\ Goto(q, "replace")
  /\ UNCHANGED <<cache, process, commands, kills, spoiled, drifted>>

(* go mod edit -replace updates the directive of this version, or adds one. *)
Replaced(rs, v) ==
  IF \E i \in DOMAIN rs : rs[i].v = v
  THEN [i \in DOMAIN rs |-> IF rs[i].v = v THEN Replace(v, TRUE) ELSE rs[i]]
  ELSE Append(rs, Replace(v, TRUE))

AddReplace(q) ==
  /\ pc[q] = "replace"
  /\ project' = [project EXCEPT ![q].replaces = Replaced(@, want[q])]
  /\ Goto(q, IF viaCache[q] THEN "goBuild" ELSE "propagate")
  /\ UNCHANGED <<cache, process, commands, kills, spoiled, drifted>>

Propagate(q) ==
  /\ pc[q] = "propagate"
  /\ project' = [project EXCEPT ![q].goDep = @ \/ hasMod[q]]
  /\ Goto(q, IF getting[q] THEN "record" ELSE "goBuild")
  /\ UNCHANGED <<cache, process, commands, kills, spoiled, drifted>>

(* getCmd: AddRequire and WriteModFile. *)
Record(q) ==
  /\ pc[q] = "record"
  /\ project' = [project EXCEPT ![q].required = want[q]]
  /\ Exits(q)
  /\ UNCHANGED <<cache, commands, kills, spoiled, drifted>>

(* go get of the module's own path rewrites what go.mod requires of it ... *)
GoGet(q) ==
  /\ pc[q] = "goGet"
  /\ project' = [project EXCEPT ![q].goRequire = want[q]]
  /\ Goto(q, "goRecord")
  /\ UNCHANGED <<cache, process, commands, kills, spoiled, drifted>>

(* ... and getGoPackage records that as a go-require of glisp.mod. *)
GoRecord(q) ==
  /\ pc[q] = "goRecord"
  /\ project' = [project EXCEPT ![q].goPkg = want[q]]
  /\ Exits(q)
  /\ UNCHANGED <<cache, commands, kills, spoiled, drifted>>

GoBuild(q) ==
  /\ pc[q] = "goBuild" /\ Exits(q)
  /\ UNCHANGED <<cache, project, commands, kills, spoiled, drifted>>

(* A step that can fail does: the network, the disk, go mod edit, a parse  *)
(* error in the module.                                                    *)
Fails(q) ==
  /\ pc[q] \in {"fetch", "ensureMod", "modEdit", "collect", "write", "require", "replace",
                "propagate", "record", "goGet", "goRecord"}
  /\ Ends(q) /\ UNCHANGED kills

Killed(q) ==
  /\ pc[q] # "idle" /\ kills < MaxKills
  /\ kills' = kills + 1
  /\ Ends(q)

Next == \E q \in Projects :
  \/ Build(q) \/ Get(q) \/ Edits(q) \/ Resolve(q) \/ GetModule(q) \/ NotFound(q) \/ NoSources(q)
  \/ Require(q) \/ AddReplace(q) \/ Propagate(q) \/ Record(q) \/ GoGet(q)
  \/ GoRecord(q) \/ GoBuild(q) \/ Fails(q) \/ Killed(q)

Spec == Init /\ [][Next]_vars

-------------------------------------------------------------------------------
Complete(v) ==
  cache[v] = [dir |-> TRUE, files |-> Archive, goMod |-> TRUE, goDep |-> TRUE, gen |-> Generated]

Entries == [dir : BOOLEAN, files : SUBSET Archive, goMod : BOOLEAN, goDep : BOOLEAN,
            gen : SUBSET Generated]
Replaces == Seq([v : Versions, here : BOOLEAN])
Manifests == [required : Versions \cup {None}, goMod : BOOLEAN,
              goRequire : Versions \cup {None}, replaces : Replaces,
              goDep : BOOLEAN, goPkg : Versions \cup {None}]
Places == {"idle", "resolve", "download", "fetch", "extract", "readMod", "ensureMod", "modEdit",
           "collect", "write", "require", "replace", "propagate", "record", "goGet", "goRecord", "goBuild"}

TypeOK ==
  /\ cache \in [Versions -> Entries]
  /\ project \in [Projects -> Manifests]
  /\ \A q \in Projects :
       LET rs == project[q].replaces IN \A i, j \in DOMAIN rs : i # j => rs[i].v # rs[j].v
  /\ pc \in [Projects -> Places]
  /\ want \in [Projects -> Versions \cup {None}]
  /\ \A q \in Projects : want[q] = None <=> pc[q] = "idle"
  /\ left \in [Projects -> SUBSET (Archive \cup Generated)]
  /\ \A q \in Projects : left[q] \subseteq IF pc[q] = "write" THEN Generated ELSE Archive
  /\ getting \in [Projects -> BOOLEAN]
  /\ hasMod \in [Projects -> BOOLEAN] /\ viaCache \in [Projects -> BOOLEAN]
  /\ commands \in 0..MaxCommands /\ kills \in 0..MaxKills
  /\ spoiled \subseteq Versions /\ drifted \subseteq Projects

(* "IsCached returns true if the module has been downloaded and            *)
(* transpiled": where go.mod sends a build to this machine's cache, the    *)
(* module there is complete, whoever put it there and whatever go.mod was  *)
(* rewritten to since.  Excepted are the versions of which a get was       *)
(* killed, failed after its download, or overlapped with another command   *)
(* (spoiled): these the code really leaves half done.  A failed download   *)
(* or extraction, and one after the other, do no harm.                     *)
CompleteAtBuild ==
  \A q \in Projects :
    pc[q] = "goBuild" /\ Replace(project[q].goRequire, TRUE) \in Range(project[q].replaces) =>
      Complete(project[q].goRequire) \/ project[q].goRequire \in spoiled

(* ResolveDeps "ensures all requires declared in glisp.mod are downloaded  *)
(* and registered": go.mod maps that version to this machine's cache, and  *)
(* what go.mod requires of the path is what glisp.mod says: its require,   *)
(* or the go-require of the same path, which EnsureProjectGoMod puts over  *)
(* it and Resolve then leaves.  Excepted are the projects where glisp.mod  *)
(* was edited by hand or a get updated go.mod only (drifted).              *)
RegisteredUnlessDrifted ==
  \A q \in Projects :
    LET m == project[q] IN
    pc[q] = "goBuild" /\ q \notin drifted =>
      /\ m.goRequire \in {m.required, m.goPkg} \ {None}
      /\ Replace(m.required, TRUE) \in Range(m.replaces)
================================================================================
