---------------------------- MODULE ModCacheProofs ----------------------------
(***************************************************************************)
(* Theorems about ModCache, for any number of projects, versions of the    *)
(* module, commands and kills.                                             *)
(***************************************************************************)
EXTENDS ModCache, SequenceTheorems, TLAPS

-----------------------------------------------------------------------------
(* The inductive invariant. *)

(* A build resolves what glisp.mod requires; only a build consults the     *)
(* cache, and goes on to go build.                                         *)
BuildsRequired ==
  \A q \in Projects :
    /\ pc[q] # "idle" /\ ~getting[q] => want[q] = project[q].required
    /\ pc[q] \in {"resolve", "goBuild"} \/ viaCache[q] => ~getting[q]

(* go.mod requires the version, or the go-require of the path, and maps    *)
(* the version to this machine's cache.                                    *)
Registered(q, v) ==
  /\ project[q].goRequire \in {v, project[q].goPkg} \ {None}
  /\ Replace(v, TRUE) \in Range(project[q].replaces)

(* A directive to this machine's cache is there only with the              *)
(* registration of what glisp.mod requires, unless the two files were made *)
(* to differ or are being changed.                                         *)
RegisteredSoFar(q) ==
  /\ pc[q] \in {"replace", "goRecord"} => project[q].goRequire = want[q]
  /\ pc[q] \in {"propagate", "record"} => Registered(q, want[q])
  /\ pc[q] = "goBuild" => Registered(q, project[q].required)
  /\ pc[q] \notin {"replace", "propagate", "record"} =>
       \A i \in DOMAIN project[q].replaces :
         project[q].replaces[i].here =>
           /\ Replace(project[q].required, TRUE) \in Range(project[q].replaces)
           /\ pc[q] # "goRecord" => Registered(q, project[q].required)

RegistersWanted == \A q \in Projects \ drifted : RegisteredSoFar(q)

(* Two gets of one version at a time are an overlap. *)
AloneOrSpoiled ==
  \A q, r \in Projects :
    q # r /\ Busy(q) /\ Busy(r) /\ want[q] = want[r] => want[q] \in spoiled

Finished(q) == pc[q] \in {"require", "replace", "propagate", "record", "goBuild"}

(* What a get that was left alone has done to the module by now. *)
Stage(q) ==
  LET e == cache[want[q]] IN
  /\ pc[q] = "extract" =>
       e.dir /\ left[q] \subseteq Archive /\ e.files = Archive \ left[q] /\ ~e.goMod /\ ~e.goDep /\ e.gen = {}
  /\ pc[q] \in {"readMod", "ensureMod"} =>
       \/ Complete(want[q])
       \/ e.dir /\ e.files = Archive /\ ~e.goMod /\ ~e.goDep /\ e.gen = {}
  /\ pc[q] = "ensureMod" => hasMod[q]
  /\ pc[q] = "modEdit" => e.dir /\ e.files = Archive /\ e.goMod
  /\ pc[q] \in {"collect", "write"} => e.dir /\ e.files = Archive /\ e.goMod /\ e.goDep
  /\ pc[q] = "write" => left[q] \subseteq Generated /\ Generated \subseteq e.gen \cup left[q]
  /\ Finished(q) => Complete(want[q])

Stages == \A q \in Projects : want[q] \in Versions \ spoiled => Stage(q)

(* Between gets a module is there as a whole or not at all. *)
WholeOrAbsent ==
  \A v \in Versions \ spoiled :
    (\A q \in Projects : ~(Busy(q) /\ want[q] = v)) => cache[v] = Absent \/ Complete(v)

(* A directive to this machine's cache leads to a whole module. *)
LeadsToWhole ==
  \A q \in Projects : \A v \in Versions \ spoiled :
    Replace(v, TRUE) \in Range(project[q].replaces) => Complete(v)

Inv ==
  /\ TypeOK /\ BuildsRequired /\ RegistersWanted
  /\ AloneOrSpoiled /\ Stages /\ WholeOrAbsent /\ LeadsToWhole

-----------------------------------------------------------------------------
(* The steps of one project's glisp. *)

Step(q) ==
  \/ Build(q) \/ Get(q) \/ Edits(q) \/ Resolve(q) \/ GetModule(q) \/ NotFound(q) \/ NoSources(q)
  \/ Require(q) \/ AddReplace(q) \/ Propagate(q) \/ Record(q) \/ GoGet(q)
  \/ GoRecord(q) \/ GoBuild(q) \/ Fails(q) \/ Killed(q)

LEMMA NextSteps == Next <=> \E q \in Projects : Step(q)
BY DEF Next, Step

(* It leaves the other projects alone, and what is history stays. *)
Apart(q) ==
  /\ \A r \in Projects \ {q} :
       /\ pc'[r] = pc[r] /\ want'[r] = want[r] /\ left'[r] = left[r] /\ getting'[r] = getting[r]
       /\ hasMod'[r] = hasMod[r] /\ viaCache'[r] = viaCache[r] /\ project'[r] = project[r]
  /\ spoiled \subseteq spoiled' /\ drifted \subseteq drifted' /\ drifted' \subseteq drifted \cup {q}

LEMMA StepsApart ==
  ASSUME TypeOK, NEW q \in Projects, Step(q)
  PROVE  Apart(q)
<1>0. /\ DOMAIN pc = Projects
      /\ DOMAIN want = Projects /\ DOMAIN left = Projects /\ DOMAIN getting = Projects
      /\ DOMAIN hasMod = Projects /\ DOMAIN viaCache = Projects /\ DOMAIN project = Projects
  BY DEF TypeOK
<1> USE DEF Apart, Goto, process
<1>1. CASE Build(q)
  BY <1>0, <1>1 DEF Build, Begins
<1>2. CASE Get(q)
  BY <1>0, <1>2 DEF Get, Begins
<1>3. CASE Edits(q)
  BY <1>0, <1>3 DEF Edits
<1>4. CASE Resolve(q)
  BY <1>0, <1>4 DEF Resolve, Overlap
<1>5. CASE GetModule(q)
  <2>1. CASE Download(q)
    BY <1>0, <2>1 DEF Download, Overlap
  <2>2. CASE Fetch(q)
    BY <1>0, <2>2 DEF Fetch, Overlap
  <2>3. CASE Extract(q)
    BY <1>0, <2>3 DEF Extract
  <2>4. CASE ExtractFails(q)
    BY <1>0, <2>4 DEF ExtractFails, Exits
  <2>5. CASE ReadMod(q)
    BY <1>0, <2>5 DEF ReadMod
  <2>6. CASE EnsureMod(q)
    BY <1>0, <2>6 DEF EnsureMod
  <2>7. CASE ModEdit(q)
    BY <1>0, <2>7 DEF ModEdit
  <2>8. CASE Collect(q)
    BY <1>0, <2>8 DEF Collect
  <2>9. CASE Write(q)
    BY <1>0, <2>9 DEF Write
  <2> QED
    BY <1>5, <2>1, <2>2, <2>3, <2>4, <2>5, <2>6, <2>7, <2>8, <2>9 DEF GetModule
<1>6. CASE NotFound(q)
  BY <1>0, <1>6 DEF NotFound
<1>7. CASE NoSources(q)
  BY <1>0, <1>7 DEF NoSources
<1>8. CASE Require(q)
  BY <1>0, <1>8 DEF Require
<1>9. CASE AddReplace(q)
  BY <1>0, <1>9 DEF AddReplace
<1>10. CASE Propagate(q)
  BY <1>0, <1>10 DEF Propagate
<1>11. CASE Record(q)
  BY <1>0, <1>11 DEF Record, Exits
<1>12. CASE GoGet(q)
  BY <1>0, <1>12 DEF GoGet
<1>13. CASE GoRecord(q) \/ GoBuild(q)
  BY <1>0, <1>13 DEF GoRecord, GoBuild, Exits
<1>14. CASE Fails(q) \/ Killed(q)
  <2>1. Ends(q)
    BY <1>14 DEF Fails, Killed
  <2> QED
    BY <1>0, <2>1 DEF Ends, Exits
<1> QED
  BY <1>1, <1>2, <1>3, <1>4, <1>5, <1>6, <1>7, <1>8, <1>9, <1>10, <1>11, <1>12, <1>13, <1>14 DEF Step

(* What glisp resolves is a version, with an entry in the cache. *)
LEMMA Wanted ==
  ASSUME TypeOK, NEW q \in Projects, pc[q] # "idle"
  PROVE  want[q] \in Versions /\ Entry(q) = cache[want[q]] /\ cache[want[q]] \in Entries
BY DEF TypeOK, Entry

LEMMA SetsCache ==
  ASSUME TypeOK, NEW q \in Projects, pc[q] # "idle", NEW e \in Entries, SetCache(q, e)
  PROVE  /\ cache' \in [Versions -> Entries] /\ cache'[want[q]] = e
         /\ \A v \in Versions \ {want[q]} : cache'[v] = cache[v]
BY Wanted DEF TypeOK, SetCache

(* Only GetModule touches the cache, and only one entry, which becomes:    *)
Becomes(q, e) ==
  /\ cache' \in [Versions -> Entries] /\ cache'[want[q]] = e
  /\ \A v \in Versions \ {want[q]} : cache'[v] = cache[v]

LEMMA Fetched ==
  ASSUME TypeOK, NEW q \in Projects, Fetch(q)
  PROVE  Becomes(q, [cache[want[q]] EXCEPT !.dir = TRUE])
<1>1. pc[q] # "idle" /\ SetCache(q, [Entry(q) EXCEPT !.dir = TRUE])
  BY DEF Fetch
<1>2. [Entry(q) EXCEPT !.dir = TRUE] \in Entries
  BY <1>1, Wanted DEF Entries
<1> QED
  BY <1>1, <1>2, SetsCache, Wanted DEF Becomes

LEMMA Extracted ==
  ASSUME TypeOK, NEW q \in Projects, Extract(q), left[q] # {}
  PROVE  \E f \in left[q] : /\ Becomes(q, [cache[want[q]] EXCEPT !.dir = TRUE, !.files = @ \cup {f}])
                            /\ left'[q] = left[q] \ {f} /\ pc'[q] = "extract"
<1>1. pc[q] = "extract" /\ left[q] \subseteq Archive
  BY DEF Extract, TypeOK
<1>2. PICK f \in left[q] : /\ SetCache(q, [Entry(q) EXCEPT !.dir = TRUE, !.files = @ \cup {f}])
                           /\ left' = [left EXCEPT ![q] = @ \ {f}] /\ UNCHANGED pc
  BY DEF Extract
<1>3. [Entry(q) EXCEPT !.dir = TRUE, !.files = @ \cup {f}] \in Entries
  BY <1>1, Wanted DEF Entries
<1>4. Becomes(q, [cache[want[q]] EXCEPT !.dir = TRUE, !.files = @ \cup {f}])
  BY <1>1, <1>2, <1>3, SetsCache, Wanted DEF Becomes
<1>5. left'[q] = left[q] \ {f} /\ pc'[q] = "extract"
  BY <1>1, <1>2 DEF TypeOK
<1> QED
  BY <1>4, <1>5

LEMMA Removed ==
  ASSUME TypeOK, NEW q \in Projects, ExtractFails(q)
  PROVE  Becomes(q, Absent)
<1>1. Absent \in Entries
  BY DEF Absent, Entries
<1> QED
  BY <1>1, SetsCache DEF ExtractFails, Becomes

LEMMA Ensured ==
  ASSUME TypeOK, NEW q \in Projects, EnsureMod(q)
  PROVE  Becomes(q, [cache[want[q]] EXCEPT !.goMod = TRUE])
<1>1. pc[q] # "idle" /\ SetCache(q, [Entry(q) EXCEPT !.goMod = TRUE])
  BY DEF EnsureMod
<1>2. [Entry(q) EXCEPT !.goMod = TRUE] \in Entries
  BY <1>1, Wanted DEF Entries
<1> QED
  BY <1>1, <1>2, SetsCache, Wanted DEF Becomes

LEMMA Edited ==
  ASSUME TypeOK, NEW q \in Projects, ModEdit(q)
  PROVE  Becomes(q, [cache[want[q]] EXCEPT !.goDep = TRUE])
<1>1. pc[q] # "idle" /\ SetCache(q, [Entry(q) EXCEPT !.goDep = TRUE])
  BY DEF ModEdit
<1>2. [Entry(q) EXCEPT !.goDep = TRUE] \in Entries
  BY <1>1, Wanted DEF Entries
<1> QED
  BY <1>1, <1>2, SetsCache, Wanted DEF Becomes

LEMMA Collected ==
  ASSUME TypeOK, NEW q \in Projects, Collect(q)
  PROVE  IF "glisp.mod" \in cache[want[q]].files
           THEN Becomes(q, [cache[want[q]] EXCEPT !.goMod = TRUE, !.goDep = TRUE])
           ELSE UNCHANGED cache
<1>1. pc[q] # "idle"
  BY DEF Collect
<1>2. CASE "glisp.mod" \in Entry(q).files
  <2>1. SetCache(q, [Entry(q) EXCEPT !.goMod = TRUE, !.goDep = TRUE])
    BY <1>2 DEF Collect
  <2>2. [Entry(q) EXCEPT !.goMod = TRUE, !.goDep = TRUE] \in Entries
    BY <1>1, Wanted DEF Entries
  <2> QED
    BY <1>1, <1>2, <2>1, <2>2, SetsCache, Wanted DEF Becomes
<1>3. CASE "glisp.mod" \notin Entry(q).files
  BY <1>1, <1>3, Wanted DEF Collect
<1> QED
  BY <1>2, <1>3

LEMMA Wrote ==
  ASSUME TypeOK, NEW q \in Projects, Write(q)
  PROVE  \E f \in left[q] : /\ Becomes(q, [cache[want[q]] EXCEPT !.gen = @ \cup {f}])
                            /\ left'[q] = left[q] \ {f}
                            /\ pc'[q] = IF left[q] = {f} THEN "require" ELSE "write"
<1>1. pc[q] = "write" /\ left[q] \subseteq Generated
  BY DEF Write, TypeOK
<1>2. PICK f \in left[q] : /\ SetCache(q, [Entry(q) EXCEPT !.gen = @ \cup {f}])
                           /\ left' = [left EXCEPT ![q] = @ \ {f}]
                           /\ Goto(q, IF left[q] = {f} THEN "require" ELSE "write")
  BY DEF Write
<1>3. [Entry(q) EXCEPT !.gen = @ \cup {f}] \in Entries
  BY <1>1, Wanted DEF Entries
<1>4. Becomes(q, [cache[want[q]] EXCEPT !.gen = @ \cup {f}])
  BY <1>1, <1>2, <1>3, SetsCache, Wanted DEF Becomes
<1>5. left'[q] = left[q] \ {f} /\ pc'[q] = IF left[q] = {f} THEN "require" ELSE "write"
  BY <1>1, <1>2 DEF TypeOK, Goto
<1> QED
  BY <1>4, <1>5

LEMMA CacheOf ==
  ASSUME TypeOK, NEW q \in Projects, Step(q)
  PROVE  \/ UNCHANGED cache
         \/ \E e \in Entries : Becomes(q, e)
<1>1. ASSUME Becomes(q, cache'[want[q]]), pc[q] # "idle" PROVE \E e \in Entries : Becomes(q, e)
  BY <1>1, Wanted DEF Becomes
<1>2. CASE GetModule(q)
  <2>1. CASE Download(q)
    BY <2>1 DEF Download
  <2>2. CASE Fetch(q)
    BY <1>1, <2>2, Fetched DEF Fetch, Becomes
  <2>3. CASE Extract(q)
    BY <1>1, <2>3, Extracted DEF Extract, Becomes
  <2>4. CASE ExtractFails(q)
    BY <1>1, <2>4, Removed DEF ExtractFails, Becomes
  <2>5. CASE ReadMod(q)
    BY <2>5 DEF ReadMod
  <2>6. CASE EnsureMod(q)
    BY <1>1, <2>6, Ensured DEF EnsureMod, Becomes
  <2>7. CASE ModEdit(q)
    BY <1>1, <2>7, Edited DEF ModEdit, Becomes
  <2>8. CASE Collect(q)
    BY <1>1, <2>8, Collected DEF Collect, Becomes
  <2>9. CASE Write(q)
    BY <1>1, <2>9, Wrote DEF Write, Becomes
  <2> QED
    BY <1>2, <2>1, <2>2, <2>3, <2>4, <2>5, <2>6, <2>7, <2>8, <2>9 DEF GetModule
<1>3. CASE Fails(q) \/ Killed(q)
  BY <1>3 DEF Fails, Killed, Ends
<1>4. CASE ~GetModule(q) /\ ~Fails(q) /\ ~Killed(q)
  BY <1>4 DEF Step, Build, Get, Begins, Edits, Resolve, NotFound, NoSources, Require, AddReplace,
              Propagate, Record, GoGet, GoRecord, GoBuild
<1> QED
  BY <1>2, <1>3, <1>4

-----------------------------------------------------------------------------
(* Type correctness. *)

Unique(rs) == \A i, j \in DOMAIN rs : i # j => rs[i].v # rs[j].v

LEMMA SameDomain ==
  ASSUME NEW S, NEW s \in Seq(S), NEW f \in [DOMAIN s -> S]
  PROVE  f \in Seq(S)
BY LenProperties, SeqDef

LEMMA OneMore ==
  ASSUME NEW S, NEW s \in Seq(S), NEW e \in S, NEW new, new = Append(s, e)
  PROVE  /\ new \in Seq(S) /\ new[Len(s) + 1] = e
         /\ DOMAIN new = 1..(Len(s) + 1) /\ DOMAIN s = 1..Len(s) /\ Len(s) \in Nat
         /\ \A i \in 1..Len(s) : new[i] = s[i]
BY AppendProperties, LenProperties

(* go mod edit -replace keeps one directive per version. *)
LEMMA ReplacedOnce ==
  ASSUME NEW rs \in Replaces, Unique(rs), NEW v \in Versions
  PROVE  /\ Replaced(rs, v) \in Replaces /\ Unique(Replaced(rs, v))
         /\ Replace(v, TRUE) \in Range(Replaced(rs, v))
<1> DEFINE R == [v : Versions, here : BOOLEAN]
<1>1. rs \in Seq(R) /\ Replace(v, TRUE) \in R /\ Replace(v, TRUE).v = v
  BY DEF Replaces, Replace
<1>10. DOMAIN rs = 1..Len(rs) /\ Len(rs) \in Nat /\ \A i \in 1..Len(rs) : rs[i] \in R
  BY <1>1, LenProperties
<1> HIDE DEF R
<1>2. CASE \E i \in DOMAIN rs : rs[i].v = v
  <2> DEFINE new == [i \in DOMAIN rs |-> IF rs[i].v = v THEN Replace(v, TRUE) ELSE rs[i]]
  <2>1. Replaced(rs, v) = new
    BY <1>2 DEF Replaced
  <2>2. new \in Seq(R)
    <3>1. new \in [DOMAIN rs -> R]
      BY <1>1, <1>10
    <3> HIDE DEF new
    <3> QED
      BY <1>1, <3>1, SameDomain
  <2>3. \A i \in DOMAIN rs : new[i].v = rs[i].v
    BY <1>1
  <2>4. Unique(new)
    BY <2>3 DEF Unique
  <2>5. Replace(v, TRUE) \in Range(new)
    BY <1>2 DEF Range
  <2> QED
    BY <2>1, <2>2, <2>4, <2>5 DEF Replaces, R
<1>3. CASE ~ \E i \in DOMAIN rs : rs[i].v = v
  <2> DEFINE new == Append(rs, Replace(v, TRUE))
  <2>1. Replaced(rs, v) = new
    BY <1>3 DEF Replaced
  <2> HIDE DEF new
  <2>2. /\ new \in Seq(R) /\ new[Len(rs) + 1] = Replace(v, TRUE)
        /\ DOMAIN new = 1..(Len(rs) + 1) /\ DOMAIN rs = 1..Len(rs) /\ Len(rs) \in Nat
        /\ \A i \in 1..Len(rs) : new[i] = rs[i]
    <3>1. PICK e : e = Replace(v, TRUE)
      OBVIOUS
    <3>2. new = Append(rs, e) /\ rs \in Seq(R) /\ e \in R
      BY <1>1, <3>1 DEF new
    <3>3. /\ new \in Seq(R) /\ new[Len(rs) + 1] = e
          /\ DOMAIN new = 1..(Len(rs) + 1) /\ DOMAIN rs = 1..Len(rs) /\ Len(rs) \in Nat
          /\ \A i \in 1..Len(rs) : new[i] = rs[i]
      BY <3>2, OneMore
    <3> QED
      BY <3>1, <3>3
  <2>5. \A i \in DOMAIN new : i \in DOMAIN rs \/ i = Len(rs) + 1
    BY <2>2
  <2>3. Unique(new)
    <3> SUFFICES ASSUME NEW i \in DOMAIN new, NEW j \in DOMAIN new, i # j PROVE new[i].v # new[j].v
      BY DEF Unique
    <3>1. CASE i \in DOMAIN rs /\ j \in DOMAIN rs
      BY <2>2, <3>1 DEF Unique
    <3>2. CASE i = Len(rs) + 1 /\ j \in DOMAIN rs
      BY <1>1, <1>3, <2>2, <3>2
    <3>3. CASE j = Len(rs) + 1 /\ i \in DOMAIN rs
      BY <1>1, <1>3, <2>2, <3>3
    <3> QED
      BY <2>5, <3>1, <3>2, <3>3
  <2>4. Replace(v, TRUE) \in Range(new)
    <3>1. Len(rs) + 1 \in DOMAIN new
      BY <2>2
    <3> QED
      BY <2>2, <3>1 DEF Range
  <2> QED
    BY <2>1, <2>2, <2>3, <2>4 DEF Replaces, R, new
<1> QED
  BY <1>2, <1>3

(* The project of a step keeps its form, and its replace directives but in *)
(* AddReplace.                                                             *)
LEMMA ProjectStep ==
  ASSUME TypeOK, NEW q \in Projects, Step(q)
  PROVE  /\ project' \in [Projects -> Manifests]
         /\ \A r \in Projects : Unique(project'[r].replaces)
<1> DEFINE Becoming(p) == project' = [project EXCEPT ![q] = p]
<1>0. /\ project \in [Projects -> Manifests] /\ \A r \in Projects : Unique(project[r].replaces)
      /\ project[q] \in Manifests
  BY DEF TypeOK, Unique
<1>1. ASSUME NEW p \in Manifests, Unique(p.replaces), Becoming(p)
      PROVE  /\ project' \in [Projects -> Manifests]
             /\ \A r \in Projects : Unique(project'[r].replaces)
  BY <1>0, <1>1
<1>2. ASSUME NEW p \in Manifests, p.replaces = project[q].replaces, Becoming(p)
      PROVE  /\ project' \in [Projects -> Manifests]
             /\ \A r \in Projects : Unique(project'[r].replaces)
  BY <1>0, <1>1, <1>2
<1>3. CASE Build(q) \/ Get(q)
  <2> DEFINE p == Synced(project[q])
  <2>1. p \in Manifests /\ p.replaces = project[q].replaces
    BY <1>0 DEF Manifests, Synced
  <2>2. Becoming(p)
    BY <1>3 DEF Build, Get, Begins
  <2> QED
    BY <1>2, <2>1, <2>2
<1>4. CASE Edits(q)
  <2>1. PICK v \in Versions : project' = [project EXCEPT ![q].required = v]
    BY <1>4 DEF Edits
  <2> DEFINE p == [project[q] EXCEPT !.required = v]
  <2>2. p \in Manifests /\ p.replaces = project[q].replaces
    BY <1>0 DEF Manifests
  <2> QED
    BY <1>2, <2>1, <2>2
<1>5. CASE Require(q)
  <2> DEFINE p == [project[q] EXCEPT !.goRequire = want[q]]
  <2>1. p \in Manifests /\ p.replaces = project[q].replaces
    BY <1>0, <1>5, Wanted DEF Manifests, Require
  <2>2. Becoming(p)
    BY <1>5 DEF Require
  <2> QED
    BY <1>2, <2>1, <2>2
<1>6. CASE AddReplace(q)
  <2> DEFINE rs == Replaced(project[q].replaces, want[q])
             p == [project[q] EXCEPT !.replaces = rs]
  <2>1. want[q] \in Versions /\ project[q].replaces \in Replaces /\ Unique(project[q].replaces)
    BY <1>0, <1>6, Wanted DEF Manifests, AddReplace
  <2>2. rs \in Replaces /\ Unique(rs)
    BY <2>1, ReplacedOnce
  <2>3. p \in Manifests /\ p.replaces = rs
    BY <1>0, <2>2 DEF Manifests
  <2>4. Becoming(p)
    BY <1>6 DEF AddReplace
  <2> QED
    BY <1>1, <2>2, <2>3, <2>4
<1>7. CASE Propagate(q)
  <2> DEFINE p == [project[q] EXCEPT !.goDep = @ \/ hasMod[q]]
  <2>1. p \in Manifests /\ p.replaces = project[q].replaces
    BY <1>0 DEF Manifests
  <2>2. Becoming(p)
    BY <1>7 DEF Propagate
  <2> QED
    BY <1>2, <2>1, <2>2
<1>8. CASE Record(q)
  <2> DEFINE p == [project[q] EXCEPT !.required = want[q]]
  <2>1. p \in Manifests /\ p.replaces = project[q].replaces
    BY <1>0, <1>8, Wanted DEF Manifests, Record
  <2>2. Becoming(p)
    BY <1>8 DEF Record
  <2> QED
    BY <1>2, <2>1, <2>2
<1>9. CASE GoGet(q)
  <2> DEFINE p == [project[q] EXCEPT !.goRequire = want[q]]
  <2>1. p \in Manifests /\ p.replaces = project[q].replaces
    BY <1>0, <1>9, Wanted DEF Manifests, GoGet
  <2>2. Becoming(p)
    BY <1>9 DEF GoGet
  <2> QED
    BY <1>2, <2>1, <2>2
<1>13. CASE GoRecord(q)
  <2> DEFINE p == [project[q] EXCEPT !.goPkg = want[q]]
  <2>1. p \in Manifests /\ p.replaces = project[q].replaces
    BY <1>0, <1>13, Wanted DEF Manifests, GoRecord
  <2>2. Becoming(p)
    BY <1>13 DEF GoRecord
  <2> QED
    BY <1>2, <2>1, <2>2
<1>10. CASE UNCHANGED project
  BY <1>0, <1>10
<1>11. CASE GetModule(q)
  BY <1>10, <1>11 DEF GetModule, Download, Fetch, Extract, ExtractFails, ReadMod, EnsureMod, ModEdit,
                      Collect, Write
<1>12. CASE Resolve(q) \/ NotFound(q) \/ NoSources(q) \/ GoBuild(q) \/ Fails(q) \/ Killed(q)
  BY <1>10, <1>12 DEF Resolve, NotFound, NoSources, GoBuild, Fails, Killed, Ends
<1> QED
  BY <1>3, <1>4, <1>5, <1>6, <1>7, <1>8, <1>9, <1>11, <1>12, <1>13 DEF Step

(* The rest of the types: what the process holds, and the counters. *)
Rest ==
  /\ pc \in [Projects -> Places]
  /\ want \in [Projects -> Versions \cup {None}]
  /\ \A q \in Projects : want[q] = None <=> pc[q] = "idle"
  /\ left \in [Projects -> SUBSET (Archive \cup Generated)]
  /\ \A q \in Projects : left[q] \subseteq IF pc[q] = "write" THEN Generated ELSE Archive
  /\ getting \in [Projects -> BOOLEAN]
  /\ hasMod \in [Projects -> BOOLEAN] /\ viaCache \in [Projects -> BOOLEAN]
  /\ commands \in 0..MaxCommands /\ kills \in 0..MaxKills
  /\ spoiled \subseteq Versions /\ drifted \subseteq Projects

LEMMA RestStep ==
  ASSUME TypeOK, NEW q \in Projects, Step(q)
  PROVE  Rest'
<1>0. Rest /\ None \notin Versions /\ project[q].required \in Versions \cup {None}
  BY CacheAssumption DEF TypeOK, Rest, Manifests
<1>a. ASSUME commands < MaxCommands, commands' = commands + 1 PROVE commands' \in 0..MaxCommands
  BY <1>0, <1>a, CacheAssumption DEF Rest
<1>b. ASSUME kills < MaxKills, kills' = kills + 1 PROVE kills' \in 0..MaxKills
  BY <1>0, <1>b, CacheAssumption DEF Rest
<1>c. pc[q] # "idle" => want[q] \in Versions
  BY Wanted
<1>d. Exits(q) => /\ pc' \in [Projects -> Places] /\ want' \in [Projects -> Versions \cup {None}]
                  /\ \A r \in Projects : want'[r] = None <=> pc'[r] = "idle"
                  /\ left' \in [Projects -> SUBSET (Archive \cup Generated)]
                  /\ \A r \in Projects : left'[r] \subseteq IF pc'[r] = "write" THEN Generated ELSE Archive
                  /\ getting' \in [Projects -> BOOLEAN]
                  /\ hasMod' \in [Projects -> BOOLEAN] /\ viaCache' \in [Projects -> BOOLEAN]
  BY <1>0 DEF Rest, Exits, Goto, Places
<1> USE DEF Goto, process, Rest
<1>1. CASE Build(q) \/ Get(q)
  <2>1. PICK v \in Versions, g \in BOOLEAN, to \in {"resolve", "download", "goGet"} :
          Begins(q, v, g, to)
    BY <1>0, <1>1 DEF Build, Get
  <2> QED
    BY <1>0, <1>a, <2>1 DEF Begins, Places
<1>3. CASE Edits(q)
  BY <1>0, <1>a, <1>3 DEF Edits
<1>4. CASE Resolve(q)
  <2>1. cache[want[q]].goMod \in BOOLEAN
    BY <1>4, Wanted DEF Resolve, Entries
  <2>2. PICK c \in BOOLEAN, to \in {"download", "goBuild", "require"} :
          viaCache' = [viaCache EXCEPT ![q] = c] /\ pc' = [pc EXCEPT ![q] = to]
    BY <1>4, <2>1 DEF Resolve, IsCached
  <2>3. spoiled' \subseteq Versions
    BY <1>0, <1>c, <1>4 DEF Resolve, Overlap
  <2> QED
    BY <1>0, <1>4, <2>2, <2>3 DEF Resolve, Places
<1>5. CASE GetModule(q)
  <2>1. CASE Download(q)
    BY <1>0, <1>c, <2>1 DEF Download, Overlap, Places
  <2>2. CASE Fetch(q)
    BY <1>0, <1>c, <2>2 DEF Fetch, Overlap, Places
  <2>3. CASE Extract(q)
    <3>1. CASE left[q] = {}
      BY <1>0, <2>3, <3>1 DEF Extract, Places
    <3>2. CASE left[q] # {}
      BY <1>0, <2>3, <3>2 DEF Extract
    <3> QED
      BY <3>1, <3>2
  <2>4. CASE ExtractFails(q)
    BY <1>0, <1>d, <2>4 DEF ExtractFails
  <2>5. CASE ReadMod(q)
    BY <1>0, <2>5 DEF ReadMod, Places
  <2>6. CASE EnsureMod(q)
    BY <1>0, <2>6 DEF EnsureMod, Places
  <2>7. CASE ModEdit(q)
    BY <1>0, <2>7 DEF ModEdit, Places
  <2>8. CASE Collect(q)
    <3>1. left'[q] \subseteq Generated
      BY <1>0, <2>8 DEF Collect, Generated
    <3> QED
      BY <1>0, <2>8, <3>1 DEF Collect, Places
  <2>9. CASE Write(q)
    <3>1. PICK f \in left[q] : /\ left' = [left EXCEPT ![q] = @ \ {f}]
                               /\ pc' = [pc EXCEPT ![q] = IF left[q] = {f} THEN "require" ELSE "write"]
      BY <2>9 DEF Write
    <3> QED
      BY <1>0, <2>9, <3>1 DEF Write, Places
  <2> QED
    BY <1>5, <2>1, <2>2, <2>3, <2>4, <2>5, <2>6, <2>7, <2>8, <2>9 DEF GetModule
<1>6. CASE NotFound(q)
  BY <1>0, <1>6 DEF NotFound, Places
<1>7. CASE NoSources(q)
  BY <1>0, <1>c, <1>7 DEF NoSources, Places
<1>8. CASE Require(q)
  BY <1>0, <1>8 DEF Require, Places
<1>9. CASE AddReplace(q)
  BY <1>0, <1>9 DEF AddReplace, Places
<1>10. CASE Propagate(q)
  BY <1>0, <1>10 DEF Propagate, Places
<1>11. CASE Record(q)
  BY <1>0, <1>d, <1>11 DEF Record
<1>12. CASE GoGet(q)
  BY <1>0, <1>12 DEF GoGet, Places
<1>13. CASE GoRecord(q) \/ GoBuild(q)
  BY <1>0, <1>d, <1>13 DEF GoRecord, GoBuild
<1>14. CASE Fails(q) \/ Killed(q)
  <2>1. Ends(q) /\ pc[q] # "idle" /\ kills' \in 0..MaxKills
    BY <1>0, <1>b, <1>14 DEF Fails, Killed
  <2>2. spoiled' \subseteq Versions /\ drifted' \subseteq Projects
    BY <1>0, <1>c, <2>1 DEF Ends
  <2> QED
    BY <1>0, <1>d, <2>1, <2>2 DEF Ends
<1> QED
  BY <1>1, <1>3, <1>4, <1>5, <1>6, <1>7, <1>8, <1>9, <1>10, <1>11, <1>12, <1>13, <1>14 DEF Step

LEMMA TypeStep ==
  ASSUME TypeOK, NEW q \in Projects, Step(q)
  PROVE  TypeOK'
<1>1. cache' \in [Versions -> Entries]
  BY CacheOf DEF Becomes, TypeOK
<1> QED
  BY <1>1, ProjectStep, RestStep DEF TypeOK, Rest, Unique

-----------------------------------------------------------------------------
(* Registration. *)

LEMMA RequiredStep ==
  ASSUME TypeOK, BuildsRequired, NEW q \in Projects, Step(q)
  PROVE  BuildsRequired'
<1> DEFINE P(r) == /\ pc[r] # "idle" /\ ~getting[r] => want[r] = project[r].required
                   /\ pc[r] \in {"resolve", "goBuild"} \/ viaCache[r] => ~getting[r]
<1>0. /\ pc \in [Projects -> Places] /\ want \in [Projects -> Versions \cup {None}]
      /\ getting \in [Projects -> BOOLEAN] /\ viaCache \in [Projects -> BOOLEAN]
      /\ project \in [Projects -> Manifests] /\ project[q] \in Manifests
      /\ P(q)
  BY DEF TypeOK, BuildsRequired
<1>1. \A r \in Projects \ {q} : P(r)'
  BY StepsApart DEF Apart, BuildsRequired
<1>2. P(q)'
  <2> USE DEF Goto, process
  <2>a. Exits(q) => P(q)'
    BY <1>0 DEF Exits
  <2>b. /\ UNCHANGED <<want, getting, viaCache>> /\ project'[q].required = project[q].required
        /\ pc'[q] \notin {"idle", "resolve", "goBuild"} /\ pc[q] # "idle"
        => P(q)'
    BY <1>0
  <2>1. CASE Build(q)
    <3>1. /\ want'[q] = project[q].required /\ ~getting'[q]
          /\ project'[q] = Synced(project[q])
      BY <1>0, <2>1 DEF Build, Begins
    <3>2. project'[q].required = project[q].required
      BY <1>0, <3>1 DEF Synced, Manifests
    <3> QED
      BY <3>1, <3>2
  <2>2. CASE Get(q)
    <3>1. getting'[q] = TRUE /\ viaCache'[q] = FALSE /\ pc'[q] \in {"download", "goGet"}
      BY <1>0, <2>2 DEF Get, Begins
    <3> QED
      BY <3>1
  <2>3. CASE Edits(q)
    BY <1>0, <2>3 DEF Edits
  <2>4. CASE Resolve(q)
    <3>1. pc[q] = "resolve" /\ getting' = getting /\ want' = want /\ project' = project
      BY <2>4 DEF Resolve
    <3> QED
      BY <1>0, <3>1
  <2>5. CASE GetModule(q)
    <3>1. CASE ExtractFails(q)
      BY <2>a, <3>1 DEF ExtractFails
    <3>2. CASE ~ExtractFails(q)
      <4>1. UNCHANGED <<want, getting, viaCache, project>> /\ pc[q] # "idle"
        BY <2>5, <3>2 DEF GetModule, Download, Fetch, Extract, ReadMod, EnsureMod, ModEdit, Collect, Write
      <4>2. pc'[q] \notin {"idle", "resolve", "goBuild"}
        BY <1>0, <2>5, <3>2 DEF GetModule, Download, Fetch, Extract, ReadMod, EnsureMod, ModEdit, Collect,
                                Write
      <4> QED
        BY <2>b, <4>1, <4>2
    <3> QED
      BY <3>1, <3>2
  <2>6. CASE NotFound(q)
    BY <1>0, <2>b, <2>6 DEF NotFound
  <2>7. CASE NoSources(q)
    BY <1>0, <2>b, <2>7 DEF NoSources
  <2>8. CASE Require(q)
    BY <1>0, <2>b, <2>8 DEF Require, Manifests
  <2>9. CASE AddReplace(q)
    <3>1. /\ UNCHANGED <<want, getting, viaCache>> /\ project'[q].required = project[q].required
          /\ pc'[q] = (IF viaCache[q] THEN "goBuild" ELSE "propagate") /\ pc[q] = "replace"
      BY <1>0, <2>9 DEF AddReplace, Manifests
    <3> QED
      BY <1>0, <3>1
  <2>10. CASE Propagate(q)
    <3>1. /\ UNCHANGED <<want, getting, viaCache>> /\ project'[q].required = project[q].required
          /\ pc'[q] = (IF getting[q] THEN "record" ELSE "goBuild") /\ pc[q] = "propagate"
      BY <1>0, <2>10 DEF Propagate, Manifests
    <3> QED
      BY <1>0, <3>1
  <2>11. CASE Record(q) \/ GoRecord(q) \/ GoBuild(q) \/ Fails(q) \/ Killed(q)
    BY <2>a, <2>11 DEF Record, GoRecord, GoBuild, Fails, Killed, Ends
  <2>12. CASE GoGet(q)
    BY <1>0, <2>b, <2>12 DEF GoGet, Manifests
  <2> QED
    BY <2>1, <2>2, <2>3, <2>4, <2>5, <2>6, <2>7, <2>8, <2>9, <2>10, <2>11, <2>12 DEF Step
<1> QED
  BY <1>1, <1>2 DEF BuildsRequired

LEMMA RegistersStep ==
  ASSUME TypeOK, BuildsRequired, RegistersWanted, NEW q \in Projects, Step(q)
  PROVE  RegistersWanted'
<1>0. /\ pc \in [Projects -> Places]
      /\ project \in [Projects -> Manifests] /\ project[q] \in Manifests
      /\ project[q].replaces \in Replaces
      /\ pc[q] # "idle" /\ ~getting[q] => want[q] = project[q].required
      /\ viaCache[q] => ~getting[q]
      /\ pc[q] # "idle" => want[q] \in Versions /\ want[q] # None
  BY Wanted, CacheAssumption DEF TypeOK, BuildsRequired, Manifests
<1>1. \A r \in (Projects \ {q}) \ drifted' : RegisteredSoFar(r)'
  <2> TAKE r \in (Projects \ {q}) \ drifted'
  <2>1. pc'[r] = pc[r] /\ want'[r] = want[r] /\ project'[r] = project[r] /\ r \notin drifted
    BY StepsApart DEF Apart
  <2>2. RegisteredSoFar(r)
    BY <2>1 DEF RegistersWanted
  <2> QED
    BY <2>1, <2>2 DEF RegisteredSoFar, Registered
<1>2. ASSUME q \notin drifted' PROVE RegisteredSoFar(q)'
  <2>0. RegisteredSoFar(q)
    BY <1>2, StepsApart DEF Apart, RegistersWanted
  <2> USE DEF Goto, process
  <2>a. ASSUME pc[q] \notin {"replace", "propagate", "record"},
               pc'[q] \notin {"replace", "propagate", "record", "goRecord", "goBuild"}, pc[q] # "goRecord",
               project'[q].required = project[q].required, project'[q].goRequire = project[q].goRequire,
               project'[q].replaces = project[q].replaces, project'[q].goPkg = project[q].goPkg
        PROVE  RegisteredSoFar(q)'
    BY <2>0, <2>a DEF RegisteredSoFar, Registered
  <2>b. Exits(q) => pc'[q] = "idle"
    BY <1>0 DEF Exits
  <2>1. CASE Build(q) \/ Get(q)
    <3>1. PICK to \in {"resolve", "download", "goGet"} :
            /\ pc[q] = "idle" /\ pc' = [pc EXCEPT ![q] = to]
            /\ project' = [project EXCEPT ![q] = Synced(@)]
      BY <2>1 DEF Build, Get, Begins
    <3>2. /\ project'[q].required = project[q].required /\ project'[q].goPkg = project[q].goPkg
          /\ project'[q].replaces = project[q].replaces /\ pc'[q] = to
          /\ project'[q].goRequire \in {project[q].goRequire, project[q].goPkg}
          /\ project[q].goPkg = None => project'[q].goRequire = project[q].goRequire
      BY <1>0, <3>1 DEF Manifests, Synced
    <3> QED
      BY <2>0, <3>1, <3>2 DEF RegisteredSoFar, Registered
  <2>2. CASE Edits(q)
    BY <1>2, <2>2 DEF Edits
  <2>3. CASE Resolve(q)
    <3>1. pc[q] = "resolve" /\ project' = project
      BY <2>3 DEF Resolve
    <3>2. pc'[q] \in {"download", "require", "goBuild"}
      BY <1>0, <2>3 DEF Resolve
    <3>3. CASE pc'[q] = "goBuild"
      <4>1. ProjectReplaceValid(q)
        BY <1>0, <2>3, <3>3 DEF Resolve
      <4>2. 1 \in DOMAIN project[q].replaces
        BY <1>0, <4>1 DEF ProjectReplaceValid, Replaces
      <4>3. project[q].replaces[1].here
        BY <4>1 DEF ProjectReplaceValid
      <4>4. Registered(q, project[q].required)
        BY <2>0, <3>1, <4>2, <4>3 DEF RegisteredSoFar
      <4> QED
        BY <3>1, <3>3, <4>4 DEF RegisteredSoFar, Registered
    <3> QED
      BY <2>a, <3>1, <3>2, <3>3
  <2>4. CASE GetModule(q)
    <3>1. UNCHANGED project /\ pc[q] \notin {"replace", "propagate", "record"}
      BY <2>4 DEF GetModule, Download, Fetch, Extract, ExtractFails, ReadMod, EnsureMod, ModEdit, Collect,
                  Write
    <3>2. pc'[q] \notin {"replace", "propagate", "record", "goRecord", "goBuild"} /\ pc[q] # "goRecord"
      BY <1>0, <2>4, <2>b DEF GetModule, Download, Fetch, Extract, ExtractFails, ReadMod, EnsureMod,
                              ModEdit, Collect, Write
    <3> QED
      BY <2>a, <3>1, <3>2
  <2>5. CASE NotFound(q) \/ NoSources(q) \/ GoBuild(q)
    <3>1. UNCHANGED project /\ pc[q] \in {"fetch", "collect", "goBuild"} /\ pc'[q] \in {"goGet", "idle"}
      BY <1>0, <2>5, <2>b DEF NotFound, NoSources, GoBuild
    <3> QED
      BY <2>a, <3>1
  <2>6. CASE Require(q)
    <3>1. pc'[q] = "replace" /\ project'[q].goRequire = want'[q]
      BY <1>0, <2>6 DEF Require, Manifests
    <3> QED
      BY <3>1 DEF RegisteredSoFar
  <2>7. CASE AddReplace(q)
    <3> DEFINE rs == Replaced(project[q].replaces, want[q])
    <3>1. /\ project'[q].replaces = rs /\ project'[q].goRequire = project[q].goRequire
          /\ project'[q].required = project[q].required /\ project'[q].goPkg = project[q].goPkg
          /\ pc[q] = "replace" /\ pc'[q] = (IF viaCache[q] THEN "goBuild" ELSE "propagate")
          /\ want' = want
      BY <1>0, <2>7 DEF AddReplace, Manifests
    <3>2. Replace(want[q], TRUE) \in Range(rs)
      <4>1. want[q] \in Versions /\ Unique(project[q].replaces)
        BY <3>1, Wanted DEF TypeOK, Unique
      <4> QED
        BY <1>0, <4>1, ReplacedOnce
    <3> HIDE DEF rs
    <3>3. project'[q].goRequire = want[q]
      BY <2>0, <3>1 DEF RegisteredSoFar
    <3>4. Registered(q, want[q])'
      BY <1>0, <3>1, <3>2, <3>3 DEF Registered
    <3>5. CASE viaCache[q]
      <4>1. want[q] = project[q].required
        BY <1>0, <3>1, <3>5
      <4>2. Registered(q, project[q].required)'
        BY <3>1, <3>4, <4>1 DEF Registered
      <4> QED
        BY <3>1, <3>5, <4>2 DEF RegisteredSoFar, Registered
    <3>6. CASE ~viaCache[q]
      BY <3>1, <3>4, <3>6 DEF RegisteredSoFar
    <3> QED
      BY <3>5, <3>6
  <2>8. CASE Propagate(q)
    <3>1. /\ project'[q].replaces = project[q].replaces /\ project'[q].goRequire = project[q].goRequire
          /\ project'[q].required = project[q].required /\ project'[q].goPkg = project[q].goPkg
          /\ pc[q] = "propagate" /\ pc'[q] = (IF getting[q] THEN "record" ELSE "goBuild")
          /\ want' = want
      BY <1>0, <2>8 DEF Propagate, Manifests
    <3>2. Registered(q, want[q])'
      BY <2>0, <3>1 DEF RegisteredSoFar, Registered
    <3>3. CASE getting[q]
      BY <3>1, <3>2, <3>3 DEF RegisteredSoFar
    <3>4. CASE ~getting[q]
      <4>1. Registered(q, project[q].required)'
        BY <1>0, <3>1, <3>2, <3>4 DEF Registered
      <4> QED
        BY <3>1, <3>4, <4>1 DEF RegisteredSoFar, Registered
    <3> QED
      BY <3>3, <3>4
  <2>9. CASE Record(q)
    <3>1. /\ project'[q].replaces = project[q].replaces /\ project'[q].goRequire = project[q].goRequire
          /\ project'[q].required = want[q] /\ project'[q].goPkg = project[q].goPkg
          /\ pc[q] = "record" /\ pc'[q] = "idle"
      BY <1>0, <2>9, <2>b DEF Record, Manifests
    <3>2. Registered(q, project[q].required)'
      BY <2>0, <3>1 DEF RegisteredSoFar, Registered
    <3> QED
      BY <3>1, <3>2 DEF RegisteredSoFar, Registered
  <2>10. CASE GoGet(q)
    <3>1. /\ project'[q].replaces = project[q].replaces /\ project'[q].goRequire = want[q]
          /\ project'[q].required = project[q].required /\ want' = want
          /\ pc[q] = "goGet" /\ pc'[q] = "goRecord"
      BY <1>0, <2>10 DEF GoGet, Manifests
    <3> QED
      BY <2>0, <3>1 DEF RegisteredSoFar
  <2>12. CASE GoRecord(q)
    <3>1. /\ project'[q].replaces = project[q].replaces /\ project'[q].goRequire = project[q].goRequire
          /\ project'[q].required = project[q].required /\ project'[q].goPkg = want[q]
          /\ pc[q] = "goRecord" /\ pc'[q] = "idle"
      BY <1>0, <2>12, <2>b DEF GoRecord, Manifests
    <3> QED
      BY <1>0, <2>0, <3>1 DEF RegisteredSoFar, Registered
  <2>11. CASE Fails(q) \/ Killed(q)
    <3>1. Ends(q)
      BY <2>11 DEF Fails, Killed
    <3>2. /\ pc[q] \notin {"replace", "propagate", "record", "goRecord"}
          /\ UNCHANGED project /\ pc'[q] = "idle"
      BY <1>2, <2>b, <3>1 DEF Ends
    <3> QED
      BY <2>a, <3>2
  <2> QED
    BY <2>1, <2>2, <2>3, <2>4, <2>5, <2>6, <2>7, <2>8, <2>9, <2>10, <2>11, <2>12 DEF Step
<1> QED
  BY <1>1, <1>2 DEF RegistersWanted

-----------------------------------------------------------------------------
(* One get of a version at a time. *)

LEMMA BusyStep ==
  ASSUME TypeOK, NEW q \in Projects, Step(q)
  PROVE  /\ Busy(q)' => want'[q] = want[q]
         /\ Busy(q)' /\ ~Busy(q) =>
              \A r \in Projects \ {q} : Busy(r) /\ want[r] = want[q] => want[q] \in spoiled'
         /\ Busy(q) /\ ~Busy(q)' =>
              \/ want[q] \in spoiled' \/ ExtractFails(q)
              \/ Write(q) /\ Finished(q)' /\ want'[q] = want[q]
<1>0. DOMAIN pc = Projects /\ DOMAIN want = Projects
  BY DEF TypeOK
<1> USE DEF Goto, process, Busy
<1>a. Exits(q) => pc'[q] = "idle"
  BY <1>0 DEF Exits
<1>1. CASE Build(q) \/ Get(q)
  <2>1. pc[q] = "idle" /\ pc'[q] \in {"resolve", "download", "goGet"}
    BY <1>0, <1>1 DEF Build, Get, Begins
  <2> QED
    BY <2>1
<1>2. CASE Edits(q)
  BY <1>2 DEF Edits
<1>3. CASE Resolve(q)
  <2>1. pc[q] = "resolve" /\ pc'[q] \in {"download", "require", "goBuild"}
    BY <1>0, <1>3 DEF Resolve
  <2> QED
    BY <2>1
<1>4. CASE Download(q)
  BY <1>0, <1>4 DEF Download, Overlap
<1>5. CASE Fetch(q)
  BY <1>0, <1>5 DEF Fetch, Overlap
<1>6. CASE Extract(q)
  BY <1>0, <1>6 DEF Extract
<1>7. CASE ExtractFails(q)
  BY <1>a, <1>7 DEF ExtractFails
<1>8. CASE ReadMod(q) \/ EnsureMod(q) \/ ModEdit(q) \/ Collect(q)
  <2>1. /\ pc[q] \in {"readMod", "ensureMod", "modEdit", "collect"} /\ UNCHANGED want
        /\ pc'[q] \in {"ensureMod", "modEdit", "collect", "write"}
    BY <1>0, <1>8 DEF ReadMod, EnsureMod, ModEdit, Collect
  <2> QED
    BY <2>1
<1>9. CASE Write(q)
  <2>1. pc[q] = "write" /\ UNCHANGED want /\ pc'[q] \in {"write", "require"}
    BY <1>9, Wrote DEF Write
  <2> QED
    BY <1>9, <2>1 DEF Finished
<1>10. CASE NotFound(q)
  BY <1>0, <1>10 DEF NotFound
<1>11. CASE NoSources(q)
  BY <1>0, <1>11 DEF NoSources
<1>12. CASE Require(q) \/ AddReplace(q) \/ Propagate(q)
  <2>1. /\ pc[q] \in {"require", "replace", "propagate"}
        /\ pc'[q] \in {"replace", "propagate", "goBuild", "record"}
    BY <1>0, <1>12 DEF Require, AddReplace, Propagate
  <2> QED
    BY <2>1
<1>13. CASE Record(q) \/ GoRecord(q) \/ GoBuild(q)
  BY <1>a, <1>13 DEF Record, GoRecord, GoBuild
<1>15. CASE GoGet(q)
  BY <1>0, <1>15 DEF GoGet
<1>14. CASE Fails(q) \/ Killed(q)
  <2>1. Ends(q)
    BY <1>14 DEF Fails, Killed
  <2> QED
    BY <1>a, <2>1 DEF Ends
<1> QED
  BY <1>1, <1>2, <1>3, <1>4, <1>5, <1>6, <1>7, <1>8, <1>9, <1>10, <1>11, <1>12, <1>13, <1>14, <1>15
  DEF Step, GetModule

LEMMA AloneStep ==
  ASSUME TypeOK, AloneOrSpoiled, NEW q \in Projects, Step(q)
  PROVE  AloneOrSpoiled'
<1>1. \A r \in Projects \ {q} : (Busy(r)' <=> Busy(r)) /\ want'[r] = want[r]
  BY StepsApart DEF Apart, Busy
<1>2. spoiled \subseteq spoiled'
  BY StepsApart DEF Apart
<1>3. ASSUME NEW r \in Projects \ {q}, Busy(q)', Busy(r)', want'[q] = want'[r]
      PROVE  want'[q] \in spoiled'
  <2>1. Busy(r) /\ want[r] = want[q] /\ want'[q] = want[q]
    BY <1>1, <1>3, BusyStep
  <2>2. CASE Busy(q)
    BY <1>2, <2>1, <2>2 DEF AloneOrSpoiled
  <2>3. CASE ~Busy(q)
    BY <1>3, <2>1, <2>3, BusyStep
  <2> QED
    BY <2>2, <2>3
<1>4. ASSUME NEW a \in Projects, NEW b \in Projects, a # b, Busy(a)', Busy(b)', want'[a] = want'[b]
      PROVE  want'[a] \in spoiled'
  <2>1. CASE a = q
    BY <1>3, <1>4, <2>1
  <2>2. CASE b = q
    BY <1>3, <1>4, <2>2
  <2>3. CASE a # q /\ b # q
    BY <1>1, <1>2, <1>4, <2>3 DEF AloneOrSpoiled
  <2> QED
    BY <2>1, <2>2, <2>3
<1> QED
  BY <1>4 DEF AloneOrSpoiled

-----------------------------------------------------------------------------
(* What is in the cache. *)

Full(e) == e = [dir |-> TRUE, files |-> Archive, goMod |-> TRUE, goDep |-> TRUE, gen |-> Generated]

LEMMA FullEntries ==
  /\ \A e \in Entries : Full(e) <=> e.dir /\ e.files = Archive /\ e.goMod /\ e.goDep /\ e.gen = Generated
  /\ \A v : (Complete(v) <=> Full(cache[v])) /\ (Complete(v)' <=> Full(cache'[v]))
  /\ ~Absent.dir /\ ~Absent.goMod /\ Absent \in Entries
BY DEF Full, Entries, Complete, Absent

(* Nobody else is at the module that a step changes, unless it is spoiled. *)
LEMMA ChangesAlone ==
  ASSUME TypeOK, AloneOrSpoiled, NEW q \in Projects, Step(q),
         NEW v \in Versions \ spoiled', cache'[v] # cache[v]
  PROVE  /\ v = want[q] /\ GetModule(q) /\ (Busy(q) \/ Busy(q)')
         /\ \A r \in Projects \ {q} : ~(Busy(r) /\ want[r] = v)
<1>1. v = want[q]
  BY CacheOf DEF Becomes
<1>2. GetModule(q) /\ ~UNCHANGED cache
  BY DEF Step, Build, Get, Begins, Edits, Resolve, NotFound, NoSources, Require, AddReplace,
         Propagate, Record, GoGet, GoRecord, GoBuild, Fails, Killed, Ends
<1>3. Busy(q) \/ Busy(q)'
  <2>1. CASE Fetch(q)
    BY <2>1 DEF Fetch, Busy, Goto, TypeOK
  <2>2. CASE ~Fetch(q)
    BY <1>2, <2>2 DEF GetModule, Download, Extract, ExtractFails, ReadMod, EnsureMod, ModEdit,
                      Collect, Write, Busy
  <2> QED
    BY <2>1, <2>2
<1>4. v \notin spoiled
  BY StepsApart DEF Apart
<1>5. ASSUME NEW r \in Projects \ {q}, Busy(r), want[r] = v PROVE FALSE
  <2>1. CASE Busy(q)
    BY <1>1, <1>4, <1>5, <2>1 DEF AloneOrSpoiled
  <2>2. CASE ~Busy(q)
    BY <1>1, <1>3, <1>5, <2>2, BusyStep
  <2> QED
    BY <2>1, <2>2
<1> QED
  BY <1>1, <1>2, <1>3, <1>5

(* A get finds the module as a whole or not at all. *)
LEMMA FindsWhole ==
  ASSUME TypeOK, WholeOrAbsent, NEW q \in Projects, ~Busy(q), want[q] \in Versions \ spoiled,
         \A r \in Projects \ {q} : ~(Busy(r) /\ want[r] = want[q])
  PROVE  cache[want[q]] = Absent \/ Complete(want[q])
BY DEF WholeOrAbsent

(* Gets of a module that is complete leave it so. *)
LEMMA StaysComplete ==
  ASSUME TypeOK, AloneOrSpoiled, Stages, NEW q \in Projects, Step(q),
         NEW v \in Versions \ spoiled', Complete(v)
  PROVE  Complete(v)'
<1> SUFFICES ASSUME cache'[v] # cache[v] PROVE Complete(v)'
  BY DEF Complete
<1>1. v = want[q] /\ GetModule(q) /\ v \notin spoiled
  BY ChangesAlone, StepsApart DEF Apart
<1>2. Stage(q)
  BY <1>1 DEF Stages
<1>3. /\ cache[v] \in Entries /\ cache[v].dir /\ cache[v].files = Archive /\ cache[v].goMod
      /\ cache[v].goDep /\ cache[v].gen = Generated
  BY FullEntries DEF TypeOK
<1>4. CASE Download(q) \/ ReadMod(q)
  BY <1>4 DEF Download, ReadMod
<1>5. CASE Fetch(q)
  <2>1. pc[q] = "fetch" /\ Entry(q).dir
    BY <1>1, <1>3, <1>5 DEF Fetch, Entry
  <2>2. v \in spoiled'
    BY <1>1, <1>5, <2>1 DEF Fetch, Overlap
  <2> QED
    BY <2>2
<1>6. CASE Extract(q) \/ ExtractFails(q)
  <2>1. pc[q] = "extract"
    BY <1>6 DEF Extract, ExtractFails
  <2> QED
    BY <1>1, <1>2, <1>3, <2>1 DEF Stage
<1>7. CASE EnsureMod(q)
  <2>1. cache'[v] = [cache[v] EXCEPT !.goMod = TRUE]
    BY <1>1, <1>7, Ensured DEF Becomes
  <2> QED
    BY <1>3, <2>1, FullEntries DEF Entries
<1>8. CASE ModEdit(q)
  <2>1. cache'[v] = [cache[v] EXCEPT !.goDep = TRUE]
    BY <1>1, <1>8, Edited DEF Becomes
  <2> QED
    BY <1>3, <2>1, FullEntries DEF Entries
<1>9. CASE Collect(q)
  <2>1. cache'[v] = [cache[v] EXCEPT !.goMod = TRUE, !.goDep = TRUE]
    BY <1>1, <1>9, Collected DEF Becomes
  <2> QED
    BY <1>3, <2>1, FullEntries DEF Entries
<1>10. CASE Write(q)
  <2>1. PICK f \in left[q] : Becomes(q, [cache[want[q]] EXCEPT !.gen = @ \cup {f}])
    BY <1>10, Wrote
  <2>2. f \in Generated
    BY <1>10 DEF Write, TypeOK
  <2>3. cache'[v] = [cache[v] EXCEPT !.gen = Generated]
    BY <1>1, <1>3, <2>1, <2>2 DEF Becomes, Entries
  <2> QED
    BY <1>3, <2>3, FullEntries DEF Entries
<1> QED
  BY <1>1, <1>4, <1>5, <1>6, <1>7, <1>8, <1>9, <1>10 DEF GetModule

(* What a get has done, step by step. *)
LEMMA OwnStage ==
  ASSUME Inv, NEW q \in Projects, Step(q), want'[q] \in Versions \ spoiled'
  PROVE  Stage(q)'
<1> DEFINE v == want[q]  e == cache[want[q]]
<1>0. /\ TypeOK /\ AloneOrSpoiled /\ Stages /\ WholeOrAbsent
      /\ DOMAIN pc = Projects /\ DOMAIN want = Projects /\ DOMAIN left = Projects
      /\ DOMAIN hasMod = Projects /\ spoiled \subseteq spoiled' /\ None \notin Versions
  BY StepsApart, CacheAssumption DEF Inv, TypeOK, Apart
<1> USE DEF Goto, process
<1>a. ASSUME pc'[q] \in {"idle", "resolve", "download", "fetch", "goGet", "goRecord"} PROVE Stage(q)'
  BY <1>a DEF Stage, Finished
<1>b. ASSUME pc[q] # "idle", want' = want
      PROVE  /\ v \in Versions /\ v \notin spoiled /\ v \notin spoiled' /\ want'[q] = v
             /\ Stage(q) /\ e \in Entries
  BY <1>0, <1>b, Wanted DEF Stages
<1>c. ASSUME Complete(v)', want'[q] = v, Finished(q)' PROVE Stage(q)'
  BY <1>c DEF Stage, Finished
<1>d. Exits(q) => pc'[q] = "idle"
  BY <1>0 DEF Exits
<1>1. CASE Build(q) \/ Get(q)
  <2>1. pc'[q] \in {"resolve", "download", "goGet"}
    BY <1>0, <1>1 DEF Build, Get, Begins
  <2> QED
    BY <1>a, <2>1
<1>2. CASE Edits(q)
  BY <1>a, <1>2 DEF Edits
<1>3. CASE Resolve(q)
  <2>1. pc[q] = "resolve" /\ UNCHANGED <<cache, want>> /\ Overlap(q)
    BY <1>3 DEF Resolve
  <2>2. CASE ~e.goMod
    <3>1. pc'[q] = "download"
      BY <1>0, <1>3, <2>2 DEF Resolve, IsCached
    <3> QED
      BY <1>a, <3>1
  <2>3. CASE e.goMod
    <3>1. Finished(q)'
      BY <1>0, <1>3, <2>3 DEF Resolve, IsCached, Finished
    <3>2. /\ want[q] \in Versions \ spoiled /\ want[q] \notin spoiled' /\ want'[q] = want[q]
      BY <1>b, <2>1
    <3>3. \A r \in Projects \ {q} : ~(Busy(r) /\ want[r] = want[q])
      BY <2>1, <3>2 DEF Overlap
    <3>4. ~Busy(q)
      BY <2>1 DEF Busy
    <3>5. Complete(want[q])
      BY <1>0, <2>3, <3>2, <3>3, <3>4, FindsWhole, FullEntries
    <3>6. Complete(want[q])'
      BY <2>1, <3>5 DEF Complete
    <3> QED
      BY <1>c, <3>1, <3>2, <3>6
  <2> QED
    BY <2>2, <2>3
<1>4. CASE Download(q)
  <2>1. pc[q] = "download" /\ UNCHANGED <<cache, want>>
    BY <1>4 DEF Download
  <2>2. CASE ~Entry(q).dir
    <3>1. pc'[q] = "fetch"
      BY <1>0, <1>4, <2>2 DEF Download
    <3> QED
      BY <1>a, <3>1
  <2>3. CASE Entry(q).dir
    <3>1. pc'[q] = "readMod" /\ Overlap(q)
      BY <1>0, <1>4, <2>3 DEF Download
    <3>2. want[q] \in Versions \ spoiled /\ want[q] \notin spoiled' /\ want'[q] = want[q]
      BY <1>b, <2>1
    <3>3. \A r \in Projects \ {q} : ~(Busy(r) /\ want[r] = want[q])
      BY <3>1, <3>2 DEF Overlap
    <3>4. ~Busy(q)
      BY <2>1 DEF Busy
    <3>5. Complete(want[q])
      BY <1>0, <2>3, <3>2, <3>3, <3>4, FindsWhole, FullEntries DEF Entry
    <3>6. Complete(want[q])'
      BY <2>1, <3>5 DEF Complete
    <3> QED
      BY <3>1, <3>2, <3>6 DEF Stage, Finished
  <2> QED
    BY <2>2, <2>3
<1>5. CASE Fetch(q)
  <2>1. pc[q] = "fetch" /\ UNCHANGED want /\ Overlap(q) /\ left'[q] = Archive /\ pc'[q] = "extract"
    BY <1>0, <1>5 DEF Fetch
  <2>2. want[q] \in Versions \ spoiled /\ want[q] \notin spoiled' /\ want'[q] = want[q]
    BY <1>b, <2>1
  <2>3. ~Entry(q).dir /\ \A r \in Projects \ {q} : ~(Busy(r) /\ want[r] = want[q])
    BY <2>1, <2>2 DEF Overlap
  <2>4. ~Busy(q)
    BY <2>1 DEF Busy
  <2>5. cache[want[q]] = Absent
    BY <1>0, <1>b, <2>1, <2>2, <2>3, <2>4, FindsWhole, FullEntries DEF Entry
  <2>6. cache'[want[q]] = [Absent EXCEPT !.dir = TRUE]
    BY <1>0, <1>5, <2>5, Fetched DEF Becomes
  <2>7. LET n == cache'[want'[q]] IN n.dir /\ n.files = {} /\ ~n.goMod /\ ~n.goDep /\ n.gen = {}
    BY <2>2, <2>6 DEF Absent
  <2> QED
    BY <2>1, <2>7 DEF Stage, Finished
<1>6. CASE Extract(q)
  <2>1. pc[q] = "extract" /\ UNCHANGED want
    BY <1>6 DEF Extract
  <2>2. /\ e.dir /\ left[q] \subseteq Archive /\ e.files = Archive \ left[q]
        /\ ~e.goMod /\ ~e.goDep /\ e.gen = {}
        /\ want'[q] = want[q] /\ e \in Entries
    BY <1>b, <2>1 DEF Stage
  <2>3. CASE left[q] = {}
    <3>1. UNCHANGED cache /\ pc'[q] = "readMod"
      BY <1>0, <1>6, <2>3 DEF Extract
    <3>2. LET n == cache'[want'[q]] IN n.dir /\ n.files = Archive /\ ~n.goMod /\ ~n.goDep /\ n.gen = {}
      BY <2>2, <2>3, <3>1
    <3> QED
      BY <3>1, <3>2 DEF Stage, Finished
  <2>4. CASE left[q] # {}
    <3>1. PICK f \in left[q] : /\ Becomes(q, [e EXCEPT !.dir = TRUE, !.files = @ \cup {f}])
                               /\ left'[q] = left[q] \ {f} /\ pc'[q] = "extract"
      BY <1>0, <1>6, <2>4, Extracted
    <3>2. cache'[want[q]] = [e EXCEPT !.dir = TRUE, !.files = @ \cup {f}]
      BY <3>1 DEF Becomes
    <3>3. LET n == cache'[want'[q]] IN
          /\ n.dir /\ left'[q] \subseteq Archive /\ n.files = Archive \ left'[q]
          /\ ~n.goMod /\ ~n.goDep /\ n.gen = {}
      BY <2>2, <3>1, <3>2 DEF Entries
    <3> QED
      BY <3>1, <3>3 DEF Stage, Finished
  <2> QED
    BY <2>3, <2>4
<1>7. CASE ReadMod(q)
  <2>1. pc[q] = "readMod" /\ UNCHANGED <<want, cache>> /\ pc'[q] = "ensureMod"
    BY <1>0, <1>7 DEF ReadMod
  <2>2. want'[q] = want[q] /\ e \in Entries
        /\ (Complete(want[q]) \/ (e.dir /\ e.files = Archive /\ ~e.goMod /\ ~e.goDep /\ e.gen = {}))
    BY <1>b, <2>1 DEF Stage
  <2>3. e.files = Archive
    BY <2>2, FullEntries
  <2>4. hasMod'[q]
    BY <1>0, <1>7, <2>3 DEF ReadMod, Entry, Archive
  <2> QED
    BY <2>1, <2>2, <2>4 DEF Stage, Finished, Complete
<1>8. CASE EnsureMod(q)
  <2>1. /\ pc[q] = "ensureMod" /\ UNCHANGED want
        /\ pc'[q] = (IF hasMod[q] /\ ~Entry(q).goMod THEN "modEdit" ELSE "collect")
    BY <1>0, <1>8 DEF EnsureMod
  <2>2. want'[q] = want[q] /\ e \in Entries /\ hasMod[q]
        /\ (Complete(want[q]) \/ (e.dir /\ e.files = Archive /\ ~e.goMod /\ ~e.goDep /\ e.gen = {}))
    BY <1>b, <2>1 DEF Stage
  <2>3. cache'[want[q]] = [e EXCEPT !.goMod = TRUE]
    BY <1>0, <1>8, Ensured DEF Becomes
  <2>4. CASE e.goMod
    <3>1. pc'[q] = "collect"
      BY <2>1, <2>4 DEF Entry
    <3>2. e.dir /\ e.files = Archive /\ e.goDep
      BY <2>2, <2>4, FullEntries
    <3>3. LET n == cache'[want'[q]] IN n.dir /\ n.files = Archive /\ n.goMod /\ n.goDep
      BY <2>2, <2>3, <3>2 DEF Entries
    <3> QED
      BY <3>1, <3>3 DEF Stage, Finished
  <2>5. CASE ~e.goMod
    <3>1. pc'[q] = "modEdit"
      BY <2>1, <2>2, <2>5 DEF Entry
    <3>2. e.dir /\ e.files = Archive
      BY <2>2, <2>5, FullEntries
    <3>3. LET n == cache'[want'[q]] IN n.dir /\ n.files = Archive /\ n.goMod
      BY <2>2, <2>3, <3>2 DEF Entries
    <3> QED
      BY <3>1, <3>3 DEF Stage, Finished
  <2> QED
    BY <2>4, <2>5
<1>9. CASE ModEdit(q)
  <2>1. pc[q] = "modEdit" /\ UNCHANGED want /\ pc'[q] = "collect"
    BY <1>0, <1>9 DEF ModEdit
  <2>2. want'[q] = want[q] /\ e \in Entries /\ e.dir /\ e.files = Archive /\ e.goMod
    BY <1>b, <2>1 DEF Stage
  <2>3. cache'[want[q]] = [e EXCEPT !.goDep = TRUE]
    BY <1>0, <1>9, Edited DEF Becomes
  <2>4. LET n == cache'[want'[q]] IN n.dir /\ n.files = Archive /\ n.goMod /\ n.goDep
    BY <2>2, <2>3 DEF Entries
  <2> QED
    BY <2>1, <2>4 DEF Stage, Finished
<1>10. CASE Collect(q)
  <2>1. pc[q] = "collect" /\ UNCHANGED want /\ pc'[q] = "write"
    BY <1>0, <1>10 DEF Collect
  <2>2. want'[q] = want[q] /\ e \in Entries /\ e.dir /\ e.files = Archive /\ e.goMod /\ e.goDep
    BY <1>b, <2>1 DEF Stage
  <2>3. left'[q] = Generated
    BY <1>0, <1>10, <2>2 DEF Collect, Entry, Archive, Generated
  <2>4. cache'[want[q]] = [e EXCEPT !.goMod = TRUE, !.goDep = TRUE]
    BY <1>0, <1>10, <2>2, Collected DEF Becomes, Archive
  <2>5. LET n == cache'[want'[q]] IN n.dir /\ n.files = Archive /\ n.goMod /\ n.goDep
    BY <2>2, <2>4 DEF Entries
  <2> QED
    BY <2>1, <2>3, <2>5 DEF Stage, Finished
<1>11. CASE Write(q)
  <2>1. pc[q] = "write" /\ UNCHANGED want
    BY <1>11 DEF Write
  <2>2. /\ want'[q] = want[q] /\ e \in Entries /\ e.dir /\ e.files = Archive /\ e.goMod /\ e.goDep
        /\ left[q] \subseteq Generated /\ Generated \subseteq e.gen \cup left[q]
    BY <1>b, <2>1 DEF Stage
  <2>3. PICK f \in left[q] : /\ Becomes(q, [e EXCEPT !.gen = @ \cup {f}])
                             /\ left'[q] = left[q] \ {f}
                             /\ pc'[q] = IF left[q] = {f} THEN "require" ELSE "write"
    BY <1>0, <1>11, Wrote
  <2>4. cache'[want[q]] = [e EXCEPT !.gen = @ \cup {f}] /\ cache'[want[q]] \in Entries
    BY <1>b, <2>1, <2>3 DEF Becomes
  <2>5. LET n == cache'[want'[q]] IN
        /\ n.dir /\ n.files = Archive /\ n.goMod /\ n.goDep
        /\ left'[q] \subseteq Generated /\ Generated \subseteq n.gen \cup left'[q]
        /\ n.gen \subseteq Generated
    BY <2>2, <2>3, <2>4 DEF Entries
  <2>6. CASE left[q] = {f}
    <3>1. pc'[q] = "require" /\ left'[q] = {}
      BY <2>3, <2>6
    <3>2. cache'[want'[q]].gen = Generated
      BY <2>5, <3>1
    <3>3. Complete(want[q])'
      BY <2>2, <2>4, <2>5, <3>2, FullEntries
    <3> QED
      BY <1>c, <2>2, <3>1, <3>3 DEF Finished
  <2>7. CASE left[q] # {f}
    <3>1. pc'[q] = "write"
      BY <2>3, <2>7
    <3> QED
      BY <2>5, <3>1 DEF Stage, Finished
  <2> QED
    BY <2>6, <2>7
<1>12. CASE NotFound(q) \/ NoSources(q)
  <2>1. pc'[q] = "goGet"
    BY <1>0, <1>12 DEF NotFound, NoSources
  <2> QED
    BY <1>a, <2>1
<1>13. CASE Require(q) \/ AddReplace(q) \/ Propagate(q)
  <2>1. /\ Finished(q) /\ Finished(q)' /\ UNCHANGED <<cache, want>> /\ pc[q] # "idle"
    BY <1>0, <1>13 DEF Require, AddReplace, Propagate, Finished
  <2>2. Complete(want[q]) /\ want'[q] = want[q]
    BY <1>b, <2>1 DEF Stage
  <2>3. Complete(want[q])'
    BY <2>1, <2>2 DEF Complete
  <2> QED
    BY <1>c, <2>1, <2>2, <2>3
<1>14. CASE ExtractFails(q) \/ Record(q) \/ GoRecord(q) \/ GoBuild(q) \/ Fails(q) \/ Killed(q)
  <2>1. Exits(q)
    BY <1>14 DEF ExtractFails, Record, GoRecord, GoBuild, Fails, Killed, Ends
  <2> QED
    BY <1>a, <1>d, <2>1
<1>15. CASE GoGet(q)
  BY <1>0, <1>a, <1>15 DEF GoGet
<1> QED
  BY <1>1, <1>2, <1>3, <1>4, <1>5, <1>6, <1>7, <1>8, <1>9, <1>10, <1>11, <1>12, <1>13, <1>14, <1>15
  DEF Step, GetModule

LEMMA StagesStep ==
  ASSUME Inv, NEW q \in Projects, Step(q)
  PROVE  Stages'
<1>0. TypeOK /\ AloneOrSpoiled /\ Stages
  BY DEF Inv
<1>1. want'[q] \in Versions \ spoiled' => Stage(q)'
  BY OwnStage
<1>2. ASSUME NEW r \in Projects \ {q}, want'[r] \in Versions \ spoiled' PROVE Stage(r)'
  <2>1. /\ pc'[r] = pc[r] /\ want'[r] = want[r] /\ left'[r] = left[r] /\ hasMod'[r] = hasMod[r]
        /\ spoiled \subseteq spoiled'
    BY <1>0, StepsApart DEF Apart
  <2>2. want[r] \in Versions \ spoiled' /\ Stage(r)
    BY <1>0, <1>2, <2>1 DEF Stages
  <2>3. CASE cache'[want[r]] = cache[want[r]]
    BY <2>1, <2>2, <2>3 DEF Stage, Finished, Complete
  <2>4. CASE cache'[want[r]] # cache[want[r]]
    <3>1. ~Busy(r)
      BY <1>0, <2>2, <2>4, ChangesAlone
    <3>2. \A v \in Versions \ spoiled' : Complete(v) => Complete(v)'
      BY <1>0, StaysComplete
    <3>3. PICK v \in Versions \ spoiled' : v = want[r] /\ v = want'[r]
      BY <2>1, <2>2
    <3>4. Finished(r) => Complete(v)'
      BY <2>2, <3>2, <3>3 DEF Stage
    <3> QED
      BY <2>1, <3>1, <3>3, <3>4 DEF Stage, Finished, Complete, Busy
  <2> QED
    BY <2>3, <2>4
<1> QED
  BY <1>1, <1>2 DEF Stages

LEMMA WholeStep ==
  ASSUME Inv, NEW q \in Projects, Step(q)
  PROVE  WholeOrAbsent'
<1> SUFFICES ASSUME NEW v \in Versions \ spoiled', \A r \in Projects : ~(Busy(r)' /\ want'[r] = v)
             PROVE  cache'[v] = Absent \/ Complete(v)'
  BY DEF WholeOrAbsent
<1>0. TypeOK /\ AloneOrSpoiled /\ Stages /\ WholeOrAbsent /\ spoiled \subseteq spoiled'
  BY StepsApart DEF Inv, Apart
<1>1. CASE Busy(q) /\ want[q] = v
  <2>1. ~Busy(q)'
    BY <1>0, <1>1, BusyStep
  <2>2. CASE ExtractFails(q)
    BY <1>0, <1>1, <2>2, Removed DEF Becomes
  <2>3. CASE Finished(q)' /\ want'[q] = want[q]
    <3>1. Stage(q)'
      BY <1>1, <2>3, OwnStage
    <3> QED
      BY <1>1, <2>3, <3>1 DEF Stage, Complete
  <2> QED
    BY <1>0, <1>1, <2>1, <2>2, <2>3, BusyStep
<1>2. CASE ~(Busy(q) /\ want[q] = v)
  <2>1. \A r \in Projects \ {q} : (Busy(r)' <=> Busy(r)) /\ want'[r] = want[r]
    BY <1>0, StepsApart DEF Apart, Busy
  <2>2. \A r \in Projects : ~(Busy(r) /\ want[r] = v)
    BY <1>2, <2>1
  <2>3. cache[v] = Absent \/ Complete(v)
    BY <1>0, <2>2 DEF WholeOrAbsent
  <2>4. cache'[v] = cache[v]
    <3> SUFFICES ASSUME cache'[v] # cache[v] PROVE FALSE
      OBVIOUS
    <3>1. v = want[q] /\ (Busy(q) \/ Busy(q)')
      BY <1>0, ChangesAlone
    <3> QED
      BY <1>0, <1>2, <3>1, BusyStep
  <2> QED
    BY <2>3, <2>4 DEF Complete
<1> QED
  BY <1>1, <1>2

(* go.mod gets a directive from a get that has just finished its module,   *)
(* or from a build that found it whole; no command takes a file of a whole *)
(* module away.                                                            *)
LEMMA ReplacesStep ==
  ASSUME TypeOK, NEW q \in Projects, Step(q)
  PROVE  \/ AddReplace(q) /\ project'[q].replaces = Replaced(project[q].replaces, want[q])
         \/ project'[q].replaces = project[q].replaces
<1>0. project \in [Projects -> Manifests] /\ project[q] \in Manifests
  BY DEF TypeOK
<1>1. CASE AddReplace(q)
  BY <1>0, <1>1 DEF AddReplace, Manifests
<1>2. CASE Build(q) \/ Get(q)
  <2>1. project' = [project EXCEPT ![q] = Synced(@)]
    BY <1>2 DEF Build, Get, Begins
  <2> QED
    BY <1>0, <2>1 DEF Synced, Manifests
<1>3. CASE GetModule(q)
  BY <1>3 DEF GetModule, Download, Fetch, Extract, ExtractFails, ReadMod, EnsureMod, ModEdit, Collect,
              Write
<1>4. CASE Edits(q) \/ Require(q) \/ Propagate(q) \/ Record(q) \/ GoGet(q) \/ GoRecord(q)
  BY <1>0, <1>4 DEF Edits, Require, Propagate, Record, GoGet, GoRecord, Manifests
<1>5. CASE Resolve(q) \/ NotFound(q) \/ NoSources(q) \/ GoBuild(q) \/ Fails(q) \/ Killed(q)
  BY <1>5 DEF Resolve, NotFound, NoSources, GoBuild, Fails, Killed, Ends
<1> QED
  BY <1>1, <1>2, <1>3, <1>4, <1>5 DEF Step

LEMMA DirectiveOf ==
  ASSUME NEW rs \in Replaces, NEW v \in Versions, NEW w \in Versions,
         Replace(w, TRUE) \in Range(Replaced(rs, v)), w # v
  PROVE  Replace(w, TRUE) \in Range(rs)
<1> DEFINE R == [v : Versions, here : BOOLEAN]
<1>0. rs \in Seq(R) /\ Replace(v, TRUE) \in R /\ Replace(v, TRUE).v = v /\ Replace(w, TRUE).v = w
  BY DEF Replaces, Replace
<1> HIDE DEF R
<1>1. CASE \E i \in DOMAIN rs : rs[i].v = v
  <2>1. Replaced(rs, v) = [i \in DOMAIN rs |-> IF rs[i].v = v THEN Replace(v, TRUE) ELSE rs[i]]
    BY <1>1 DEF Replaced
  <2>2. PICK i \in DOMAIN rs : Replace(w, TRUE) = IF rs[i].v = v THEN Replace(v, TRUE) ELSE rs[i]
    BY <2>1 DEF Range
  <2> QED
    BY <1>0, <2>2 DEF Range
<1>2. CASE ~ \E i \in DOMAIN rs : rs[i].v = v
  <2>1. PICK new : new = Replaced(rs, v)
    OBVIOUS
  <2>2. PICK e : e = Replace(v, TRUE)
    OBVIOUS
  <2>3. new = Append(rs, e) /\ e \in R
    BY <1>0, <1>2, <2>1, <2>2 DEF Replaced
  <2>4. /\ new[Len(rs) + 1] = e /\ DOMAIN new = 1..(Len(rs) + 1) /\ DOMAIN rs = 1..Len(rs)
        /\ Len(rs) \in Nat /\ \A i \in 1..Len(rs) : new[i] = rs[i]
    BY <1>0, <2>3, OneMore
  <2>5. PICK i \in DOMAIN new : Replace(w, TRUE) = new[i]
    BY <2>1 DEF Range
  <2>6. i # Len(rs) + 1
    BY <1>0, <2>2, <2>4, <2>5
  <2>7. i \in DOMAIN rs
    BY <2>4, <2>6
  <2>8. new[i] = rs[i]
    BY <2>4, <2>7
  <2> QED
    BY <2>5, <2>7, <2>8 DEF Range
<1> QED
  BY <1>1, <1>2

LEMMA LeadsStep ==
  ASSUME Inv, NEW q \in Projects, Step(q)
  PROVE  LeadsToWhole'
<1>0. /\ TypeOK /\ AloneOrSpoiled /\ Stages /\ LeadsToWhole /\ Apart(q)
      /\ project \in [Projects -> Manifests] /\ spoiled \subseteq spoiled'
  BY StepsApart DEF Inv, Apart, TypeOK
<1>1. SUFFICES ASSUME NEW r \in Projects, NEW v \in Versions \ spoiled',
                      Replace(v, TRUE) \in Range(project'[r].replaces)
               PROVE  Complete(v)'
  BY DEF LeadsToWhole
<1>2. ASSUME Replace(v, TRUE) \in Range(project[r].replaces) PROVE Complete(v)'
  BY <1>0, <1>2, StaysComplete DEF LeadsToWhole
<1>3. CASE r # q
  BY <1>0, <1>1, <1>2, <1>3 DEF Apart
<1>4. CASE r = q
  <2>1. CASE project'[q].replaces = project[q].replaces
    BY <1>1, <1>2, <1>4, <2>1
  <2>2. CASE AddReplace(q) /\ project'[q].replaces = Replaced(project[q].replaces, want[q])
    <3>1. pc[q] = "replace" /\ UNCHANGED cache
      BY <2>2 DEF AddReplace
    <3>2. want[q] \in Versions /\ project[q].replaces \in Replaces
      BY <1>0, <3>1, Wanted DEF Manifests
    <3>3. CASE v = want[q]
      <4>1. Complete(v)
        BY <1>0, <3>1, <3>3 DEF Stages, Stage, Finished
      <4> QED
        BY <3>1, <4>1 DEF Complete
    <3>4. CASE v # want[q]
      BY <1>1, <1>2, <1>4, <2>2, <3>2, <3>4, DirectiveOf
    <3> QED
      BY <3>3, <3>4
  <2> QED
    BY <1>0, <2>1, <2>2, ReplacesStep
<1> QED
  BY <1>3, <1>4

-----------------------------------------------------------------------------
LEMMA InitInv == Init => Inv
<1> SUFFICES ASSUME Init PROVE Inv
  OBVIOUS
<1>0. /\ cache = [v \in Versions |-> Absent]
      /\ project \in [Projects -> NewProjects \cup ClonedProjects]
      /\ \A q \in Projects : pc[q] = "idle" /\ want[q] = None /\ left[q] = {} /\ ~viaCache[q]
      /\ commands = 0 /\ kills = 0 /\ spoiled = {} /\ drifted = {}
  BY DEF Init
<1>1. ASSUME NEW p \in NewProjects \cup ClonedProjects
      PROVE  p \in Manifests /\ Unique(p.replaces) /\ \A i \in DOMAIN p.replaces : ~p.replaces[i].here
  <2>1. CASE p \in NewProjects
    <3>1. PICK r \in Versions \cup {None} :
            p = [required |-> r, goMod |-> FALSE, goRequire |-> None, replaces |-> <<>>, goDep |-> FALSE,
                 goPkg |-> None]
      BY <2>1 DEF NewProjects
    <3>2. <<>> \in Replaces /\ DOMAIN <<>> = {}
      BY DEF Replaces
    <3>3. p \in Manifests /\ p.replaces = <<>>
      BY <3>1, <3>2 DEF Manifests
    <3> QED
      BY <3>2, <3>3 DEF Unique
  <2>2. CASE p \in ClonedProjects
    <3>1. PICK v \in Versions :
            p = [required |-> v, goMod |-> TRUE, goRequire |-> v, replaces |-> <<Replace(v, FALSE)>>,
                 goDep |-> TRUE, goPkg |-> None]
      BY <2>2 DEF ClonedProjects
    <3> DEFINE rs == <<Replace(v, FALSE)>>
    <3>2. Replace(v, FALSE) \in [v : Versions, here : BOOLEAN] /\ ~Replace(v, FALSE).here
      BY DEF Replace
    <3>3. rs \in Replaces /\ DOMAIN rs = {1} /\ rs[1] = Replace(v, FALSE)
      <4>1. PICK d : d = Replace(v, FALSE)
        OBVIOUS
      <4>2. d \in [v : Versions, here : BOOLEAN] /\ rs = <<d>>
        BY <3>2, <4>1
      <4>3. \A S : \A x \in S : <<x>> \in Seq(S) /\ DOMAIN <<x>> = {1} /\ <<x>>[1] = x
        OBVIOUS
      <4> QED
        BY <4>1, <4>2, <4>3 DEF Replaces
    <3> HIDE DEF rs
    <3>4. p \in Manifests /\ p.replaces = rs
      BY <3>1, <3>3 DEF Manifests, rs
    <3> QED
      BY <3>2, <3>3, <3>4 DEF Unique
  <2> QED
    BY <2>1, <2>2
<1>2. /\ project \in [Projects -> Manifests]
      /\ \A q \in Projects : Unique(project[q].replaces) /\ \A i \in DOMAIN project[q].replaces :
                               ~project[q].replaces[i].here
  BY <1>0, <1>1
<1>3. TypeOK
  <2>1. cache \in [Versions -> Entries]
    BY <1>0, FullEntries
  <2>2. Rest
    BY CacheAssumption DEF Init, Rest, Places
  <2> QED
    BY <1>2, <2>1, <2>2 DEF TypeOK, Rest, Unique
<1>4. BuildsRequired
  BY <1>0 DEF BuildsRequired
<1>5. RegistersWanted
  BY <1>0, <1>2 DEF RegistersWanted, RegisteredSoFar
<1>6. AloneOrSpoiled /\ WholeOrAbsent
  BY <1>0 DEF AloneOrSpoiled, WholeOrAbsent, Busy
<1>7. Stages
  BY <1>0, CacheAssumption DEF Stages
<1>8. LeadsToWhole
  <2> SUFFICES ASSUME NEW q \in Projects, NEW v \in Versions, Replace(v, TRUE) \in Range(project[q].replaces)
               PROVE  FALSE
    BY DEF LeadsToWhole
  <2>1. PICK i \in DOMAIN project[q].replaces : Replace(v, TRUE) = project[q].replaces[i]
    BY DEF Range
  <2> QED
    BY <1>2, <2>1 DEF Replace
<1> QED
  BY <1>3, <1>4, <1>5, <1>6, <1>7, <1>8 DEF Inv

LEMMA Stutter == Inv /\ UNCHANGED vars => Inv'
<1> SUFFICES ASSUME Inv, UNCHANGED vars PROVE Inv'
  OBVIOUS
<1> USE DEF Inv, vars, process
<1>1. TypeOK'
  BY DEF TypeOK
<1>2. BuildsRequired'
  BY DEF BuildsRequired
<1>3. RegistersWanted'
  BY DEF RegistersWanted, RegisteredSoFar, Registered
<1>4. AloneOrSpoiled'
  BY DEF AloneOrSpoiled, Busy
<1>5. Stages'
  BY DEF Stages, Stage, Finished, Complete
<1>6. WholeOrAbsent'
  BY DEF WholeOrAbsent, Busy, Complete
<1>7. LeadsToWhole'
  BY DEF LeadsToWhole, Complete
<1> QED
  BY <1>1, <1>2, <1>3, <1>4, <1>5, <1>6, <1>7

LEMMA Invariance == Spec => []Inv
<1>1. ASSUME Inv, NEW q \in Projects, Step(q) PROVE Inv'
  BY <1>1, TypeStep, RequiredStep, RegistersStep, AloneStep, StagesStep, WholeStep, LeadsStep
  DEF Inv
<1>2. Inv /\ [Next]_vars => Inv'
  BY <1>1, NextSteps, Stutter
<1> QED
  BY InitInv, <1>2, PTL DEF Spec

-----------------------------------------------------------------------------
(* The theorems. *)

(* Every command keeps glisp.mod, go.mod and the cache in their forms: one *)
(* replace directive per version, only the archive's files extracted and   *)
(* only their .go generated.                                               *)
THEOREM TypeCorrect == Spec => []TypeOK
<1>1. Inv => TypeOK
  BY DEF Inv
<1> QED
  BY Invariance, <1>1, PTL

(* Whatever commands, failures and kills came before, also a `glisp get`   *)
(* of the module's own path as a Go package, go build finds the required   *)
(* version mapped to the cache and what glisp.mod says of the path         *)
(* required, unless glisp.mod was edited by hand or a get updated go.mod   *)
(* only.                                                                   *)
THEOREM RegisteredAtBuild == Spec => []RegisteredUnlessDrifted
<1>1. Inv => RegisteredUnlessDrifted
  BY DEF Inv, RegistersWanted, RegisteredSoFar, Registered, RegisteredUnlessDrifted
<1> QED
  BY Invariance, <1>1, PTL

(* Where go.mod sends a build to the cache, the module there is complete,  *)
(* in drifted projects too, unless some get of the version was killed,     *)
(* failed after its extraction or overlapped.                              *)
THEOREM BuildsComplete == Spec => []CompleteAtBuild
<1>1. Inv => CompleteAtBuild
  <2> SUFFICES ASSUME Inv, NEW q \in Projects,
                      Replace(project[q].goRequire, TRUE) \in Range(project[q].replaces),
                      project[q].goRequire \notin spoiled
               PROVE  Complete(project[q].goRequire)
    BY DEF CompleteAtBuild
  <2>1. project[q].replaces \in Replaces
    BY DEF Inv, TypeOK, Manifests
  <2>2. PICK i \in DOMAIN project[q].replaces : Replace(project[q].goRequire, TRUE) = project[q].replaces[i]
    BY DEF Range
  <2>3. project[q].replaces[i] \in [v : Versions, here : BOOLEAN]
    <3>1. \A S : \A s \in Seq(S) : \A j \in DOMAIN s : s[j] \in S
      OBVIOUS
    <3> QED
      BY <2>1, <3>1 DEF Replaces
  <2>4. project[q].goRequire \in Versions
    BY <2>2, <2>3 DEF Replace
  <2> QED
    BY <2>4 DEF Inv, LeadsToWhole
<1> QED
  BY Invariance, <1>1, PTL
===============================================================================
