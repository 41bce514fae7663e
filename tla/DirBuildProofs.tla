---------------------------- MODULE DirBuildProofs ----------------------------
(***************************************************************************)
(* Theorems about DirBuild, for any sources, core namespaces and number of *)
(* saves.                                                                  *)
(***************************************************************************)
EXTENDS DirBuild, SequenceTheorems, WellFoundedInduction, TLAPS

-----------------------------------------------------------------------------
(* The inductive invariant. *)

(* What is to be read is sources, and every .go to be written is one of    *)
(* those the build writes.                                                 *)
TodoOf ==
  /\ at = "collect" => todo \subseteq Files
  /\ at \in {"transpile", "write", "link"} => DOMAIN read # {}
  /\ at = "write" => todo \subseteq FilesToWrite
  /\ at # "idle" => result = "none"

(* What the build has read is the sources, unless they changed since.      *)
ReadsSources ==
  at # "idle" /\ undisturbed =>
    /\ DOMAIN sources = DOMAIN read \cup (IF at = "collect" THEN todo ELSE {})
    /\ \A f \in DOMAIN read : read[f] = sources[f]

(* All was transpiled, from one ns, before the first file is written.      *)
AllGood ==
  at \in {"write", "link"} => \A f, g \in DOMAIN read : read[f].ns = read[g].ns

(* The files of this build are on disk, but for those still to be written. *)
WritesAll ==
  at \in {"write", "link"} =>
    \A file \in FilesToWrite \ todo : file \in DOMAIN disk /\ disk[file] = GoSource(file)

(* What was linked last, and why not. *)
Linked ==
  result = "built" /\ undisturbed =>
    /\ \A f \in DOMAIN sources : binary[f] = Generated(sources[f])
    /\ \E pkg :
         /\ binary[Runtime] = RuntimeSource(pkg, Used(sources) \cup coreBuiltins(sources))
         /\ coreNamespaces(sources) # {} => binary[CoreFile] = CoreSource(pkg, sources)

Inv ==
  /\ TypeOK /\ TodoOf /\ ReadsSources /\ AllGood /\ WritesAll /\ Linked /\ RebuildHeals

-----------------------------------------------------------------------------
(* The order of the files. *)

LEMMA LeastIndex ==
  ASSUME NEW S \in SUBSET Nat, S # {}
  PROVE  Min(S) \in S
<1>1. PICK x \in S : \A y \in S : ~ (<<y, x>> \in OpToRel(<, Nat))
  BY NatLessThanWellFounded, WFMin
<1>2. \A y \in S : x <= y
  <2> SUFFICES ASSUME NEW y \in S, ~(x <= y) PROVE FALSE
    OBVIOUS
  <2>1. x \in Nat /\ y \in Nat /\ y < x
    OBVIOUS
  <2>2. <<y, x>> \in OpToRel(<, Nat)
    BY <2>1 DEF OpToRel
  <2> QED
    BY <1>1, <2>2
<1> QED
  BY <1>2 DEF Min

LEMMA OrderOfAll ==
  /\ Order \in Seq(ToSet(Order))
  /\ ToSet(Order) = Files \cup {Runtime, CoreFile}
  /\ Runtime # CoreFile
<1>1. Glob \in Seq(Files)
  BY DirBuildAssumption
<1>2. /\ Order \in Seq(Files \cup {Runtime, CoreFile}) /\ Len(Order) = Len(Glob) + 2
      /\ Len(Glob) \in Nat
      /\ \A i \in 1..Len(Glob) : Order[i] = Glob[i]
      /\ Order[Len(Glob) + 1] = Runtime /\ Order[Len(Glob) + 2] = CoreFile
  BY <1>1 DEF Order
<1>3. DOMAIN Glob = 1..Len(Glob) /\ DOMAIN Order = 1..Len(Order)
  BY <1>1, <1>2
<1>4. Files = { Glob[i] : i \in 1..Len(Glob) }
  BY <1>3 DEF Files, ToSet
<1>5. ToSet(Order) = { Order[i] : i \in 1..Len(Order) }
  BY <1>3 DEF ToSet
<1>6. \A i \in 1..Len(Order) : i \in 1..Len(Glob) \/ i = Len(Glob) + 1 \/ i = Len(Glob) + 2
  BY <1>2
<1>7. ToSet(Order) \subseteq Files \cup {Runtime, CoreFile}
  BY <1>2, <1>5
<1>8. Files \cup {Runtime, CoreFile} \subseteq ToSet(Order)
  <2>1. Files \subseteq ToSet(Order)
    BY <1>2, <1>4, <1>5
  <2>2. Len(Glob) + 1 \in 1..Len(Order) /\ Len(Glob) + 2 \in 1..Len(Order)
    BY <1>2
  <2> QED
    BY <1>2, <1>5, <2>1, <2>2
<1>9. ToSet(Order) = Files \cup {Runtime, CoreFile}
  BY <1>7, <1>8
<1>10. Runtime # CoreFile
  BY DEF Runtime, CoreFile
<1> QED
  BY <1>2, <1>9, <1>10

LEMMA FirstIn ==
  ASSUME NEW files \in SUBSET ToSet(Order), files # {}
  PROVE  First(files) \in files
<1> DEFINE I == {i \in DOMAIN Order : Order[i] \in files}
<1>1. I \in SUBSET Nat /\ I # {}
  <2>1. DOMAIN Order = 1..Len(Order) /\ Len(Order) \in Nat
    BY OrderOfAll
  <2>2. \E i \in DOMAIN Order : Order[i] \in files
    BY DEF ToSet
  <2> QED
    BY <2>1, <2>2
<1>2. Min(I) \in I
  BY <1>1, LeastIndex
<1> QED
  BY <1>2 DEF First

LEMMA DraftsDomain ==
  /\ \A texts \in Drafts : DOMAIN texts \subseteq Files /\ \A f \in DOMAIN texts : texts[f] \in Texts
  /\ [f \in {} |-> 0] \in Drafts
<1>1. [f \in {} |-> 0] \in [{} -> Texts] /\ {} \in SUBSET Files
  OBVIOUS
<1> QED
  BY <1>1 DEF Drafts

LEMMA WithOne ==
  ASSUME NEW texts \in Drafts, NEW f \in Files, NEW text \in Texts
  PROVE  [g \in DOMAIN texts \cup {f} |-> IF g = f THEN text ELSE texts[g]] \in Drafts
<1> DEFINE D == DOMAIN texts \cup {f}
<1>1. D \in SUBSET Files
  BY DraftsDomain
<1>2. [g \in D |-> IF g = f THEN text ELSE texts[g]] \in [D -> Texts]
  BY DraftsDomain
<1> QED
  BY <1>1, <1>2 DEF Drafts

LEMMA WithoutOne ==
  ASSUME NEW texts \in Drafts, NEW f
  PROVE  [g \in DOMAIN texts \ {f} |-> texts[g]] \in Drafts
<1> DEFINE D == DOMAIN texts \ {f}
<1>1. D \in SUBSET Files
  BY DraftsDomain
<1>2. [g \in D |-> texts[g]] \in [D -> Texts]
  BY DraftsDomain
<1> QED
  BY <1>1, <1>2 DEF Drafts

-----------------------------------------------------------------------------
(* What the build writes. *)

LEMMA ToWrite ==
  ASSUME read \in Drafts
  PROVE  /\ FilesToWrite \subseteq ToSet(Order) /\ DOMAIN read \subseteq FilesToWrite
         /\ Runtime \in FilesToWrite
         /\ FilesToWrite \subseteq DOMAIN read \cup {Runtime, CoreFile}
         /\ CoreFile \notin FilesToWrite => coreNamespaces(read) = {}
         /\ \A f \in DOMAIN read : f # Runtime /\ f # CoreFile
<1>1. DOMAIN read \subseteq Files
  BY DraftsDomain
<1> QED
  BY <1>1, OrderOfAll, DirBuildAssumption DEF FilesToWrite

LEMMA SourceOf ==
  ASSUME read \in Drafts
  PROVE  /\ \A f \in DOMAIN read : GoSource(f) = Generated(read[f])
         /\ GoSource(Runtime) = RuntimeSource(pkgName, Used(read) \cup coreBuiltins(read))
         /\ GoSource(CoreFile) = CoreSource(pkgName, read)
BY ToWrite, OrderOfAll DEF GoSource

(* The core library's closure: nothing it emits calls what it leaves out.  *)
LEMMA ClosureCloses ==
  ASSUME NEW namespaces \in SUBSET Core
  PROVE  /\ namespaces \subseteq Closure(namespaces) /\ Closure(namespaces) \subseteq Core
         /\ \A n \in Closure(namespaces) : CoreCalls[n] \subseteq Closure(namespaces)
BY DirBuildAssumption DEF Closure

(* Core namespaces are never runtime helpers. *)
LEMMA CoreOfRead ==
  /\ Used(read) \cap Core \subseteq coreNamespaces(read)
  /\ coreNamespaces(read) \subseteq Core
  /\ \A n \in coreNamespaces(read) : CoreCalls[n] \subseteq coreNamespaces(read)
  /\ coreBuiltins(read) \cap Core = {}
<1>1. /\ Used(read) \cap Core \subseteq coreNamespaces(read)
      /\ coreNamespaces(read) \subseteq Core
      /\ \A n \in coreNamespaces(read) : CoreCalls[n] \subseteq coreNamespaces(read)
  <2> Used(read) \cap Core \in SUBSET Core
    OBVIOUS
  <2> QED
    BY ClosureCloses DEF coreNamespaces
<1>2. coreBuiltins(read) \cap Core = {}
  BY <1>1, DirBuildAssumption DEF coreBuiltins
<1> QED
  BY <1>1, <1>2

(* What the files of a build declare and use. *)
LEMMA PartsOf ==
  ASSUME read \in Drafts
  PROVE  /\ \A f \in DOMAIN read : /\ GoSource(f).pkg = read[f].ns
                                   /\ GoSource(f).defs = read[f].defs
                                   /\ GoSource(f).uses = read[f].calls \cup read[f].needs \cup read[f].core
         /\ GoSource(Runtime).pkg = pkgName
         /\ GoSource(Runtime).defs = {"base"} \cup ((Used(read) \cup coreBuiltins(read)) \ Core)
         /\ GoSource(Runtime).uses = {}
         /\ GoSource(CoreFile).pkg = pkgName
         /\ GoSource(CoreFile).defs = coreNamespaces(read)
         /\ GoSource(CoreFile).uses = coreBuiltins(read) \cup UNION {CoreCalls[n] : n \in coreNamespaces(read)}
BY SourceOf DEF Generated, RuntimeSource, CoreSource

(* What Fit says of the sources. *)
LEMMA PartsFit ==
  ASSUME Fit(read)
  PROVE  /\ \E f \in DOMAIN read : read[f].ns # ""
         /\ \A f, g \in DOMAIN read : f # g => read[f].defs \cap read[g].defs = {}
         /\ \A f \in DOMAIN read : \A x \in read[f].calls : \E g \in DOMAIN read : x \in read[g].defs
         /\ \A f \in DOMAIN read : read[f].defs \cap ({"base"} \cup Used(read) \cup coreBuiltins(read) \cup Core) = {}
<1> DEFINE gos == [f \in DOMAIN read |-> [Generated(read[f]) EXCEPT !.uses = read[f].calls]]
<1>1. Compiles(gos) /\ \A f \in DOMAIN read : read[f].defs \cap ({"base"} \cup Used(read) \cup coreBuiltins(read) \cup Core) = {}
  BY DEF Fit
<1>2. \A f \in DOMAIN read : gos[f].pkg = read[f].ns /\ gos[f].defs = read[f].defs /\ gos[f].uses = read[f].calls
  BY DEF Generated
<1>3. DOMAIN gos = DOMAIN read
  OBVIOUS
<1> HIDE DEF gos
<1>4. \E f \in DOMAIN read : read[f].ns # ""
  <2>1. PICK pkg \in {gos[a].pkg : a \in DOMAIN gos} \ {""} : \A a \in DOMAIN gos : gos[a].pkg = pkg
    BY <1>1 DEF Compiles, OnePackage
  <2>2. PICK a \in DOMAIN gos : gos[a].pkg = pkg
    BY <2>1
  <2> QED
    BY <1>2, <1>3, <2>1, <2>2
<1>5. \A f, g \in DOMAIN read : f # g => read[f].defs \cap read[g].defs = {}
  BY <1>1, <1>2, <1>3 DEF Compiles, Disjoint
<1>6. \A f \in DOMAIN read : \A x \in read[f].calls : \E g \in DOMAIN read : x \in read[g].defs
  <2> TAKE f \in DOMAIN read
  <2> TAKE x \in read[f].calls
  <2>1. x \in UNION {gos[a].uses : a \in DOMAIN gos}
    BY <1>2, <1>3
  <2>2. x \in UNION {gos[a].defs : a \in DOMAIN gos}
    BY <1>1, <2>1 DEF Compiles, Resolved
  <2> QED
    BY <1>2, <1>3, <2>2
<1> QED
  BY <1>1, <1>4, <1>5, <1>6

(* Sources that fit together compile, when the directory holds this        *)
(* build's files and no others.                                            *)
LEMMA CompilesWhenFit ==
  ASSUME read \in Drafts, DOMAIN read # {}, \A f, g \in DOMAIN read : read[f].ns = read[g].ns,
         DOMAIN disk = FilesToWrite, \A file \in FilesToWrite : disk[file] = GoSource(file),
         Fit(read)
  PROVE  Compiles(disk)
<1>1. \A file \in DOMAIN disk : file \in DOMAIN read \/ file = Runtime \/ file = CoreFile
  BY ToWrite
<1>2. OnePackage(disk)
  <2>1. First(DOMAIN read) \in DOMAIN read
    BY ToWrite, FirstIn
  <2>2. \A f \in DOMAIN read : read[f].ns = pkgName
    BY <2>1 DEF pkgName
  <2>3. \A file \in DOMAIN disk : disk[file].pkg = pkgName
    BY <1>1, <2>2, PartsOf
  <2>4. pkgName # ""
    BY <2>2, PartsFit
  <2>5. Runtime \in DOMAIN disk
    BY ToWrite
  <2>6. pkgName \in {disk[a].pkg : a \in DOMAIN disk} \ {""}
    BY <2>3, <2>4, <2>5
  <2> QED
    BY <2>3, <2>6 DEF OnePackage
<1>3. Disjoint(disk)
  <2> SUFFICES ASSUME NEW a \in DOMAIN disk, NEW b \in DOMAIN disk, a # b, NEW x,
                      x \in disk[a].defs, x \in disk[b].defs
               PROVE  FALSE
    BY DEF Disjoint
  <2>1. disk[a] = GoSource(a) /\ disk[b] = GoSource(b)
    OBVIOUS
  <2>2. CASE a \in DOMAIN read /\ b \in DOMAIN read
    <3>1. x \in read[a].defs /\ x \in read[b].defs
      BY <2>1, <2>2, PartsOf
    <3>2. read[a].defs \cap read[b].defs = {}
      BY <2>2, PartsFit
    <3> QED
      BY <3>1, <3>2
  <2>3. ASSUME NEW f \in DOMAIN read, x \in read[f].defs
        PROVE  x \notin GoSource(Runtime).defs /\ x \notin GoSource(CoreFile).defs
    <3>1. x \notin {"base"} \cup Used(read) \cup coreBuiltins(read) \cup Core
      BY <2>3, PartsFit
    <3>2. x \notin GoSource(Runtime).defs
      BY <3>1, PartsOf
    <3>3. x \notin GoSource(CoreFile).defs
      BY <3>1, PartsOf, CoreOfRead
    <3> QED
      BY <3>2, <3>3
  <2>4. CASE a \in DOMAIN read /\ b \notin DOMAIN read
    BY <1>1, <2>1, <2>3, <2>4, PartsOf
  <2>5. CASE a \notin DOMAIN read /\ b \in DOMAIN read
    BY <1>1, <2>1, <2>3, <2>5, PartsOf
  <2>6. CASE a \notin DOMAIN read /\ b \notin DOMAIN read
    <3>1. x \in GoSource(Runtime).defs /\ x \in GoSource(CoreFile).defs
      BY <1>1, <2>1, <2>6
    <3>2. x \in coreNamespaces(read)
      BY <3>1, PartsOf
    <3>3. x = "base" \/ x \notin Core
      BY <3>1, PartsOf
    <3> QED
      BY <3>2, <3>3, CoreOfRead, DirBuildAssumption
  <2> QED
    BY <2>2, <2>4, <2>5, <2>6
<1>4. Resolved(disk)
  <2> DEFINE Declared == UNION {disk[a].defs : a \in DOMAIN disk}
  <2>1. \A f \in DOMAIN read : read[f].defs \subseteq Declared
    BY ToWrite, PartsOf
  <2>2. {"base"} \cup ((Used(read) \cup coreBuiltins(read)) \ Core) \subseteq Declared
    BY ToWrite, PartsOf
  <2>3. coreNamespaces(read) \subseteq Declared
    <3>1. CASE CoreFile \in FilesToWrite
      BY <3>1, PartsOf
    <3>2. CASE CoreFile \notin FilesToWrite
      BY <3>2, ToWrite
    <3> QED
      BY <3>1, <3>2
  <2> HIDE DEF Declared
  <2>4. Used(read) \subseteq Declared /\ coreBuiltins(read) \subseteq Declared
    BY <2>2, <2>3, CoreOfRead
  <2>5. \A f \in DOMAIN read : read[f].needs \subseteq Used(read) /\ read[f].core \subseteq Used(read)
    BY DEF Used
  <2>6. \A f \in DOMAIN read : read[f].calls \subseteq Declared
    BY <2>1, PartsFit
  <2>7. \A a \in DOMAIN disk : disk[a].uses \subseteq Declared
    <3> TAKE a \in DOMAIN disk
    <3>1. CASE a \in DOMAIN read
      BY <2>4, <2>5, <2>6, <3>1, PartsOf
    <3>2. CASE a = Runtime
      BY <3>2, PartsOf
    <3>3. CASE a = CoreFile
      BY <2>3, <2>4, <3>3, PartsOf, CoreOfRead
    <3> QED
      BY <1>1, <3>1, <3>2, <3>3
  <2> QED
    BY <2>7 DEF Resolved, Declared
<1> QED
  BY <1>2, <1>3, <1>4 DEF Compiles

-----------------------------------------------------------------------------
LEMMA InitInv == Init => Inv
<1> SUFFICES ASSUME Init PROVE Inv
  OBVIOUS
<1> USE DEF Init
<1>1. sources \in Drafts /\ read \in Drafts
  BY DraftsDomain DEF Drafts
<1>2. TypeOK
  <2>1. DOMAIN disk = {} /\ DOMAIN binary = {}
    OBVIOUS
  <2> QED
    BY <1>1, <2>1, DirBuildAssumption DEF TypeOK
<1>3. TodoOf /\ ReadsSources /\ AllGood /\ WritesAll /\ Linked /\ RebuildHeals
  BY DEF TodoOf, ReadsSources, AllGood, WritesAll, Linked, RebuildHeals
<1> QED
  BY <1>2, <1>3 DEF Inv

LEMMA FirstTodo ==
  ASSUME TypeOK, TodoOf, at \in {"collect", "write"}
  PROVE  /\ First(todo) \in todo /\ First(todo) \in ToSet(Order)
         /\ at = "collect" => First(todo) \in Files
         /\ at = "write" => First(todo) \in FilesToWrite
<1>1. First(todo) \in todo
  BY FirstIn DEF TypeOK
<1> QED
  BY <1>1 DEF TypeOK, TodoOf

(* What a build writes depends on what it has read only. *)
LEMMA SameRead ==
  ASSUME UNCHANGED read
  PROVE  /\ FilesToWrite' = FilesToWrite
         /\ \A file : GoSource(file)' = GoSource(file)
         /\ Fit(read)' <=> Fit(read)
<1>1. FilesToWrite' = FilesToWrite
  BY DEF FilesToWrite
<1>2. pkgName' = pkgName
  BY DEF pkgName
<1>3. \A file : GoSource(file)' = GoSource(file)
  BY <1>2 DEF GoSource
<1> QED
  BY <1>1, <1>3

(* Only writing changes the directory, and nothing leaves it. *)
LEMMA DiskGrows == [Next]_vars => DOMAIN disk \subseteq DOMAIN disk'
BY DEF Next, vars, Save, Delete, BuildFile, Begin, Collects, Transpiles, Writes, WriteFails, Killed, GoBuild, Put

LEMMA TypeStep == TypeOK /\ TodoOf /\ [Next]_vars => TypeOK'
<1> SUFFICES ASSUME TypeOK, TodoOf, [Next]_vars PROVE TypeOK'
  OBVIOUS
<1>0. ASSUME saves < MaxSaves, saves' = saves + 1 PROVE saves' \in 0..MaxSaves
  BY <1>0, DirBuildAssumption DEF TypeOK
<1> USE DEF TypeOK
<1>1. CASE Save
  <2>1. PICK f \in Files, text \in Texts :
          sources' = [g \in DOMAIN sources \cup {f} |-> IF g = f THEN text ELSE sources[g]]
    BY <1>1 DEF Save
  <2>2. sources' \in Drafts
    BY <2>1, WithOne
  <2> QED
    BY <1>1, <2>2, <1>0 DEF Save
<1>2. CASE Delete
  <2>1. sources' \in Drafts
    BY <1>2, WithoutOne DEF Delete
  <2> QED
    BY <1>2, <2>1, <1>0 DEF Delete
<1>3. CASE BuildFile
  <2>1. PICK f \in DOMAIN sources :
          \E go \in {Standalone(sources[f]), Torn} :
            disk' = [a \in DOMAIN disk \cup {f} |-> IF a = f THEN go ELSE disk[a]]
    BY <1>3 DEF BuildFile
  <2>2. f \in ToSet(Order)
    BY DraftsDomain, OrderOfAll
  <2>3. DOMAIN disk' = DOMAIN disk \cup {f}
    BY <2>1
  <2> QED
    BY <1>3, <2>2, <2>3 DEF BuildFile
<1>4. CASE Begin
  <2>1. read' \in Drafts
    BY <1>4, DraftsDomain DEF Begin
  <2>2. DOMAIN sources \subseteq ToSet(Order)
    BY DraftsDomain, OrderOfAll
  <2>3. CASE DOMAIN sources = {}
    BY <1>4, <2>1, <2>3 DEF Begin, Ends
  <2>4. CASE DOMAIN sources # {}
    BY <1>4, <2>1, <2>2, <2>4 DEF Begin
  <2> QED
    BY <2>3, <2>4
<1>5. CASE Collects
  <2> DEFINE f == First(todo)
  <2>1. f \in todo /\ f \in Files
    BY <1>5, FirstTodo DEF Collects
  <2> HIDE DEF f
  <2>2. CASE f \in DOMAIN sources /\ sources[f].state # "badParse"
    <3>1. /\ read' = [g \in DOMAIN read \cup {f} |-> IF g = f THEN sources[f] ELSE read[g]]
          /\ todo' = todo \ {f} /\ at' = IF todo = {f} THEN "transpile" ELSE at
          /\ UNCHANGED <<sources, disk, result, binary, saves, undisturbed>>
      BY <1>5, <2>2 DEF Collects, f
    <3>2. sources[f] \in Texts
      BY <2>2, DraftsDomain
    <3>3. read' \in Drafts
      BY <2>1, <3>1, <3>2, WithOne
    <3>4. todo' \subseteq ToSet(Order) /\ (todo' # {} <=> at' \in {"collect", "write"})
      BY <1>5, <2>1, <3>1 DEF Collects
    <3> QED
      BY <1>5, <3>1, <3>3, <3>4 DEF Collects
  <2>3. CASE ~(f \in DOMAIN sources /\ sources[f].state # "badParse")
    BY <1>5, <2>3 DEF Collects, Ends, f
  <2> QED
    BY <2>2, <2>3
<1>6. CASE Transpiles
  <2>1. FilesToWrite \subseteq ToSet(Order) /\ FilesToWrite # {}
    BY ToWrite
  <2>2. CASE at' = "write"
    BY <1>6, <2>1, <2>2 DEF Transpiles, Ends
  <2>3. CASE at' # "write"
    BY <1>6, <2>3 DEF Transpiles, Ends
  <2> QED
    BY <2>2, <2>3
<1>7. CASE Writes
  <2>1. First(todo) \in todo /\ First(todo) \in ToSet(Order)
    BY <1>7, FirstTodo DEF Writes
  <2>2. DOMAIN disk' = DOMAIN disk \cup {First(todo)}
    BY <1>7 DEF Writes, Put
  <2>3. todo' \subseteq ToSet(Order) /\ (todo' # {} <=> at' \in {"collect", "write"})
    BY <1>7, <2>1 DEF Writes
  <2>4. at' \in {"write", "link"} /\ UNCHANGED <<sources, read, result, binary, saves, undisturbed>>
    BY <1>7 DEF Writes
  <2> QED
    BY <2>1, <2>2, <2>3, <2>4
<1>8. CASE WriteFails
  <2>1. First(todo) \in ToSet(Order)
    BY <1>8, FirstTodo DEF WriteFails
  <2>2. DOMAIN disk' = DOMAIN disk \cup {First(todo)}
    BY <1>8 DEF WriteFails, Put
  <2>3. /\ at' = "idle" /\ result' = "writeError" /\ todo' = {}
        /\ UNCHANGED <<sources, read, binary, saves, undisturbed>>
    BY <1>8 DEF WriteFails, Ends
  <2> QED
    BY <2>1, <2>2, <2>3
<1>9. CASE Killed
  BY <1>9 DEF Killed, Ends
<1>10. CASE GoBuild
  <2>1. DOMAIN binary' \subseteq DOMAIN disk'
    BY <1>10 DEF GoBuild
  <2>2. /\ at' = "idle" /\ todo' = {} /\ result' \in {"built", "goError"}
        /\ UNCHANGED <<sources, disk, read, saves, undisturbed>>
    BY <1>10 DEF GoBuild, Ends
  <2> QED
    BY <2>1, <2>2
<1>11. CASE UNCHANGED vars
  BY <1>11 DEF vars
<1> QED
  BY <1>1, <1>2, <1>3, <1>4, <1>5, <1>6, <1>7, <1>8, <1>9, <1>10, <1>11 DEF Next

LEMMA TodoStep == TypeOK /\ TodoOf /\ [Next]_vars => TodoOf'
<1> SUFFICES ASSUME TypeOK, TodoOf, [Next]_vars PROVE TodoOf'
  OBVIOUS
<1>1. CASE Save \/ Delete \/ BuildFile \/ UNCHANGED vars
  <2>1. UNCHANGED <<at, todo, read, result>>
    BY <1>1 DEF Save, Delete, BuildFile, vars
  <2> QED
    BY <2>1, SameRead DEF TodoOf
<1>2. CASE WriteFails \/ Killed \/ GoBuild
  BY <1>2 DEF WriteFails, Killed, GoBuild, Ends, TodoOf
<1>3. CASE Begin
  <2>1. DOMAIN sources \subseteq Files
    BY DraftsDomain DEF TypeOK
  <2> QED
    BY <1>3, <2>1 DEF Begin, Ends, TodoOf
<1>4. CASE Collects
  <2> DEFINE f == First(todo)
  <2>1. CASE f \in DOMAIN sources /\ sources[f].state # "badParse"
    <3>1. /\ read' = [g \in DOMAIN read \cup {f} |-> IF g = f THEN sources[f] ELSE read[g]]
          /\ todo' = todo \ {f} /\ at' \in {"collect", "transpile"} /\ UNCHANGED result
      BY <1>4, <2>1 DEF Collects
    <3>2. DOMAIN read' # {}
      BY <3>1
    <3> QED
      BY <1>4, <3>1, <3>2 DEF Collects, TodoOf
  <2>2. CASE ~(f \in DOMAIN sources /\ sources[f].state # "badParse")
    BY <1>4, <2>2 DEF Collects, Ends, TodoOf
  <2> QED
    BY <2>1, <2>2
<1>5. CASE Transpiles
  <2>1. UNCHANGED read
    BY <1>5 DEF Transpiles
  <2> QED
    BY <1>5, <2>1, SameRead DEF Transpiles, Ends, TodoOf
<1>6. CASE Writes
  <2>1. UNCHANGED <<read, result>> /\ todo' \subseteq todo /\ at = "write" /\ at' \in {"write", "link"}
    BY <1>6 DEF Writes
  <2> QED
    BY <2>1, SameRead DEF TodoOf
<1> QED
  BY <1>1, <1>2, <1>3, <1>4, <1>5, <1>6 DEF Next

LEMMA ReadsStep == TypeOK /\ TodoOf /\ ReadsSources /\ [Next]_vars => ReadsSources'
<1> SUFFICES ASSUME TypeOK, TodoOf, ReadsSources, [Next]_vars, at' # "idle", undisturbed'
             PROVE  /\ DOMAIN sources' = DOMAIN read' \cup (IF at' = "collect" THEN todo' ELSE {})
                    /\ \A f \in DOMAIN read' : read'[f] = sources'[f]
  BY DEF ReadsSources
<1>1. CASE Save \/ Delete
  BY <1>1 DEF Save, Delete
<1>2. CASE BuildFile \/ UNCHANGED vars
  BY <1>2 DEF BuildFile, vars, ReadsSources
<1>3. CASE WriteFails \/ Killed \/ GoBuild
  BY <1>3 DEF WriteFails, Killed, GoBuild, Ends
<1>4. CASE Begin
  BY <1>4 DEF Begin, Ends
<1>5. CASE Collects
  <2> DEFINE f == First(todo)
  <2>1. f \in DOMAIN sources /\ sources[f].state # "badParse"
    BY <1>5 DEF Collects, Ends
  <2>2. /\ read' = [g \in DOMAIN read \cup {f} |-> IF g = f THEN sources[f] ELSE read[g]]
        /\ todo' = todo \ {f} /\ at' = (IF todo = {f} THEN "transpile" ELSE at)
        /\ at = "collect" /\ UNCHANGED <<sources, undisturbed>>
    BY <1>5, <2>1 DEF Collects
  <2>3. f \in todo
    BY <2>2, FirstTodo
  <2>4. DOMAIN sources = DOMAIN read \cup todo /\ \A g \in DOMAIN read : read[g] = sources[g]
    BY <2>2 DEF ReadsSources
  <2> HIDE DEF f
  <2>5. DOMAIN read' = DOMAIN read \cup {f}
    BY <2>2
  <2>6. DOMAIN sources = DOMAIN read' \cup (IF at' = "collect" THEN todo' ELSE {})
    BY <2>2, <2>3, <2>4, <2>5
  <2>7. \A g \in DOMAIN read' : read'[g] = sources[g]
    BY <2>2, <2>4
  <2> QED
    BY <2>2, <2>6, <2>7
<1>6. CASE Transpiles
  BY <1>6 DEF Transpiles, Ends, ReadsSources
<1>7. CASE Writes
  BY <1>7 DEF Writes, ReadsSources
<1> QED
  BY <1>1, <1>2, <1>3, <1>4, <1>5, <1>6, <1>7 DEF Next

LEMMA GoodStep == TodoOf /\ AllGood /\ [Next]_vars => AllGood'
<1> SUFFICES ASSUME AllGood, [Next]_vars, at' \in {"write", "link"}
             PROVE  \A f, g \in DOMAIN read' : read'[f].ns = read'[g].ns
  BY DEF AllGood
<1>1. CASE Transpiles
  BY <1>1 DEF Transpiles, Ends
<1>2. CASE Collects \/ Begin \/ WriteFails \/ Killed \/ GoBuild
  BY <1>2 DEF Collects, Begin, WriteFails, Killed, GoBuild, Ends
<1>3. CASE Save \/ Delete \/ BuildFile \/ Writes \/ UNCHANGED vars
  <2>1. UNCHANGED read /\ at \in {"write", "link"}
    BY <1>3 DEF Save, Delete, BuildFile, Writes, vars
  <2> QED
    BY <2>1 DEF AllGood
<1> QED
  BY <1>1, <1>2, <1>3 DEF Next

LEMMA WritesStep == TypeOK /\ TodoOf /\ WritesAll /\ [Next]_vars => WritesAll'
<1> SUFFICES ASSUME TypeOK, TodoOf, WritesAll, [Next]_vars, at' \in {"write", "link"}
             PROVE  \A file \in FilesToWrite' \ todo' : file \in DOMAIN disk' /\ disk'[file] = GoSource(file)'
  BY DEF WritesAll
<1>1. CASE Transpiles
  <2>1. UNCHANGED read /\ todo' = FilesToWrite
    BY <1>1 DEF Transpiles, Ends
  <2> QED
    BY <2>1, SameRead
<1>2. CASE Collects \/ Begin \/ WriteFails \/ Killed \/ GoBuild \/ BuildFile
  BY <1>2 DEF Collects, Begin, WriteFails, Killed, GoBuild, BuildFile, Ends
<1>3. CASE Save \/ Delete \/ UNCHANGED vars
  <2>1. UNCHANGED <<at, read, disk, todo>>
    BY <1>3 DEF Save, Delete, vars
  <2> QED
    BY <2>1, SameRead DEF WritesAll
<1>4. CASE Writes
  <2> DEFINE f == First(todo)
  <2>1. /\ disk' = [a \in DOMAIN disk \cup {f} |-> IF a = f THEN GoSource(f) ELSE disk[a]]
        /\ todo' = todo \ {f} /\ at = "write" /\ UNCHANGED read
    BY <1>4 DEF Writes, Put
  <2> HIDE DEF f
  <2>2. \A file \in FilesToWrite \ todo : file \in DOMAIN disk /\ disk[file] = GoSource(file)
    BY <2>1 DEF WritesAll
  <2>3. \A file \in FilesToWrite \ todo' : file \in DOMAIN disk' /\ disk'[file] = GoSource(file)
    BY <2>1, <2>2
  <2> QED
    BY <2>1, <2>3, SameRead
<1> QED
  BY <1>1, <1>2, <1>3, <1>4 DEF Next

(* What go build finds. *)
LEMMA AtLink ==
  ASSUME Inv, at = "link"
  PROVE  /\ FilesToWrite \subseteq DOMAIN disk
         /\ \A file \in FilesToWrite : disk[file] = GoSource(file)
BY DEF Inv, TypeOK, WritesAll

LEMMA LinkedStep == Inv /\ [Next]_vars => Linked'
<1> SUFFICES ASSUME Inv, [Next]_vars, result' = "built", undisturbed'
             PROVE  Linked'
  BY DEF Linked
<1>1. TypeOK /\ TodoOf /\ ReadsSources /\ Linked
  BY DEF Inv
<1>2. CASE GoBuild
  <2>1. binary' = disk /\ at = "link" /\ UNCHANGED <<sources, disk, read, undisturbed>>
    BY <1>2 DEF GoBuild, Ends
  <2>2. DOMAIN sources = DOMAIN read /\ \A f \in DOMAIN read : read[f] = sources[f]
    BY <1>1, <2>1 DEF ReadsSources
  <2>3. \A f \in DOMAIN read : disk[f] = Generated(read[f])
    BY <1>1, <2>1, AtLink, ToWrite, SourceOf DEF TypeOK
  <2>4. sources = read
    <3>1. sources = [f \in DOMAIN sources |-> sources[f]] /\ read = [f \in DOMAIN read |-> read[f]]
      BY <1>1 DEF TypeOK, Drafts
    <3>2. [f \in DOMAIN sources |-> sources[f]] = [f \in DOMAIN read |-> read[f]]
      BY <2>2
    <3> QED
      BY <3>1, <3>2
  <2>5. disk[Runtime] = RuntimeSource(pkgName, Used(read) \cup coreBuiltins(read))
    BY <1>1, <2>1, AtLink, ToWrite, SourceOf DEF TypeOK
  <2>6. coreNamespaces(read) # {} => disk[CoreFile] = CoreSource(pkgName, read)
    BY <1>1, <2>1, AtLink, ToWrite, SourceOf DEF TypeOK
  <2>7. \E pkg : /\ disk[Runtime] = RuntimeSource(pkg, Used(sources) \cup coreBuiltins(sources))
                 /\ coreNamespaces(sources) # {} => disk[CoreFile] = CoreSource(pkg, sources)
    BY <2>4, <2>5, <2>6
  <2> QED
    BY <2>1, <2>2, <2>3, <2>7 DEF Linked
<1>3. CASE BuildFile
  <2>1. UNCHANGED <<sources, result, binary, undisturbed>>
    BY <1>3 DEF BuildFile
  <2> QED
    BY <1>1, <2>1 DEF Linked
<1>4. CASE Save \/ Delete
  BY <1>4 DEF Save, Delete
<1>5. CASE Begin \/ Transpiles \/ WriteFails \/ Killed \/ Collects \/ Writes
  BY <1>1, <1>5 DEF Begin, Transpiles, WriteFails, Killed, Collects, Writes, Ends, TodoOf
<1>6. CASE UNCHANGED vars
  BY <1>1, <1>6 DEF vars, Linked
<1> QED
  BY <1>2, <1>3, <1>4, <1>5, <1>6 DEF Next

LEMMA HealsStep == Inv /\ [Next]_vars => RebuildHeals'
<1> SUFFICES ASSUME Inv, [Next]_vars, result' = "goError", Fit(read)'
             PROVE  LeftBehind' # {}
  BY DEF RebuildHeals
<1>1. TypeOK /\ TodoOf /\ AllGood /\ RebuildHeals
  BY DEF Inv
<1>2. CASE GoBuild
  <2>1. at = "link" /\ ~Compiles(disk) /\ UNCHANGED <<disk, read>>
    BY <1>2 DEF GoBuild, Ends
  <2>2. /\ read \in Drafts /\ DOMAIN read # {} /\ Fit(read)
        /\ \A f, g \in DOMAIN read : read[f].ns = read[g].ns
    BY <1>1, <2>1, SameRead DEF TypeOK, TodoOf, AllGood
  <2>3. /\ FilesToWrite \subseteq DOMAIN disk
        /\ \A file \in FilesToWrite : disk[file] = GoSource(file)
    BY <2>1, AtLink
  <2>4. DOMAIN disk # FilesToWrite
    BY <2>1, <2>2, <2>3, CompilesWhenFit
  <2>5. LeftBehind # {}
    BY <2>3, <2>4 DEF LeftBehind
  <2> QED
    BY <2>1, <2>5, SameRead DEF LeftBehind
<1>3. CASE Save \/ Delete \/ BuildFile \/ UNCHANGED vars
  <2>1. UNCHANGED <<read, result>>
    BY <1>3 DEF Save, Delete, BuildFile, vars
  <2>2. LeftBehind # {}
    BY <1>1, <2>1, SameRead DEF RebuildHeals
  <2>3. LeftBehind \subseteq LeftBehind'
    BY <2>1, SameRead, DiskGrows DEF LeftBehind
  <2> QED
    BY <2>2, <2>3
<1>4. CASE Begin \/ Transpiles \/ WriteFails \/ Killed \/ Collects \/ Writes
  BY <1>1, <1>4 DEF Begin, Transpiles, WriteFails, Killed, Collects, Writes, Ends, TodoOf
<1> QED
  BY <1>2, <1>3, <1>4 DEF Next

LEMMA Invariance == Spec => []Inv
<1>1. Inv /\ [Next]_vars => Inv'
  BY TypeStep, TodoStep, ReadsStep, GoodStep, WritesStep, LinkedStep, HealsStep DEF Inv
<1> QED
  BY InitInv, <1>1, PTL DEF Spec

-----------------------------------------------------------------------------
(* The theorems. *)

(* Every step keeps to the directory's files, and a build has files left   *)
(* to read or write exactly while it reads or writes.                      *)
THEOREM TypeCorrect == Spec => []TypeOK
<1>1. Inv => TypeOK
  BY DEF Inv
<1> QED
  BY Invariance, <1>1, PTL

(* A build that succeeds while nobody touches the sources links what they  *)
(* say, their runtime and their core library included, whatever failed,    *)
(* killed and single-file builds left before it.                           *)
THEOREM BuildsAreCurrent == Spec => []BuildIsCurrent
<1>1. Inv => BuildIsCurrent
  <2> SUFFICES ASSUME Inv, result = "built", undisturbed PROVE BuildIsCurrent
    BY DEF BuildIsCurrent
  <2>1. PICK pkg : /\ binary[Runtime] = RuntimeSource(pkg, Used(sources) \cup coreBuiltins(sources))
                   /\ coreNamespaces(sources) # {} => binary[CoreFile] = CoreSource(pkg, sources)
    BY DEF Inv, Linked
  <2>2. binary[Runtime].pkg = pkg
    BY <2>1 DEF RuntimeSource
  <2> QED
    BY <2>1, <2>2 DEF Inv, Linked, BuildIsCurrent
<1> QED
  BY Invariance, <1>1, PTL

(* go build fails on sources that fit together only because of a .go that  *)
(* the build did not write.                                                *)
THEOREM RebuildsHeal == Spec => []RebuildHeals
<1>1. Inv => RebuildHeals
  BY DEF Inv
<1> QED
  BY Invariance, <1>1, PTL
===============================================================================
