----------------------------- MODULE MacroExpand -----------------------------
(***************************************************************************)
(* The macroexpansion pass, internal/macro/expand.go: expand, its fixed    *)
(* point on macro calls and its walk into the children, as an agenda of    *)
(* the tree positions still to be expanded, in the order of the recursion. *)
(* The tree is rewritten in place, as expandChildren does.                 *)
(*                                                                         *)
(* A form is a symbol, a call of a name, a form whose children are walked, *)
(* a form whose children are not (a set literal, try, a channel capacity), *)
(* or a quotation.  A macro is a template with a hole per argument, one    *)
(* for each number of arguments it takes: what else a body computes, with  *)
(* its rest parameter above all, is the choice of these templates.  A body *)
(* that takes an argument apart is left out.                               *)
(***************************************************************************)
EXTENDS Naturals, Sequences, SequencesExt

CONSTANTS
  MaxDepth,  \* maxExpandDepth: 200
  MaxArgs,   \* a bound: the most arguments a call has
  Programs,  \* the top-level forms: sequences of forms
  Layers     \* <<core, external, local>>: each a function from names to macros

(* A form is a tree: a function from its positions, each the child numbers *)
(* on the way there, to what stands at them; the form itself is at <<>>.   *)
Node(kind, name, as) ==
  LET Root   == [kind |-> kind, name |-> name, args |-> Len(as)]
      Below(i) == { <<i>> \o q : q \in DOMAIN as[i] }
  IN  [p \in {<<>>} \cup UNION { Below(i) : i \in DOMAIN as } |->
         IF p = <<>> THEN Root ELSE as[Head(p)][Tail(p)]]

Sym(s)      == Node("sym", s, <<>>)
Call(m, as) == Node("call", m, as)
Walked(as)  == Node("walked", "", as)
Closed(as)  == Node("closed", "", as)
Quoted(f)   == Node("quote", "", <<f>>)

(* The i-th argument in a template. *)
Hole(i) == Node("hole", i, <<>>)

(* A macro, the templates for the numbers of arguments it takes: as many as *)
(* its parameters, and with a rest parameter any more.                     *)
Macro(params, rest, T(_)) ==
  [body |-> [n \in (IF rest THEN params..MaxArgs ELSE {params}) |-> T(n)]]

Positions == Seq(Nat \ {0})

(* The positions of a tree are those its nodes have room for.              *)
IsForm(f) ==
  /\ DOMAIN f \subseteq Positions
  /\ <<>> \in DOMAIN f
  /\ \A p \in DOMAIN f :
       /\ f[p].args \in Nat
       /\ \A i \in 1..f[p].args : Append(p, i) \in DOMAIN f
       /\ \A n \in 1..Len(p) : /\ SubSeq(p, 1, n - 1) \in DOMAIN f
                               /\ p[n] \in 1..f[SubSeq(p, 1, n - 1)].args

Holes(t) == { h \in DOMAIN t : t[h].kind = "hole" }

(* A macro body fills in its own arguments only. *)
IsMacro(m) ==
  \A n \in DOMAIN m.body :
    /\ IsForm(m.body[n])
    /\ \A h \in Holes(m.body[n]) : /\ m.body[n][h].args = 0
                                   /\ m.body[n][h].name \in 1..n

ASSUME MacroAssumption ==
  /\ MaxDepth \in Nat /\ MaxArgs \in Nat
  /\ \A p \in Programs : /\ Len(p) \in Nat /\ DOMAIN p = 1..Len(p)
                         /\ \A i \in 1..Len(p) : IsForm(p[i])
  /\ \A l \in Layers, i \in 1..3 : \A m \in DOMAIN l[i] : IsMacro(l[i][m])

-------------------------------------------------------------------------------
(* newExpander: the prelude first, then the macros of sibling files, then  *)
(* this file's; a later registration shadows an earlier one.               *)
Shadow(f, g) == [m \in DOMAIN f \cup DOMAIN g |-> IF m \in DOMAIN g THEN g[m] ELSE f[m]]

Registered(layers) == Shadow(Shadow(layers[1], layers[2]), layers[3])

(* What of p lies below its prefix q.                                      *)
From(q, p) == SubSeq(p, Len(q) + 1, Len(p))

(* applyClosure and valueToNode: the template with the arguments, as data,  *)
(* in its holes.                                                           *)
Fill(t, as) ==
  LET Own       == DOMAIN t \ Holes(t)
      Given(h)  == { h \o q : q \in DOMAIN as[t[h].name] }
      HoleOf(p) == CHOOSE h \in Holes(t) : IsPrefix(h, p)
  IN  [p \in Own \cup UNION { Given(h) : h \in Holes(t) } |->
         IF p \in Own THEN t[p]
                      ELSE as[t[HoleOf(p)].name][From(HoleOf(p), p)]]

(* The form at a position of the tree, and the tree with another there.    *)
At(f, path) ==
  [q \in { From(path, p) : p \in { d \in DOMAIN f : IsPrefix(path, d) } } |-> f[path \o q]]

PutAt(f, path, g) ==
  [p \in { d \in DOMAIN f : ~IsPrefix(path, d) } \cup { path \o q : q \in DOMAIN g } |->
     IF IsPrefix(path, p) THEN g[From(path, p)] ELSE f[p]]

(* The nodes whose children expandChildren walks. *)
Walks(node) == node.kind \in {"call", "walked"}

-------------------------------------------------------------------------------
VARIABLES
  macros, \* ex.macros
  file,   \* the top-level forms, under one walked root
  agenda, \* positions to expand: the path, expand's depth argument, and, for
          \* the properties, how many macro calls the form there came through
  status  \* "running", "done" or "error"

vars == <<macros, file, agenda, status>>

Todo(path, depth) == [path |-> path, depth |-> depth]

Init ==
  /\ \E layers \in Layers : macros = Registered(layers)
  /\ \E p \in Programs : /\ file = Walked(p)
                         /\ agenda = [i \in 1..Len(p) |-> Todo(<<i>>, 0)]
  /\ status = "running"

Item    == Head(agenda)
Here     == file[Item.path]
MacroCall(node) == node.kind = "call" /\ node.name \in DOMAIN macros
Running  == status = "running" /\ agenda # <<>>

(* depth > maxExpandDepth: "macro expansion did not terminate". *)
TooDeep == Item.depth > MaxDepth

(* applyClosure: as many arguments as parameters, or no fewer of them.     *)
Arity(node) == node.args \in DOMAIN macros[node.name].body

Args      == [i \in 1..Here.args |-> At(file, Append(Item.path, i))]
Expansion == Fill(macros[Here.name].body[Here.args], Args)

(* The children of a node, in order, each from depth 0. *)
Kids(node) ==
  [i \in 1..(IF Walks(node) THEN node.args ELSE 0) |-> Todo(Append(Item.path, i), 0)]

(* Mutant: the result of an expansion is walked, and not expanded again.   *)
FireOnce ==
  /\ Running /\ ~TooDeep /\ MacroCall(Here) /\ Arity(Here)
  /\ file' = PutAt(file, Item.path, Expansion)
  /\ agenda' = Kids(Expansion[<<>>]) \o Tail(agenda)
  /\ UNCHANGED <<macros, status>>

(* Mutant: the depth is not counted. *)
FireUncounted ==
  /\ Running /\ ~TooDeep /\ MacroCall(Here) /\ Arity(Here)
  /\ file' = PutAt(file, Item.path, Expansion)
  /\ agenda' = <<Todo(Item.path, Item.depth)>> \o Tail(agenda)
  /\ UNCHANGED <<macros, status>>

(* A macro call is replaced by its expansion, which is expanded again. *)
Fire ==
  /\ Running /\ ~TooDeep /\ MacroCall(Here) /\ Arity(Here)
  /\ file' = PutAt(file, Item.path, Expansion)
  /\ agenda' = <<Todo(Item.path, Item.depth + 1)>> \o Tail(agenda)
  /\ UNCHANGED <<macros, status>>

(* Any other form: its children.  *)
Descend ==
  /\ Running /\ ~TooDeep /\ ~MacroCall(Here)
  /\ agenda' = Kids(Here) \o Tail(agenda)
  /\ UNCHANGED <<macros, file, status>>

(* The whole pass fails: too deep, or at a macro call, for its number of   *)
(* arguments, where nothing else can happen, for an argument nodeToValue   *)
(* has no data for, in the body, or for a result that is no form.          *)
Fail ==
  /\ Running
  /\ TooDeep \/ MacroCall(Here)
  /\ status' = "error"
  /\ UNCHANGED <<macros, file, agenda>>

Finish ==
  /\ status = "running" /\ agenda = <<>>
  /\ status' = "done"
  /\ UNCHANGED <<macros, file, agenda>>

Next == Fire \/ Descend \/ Fail \/ Finish

Spec == Init /\ [][Next]_vars /\ WF_vars(Next)

-------------------------------------------------------------------------------
(* The positions a walk of the form reaches. *)
WalkedPaths(f) ==
  { p \in DOMAIN f : \A n \in 1..Len(p) : Walks(f[SubSeq(p, 1, n - 1)]) }

(* The agenda holds disjoint positions, none of them inside a quotation:   *)
(* "quoted data is not expanded".                                          *)
TypeOK ==
  /\ \A m \in DOMAIN macros : IsMacro(macros[m])
  /\ IsForm(file)
  /\ status \in {"running", "done", "error"}
  /\ agenda \in Seq([path : Positions, depth : 0..(MaxDepth + 1)])
  /\ \A i \in DOMAIN agenda : agenda[i].path \in WalkedPaths(file)
  /\ \A i, j \in DOMAIN agenda : IsPrefix(agenda[i].path, agenda[j].path) => i = j

(* When the pass is done, no macro call is left where expandChildren goes, *)
(* in the source, in what a macro made, or in an argument put there.  It   *)
(* does not go into quotations, and into three kinds of form it should: a  *)
(* set literal, a try and a channel's capacity keep their macro calls.     *)
NoCallLeft ==
  status = "done" => \A p \in WalkedPaths(file) : ~MacroCall(file[p])

(* Some macro called with some number of arguments comes back to itself,   *)
(* by a call inside the form it makes: expandChildren starts again from    *)
(* depth 0 there, and nothing counts.  A set of calls with all that those  *)
(* make has everything that follows from one of them.                      *)
Unfolds(ms) ==
  LET Calls        == UNION { {m} \X DOMAIN ms[m].body : m \in DOMAIN ms }
      Called(c, p) == <<ms[c[1]].body[c[2]][p].name, ms[c[1]].body[c[2]][p].args>>
      CallAt(c)    == { p \in WalkedPaths(ms[c[1]].body[c[2]]) :
                          ms[c[1]].body[c[2]][p].kind = "call" }
      Makes(c)     == { Called(c, p) : p \in CallAt(c) } \cap Calls
      Inside(c)    == { Called(c, p) : p \in CallAt(c) \ {<<>>} } \cap Calls
      Closes(S)    == \A c \in S : Makes(c) \subseteq S
  IN  \E c \in Calls : \E d \in Inside(c) :
        \A S \in SUBSET Calls : d \in S /\ Closes(S) => c \in S

Endless == { Registered(layers) : layers \in { l \in Layers : Unfolds(Registered(l)) } }

(* The pass ends, with macros none of which unfolds: maxExpandDepth stops  *)
(* the calls that come back at the head of their expansions.  "A           *)
(* non-terminating macro yields an error" is no more than this: one that   *)
(* comes back inside a form hangs the build.                               *)
Terminates == macros \notin Endless => <>(status # "running")

-------------------------------------------------------------------------------
(* What the cap must not do: "macro expansion did not terminate" of macros *)
(* whose expansions do.                                                    *)

(* No macro comes back to itself at the head of its expansions: each one's *)
(* results are no macro calls, or those of a macro of lower rank.  A result *)
(* that is an argument as it stands may be any call, so it is excluded.    *)
Ranks(rank) ==
  \A m \in DOMAIN macros : \A n \in DOMAIN macros[m].body :
    LET top == macros[m].body[n][<<>>]
    IN  top.kind # "hole" /\ (MacroCall(top) => rank[top.name] < rank[m])

(* With at most MaxDepth ranks, the cap stops no program, however deep its *)
(* forms are nested: the pass fails for a macro's arguments, its body or   *)
(* its result only.                                                        *)
CapSparesRanked ==
  (\E rank \in [DOMAIN macros -> 0..(MaxDepth - 1)] : Ranks(rank))
    => ~(Running /\ TooDeep)
===============================================================================
