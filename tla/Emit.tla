--------------------------------- MODULE Emit ---------------------------------
(***************************************************************************)
(* The emitters of the control forms (internal/transpiler): how a function *)
(* (defn f [x] -> any ...) becomes Go, and what comes of it: go build      *)
(* accepts the code or does not, and the program is run.                   *)
(*                                                                         *)
(* A form is emitted as an expression, where a control form becomes a      *)
(* function literal that is called at once, or as statements at one of     *)
(* three places: "stmt", where its value is dropped, "return", the end of  *)
(* a function, and "tail", the end of a loop's body.                       *)
(*                                                                         *)
(* Types are left out, except for what Go infers for x := e: the emitted   *)
(* variables hold any.  Destructuring and if-err are left out.             *)
(***************************************************************************)
EXTENDS GoCode

CONSTANTS
  Programs, \* function bodies
  Plain,    \* those whose forms are used as the language means them to be
  Inputs    \* arguments of the function

VARIABLES
  source,  \* the body of the function
  stage,   \* "source", "emitted", "rejected", "built", "ran"
  code,    \* the Go function
  input,   \* its argument
  outcome  \* what running it came to

vars == <<source, stage, code, input, outcome>>

-------------------------------------------------------------------------------
(* The emitter's state: loopBindings, loopInReturn, and retVar.            *)

NoLoop == [bindings |-> <<>>, inReturn |-> FALSE, retVar |-> ""]
RetVar == "_loop"
Temps  == <<"_r0", "_r1", "_r2">>

RECURSIVE HasLoop(_)
HasLoop(n) == n.kind = "loop" \/ \E i \in DOMAIN n.args : HasLoop(n.args[i])

(* When a loop has been emitted, loopBindings is restored, loopInReturn is *)
(* false.                                                                  *)
After(c, ns) ==
  IF \E i \in DOMAIN ns : HasLoop(ns[i]) THEN [c EXCEPT !.inReturn = FALSE] ELSE c

StaticallyBool(n) ==
  \/ n.kind = "lit" /\ n.names[1] \in {"true", "false"}
  \/ n.kind = "call" /\ n.names[1] \in {"small", "big"}

Prints(n) == n.kind = "call" /\ n.names[1] = "println"
Panics(n) == n.kind = "call" /\ n.names[1] = "panic"
Throws(n) == n.kind = "call" /\ n.names[1] = "throw"

-------------------------------------------------------------------------------
RECURSIVE EmitExpr(_, _), EmitAt(_, _, _), EmitBody(_, _, _), EmitChain(_, _, _), EmitLetOr(_, _, _, _)

EmitArgs(ns, c) == [i \in DOMAIN ns |-> EmitExpr(ns[i], After(c, SubSeq(ns, 1, i - 1)))]

EmitCondition(n, c) == IF StaticallyBool(n) THEN EmitExpr(n, c) ELSE Truth(EmitExpr(n, c))

EmitBindings(n, c) ==
  [i \in DOMAIN n.names |-> Decl(n.names[i], EmitArgs(Inits(n), c)[i])]

(* Mutant: each variable is assigned before the next value is computed. *)
EmitRecurInPlace(n, c) ==
  [i \in DOMAIN n.args |-> Set(c.bindings[i], EmitArgs(n.args, c)[i])] \o <<Continue>>

(* New values into temporaries, then all assignments, then continue.       *)
EmitRecurInLoop(n, c) ==
  [i \in DOMAIN n.args |-> Decl(Temps[i], EmitArgs(n.args, c)[i])]
  \o [i \in DOMAIN n.args |-> Set(c.bindings[i], Var(Temps[i]))] \o <<Continue>>

EmitLoopBlock(n, c, inReturn) ==
  LET ret == IF inReturn THEN "" ELSE RetVar
  IN EmitBindings(n, c)
     \o (IF inReturn THEN <<>> ELSE <<VarAny(ret)>>)
     \o <<For(EmitBody(Body(n), [bindings |-> n.names, inReturn |-> inReturn, retVar |-> ret], "tail"))>>

EmitLoopExpr(n, c) == Iife(EmitLoopBlock(n, c, FALSE) \o <<Return(Var(RetVar))>>)

(* emitFmtPrint, a panic, or a call of a function of the program. *)
EmitCall(n, c) ==
  LET f    == IF Throws(n) THEN "panic" ELSE n.names[1]
      call == Call(f, EmitArgs(n.args, c))
  IN IF Prints(n) THEN Iife(<<ExprStmt(call), Return(Lit("nil"))>>) ELSE call

(* Mutant: nothing is returned if the condition is false. *)
EmitWhenExprShort(n, c) ==
  Iife(<< GoIf(EmitCondition(n.args[1], c), << Block(EmitBody(Body(n), After(c, <<n.args[1]>>), "return")) >>) >>)

(* emitWhenExpr: what is returned if the condition is false comes after.   *)
EmitWhenExpr(n, c) ==
  Iife(<< GoIf(EmitCondition(n.args[1], c), << Block(EmitBody(Body(n), After(c, <<n.args[1]>>), "return")) >>),
          Return(Lit("nil")) >>)

(* emitExpr; the loop around a function literal is still in the state.     *)
EmitExpr(n, c) ==
  CASE n.kind \in {"lit", "var"} -> n
    [] n.kind = "call"  -> EmitCall(n, c)
    [] n.kind = "fn"    -> Func(n.names, EmitBody(n.args, c, "return"))
    [] n.kind = "loop"  -> EmitLoopExpr(n, c)
    [] n.kind = "when"  -> EmitWhenExpr(n, c)
    [] n.kind = "recur" -> NotAnExpr
    [] OTHER -> Iife(EmitAt(n, c, "return"))

-------------------------------------------------------------------------------
(* emitBody, and emitLoopBody, which emits all but the last as expressions. *)
EmitBody(ns, c, pos) ==
  FlattenSeq([i \in DOMAIN ns |->
    LET ci == After(c, SubSeq(ns, 1, i - 1))
    IN CASE i = Len(ns)  -> EmitAt(ns[i], ci, pos)
         [] i < Len(ns) /\ pos = "tail" -> <<ExprStmt(EmitExpr(ns[i], ci))>>
         [] OTHER        -> EmitAt(ns[i], ci, "stmt")])

(* The value of a form, dropped, returned, or the result of a loop.        *)
EmitValue(n, c, pos) ==
  LET e == EmitExpr(n, c)
  IN CASE pos = "stmt"                   -> <<ExprStmt(e)>>
       [] pos = "return" \/ (pos = "tail" /\ c.inReturn) -> <<Return(e)>>
       [] OTHER                          -> <<Set(c.retVar, e), Break>>

(* if and cond: test, branch, test, branch, ..., and maybe a last branch.  *)
EmitChain(parts, c, pos) ==
  CASE Len(parts) = 0 -> <<>>
    [] Len(parts) = 1 -> <<Block(EmitAt(parts[1], c, pos))>>
    [] OTHER ->
         LET then == Block(EmitAt(parts[2], After(c, <<parts[1]>>), pos))
             else == EmitChain(AfterClause(parts), After(c, SubSeq(parts, 1, 2)), pos)
         IN << GoIf(EmitCondition(parts[1], c),
                    IF else = <<>> THEN <<then>> ELSE <<then, Block(else)>>) >>

EmitWhenStmt(n, c) ==
  << GoIf(EmitCondition(n.args[1], c), <<Block(EmitBody(Body(n), After(c, <<n.args[1]>>), "stmt"))>>) >>

(* The nil that a form without an else is, where it is returned. *)
NilAfter(pos, missing) == IF missing /\ pos = "return" THEN <<Return(Lit("nil"))>> ELSE <<>>

EmitSwitch(n, c, pos) ==
  LET parts == Tail(n.args)
      sc(i) == After(c, SubSeq(n.args, 1, i))
      part(i) == IF i % 2 = 1 /\ i < Len(parts) THEN EmitExpr(parts[i], sc(i))
                 ELSE Block(EmitAt(parts[i], sc(i), pos))
  IN << GoSwitch(EmitExpr(n.args[1], c), [i \in DOMAIN parts |-> part(i)]) >>
     \o NilAfter(pos, Len(parts) % 2 = 0)

EmitIfLet(n, c, pos) ==
  LET then == Block(EmitAt(n.args[2], After(c, Inits(n)), pos))
      else == IF Len(n.args) = 3
                THEN <<Block(EmitAt(n.args[3], After(c, SubSeq(n.args, 1, 2)), pos))>> ELSE <<>>
  IN EmitBindings(n, c) \o <<GoIf(NotNil(n.names[1]), <<then>> \o else)>> \o NilAfter(pos, else = <<>>)

EmitWhenLet(n, c, pos) ==
  EmitBindings(n, c)
  \o << GoIf(NotNil(n.names[1]), <<Block(EmitBody(Body(n), After(c, Inits(n)), pos))>>) >>
  \o NilAfter(pos, TRUE)

(* Each binding is followed by its guard; in statement position nothing    *)
(* keeps the rest from being run after a fallback.                         *)
EmitLetOr(n, i, c, pos) ==
  IF i > Len(n.names) THEN EmitBody(Body(n), c, pos)
  ELSE LET init == <<Inits(n)[i]>>
           both == init \o <<Fallbacks(n)[i]>>
       IN << Decl(n.names[i], EmitExpr(init[1], c)),
             GoIf(IsNil(n.names[i]), <<Block(EmitAt(both[2], After(c, init), pos))>>) >>
          \o EmitLetOr(n, i + 1, After(c, both), pos)

(* emitStmtNode, emitReturnNode, emitLoopTailNode.  What has no rule of    *)
(* its own at a place is emitted for its value.                            *)
EmitAt(n, c, pos) ==
  CASE n.kind = "lit" /\ pos = "stmt" -> <<>>
    [] n.kind \in {"if", "cond"}      -> EmitChain(n.args, c, pos)
    [] n.kind = "do"                  -> EmitBody(n.args, c, pos)
    [] n.kind = "let"                 -> EmitBindings(n, c) \o EmitBody(Body(n), After(c, Inits(n)), pos)
    [] n.kind = "when" /\ pos = "stmt"      -> EmitWhenStmt(n, c)
    [] n.kind = "switch" /\ pos # "tail"    -> EmitSwitch(n, c, pos)
    [] n.kind = "iflet" /\ pos # "tail"     -> EmitIfLet(n, c, pos)
    [] n.kind = "whenlet" /\ pos # "tail"   -> EmitWhenLet(n, c, pos)
    [] n.kind = "letor" /\ pos # "tail"     -> EmitLetOr(n, 1, c, pos)
    [] n.kind = "loop" /\ pos = "return"    -> EmitLoopBlock(n, c, TRUE)
    [] n.kind = "recur" /\ pos # "return"   -> EmitRecurInLoop(n, c)
    [] Prints(n) /\ pos # "tail" ->
         <<ExprStmt(Call("println", EmitArgs(n.args, c)))>> \o NilAfter(pos, TRUE)
    [] Panics(n) \/ (Throws(n) /\ pos = "return") -> <<ExprStmt(EmitCall(n, c))>>
    [] OTHER -> EmitValue(n, c, pos)

(* emitDefnDecl *)
EmitDefn(body) == Func(<<"x">>, EmitBody(body, NoLoop, "return"))

-------------------------------------------------------------------------------
NoCode    == Func(<<>>, <<>>)
NoOutcome == [how |-> "none", val |-> "", trace |-> <<>>]

Observed(r) == [how |-> r.how, val |-> Shown(r.val), trace |-> r.st.trace]

Meaning(body, v) == Observed(EvalBody(body, [x \in {"x"} |-> Value(v)], Start))
Running(f, v)    == Observed(Enter(f.names, f.args, <<Value(v)>>, <<>>, GoStart))

Init ==
  /\ source \in Programs /\ stage = "source"
  /\ code = NoCode /\ input = "nil" /\ outcome = NoOutcome

Transpile ==
  /\ stage = "source" /\ stage' = "emitted"
  /\ code' = EmitDefn(source)
  /\ UNCHANGED <<source, input, outcome>>

GoBuild ==
  /\ stage = "emitted"
  /\ stage' = IF Accepts(code) THEN "built" ELSE "rejected"
  /\ UNCHANGED <<source, code, input, outcome>>

Execute ==
  /\ stage = "built" /\ stage' = "ran"
  /\ input' \in Inputs
  /\ outcome' = Running(code, input')
  /\ UNCHANGED <<source, code>>

Next == Transpile \/ GoBuild \/ Execute

Spec == Init /\ [][Next]_vars

-------------------------------------------------------------------------------
(* Where the emitted Go is known to mean something else.                   *)

RECURSIVE Forms(_), TailForms(_), Leaks(_)

Forms(n) == {n} \cup UNION { Forms(n.args[i]) : i \in DOMAIN n.args }

Mentions(n, x) == \E m \in Forms(n) : m.kind \in {"var", "call"} /\ m.names[1] = x

Bodies(body) ==
  {body} \cup { Body(m) : m \in { m \in UNION { Forms(n) : n \in ToSet(body) } :
                                   m.kind \notin {"if", "cond", "switch", "iflet", "lit", "var", "call", "recur"} } }

AllForms(body) == UNION { Forms(n) : n \in ToSet(body) }

(* The forms a loop's body may end with. *)
TailForms(n) ==
  {n} \cup CASE n.kind \in {"if", "cond"} ->
                UNION { TailForms(n.args[i]) : i \in { i \in DOMAIN n.args : i % 2 = 0 \/ i = Len(n.args) } }
           [] n.kind \in {"do", "let"} -> TailForms(Last(Body(n)))
           [] OTHER -> {}

(* A loop's body ends in an if or a cond without an else. *)
LoopWithoutElse(body) ==
  \E l \in AllForms(body) :
    l.kind = "loop" /\ \E t \in TailForms(Last(Body(l))) : t.kind \in {"if", "cond"} /\ Len(t.args) % 2 = 0

(* The value of a let-or is dropped. *)
LetOrDropped(body) ==
  \E b \in Bodies(body) : \E i \in 1..(Len(b) - 1) : \E m \in Forms(b[i]) : m.kind = "letor"

(* A function literal in a loop refers to a variable of the loop. *)
LoopVarCaptured(body) ==
  \E l \in AllForms(body) : l.kind = "loop" /\
    \E f \in Forms(l) : f.kind = "fn" /\ \E x \in ToSet(l.names) : Mentions(f, x)

(* The names a statement declares in the block it is in. *)
Leaks(n) ==
  CASE n.kind \in {"let", "letor", "whenlet", "do"} ->
         ToSet(n.names) \cup
         (IF n.kind = "whenlet" THEN {} ELSE UNION { Leaks(m) : m \in ToSet(Body(n)) })
    [] n.kind = "iflet" -> ToSet(n.names)
    [] OTHER -> {}

(* After a let whose value is dropped, its name is used for another variable. *)
NameUsedAfterLet(body) ==
  \E b \in Bodies(body) : \E i, j \in DOMAIN b :
    i < j /\ \E x \in Leaks(b[i]) : Mentions(b[j], x)

(* The else of an if-let uses the bound name for another variable. *)
NameUsedInElse(body) ==
  \E m \in AllForms(body) :
    m.kind = "iflet" /\ Len(m.args) = 3 /\ Mentions(m.args[3], m.names[1])

Excepted(body) ==
  \/ LoopWithoutElse(body) \/ LetOrDropped(body) \/ LoopVarCaptured(body)
  \/ NameUsedAfterLet(body) \/ NameUsedInElse(body)

-------------------------------------------------------------------------------
(* "The compiler produces Go": whatever go build accepts prints and returns *)
(* what the source means, for the forms nested in any way, save the five    *)
(* cases above.  Rejected code is reported by go build; this is about what  *)
(* nobody would notice.                                                     *)
AcceptedMeansSame ==
  stage = "ran" =>
    LET meant == Meaning(source, input)
    IN outcome = meant \/ meant.how = "unbound" \/ Excepted(source)

(* The forms nest freely: at every place where one may stand, as a          *)
(* statement, a returned value, an operand or the end of a loop, the code   *)
(* emitted for it is Go that compiles, with a return on every path.         *)
PlainIsAccepted == stage = "rejected" => source \notin Plain
================================================================================
