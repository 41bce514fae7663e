-------------------------------- MODULE GoCode --------------------------------
(***************************************************************************)
(* The part of Go the control forms are emitted in: what its compiler      *)
(* accepts and what it does.  Nodes, values and functions are Glisp's; the *)
(* difference is in the variables, which are cells that closures share and *)
(* assignments change.                                                     *)
(***************************************************************************)
EXTENDS Glisp

Truth(e)      == Node("truthy", <<>>, <<e>>)     \* _glispTruthy(e)
IsNil(x)      == Node("isnil", <<x>>, <<>>)
NotNil(x)     == Node("notnil", <<x>>, <<>>)
Func(ps, S)   == Node("func", ps, S)             \* func(ps) any { S }
Iife(S)       == Node("iife", <<>>, S)           \* func() any { S }()
NotAnExpr     == Node("notanexpr", <<>>, <<>>)   \* text that does not parse

Decl(x, e)    == Node("decl", <<x>>, <<e>>)      \* x := e
VarAny(x)     == Node("varany", <<x>>, <<>>)     \* var x any
Set(x, e)     == Node("set", <<x>>, <<e>>)
ExprStmt(e)   == Node("expr", <<>>, <<e>>)
Return(e)     == Node("return", <<>>, <<e>>)
Break         == Node("break", <<>>, <<>>)
Continue      == Node("continue", <<>>, <<>>)
Block(S)      == Node("block", <<>>, S)
For(S)        == Node("for", <<>>, S)
GoIf(c, blocks)     == Node("goif", <<>>, <<c>> \o blocks)
GoSwitch(e, parts)  == Node("goswitch", <<>>, <<e>> \o parts)  \* case, block, ..., default block

(* The blocks of a goif or goswitch statement. *)
Blocks(s) ==
  IF s.kind = "goif" THEN Tail(s.args)
  ELSE SelectSeq(Tail(s.args), LAMBDA b : b.kind = "block")
Exhaustive(s) == IF s.kind = "goif" THEN Len(s.args) = 3 ELSE Len(s.args) % 2 = 0

-------------------------------------------------------------------------------
(* "declared and not used": the names read in an expression, or in a       *)
(* sequence of statements, that are not declared there.                    *)
RECURSIVE Reads(_), ReadsAll(_)

ReadsAll(S) ==
  IF S = <<>> THEN {}
  ELSE LET declared == IF S[1].kind \in {"decl", "varany"} THEN {S[1].names[1]} ELSE {}
       IN Reads(S[1]) \cup (ReadsAll(Tail(S)) \ declared)

Reads(n) ==
  CASE n.kind \in {"var", "isnil", "notnil"} -> {n.names[1]}
    [] n.kind = "call" -> {n.names[1]} \cup UNION { Reads(n.args[i]) : i \in DOMAIN n.args }
    [] n.kind = "func" -> ReadsAll(n.args) \ ToSet(n.names)
    [] n.kind \in {"iife", "block", "for"} -> ReadsAll(n.args)
    [] OTHER -> UNION { Reads(n.args[i]) : i \in DOMAIN n.args }

(* "missing return": the sequence ends in a terminating statement.         *)
RECURSIVE Terminating(_), HasBreak(_)

HasBreak(S) ==
  \E i \in DOMAIN S : \/ S[i].kind = "break"
                      \/ S[i].kind = "block" /\ HasBreak(S[i].args)
                      \/ S[i].kind = "goif" /\ \E b \in ToSet(Blocks(S[i])) : HasBreak(b.args)

Terminating(S) ==
  /\ S # <<>>
  /\ LET s == Last(S)
     IN CASE s.kind = "return" -> TRUE
          [] s.kind = "expr"   -> s.args[1].kind = "call" /\ s.args[1].names[1] = "panic"
          [] s.kind = "block"  -> Terminating(s.args)
          [] s.kind = "for"    -> ~HasBreak(s.args)
          [] s.kind \in {"goif", "goswitch"} ->
               Exhaustive(s) /\ \A b \in ToSet(Blocks(s)) : Terminating(b.args)
          [] OTHER -> FALSE

(* Types, in a scope: "any", "int", "bool", "func", the untyped "nil",     *)
(* "void" for what is no value, and "bad" for what is rejected.            *)
RECURSIVE Type(_, _), Legal(_, _, _, _)

Values == {"any", "int", "bool", "func"}
Assignable(from, to) == from = to \/ (to = "any" /\ from \in Values \cup {"nil"})

LegalBody(params, S, scope) ==
  /\ Legal(S, ToSet(params), Bind(scope, params, [i \in DOMAIN params |-> "any"]), FALSE)
  /\ Terminating(S)

CallType(n, scope) ==
  LET f  == n.names[1]
      ts == [i \in DOMAIN n.args |-> Type(n.args[i], scope)]
  IN CASE ~(ToSet(ts) \subseteq Values \cup {"nil"}) -> "bad"
       [] f \in DOMAIN scope -> IF scope[f] \in {"any", "func"} THEN "any" ELSE "bad"
       [] f \in {"println", "panic"} -> "void"
       [] f \in {"small", "big"} -> "bool"
       [] f = "inc"   -> IF ts[1] = "int" THEN "int" ELSE "any"
       [] f = "tell"  -> "any"
       [] OTHER       -> "bad"

Type(e, scope) ==
  CASE e.kind = "lit" -> CASE e.names[1] = "nil" -> "nil"
                           [] e.names[1] \in {"true", "false"} -> "bool"
                           [] OTHER -> "int"
    [] e.kind = "var"  -> IF e.names[1] \in DOMAIN scope THEN scope[e.names[1]] ELSE "bad"
    [] e.kind = "call" -> CallType(e, scope)
    [] e.kind = "truthy" -> IF Assignable(Type(e.args[1], scope), "any") THEN "bool" ELSE "bad"
    [] e.kind \in {"isnil", "notnil"} -> IF scope[e.names[1]] \in {"any", "func"} THEN "bool" ELSE "bad"
    [] e.kind = "func" -> IF LegalBody(e.names, e.args, scope) THEN "func" ELSE "bad"
    [] e.kind = "iife" -> IF LegalBody(<<>>, e.args, scope) THEN "any" ELSE "bad"
    [] OTHER -> "bad"

(* A sequence of statements of a block with those names declared already.  *)
Legal(S, here, scope, inFor) ==
  S # <<>> =>
    LET s    == S[1]
        x    == s.names[1]
        t    == Type(s.args[1], scope)
        rest == Legal(Tail(S), here, scope, inFor)
        Declares(type) ==
          /\ x \notin here /\ x \in ReadsAll(Tail(S))
          /\ Legal(Tail(S), here \cup {x}, Bind(scope, <<x>>, <<type>>), inFor)
        InBlocks(bs) == \A b \in ToSet(bs) : Legal(b.args, {}, scope, inFor)
    IN CASE s.kind = "decl"   -> t \in Values /\ Declares(t)
         [] s.kind = "varany" -> Declares("any")
         [] s.kind = "set"    -> x \in DOMAIN scope /\ Assignable(t, scope[x]) /\ rest
         [] s.kind = "expr"   -> s.args[1].kind \in {"call", "iife"} /\ t \in {"any", "void"} /\ rest
         [] s.kind = "return" -> Assignable(t, "any") /\ rest
         [] s.kind \in {"break", "continue"} -> inFor /\ rest
         [] s.kind = "block"  -> InBlocks(<<s>>) /\ rest
         [] s.kind = "for"    -> Legal(s.args, {}, scope, TRUE) /\ rest
         [] s.kind = "goif"   -> t = "bool" /\ InBlocks(Blocks(s)) /\ rest
         [] s.kind = "goswitch" ->
              /\ t \in Values
              /\ \A i \in DOMAIN s.args :
                   i > 1 /\ s.args[i].kind # "block" => t \in {"any", Type(s.args[i], scope)}
              /\ InBlocks(Blocks(s)) /\ rest

Accepts(f) == Type(f, <<>>) = "func"

-------------------------------------------------------------------------------
(* Execution: env gives a name its cell, st.heap a cell its value.         *)
GoStart == [trace |-> <<>>, fuel |-> Fuel, heap |-> <<>>]

New(v, st)   == [st EXCEPT !.heap = Append(@, v)]
Cell(st)     == Len(st.heap)
Goes(st)     == Ends("next", Nil, st)

RECURSIVE Run(_, _, _), RunAll(_, _, _), Exec(_, _, _), Rounds(_, _, _)

RunAll(es, env, st) ==
  IF es = <<>> THEN Gives(<<>>, st)
  ELSE Then(Run(Head(es), env, st), LAMBDA v, s1 :
         Then(RunAll(Tail(es), env, s1), LAMBDA vs, s2 : Gives(<<v>> \o vs, s2)))

(* A function's statements, with the parameters in new cells. *)
Enter(params, S, vs, env, st) ==
  LET cells == [i \in DOMAIN params |-> Cell(st) + i]
      r     == Exec(S, Bind(env, params, cells), [st EXCEPT !.heap = @ \o vs])
  IN IF r.how = "return" THEN Gives(r.val, r.st) ELSE r

GoCall(f, vs, env, st) ==
  CASE f \notin DOMAIN env -> Apply(f, vs, st)
    [] st.heap[env[f]][1] = "fn" /\ Len(st.heap[env[f]][2].params) = Len(vs) ->
         LET c == st.heap[env[f]][2] IN Enter(c.params, c.body, vs, c.env, st)
    [] OTHER -> Fails("panic", st)

Run(e, env, st) ==
  CASE e.kind = "lit"    -> Gives(Value(e.names[1]), st)
    [] e.kind = "var"    -> Gives(st.heap[env[e.names[1]]], st)
    [] e.kind = "isnil"  -> Gives(Boolean(st.heap[env[e.names[1]]] = Nil), st)
    [] e.kind = "notnil" -> Gives(Boolean(st.heap[env[e.names[1]]] # Nil), st)
    [] e.kind = "truthy" ->
         Then(Run(e.args[1], env, st), LAMBDA v, s : Gives(Boolean(Truthy(v)), s))
    [] e.kind = "func"   -> Gives(Closure([params |-> e.names, body |-> e.args, env |-> env]), st)
    [] e.kind = "iife"   -> Enter(<<>>, e.args, <<>>, env, st)
    [] e.kind = "call"   ->
         Then(RunAll(e.args, env, st), LAMBDA vs, s : GoCall(e.names[1], vs, env, s))

RECURSIVE Chosen(_, _, _)
(* The statements of the case of a switch that is equal to v, if any. *)
Chosen(v, parts, env) ==
  CASE Len(parts) = 0 -> <<>>
    [] Len(parts) = 1 -> parts[1].args
    [] OTHER -> IF v = Value(parts[1].names[1]) THEN parts[2].args
                ELSE Chosen(v, AfterClause(parts), env)

Rounds(S, env, st) ==
  IF st.fuel = 0 THEN Fails("spins", st)
  ELSE LET r == Exec(S, env, [st EXCEPT !.fuel = @ - 1])
       IN CASE r.how \in {"next", "continue"} -> Rounds(S, env, r.st)
            [] r.how = "break" -> Goes(r.st)
            [] OTHER -> r

Exec(S, env, st) ==
  IF S = <<>> THEN Goes(st)
  ELSE LET s == S[1]
           On(r) == IF r.how = "next" THEN Exec(Tail(S), env, r.st) ELSE r
           More(inner, st2) == Exec(Tail(S), inner, st2)
           Declare(v, st2)  == More(Bind(env, <<s.names[1]>>, <<Cell(st2) + 1>>), New(v, st2))
       IN CASE s.kind = "decl"   -> Then(Run(s.args[1], env, st), LAMBDA v, s1 : Declare(v, s1))
            [] s.kind = "varany" -> Declare(Nil, st)
            [] s.kind = "set"    ->
                 Then(Run(s.args[1], env, st), LAMBDA v, s1 :
                   More(env, [s1 EXCEPT !.heap[env[s.names[1]]] = v]))
            [] s.kind = "expr"   -> Then(Run(s.args[1], env, st), LAMBDA v, s1 : More(env, s1))
            [] s.kind = "return" -> Then(Run(s.args[1], env, st), LAMBDA v, s1 : Ends("return", v, s1))
            [] s.kind \in {"break", "continue"} -> Ends(s.kind, Nil, st)
            [] s.kind = "block"  -> On(Exec(s.args, env, st))
            [] s.kind = "for"    -> On(Rounds(s.args, env, st))
            [] s.kind = "goif"   ->
                 Then(Run(s.args[1], env, st), LAMBDA v, s1 :
                   CASE v = Value("true") -> On(Exec(s.args[2].args, env, s1))
                     [] v # Value("true") /\ Len(s.args) = 3 -> On(Exec(s.args[3].args, env, s1))
                     [] OTHER -> More(env, s1))
            [] s.kind = "goswitch" ->
                 Then(Run(s.args[1], env, st), LAMBDA v, s1 :
                   On(Exec(Chosen(v, Tail(s.args), env), env, s1)))
================================================================================
