--------------------------------- MODULE Glisp ---------------------------------
(***************************************************************************)
(* The control forms of golisp as the parser builds them, and their value. *)
(*                                                                         *)
(* internal/macro/eval.go is an interpreter of the language: it runs macro *)
(* bodies while a file is compiled.  Eval is that interpreter, continued   *)
(* with the forms it leaves out (loop, recur, if-let, when-let, let-or,    *)
(* switch), whose meaning is the one the book and ADR-011 give.  It is the *)
(* reference for what the emitted Go must compute.                         *)
(***************************************************************************)
EXTENDS Naturals, Sequences, SequencesExt

CONSTANT Fuel  \* bound: rounds of all the loops of one run

ASSUME FuelAssumption == Fuel \in Nat

Node(kind, names, args) == [kind |-> kind, names |-> names, args |-> args]

Lit(v)           == Node("lit", <<v>>, <<>>)
Var(x)           == Node("var", <<x>>, <<>>)
Call(f, as)      == Node("call", <<f>>, as)
If(c, branches)  == Node("if", <<>>, <<c>> \o branches)
When(c, body)    == Node("when", <<>>, <<c>> \o body)
Cond(parts)      == Node("cond", <<>>, parts)             \* test, body, ..., default
Switch(e, parts) == Node("switch", <<>>, <<e>> \o parts)  \* case, body, ..., default
Do(body)         == Node("do", <<>>, body)
Let(xs, es, body)       == Node("let", xs, es \o body)
IfLet(x, e, branches)   == Node("iflet", <<x>>, <<e>> \o branches)
WhenLet(x, e, body)     == Node("whenlet", <<x>>, <<e>> \o body)
LetOr(xs, es, fs, body) == Node("letor", xs, es \o fs \o body)
Loop(xs, es, body)      == Node("loop", xs, es \o body)
Recur(as)        == Node("recur", <<>>, as)
Fn(ps, body)     == Node("fn", ps, body)

(* The parts of a form. *)
Inits(n)     == SubSeq(n.args, 1, Len(n.names))
Fallbacks(n) == SubSeq(n.args, Len(n.names) + 1, 2 * Len(n.names))
Body(n) ==
  LET before == CASE n.kind \in {"do", "fn"} -> 0
                  [] n.kind = "when"         -> 1
                  [] n.kind = "letor"        -> 2 * Len(n.names)
                  [] OTHER                   -> Len(n.names)
  IN SubSeq(n.args, before + 1, Len(n.args))

AfterClause(parts) == SubSeq(parts, 3, Len(parts))

-------------------------------------------------------------------------------
(* Values: literals and closures, tagged so that they compare.             *)

Value(s)   == <<"lit", s>>
Closure(c) == <<"fn", c>>
Nil        == Value("nil")
Boolean(b) == Value(IF b THEN "true" ELSE "false")

(* ADR-011: nil and false are falsy, all else is truthy. *)
Truthy(v) == v \notin {Nil, Value("false")}

Shown(v) == IF v[1] = "fn" THEN "fn" ELSE v[2]

(* What an evaluation comes to: a value, a recur, or an end that is passed *)
(* on; and what it has printed and has left of its fuel by then.           *)
Ends(how, val, st) == [how |-> how, val |-> val, st |-> st]
Gives(val, st)     == Ends("value", val, st)
Fails(how, st)     == Ends(how, Nil, st)

Then(r, F(_, _)) == IF r.how = "value" THEN F(r.val, r.st) ELSE r

Start == [trace |-> <<>>, fuel |-> Fuel]

(* The functions programs call: one that prints, one that prints and       *)
(* returns its argument, and those that make loops count.                  *)

Counts(v)    == v \in {Value("0"), Value("1")}
Increment(v) == CASE v = Value("1") -> Value("2") [] v = Value("2") -> Value("3") [] OTHER -> Value("1")

Apply(f, vs, st) ==
  LET printed == [st EXCEPT !.trace = Append(@, Shown(vs[1]))]
  IN CASE f = "println" -> Gives(Nil, printed)
       [] f = "tell"    -> Gives(vs[1], printed)
       [] f = "inc"     -> Gives(Increment(vs[1]), st)
       [] f = "small"   -> Gives(Boolean(Counts(vs[1])), st)
       [] f = "big"     -> Gives(Boolean(~Counts(vs[1])), st)
       [] OTHER         -> Fails("panic", st)

(* Define: names bound over an environment. *)
Bind(env, xs, vs) ==
  [x \in DOMAIN env \cup ToSet(xs) |->
     IF x \in ToSet(xs) THEN vs[SelectLastInSeq(xs, LAMBDA y : y = x)] ELSE env[x]]

-------------------------------------------------------------------------------
RECURSIVE Eval(_, _, _), EvalAll(_, _, _), EvalBody(_, _, _), EvalCond(_, _, _),
          EvalCase(_, _, _, _), EvalLets(_, _, _, _), EvalLoop(_, _, _, _), EvalOr(_, _, _, _)

EvalAll(ns, env, st) ==
  IF ns = <<>> THEN Gives(<<>>, st)
  ELSE Then(Eval(Head(ns), env, st), LAMBDA v, s1 :
         Then(EvalAll(Tail(ns), env, s1), LAMBDA vs, s2 : Gives(<<v>> \o vs, s2)))

(* A recur is in tail position: the others of a body have values. *)
EvalBody(ns, env, st) ==
  CASE Len(ns) = 0 -> Gives(Nil, st)
    [] Len(ns) = 1 -> Eval(ns[1], env, st)
    [] OTHER -> Then(Eval(Head(ns), env, st), LAMBDA v, s : EvalBody(Tail(ns), env, s))

EvalCond(parts, env, st) ==
  CASE Len(parts) = 0 -> Gives(Nil, st)
    [] Len(parts) = 1 -> Eval(parts[1], env, st)
    [] OTHER -> Then(Eval(parts[1], env, st), LAMBDA v, s :
                  IF Truthy(v) THEN Eval(parts[2], env, s)
                  ELSE EvalCond(AfterClause(parts), env, s))

EvalCase(v, parts, env, st) ==
  CASE Len(parts) = 0 -> Gives(Nil, st)
    [] Len(parts) = 1 -> Eval(parts[1], env, st)
    [] OTHER -> Then(Eval(parts[1], env, st), LAMBDA w, s :
                  IF v = w THEN Eval(parts[2], env, s)
                  ELSE EvalCase(v, AfterClause(parts), env, s))

(* Each binding sees the ones before it: the environment they make. *)
EvalLets(xs, es, env, st) ==
  IF xs = <<>> THEN Gives(env, st)
  ELSE Then(Eval(Head(es), env, st), LAMBDA v, s :
         EvalLets(Tail(xs), Tail(es), Bind(env, <<Head(xs)>>, <<v>>), s))

(* recur: all new values first, then the body again with new bindings.     *)
EvalLoop(n, vs, env, st) ==
  IF st.fuel = 0 THEN Fails("spins", st)
  ELSE LET r == EvalBody(Body(n), Bind(env, n.names, vs), [st EXCEPT !.fuel = @ - 1])
       IN IF r.how = "recur" THEN EvalLoop(n, r.val, env, r.st) ELSE r

(* let-or from its i-th binding: the fallback, and nothing more, on nil.   *)
EvalOr(n, i, env, st) ==
  IF i > Len(n.names) THEN EvalBody(Body(n), env, st)
  ELSE Then(Eval(Inits(n)[i], env, st), LAMBDA v, s :
         LET inner == Bind(env, <<n.names[i]>>, <<v>>)
         IN IF v = Nil THEN Eval(Fallbacks(n)[i], inner, s) ELSE EvalOr(n, i + 1, inner, s))

(* applyClosure, or a function of the program. *)
Invoke(f, vs, env, st) ==
  CASE f \notin DOMAIN env -> Apply(f, vs, st)
    [] env[f][1] = "fn" /\ Len(env[f][2].params) = Len(vs) ->
         EvalBody(env[f][2].body, Bind(env[f][2].env, env[f][2].params, vs), st)
    [] OTHER -> Fails("panic", st)

Eval(n, env, st) ==
  CASE n.kind = "lit" -> Gives(Value(n.names[1]), st)
    [] n.kind = "var" ->
         IF n.names[1] \in DOMAIN env THEN Gives(env[n.names[1]], st) ELSE Fails("unbound", st)
    [] n.kind = "fn"  -> Gives(Closure([params |-> n.names, body |-> n.args, env |-> env]), st)
    [] n.kind = "call" ->
         Then(EvalAll(n.args, env, st), LAMBDA vs, s : Invoke(n.names[1], vs, env, s))
    [] n.kind \in {"if", "cond"} -> EvalCond(n.args, env, st)
    [] n.kind = "when" ->
         Then(Eval(n.args[1], env, st), LAMBDA v, s :
           IF Truthy(v) THEN EvalBody(Body(n), env, s) ELSE Gives(Nil, s))
    [] n.kind = "do"  -> EvalBody(n.args, env, st)
    [] n.kind = "let" ->
         Then(EvalLets(n.names, n.args, env, st), LAMBDA inner, s : EvalBody(Body(n), inner, s))
    [] n.kind = "switch" ->
         Then(Eval(n.args[1], env, st), LAMBDA v, s : EvalCase(v, Tail(n.args), env, s))
    [] n.kind = "iflet" ->
         Then(Eval(n.args[1], env, st), LAMBDA v, s :
           CASE v # Nil -> Eval(n.args[2], Bind(env, n.names, <<v>>), s)
             [] v = Nil /\ Len(n.args) = 3 -> Eval(n.args[3], env, s)
             [] OTHER -> Gives(Nil, s))
    [] n.kind = "whenlet" ->
         Then(Eval(n.args[1], env, st), LAMBDA v, s :
           IF v = Nil THEN Gives(Nil, s) ELSE EvalBody(Body(n), Bind(env, n.names, <<v>>), s))
    [] n.kind = "letor" -> EvalOr(n, 1, env, st)
    [] n.kind = "loop" ->
         Then(EvalLets(n.names, n.args, env, st), LAMBDA inner, s :
           EvalLoop(n, [i \in DOMAIN n.names |-> inner[n.names[i]]], env, s))
    [] n.kind = "recur" ->
         Then(EvalAll(n.args, env, st), LAMBDA vs, s : Ends("recur", vs, s))
================================================================================
