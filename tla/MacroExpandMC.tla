---------------------------- MODULE MacroExpandMC ----------------------------
(* MacroExpand for TLC: macros that wrap, drop, duplicate and quote their   *)
(* argument, call another macro, take the rest of their arguments, or come   *)
(* back to themselves: at the head, or with fewer arguments inside a form. *)
EXTENDS MacroExpand

x == Sym("x")

HolesFrom(i, n) == [k \in 1..(n + 1 - i) |-> Hole(k + i - 1)]

(* when-not is the prelude's; all is the usual and.                        *)
One(t) == Macro(1, FALSE, LAMBDA n : t)

Core == [m \in {"not", "twice", "keep", "alias", "loop", "back", "when-not", "all"} |->
  CASE m = "not"   -> One(Walked(<<Hole(1), Sym("nil")>>))
    [] m = "twice" -> One(Walked(<<Hole(1), Hole(1)>>))
    [] m = "keep"  -> Macro(2, FALSE, LAMBDA n : Quoted(Hole(2)))
    [] m = "alias" -> One(Call("not", <<Call("twice", <<Hole(1)>>)>>))
    [] m = "loop"  -> One(Call("back", <<Hole(1)>>))
    [] m = "back"  -> One(Call("loop", <<Hole(1)>>))
    [] m = "when-not" -> Macro(1, TRUE, LAMBDA n :
         Walked(<<Hole(1), Sym("nil"), Walked(HolesFrom(2, n))>>))
    [] m = "all" -> Macro(0, TRUE, LAMBDA n :
         IF n = 0 THEN Sym("true")
         ELSE IF n = 1 THEN Hole(1)
         ELSE Walked(<<Hole(1), Call("all", HolesFrom(2, n))>>))]

(* A sibling file and the file itself may shadow the prelude's "not". *)
Mine(s) == [m \in {"not"} |-> One(Walked(<<Sym(s), Hole(1)>>))]

MCLayers == { <<Core, e, l>> : e \in {<<>>, Mine("external")}, l \in {<<>>, Mine("local")} }

Names == (DOMAIN Core \ {"back"}) \cup {"f"}

Leaves == {x} \cup { Call(m, <<x>>) : m \in Names }
Inner == Leaves \cup { Closed(<<f>>) : f \in Leaves } \cup { Quoted(f) : f \in Leaves }
         \cup { Walked(<<f, g>>) : f \in {x, Call("alias", <<x>>)}, g \in Leaves }
Outer == Inner \cup { Call(m, <<f>>) : m \in Names, f \in Inner }
         \cup { Call("keep", <<x, f>>) : f \in Leaves }
         \cup { Call(m, <<f, x, g>>) : m \in {"when-not", "all"}, f \in Leaves, g \in Leaves }
         \cup { Call(m, <<>>) : m \in Names }

MCPrograms == { <<f>> : f \in Outer } \cup { <<f, g>> : f \in Leaves, g \in Inner }
===============================================================================
