-------------------------------- MODULE EmitMC --------------------------------
(* Emit for TLC: every form around every form, with a call, a literal, a    *)
(* variable or a jump in the innermost place.                               *)
EXTENDS Emit

x == Var("x")
y == Var("y")
i == Var("i")

Tell(e)  == Call("tell", <<e>>)
Next1(e) == Call("inc", <<e>>)
Small(e) == Call("small", <<e>>)
One      == Lit("1")

Leaves == { x, y, i, Lit("nil"), Lit("0"), Tell(x), Tell(One), Call("println", <<x>>), Call("throw", <<x>>) }

Around(h) == {
  Tell(h),
  If(h, <<Tell(One), Tell(x)>>), If(x, <<h, One>>), If(x, <<Tell(x), h>>), If(Small(x), <<h>>),
  When(x, <<h>>), When(h, <<Tell(One)>>), When(Small(x), <<Tell(x), h>>),
  Cond(<<x, h, Small(x), One, x>>), Cond(<<h, One, Tell(x), h>>),
  Switch(x, <<Lit("0"), h, Tell(x)>>), Switch(h, <<One, Tell(x)>>),
  Do(<<h, Tell(x)>>), Do(<<Tell(One), h>>),
  Let(<<"y">>, <<h>>, <<Tell(y), y>>), Let(<<"y">>, <<Tell(x)>>, <<h, y>>),
  Let(<<"x">>, <<h>>, <<Tell(x)>>), Let(<<"y">>, <<Tell(One)>>, <<Tell(y), h>>),
  IfLet("y", h, <<y, One>>), IfLet("y", x, <<y, h>>), IfLet("y", Tell(x), <<h>>),
  WhenLet("y", h, <<Tell(y)>>), WhenLet("y", Tell(x), <<Tell(y), h>>),
  LetOr(<<"y">>, <<h>>, <<Tell(One)>>, <<Tell(y)>>), LetOr(<<"y">>, <<Tell(x)>>, <<h>>, <<y>>),
  LetOr(<<"y">>, <<x>>, <<Tell(x)>>, <<Tell(y), h>>),
  Loop(<<"i">>, <<x>>, <<If(Small(i), <<Recur(<<Next1(i)>>), h>>)>>),
  Loop(<<"i">>, <<Lit("0")>>, <<If(Small(i), <<Do(<<h, Recur(<<Next1(i)>>)>>), i>>)>>),
  Loop(<<"i">>, <<h>>, <<Cond(<<Small(i), Recur(<<Next1(i)>>), Tell(i)>>)>>),
  Loop(<<"i", "y">>, <<x, x>>, <<If(Small(i), <<Recur(<<Next1(i), h>>), y>>)>>),
  Loop(<<"i", "y">>, <<x, x>>, <<If(Small(i), <<Recur(<<Next1(y), Tell(i)>>), h>>)>>),
  Loop(<<"i">>, <<x>>, <<h, If(Small(i), <<Recur(<<Next1(i)>>)>>)>>),
  Loop(<<"i">>, <<x>>, <<Let(<<"y">>, <<h>>, <<If(Small(y), <<Recur(<<Next1(i)>>), y>>)>>)>>),
  Let(<<"f">>, <<Fn(<<"y">>, <<h>>)>>, <<Call("f", <<Tell(x)>>)>>),
  Loop(<<"i", "f">>, <<x, Fn(<<>>, <<h>>)>>,
       <<If(Small(i), <<Recur(<<Next1(i), Fn(<<>>, <<h>>)>>), Call("f", <<>>)>>)>>) }

Once   == UNION { Around(h) : h \in Leaves }
Twice  == UNION { Around(h) : h \in Once }

(* Names that go on to mean something else. *)
Reused == {
  Let(<<"y">>, <<Tell(x)>>, <<If(x, <<Do(<<Let(<<"y">>, <<Tell(One)>>, <<Tell(y)>>), y>>), y>>)>>),
  Let(<<"y">>, <<Tell(One)>>, <<Tell(y), Tell(IfLet("y", x, <<Tell(One), y>>))>>),
  Let(<<"y">>, <<Tell(One)>>, <<Tell(WhenLet("y", x, <<Tell(y)>>)), y>>) }

MCPrograms == { <<p>> : p \in Once \cup Twice \cup Reused } \cup { <<p, x>> : p \in Once }

-------------------------------------------------------------------------------
(* The language without what Go makes of it: every name is new and used,    *)
(* every if has an else, what is dropped is a call, recur is reached by if, *)
(* cond, do and let only, and no loop is in a loop.                         *)
PlainLeaves == { Tell(x), Call("println", <<x>>) }

PlainAround(h, name) ==
  LET v == Var(name)
  IN { Tell(h),
       If(h, <<Tell(One), Tell(x)>>), If(x, <<h, One>>), If(Small(x), <<Tell(x), h>>),
       When(x, <<h>>), When(h, <<Tell(x)>>), When(Small(x), <<h, Tell(x)>>),
       Cond(<<x, h, Small(x), One, Tell(x)>>), Cond(<<h, One, Tell(x), h, Lit("nil")>>),
       Switch(x, <<Lit("0"), h, Tell(x)>>), Switch(h, <<One, Tell(x)>>),
       Do(<<h, Tell(x)>>), Do(<<Tell(One), h>>),
       Let(<<name>>, <<h>>, <<Tell(v)>>), Let(<<name>>, <<x>>, <<Tell(v), h>>),
       IfLet(name, h, <<Tell(v), One>>), IfLet(name, x, <<Tell(v), h>>), IfLet(name, x, <<Do(<<h, Tell(v)>>)>>),
       WhenLet(name, h, <<Tell(v)>>), WhenLet(name, x, <<Tell(v), h>>),
       LetOr(<<name>>, <<h>>, <<Tell(One)>>, <<Tell(v)>>), LetOr(<<name>>, <<x>>, <<h>>, <<Tell(v)>>),
       Let(<<name>>, <<Fn(<<"z">>, <<Tell(Var("z")), h>>)>>, <<Call(name, <<x>>)>>) }

PlainLoops(h) == {
  Loop(<<"i">>, <<x>>, <<If(Small(i), <<Recur(<<Next1(i)>>), h>>)>>),
  Loop(<<"i">>, <<h>>, <<Cond(<<Small(i), Recur(<<Next1(i)>>), Tell(i)>>)>>),
  Loop(<<"i">>, <<Lit("0")>>, <<If(Call("big", <<i>>), <<i, Do(<<h, Recur(<<Next1(i)>>)>>)>>)>>),
  Loop(<<"i", "a">>, <<x, x>>, <<If(Call("big", <<i>>), <<Var("a"), Recur(<<Next1(i), h>>)>>)>>),
  Loop(<<"i", "a">>, <<x, Tell(x)>>, <<Let(<<"b">>, <<h>>, <<If(Small(i), <<Recur(<<Next1(Var("a")), i>>), Var("b")>>)>>)>>) }

PlainOnce == UNION { PlainAround(h, "p") : h \in PlainLeaves }
PlainTwice ==
  UNION ({ PlainAround(h, "q") \cup PlainLoops(h) : h \in PlainOnce }
         \cup { PlainAround(h, "q") : h \in UNION { PlainLoops(l) : l \in PlainLeaves } })

MCPlain == { <<p>> : p \in PlainTwice }

(* A loop that counts, prints, and ends with the nil of its if. *)
Counting == { <<Loop(<<"i">>, <<Lit("0")>>, <<If(Small(i), <<Do(<<Tell(i), Recur(<<Next1(i)>>)>>)>>)>>)>> }

AllPrograms == MCPrograms \cup MCPlain
===============================================================================
