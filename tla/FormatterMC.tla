------------------------------ MODULE FormatterMC ------------------------------
(***************************************************************************)
(* Small programs for Formatter: every layout, with and without parts too  *)
(* wide for one line.                                                      *)
(***************************************************************************)
EXTENDS Formatter

Node(kind, text, heads, kids) == [kind |-> kind, id |-> 0, text |-> text, doc |-> 0, heads |-> heads, kids |-> kids]
Leaf(w) == Node("leaf", w, <<>>, <<>>)
x == Leaf(1)
wide == Leaf(45)
tag == Node("keyword", 4, <<>>, <<>>)
Call(args) == Node("call", 1, <<>>, <<x>> \o args)
Let(kind, values, body) == Node(kind, 7, FlattenSeq([i \in DOMAIN values |-> <<x, values[i]>>]), body)
Clause(test, body) == Node("clause", -1, test, <<body>>)
Arm(text, heads, body) == Node("arm", text, heads, body)
Defn(body) == Node("defn", 11, <<>>, body)
Documented(n) == [n EXCEPT !.doc = 1]

\* Identifiers in the order of the text.
RECURSIVE Number(_, _)
NumberAll(ns, i) ==
  FoldLeft(LAMBDA s, n : LET r == Number(n, s.next) IN [nodes |-> Append(s.nodes, r.node), next |-> r.next],
           [nodes |-> <<>>, next |-> i], ns)
Number(n, i) ==
  LET heads == NumberAll(n.heads, i + 1)
      kids == NumberAll(n.kids, heads.next)
  IN [node |-> [n EXCEPT !.id = i, !.heads = heads.nodes, !.kids = kids.nodes], next |-> kids.next]

def(v) == Node("def", 7, <<>>, <<v>>)
InDefn == {
  Node("do", 4, <<>>, <<x, Call(<<x>>), x, x>>),
  Node("when", 6, <<x>>, <<x, wide>>),
  Node("for-chan", 15, <<x>>, <<Call(<<wide, wide>>)>>),
  Node("go", 4, <<>>, <<x, x>>),
  Node("fan-out", 14, <<x, x>>, <<x>>),
  Node("if", 4, <<Call(<<x>>)>>, <<x, Call(<<x>>)>>),
  Node("if-err", 14, <<x>>, <<x, x>>),
  Node("defer", 7, <<>>, <<Call(<<wide, wide>>)>>),
  Node("return", 8, <<>>, <<wide, wide>>),
  Node("send!", 7, <<>>, <<x, Call(<<x>>)>>),
  Node("cond", 6, <<>>, <<Clause(<<x>>, Call(<<x>>)), Clause(<<wide>>, Node("do", 4, <<>>, <<wide, x>>))>>),
  Node("case", 6, <<x>>, <<Clause(<<x>>, x), Clause(<<>>, Call(<<wide, wide>>))>>),
  Let("let", <<x, x>>, <<x>>),
  Node("let", 7, <<Node("map", 1, <<>>, <<wide, tag, x, tag>>), wide, x, x>>, <<x>>),
  Let("loop", <<Call(<<x>>), x>>, <<x>>),
  Let("with-open", <<x>>, <<>>),
  Node("let-or", 8, <<x, x, x, x, x, wide>>, <<x>>),
  Node("select!", 9, <<>>, <<Arm(5, <<x>>, <<x>>), Arm(10, <<>>, <<x>>)>>),
  Node("try", 5, <<>>, <<x, Arm(9, <<>>, <<x>>), Arm(9, <<>>, <<x>>)>>),
  Node("pairs", 1, <<>>, <<Leaf(5), x, wide, x, x, x>>),
  Call(<<Call(<<x>>), x>>),
  Call(<<x, Node("fn", 5, <<>>, <<x, x>>)>>),
  Node("when", 6, <<x>>, <<Let("let", <<x>>, <<x>>), x>>),
  Node("do", 4, <<>>, <<Node("vector", 1, <<>>, <<wide, Node("fn", 5, <<>>, <<x>>), wide>>)>>) }
AtTop == {
  def(Node("vector", 1, <<>>, <<tag, Node("map", 1, <<>>, <<x, x>>), wide, wide>>)),
  def(Node("map", 1, <<>>, <<x, Call(<<x>>), x, x>>)),
  def(Node("T.", 6, <<>>, <<x, wide, x, wide>>)),
  def(Let("let", <<x, x>>, <<x>>)),
  Node("defstruct", 12, <<>>, <<x, x>>),
  Node("ns", 6, <<>>, <<wide, wide>>) }
MCPrograms ==
  {NumberAll(t, 1).nodes : t \in {<<Defn(<<n>>), def(x)>> : n \in InDefn}
                          \cup {<<n, Documented(Defn(<<x>>))>> : n \in AtTop}}
=============================================================================
