----------------------------- MODULE Persistent -----------------------------
(***************************************************************************)
(* What the collection built-ins promise: a program that binds values and  *)
(* never changes one.  A vector is the sequence of its elements here; a    *)
(* call appends one binding, whose value is one the reference meaning of   *)
(* the call allows, and every earlier binding stays.  Functions, numbers   *)
(* and the text of a scalar are those of the program (Builtins).           *)
(***************************************************************************)
EXTENDS Builtins

VARIABLES vals,   \* the values bound so far
          prog    \* the calls made: <<name, arguments...>>, a collection by its index in vals

V(xs) == <<"vec", xs>>
\* The sequences a set may be seen as: one, sorted, unless its elements mix kinds.
SetSeq(S) == {p \in SetToSeqs(S) : (\A x, y \in S : x[1] = y[1]) =>
                                      \A j, k \in DOMAIN p : glispKeyLess(p[j], p[k]) => j < k}
Seqs(v) == CASE v[1] = "vec" -> {v[2]} [] v[1] = "set" -> SetSeq(v[2]) [] OTHER -> {<<>>}
Content(v) == IF v[1] = "vec" THEN v[2] ELSE <<>>

\* The elements at the positions P, in order.
At(xs, P) == LET ks == SetToSortSeq(P, <) IN [k \in DOMAIN ks |-> xs[ks[k]]]
Where(xs, P(_)) == At(xs, {k \in DOMAIN xs : P(xs[k])})
Prefix(f, xs) == {k \in DOMAIN xs : \A j \in 1 .. k : Holds(f, xs[j])}
Firsts(xs) == {k \in DOMAIN xs : \A j \in 1 .. k - 1 : xs[j] # xs[k]}

\* Reorderings of xs in which no later element is less, and ties keep their place.
Ordered(less(_, _), xs) ==
  {[k \in DOMAIN xs |-> xs[p[k]]] : p \in {q \in SetToSeqs(DOMAIN xs) :
      \A j, k \in DOMAIN xs : j < k => \/ less(xs[q[j]], xs[q[k]])
                                       \/ ~less(xs[q[k]], xs[q[j]]) /\ q[j] < q[k]}}
Reorderings(xs) == {[k \in DOMAIN xs |-> xs[p[k]]] : p \in SetToSeqs(DOMAIN xs)}

\* Keys of one kind are ordered; among mixed kinds nothing is promised.
OneKind(f, xs) == \A j, k \in DOMAIN xs : Ap(f, xs[j])[1] = Ap(f, xs[k])[1]
SortedBy(f, xs) ==
  IF OneKind(f, xs) THEN Ordered(LAMBDA a, b : glispKeyLess(Ap(f, a), Ap(f, b)), xs) ELSE Reorderings(xs)
Extreme(f, xs, less(_, _)) ==
  IF xs = <<>> THEN {Nil}
  ELSE IF OneKind(f, xs)
    THEN {xs[k] : k \in {m \in DOMAIN xs :
            /\ \A j \in DOMAIN xs : ~less(Ap(f, xs[j]), Ap(f, xs[m]))
            /\ \A j \in 1 .. m - 1 : less(Ap(f, xs[m]), Ap(f, xs[j]))}}
    ELSE ToSet(xs)
Least(f, xs) == Extreme(f, xs, glispKeyLess)
Greatest(f, xs) == Extreme(f, xs, LAMBDA a, b : glispKeyLess(b, a))

\* The slices of xs whose elements have one text under f.
Groups(f, xs) ==
  LET cut == {k \in DOMAIN xs : k = 1 \/ Text(Ap(f, xs[k])) # Text(Ap(f, xs[k - 1]))}
      starts == SetToSortSeq(cut, <)
      last(m) == IF m = Len(starts) THEN Len(xs) ELSE starts[m + 1] - 1
  IN [m \in DOMAIN starts |-> V(SubSeq(xs, starts[m], last(m)))]

\* The eager forms of the transducers, one after the other.
Eager(stage, xs) ==
  LET a == stage[2]
  IN CASE stage[1] = "map" -> Mapped(a, xs)
       [] stage[1] = "filter" -> Where(xs, LAMBDA x : Holds(a, x))
       [] stage[1] = "remove" -> Where(xs, LAMBDA x : ~Holds(a, x))
       [] stage[1] = "keep" -> Where(Mapped(a, xs), LAMBDA x : x # Nil)
       [] stage[1] = "take" -> At(xs, DOMAIN xs \cap 1 .. a)
       [] stage[1] = "drop" -> At(xs, DOMAIN xs \ 1 .. a)
       [] stage[1] = "take-while" -> At(xs, Prefix(a, xs))
       [] stage[1] = "drop-while" -> At(xs, DOMAIN xs \ Prefix(a, xs))
\* Summing up from init; no element leaves init itself.
Total(init, xs) == IF xs = <<>> THEN init ELSE glispAdd(<<init>> \o xs)
Through(xf, xs) == FoldLeft(LAMBDA ys, stage : Eager(stage, ys), xs, xf)

-----------------------------------------------------------------------------
(* The meanings.  v is the collection, xs a sequence it may be seen as, a  *)
(* and b the further arguments.                                            *)

Size(v) == IF v[1] = "map" THEN Cardinality(DOMAIN v[2]) ELSE IF v[1] = "set" THEN Cardinality(v[2])
           ELSE Len(Content(v))
Query(name, v, xs, a) ==
  CASE name = "count" -> {GoInt(Size(v))}
    [] name = "empty?" -> {Bool(Size(v) = 0)}
    [] name = "not-empty" -> {IF Size(v) = 0 THEN Nil ELSE v}
    [] name = "first" -> IF xs = <<>> THEN {Nil} ELSE {Head(xs)}
    [] name = "second" -> IF Len(xs) < 2 THEN {Nil} ELSE {Head(Tail(xs))}
    [] name = "last" -> IF xs = <<>> THEN {Nil} ELSE {Reverse(xs)[1]}
    [] name = "nth" -> {Front(<<xs[a + 1]>> \o xs)[1]}
    [] name = "contains?" -> {Bool(IF v[1] = "map" THEN a \in DOMAIN v[2] ELSE a \in ToSet(xs))}
    [] name = "some" -> IF \E x \in ToSet(xs) : Holds(a, x)
                          THEN {Ap(a, Where(xs, LAMBDA x : Holds(a, x))[1])} ELSE {Nil}
    [] name = "every?" -> {Bool(ToSet(xs) = {x \in ToSet(xs) : Holds(a, x)})}
    [] name = "not-any?" -> {Bool({x \in ToSet(xs) : Holds(a, x)} = {})}
    [] name = "reduce" -> {Total(a, xs)}
    [] name = "reduce2" -> IF xs = <<>> THEN {Nil} ELSE {Total(xs[1], Tail(xs))}
    [] name = "apply" -> {OpValue(a, xs)}
    [] name \in {"min-by", "min-key"} -> Least(a, xs)
    [] name \in {"max-by", "max-key"} -> Greatest(a, xs)

RECURSIVE Leaves(_)
Leaves(x) == IF x[1] = "vec" THEN FlattenSeq([k \in DOMAIN x[2] |-> Leaves(x[2][k])]) ELSE <<x>>
Sequence(name, xs, a) ==
  CASE name = "rest" -> {At(xs, DOMAIN xs \ {1})}
    [] name = "map" -> {Mapped(a, xs)}
    [] name = "map-indexed" -> {[k \in DOMAIN xs |-> glispAdd(<<GoInt64(k - 1), xs[k]>>)]}
    [] name \in {"filter", "remove", "keep", "take", "drop", "take-while", "drop-while"} -> {Eager(<<name, a>>, xs)}
    [] name = "reverse" -> {At(xs, {}) \o [k \in DOMAIN xs |-> xs[Len(xs) + 1 - k]]}
    [] name = "sort" -> SortedBy(Id, xs)
    [] name = "sort-by" -> SortedBy(a, xs)
    [] name = "distinct" -> {At(xs, Firsts(xs))}
    [] name = "conj" -> {Append(xs, a)}
    [] name = "interpose" -> {IF xs = <<>> THEN xs ELSE Tail(FlattenSeq([k \in DOMAIN xs |-> <<a, xs[k]>>]))}
    [] name = "flatten" -> {Leaves(V(xs))}
    [] name = "mapcat" -> {FlattenSeq([k \in DOMAIN xs |-> Content(Ap(a, xs[k]))])}
    [] name = "partition" -> {[m \in 1 .. Len(xs) \div a |-> V([k \in 1 .. a |-> xs[(m - 1) * a + k]])]}
    [] name = "partition-by" -> {Groups(a, xs)}
    [] name = "split-at" -> {<<V(At(xs, DOMAIN xs \cap 1 .. a)), V(At(xs, DOMAIN xs \ 1 .. a))>>}
    [] name = "split-with" -> {<<V(At(xs, Prefix(a, xs))), V(At(xs, DOMAIN xs \ Prefix(a, xs)))>>}
    [] name = "sequence" -> {Through(a, xs)}

Fields(v) == IF v[1] = "map" THEN v[2] ELSE <<>>
Overlay(f, g) == [x \in DOMAIN f \cup DOMAIN g |-> IF x \in DOMAIN g THEN g[x] ELSE f[x]]
Only(k, x) == [y \in {k} |-> x]
Sub(v, k) == IF k \in DOMAIN Fields(v) THEN v[2][k] ELSE Nil
OfMap(name, v, xs, a, b) ==
  CASE name = "get" -> {IF v[1] = "map" THEN Sub(v, a) ELSE
                        IF IsInt(a) /\ a[2] + 1 \in DOMAIN xs THEN xs[a[2] + 1] ELSE Nil}
    [] name = "get-or" -> IF a \in DOMAIN Fields(v) /\ v[2][a] # Nil THEN {v[2][a]} ELSE {b}
    [] name = "update-in" -> {Map(Overlay(Fields(v), Only(a[1], Map(Overlay(Fields(Sub(v, a[1])),
                                                             Only(a[2], Ap(b, Sub(Sub(v, a[1]), a[2]))))))))}
    [] name = "map-keys" -> IF DOMAIN Fields(v) = {} THEN {Map(<<>>)} ELSE {Map(Only(a, x)) : x \in Range(v[2])}
    [] name = "keys" -> {V(p) : p \in SetToSeqs(DOMAIN Fields(v))}
    [] name = "vals" -> {V([k \in DOMAIN p |-> v[2][p[k]]]) : p \in SetToSeqs(DOMAIN Fields(v))}
    [] name = "assoc" -> {Map(Overlay(Fields(v), Only(a, b)))}
    [] name = "dissoc" -> {Map([x \in DOMAIN Fields(v) \ {a} |-> v[2][x]])}
    [] name = "update" -> {Map(Overlay(Fields(v), Only(a, Ap(b, Sub(v, a)))))}
    [] name = "assoc-in" -> {Map(Overlay(Fields(v), Only(a, Map(Overlay(Fields(Sub(v, a)), Only(b, b))))))}
    [] name = "get-in" -> {Sub(Sub(v, a), b)}
    [] name = "map-vals" -> {Map([x \in DOMAIN Fields(v) |-> Ap(a, v[2][x])])}
    [] name = "rename-keys" ->
         IF a \notin DOMAIN Fields(v) THEN {Map(Fields(v))}
         ELSE LET others == [x \in DOMAIN v[2] \ {a} |-> v[2][x]]
              IN {Map(Overlay(others, Only(b, v[2][a]))), Map(Overlay(Only(b, v[2][a]), others))}
    [] name = "reduce-kv" -> {Total(GoInt(0), [k \in DOMAIN p |-> v[2][p[k]]]) :
                                p \in SetToSeqs(DOMAIN Fields(v))}
    [] name = "set" -> {SetOf(IF v[1] = "set" THEN v[2] ELSE ToSet(xs))}
    [] name = "frequencies" -> {Map([t \in {Text(x) : x \in ToSet(xs)} |->
                                      GoInt64(Len(Where(xs, LAMBDA x : Text(x) = t)))])}
    [] name = "group-by" -> {Map([t \in {Text(Ap(a, x)) : x \in ToSet(xs)} |->
                                   V(Where(xs, LAMBDA x : Text(Ap(a, x)) = t))])}

\* Of two keys that become one the later wins.
LastPair(ps) == [x \in {ps[k][1] : k \in DOMAIN ps} |->
                   ps[Max({k \in DOMAIN ps : ps[k][1] = x})][2]]
OfTwo(name, v, xs, w, ys) ==
  CASE name = "merge" -> Map(Overlay(Fields(v), Fields(w)))
    [] name = "select-keys" -> Map([x \in DOMAIN Fields(v) \cap ToSet(ys) |-> v[2][x]])
    [] name = "concat" -> V(xs \o ys)
    [] name = "interleave" -> V(FlattenSeq([k \in 1 .. Min({Len(xs), Len(ys)}) |-> <<xs[k], ys[k]>>]))
    [] name = "zipmap" -> Map(LastPair([k \in 1 .. Min({Len(xs), Len(ys)}) |-> <<Text(xs[k]), ys[k]>>]))
    [] name = "union" -> SetOf(Members(v) \cup Members(w))
    [] name = "intersection" -> SetOf(Members(v) \cap Members(w))
    [] name = "difference" -> SetOf(Members(v) \ Members(w))
    [] name = "into" /\ v[1] = "map" -> Map(Overlay(v[2], LastPair(Where([k \in DOMAIN ys |-> Content(ys[k])], LAMBDA p : Len(p) > 1))))
    [] name = "into" /\ v[1] = "set" -> SetOf(v[2] \cup ToSet(ys))
    [] name = "into" -> V(xs \o ys)

Names1 == {"count", "empty?", "not-empty", "first", "second", "last", "nth", "contains?", "some", "every?",
           "not-any?", "apply", "reduce", "reduce2", "min-by", "max-by", "min-key", "max-key"}
Names2 == {"merge", "select-keys", "concat", "interleave", "zipmap", "union", "intersection", "difference", "into"}
NamesM == {"get", "keys", "vals", "assoc", "dissoc", "update", "assoc-in", "get-in", "map-vals", "rename-keys",
           "reduce-kv", "set", "frequencies", "group-by", "get-or", "update-in", "map-keys"}

\* What a call may return, given the values bound before it.
Means(c, vs) ==
  LET v == vs[c[2]]
      a == c[3]
  IN CASE c[1] \in Names1 -> UNION {Query(c[1], v, xs, a) : xs \in Seqs(v)}
       [] c[1] \in NamesM -> UNION {OfMap(c[1], v, xs, a, c[4]) : xs \in Seqs(v)}
       [] c[1] \in Names2 -> {OfTwo(c[1], v, xs, vs[a], ys) : xs \in Seqs(v), ys \in Seqs(vs[a])}
       [] c[1] = "conj" /\ v[1] = "set" -> {SetOf(v[2] \cup {a})}
       [] c[1] = "range" -> {V([k \in 1 .. c[4] - a |-> GoInt(a + k - 1)])}
       [] c[1] = "repeat" -> {V([k \in 1 .. a |-> c[4]])}
       [] c[1] = "juxt" -> {V(<<Ap(a[1], c[4]), Ap(a[2], c[4])>>)}
       [] c[1] = "transduce" -> {Total(GoInt(0), Through(a, xs)) : xs \in Seqs(v)}
       [] c[1] = "into-xf" -> {OfTwo("into", v, Content(v), V(ys), ys) : ys \in {Through(c[4], zs) : zs \in Seqs(vs[a])}}
       [] OTHER -> {V(ys) : ys \in UNION {Sequence(c[1], xs, a) : xs \in Seqs(v)}}

Init == prog = <<>>
Call == /\ prog' # <<>> /\ prog = Front(prog')
        /\ vals' \in {Append(vals, v) : v \in Means(Last(prog'), vals)}
Spec == Init /\ [][Call]_<<vals, prog>>
=============================================================================
