------------------------------- MODULE Builtins -------------------------------
(***************************************************************************)
(* The helpers a generated program is linked with (emit_runtime.go), one   *)
(* operator each: what a helper returns and what it does to the heap.  h   *)
(* is the heap and s the slice that _glispToSlice made of a collection.    *)
(***************************************************************************)
EXTENDS GoValues

-----------------------------------------------------------------------------
(* Order, and the enumeration of sets. *)

InsertBy(less(_, _), acc, x) ==
  LET at == 1 + Max({0} \cup {j \in DOMAIN acc : ~less(x, acc[j])})
  IN InsertAt(acc, at, x)
InsertionSort(less(_, _), xs) == FoldLeft(LAMBDA acc, x : InsertBy(less, acc, x), <<>>, xs)

\* A Go map enumerates in any order; the sort then leaves two keys of
\* different kinds as it found them.
Enumerations(S) == {InsertionSort(glispKeyLess, p) : p \in SetToSeqs(S)}

Items(h, v) == CASE v[1] = "vec" -> Elems(h, v)
                 [] v[1] = "strs" -> [k \in DOMAIN v[2] |-> Str(v[2][k])]
                 [] OTHER -> <<>>

\* A []any is returned as it is; every other slice, and a set, is copied.
glispToSlice(h, v) ==
  CASE v[1] = "vec" -> {R(h, v)}
    [] v[1] = "strs" -> {Made(h, Items(h, v))}
    [] v[1] = "set" -> {Made(h, xs) : xs \in Enumerations(v[2])}
    [] OTHER -> {R(h, NilSlice)}

-----------------------------------------------------------------------------
(* The functions a program passes: built-ins as values, and what the       *)
(* combinators make of them.                                               *)

glispInc(x) == IF x[1] = "float" THEN GoFloat(Rounded(x[2] + 1)) ELSE GoInt(Wrap(glispToInt(x) + 1))
glispDec(x) == IF x[1] = "float" THEN GoFloat(Rounded(x[2] - 1)) ELSE GoInt(Wrap(glispToInt(x) - 1))
glispIsEven(x) == glispToInt(x) % 2 = 0
glispIsPos(x) == glispToInt(x) > 0
glispIsNeg(x) == glispToInt(x) < 0
glispIsZero(x) == glispToInt(x) = 0

FnValue(f, x) == CASE f = "inc" -> glispInc(x)
                   [] f = "dec" -> glispDec(x)
                   [] f = "even?" -> Bool(glispIsEven(x))
                   [] f = "odd?" -> Bool(~glispIsEven(x))
                   [] f = "pos?" -> Bool(glispIsPos(x))
                   [] f = "neg?" -> Bool(glispIsNeg(x))
                   [] f = "zero?" -> Bool(glispIsZero(x))
                   [] f = "identity" -> x
RECURSIVE Ap(_, _)
Ap(f, x) == CASE f[1] = "fn" -> FnValue(f[2], x)
              [] f[1] = "complement" -> Bool(~glispTruthy(Ap(f[2], x)))
              [] f[1] = "constantly" -> f[2]
              [] f[1] = "fnil" -> Ap(f[2], IF x = Nil THEN f[3] ELSE x)
              [] f[1] = "partial+" -> glispAdd(<<f[2], x>>)
              [] f[1] = "comp" -> Ap(f[2], Ap(f[3], x))
Holds(f, x) == glispTruthy(Ap(f, x))
Id == <<"fn", "identity">>
Juxt(h, f, g, x) == Made(h, <<Ap(f, x), Ap(g, x)>>)
OpValue(op, args) == CASE op = "+" -> glispAdd(args)
                       [] op = "-" -> glispSub(args)
                       [] op = "*" -> glispMul(args)
                       [] op = "max" -> glispMax(args)
                       [] op = "min" -> glispMin(args)
Ops == {"+", "-", "*", "max", "min"}
Mapped(f, xs) == [k \in DOMAIN xs |-> Ap(f, xs[k])]

-----------------------------------------------------------------------------
(* One element. *)

glispFirst(xs) == IF xs = <<>> THEN Nil ELSE xs[1]
glispSecond(xs) == IF Len(xs) < 2 THEN Nil ELSE xs[2]
glispLast(xs) == IF xs = <<>> THEN Nil ELSE xs[Len(xs)]
glispNth(xs, i) == IF glispToInt(i) + 1 \in DOMAIN xs THEN xs[glispToInt(i) + 1] ELSE Panic
glispGet(m, xs, k) ==
  CASE m[1] = "map" -> IF k \in DOMAIN m[2] THEN m[2][k] ELSE Nil
    [] m[1] # "map" /\ IsInt(k) /\ k[2] + 1 \in DOMAIN xs -> xs[k[2] + 1]
    [] OTHER -> Nil
glispGetD(m, xs, k, def) == LET v == glispGet(m, xs, k) IN IF v = Nil THEN def ELSE v
glispLen(v) == CASE v[1] = "vec" -> v[4]
                 [] v[1] = "strs" -> Len(v[2])
                 [] v[1] = "map" -> Cardinality(DOMAIN v[2])
                 [] v[1] = "set" -> Cardinality(v[2])
                 [] OTHER -> 0

\* Whatever is not a []any, a map, a set or a string is empty.
glispIsEmpty(v) == IF IsKind(v, {"vec", "map", "set"}) THEN glispLen(v) = 0 ELSE v[1] # "str"
glispNotEmpty(v) == IF glispIsEmpty(v) THEN Nil ELSE v

\* Sets and distinct hash their elements, and panic on a slice or a map.
Hashable(xs) == \A k \in DOMAIN xs : IsScalar(xs[k])

\* Membership is Go's ==: no int is an int64.
glispContains(v, xs, x) == CASE v[1] = "map" -> x \in DOMAIN v[2]
                             [] v[1] = "set" -> x \in v[2]
                             [] OTHER -> \E k \in DOMAIN xs : xs[k] = x
FirstWhere(f, xs) == {k \in DOMAIN xs : Holds(f, xs[k]) /\ \A j \in 1 .. k - 1 : ~Holds(f, xs[j])}
glispSome(f, xs) == IF FirstWhere(f, xs) = {} THEN Nil ELSE Ap(f, xs[CHOOSE k \in FirstWhere(f, xs) : TRUE])
glispEvery(f, xs) == \A k \in DOMAIN xs : Holds(f, xs[k])
glispNotAny(f, xs) == \A k \in DOMAIN xs : ~Holds(f, xs[k])
glispReduce(acc, xs) == FoldLeft(LAMBDA a, x : glispAdd(<<a, x>>), acc, xs)
glispReduce2(xs) == IF xs = <<>> THEN Nil ELSE glispReduce(xs[1], Tail(xs))
glispMinBy(f, xs) == IF xs = <<>> THEN Nil ELSE Best(LAMBDA a, b : glispKeyLess(Ap(f, a), Ap(f, b)), xs)
glispMaxBy(f, xs) == IF xs = <<>> THEN Nil ELSE Best(LAMBDA a, b : glispKeyLess(Ap(f, b), Ap(f, a)), xs)

\* min-key and max-key keep the first argument when the keys are int64.
KeyKinds == {"int", "float", "str"}
glispMinKey(f, xs) == Best(LAMBDA a, b : Ap(f, b)[1] \in KeyKinds /\ glispKeyLess(Ap(f, a), Ap(f, b)), xs)
glispMaxKey(f, xs) == Best(LAMBDA a, b : Ap(f, b)[1] \in KeyKinds /\ glispKeyLess(Ap(f, b), Ap(f, a)), xs)

-----------------------------------------------------------------------------
(* Sequences that look into the slice they were given. *)

glispRest(h, s) == IF s[4] = 0 THEN Made(h, <<>>) ELSE R(h, Vec(s[2], s[3] + 1, s[4] - 1))

\* How many elements pass before the first that fails.
Passing(f, xs) == Max({0} \cup {k \in DOMAIN xs : \A j \in 1 .. k : Holds(f, xs[j])})
glispTakeWhile(h, f, s) == R(h, Vec(s[2], s[3], Passing(f, Elems(h, s))))
glispDropWhile(h, f, s) ==
  LET n == Passing(f, Elems(h, s))
  IN IF n = s[4] THEN Made(h, <<>>) ELSE R(h, Vec(s[2], s[3] + n, s[4] - n))

\* conj appends to the slice itself; a map is no slice, so it becomes one.
glispConj(h, v, s, xs) ==
  IF v[1] # "set" THEN Extend(h, s, xs)
  ELSE R(h, IF Hashable(xs) THEN SetOf(v[2] \cup ToSet(xs)) ELSE Panic)

-----------------------------------------------------------------------------
(* Sequences of their own: made to measure, or appended to a nil slice. *)

glispMap(h, f, xs) == Made(h, Mapped(f, xs))
glispMapIndexed(h, xs) == Made(h, [k \in DOMAIN xs |-> glispAdd(<<GoInt64(k - 1), xs[k]>>)])
glispFilter(h, f, xs) == Appended(h, SelectSeq(xs, LAMBDA x : Holds(f, x)))
glispRemove(h, f, xs) == Appended(h, SelectSeq(xs, LAMBDA x : ~Holds(f, x)))
glispKeep(h, f, xs) == Appended(h, SelectSeq(Mapped(f, xs), LAMBDA x : x # Nil))
glispReverse(h, xs) == Made(h, Reverse(xs))
glispRange(h, lo, hi, step) ==
  LET n == IF step = 0 THEN 0 ELSE Cardinality({k \in 0 .. Abs(hi - lo) :
             IF step > 0 THEN lo + k * step < hi ELSE lo + k * step > hi})
  IN Appended(h, [k \in 1 .. n |-> GoInt(lo + (k - 1) * step)])
Clamped(n, xs) == IF n < 0 THEN 0 ELSE IF n > Len(xs) THEN Len(xs) ELSE n
TakeWindow(h, n, s) == R(h, Vec(s[2], s[3], Clamped(n, Elems(h, s))))
glispTake(h, n, s) == Made(h, SubSeq(Elems(h, s), 1, Clamped(n, Elems(h, s))))
glispDrop(h, n, xs) == Made(h, SubSeq(xs, Clamped(n, xs) + 1, Len(xs)))
glispRepeat(h, n, x) == IF n < 0 THEN R(h, Panic) ELSE Made(h, [k \in 1 .. n |-> x])
glispInterpose(h, sep, xs) ==
  Made(h, [k \in 1 .. IF xs = <<>> THEN 0 ELSE 2 * Len(xs) - 1 |->
             IF k % 2 = 1 THEN xs[(k + 1) \div 2] ELSE sep])
glispConcat(h, xss) == FoldLeft(LAMBDA c, xs : Extend(c.heap, c.val, xs), R(h, NilSlice), xss)
glispMapcat(h, f, xs) == glispConcat(h, [k \in DOMAIN xs |-> Items(h, Ap(f, xs[k]))])

\* Two slices in a new one: split-at and split-with.
Halves(h, n, xs) == LET a == Made(h, SubSeq(xs, 1, n))
                        b == Made(a.heap, SubSeq(xs, n + 1, Len(xs)))
                    IN Made(b.heap, <<a.val, b.val>>)
glispSplitAt(h, n, xs) == Halves(h, Clamped(n, xs), xs)
glispSplitWith(h, f, xs) == Halves(h, Passing(f, xs), xs)

glispInterleave(h, xs, ys) ==
  LET n == IF Len(xs) < Len(ys) THEN Len(xs) ELSE Len(ys)
  IN Made(h, [k \in 1 .. 2 * n |-> IF k % 2 = 1 THEN xs[(k + 1) \div 2] ELSE ys[k \div 2]])

\* distinct is == again.
glispDistinct(h, xs) ==
  IF Hashable(xs)
    THEN Appended(h, FoldLeft(LAMBDA acc, x : IF Contains(acc, x) THEN acc ELSE Append(acc, x), <<>>, xs))
    ELSE R(h, Panic)

\* A nil slice inside is kept as if it were no slice.
RECURSIVE Opened(_, _)
Opened(h, xs) == FlattenSeq([k \in DOMAIN xs |->
     IF IsKind(xs[k], {"vec", "strs"}) /\ xs[k] # NilSlice THEN Opened(h, Items(h, xs[k])) ELSE <<xs[k]>>])
glispFlatten(h, xs) == Appended(h, Opened(h, xs))

\* sort leaves int64 unordered, sort-by does not.
glispSort(h, xs) == Made(h, InsertionSort(LAMBDA a, b : a[1] # "int64" /\ glispKeyLess(a, b), xs))
glispSortBy(h, f, xs) == Made(h, InsertionSort(LAMBDA a, b : glispKeyLess(Ap(f, a), Ap(f, b)), xs))

\* Chunks of the given size, the incomplete one dropped; and runs of one key.
Chunked(h, xss, new(_, _)) ==
  LET all == FoldLeft(LAMBDA c, xs : LET a == new(c.heap, xs) IN R(a.heap, Append(c.val, a.val)),
                      R(h, <<>>), xss)
  IN Appended(all.heap, all.val)
glispPartition(h, n, xs) ==
  IF n <= 0 THEN Made(h, <<>>)
  ELSE Chunked(h, [k \in 1 .. Len(xs) \div n |-> SubSeq(xs, (k - 1) * n + 1, k * n)], Made)

\* fmt.Sprintf("%v", x) of a scalar: one text for every kind of number.
Text(x) == CASE IsNumber(x) -> Str(100 + x[2])
             [] x[1] = "str" -> x
             [] OTHER -> Str(200 + (IF x = Nil THEN 0 ELSE IF x = Bool(TRUE) THEN 1 ELSE 2))
Runs(f, xs) == FoldLeft(LAMBDA acc, x :
                  IF acc # <<>> /\ Text(Ap(f, acc[Len(acc)][1])) = Text(Ap(f, x))
                    THEN [acc EXCEPT ![Len(acc)] = Append(@, x)]
                    ELSE Append(acc, <<x>>), <<>>, xs)
glispPartitionBy(h, f, xs) == IF xs = <<>> THEN Made(h, <<>>) ELSE Chunked(h, Runs(f, xs), Appended)

-----------------------------------------------------------------------------
(* Maps: always a new one. *)

Entries(m) == IF m[1] = "map" THEN m[2] ELSE <<>>
With(f, k, v) == [x \in DOMAIN f \cup {k} |-> IF x = k THEN v ELSE f[x]]
glispAssoc(m, k, v) == IF k[1] = "str" THEN Map(With(Entries(m), k, v)) ELSE Panic
glispDissoc(m, k) ==
  IF k[1] = "str" THEN Map([x \in DOMAIN Entries(m) \ {k} |-> m[2][x]]) ELSE Panic
glispMerge(a, b) ==
  Map([x \in DOMAIN Entries(a) \cup DOMAIN Entries(b) |-> IF x \in DOMAIN Entries(b) THEN b[2][x] ELSE a[2][x]])
glispSelectKeys(m, xs) ==
  IF \A k \in DOMAIN xs : xs[k][1] = "str"
    THEN Map([x \in DOMAIN Entries(m) \cap ToSet(xs) |-> m[2][x]]) ELSE Panic
glispKeys(h, m) ==
  IF m[1] = "map" THEN {Made(h, ks) : ks \in SetToSeqs(DOMAIN m[2])} ELSE {R(h, NilSlice)}
glispVals(h, m) ==
  IF m[1] = "map" THEN {Made(h, [k \in DOMAIN ks |-> m[2][ks[k]]]) : ks \in SetToSeqs(DOMAIN m[2])}
                  ELSE {R(h, NilSlice)}
glispUpdate(m, xs, k, f) == glispAssoc(m, k, Ap(f, glispGet(m, xs, k)))
glispGetIn(m, k, l) == LET inner == glispGet(m, <<>>, k)
                       IN IF inner = Nil THEN Nil ELSE glispGet(inner, <<>>, l)
glispAssocIn(m, k, l, v) == glispAssoc(m, k, glispAssoc(glispGet(m, <<>>, k), l, v))
glispUpdateIn(m, k, l, f) == glispAssocIn(m, k, l, Ap(f, glispGetIn(m, k, l)))
glispMapVals(f, m) == Map([x \in DOMAIN Entries(m) |-> Ap(f, m[2][x])])
glispReduceKV(m) == {FoldLeft(LAMBDA a, k : glispAdd(<<a, m[2][k]>>), GoInt(0), ks) :
                       ks \in SetToSeqs(DOMAIN Entries(m))}

\* Two keys renamed to one: the map's order decides which value stays.
Renamed(m, to(_)) == {FoldLeft(LAMBDA f, k : With(f, to(k), m[2][k]), <<>>, ks) :
                        ks \in SetToSeqs(DOMAIN Entries(m))}
glispRenameKeys(m, from, to) == {Map(f) : f \in Renamed(m, LAMBDA k : IF k = from THEN to ELSE k)}
glispMapKeys(m, to) == {Map(f) : f \in Renamed(m, LAMBDA k : to)}

glispZipmap(ks, vs) ==
  Map(FoldLeft(LAMBDA f, k : With(f, Text(ks[k]), vs[k]), <<>>,
               [k \in 1 .. IF Len(ks) < Len(vs) THEN Len(ks) ELSE Len(vs) |-> k]))
glispFrequencies(xs) ==
  Map([t \in {Text(xs[k]) : k \in DOMAIN xs} |-> GoInt64(Cardinality({k \in DOMAIN xs : Text(xs[k]) = t}))])
\* Each group grows by append in the map.
glispGroupBy(h, f, xs) ==
  FoldLeft(LAMBDA c, x :
     LET t == Text(Ap(f, x))
         had == IF t \in DOMAIN c.val[2] THEN c.val[2][t] ELSE NilSlice
         now == Extend(c.heap, had, <<x>>)
     IN R(now.heap, Map(With(c.val[2], t, now.val))), R(h, Map(<<>>)), xs)

-----------------------------------------------------------------------------
(* Sets, and into. *)

glispToSet(v, xs) == IF v[1] = "set" THEN v ELSE IF Hashable(xs) THEN SetOf(ToSet(xs)) ELSE Panic
Members(v) == IF v[1] = "set" THEN v[2] ELSE {}
glispSetUnion(a, b) == SetOf(Members(a) \cup Members(b))
glispSetIntersection(a, b) == SetOf(Members(a) \cap Members(b))
glispSetDifference(a, b) == SetOf(Members(a) \ Members(b))

\* into a []any, a map or a set copies the target; into anything else, a
\* []string too, returns what it was given to pour.
Pairs(h, xs) == SelectSeq([k \in DOMAIN xs |-> Items(h, xs[k])], LAMBDA p : Len(p) >= 2)
IntoInPlace(h, to, s) == IF to[1] = "vec" THEN Extend(h, to, Elems(h, s)) ELSE R(h, s)
glispInto(h, to, s) ==
  LET xs == Elems(h, s)
      ps == Pairs(h, xs)
  IN CASE to[1] = "map" ->
            R(h, IF \A k \in DOMAIN ps : ps[k][1][1] = "str"
                   THEN Map(FoldLeft(LAMBDA f, p : With(f, p[1], p[2]), to[2], ps)) ELSE Panic)
       [] to[1] = "vec" -> Made(h, Elems(h, to) \o xs)
       [] to[1] = "set" -> R(h, IF Hashable(xs) THEN SetOf(to[2] \cup ToSet(xs)) ELSE Panic)
       [] OTHER -> R(h, s)

-----------------------------------------------------------------------------
(* Transducers: a stage is <<name, argument>>; it keeps a count (taken,    *)
(* seen) or a flag (dropping: 0 is still dropping) for the whole run.      *)

Out(emit, x, red, n) == [emit |-> emit, x |-> x, red |-> red, n |-> n]
StageStep(stage, n, x) ==
  LET arg == stage[2]
  IN CASE stage[1] = "map" -> Out(TRUE, Ap(arg, x), FALSE, n)
       [] stage[1] = "filter" -> Out(Holds(arg, x), x, FALSE, n)
       [] stage[1] = "remove" -> Out(~Holds(arg, x), x, FALSE, n)
       [] stage[1] = "keep" -> Out(Ap(arg, x) # Nil, Ap(arg, x), FALSE, n)
       [] stage[1] = "take" -> IF n >= arg THEN Out(FALSE, x, TRUE, n) ELSE Out(TRUE, x, n + 1 >= arg, n + 1)
       [] stage[1] = "drop" -> IF n < arg THEN Out(FALSE, x, FALSE, n + 1) ELSE Out(TRUE, x, FALSE, n)
       [] stage[1] = "take-while" -> Out(Holds(arg, x), x, ~Holds(arg, x), n)
       [] stage[1] = "drop-while" -> IF n = 0 /\ Holds(arg, x) THEN Out(FALSE, x, FALSE, 0)
                                                               ELSE Out(TRUE, x, FALSE, 1)

\* One element through the composed step functions from stage k on; and the
\* reduction, which stops at the first reduced accumulator.
RECURSIVE XfStep(_, _, _, _), XfNext(_, _, _, _), XfRun(_, _, _)
XfStep(xf, k, c, x) == IF k > Len(xf) THEN [c EXCEPT !.out = Append(@, x)]
                       ELSE XfNext(xf, k, c, StageStep(xf[k], c.ns[k], x))
XfNext(xf, k, c, o) ==
  LET d == [c EXCEPT !.ns[k] = o.n, !.red = @ \/ o.red]
  IN IF o.emit THEN XfStep(xf, k + 1, d, o.x) ELSE d
XfRun(xf, c, xs) == IF c.red \/ xs = <<>> THEN c.out ELSE XfRun(xf, XfStep(xf, 1, c, Head(xs)), Tail(xs))
glispXfReduce(xf, xs) == XfRun(xf, [out |-> <<>>, ns |-> [k \in DOMAIN xf |-> 0], red |-> FALSE], xs)
glispTransduce(xf, init, xs) == glispReduce(init, glispXfReduce(xf, xs))
glispSequence(h, xf, xs) ==
  LET out == glispXfReduce(xf, xs) IN IF out = <<>> THEN Made(h, <<>>) ELSE Appended(h, out)

\* conj, one element at a time, onto the target itself.
glispIntoXf(h, to, s, xf, xs) ==
  LET out == glispXfReduce(xf, xs)
  IN IF out = <<>> THEN R(h, to)
     ELSE IF to[1] = "set" THEN glispConj(h, to, s, out)
     ELSE FoldLeft(LAMBDA c, x : Extend(c.heap, c.val, <<x>>), R(h, s), out)
=============================================================================
