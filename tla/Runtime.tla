------------------------------ MODULE Runtime ------------------------------
(***************************************************************************)
(* A straight-line program over the collection built-ins.  Each call binds *)
(* one more name; nothing is ever rebound.  The bindings are Go values, so *)
(* two of them may be windows on one backing array, and the promise that   *)
(* no call changes an earlier binding (Persistent) is one the helpers keep *)
(* by copying, or by handing out windows that nobody writes to: except     *)
(* conj, which appends in place when the array has room.                   *)
(*                                                                         *)
(* Bounds: MaxCalls calls after a start, the start and the arguments given *)
(* by the configuration.                                                   *)
(***************************************************************************)
EXTENDS Builtins

CONSTANTS Starts,     \* heaps and bindings a program may begin with
          Elements,   \* scalars passed as arguments
          Ks,         \* string keys
          Ns,         \* counts
          Fns, Preds, \* functions and predicates passed
          Xfs,        \* transducers: sequences of stages
          Others,     \* numbers an imported Go function may return, to compare with
          MaxCalls

VARIABLES heap,   \* the backing arrays
          env,    \* the bound values, in order
          prog,   \* the calls made
          ended,  \* why the program is followed no further, or "no"
          kept    \* what the bindings were before the call that ended it

vars == <<heap, env, prog, ended, kept>>

-----------------------------------------------------------------------------
(* A binding as a mathematical value, and the slices it is made of. *)

RECURSIVE View(_)
View(v) == CASE v[1] = "vec" -> <<"vec", [k \in 1 .. v[4] |-> View(heap[v[2]][v[3] + k])]>>
             [] v[1] = "strs" -> <<"vec", [k \in DOMAIN v[2] |-> Str(v[2][k])]>>
             [] v[1] = "map" -> Map([x \in DOMAIN v[2] |-> View(v[2][x])])
             [] OTHER -> v
Views == [i \in DOMAIN env |-> View(env[i])]

Inner(v) == CASE v[1] = "vec" -> ToSet(Elems(heap, v))
              [] v[1] = "map" -> {v[2][x] : x \in DOMAIN v[2]}
              [] OTHER -> {}
RECURSIVE Below(_)
Below(vs) == LET in == UNION {Inner(v) : v \in vs} IN IF in \subseteq vs THEN vs ELSE Below(vs \cup in)
Reached == {v \in Below(ToSet(env)) : v[1] = "vec"}
Seen(a, k) == \E s \in Reached : s[2] = a /\ k \in s[3] + 1 .. s[3] + s[4]

-----------------------------------------------------------------------------
(* Where the helpers depart from Persistent. *)

\* Appending n elements writes a slot that some binding looks at.
Overwrites(s, n) == \E k \in s[3] + s[4] + 1 .. s[3] + s[4] + n : k <= Capacity(heap, s[2]) /\ Seen(s[2], k)
Forks(c) == LET s == env[c[2]] IN s[1] = "vec" /\
  \/ c[1] = "conj" /\ s[3] + s[4] < Capacity(heap, s[2]) /\ Overwrites(s, 1)
  \/ c[1] = "into-xf" /\ \E r \in glispToSlice(heap, env[c[3]]) :
                            Overwrites(s, Len(glispXfReduce(c[4], Elems(r.heap, r.val))))

\* empty? and into do not know a []string; conj and the three-argument into
\* make a slice of a map; flatten keeps a nil slice; sort, min-key and
\* max-key do not order int64.
Departs(c) ==
  LET v == env[c[2]]
      xs == Items(heap, v)
  IN \/ c[1] \in {"empty?", "not-empty", "into"} /\ v[1] = "strs"
     \/ c[1] \in {"conj", "into-xf"} /\ v[1] = "map"
     \/ c[1] = "flatten" /\ NilSlice \in {v} \cup ToSet(Opened(heap, xs))
     \/ c[1] \in {"sort", "min-key", "max-key"} /\ \E x \in ToSet(xs) : x[1] = "int64"
     \/ c[1] \in {"min-key", "max-key"} /\ \E x \in ToSet(xs) : Ap(c[3], x)[1] = "int64"

-----------------------------------------------------------------------------
Init == /\ \E s \in Starts : heap = s.heap /\ env = s.env
        /\ prog = <<>>
        /\ ended = "no"
        /\ kept = <<>>

\* One call: what it returns is bound, unless it panicked; and why the program
\* is followed no further, if so.
Does(name, i, a, b, r) ==
  /\ prog' = Append(prog, <<name, i, a, b>>)
  /\ heap' = r.heap
  /\ env' = IF r.val = Panic THEN env ELSE Append(env, r.val)
Why(c) == CASE env' = env -> "panic" [] Forks(c) -> "forked" [] Departs(c) -> "departed" [] OTHER -> "no"
Judged == /\ ended' = Why(Last(prog'))
          /\ kept' = IF ended' = "no" THEN <<>> ELSE Views

\* A call that bound a scalar is the last one followed: what comes after it
\* is what could have come without it.
Running == ended = "no" /\ Len(prog) < MaxCalls /\ ~IsScalar(Last(env))
Colls == {i \in DOMAIN env : ~IsScalar(env[i])}
\* From the second call on, what a call is about is what the last one bound; a
\* call that appends in place may go back to any binding.
Latest == IF prog = <<>> THEN Colls ELSE {Len(env)}
Val(v) == R(heap, v)
Flat(xs) == \A k \in DOMAIN xs : IsScalar(xs[k])

\* emitGet to emitMerge: one handler per form.
CoreCall ==
  /\ Running
  /\ \E i \in Latest : \E r \in glispToSlice(heap, env[i]) :
     LET v == env[i]
         h == r.heap
         s == r.val
         xs == Elems(h, s)
     IN \/ \E k \in Ks \cup Elements : Does("get", i, k, Nil, R(h, glispGet(v, xs, k)))
        \/ \E k \in Ks, x \in Elements : Does("assoc", i, k, x, Val(glispAssoc(v, k, x)))
        \/ \E k \in Ks, x \in Elements : Does("get-or", i, k, x, Val(glispGetD(v, <<>>, k, x)))
        \/ \E k \in Ks : Does("dissoc", i, k, Nil, Val(glispDissoc(v, k)))
        \/ Does("count", i, Nil, Nil, Val(GoInt(glispLen(v))))
        \/ Does("first", i, Nil, Nil, R(h, glispFirst(xs)))
        \/ Does("rest", i, Nil, Nil, glispRest(h, s))
        \/ \E n \in Ns : n < Len(xs) /\ Does("nth", i, n, Nil, R(h, glispNth(xs, GoInt(n))))
        \/ \E ks \in glispKeys(heap, v) : Does("keys", i, Nil, Nil, ks)
        \/ \E ks \in glispVals(heap, v) : Does("vals", i, Nil, Nil, ks)
        \/ \E j \in Colls : Does("merge", i, j, Nil, Val(glispMerge(v, env[j])))
  /\ Judged

\* The collection operations of emitCallExpr, map to drop.
SeqCall ==
  /\ Running
  /\ \E i \in Latest : \E r \in glispToSlice(heap, env[i]) :
     LET v == env[i]
         h == r.heap
         xs == Elems(h, r.val)
     IN \/ \E f \in Fns : \/ Does("map", i, f, Nil, glispMap(h, f, xs))
                          \/ Does("sort-by", i, f, Nil, glispSortBy(h, f, xs))
        \/ Does("map-indexed", i, Nil, Nil, glispMapIndexed(h, xs))
        \/ \E p \in Preds : \/ Does("filter", i, p, Nil, glispFilter(h, p, xs))
                            \/ Does("some", i, p, Nil, R(h, glispSome(p, xs)))
                            \/ Does("every?", i, p, Nil, R(h, Bool(glispEvery(p, xs))))
        \/ \E x \in Elements : \/ Does("reduce", i, x, Nil, R(h, glispReduce(x, xs)))
                               \/ Does("contains?", i, x, Nil, R(h, Bool(glispContains(v, xs, x))))
        \/ Does("reduce2", i, Nil, Nil, R(h, glispReduce2(xs)))
        \/ \E xf \in Xfs : \/ Does("transduce", i, xf, Nil, R(h, glispTransduce(xf, GoInt(0), xs)))
                           \/ Does("sequence", i, xf, Nil, glispSequence(h, xf, xs))
        \/ Does("reverse", i, Nil, Nil, glispReverse(h, xs))
        \/ Does("flatten", i, Nil, Nil, glispFlatten(h, xs))
        \/ \E n \in Ns : \/ Does("take", i, n, Nil, glispTake(h, n, r.val))
                         \/ Does("drop", i, n, Nil, glispDrop(h, n, xs))
  /\ Judged

\* Data transformation, second to partition-by.
DataCall ==
  /\ Running
  /\ \E i \in Latest : \E r \in glispToSlice(heap, env[i]) :
     LET v == env[i]
         h == r.heap
         s == r.val
         xs == Elems(h, s)
     IN \/ xs # <<>> /\ \E op \in Ops : Does("apply", i, op, Nil, R(h, OpValue(op, xs)))
        \/ Does("second", i, Nil, Nil, R(h, glispSecond(xs)))
        \/ Does("last", i, Nil, Nil, R(h, glispLast(xs)))
        \/ Does("empty?", i, Nil, Nil, Val(Bool(glispIsEmpty(v))))
        \/ Does("not-empty", i, Nil, Nil, Val(glispNotEmpty(v)))
        \/ \E k, l \in Ks : k # l /\
                            \/ Does("get-in", i, k, l, Val(glispGetIn(v, k, l)))
                            \/ \E m \in glispRenameKeys(v, k, l) : Does("rename-keys", i, k, l, Val(m))
                            \/ Does("assoc-in", i, k, l, Val(glispAssocIn(v, k, l, l)))
        \/ \E k \in Ks, f \in Fns : \/ Does("update", i, k, f, Val(glispUpdate(v, xs, k, f)))
                                   \/ \E l \in Ks \ {k} : Does("update-in", i, <<k, l>>, f, Val(glispUpdateIn(v, k, l, f)))
        \/ \E k \in Ks : \E m \in glispMapKeys(v, k) : Does("map-keys", i, k, Nil, Val(m))
        \/ Flat(xs) /\ \/ \E f \in Fns : \/ Does("group-by", i, f, Nil, glispGroupBy(h, f, xs))
                                         \/ Does("partition-by", i, f, Nil, glispPartitionBy(h, f, xs))
                       \/ Does("frequencies", i, Nil, Nil, Val(glispFrequencies(xs)))
        \/ \E p \in Preds : \/ Does("take-while", i, p, Nil, glispTakeWhile(h, p, s))
                            \/ Does("drop-while", i, p, Nil, glispDropWhile(h, p, s))
        \/ \E n \in Ns : Does("partition", i, n + 1, Nil, glispPartition(h, n + 1, xs))
        \/ Does("mapcat", i, Id, Nil, glispMapcat(h, Id, xs))
        \/ \E j \in Colls : \E q \in glispToSlice(h, env[j]) :
             LET ys == Elems(q.heap, q.val)
             IN \/ Does("select-keys", i, j, Nil, Val(glispSelectKeys(v, ys)))
                \/ Does("into", i, j, Nil, glispInto(q.heap, v, q.val))
                \/ Does("concat", i, j, Nil, glispConcat(q.heap, <<xs, ys>>))
                \/ Flat(xs) /\ Does("zipmap", i, j, Nil, Val(glispZipmap(xs, ys)))
  /\ Judged

\* Sequence conveniences to set algebra, distinct to difference.
MoreCall ==
  /\ Running
  /\ \E i \in Latest : \E r \in glispToSlice(heap, env[i]) :
     LET v == env[i]
         h == r.heap
         xs == Elems(h, r.val)
     IN \/ Does("distinct", i, Nil, Nil, glispDistinct(h, xs))
        \/ \E p \in Preds : \/ Does("remove", i, p, Nil, glispRemove(h, p, xs))
                            \/ Does("split-with", i, p, Nil, glispSplitWith(h, p, xs))
                            \/ Does("not-any?", i, p, Nil, R(h, Bool(glispNotAny(p, xs))))
        \/ \E f \in Fns : \/ Does("keep", i, f, Nil, glispKeep(h, f, xs))
                          \/ Does("min-by", i, f, Nil, R(h, glispMinBy(f, xs)))
                          \/ Does("max-by", i, f, Nil, R(h, glispMaxBy(f, xs)))
                          \/ xs # <<>> /\ \/ Does("min-key", i, f, Nil, R(h, glispMinKey(f, xs)))
                                          \/ Does("max-key", i, f, Nil, R(h, glispMaxKey(f, xs)))
                          \/ Does("map-vals", i, f, Nil, Val(glispMapVals(f, v)))
        \/ \E n \in Ns : Does("split-at", i, n, Nil, glispSplitAt(h, n, xs))
        \/ Does("sort", i, Nil, Nil, glispSort(h, xs))
        \/ Does("set", i, Nil, Nil, Val(glispToSet(v, xs)))
        \/ \E t \in glispReduceKV(v) : Does("reduce-kv", i, Nil, Nil, Val(t))
        \/ \E x \in Elements : Does("interpose", i, x, Nil, glispInterpose(h, x, xs))
        \/ \E j \in Colls : \/ Does("union", i, j, Nil, Val(glispSetUnion(v, env[j])))
                            \/ Does("intersection", i, j, Nil, Val(glispSetIntersection(v, env[j])))
                            \/ Does("difference", i, j, Nil, Val(glispSetDifference(v, env[j])))
                            \/ \E q \in glispToSlice(h, env[j]) :
                                 Does("interleave", i, j, Nil, glispInterleave(q.heap, xs, Elems(q.heap, q.val)))
  /\ Judged

\* conj, and into with a transducer: append to the collection itself.
GrowCall ==
  /\ Running
  /\ \E i \in Colls : \E r \in glispToSlice(heap, env[i]) :
     \/ \E x \in Elements : Does("conj", i, x, Nil, glispConj(r.heap, env[i], r.val, <<x>>))
     \/ \E j \in Colls, xf \in Xfs : \E q \in glispToSlice(r.heap, env[j]) :
          Does("into-xf", i, j, xf, glispIntoXf(q.heap, env[i], r.val, xf, Elems(q.heap, q.val)))
  /\ Judged

\* Calls about no collection.
MakeCall ==
  /\ Running
  /\ LET i == Len(env) IN
     \/ \E lo, hi \in Ns : Does("range", i, lo, hi, glispRange(heap, lo, hi, 1))
     \/ \E n \in Ns, x \in Elements : Does("repeat", i, n, x, glispRepeat(heap, n, x))
     \/ \E f, g \in Fns, x \in Elements : Does("juxt", i, <<f, g>>, x, Juxt(heap, f, g, x))
  /\ Judged

Next == CoreCall \/ SeqCall \/ DataCall \/ MoreCall \/ GrowCall \/ MakeCall
Spec == Init /\ [][Next]_vars

-----------------------------------------------------------------------------
(* Properties *)

\* Every slice a binding is made of lies within its backing array, and the
\* nil slice has no array.
TypeOK == /\ \A s \in Reached : s[2] \in 0 .. Len(heap) /\ s[3] + s[4] <= Capacity(heap, s[2])
          /\ Len(prog) <= MaxCalls
          /\ ended \in {"no", "panic", "forked", "departed"}

\* The helpers implement persistent collections: every call binds a value its
\* reference meaning allows and leaves every earlier binding as it was.  The
\* mapping forgets a call that departs, forks a slice or panics.
P == INSTANCE Persistent WITH
       vals <- IF ended = "no" THEN Views ELSE kept,
       prog <- IF ended = "no" THEN prog ELSE Front(prog)
Persists == P!Spec

\* A binding is overwritten only in a program that appended twice, or that
\* appended to what take-while left: one conj alone is always safe, whatever
\* windows rest, drop-while and into hand out.
Grows(c) == c[1] \in {"conj", "into-xf"}
ForkNeedsTwo ==
  ended = "forked" => \/ Cardinality({k \in DOMAIN prog : Grows(prog[k])}) >= 2
                      \/ \E k \in DOMAIN prog : prog[k][1] = "take-while"

\* The order of two numbers that a program compares: less and greater are
\* never reported the wrong way round, and exactly one of less, equal and
\* greater is, but for three kinds of pairs.  NaN is none of the three with
\* anything, two integers that round to one float are none of them, and a
\* uint64 that is another integer's bits is equal to it besides.
Numbers == {x \in ToSet(env) \cup UNION {ToSet(heap[a]) : a \in DOMAIN heap} : IsNumber(x)}
Differ(a, b) == IsInteger(a) /\ IsInteger(b) /\ a[2] # b[2]
NumbersOrdered ==
  \A a \in Numbers, b \in Numbers \cup Others :
    LET holds == {r \in {"lt", "eq", "gt"} : \/ r = "lt" /\ glispLt(a, b)
                                             \/ r = "eq" /\ glispEquals(a, b)
                                             \/ r = "gt" /\ glispGt(a, b)}
    IN /\ Cardinality(holds) = IF NaN \in {a, b} THEN 0
                               ELSE IF Differ(a, b) /\ FloatOf[a[2]] = FloatOf[b[2]] THEN 0
                               ELSE IF Differ(a, b) /\ Wrap(a[2]) = Wrap(b[2]) THEN 2 ELSE 1
       /\ "lt" \in holds => a[2] < b[2]
       /\ "gt" \in holds => a[2] > b[2]
=============================================================================
