------------------------------ MODULE GoValues ------------------------------
(***************************************************************************)
(* What an `any` holds in a generated program, and the slices behind it.   *)
(* A value is <<kind>> or <<kind, content>>: nil, bool, int, int64,        *)
(* uint64, float (a whole number here, or NaN, a kind without content),    *)
(* str (a string is a number that orders as it does), strs (a []string,    *)
(* what a vector literal of strings becomes), map (string keys), set       *)
(* (map[any]struct{}) and vec, a []any.  A vec is a Go slice, so it does   *)
(* not hold its elements: <<"vec", a, off, len>> is a window on the        *)
(* backing array a of the heap, and a = 0 is the nil slice.  An array is   *)
(* the sequence of its slots; its length is its capacity.                  *)
(***************************************************************************)
EXTENDS Integers, Sequences, FiniteSets, SequencesExt

CONSTANTS IntBits,   \* the width of int and int64: 64
          MantBits   \* the integers a float64 holds exactly: 53 bits

ASSUME WidthAssumption == IntBits \in Nat /\ MantBits \in 1 .. IntBits

Nil == <<"nil">>
Panic == <<"panic">>          \* not a value: the call panicked
Bool(b) == <<"bool", b>>
GoInt(n) == <<"int", n>>
GoInt64(n) == <<"int64", n>>
GoUint64(n) == <<"uint64", n>>
GoFloat(n) == <<"float", n>>
NaN == <<"nan">>
Str(n) == <<"str", n>>
Strs(ss) == <<"strs", ss>>
Map(f) == <<"map", f>>
SetOf(s) == <<"set", s>>
Vec(a, off, len) == <<"vec", a, off, len>>
NilSlice == Vec(0, 0, 0)

IsKind(v, kinds) == v[1] \in kinds
IsInt(v) == IsKind(v, {"int", "int64"})
IsInteger(v) == IsKind(v, {"int", "int64", "uint64"})
IsNumber(v) == IsKind(v, {"int", "int64", "uint64", "float", "nan"})
IsScalar(v) == ~IsKind(v, {"strs", "map", "set", "vec"})

-----------------------------------------------------------------------------
(* The heap of backing arrays. *)

Capacity(h, a) == IF a = 0 THEN 0 ELSE Len(h[a])
Elems(h, s) == [k \in 1 .. s[4] |-> h[s[2]][s[3] + k]]

\* What a call leaves: the heap, and the value it returns.
R(h, v) == [heap |-> h, val |-> v]

Padded(xs, cap) == xs \o [k \in 1 .. cap - Len(xs) |-> Nil]
Array(h, xs, cap) == R(Append(h, Padded(xs, cap)), Vec(Len(h) + 1, 0, Len(xs)))

\* make([]any, n) filled in, or a literal: no room to spare.
Made(h, xs) == Array(h, xs, Len(xs))

\* A nil slice appended to one element at a time: 1, 2, 4, 8 ... slots.
GrownCap(n) == CHOOSE c \in {2^k : k \in 0 .. n} : c >= n /\ (n = 1 \/ c < 2 * n)
Appended(h, xs) == IF xs = <<>> THEN R(h, NilSlice) ELSE Array(h, xs, GrownCap(Len(xs)))

\* append(s, xs...): into the room the array has after s, whoever else looks
\* at it; without room, into a new array of at least twice the capacity.
Extend(h, s, xs) ==
  LET end == s[3] + s[4]
      cap == Capacity(h, s[2])
      need == s[4] + Len(xs)
      twice == 2 * (cap - s[3])
  IN IF xs = <<>> THEN R(h, s)
     ELSE IF end + Len(xs) <= cap
       THEN R([h EXCEPT ![s[2]] =
                 [k \in 1 .. cap |-> IF k \in end + 1 .. end + Len(xs) THEN xs[k - end] ELSE @[k]]],
              Vec(s[2], s[3], need))
       ELSE Array(h, Elems(h, s) \o xs, IF need > twice THEN need ELSE twice)

-----------------------------------------------------------------------------
(* Numbers.  The bits are scaled down; the rules are Go's. *)

Wrap(n) == ((n + 2^(IntBits - 1)) % 2^IntBits) - 2^(IntBits - 1)

\* float64(n): exact below 2^MantBits, else the nearest multiple of the
\* distance between two floats there, a tie to the even one.
Rounded(n) ==
  LET size == IF n < 0 THEN -n ELSE n
      step == CHOOSE u \in {2^k : k \in 0 .. 2 * IntBits} :
                /\ size < u * 2^MantBits
                /\ u = 1 \/ size >= (u \div 2) * 2^MantBits
      low == size \div step
      up == \/ 2 * (size % step) > step
            \/ 2 * (size % step) = step /\ low % 2 = 1
      r == step * (IF up THEN low + 1 ELSE low)
  IN IF n < 0 THEN -r ELSE r

\* float64(n) of every integer type's values.
FloatOf == [n \in -(2^(IntBits - 1)) .. 2^IntBits - 1 |-> Rounded(n)]

\* In what follows a float64 is the set of the number it is: NaN is empty, so
\* that it is neither less than nor equal to any.
FLess(x, y) == \E m \in x, n \in y : m < n
FEqual(x, y) == \E m \in x, n \in y : m = n
AsFloat(x) == IF x = {} THEN NaN ELSE GoFloat(CHOOSE n \in x : TRUE)

\* A number as an int64, where a large uint64 is negative, as a float64, and
\* whether it is a float: 0 otherwise.
NumVal(v) == CASE IsInteger(v) -> [i |-> Wrap(v[2]), f |-> {FloatOf[v[2]]}, isF |-> FALSE]
               [] v[1] = "float" -> [i |-> 0, f |-> {v[2]}, isF |-> TRUE]
               [] v = NaN -> [i |-> 0, f |-> {}, isF |-> TRUE]
               [] OTHER -> [i |-> 0, f |-> {0}, isF |-> FALSE]
AnyFloat(args) == \E k \in DOMAIN args : NumVal(args[k]).isF

\* first and then the rest, combined as int64 or, if one is a float, as float64.
Combined(op(_, _), first, rest, asFloat) ==
  IF asFloat
    THEN AsFloat(FoldLeft(LAMBDA s, a : {Rounded(op(x, y)) : x \in s, y \in NumVal(a).f}, first.f, rest))
    ELSE GoInt64(FoldLeft(LAMBDA s, a : Wrap(op(s, NumVal(a).i)), first.i, rest))

glispAdd(args) == Combined(LAMBDA x, y : x + y, NumVal(GoInt(0)), args, AnyFloat(args))
glispMul(args) == Combined(LAMBDA x, y : x * y, NumVal(GoInt(1)), args, AnyFloat(args))
glispSub(args) == Combined(LAMBDA x, y : x - y, NumVal(args[1]), Tail(args), AnyFloat(args))

\* The order of any two values: as float64.
CmpAsIntegers(a, b) == CASE NumVal(a).i < NumVal(b).i -> -1
                         [] NumVal(a).i > NumVal(b).i -> 1
                         [] OTHER -> 0
glispNumCmp(a, b) == CASE FLess(NumVal(a).f, NumVal(b).f) -> -1
                       [] FLess(NumVal(b).f, NumVal(a).f) -> 1
                       [] OTHER -> 0
glispLt(a, b) == glispNumCmp(a, b) < 0
glispGt(a, b) == glispNumCmp(a, b) > 0

\* Equality of two scalars: two integers as int64, a pair with a float as
\* float64, anything else by kind and content.
glispEquals(a, b) ==
  IF IsNumber(a) /\ IsNumber(b)
    THEN IF AnyFloat(<<a, b>>) THEN FEqual(NumVal(a).f, NumVal(b).f) ELSE NumVal(a).i = NumVal(b).i
    ELSE a = b

\* Neither knows a uint64.
glispToInt(v) == IF IsKind(v, {"int", "int64", "float"}) THEN v[2] ELSE 0
glispToFloat64(v) == IF v[1] = "uint64" THEN {0} ELSE NumVal(v).f
glispTruthy(v) == v # Nil /\ v # Bool(FALSE)

Abs(n) == IF n < 0 THEN -n ELSE n

\* A key is less than a key of its own kind only, and a uint64 than none.
glispKeyLess(a, b) == a[1] = b[1] /\ IsKind(a, {"int", "int64", "float", "str"}) /\ a[2] < b[2]

Best(better(_, _), args) == FoldLeft(LAMBDA b, a : IF better(a, b) THEN a ELSE b, args[1], Tail(args))
glispMax(args) == Best(LAMBDA a, b : FLess(glispToFloat64(b), glispToFloat64(a)), args)
glispMin(args) == Best(LAMBDA a, b : FLess(glispToFloat64(a), glispToFloat64(b)), args)
=============================================================================
