----------------------------- MODULE RuntimeMC -----------------------------
(* Small programs: what they begin with, and the arguments they pass. *)
EXTENDS Runtime

K1 == Str(1)
K2 == Str(2)
I(n) == GoInt(n)

\* What a filter left (a slot to spare), and the rest of that.
Windows == [heap |-> << <<I(1), GoInt64(5), I(4), Nil>> >>,
            env |-> <<Vec(1, 0, 3), Vec(1, 1, 2)>>]
\* A literal of strings and a set, and a set that mixes int and a uint64 of Go's.
StringsAndSets == [heap |-> <<>>,
                   env |-> <<Strs(<<2, 1>>), SetOf({I(2), I(1)})>>]
Mixed == [heap |-> <<>>, env |-> <<SetOf({I(1), GoUint64(31)})>>]
\* A map with a map and a vector in it, and pairs to pour into it.
Maps == [heap |-> << <<I(1), Nil>>, <<K1, I(3)>>, <<Vec(2, 0, 2)>> >>,
         env |-> <<Map((K1 :> Map(K2 :> I(1))) @@ (K2 :> Vec(1, 0, 1))), Vec(3, 0, 1)>>]
\* Nested: a vector, what a filter that found nothing left, and a float.
Nested == [heap |-> << <<I(1)>>, <<Vec(1, 0, 1), NilSlice, GoFloat(4)>>, <<GoFloat(2), GoFloat(0)>> >>,
           env |-> <<Vec(2, 0, 3), Vec(3, 0, 2)>>]

MCStarts == {Windows, StringsAndSets, Mixed, Maps, Nested}
MCElements == {I(1)}
MCOthers == {NaN, GoUint64(16), GoUint64(28), GoUint64(31), GoInt64(-1), GoFloat(-1)}
MCKs == {K1, K2}
MCNs == {0, 1}
MCFns == {<<"fn", "even?">>, <<"fnil", <<"fn", "inc">>, I(0)>>}
MCPreds == {<<"complement", <<"fn", "even?">>>>, <<"comp", <<"fn", "pos?">>, <<"fn", "dec">>>>}
MCXfs == {<< <<"map", <<"partial+", I(1)>> >>, <<"take", 1>> >>,
          << <<"drop-while", <<"fn", "odd?">> >>, <<"keep", <<"constantly", I(2)>> >> >>,
          << <<"take", 2>>, <<"filter", <<"fn", "even?">> >>, <<"drop", 1>> >>}
=============================================================================
