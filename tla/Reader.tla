------------------------------- MODULE Reader -------------------------------
(***************************************************************************)
(* The parser (internal/parser/parser.go) over token classes.  A recursive *)
(* descent is a stack of goals: what is still to be read, next one first.  *)
(* Each parseX is the list of goals it goes through after its head.        *)
(*                                                                         *)
(* One file is read twice: by the transpiler, which leaves the comment     *)
(* tokens in the stream, and by the formatter, which takes them out first. *)
(* The result is the sequence of the tokens read, each with the goal that  *)
(* read it: two readings with one result built the same syntax tree.       *)
(*                                                                         *)
(* A token is <<class, text>>; a comment is ";" and a doc comment ";;;".   *)
(* Bounds: the files are those of the configuration.                       *)
(***************************************************************************)
EXTENDS Integers, FiniteSets, SequencesExt

CONSTANT Files   \* sequences of tokens

VARIABLES build,   \* the transpiler's parser
          format   \* the formatter's parser

vars == <<build, format>>

EOF == <<"eof", "">>
Openers == {"(", "[", "{", "#{"}
Closers == {")", "]", "}"}
Comments == {";", ";;;"}
Literals == {"lit", "str", "kw"}

Classes == Openers \cup Closers \cup Comments \cup Literals \cup {"sym", "quote"}
AllTokens == Classes \X STRING
ASSUME FilesAssumption == Files \subseteq Seq(AllTokens)

\* Symbols that name a type, and those that are forms by their spelling.
TypeNames == {"int", "string", "map", "Circle"}
MethodHeads == {".m"}
FieldHeads == {".-f"}
StructHeads == {"T."}
DidYouMean == {"lambda"}

-----------------------------------------------------------------------------
(* Goals *)

E == <<"expr">>
Sym == <<"sym">>
Kw == <<"kw">>
Type == <<"type">>
Want(class) == <<"want", class>>
Close == Want(")")
\* The goals again and again until the closer; skipping comments before each look.
Until(closer, goals) == <<"until", closer, goals, FALSE>>
SkipUntil(closer, goals) == <<"until", closer, goals, TRUE>>
Opt(goals) == <<"opt", goals>>          \* unless a ")" comes
OptType == <<"opt-type">>               \* isTypeExprStart
BindType == <<"bind-type">>             \* isBindingTypeStart
Arrow == <<"arrow">>                    \* -> type
Doc == <<"doc">>                        \* takes the pending doc comment

BodyUnskipped == Until(")", <<E>>)
Body == SkipUntil(")", <<E>>)
SomeBody == <<"some", ")", Body>>
Exprs == Until(")", <<E>>)
Params == <<"params">>
Pattern == <<"pattern">>
Channel == <<Want("["), Sym, E, Want("]")>>

ParseNS == <<Sym, Until(")", << <<"clause">> >>), Close>>
ParseDef == <<Sym, <<"def-type">>, E, Close>>
ParseDefn == <<Sym, Params, Arrow, Body, Close, Doc>>
ParseDefmacro == <<Sym, Params, Body, Close, Doc>>
ParseDeftype == <<Sym, Type, Close>>
ParseDefstruct == <<Sym, Until(")", <<Sym, OptType, <<"tag">> >>), Close>>
ParseDefinterface == <<Sym, Until(")", <<Want("("), Sym, Params, Arrow, Close>>), Close>>
ParseDefmethod == <<Type, Sym, <<"receiver">>, Arrow, Body, Close, Doc>>
ParseFn == <<Params, Arrow, Body, Close>>
ParseLet == <<Want("["), SkipUntil("]", << <<"let-name">>, E>>), Want("]"), Body, Close>>
ParseIf == <<E, E, Opt(<<E>>), Close>>
ParseWhen == <<E, Body, Close>>
ParseCond == <<Until(")", <<E, E>>), Close>>
ParseSwitch == <<E, Until(")", <<E, E>>), Close>>
ParseCase == <<E, <<"cases", TRUE>>, Close>>
ParseDo == <<Body, Close>>
ParseGo == <<Body, Close>>
ParseDefer == <<E, Close>>
ParseChan == <<Type, Opt(<<E>>), Close>>
ParseSend == <<E, E, Close>>
ParseRecv == <<E, Close>>
ParseClose == <<E, Close>>
ParseGoVal == <<BindType, Body, Close>>
ParsePar == <<Exprs, Close>>
ParseRecvOk == <<E, Close>>
ParseForChan == Channel \o <<Body, Close>>
ParseWithLock == <<E, Body, Close>>
ParseWithOpen == <<Want("["), <<"some", "]", SkipUntil("]", <<Sym, BindType, E>>)>>, Want("]"), Body, Close>>
ParsePipeline == Channel \o <<Exprs, Close>>
ParseFanOut == <<E>> \o Channel \o <<Body, Close>>
ParseFanIn == <<Exprs, Close>>
ParseSelect == <<Until(")", <<Want("("), <<"select-case">>, Close>>), Close>>
ParseLoop == <<Want("["), SkipUntil("]", <<Sym, BindType, E>>), Want("]"), Body, Close>>
ParseRecur == <<Body, Close>>
ParseReturn == <<Body, Close>>
ParseValues == <<Body, Close>>
ParseIfErr == <<Want("["), Sym, Sym, Want("]"), E, E, E, Close>>
ParseTry == << <<"try", FALSE, FALSE, FALSE>> >>
ParseIfLet == <<Want("["), Pattern, E, Want("]"), E, Opt(<<E>>), Close>>
ParseLetOr == <<Want("["), SkipUntil("]", <<Sym, E, E>>), Want("]"), Body, Close>>
ParseWhenLet == <<Want("["), Pattern, E, Want("]"), Body, Close>>
ParseTypeAssert == <<Type, E, Close>>
ParseAtom == <<BindType, E, Close>>
ParseDoto == <<E, Until(")", << <<"doto-step">> >>), Close>>
ParseDefTest == <<Sym, Body, Close>>
ParseMethodCall == <<E, Body, Close>>
ParseFieldAccess == <<E, Close>>
ParseStructLit == << <<"fields">>, Close>>
ParseCall == <<E, Body, Close>>

\* The names parseList knows, each with what it parses behind it.
Forms ==
  {<<"ns", ParseNS>>, <<"def", ParseDef>>, <<"defn", ParseDefn>>, <<"defmacro", ParseDefmacro>>,
   <<"deftype", ParseDeftype>>, <<"defstruct", ParseDefstruct>>, <<"definterface", ParseDefinterface>>,
   <<"defmethod", ParseDefmethod>>, <<"fn", ParseFn>>, <<"let", ParseLet>>, <<"if", ParseIf>>,
   <<"when", ParseWhen>>, <<"cond", ParseCond>>, <<"do", ParseDo>>, <<"go", ParseGo>>,
   <<"go-val", ParseGoVal>>, <<"par", ParsePar>>, <<"defer", ParseDefer>>, <<"chan", ParseChan>>,
   <<"send!", ParseSend>>, <<"recv!", ParseRecv>>, <<"recv-ok!", ParseRecvOk>>, <<"close!", ParseClose>>,
   <<"select!", ParseSelect>>, <<"for-chan", ParseForChan>>, <<"with-lock", ParseWithLock>>,
   <<"with-open", ParseWithOpen>>, <<"doto", ParseDoto>>, <<"pipeline", ParsePipeline>>,
   <<"fan-out", ParseFanOut>>, <<"fan-in", ParseFanIn>>, <<"loop", ParseLoop>>, <<"recur", ParseRecur>>,
   <<"return", ParseReturn>>, <<"values", ParseValues>>, <<"if-err", ParseIfErr>>, <<"try", ParseTry>>,
   <<"if-let", ParseIfLet>>, <<"when-let", ParseWhenLet>>, <<"let-or", ParseLetOr>>, <<"switch", ParseSwitch>>,
   <<"case", ParseCase>>, <<"as", ParseTypeAssert>>, <<"atom", ParseAtom>>, <<"deftest", ParseDefTest>>}
FormNames == {f[1] : f \in Forms}
ParseForm(name) == (CHOOSE f \in Forms : f[1] = name)[2]

-----------------------------------------------------------------------------
(* The parser's state, and looking at it *)

NewParser(toks) ==
  [toks |-> toks,
   pos |-> 1,
   goals |-> <<>>,
   open |-> <<>>,       \* openStack: the positions of the delimiters it takes for unclosed
   pending |-> <<>>,    \* pendingDoc: positions of doc comments
   docs |-> {},         \* doc comments that became the Doc of a definition
   orphans |-> {},      \* doc comments handed to the formatter as comments
   tree |-> <<>>,       \* what was read, and as what
   end |-> <<"no">>]

PeekAt(p, n) == IF p.pos + n <= Len(p.toks) THEN p.toks[p.pos + n] ELSE EOF
Peek(p) == PeekAt(p, 0)
Sees(p, classes) == Peek(p)[1] \in classes
SeesSym(p, names) == Peek(p)[1] = "sym" /\ Peek(p)[2] \in names
NextIsSym(p, names) == Sees(p, {"("}) /\ PeekAt(p, 1)[1] = "sym" /\ PeekAt(p, 1)[2] \in names

IsTypeExprStart(p) == Sees(p, {"[", "("}) \/ SeesSym(p, TypeNames)
IsBindingTypeStart(p) ==
  \/ SeesSym(p, TypeNames)
  \/ /\ Sees(p, {"["}) /\ PeekAt(p, 1)[1] = "]"
     /\ \/ PeekAt(p, 2)[1] = "["
        \/ PeekAt(p, 2)[1] = "sym" /\ PeekAt(p, 2)[2] \in TypeNames

\* Moving on: the current goal is replaced by others, with or without a token.
Then(p, goals) == [p EXCEPT !.goals = goals \o Tail(@)]
AdvanceUncounted(p) ==
  [p EXCEPT !.pos = @ + 1,
            !.open = IF Sees(p, Openers) THEN Append(@, p.pos) ELSE @,
            !.tree = Append(@, <<Head(p.goals)[1], Peek(p)>>)]
Advance(p) ==
  [p EXCEPT !.pos = @ + 1,
            !.open = IF Sees(p, Openers) THEN Append(@, p.pos)
                     ELSE IF Sees(p, Closers) /\ @ # <<>> THEN Front(@) ELSE @,
            !.tree = Append(@, <<Head(p.goals)[1], Peek(p)>>)]
Read(p, goals) == Then(Advance(p), goals)
SkipComment(p) == [p EXCEPT !.pos = @ + 1]

\* An error ends the parse, unless parseDef is trying for a type: it goes back
\* to where the type began, and leaves openStack as it is.  Where the file ends
\* and a token or an expression is missing, the error names a delimiter.
GoBack(p, k) == [p EXCEPT !.pos = p.goals[k][2], !.tree = SubSeq(@, 1, p.goals[k][3]),
                          !.goals = SubSeq(@, k + 1, Len(@))]
EndWith(p, why) ==
  LET trying == {k \in DOMAIN p.goals : p.goals[k][1] = "tried"}
  IN IF trying # {} THEN GoBack(p, CHOOSE k \in trying : TRUE) ELSE [p EXCEPT !.end = why]
Fail(p) == EndWith(p, <<"syntax">>)
Missing(p) == EndWith(p, IF Peek(p) = EOF /\ p.open # <<>> THEN <<"unclosed", p.open[1]>> ELSE <<"syntax">>)
ExpectAnyCloser(p, fits) == IF fits \/ Sees(p, Closers) THEN Read(p, <<>>) ELSE Missing(p)
Expect(p, fits) == IF fits THEN Read(p, <<>>) ELSE Missing(p)

-----------------------------------------------------------------------------
(* One goal *)

ParseList(p) ==
  CASE Sees(p, {")"}) -> Read(p, <<>>)
    [] SeesSym(p, FormNames) -> Read(p, ParseForm(Peek(p)[2]))
    [] SeesSym(p, DidYouMean) -> Fail(p)
    [] SeesSym(p, MethodHeads) -> Read(p, ParseMethodCall)
    [] SeesSym(p, FieldHeads) -> Read(p, ParseFieldAccess)
    [] SeesSym(p, StructHeads) -> Read(p, ParseStructLit)
    [] OTHER -> Then(p, ParseCall)

ParseVector == <<Until("]", <<E>>), Want("]")>>
ParseMap == <<Until("}", <<E, <<"map-value">> >>), Want("}")>>
ParseSet == <<Until("}", <<E>>), Want("}")>>

ParseExpr(p) ==
  CASE Sees(p, {"("}) -> Read(p, << <<"list">> >>)
    [] Sees(p, {"["}) -> Read(p, ParseVector)
    [] Sees(p, {"{"}) -> Read(p, ParseMap)
    [] Sees(p, {"#{"}) -> Read(p, ParseSet)
    [] Sees(p, {"quote"}) -> Read(p, <<E>>)
    [] Sees(p, Literals \cup {"sym"}) -> Read(p, <<>>)
    [] Sees(p, Comments) -> SkipComment(p)
    [] OTHER -> Missing(p)

\* [T, [T U], (chan T), (Atom T), map[K]V or a name.
ParseTypeExpr(p) ==
  CASE Sees(p, {"["}) -> Read(p, << <<"slice">> >>)
    [] Sees(p, {"("}) -> Read(p, << <<"chan">>, Type, Close>>)
    [] SeesSym(p, {"map"}) /\ PeekAt(p, 1)[1] = "[" -> Read(p, <<Want("["), Type, Want("]"), Type>>)
    [] Sees(p, {"sym"}) -> Read(p, <<>>)
    [] OTHER -> Fail(p)

ParseParam(p) ==
  CASE Sees(p, {"[", "{"}) -> Then(p, <<E>>)
    [] SeesSym(p, {"&"}) -> Read(p, <<Sym, OptType>>)
    [] Sees(p, {"sym"}) -> Read(p, <<OptType>>)
    [] OTHER -> Fail(p)

\* The vectors of a clause of ns; free: an :as may follow.
ParseSpec(p, free) ==
  CASE Sees(p, {"]"}) \/ Peek(p) = EOF -> Then(p, <<>>)
    [] Sees(p, {"["}) -> Read(p, <<Sym, <<"as">>, Want("]"), <<"spec", PeekAt(p, 2) # <<"kw", "as">> >> >>)
    [] Peek(p) = <<"kw", "as">> -> IF free THEN Read(p, <<Sym, <<"spec", FALSE>> >>) ELSE Fail(p)
    [] Sees(p, {"sym"}) -> Read(p, << <<"spec", TRUE>> >>)
    [] OTHER -> Fail(p)

ParseSelectCase(p) ==
  CASE Peek(p) = <<"kw", "default">> -> Read(p, <<Body>>)
    [] Peek(p) = <<"kw", "timeout">> -> Read(p, <<E, Body>>)
    [] OTHER -> Then(p, <<Want("["), <<"select-op">>, Want("]"), Body>>)

\* The closing parenthesis of try checks what came before it.
ParseTryRest(p, body, caught, ended) ==
  CASE Sees(p, Comments) -> SkipComment(p)
    [] NextIsSym(p, {"catch"}) ->
         IF caught \/ ended THEN Fail(p)
         ELSE Then(p, <<Want("("), Sym, <<"binding">>, SomeBody, Close, <<"try", body, TRUE, ended>> >>)
    [] NextIsSym(p, {"finally"}) ->
         IF ended THEN Fail(p) ELSE Then(p, <<Want("("), Sym, SomeBody, Close, <<"try", body, caught, TRUE>> >>)
    [] Sees(p, {")"}) -> Expect(p, body /\ (caught \/ ended))
    [] OTHER -> IF caught \/ ended THEN Missing(p) ELSE Then(p, <<E, <<"try", TRUE, FALSE, FALSE>> >>)

\* A block of doc comments with some text in it goes where dest says.
Keep(p, dest) ==
  IF \E k \in ToSet(p.pending) : p.toks[k][2] # ""
  THEN [Then(p, <<>>) EXCEPT ![dest] = @ \cup ToSet(p.pending), !.pending = <<>>]
  ELSE Then(p, <<>>)

\* One token, and sometimes what it is the head of.
Single == {"sym", "kw", "want", "chan", "clause-name", "send!", "binding", "tag"}
ParseToken(p, g) ==
  CASE g[1] = "sym" -> Expect(p, Sees(p, {"sym"}))
    [] g[1] = "kw" -> Expect(p, Sees(p, {"kw"}))
    [] g[1] = "want" -> Expect(p, Sees(p, {g[2]}))
    [] g[1] = "chan" -> Expect(p, SeesSym(p, {"chan", "Atom"}))
    [] g[1] = "clause-name" -> Expect(p, Peek(p) \in {<<"kw", "import">>, <<"kw", "require">>})
    [] g[1] = "send!" -> IF SeesSym(p, {"send!"}) THEN Read(p, <<>>) ELSE Fail(p)
    [] g[1] = "binding" -> IF Sees(p, {"sym"}) THEN Read(p, <<>>) ELSE Fail(p)
    [] g[1] = "tag" -> IF Sees(p, {"str"}) THEN Read(p, <<>>) ELSE Then(p, <<>>)

\* What comes any number of times, or not at all.
Repeats == {"until", "some", "opt", "specs", "cases", "case-body"}
ParseRepeat(p, g) ==
  CASE g[1] = "until" -> IF g[4] /\ Sees(p, Comments) THEN SkipComment(p)
                         ELSE Then(p, IF Sees(p, {g[2]}) \/ Peek(p) = EOF THEN <<>> ELSE Append(g[3], g))
    [] g[1] = "some" -> IF Sees(p, Comments) THEN SkipComment(p)
                        ELSE IF Sees(p, {g[2]}) THEN Fail(p) ELSE Then(p, <<g[3]>>)
    [] g[1] = "opt" -> Then(p, IF Sees(p, {")"}) THEN <<>> ELSE g[2])
    [] g[1] = "specs" -> IF Sees(p, {"["}) THEN Read(p, << <<"spec", FALSE>>, Want("]"), <<"specs", FALSE>> >>)
                         ELSE IF g[2] THEN Missing(p) ELSE Then(p, <<>>)
    [] g[1] = "cases" -> IF Sees(p, {")"}) \/ Peek(p) = EOF
                           THEN IF g[2] THEN [p EXCEPT !.end = <<"syntax">>] ELSE Then(p, <<>>)
                           ELSE Then(p, <<E, <<"case-body">> >>)
    [] g[1] = "case-body" -> Then(p, IF Sees(p, {")"}) THEN <<>> ELSE <<E, <<"cases", FALSE>> >>)

\* Types, and where one may stand.
Types == {"type", "slice", "opt-type", "bind-type", "arrow", "def-type", "tried"}
ParseType(p, g) ==
  CASE g[1] = "type" -> ParseTypeExpr(p)
    [] g[1] = "slice" -> IF Sees(p, {"]"}) THEN Read(p, <<Type>>) ELSE Then(p, <<Until("]", <<Type>>), Want("]")>>)
    [] g[1] = "opt-type" -> Then(p, IF IsTypeExprStart(p) THEN <<Type>> ELSE <<>>)
    [] g[1] = "bind-type" -> Then(p, IF IsBindingTypeStart(p) THEN <<Type>> ELSE <<>>)
    [] g[1] = "arrow" -> IF SeesSym(p, {"->"}) THEN Read(p, <<Type>>) ELSE Then(p, <<>>)
    [] g[1] = "def-type" ->
         Then(p, IF IsTypeExprStart(p) THEN <<Type, <<"tried", p.pos, Len(p.tree)>> >> ELSE <<>>)
    [] g[1] = "tried" -> IF Sees(p, {")"}) THEN GoBack(p, 1) ELSE Then(p, <<>>)

\* The names a form binds.
Names == {"params", "param", "receiver", "pattern", "let-name", "as"}
ParseNames(p, g) ==
  CASE g[1] = "params" -> Then(p, <<Want("["), Until("]", << <<"param">> >>), Want("]")>>)
    [] g[1] = "param" -> ParseParam(p)
    [] g[1] = "receiver" -> IF Sees(p, {"["}) /\ PeekAt(p, 1)[1] = "]" THEN Fail(p) ELSE Then(p, <<Params>>)
    [] g[1] = "pattern" -> Then(p, IF Sees(p, {"[", "{"}) THEN <<E>> ELSE <<Sym>>)
    [] g[1] = "let-name" -> Then(p, IF Sees(p, {"[", "{"}) THEN <<E>> ELSE <<Sym, BindType>>)
    [] g[1] = "as" -> IF Peek(p) = <<"kw", "as">> THEN Read(p, <<Sym>>) ELSE Then(p, <<>>)

\* The parts of one form or another.
Parts == {"clause", "spec", "select-case", "select-op", "doto-step", "map-value", "fields", "try"}
ParsePart(p, g) ==
  CASE g[1] = "clause" -> Then(p, <<Want("("), <<"clause-name">>, <<"specs", TRUE>>, Close>>)
    [] g[1] = "spec" -> ParseSpec(p, g[2])
    [] g[1] = "select-case" -> ParseSelectCase(p)
    [] g[1] = "select-op" -> IF Sees(p, {"("}) THEN Read(p, << <<"send!">>, E, E, Close>>) ELSE Then(p, <<Sym, E>>)
    [] g[1] = "doto-step" -> Then(p, IF NextIsSym(p, MethodHeads \cup FieldHeads) THEN <<Want("("), Sym, Body, Close>> ELSE <<E>>)
    [] g[1] = "map-value" -> IF Sees(p, {"}"}) THEN Fail(p) ELSE Then(p, <<E>>)
    [] g[1] = "fields" -> IF Sees(p, {"{"}) THEN Then(p, <<E>>) ELSE Fail(p)
    [] g[1] = "try" -> ParseTryRest(p, g[2], g[3], g[4])

Parse(p) ==
  LET g == Head(p.goals)
  IN CASE g[1] = "expr" -> ParseExpr(p)
       [] g[1] = "list" -> ParseList(p)
       [] g[1] \in Single -> ParseToken(p, g)
       [] g[1] \in Repeats -> ParseRepeat(p, g)
       [] g[1] \in Types -> ParseType(p, g)
       [] g[1] \in Names -> ParseNames(p, g)
       [] g[1] \in Parts -> ParsePart(p, g)
       [] g[1] = "doc" -> Keep(p, "docs")
       [] g[1] = "top" -> [Keep(p, "orphans") EXCEPT !.pending = <<>>]

\* Between the forms of a file.
ParseAll(p) ==
  CASE Peek(p) = EOF -> [p EXCEPT !.end = <<"ok">>]
    [] Sees(p, {";;;"}) -> [SkipComment(p) EXCEPT !.pending = Append(@, p.pos)]
    [] Sees(p, {";"}) -> SkipComment(p)
    [] OTHER -> [p EXCEPT !.goals = <<E, <<"top">> >>]

Step(p) == IF p.goals = <<>> THEN ParseAll(p) ELSE Parse(p)

-----------------------------------------------------------------------------
\* ParseWithComments filters the comments; the transpiler's readers do not.
Uncommented(toks) ==
  LET Code(k) == {j \in 1 .. k : toks[j][1] # ";"}
  IN [n \in 1 .. Cardinality(Code(Len(toks))) |->
        toks[Min({k \in DOMAIN toks : Cardinality(Code(k)) >= n})]]

Init == \E toks \in Files : build = NewParser(toks) /\ format = NewParser(Uncommented(toks))

Running(p) == p.end = <<"no">>
BuildReads == Running(build) /\ build' = Step(build) /\ UNCHANGED format
FormatReads == ~Running(build) /\ Running(format) /\ format' = Step(format) /\ UNCHANGED build
Next == BuildReads \/ FormatReads
Spec == Init /\ [][Next]_vars

-----------------------------------------------------------------------------
(* Properties *)

\* What a goal that comes again and again, or not at all, is made of.
Nested ==
  {<<E>>, <<E, E>>, <<Type>>, << <<"clause">> >>, << <<"param">> >>, << <<"doto-step">> >>,
   <<E, <<"map-value">> >>, << <<"let-name">>, E>>, <<Sym, BindType, E>>, <<Sym, E, E>>,
   <<Sym, OptType, <<"tag">> >>, <<Want("("), Sym, Params, Arrow, Close>>, <<Want("("), <<"select-case">>, Close>>}
Tags ==
  {"expr", "list", "doc", "top", "case-body"} \cup (Single \ {"want"}) \cup (Types \ {"tried"}) \cup Names
    \cup (Parts \ {"spec", "try"})
Untils == {"until"} \X Closers \X Nested \X BOOLEAN
Goals ==
  {<<t>> : t \in Tags} \cup ({"want"} \X (Openers \cup Closers)) \cup Untils \cup ({"opt"} \X Nested)
    \cup ({"some"} \X Closers \X Untils) \cup ({"spec", "specs", "cases"} \X BOOLEAN)
    \cup ({"tried"} \X Nat \X Nat) \cup ({"try"} \X BOOLEAN \X BOOLEAN \X BOOLEAN)
GoalTags == Tags \cup {"want", "until", "opt", "some", "spec", "specs", "cases", "tried", "try"}
Parsers ==
  [toks : Seq(AllTokens), pos : Nat \ {0}, goals : Seq(Goals), open : Seq(Nat), pending : Seq(Nat),
   docs : SUBSET Nat, orphans : SUBSET Nat, tree : Seq(GoalTags \X AllTokens),
   end : {<<"no">>, <<"ok">>, <<"syntax">>} \cup ({"unclosed"} \X Nat)]

TypeOK == build \in Parsers /\ format \in Parsers

\* How many delimiters are open after the first n tokens.
Depths(toks) ==
  [n \in 0 .. Len(toks) |-> Cardinality({k \in 1 .. n : toks[k][1] \in Openers})
                              - Cardinality({k \in 1 .. n : toks[k][1] \in Closers})]
Closer(opener) == IF opener = "(" THEN ")" ELSE IF opener = "[" THEN "]" ELSE "}"
\* The opener i and the closer j are a pair: nothing before j closes i, and j does.
Closes(toks, depth, i, j) ==
  /\ i < j /\ depth[j] = depth[i] - 1 /\ \A k \in i .. j - 1 : depth[k] >= depth[i]
  /\ toks[j][1] = Closer(toks[i][1])
Matched(toks) ==
  LET depth == Depths(toks)
      opening == {k \in DOMAIN toks : toks[k][1] \in Openers}
      closing == {k \in DOMAIN toks : toks[k][1] \in Closers}
  IN /\ \A i \in opening : \E j \in closing : Closes(toks, depth, i, j)
     /\ \A j \in closing : \E i \in opening : Closes(toks, depth, i, j)
\* The delimiters among the first n tokens that are not closed yet.
Unclosed(toks, n) ==
  LET depth == Depths(toks)
  IN {i \in 1 .. n : toks[i][1] \in Openers /\ \A k \in i .. n : depth[k] >= depth[i]}
Lists(seq, set) == ToSet(seq) = set /\ \A i, j \in DOMAIN seq : i < j => seq[i] < seq[j]

\* A def whose value begins like a type with delimiters: parseDef tries for it.
TriesType(toks) ==
  \E k \in 1 .. Len(toks) - 2 :
    /\ toks[k] = <<"sym", "def">>
    /\ toks[k + 2][1] \in {"(", "["} \/ toks[k + 2] = <<"sym", "map">>

\* Whatever the forms, what is accepted is balanced, and each closer matches its
\* opener: every parse function reads its own closing delimiter and no other.
AcceptedIsBalanced == build.end = <<"ok">> => Matched(build.toks)

\* At every step the delimiters the parser takes for unclosed are those that
\* are, so an error at the end of the file names the outermost of them; but
\* for a def that tried for a type, whose delimiters are counted twice.
OpenersTracked == TriesType(build.toks) \/ Lists(build.open, Unclosed(build.toks, build.pos - 1))

\* The forms that do not end in a body, the clauses that are not calls.
Bodiless ==
  {"ns", "def", "deftype", "defstruct", "definterface", "if", "cond", "switch", "case", "defer", "chan", "send!",
   "recv!", "recv-ok!", "close!", "par", "pipeline", "fan-in", "select!", "if-err", "if-let", "as", "atom", "doto"}
    \cup FieldHeads \cup StructHeads
Bindings == {"let", "loop", "let-or", "with-open"}

\* A comment in one of the places the parser skips comments for: between forms,
\* before the closer of a body or of arguments, after a value of a binding vector;
\* but not in a type, nor in the methods of an interface, whatever their names.
Trails(toks, k) ==
  LET open == Unclosed(toks, k)
      o == Max(open)
      following == SelectInSubSeq(toks, k + 1, Len(toks), LAMBDA t : t[1] \notin Comments)
      Heads(i, names) == toks[i][1] = "(" /\ toks[i + 1][2] \in names
  IN \/ open = {}
     \/ /\ toks[o][1] = "(" /\ o + 1 < k
        /\ ~Heads(o, Bodiless \cup {"import", "require", "Atom"})
        /\ \A i \in open \ {o} : ~Heads(i, {"definterface"})
        /\ following # 0 /\ toks[following][1] = ")"
     \/ /\ toks[o][1] = "[" /\ o > 2 /\ Heads(o - 2, Bindings)
        /\ \A i \in open : ~Heads(i, {"definterface"})
        /\ \/ toks[k - 1][1] = ")"
           \/ following # 0 /\ toks[following][1] = "]"

\* In those places a comment changes nothing: the transpiler reads what the
\* formatter reads, which has taken the comments out.
TrailingCommentsSkipped ==
  ~Running(format) /\ (\A k \in DOMAIN build.toks : build.toks[k][1] = ";" => Trails(build.toks, k))
    => /\ build.end[1] = format.end[1]
       /\ build.end = <<"ok">> => build.tree = format.tree
=============================================================================
