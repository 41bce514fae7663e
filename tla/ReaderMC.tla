------------------------------ MODULE ReaderMC ------------------------------
(***************************************************************************)
(* Files for Reader: each form once, and what an editor does to it while   *)
(* it is typed: a comment or a doc comment put anywhere, the file cut off  *)
(* anywhere, a token missing, a closing delimiter that is another.         *)
(***************************************************************************)
EXTENDS Reader

Class(t) ==
  CASE t \in Openers \cup Closers \cup Comments -> t
    [] t = "'" -> "quote"
    [] t \in {"1", "2"} -> "lit"
    [] t = "str" -> "str"
    [] t \in {"kw:import", "kw:require", "kw:as", "kw:else", "kw:default", "kw:timeout", "kw:a"} -> "kw"
    [] OTHER -> "sym"
Keywords == ("kw:import" :> "import") @@ ("kw:require" :> "require") @@ ("kw:as" :> "as") @@ ("kw:else" :> "else")
  @@ ("kw:default" :> "default") @@ ("kw:timeout" :> "timeout") @@ ("kw:a" :> "a")
Token(t) == <<Class(t), IF t \in DOMAIN Keywords THEN Keywords[t] ELSE t>>
Tokens(ts) == [k \in DOMAIN ts |-> Token(ts[k])]

Programs == {Tokens(ts) : ts \in
  {  <<"(", "ns", "n", "(", "kw:import", "[", "a", "[", "b", "kw:as", "c", "]", "]", ")", "(", "kw:require", "[", "d", "kw:as", "e", "]", ")", ")">>,
     <<"(", "def", "x", "int", "1", ")">>,
     <<"(", "def", "x", "(", "chan", "int", ")", ")">>,
     <<"(", "def", "x", "map", "[", "int", "]", "int", "1", ")">>,
     <<"(", "def", "x", "(", "Atom", "int", ")", "1", ")">>,
     <<"(", "def", "x", "(", "f", "1", ")", ")">>,
     <<"(", "defn", "f", "[", "a", "int", "[", "b", "]", "&", "r", "]", "->", "int", "a", ")">>,
     <<"(", "defmacro", "m", "[", "a", "]", "a", ")">>,
     <<"(", "deftype", "T", "[", "]", "int", ")">>,
     <<"(", "defstruct", "S", "a", "int", "str", "b", "[", "]", "Circle", ")">>,
     <<"(", "definterface", "I", "(", "m", "[", "a", "]", "->", "int", ")", ")">>,
     <<"(", "definterface", "I", "(", "let", "[", "a", "]", ")", ")">>,
     <<"(", "defmethod", "Circle", "m", "[", "c", "]", "->", "int", "c", ")">>,
     <<"(", "fn", "[", "]", "->", "[", "int", "string", "]", "1", ")">>,
     <<"(", "let", "[", "x", "int", "1", "[", "y", "]", "x", "z", "(", "f", ")", "]", "y", ")">>,
     <<"(", "if", "x", "1", "2", ")">>,
     <<"(", "when", "x", "1", ")">>,
     <<"(", "cond", "x", "1", "kw:else", "2", ")">>,
     <<"(", "switch", "x", "1", "y", ")">>,
     <<"(", "case", "x", "1", "y", "2", ")">>,
     <<"(", "do", "x", ")">>,
     <<"(", "go", "(", "f", "x", ")", ")">>,
     <<"(", "defer", "(", "f", ")", ")">>,
     <<"(", "chan", "map", "[", "int", "]", "int", "1", ")">>,
     <<"(", "send!", "x", "1", ")">>,
     <<"(", "recv!", "x", ")">>,
     <<"(", "recv-ok!", "x", ")">>,
     <<"(", "close!", "x", ")">>,
     <<"(", "go-val", "[", "]", "[", "]", "int", "x", ")">>,
     <<"(", "par", "x", "y", ")">>,
     <<"(", "for-chan", "[", "x", "y", "]", "x", ")">>,
     <<"(", "with-lock", "m", "x", ")">>,
     <<"(", "with-open", "[", "r", "(", "f", ")", "]", "r", ")">>,
     <<"(", "pipeline", "[", "x", "y", "]", "f", ")">>,
     <<"(", "fan-out", "1", "[", "x", "y", "]", "x", ")">>,
     <<"(", "fan-in", "x", "y", ")">>,
     <<"(", "select!", "(", "[", "x", "c", "]", "x", ")", "(", "[", "(", "send!", "c", "1", ")", "]", ")", "(", "kw:timeout", "1", "x", ")", "(", "kw:default", "x", ")", ")">>,
     <<"(", "loop", "[", "x", "1", "]", "(", "recur", "x", ")", ")">>,
     <<"(", "return", "x", ")">>,
     <<"(", "values", "x", "1", ")">>,
     <<"(", "if-err", "[", "v", "e", "]", "x", "1", "2", ")">>,
     <<"(", "try", "x", "(", "catch", "e", "e", ")", "(", "finally", "y", ")", ")">>,
     <<"(", "if-let", "[", "x", "y", "]", "x", "1", ")">>,
     <<"(", "let-or", "[", "x", "y", "1", "]", "x", ")">>,
     <<"(", "when-let", "[", "{", "kw:a", "b", "}", "y", "]", "b", ")">>,
     <<"(", "as", "Circle", "x", ")">>,
     <<"(", "atom", "int", "1", ")">>,
     <<"(", "doto", "x", "(", ".m", "1", ")", "(", "f", ")", "g", ")">>,
     <<"(", "deftest", "t", "x", ")">>,
     <<"(", ".m", "x", "1", ")">>,
     <<"(", ".-f", "x", ")">>,
     <<"(", "T.", "{", "kw:a", "1", "}", ")">>,
     <<"(", "f", "[", "x", "]", "#{", "1", "}", "{", "kw:a", "1", "}", ")">>,
     <<"(", "f", "'", "x", "(", ")", ")">>,
     <<"(", "lambda", "x", ")">>}}

Inserted(toks, tok) == {InsertAt(toks, k, tok) : k \in 1 .. Len(toks) + 1}
CutOff(toks) == {SubSeq(toks, 1, n) : n \in 1 .. Len(toks) - 1}
Missed(toks) == {RemoveAt(toks, k) : k \in DOMAIN toks}
Mistyped(toks) == {[toks EXCEPT ![k] = Token(c)] : k \in {j \in DOMAIN toks : toks[j][1] \in Closers}, c \in {")", "]"}}
Edits(toks) ==
  {toks} \cup Inserted(toks, Token(";")) \cup Inserted(toks, Token(";;;"))
    \cup CutOff(toks) \cup Missed(toks) \cup Mistyped(toks)

\* Files of several forms: documented ones, and a def whose value begins like a type.
Documented ==
  {FlattenSeq(parts) : parts \in
     [1 .. 4 -> {<<>>, <<Token(";;;")>>, << <<";;;", "">> >>, <<Token(";")>>,
                 Tokens(<<"(", "defn", "f", "[", "]", "1", ")">>), Tokens(<<"(", "def", "x", "1", ")">>)}]}
AfterDef == CutOff(Tokens(<<"(", "def", "x", "(", "f", "1", ")", ")", "(", "f", "[", "1", "]", ")">>))
Twice == {Tokens(<<"(", "let", "[", "x", "(", "f", ")", ";", "y", "1", ";", "]", ";", "y", ";", ")", ";">>)}

MCFiles == UNION {Edits(toks) : toks \in Programs} \cup Documented \cup AfterDef \cup Twice
=============================================================================
