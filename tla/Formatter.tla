------------------------------ MODULE Formatter ------------------------------
(***************************************************************************)
(* glisp fmt (internal/formatter/formatter.go): which line every node and  *)
(* every comment is on, before and after.  The text of a node is its width *)
(* and the columns are those the code computes, so what fits on a line of  *)
(* 80 is decided as the code decides it.  The formatter prints top to      *)
(* bottom: a pen that puts nodes on the row it is at, and goes down.       *)
(*                                                                         *)
(* Between two runs of the formatter someone edits the file: breaks a line *)
(* or writes a comment, on a line of its own or after code.                *)
(*                                                                         *)
(* A node is [kind, id, text, doc, heads, kids]: the width of what is its  *)
(* own, the lines of its Doc, the parts its opening line holds and the     *)
(* parts below.  Identifiers follow the text.  Arms and clauses are those  *)
(* of select!, try, cond, switch and case.                                 *)
(*                                                                         *)
(* A comment is one of ; or ;; (CommentMap).  Lines of ;;; are not in the  *)
(* model, save as the Doc of a form: before another top-level form they    *)
(* join the CommentMap, elsewhere the parser drops them.                   *)
(*                                                                         *)
(* Bounds: the programs are those of the configuration; MaxEdits edits.    *)
(***************************************************************************)
EXTENDS Integers, FiniteSets, SequencesExt

CONSTANTS Programs,   \* sequences of top-level nodes
          MaxEdits

VARIABLES tree,       \* the program: formatting does not change it
          line,       \* the line of each node (Pos().Line)
          comments,   \* the comment of ; or ;; on each line that has one (CommentMap)
          torn,       \* code was written after a comment, on its line
          runs,       \* of the formatter since the last edit, two at most
          edits

vars == <<tree, line, comments, torn, runs, edits>>

maxLine == 80

-----------------------------------------------------------------------------
(* Forms by the layout they share *)

Lets == {"let", "loop", "with-open"}
Calls == {"call", "pairs"}
\* On one line, whatever its width.
Flat == {"leaf", "keyword", "quote", "set", "send!", "recv!", "recv-ok!", "close!", "chan", ".-", "as", "deftype"}
\* On one line if it is short enough: no look at the comments inside.
IfShort == {"return", "values", "recur", ".m", "go", "defer", "def", "T.", "vector", "ns"}
\* Never on one line of its own.
Tall == {"defn", "defmacro", "defmethod", "deftest", "defstruct", "definterface", "cond", "switch", "case"}
\* The opening line, then forms below with the comments between them.
Bodies ==
  {"defn", "defmacro", "defmethod", "deftest", "do", "go", "fn", "when", "when-let", "go-val", "for-chan", "par", "doto",
   "with-lock", "pipeline", "fan-out", "fan-in"}
\* The opening line, then forms below.
Branches == {"if", "if-let", "if-err", "atom", "def", "defer"}
\* The opening line with the first part, then one part a line, each inline.
Rows == {"return", "values", "recur", ".m"}
Fields == {"defstruct", "definterface", "ns"}
Clauses == {"cond", "switch", "case"}
\* Kinds nodeMaxLine does not look into.
Opaque == (Flat \ {"recv-ok!"}) \cup Rows \cup Fields \cup {"defn", "defmacro", "defmethod", "deftest", "def", "T."}

Parts(n) == n.heads \o n.kids

RECURSIVE Ids(_), Width(_), nodeMaxLine(_, _)
Ids(n) == {n.id} \cup UNION {Ids(m) : m \in ToSet(Parts(n))}
\* Length of inline(n): a space before every part, which text accounts for.
Width(n) == FoldLeft(LAMBDA w, m : w + 1 + Width(m), n.text, Parts(n))
nodeMaxLine(ln, n) ==
  IF n.kind \in Opaque THEN ln[n.id]
  ELSE Max({IF n.kind \in {"arm", "clause"} THEN 0 ELSE ln[n.id]} \cup {nodeMaxLine(ln, m) : m \in ToSet(Parts(n))})

fits(n, indent) == 2 * indent + Width(n) <= maxLine

-----------------------------------------------------------------------------
(* The pen *)

Pen(ln, cs) == [line |-> ln, comments |-> cs, used |-> {}, row |-> 1, on |-> <<>>, out |-> <<>>, torn |-> FALSE]

Line(pen, n) == pen.line[n.id]
Down(pen) == [pen EXCEPT !.row = @ + 1]
Write(pen, ids) ==
  [pen EXCEPT !.on = [i \in ids |-> pen.row] @@ @, !.torn = @ \/ pen.row \in DOMAIN pen.out]
Open(pen, n) == Write(pen, {n.id})
Close(pen) == Write(pen, {})
inline(pen, n) == Write(pen, Ids(n))
InlineAll(pen, ns) == FoldLeft(inline, pen, ns)

Remark(pen, l) == [pen EXCEPT !.out = (pen.row :> pen.comments[l]) @@ @, !.used = @ \cup {l}]
UnusedOrNot(pen, lo, hi) == {l \in DOMAIN pen.comments : lo <= l /\ l <= hi}
Unused(pen, lo, hi) == {l \in DOMAIN pen.comments : lo <= l /\ l <= hi /\ l \notin pen.used}
takeComments(pen, lo, hi) ==
  FoldLeft(LAMBDA p, l : Remark(Down(p), l), pen, SetToSortSeq(Unused(pen, lo, hi), <))
takeTrailingComment(pen, l) == IF Unused(pen, l, l) = {} THEN pen ELSE Remark(pen, l)
hasComments(pen, lo, hi) == Unused(pen, lo, hi) # {}

inlineOK(pen, n, indent) ==
  fits(n, indent) /\ ~hasComments(pen, Line(pen, n) + 1, nodeMaxLine(pen.line, n))
\* A comment on the opening line may be that of the first binding.
LetInline(pen, n, indent) ==
  fits(n, indent) /\ ~hasComments(pen, Line(pen, n), nodeMaxLine(pen.line, n))
StaysInline(pen, n, indent) ==
  CASE n.kind \in Flat -> TRUE
    [] n.kind \in IfShort -> fits(n, indent)
    [] n.kind \in Tall -> FALSE
    [] n.kind \in Lets -> LetInline(pen, n, indent)
    [] n.kind = "map" -> n.kids = <<>> \/ (Len(n.kids) = 2 /\ fits(n, indent))
    [] OTHER -> inlineOK(pen, n, indent)

-----------------------------------------------------------------------------
RECURSIVE format(_, _, _)

\* Mutant: a form is followed by the comments that lead it.
CommentsFollow(pen, body, indent, afterLine) ==
  FoldLeft(LAMBDA s, b : [pen |-> takeComments(format(Down(s.pen), b, indent), s.prev + 1, Line(pen, b) - 1),
                          prev |-> Line(s.pen, b)],
           [pen |-> pen, prev |-> afterLine], body).pen
\* One form a line, led by the comments since the form before it began.
emitForms(pen, body, indent, afterLine) ==
  FoldLeft(LAMBDA s, b : [pen |-> format(Down(takeComments(s.pen, s.prev + 1, Line(pen, b) - 1)), b, indent),
                          prev |-> Line(pen, b)],
           [pen |-> pen, prev |-> afterLine], body).pen

FormatBranches(pen, ns, indent) == FoldLeft(LAMBDA p, b : format(Down(p), b, indent), pen, ns)
InlineRows(pen, ns) == FoldLeft(LAMBDA p, b : inline(Down(p), b), pen, ns)
formatArgList(pen, ns) == IF ns = <<>> THEN pen ELSE InlineRows(inline(pen, Head(ns)), Tail(ns))
PairRows(pen, ns) ==
  FoldLeft(LAMBDA p, k : inline(IF k % 2 = 1 /\ k > 1 THEN Down(p) ELSE p, ns[k]), pen, [k \in DOMAIN ns |-> k])

BodyAfter(pen, n) == IF n.heads = <<>> THEN Line(pen, n) ELSE Line(pen, Last(n.heads))
formatBody(pen, n, indent) ==
  emitForms(InlineAll(Open([pen EXCEPT !.row = @ + n.doc], n), n.heads), n.kids, indent + 1, BodyAfter(pen, n))

formatClause(pen, cl, indent) ==
  LET tested == InlineAll(Open(Down(pen), cl), cl.heads)
      body == Head(cl.kids)
  IN CASE 2 * (indent + 1) + Width(cl) <= maxLine -> inline(tested, body)
       [] cl.heads = <<>> -> format(tested, body, indent + 1)
       [] OTHER -> format(Down(tested), body, indent + 2)

\* let, loop, with-open: one binding a line with the comment that trails it;
\* that of the last one goes behind the bracket.
TrailsAny(n, i) == TRUE
TrailsHere(n, i) == 2 * i < Len(n.heads)
\* A map pattern that makes its binding too wide takes a row for every entry.
BreaksPattern(n, pattern, value, indent) ==
  /\ pattern.kind = "map" /\ Len(pattern.kids) >= 4
  /\ 2 * indent + n.text + Width(pattern) + Width(value) > maxLine
  /\ \A k \in DOMAIN pattern.kids : pattern.kids[k].kind = IF k % 2 = 1 THEN "leaf" ELSE "keyword"
Binding(s, n, i, indent) ==
  LET pattern == n.heads[2 * i - 1]
      value == n.heads[2 * i]
      placed == IF i = 1 THEN s.pen ELSE Down(takeComments(s.pen, s.prev + 1, Line(s.pen, pattern) - 1))
      bound == inline(IF BreaksPattern(n, pattern, value, indent) THEN PairRows(Open(placed, pattern), pattern.kids)
                      ELSE inline(placed, pattern), value)
  IN [pen |-> IF TrailsHere(n, i) THEN takeTrailingComment(bound, nodeMaxLine(bound.line, value)) ELSE bound,
      prev |-> Line(s.pen, value)]
formatLet(pen, n, indent) ==
  LET bound == FoldLeft(LAMBDA s, i : Binding(s, n, i, indent), [pen |-> Open(pen, n), prev |-> Line(pen, n)],
                        [i \in 1 .. Len(n.heads) \div 2 |-> i]).pen
      closed == IF n.heads = <<>> THEN Close(bound)
                ELSE takeTrailingComment(Close(bound), nodeMaxLine(bound.line, Last(n.heads)))
  IN emitForms(closed, n.kids, indent + 1, BodyAfter(pen, n))

formatLetOr(pen, n, indent) ==
  LET bound == FoldLeft(LAMBDA p, k : inline(IF k % 3 = 1 /\ k > 1 THEN Down(p) ELSE p, n.heads[k]), Open(pen, n),
                        [k \in DOMAIN n.heads |-> k])
  IN emitForms(bound, n.kids, indent + 1,
               IF n.heads = <<>> THEN Line(pen, n) ELSE nodeMaxLine(pen.line, Last(n.heads)))

selectCaseLine(pen, arm) ==
  CASE arm.heads # <<>> -> Line(pen, Head(arm.heads))
    [] arm.kids # <<>> -> Line(pen, Head(arm.kids)) - 1
    [] OTHER -> 0
FormatArm(pen, arm, indent, afterLine) ==
  Close(emitForms(InlineAll(Open(Down(pen), arm), arm.heads), arm.kids, indent + 2, afterLine))
formatSelect(pen, n, indent) ==
  FoldLeft(LAMBDA p, arm : FormatArm(p, arm, indent, selectCaseLine(p, arm)), Open(pen, n), n.kids)

LastStart(pen, ns, otherwise) == IF ns = <<>> THEN otherwise ELSE Line(pen, Last(ns))
formatTry(pen, n, indent) ==
  LET IsArm(m) == m.kind = "arm"
      body == SelectSeq(n.kids, LAMBDA m : ~IsArm(m))
      tried == emitForms(Open(pen, n), body, indent + 1, Line(pen, n))
  IN FoldLeft(LAMBDA s, arm : [pen |-> FormatArm(s.pen, arm, indent, s.after),
                               after |-> LastStart(pen, arm.kids, s.after)],
              [pen |-> tried, after |-> LastStart(pen, body, Line(pen, n))], SelectSeq(n.kids, IsArm)).pen

elemAt(pen, e, col) ==
  IF col + Width(e) <= maxLine /\ ~hasComments(pen, Line(pen, e) + 1, nodeMaxLine(pen.line, e))
  THEN inline(pen, e) ELSE format(pen, e, col \div 2)
\* A keyword tag keeps an attribute map that fits on its line.
KeepsAttrs(pen, n, col) ==
  /\ Len(n.kids) > 1 /\ n.kids[1].kind = "keyword" /\ n.kids[2].kind = "map"
  /\ col + Width(n.kids[1]) + 1 + Width(n.kids[2]) <= maxLine
  /\ ~hasComments(pen, Line(pen, n.kids[2]) + 1, nodeMaxLine(pen.line, n.kids[2]))
formatVector(pen, n, indent) ==
  LET col == 2 * indent + 1
      first == elemAt(Open(pen, n), n.kids[1], col)
      attrs == KeepsAttrs(first, n, col)
  IN FoldLeft(LAMBDA p, e : elemAt(Down(p), e, col),
              IF attrs THEN inline(first, n.kids[2]) ELSE first, SubSeq(n.kids, IF attrs THEN 3 ELSE 2, Len(n.kids)))
formatMap(pen, n, indent) ==
  LET keys == {k \in DOMAIN n.kids : k % 2 = 1}
      col == 2 * indent + 2 + Max({Width(n.kids[k]) : k \in keys})
  IN FoldLeft(LAMBDA p, k : elemAt(inline(IF k = 1 THEN p ELSE Down(p), n.kids[k]), n.kids[k + 1], col),
              Open(pen, n), SetToSortSeq(keys, <))

\* (head first-argument), if the first argument is no call.
HeadLineFits(n, indent) == 2 * indent + 2 + Width(n.kids[1]) + Width(n.kids[2]) <= maxLine
FirstRides(n, indent) == n.kids[2].kind \notin Calls /\ HeadLineFits(n, indent)
PairFits(n, k, indent) ==
  2 * (indent + 1) + Width(n.kids[k]) + (IF k = Len(n.kids) THEN 0 ELSE 1 + Width(n.kids[k + 1])) + 1 <= maxLine
PairsFit(pen, n, indent) ==
  /\ n.kind = "pairs" /\ Len(n.kids) > 3 /\ FirstRides(n, indent)
  /\ ~hasComments(pen, Line(pen, n) + 1, nodeMaxLine(pen.line, n))
  /\ \A k \in {j \in 3 .. Len(n.kids) : j % 2 = 1} : PairFits(n, k, indent)
formatCall(pen, n, indent) ==
  LET head == inline(Open(pen, n), n.kids[1])
  IN CASE Len(n.kids) = 1 -> head
       [] PairsFit(pen, n, indent) -> PairRows(Down(inline(head, n.kids[2])), SubSeq(n.kids, 3, Len(n.kids)))
       [] FirstRides(n, indent) ->
            emitForms(inline(head, n.kids[2]), SubSeq(n.kids, 3, Len(n.kids)), indent + 1, Line(pen, n.kids[2]))
       [] OTHER -> emitForms(head, Tail(n.kids), indent + 1, Line(pen, n))

format(pen, n, indent) ==
  LET opened == InlineAll(Open(pen, n), n.heads)
  IN IF StaysInline(pen, n, indent) THEN inline(pen, n)
     ELSE Close(CASE n.kind \in Bodies -> formatBody(pen, n, indent)
                  [] n.kind \in Branches -> FormatBranches(opened, n.kids, indent + 1)
                  [] n.kind \in Rows -> formatArgList(opened, n.kids)
                  [] n.kind \in Fields -> InlineRows(opened, n.kids)
                  [] n.kind \in Clauses -> FoldLeft(LAMBDA p, cl : formatClause(p, cl, indent), opened, n.kids)
                  [] n.kind \in Lets -> formatLet(pen, n, indent)
                  [] n.kind = "let-or" -> formatLetOr(pen, n, indent)
                  [] n.kind = "select!" -> formatSelect(pen, n, indent)
                  [] n.kind = "try" -> formatTry(pen, n, indent)
                  [] n.kind = "vector" -> formatVector(pen, n, indent)
                  [] n.kind = "map" -> formatMap(pen, n, indent)
                  [] n.kind = "T." -> PairRows(opened, n.kids)
                  [] n.kind \in Calls -> formatCall(pen, n, indent))

\* Comments above a top-level form, the ones its predecessor left included.
Block(pen, lo, hi) ==
  FoldLeft(LAMBDA p, l : Down(Remark(p, l)), pen, SetToSortSeq(Unused(pen, lo, hi), <))
TopForm(pen, t, i) ==
  LET apart == IF i = 1 THEN pen ELSE Down(Down(pen))
      lo == IF i = 1 THEN 1 ELSE Line(pen, t[i - 1]) + 1
  IN format(Block(apart, lo, Line(pen, t[i]) - 1), t[i], 0)
LastLine(pen) == Max({0} \cup DOMAIN pen.comments)
formatFile(t, ln, cs) ==
  LET printed == FoldLeft(LAMBDA p, i : TopForm(p, t, i), Pen(ln, cs), [i \in DOMAIN t |-> i])
  IN Block(Down(Down(printed)), Line(printed, Last(t)) + 1, LastLine(printed))

-----------------------------------------------------------------------------
(* The file on disk *)

Init ==
  /\ tree \in Programs
  /\ line = [i \in UNION {Ids(n) : n \in ToSet(tree)} |-> Max({k \in DOMAIN tree : tree[k].id <= i})]
  /\ comments = <<>> /\ torn = FALSE /\ runs = 0 /\ edits = 0

Fmt ==
  /\ ~torn
  /\ LET pen == formatFile(tree, line, comments)
     IN line' = pen.on /\ comments' = pen.out /\ torn' = pen.torn
  /\ runs' = Min({runs + 1, 2})
  /\ UNCHANGED <<tree, edits>>

Edit == ~torn /\ edits < MaxEdits /\ edits' = edits + 1 /\ runs' = 0 /\ UNCHANGED <<tree, torn>>
Moved(cs, from) ==
  [l \in {IF k < from THEN k ELSE k + 1 : k \in DOMAIN cs} |-> cs[IF l < from THEN l ELSE l - 1]]
CodeLines(ln) == {ln[i] : i \in DOMAIN ln}

\* A comment on a line of its own, everything below moves down.
Remarks ==
  /\ Edit
  /\ \E l \in 1 .. Max(CodeLines(line)) + 1 :
       /\ line' = [i \in DOMAIN line |-> IF line[i] < l THEN line[i] ELSE line[i] + 1]
       /\ comments' = (l :> edits') @@ Moved(comments, l)
\* A comment behind code.
Trails ==
  /\ Edit
  /\ \E l \in CodeLines(line) \ DOMAIN comments : comments' = (l :> edits') @@ comments
  /\ UNCHANGED line
\* A line break before a node; a comment behind its line moves with it.
Breaks ==
  /\ Edit
  /\ \E i \in DOMAIN line :
       /\ i > 1 /\ line[i] = line[i - 1]
       /\ line' = [j \in DOMAIN line |-> IF j < i THEN line[j] ELSE line[j] + 1]
       /\ comments' = Moved(comments, line[i])

Next == Fmt \/ Remarks \/ Trails \/ Breaks
Spec == Init /\ [][Next]_vars

-----------------------------------------------------------------------------
(* Properties *)

\* Every comment of ; or ;; survives every run of the formatter, once: those it
\* could not put in place come after the form.  Only what trails code on the
\* line on which a top-level form begins may go.
KeepsComments ==
  [][Fmt => \A l \in DOMAIN comments \ {line[n.id] : n \in ToSet(tree)} :
       Cardinality({r \in DOMAIN comments' : comments'[r] = comments[l]}) = 1]_vars

\* No comment is printed in front of code: the file is still the same program.
\* The exception is a let, loop or with-open without a body, whose closing
\* parenthesis follows the comment of its last binding.
RECURSIVE Nodes(_)
Nodes(n) == {n} \cup UNION {Nodes(m) : m \in ToSet(Parts(n))}
AllNodes == UNION {Nodes(n) : n \in ToSet(tree)}
KeepsCode == torn => \E n \in AllNodes : n.kind \in Lets /\ n.kids = <<>>

\* Formatting settles: the second run may move comments again, a third changes
\* nothing.
SettlesSoon == [][Fmt /\ runs = 2 => UNCHANGED <<line, comments>>]_vars
=============================================================================
