----------------------------- MODULE MCDocDiff -----------------------------
(* Sources for DocDiff: statements one behind the other, every set of      *)
(* changed lines.                                                          *)
EXTENDS DocDiff

Lit(n) == <<[op |-> "literal", lno |-> n]>>
Verb(n, m) == <<[op |-> "verbatim", lno |-> n, n |-> m, block |-> TRUE]>>
Inline(n) == <<[op |-> "verbatim", lno |-> n, n |-> 0, block |-> FALSE]>>
BlankLine(n) == <<[op |-> "verbatim", lno |-> n, n |-> 1, block |-> FALSE]>>
Hard == <<[op |-> "hardline"]>>
MuteBy(n) == <<[op |-> "mute", n |-> n]>>
Group(d) == <<[op |-> "group"]>> \o d \o <<[op |-> "end"]>>

\* Statements that begin on line n, and the lines they take.
Kinds == {"stmt", "blank", "two", "comment", "comments", "inline", "braces", "block"}
LinesOf(kind) ==
    CASE kind \in {"stmt", "inline"} -> 1
      [] kind \in {"blank", "two", "comment"} -> 2
      [] kind \in {"comments", "braces", "block", "within"} -> 3
      [] kind = "branch" -> 6
Stmt(kind, n) ==
    CASE kind = "stmt" -> Group(Lit(n)) \o Hard
      [] kind = "blank" -> Group(Lit(n) \o BlankLine(n)) \o Hard
      [] kind = "two" -> Group(Lit(n) \o Group(Lit(n + 1))) \o Hard
      [] kind = "comment" -> Group(Verb(n, 1) \o Lit(n + 1)) \o Hard
      [] kind = "comments" -> Group(Group(Verb(n, 1) \o Verb(n + 1, 1) \o Lit(n + 2))) \o Hard
      [] kind = "inline" -> Group(Lit(n) \o Inline(n)) \o Hard
      [] kind = "braces" -> Group(Lit(n) \o Hard \o Group(Lit(n + 1)) \o Hard \o Lit(n + 2)) \o Hard
      [] kind = "block" -> Lit(n) \o Hard \o Group(Lit(n + 1)) \o Hard \o Lit(n + 2) \o Hard
      [] kind = "within" -> Group(Lit(n) \o Verb(n + 1, 1) \o Lit(n + 2)) \o Hard
      [] kind = "branch" ->
            Group(Lit(n) \o Verb(n + 1, 1) \o Lit(n + 2) \o MuteBy(1))
            \o Group(Lit(n) \o MuteBy(-1) \o Verb(n + 3, 1) \o Lit(n + 4) \o Verb(n + 5, 1)) \o Hard

Source(a, b, c) ==
    [nodes |-> Stmt(a, 1) \o Stmt(b, 1 + LinesOf(a)) \o Stmt(c, 1 + LinesOf(a) + LinesOf(b)),
     lines |-> LinesOf(a) + LinesOf(b) + LinesOf(c)]
With(src, changed) == [nodes |-> src.nodes, lines |-> src.lines, changed |-> changed]
PlainInputs ==
    {i \in {With(Source(s[1], s[2], s[3]), ch) :
              s \in (Kinds \X Kinds \X {"stmt"}) \cup ({"stmt"} \X Kinds \X {"comment"}),
              ch \in SUBSET (1..8) \ {{}}} :
        i.changed \subseteq 1..i.lines}

\* A statement with an alternative, parsed once for each branch, and one chunk
\* that does not begin at the directive of the alternative.
AltLines(src) == {src.nodes[i].lno : i \in {k \in 2..Len(src.nodes) : src.nodes[k - 1] = MuteBy(-1)[1]}}
OneChunk ==
    {i \in {With(Source(a, b, "stmt"), n..m) : a \in {"stmt", "comment", "branch"},
                                              b \in Kinds \cup {"branch"}, n \in 1..13, m \in 1..13} :
        i.changed # {} /\ i.changed \subseteq 1..i.lines}
FirstChanged(i) == CHOOSE n \in i.changed : n - 1 \notin i.changed
BranchInputs == {i \in OneChunk : FirstChanged(i) \notin AltLines(i)}
AllInputs == PlainInputs \cup BranchInputs

\* One that does.
DirectiveInputs == {With(Source("stmt", "branch", "stmt"), {5})}

=============================================================================
