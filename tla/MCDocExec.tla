----------------------------- MODULE MCDocExec -----------------------------
(* Documents of DocExec for TLC: fragments as the parser builds them, put  *)
(* one behind the other and into inner nodes.                              *)
EXTENDS DocExec

Lit(n) == <<[op |-> "literal", str |-> [i \in 1..n |-> Ch], open |-> FALSE]>>
Paren == <<[op |-> "literal", str |-> <<Ch>>, open |-> TRUE]>>
Verb(str) == <<[op |-> "verbatim", str |-> str]>>
N(op) == <<[op |-> op]>>
MuteBy(n) == <<[op |-> "mute", n |-> n]>>
Unmute == <<[op |-> "unmute", n |-> -1]>>
AlignTo(n, sp, tabs) == <<[op |-> "align", n |-> n, sp |-> sp, tabs |-> tabs]>>
End == N("end")
Group(d) == N("group") \o d \o End
Indent(kind, n, d) == <<[op |-> "indent", kind |-> kind, n |-> n]>> \o d \o End
In(op, d) == N(op) \o d \o End
Maxlines(n, d) == <<[op |-> "maxlines", n |-> n]>> \o d \o End
Kind(kind, n, force) == [kind |-> kind, n |-> n, force |-> force]
Minimize(entries, d) == <<[op |-> "minimize", entries |-> entries]>> \o d \o End

Cat2(A, B) == {a \o b : a \in A, b \in B}
Cat3(A, B, C) == {a \o b \o c : a \in A, b \in B, c \in C}
\* Groups on a line.
Words == {Lit(1), Lit(3)}
Small == {Group(N("line") \o Lit(3)), Group(Lit(2) \o N("softline") \o Lit(1)),
          Group(Indent("add", 2, N("softline") \o Lit(4))), Indent("parens", 0, Paren \o Lit(1))}
Piece == Words \cup Small \cup {N("line"), N("softline"), AlignTo(2, 1, FALSE), AlignTo(3, 0, TRUE)}
Lead == {<<>>, Lit(2), Lit(1) \o N("hardline") \o Paren, In("optional", Lit(1) \o N("optline"))}
FitDocs == {a \o Group(b) \o e : a \in Lead, b \in Cat3(Piece, Piece, Piece), e \in {N("line") \o Lit(1)}}

\* Lines of every kind.
LinePiece == {Lit(2), N("hardline"), N("optline"), N("line"), Verb(<<Ch, Ch, Nl>>), Verb(<<Nl>>),
              Verb(<<Ch>>), In("noindent", Lit(1) \o N("hardline")),
              Indent("add", -3, N("hardline") \o Lit(1)), Indent("force", 0, Lit(1)),
              Maxlines(1, N("hardline") \o N("hardline")), Group(Lit(2) \o N("line") \o Lit(5))}
LineWrap(k, d) ==
    CASE k = 1 -> Indent("add", 2, d)
      [] k = 2 -> In("optional", d)
      [] k = 3 -> Indent("add", 5, In("optional", Group(d)))
LineDocs == {LineWrap(k, Lit(1) \o d) : k \in 1..3, d \in Cat3(LinePiece, LinePiece, LinePiece)}

\* Muted parts, as branches and clang-format comments make them.
MutePiece == {<<>>, Lit(1), N("hardline"), Verb(<<Ch, Nl>>), Lit(1) \o N("hardline")}
MutePart == {MuteBy(1) \o d \o e : d \in MutePiece,
                e \in {MuteBy(-1), Unmute, Unmute \o Verb(<<Ch, Nl>>)}}
MuteNested == {MuteBy(1) \o a \o MuteBy(1) \o b \o MuteBy(-1) \o c \o Unmute :
                a \in MutePiece, b \in MutePiece, c \in MutePiece}
MuteDocs == {Indent("add", 2, d) :
    d \in Cat3({Lit(1) \o a : a \in MutePiece}, MutePart \cup MuteNested, MutePiece)
            \cup Cat3(MutePiece, Cat2(MutePart, MutePart), MutePiece)
            \cup {Lit(1) \o a \o MuteBy(-1) \o b : a \in MutePiece, b \in MutePiece}}

\* Minimizers: within each other, behind each other, with a flagged entry.
Aligned == <<Kind("width", 0, FALSE), Kind("add", 2, FALSE)>>
Disabled == <<Kind("add", 0, FALSE), Kind("add", 3, TRUE)>>
MinPiece == {Lit(2), Group(N("softline") \o Lit(4)), N("hardline"),
             Group(Lit(1) \o N("line") \o Lit(2)),
             In("scope", Indent("newline", 2, N("hardline") \o Lit(1)))}
MinInner == {Minimize(a, Group(d)) : a \in {Aligned, Disabled}, d \in Cat2(MinPiece, MinPiece)}
MinDocs ==
    {Lit(1) \o Minimize(a, b \o d \o c) :
        a \in {Aligned, Disabled}, b \in MinPiece, d \in MinInner, c \in MinPiece}
    \cup {a \o N("hardline") \o b : a \in MinInner, b \in MinInner}
=============================================================================
