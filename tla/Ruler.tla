------------------------------- MODULE Ruler -------------------------------
(***************************************************************************)
(* Alignment of declarations (ruler.c): what comes behind the types of a   *)
(* block of declarations is put at one column, by default the one it is    *)
(* at already.                                                             *)
(*                                                                         *)
(* A line is [len, extra, stars, tabs, spaces, apart, more]: the width of  *)
(* the formatted type, how much wider it is in the source, the stars of    *)
(* the first variable, the blanks in front of these, whether a comment or  *)
(* a new line is there as well, and whether further variables follow.      *)
(* Columns are the numbers of tokens, from 1, as the lexer counts them.    *)
(***************************************************************************)
EXTENDS Integers, Sequences, FiniteSets

CONSTANTS
    Sources,    \* sequences of lines
    Kinds,      \* RULER_ALIGN_* flags: "min", "max", "fixed", "tabs", "sense"
    Aligns,     \* columns given to ruler_init()
    Bases,      \* widths of what is in front of all lines
    Wrap        \* number of values of an unsigned int

\* What is assumed of them, which Documents does.
WrapAssumption == Wrap \in Nat \ {0}

VARIABLES
    lines,      \* the lines as they were read
    kind, align, base,
    rc,         \* the column: [datums, len, nspaces, ntabs]
    indents,    \* rl_indent: [rd, indent]
    docs,       \* what to print for each datum: [indent, spaces, tabalign]
    phase,      \* "insert", "exec", "indent", "print", "done"
    pass,       \* lines are formatted twice
    first       \* the columns of the variables the first time
vars == <<lines, kind, align, base, rc, indents, docs, phase, pass, first>>

Minus(a, b) == (a - b) % Wrap
Tab(col) == col + 8 - ((col - 1) % 8)
RECURSIVE Tabs(_, _)
Tabs(n, col) == IF n = 0 THEN col ELSE Tabs(n - 1, Tab(col))

\* Where the type of a line ends and the next token begins.
TypeEnd(l) == base + 1 + l.len + l.extra
Next1(l) == Tabs(l.tabs, TypeEnd(l)) + l.spaces

-----------------------------------------------------------------------------
NoColumn == [datums |-> <<>>, len |-> 0, nspaces |-> 0, ntabs |-> 0]
Larger(a, b) == IF a > b THEN a ELSE b

Init ==
    /\ lines \in Sources
    /\ kind \in Kinds /\ align \in Aligns /\ base \in Bases
    /\ rc = NoColumn /\ indents = <<>> /\ docs = <<>>
    /\ phase = "insert" /\ pass = 1 /\ first = <<>>

\* ruler_insert() behind a type and ruler_indent() in front of its variables.
\* The latter is taken back if there turns out to be nothing to indent.
Added(l) ==
    [datums  |-> Append(rc.datums, [len |-> l.len, nspaces |-> l.stars, l |-> l]),
     len     |-> Larger(rc.len, l.len),
     nspaces |-> Larger(rc.nspaces, l.stars),
     ntabs   |-> rc.ntabs + (IF l.tabs > 0 THEN 1 ELSE 0)]
Indented(l) == [rd |-> Len(rc.datums) + 1, indent |-> 0]
Insert ==
    /\ phase = "insert"
    /\ Len(rc.datums) < Len(lines)
    /\ LET l == lines[Len(rc.datums) + 1]
       IN  /\ rc' = Added(l)
           /\ indents' = IF l.more THEN Append(indents, Indented(l)) ELSE indents
    /\ docs' = Append(docs, [indent |-> 1, spaces |-> 0, tabalign |-> FALSE])
    /\ UNCHANGED <<lines, kind, align, base, phase, pass, first>>

-----------------------------------------------------------------------------
(* The length of a column: [max, tabalign, spaces], or None.               *)

None == [max |-> 0, tabalign |-> FALSE, nspaces |-> 0]
Datums == {rc.datums[i] : i \in DOMAIN rc.datums}
Longest == rc.datums[CHOOSE i \in DOMAIN rc.datums :
    /\ \A j \in DOMAIN rc.datums : rc.datums[j].len <= rc.datums[i].len
    /\ \A j \in 1..i - 1 : rc.datums[j].len < rc.datums[i].len]

\* sense_column_spaces(): more than the stars need if tabs are followed by more.
ColumnSpaces ==
    LET behind == {d.l.spaces : d \in {e \in Datums : e.l.tabs > 0}} \cup {rc.nspaces}
    IN  CHOOSE n \in behind : \A m \in behind : m <= n

\* sense_datum_width(): the column the variable of d is aligned at but for its
\* spaces, or 0.
DatumWidth(d, nspaces) ==
    LET width == Minus(Next1(d.l), Minus(nspaces, d.nspaces))
    IN  IF d.l.apart \/ TypeEnd(d.l) >= width THEN 0 ELSE width

\* sense_column_length()
\* Mutant: the first line is taken to be aligned as all are.
SensedFirst ==
    LET width == DatumWidth(rc.datums[1], ColumnSpaces)
    IN  IF width = 0 THEN None
        ELSE [max |-> Longest.len + Minus(width, TypeEnd(Longest.l)), tabalign |-> rc.ntabs > 0, nspaces |-> ColumnSpaces]
Sensed ==
    LET widths == {DatumWidth(d, ColumnSpaces) : d \in Datums}
        width == CHOOSE w \in widths : TRUE
    IN  IF Cardinality(widths) > 1 \/ width = 0 THEN None
        ELSE [max |-> Longest.len + Minus(width, TypeEnd(Longest.l)), tabalign |-> rc.ntabs > 0, nspaces |-> ColumnSpaces]

\* minimize(): the longest type may go without a blank if stars are behind it
\* nowhere.
Minimize ==
    LET spaces == {Minus(rc.nspaces, d.nspaces) : d \in {e \in Datums : e.len = rc.len}}
    IN  /\ Len(rc.datums) >= 2 /\ rc.nspaces > 0 /\ rc.len % 8 = 0
        /\ \A n \in spaces : n >= rc.nspaces
Tabbed == [max |-> rc.len + (IF Minimize THEN 0 ELSE 1), tabalign |-> TRUE, nspaces |-> rc.nspaces]

ColumnLength ==
    CASE kind = "min" -> [max |-> rc.len + 1, tabalign |-> FALSE, nspaces |-> rc.nspaces]
      [] kind \in {"max", "fixed"} -> [max |-> align, tabalign |-> FALSE, nspaces |-> rc.nspaces]
      [] kind = "tabs" -> Tabbed
      [] kind = "sense" ->
            IF Sensed # None THEN Sensed
            ELSE IF rc.ntabs > 0 /\ rc.ntabs >= Len(rc.datums) \div 4 THEN Tabbed
            ELSE None

-----------------------------------------------------------------------------
(* ruler_exec()                                                            *)

Fixed(n) == [indent |-> n, spaces |-> 0, tabalign |-> FALSE]
DocOf(d, len) ==
    [indent |-> Minus(len.max, d.len), spaces |-> Minus(len.nspaces, d.nspaces), tabalign |-> len.tabalign]
TooLong(d, len) == d.len > len.max
Exec ==
    /\ phase = "insert" /\ Len(rc.datums) = Len(lines)
    /\ LET len == ColumnLength
           doc(d) == IF kind = "fixed" THEN Fixed(len.max)
                     ELSE IF TooLong(d, len) THEN Fixed(0) ELSE DocOf(d, len)
       IN  IF len = None THEN UNCHANGED <<rc, docs>>
           ELSE /\ rc' = [rc EXCEPT !.nspaces = len.nspaces]
                /\ docs' = [i \in DOMAIN docs |-> doc(rc.datums[i])]
    /\ phase' = "indent"
    /\ UNCHANGED <<lines, kind, align, base, indents, pass, first>>

\* ruler_exec_indent() asks for the length once more.
IndentOf(d, len) ==
    LET max == IF len.tabalign THEN ((len.max + 7) \div 8) * 8 ELSE len.max
    IN  IF max > 0 THEN max + Minus(rc.nspaces, d.nspaces) ELSE d.len + 1
ExecIndent ==
    /\ phase = "indent"
    /\ indents' = [i \in DOMAIN indents |-> [indents[i] EXCEPT !.indent = IndentOf(rc.datums[indents[i].rd], ColumnLength)]]
    /\ phase' = "print"
    /\ UNCHANGED <<lines, kind, align, base, rc, docs, pass, first>>

-----------------------------------------------------------------------------
(* What doc_exec_align() prints of it: [tabs, spaces] behind the type.     *)

ToStop(pos) == 8 - (pos % 8)
RECURSIVE TabsFor(_, _)
TabsFor(indent, pos) ==
    IF indent <= 0 THEN 0 ELSE 1 + TabsFor(indent - ToStop(pos), pos + ToStop(pos))
Blanks(d, i) ==
    IF docs[i].tabalign
    THEN [tabs |-> TabsFor(docs[i].indent, base + d.len), spaces |-> docs[i].spaces]
    ELSE [tabs |-> 0, spaces |-> docs[i].indent + docs[i].spaces]
Printed(i) ==
    LET d == rc.datums[i]
        b == Blanks(d, i)
    IN  [d.l EXCEPT !.extra = 0, !.tabs = b.tabs, !.spaces = b.spaces]

\* The column of the variable, behind its stars.
Column(l) == Next1(l) + l.stars

PrintLines ==
    /\ phase = "print"
    /\ lines' = [i \in DOMAIN lines |-> Printed(i)]
    /\ first' = IF pass = 1 THEN lines' ELSE first
    /\ phase' = "done"
    /\ UNCHANGED <<kind, align, base, rc, indents, docs, pass>>

\* ruler_reset(), and what was printed is formatted again.
Again ==
    /\ phase = "done" /\ pass = 1
    /\ pass' = 2 /\ phase' = "insert"
    /\ rc' = NoColumn /\ indents' = <<>> /\ docs' = <<>>
    /\ UNCHANGED <<lines, kind, align, base, first>>

Next == Insert \/ Exec \/ ExecIndent \/ PrintLines \/ Again
Spec == Init /\ [][Next]_vars

-----------------------------------------------------------------------------
SourceLine(i) == rc.datums[i].l
Columns == {Column(lines[i]) : i \in DOMAIN lines}
Sources1 == {Column(SourceLine(i)) : i \in DOMAIN rc.datums}
Aligned1 == \E i \in DOMAIN docs : docs[i] # Fixed(1)

\* Documents go with datums, indentations with a datum there is, and the
\* width and the spaces of the column are not below those of any datum.
TypeOK ==
    /\ Len(docs) = Len(rc.datums) /\ Len(rc.datums) <= Len(lines)
    /\ \A i \in DOMAIN indents : indents[i].rd \in DOMAIN rc.datums
    /\ \A d \in Datums : d.len <= rc.len /\ d.nspaces <= rc.nspaces

\* No width or number of spaces is taken from a smaller one.
NoUnderflow ==
    /\ phase = "indent" => \A i \in DOMAIN docs : docs[i].indent < Wrap \div 2 /\ docs[i].spaces < Wrap \div 2
    /\ phase = "print" => \A i \in DOMAIN indents : indents[i].indent < Wrap \div 2

\* Variables end up in one column.
OneColumn ==
    phase = "done" /\ kind \in {"min", "tabs", "sense"} /\ Aligned1 => Cardinality(Columns) = 1

Fits(l) == \A d \in Datums : Next1(l) + l.stars > TypeEnd(l) + d.nspaces
Aligned ==
    /\ phase = "done" /\ kind = "sense" /\ Cardinality(Sources1) = 1
    /\ rc.ntabs \in {0, Len(rc.datums)}
    /\ \A i \in DOMAIN lines : SourceLine(i).extra = 0 /\ ~SourceLine(i).apart /\ Fits(SourceLine(i))

\* Variables that are in one column stay where they are, if the stars of any
\* of them would fit behind each of the types and either tabs or spaces are used.
Preserved == Aligned => Columns = Sources1

\* They do unless tabs are followed by more spaces than any of the stars need.
PreservedAtStops ==
    Aligned /\ (\A i \in DOMAIN lines : LET l == SourceLine(i)
                IN  l.tabs > 0 => \E d \in Datums : l.spaces + l.stars = d.nspaces)
        => Columns = Sources1

\* The following variables of a declaration are aligned with the first one.
IndentAligns ==
    phase = "done" /\ kind = "sense" =>
        \A i \in DOMAIN indents : base + 1 + indents[i].indent = Next1(lines[indents[i].rd])

\* Formatting again changes nothing.
Stable == phase = "done" /\ pass = 2 => lines = first
=============================================================================
