------------------------------ MODULE DocExec ------------------------------
(***************************************************************************)
(* The document engine of doc.c: doc_exec() walks a tree of documents and  *)
(* prints it, asking doc_fits() at each group whether it fits on the line. *)
(*                                                                         *)
(* A document is a sequence of nodes in the order they are met, an inner   *)
(* node closed by a node "end".  A step executes one node; the stack holds *)
(* what the C functions keep in local variables while their document is    *)
(* executed.  In the output a character of a text is the position of the   *)
(* node it comes from, the others are the blanks.                          *)
(***************************************************************************)
EXTENDS Integers, Sequences, SequencesExt, FiniteSets

CONSTANTS
    Docs,         \* the documents
    ColumnLimit,  \* style(ColumnLimit)
    UseTab,       \* style_use_tabs()
    TabWidth      \* 8 in the code

ASSUME DocAssumption == ColumnLimit \in Nat /\ UseTab \in BOOLEAN /\ TabWidth \in Nat \ {0}

Ch == 0           \* a character of a text, in a document
Sp == -1
Tab == -2
Nl == -3
Unset == 0         \* no minimizer
Inner == {"group", "indent", "noindent", "optional", "minimize", "scope", "maxlines"}

VARIABLES
    doc,          \* the document
    pc,           \* the node executed next
    st,           \* struct doc_state, its buffer included
    stack,        \* documents being executed, the innermost first
    forced        \* <<node, entry>>: minimizers flagged while they were tried

vars == <<doc, pc, st, stack, forced>>

Node == doc[pc]
Top == Head(stack)
Done == Len(doc) + 2

\* doc_state_init()
State0 ==
    [mode |-> "break", cur |-> 0, pre |-> 0, idx |-> Unset, force |-> Unset, lines |-> 0,
     exceeds |-> 0, col |-> 0, refit |-> FALSE, parens |-> 0, maxlines |-> 2, nl |-> 0,
     newline |-> FALSE, muteline |-> FALSE, optline |-> FALSE, mute |-> 0, out |-> <<>>]

Init == doc \in Docs /\ pc = 1 /\ st = State0 /\ stack = <<>> /\ forced = {}

-----------------------------------------------------------------------------
(* Printing.                                                               *)

IsBlank(ch) == ch \in {Sp, Tab}

\* strwidth()
ToStop(col) == TabWidth - (col % TabWidth)
Advance(col, ch) ==
    CASE ch = Tab -> col + ToStop(col) [] ch = Nl -> 0 [] OTHER -> col + 1
Width(str, col) ==
    LET w[i \in 0..Len(str)] == IF i = 0 THEN col ELSE Advance(w[i - 1], str[i])
    IN  w[Len(str)]

\* doc_column(): the column behind str and how far it exceeds the limit.
Column(s, str) ==
    LET col == Width(str, s.col)
        over == IF col <= ColumnLimit THEN 0
                ELSE IF s.col < ColumnLimit THEN col - ColumnLimit ELSE col - s.col
    IN  [s EXCEPT !.col = col, !.exceeds = @ + over]

\* strindent_buffer(), as doc_print_indent1() calls it: even while muted.
Blanks(n, tabs) ==
    IF tabs THEN [i \in 1..n \div TabWidth |-> Tab] \o [i \in 1..n % TabWidth |-> Sp]
            ELSE [i \in 1..n |-> Sp]
Put(s, str) == [s EXCEPT !.out = @ \o str, !.col = Width(str, @)]

\* doc_print_indent(): behind the parentheses of the line before, if aligned.
PrintIndent(s, n) ==
    IF s.parens > 0 THEN Put(s, Blanks(s.pre + s.parens, UseTab))
    ELSE Put([s EXCEPT !.pre = n], Blanks(n, UseTab))

\* doc_trim_spaces(): a tab is taken to have begun at a tab stop.
Untab(col, ch) ==
    LET w == IF ch = Tab THEN ToStop(col) ELSE 1
    IN  IF w < col THEN col - w ELSE 0
TextEnd(out) ==
    CHOOSE i \in 0..Len(out) : /\ \A j \in i+1..Len(out) : IsBlank(out[j])
                               /\ i > 0 => ~IsBlank(out[i])

TrimSpaces(s) ==
    LET n == TextEnd(s.out)
        col[i \in n..Len(s.out)] ==
            IF i = Len(s.out) THEN s.col ELSE Untab(col[i + 1], s.out[i + 1])
    IN  [s EXCEPT !.out = SubSeq(@, 1, n), !.col = col[n]]

Text(s, str) == Column(IF s.mute # 0 THEN s ELSE [s EXCEPT !.out = @ \o str], str)

\* doc_print() of a new line, unless there are enough of them; it keeps the
\* optional lines if it was pending.
Emit(s, indent, pending) ==
    LET t == [s EXCEPT !.nl = @ + 1, !.lines = @ + 1,
                       !.optline = IF pending THEN @ ELSE FALSE]
        u == Text([TrimSpaces(t) EXCEPT !.idx = IF s.force # Unset THEN Unset ELSE @], <<Nl>>)
    IN  IF indent THEN PrintIndent(u, u.cur) ELSE u

Mutelined(s) == IF s.mute # 0 THEN [s EXCEPT !.muteline = TRUE] ELSE s

\* Mutant: any number of them.
NewLineAlways(s, indent, pending) == Emit(Mutelined(s), indent, pending)

NewLine(s, indent, pending) ==
    IF s.nl >= s.maxlines THEN Mutelined(s) ELSE Emit(Mutelined(s), indent, pending)

\* doc_print(): a pending new line comes first and makes a space redundant.
DocPrint(s, str, indent) ==
    LET flushed == NewLine([s EXCEPT !.refit = TRUE, !.newline = FALSE], indent, TRUE)
    IN  IF str = <<Nl>> THEN IF s.newline THEN flushed ELSE NewLine(s, indent, FALSE)
        ELSE IF ~s.newline THEN Text([s EXCEPT !.nl = 0], str)
        ELSE IF str = <<Sp>> THEN s
        ELSE Text([flushed EXCEPT !.nl = 0], str)

\* The characters of the text of the node at i.
Chars(i) == [k \in DOMAIN doc[i].str |-> IF doc[i].str[k] = Ch THEN i ELSE doc[i].str[k]]

\* doc_exec_align(): with tabs, as many as reach the width.
AlignBlanks(node, col) ==
    LET tabs == IF node.n = 0 THEN 0
                ELSE ((col % TabWidth) + node.n + TabWidth - 1) \div TabWidth
    IN  IF node.tabs THEN [i \in 1..tabs + node.sp |-> IF i <= tabs THEN Tab ELSE Sp]
        ELSE [i \in 1..node.n + node.sp |-> Sp]

-----------------------------------------------------------------------------
(* doc_fits(): the group, walked on one line up to an optional line.       *)

\* The node closing the inner node at i.
EndOf(i) ==
    LET Depth(j) == Cardinality({k \in i..j : doc[k].op \in Inner})
                        - Cardinality({k \in i..j : doc[k].op = "end"})
    IN  CHOOSE j \in i..Len(doc) : Depth(j) = 0 /\ \A k \in i..j-1 : Depth(k) > 0

\* Indentation in force at the end of the walk is dropped with its document.
Visit(f, node) ==
    CASE node.op = "end" -> [f EXCEPT !.cur = Head(f.saved), !.saved = Tail(@)]
      [] node.op \in Inner ->
            [f EXCEPT !.saved = <<f.cur>> \o @,
                      !.cur = IF node.op = "indent" /\ node.kind = "add" /\ node.n > 0
                              THEN @ + node.n ELSE @,
                      !.optline = @ \/ node.op = "optional"]
      [] node.op = "align" -> [f EXCEPT !.col = Width(AlignBlanks(node, @), @)]
      [] node.op = "literal" -> [f EXCEPT !.col = Width(node.str, @)]
      [] node.op = "verbatim" -> [f EXCEPT !.col = IF Last(node.str) = Nl THEN @
                                                   ELSE Width(node.str, @)]
      [] node.op = "line" -> [f EXCEPT !.col = @ + 1]
      [] node.op = "hardline" -> [f EXCEPT !.col = f.cur]
      [] node.op = "optline" -> [f EXCEPT !.done = f.optline]
      [] OTHER -> f

\* Mutant: the space of a line is not counted.
Fits1NoSpace(f, node) ==
    IF f.done \/ node.op # "literal" THEN f
    ELSE LET g == [f EXCEPT !.col = Width(node.str, @)]
         IN  IF g.col > ColumnLimit THEN [g EXCEPT !.done = TRUE, !.fits = FALSE] ELSE g

\* doc_fits1()
Fits1(f, node) ==
    LET g == Visit(f, node)
    IN  IF f.done THEN f
        ELSE IF ~g.done /\ g.col > ColumnLimit THEN [g EXCEPT !.done = TRUE, !.fits = FALSE]
        ELSE g

\* A pending new line ends the walk at once.
DocFits(s, i) ==
    IF s.newline THEN s.col <= ColumnLimit
    ELSE LET walk[j \in i-1..EndOf(i)] ==
                 IF j < i THEN [col |-> s.col, cur |-> s.cur, saved |-> <<>>,
                                optline |-> s.optline, done |-> FALSE, fits |-> TRUE]
                 ELSE Fits1(walk[j - 1], doc[j])
         IN  walk[EndOf(i)].fits

-----------------------------------------------------------------------------
(* doc_exec1() of the nodes without children.                              *)

Step(s) == st' = s /\ pc' = pc + 1 /\ UNCHANGED <<doc, stack, forced>>
At(op) == pc <= Len(doc) /\ Node.op = op

Literal == At("literal") /\ Step(DocPrint(st, Chars(pc), TRUE))

Line ==
    /\ At("line")
    /\ Step(IF st.mode = "break" THEN DocPrint(st, <<Nl>>, TRUE)
            ELSE [DocPrint(st, <<Sp>>, TRUE) EXCEPT !.refit = @ \/ ~st.newline])

Softline ==
    /\ At("softline")
    /\ Step(IF st.mode = "break" THEN DocPrint(st, <<Nl>>, TRUE) ELSE st)

Hardline == At("hardline") /\ Step(DocPrint(st, <<Nl>>, TRUE))

\* A new line pending until the next print.
Optline == At("optline") /\ Step([st EXCEPT !.newline = @ \/ st.optline])

Align == At("align") /\ Step(Put(st, AlignBlanks(Node, st.col)))

\* doc_exec_verbatim(): never indented, a block on lines of its own; the
\* indentation is restored behind it.
Verbatim ==
    /\ At("verbatim")
    /\ LET ends == Last(Node.str) = Nl
           block == ends /\ Len(Node.str) > 1
           t == TrimSpaces(st)
           u == DocPrint([t EXCEPT !.newline = @ \/ (block /\ t.col > 0)], Chars(pc), FALSE)
       IN  Step(IF st.mute # 0 THEN st
                ELSE IF ends THEN PrintIndent(u, IF t.col > 0 THEN u.cur ELSE u.pre) ELSE u)

\* doc_exec_mute(): a new line missed while muted is pending after the mute
\* that ends it, lost after an unmute.
MuteTo(n) ==
    LET t == IF n > 0 \/ st.mute >= -n THEN [st EXCEPT !.mute = @ + n] ELSE st
    IN  IF t.mute # 0 THEN t
        ELSE [t EXCEPT !.nl = 0, !.muteline = FALSE,
                       !.newline = Node.op = "mute" /\ t.muteline]

Mute == (At("mute") \/ At("unmute")) /\ Step(MuteTo(Node.n))

-----------------------------------------------------------------------------
(* doc_exec1() of the inner nodes.                                         *)

Frame == [op |-> Node.op, at |-> pc, s |-> st, trial |-> 0, tried |-> <<>>]
EnterFrame(s, frame) ==
    st' = s /\ pc' = pc + 1 /\ stack' = <<frame>> \o stack /\ UNCHANGED <<doc, forced>>
Enter(s) == EnterFrame(s, Frame)

\* A group within one on a single line is not fitted again unless a new line
\* or a space was printed.
EnterGroup ==
    /\ At("group")
    /\ Enter(IF st.mode = "munge" /\ ~st.refit THEN st
             ELSE [st EXCEPT !.refit = FALSE,
                             !.mode = IF DocFits([st EXCEPT !.refit = FALSE], pc)
                                      THEN "munge" ELSE "break"])

\* doc_parens_align(): only blanks and left parentheses on the line.
IsOpen(ch) == ch > 0 /\ doc[ch].op = "literal" /\ doc[ch].open
ParensAlign(out) ==
    \E i \in 1..Len(out)-1 :
        /\ \A j \in i+1..Len(out) : IsOpen(out[j])
        /\ ~IsOpen(out[i])
        /\ LET bol == {k \in 1..i : out[k] = Nl}
           IN  \A k \in 1..i : (\A b \in bol : k > b) => IsBlank(out[k])

\* doc_exec_indent()
Indented(s, kind, n) ==
    CASE kind = "parens" -> [s EXCEPT !.parens = IF ParensAlign(s.out) THEN @ + 1 ELSE @]
      [] kind = "force" -> PrintIndent(s, s.cur)
      [] kind = "newline" -> [s EXCEPT !.cur = IF s.lines > 0 THEN @ + n ELSE @]
      [] kind = "width" -> [s EXCEPT !.cur = IF s.newline THEN @ ELSE s.col]
      [] kind = "add" -> [s EXCEPT !.cur = IF @ + n > 0 THEN @ + n ELSE 0]
EnterIndent == At("indent") /\ Enter(Indented(st, Node.kind, Node.n))

EnterNoindent == At("noindent") /\ Enter([TrimSpaces(st) EXCEPT !.cur = 0, !.pre = 0])
EnterOptional == At("optional") /\ Enter([st EXCEPT !.optline = TRUE])
EnterScope == At("scope") /\ Enter([st EXCEPT !.lines = 0])
EnterMaxlines == At("maxlines") /\ Enter([st EXCEPT !.maxlines = Node.n])

-----------------------------------------------------------------------------
(* doc_exec_minimize_indent(): each entry is tried from the same state,    *)
(* then the best one is executed.                                          *)

Entry(at, i) == doc[at].entries[i]
Flagged(at, i, flags) == Entry(at, i).force \/ <<at, i>> \in flags

\* doc_exec_minimize_indent1()
EnterEntry(s, at, i, flags) ==
    Indented([s EXCEPT !.force = IF Flagged(at, i, flags) THEN i ELSE @],
             Entry(at, i).kind, Entry(at, i).n)
Try(s, at, i, flags) ==
    EnterEntry([s EXCEPT !.lines = 0, !.exceeds = 0, !.force = Unset, !.idx = i], at, i, flags)

\* Within a minimizer the index is given.
EnterMinimize ==
    /\ At("minimize")
    /\ IF st.idx # Unset
       THEN EnterFrame(EnterEntry(st, pc, st.idx, forced), [Frame EXCEPT !.op = "entry"])
       ELSE EnterFrame(Try(st, pc, 1, forced), [Frame EXCEPT !.trial = 1])

\* The entry with the flag, or the first of least penalty.  Lines and excess
\* weigh the same, each as a share of the most any entry has.
Penalty(tried, i) ==
    LET Most(set) == Max(set \cup {1})
    IN  tried[i].lines * Most({tried[j].exceeds : j \in DOMAIN tried})
            + tried[i].exceeds * Most({tried[j].lines : j \in DOMAIN tried})
Best(at, tried, flags) ==
    LET fl == {i \in DOMAIN tried : Flagged(at, i, flags)}
    IN  CHOOSE b \in DOMAIN tried :
            IF fl # {} THEN b \in fl /\ \A i \in fl : b <= i
            ELSE \A i \in DOMAIN tried :
                    \/ Penalty(tried, b) < Penalty(tried, i)
                    \/ Penalty(tried, b) = Penalty(tried, i) /\ b <= i

AtEnd(op) == pc <= Len(doc) /\ Node.op = "end" /\ Top.op = op

NextTrial ==
    /\ AtEnd("minimize") /\ Top.trial <= Len(doc[Top.at].entries)
    /\ LET at == Top.at
           i == Top.trial
           n == Len(doc[at].entries)
           tried == Append(Top.tried, [lines |-> st.lines, exceeds |-> st.exceeds,
                                       out |-> st.out])
           flags == IF st.force = Unset THEN forced ELSE forced \cup {<<at, i>>}
           best == Best(at, tried, flags)
       IN  /\ forced' = flags
           /\ stack' = <<[Top EXCEPT !.trial = i + 1, !.tried = tried]>> \o Tail(stack)
           /\ st' = IF i < n THEN Try(Top.s, at, i + 1, flags)
                    ELSE EnterEntry([Top.s EXCEPT !.idx = best], at, best, flags)
           /\ pc' = at + 1
    /\ UNCHANGED doc

-----------------------------------------------------------------------------
(* What the inner nodes restore.                                           *)

Leave(s) == st' = s /\ pc' = pc + 1 /\ stack' = Tail(stack) /\ UNCHANGED <<doc, forced>>

LeaveGroup == AtEnd("group") /\ Leave([st EXCEPT !.mode = Top.s.mode])

Dedented(s, kind) ==
    CASE kind = "parens" -> [s EXCEPT !.parens = Top.s.parens]
      [] kind = "force" -> s
      [] OTHER -> [s EXCEPT !.cur = Top.s.cur]
LeaveIndent == AtEnd("indent") /\ Leave(Dedented(st, doc[Top.at].kind))
LeaveEntry == AtEnd("entry") /\ Leave([st EXCEPT !.cur = Top.s.cur])
LeaveMinimize ==
    /\ AtEnd("minimize") /\ Top.trial > Len(doc[Top.at].entries)
    /\ Leave([st EXCEPT !.cur = Top.s.cur, !.idx = Unset])

LeaveNoindent == AtEnd("noindent") /\ Leave([st EXCEPT !.cur = Top.s.cur, !.pre = Top.s.pre])

\* The optional lines may have been cleared by a new line.
LeaveOptional == AtEnd("optional") /\ Leave([st EXCEPT !.optline = @ /\ Top.s.optline])
LeaveScope == AtEnd("scope") /\ Leave(st)
LeaveMaxlines == AtEnd("maxlines") /\ Leave([st EXCEPT !.maxlines = Top.s.maxlines])

\* doc_trim_lines(), as doc_exec() ends.
Finish ==
    /\ pc = Len(doc) + 1
    /\ LET out == st.out
           last == Len(out)
           keep == CHOOSE n \in 0..last :
                       /\ \A k \in n+1..last : k > 1 /\ out[k] = Nl /\ out[k-1] = Nl
                       /\ n > 1 => ~(out[n] = Nl /\ out[n-1] = Nl)
       IN  st' = [st EXCEPT !.out = SubSeq(@, 1, keep)]
    /\ pc' = Done /\ UNCHANGED <<doc, stack, forced>>

Next ==
    \/ Literal \/ Line \/ Softline \/ Hardline \/ Optline \/ Align \/ Verbatim \/ Mute
    \/ EnterGroup \/ EnterIndent \/ EnterNoindent \/ EnterOptional \/ EnterScope
    \/ EnterMaxlines \/ EnterMinimize \/ NextTrial
    \/ LeaveGroup \/ LeaveIndent \/ LeaveEntry \/ LeaveMinimize \/ LeaveNoindent
    \/ LeaveOptional \/ LeaveScope \/ LeaveMaxlines \/ Finish

Spec == Init /\ [][Next]_vars

-----------------------------------------------------------------------------
(* Correctness.                                                            *)

\* The state stays in its domain: the indentation and the number of mutes
\* never drop below zero, however the document nests dedents and unmutes.
TypeOK ==
    /\ pc \in 1..Done
    /\ st.mode \in {"break", "munge"}
    /\ {st.cur, st.pre, st.col, st.lines, st.exceeds, st.parens, st.nl, st.mute} \subseteq Nat
    /\ st.idx \in Nat /\ st.force \in Nat /\ st.maxlines \in Nat
    /\ {st.refit, st.newline, st.muteline, st.optline} \subseteq BOOLEAN
    /\ \A i \in DOMAIN stack : doc[stack[i].at].op \in Inner

MutesBefore(i) ==
    LET Of(n) == Cardinality({k \in 1..i : doc[k].op \in {"mute", "unmute"} /\ doc[k].n = n})
    IN  Of(1) - Of(-1)
IsText(i) == doc[i].op \in {"literal", "verbatim"}

\* Every text outside muted parts of the document is printed once and in
\* order, though minimizers execute their documents several times.
TextPrinted ==
    pc = Done =>
        /\ \A i \in DOMAIN doc : IsText(i) =>
            Cardinality({k \in DOMAIN st.out : st.out[k] = i}) =
                IF MutesBefore(i) > 0 THEN 0
                ELSE Cardinality({k \in DOMAIN doc[i].str : doc[i].str[k] = Ch})
        /\ \A j, k \in DOMAIN st.out :
            j < k /\ st.out[j] > 0 /\ st.out[k] > 0 => st.out[j] <= st.out[k]

Plain(i) ==
    \A k \in i..EndOf(i) :
        /\ doc[k].op \in {"group", "indent", "literal", "line", "softline", "align", "end", "scope"}
        /\ doc[k].op = "indent" => doc[k].kind # "force"

\* A group found to fit is printed on the rest of the line and not past the
\* limit, the groups in it included, which are fitted again behind a space:
\* doc_fits() and doc_exec() agree on every document without forced lines and
\* indentation.
FitsKept ==
    \A k \in DOMAIN stack :
        LET f == stack[k]
        IN  f.op = "group" /\ ~f.s.newline /\ DocFits(f.s, f.at) /\ Plain(f.at)
                => /\ st.col <= ColumnLimit
                   /\ Nl \notin Range(SubSeq(st.out, Len(f.s.out) + 1, Len(st.out)))

\* No more than two new lines in a row, though they come from broken groups,
\* hard lines, optional lines and pending ones; the new line a verbatim block
\* ends with is not counted.
LinesBounded ==
    \A i \in 1..Len(st.out)-2 :
        (\A k \in i..i+2 : st.out[k] = Nl)
            => /\ i > 1 => st.out[i - 1] > 0 /\ doc[st.out[i - 1]].op = "verbatim"
               /\ i + 3 <= Len(st.out) => st.out[i + 3] # Nl

\* No blanks at the end of a line.
NoTrailingBlanks == \A i \in 2..Len(st.out) : st.out[i] = Nl => ~IsBlank(st.out[i - 1])

LastLine(out) ==
    LET bol == CHOOSE n \in 0..Len(out) : /\ n > 0 => out[n] = Nl
                                          /\ \A k \in n+1..Len(out) : out[k] # Nl
    IN  SubSeq(out, bol + 1, Len(out))

\* The column the decisions rest on is that of the text printed, after
\* trimming, verbatim text and the trials of a minimizer.
ColumnExact ==
    (\A i \in DOMAIN doc : doc[i].op # "mute") => st.col = Width(LastLine(st.out), 0)

\* A verbatim block, a comment or a directive with its new line, is on lines
\* of its own and never indented.
BlocksAlone ==
    \A i \in 1..Len(st.out) :
        st.out[i] > 0 /\ doc[st.out[i]].op = "verbatim" /\ Last(doc[st.out[i]].str) = Nl
            /\ (i > 1 => st.out[i - 1] # st.out[i])
                => i = 1 \/ st.out[i - 1] = Nl

NoFlags == forced = {} /\ \A i \in DOMAIN doc :
    doc[i].op = "minimize" => \A e \in DOMAIN doc[i].entries : ~doc[i].entries[e].force

\* The last execution of a minimizer prints what the trial of the entry it
\* chose printed, and no other trial was better: entries within it choose as
\* they did in the trial.  Not so once a flag is set somewhere, which makes
\* a new line forget the choice.
BestPrinted ==
    AtEnd("minimize") /\ Top.trial > Len(doc[Top.at].entries) /\ NoFlags
        => /\ \E t \in DOMAIN Top.tried : Top.tried[t].out = st.out
           /\ ~ \E t \in DOMAIN Top.tried :
                /\ Top.tried[t].lines < st.lines - Top.s.lines
                /\ Top.tried[t].exceeds < st.exceeds - Top.s.exceeds
=============================================================================
