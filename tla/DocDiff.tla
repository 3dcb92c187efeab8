------------------------------ MODULE DocDiff ------------------------------
(***************************************************************************)
(* The document engine of doc.c given a diff: groups of documents touched  *)
(* by a chunk of the diff are printed, the lines in between are copied     *)
(* from the source.                                                        *)
(*                                                                         *)
(* As in DocExec a document is a sequence of nodes and a step executes one *)
(* of them.  What this module leaves out, widths and indentation, does not *)
(* matter here: the output is a sequence of source lines, tokens (by node, *)
(* behind the lines) and new lines.                                        *)
(***************************************************************************)
EXTENDS Integers, Sequences, SequencesExt, FiniteSets

CONSTANTS
    Inputs       \* [nodes, lines, changed]: document, number of lines, changed lines

Nl == 0
Tok(i) == 100 + i
NoGroup == 0

VARIABLES input, pc, st, groups, ok
vars == <<input, pc, st, groups, ok>>

nodes == input.nodes
Node == nodes[pc]
Finished == Len(nodes) + 2

\* The chunks: runs of changed lines.
Changed(n) == n \in input.changed
GetChunk(n) ==
    LET end == CHOOSE e \in n..input.lines : /\ \A k \in n..e : Changed(k)
                                             /\ ~Changed(e + 1)
    IN  IF Changed(n) THEN end ELSE 0

\* doc_state_init(): the first line is not yet emitted.
Init ==
    /\ input \in Inputs /\ pc = 1 /\ groups = <<>> /\ ok = TRUE
    /\ st = [verb |-> 0, group |-> NoGroup, many |-> FALSE, dmute |-> 0, beg |-> 1, end |-> 0,
             dmuteline |-> FALSE, mute |-> 0, nl |-> 0, newline |-> FALSE, muteline |-> FALSE,
             col |-> FALSE, out |-> <<>>]

-----------------------------------------------------------------------------
(* doc_print()                                                             *)

\* doc_diff_is_mute() and doc_is_mute()
DiffMute(s) == s.end = 0 \/ s.verb # 0
IsMute(s) == s.mute # 0 \/ DiffMute(s)

NewLine(s, force) ==
    LET mute == IsMute(s) /\ ~force
        m == [s EXCEPT !.muteline = @ \/ mute, !.newline = FALSE]
    IN  IF s.nl >= 2 THEN m
        ELSE [m EXCEPT !.nl = @ + 1, !.col = FALSE, !.out = IF mute THEN @ ELSE Append(@, Nl)]

\* items: what is printed; ends: whether it ends its line.
DocPrint(s, items, ends, force) ==
    LET t == IF s.newline THEN NewLine(s, force) ELSE s
    IN  [t EXCEPT !.nl = 0, !.col = ~ends,
                  !.out = IF IsMute(s) /\ ~force THEN @ ELSE @ \o items]

\* doc_diff_emit(): the lines from beg up to end, or the last one if 0.
ResetLines(s) == [s EXCEPT !.nl = 0, !.newline = FALSE, !.muteline = FALSE]
IsBlank(n) == ~ \E i \in DOMAIN nodes : nodes[i].op \in {"literal", "verbatim"} /\ nodes[i].lno = n

DiffEmit(s, beg, end) ==
    LET lim == IF end = 0 THEN input.lines + 1 ELSE end
        lines == [i \in 1..lim - beg |-> beg + i - 1]
        t == ResetLines(s)
    IN  IF beg > input.lines + 1 \/ end > input.lines + 1 THEN s
        ELSE IF lines = <<>> THEN t
        ELSE [DocPrint(t, lines, TRUE, TRUE) EXCEPT !.nl = IF lim = beg + 1 /\ IsBlank(beg) THEN 1 ELSE 0]

-----------------------------------------------------------------------------
(* Groups and chunks.                                                      *)

EndOf(i) ==
    LET Depth(j) == Cardinality({k \in i..j : nodes[k].op = "group"})
                        - Cardinality({k \in i..j : nodes[k].op = "end"})
    IN  CHOOSE j \in i..Len(nodes) : Depth(j) = 0 /\ \A k \in i..j-1 : Depth(k) > 0

\* TOKEN_FLAG_DIFF of the token of a node
HasDiff(node) == Changed(node.lno)

\* doc_diff_covers() for one node; below: stop at a token in front of the
\* threshold.
Covers(dd, i, threshold, stop) ==
    LET node == nodes[i]
        d == IF node.op = "verbatim" /\ ~HasDiff(node) THEN [dd EXCEPT !.verb = i] ELSE dd
    IN  IF dd.done THEN dd
        ELSE IF node.op = "hardline" THEN [dd EXCEPT !.covers = "ignore", !.done = TRUE]
        ELSE IF node.op \notin {"literal", "verbatim"} THEN dd
        ELSE IF node.lno < threshold THEN [d EXCEPT !.verb = 0, !.done = stop]
        ELSE LET f == [d EXCEPT !.first = IF @ = 0 THEN node.lno ELSE @]
             IN  IF HasDiff(node) THEN [f EXCEPT !.tk = i, !.covers = "covered", !.done = TRUE]
                 ELSE f

Walk(g, threshold, stop) ==
    LET walk[i \in g-1..EndOf(g)] ==
            IF i < g THEN [verb |-> 0, tk |-> 0, first |-> 0, covers |-> "not_covered", done |-> FALSE]
            ELSE Covers(walk[i - 1], i, threshold, stop)
    IN  walk[EndOf(g)]

\* Mutant: the line behind the chunk is skipped.
ClosedLate(s, n) ==
    LET t == [s EXCEPT !.beg = s.end + n + 1, !.end = 0, !.mute = s.dmute, !.dmute = 0]
    IN  IF t.newline THEN NewLine(t, TRUE) ELSE t

\* doc_diff_leave(), up to the chunk that may follow in the same group.
Closed(s, n) ==
    LET t == [s EXCEPT !.beg = s.end + n, !.end = 0, !.mute = s.dmute, !.dmute = 0]
    IN  IF t.newline THEN NewLine(t, TRUE) ELSE t

\* doc_diff_group_enter(), the group being covered and no chunk entered: the
\* lines in front are emitted, up to the last verbatim token not covered.
Open(s, g, dd) ==
    LET verb == nodes[dd.verb]
        du == GetChunk(nodes[dd.tk].lno)
        t == [s EXCEPT !.group = g, !.many = @ \/ Walk(g, du + 1, FALSE).covers = "covered",
                       !.end = du, !.dmute = s.mute, !.mute = 0, !.verb = dd.verb]
    IN  DiffEmit(t, s.beg, IF dd.verb # 0 THEN verb.lno + verb.n ELSE dd.first)

\* Mutant: a group that is not covered does not end the chunk.
GroupEnterStay(s, g, nested) ==
    LET dd == Walk(g, s.beg, ~nested)
        t == IF dd.covers = "covered" /\ s.end > 0 /\ dd.first > s.end THEN Closed(s, 1) ELSE s
    IN  CASE dd.covers = "ignore" -> s
          [] dd.covers = "not_covered" -> [t EXCEPT !.group = g]
          [] dd.covers = "covered" ->
                IF t.end > 0 THEN [t EXCEPT !.group = g] ELSE Open(t, g, dd)

\* doc_diff_group_enter() of group g.
GroupEnter(s, g, nested) ==
    LET dd == Walk(g, s.beg, ~nested)
        leaves == \/ dd.covers = "not_covered" /\ s.end > 0
                  \/ dd.covers = "covered" /\ s.end > 0 /\ dd.first > s.end
        t == IF leaves THEN Closed(s, 1) ELSE s
    IN  CASE dd.covers = "ignore" -> s
          [] dd.covers = "not_covered" -> [t EXCEPT !.group = g]
          [] dd.covers = "covered" ->
                IF t.end > 0 THEN [t EXCEPT !.group = g] ELSE Open(t, g, dd)

\* doc_diff_leave(): the group may cover another chunk.
Leave(s, n) ==
    LET t == Closed(s, n)
    IN  IF n = 0 THEN s ELSE IF t.many THEN GroupEnter(t, t.group, TRUE) ELSE t

\* The assertions of doc_diff_leave().
MayLeave(s) == s.end > 0 /\ s.verb = 0

-----------------------------------------------------------------------------
(* Execution.                                                              *)

At(op) == pc <= Len(nodes) /\ Node.op = op
Step(s) == st' = s /\ pc' = pc + 1 /\ UNCHANGED <<input, groups>>

\* Only the first group, or those in one that was ignored.
EnterGroup ==
    /\ At("group")
    /\ LET first == st.group = NoGroup
           s == IF first THEN GroupEnter(st, pc, FALSE) ELSE st
       IN  /\ st' = s
           /\ groups' = <<first /\ s.group = pc>> \o groups
           /\ ok' = (ok /\ (first /\ s.end # st.end /\ st.end > 0 => MayLeave(st)))
    /\ pc' = pc + 1 /\ UNCHANGED input

\* doc_diff_group_leave()
LeaveGroup ==
    /\ At("end")
    /\ st' = IF Head(groups) THEN [st EXCEPT !.group = NoGroup, !.many = FALSE] ELSE st
    /\ ok' = (ok /\ (Head(groups) => st.group # NoGroup))
    /\ groups' = Tail(groups) /\ pc' = pc + 1 /\ UNCHANGED input

\* doc_diff_literal(): the group reaches beyond the chunk, or the chunk ends
\* in front of a token outside of groups.
DiffLiteral ==
    IF st.end = 0 \/ Node.lno <= st.end THEN st
    ELSE IF st.group # NoGroup THEN [st EXCEPT !.end = Node.lno] ELSE Leave(st, 1)

Literal ==
    /\ At("literal")
    /\ Step(DocPrint(DiffLiteral, <<Tok(pc)>>, FALSE, FALSE))
    /\ ok' = (ok /\ (st.end > 0 /\ Node.lno > st.end /\ st.group = NoGroup => MayLeave(st)))

Hardline == At("hardline") /\ Step(NewLine(st, FALSE)) /\ UNCHANGED ok

\* The token the lines in front were emitted with unmutes.
Unmute(s) == [s EXCEPT !.verb = IF @ = pc THEN 0 ELSE @]

\* doc_exec_verbatim() and doc_diff_verbatim(): the token all lines in front
\* were emitted with is the one that unmutes; the chunk is left behind a token
\* that ends beyond it.
Verbatim ==
    /\ At("verbatim")
    /\ LET lno == Node.lno
           ends == Node.n > 0
           beyond == st.end > 0 /\ lno > st.end
           after == IF st.end > 0 /\ ~beyond /\ ends /\ lno + Node.n > st.end
                    THEN lno + Node.n - st.end ELSE 0
           s == IF beyond THEN Leave(st, 1) ELSE st
           t == [s EXCEPT !.newline = @ \/ (Node.block /\ s.col)]
           u == IF ends /\ ~Node.block
                THEN NewLine(t, FALSE)
                ELSE DocPrint(t, <<Tok(pc)>>, ends, FALSE)
           v == Unmute(u)
       IN  IF IsMute(st) /\ st.verb # pc THEN Step(st) /\ UNCHANGED ok
           ELSE /\ Step(Leave(v, after))
                /\ ok' = (ok /\ (beyond => MayLeave(st)) /\ (after > 0 => MayLeave(v)))

\* doc_exec_mute() with doc_diff_mute_enter() and doc_diff_mute_leave()
Mute ==
    /\ At("mute")
    /\ LET n == Node.n
           s == IF st.mute = 0 /\ n > 0 /\ ~DiffMute(st) THEN [st EXCEPT !.dmuteline = TRUE] ELSE st
           t == IF n > 0 \/ s.mute >= -n THEN [s EXCEPT !.mute = @ + n] ELSE s
           u == IF t.dmuteline /\ t.muteline THEN NewLine(ResetLines(t), TRUE) ELSE t
       IN  Step(IF t.mute # 0 THEN t
                ELSE [ResetLines(u) EXCEPT !.newline = u.muteline, !.dmuteline = FALSE])
    /\ UNCHANGED ok

\* doc_diff_exit()
Exit ==
    /\ pc = Len(nodes) + 1
    /\ LET s == IF st.end > 0 THEN Leave(st, 1) ELSE st
       IN  st' = DiffEmit(s, s.beg, 0)
    /\ ok' = (ok /\ (st.end > 0 => MayLeave(st)))
    /\ pc' = Finished /\ UNCHANGED <<input, groups>>

Next == EnterGroup \/ LeaveGroup \/ Literal \/ Hardline \/ Verbatim \/ Mute \/ Exit
Spec == Init /\ [][Next]_vars

-----------------------------------------------------------------------------
(* Correctness.                                                            *)

\* Types of the state of doc_exec(): remembered groups and verbatims are
\* documents, what is printed are lines of the file or of documents.
TypeOK ==
    /\ pc \in 1..Finished
    /\ st.verb \in 0..Len(nodes) /\ st.group \in 0..Len(nodes)
    /\ {st.beg, st.end, st.mute, st.dmute, st.nl} \subseteq Nat
    /\ \A i \in DOMAIN st.out : st.out[i] \in 0..input.lines \cup {Tok(k) : k \in DOMAIN nodes}

\* A token traversed again after branching has several nodes.
Same(i, j) == nodes[i].op = nodes[j].op /\ nodes[i].lno = nodes[j].lno
Copied(n) == \E i \in DOMAIN st.out : st.out[i] = n
Printed(i) == \E k \in DOMAIN nodes : Same(i, k) /\ \E j \in DOMAIN st.out : st.out[j] = Tok(k)

IsText(i) == nodes[i].op = "literal" \/ (nodes[i].op = "verbatim" /\ (nodes[i].n = 0 \/ nodes[i].block))

\* Nothing is lost: a token is printed or on a line copied from the source.
NothingLost ==
    pc = Finished => \A i \in DOMAIN nodes : IsText(i) => Printed(i) \/ Copied(nodes[i].lno)

\* Nothing is written twice: it is only one of them, once.
NothingTwice ==
    /\ \A j, k \in DOMAIN st.out :
        j # k /\ st.out[j] # Nl =>
            /\ st.out[j] # st.out[k]
            /\ st.out[j] < 100 \/ st.out[k] < 100 \/ ~Same(st.out[j] - 100, st.out[k] - 100)
    /\ \A i \in DOMAIN nodes : IsText(i) => ~(Printed(i) /\ Copied(nodes[i].lno))

LineOf(item) == IF item >= 100 THEN nodes[item - 100].lno ELSE item

\* Lines and tokens keep their order.
InOrder ==
    \A j, k \in DOMAIN st.out :
        j < k /\ st.out[j] # Nl /\ st.out[k] # Nl => LineOf(st.out[j]) <= LineOf(st.out[k])

EndsLine(item) ==
    item < 100 \/ (nodes[item - 100].op = "verbatim" /\ nodes[item - 100].n > 0)

\* A copied line starts a line.
LinesWhole ==
    \A k \in 2..Len(st.out) :
        st.out[k] \in 1..input.lines => EndsLine(st.out[k - 1])

BlockWithin == \E i \in 2..Len(nodes) : /\ nodes[i - 1].op = "literal"
                                        /\ nodes[i].op = "verbatim" /\ nodes[i].block

\* Which holds as long as no comment or directive is in the middle of a group.
LinesWholeBetween == BlockWithin \/ LinesWhole

Groups == {g \in DOMAIN nodes : nodes[g].op = "group"}
Texts(g) == {k \in g..EndOf(g) : IsText(k)}
FirstLine(g) == {k \in Texts(g) : \A h \in g..k : nodes[h].op # "hardline"}

\* Formatting stays local: what is printed is on a changed line or in a group
\* that has one in front of its first hard line.
OnlyTouched ==
    pc = Finished =>
        LET touched == {g \in Groups : \E k \in FirstLine(g) : HasDiff(nodes[k])}
        IN  \A i \in DOMAIN nodes : IsText(i) /\ Printed(i) =>
                HasDiff(nodes[i]) \/ \E g \in touched : \E k \in Texts(g) : Same(i, k)

\* "Only format changed lines" (knfmt.1): the changed lines on which groups
\* are, are formatted.
ChangedPrinted ==
    pc = Finished =>
        \A i \in UNION {FirstLine(g) : g \in Groups} : HasDiff(nodes[i]) => Printed(i)

SameChunk(n, m) == \A k \in (n..m \cup m..n) : Changed(k)
NoLateChunk(g) ==
    LET texts == Texts(g)
        chunked == {k \in texts : HasDiff(nodes[k])}
    IN  \A k, m \in chunked : ~SameChunk(nodes[k].lno, nodes[m].lno) =>
            ~ \E i \in 1..g-1 : IsText(i) /\ SameChunk(nodes[i].lno, nodes[k].lno)

\* So they are as long as no group that begins in the chunk of an earlier text
\* has another chunk.
ChunksPrinted ==
    pc = Finished /\ (\A g \in Groups : NoLateChunk(g)) => ChangedPrinted

\* The assertions of the code hold.
NeverAsserts == ok
=============================================================================
