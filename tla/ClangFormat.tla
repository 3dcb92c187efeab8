---------------------------- MODULE ClangFormat ----------------------------
(***************************************************************************)
(* Regions between "clang-format off" and "clang-format on" comments while *)
(* parser_exec() takes branches and recovers (parser.c).  A region is      *)
(* muted as it is traversed and its lines replayed at its end.  Composes   *)
(* ParserLoop, in whose file any prefix may be such a comment, on lines of *)
(* its own unless it is an "off" followed by code on the same line.        *)
(***************************************************************************)
EXTENDS ParserLoop

CONSTANT Marks  \* comments to be found: "off", "on", "off inline"

VARIABLES
    mark,    \* TOKEN_FLAG_COMMENT_CLANG_FORMAT_{OFF,ON} of the prefixes, or "none"
    off,     \* pr_token.clang_format_off or Null
    forgot   \* whether parser_reset() has forgotten a region (history)

regionVars == <<loopVars, mark, off, forgot>>

RegionInit ==
    /\ LoopInit
    /\ mark = [p \in Id |-> "none"]
    /\ off = Null
    /\ forgot = FALSE

\* clang_read_comment() tells these comments from others.
ReadComment ==
    /\ ReadPrefix("cpp")
    /\ \E m \in Marks : mark' = [mark EXCEPT ![rd] = m]
    /\ UNCHANGED <<parseVars, off, forgot>>

-----------------------------------------------------------------------------
(* What parser_doc_token() emits; the text of a region is <<lo, hi, "raw">>. *)

\* clang_format_verbatim(): the lines from the one behind "off" up to last.
VerbatimTo(o, last) ==
    IF o = Null THEN <<>>
    ELSE <<Mute(-1), <<IF mark[o] = "off" THEN o + 1 ELSE o, last, "raw">>>>

PrefixText(p) == <<IF p > MaxLen THEN p - MaxLen ELSE p, cover[p]>>

\* clang_format_on(), the prefix itself and clang_format_off().  They do
\* nothing while branching.
FormatPrefix(s, p, active) ==
    LET closes == active /\ mark[p] = "on"
        opens == active /\ mark[p] \in {"off", "off inline"} /\ s.off = Null
    IN  [off   |-> IF opens THEN p ELSE IF closes THEN Null ELSE s.off,
         items |-> s.items \o (IF closes THEN VerbatimTo(s.off, p - 1) ELSE <<>>)
                   \o <<PrefixText(p)>> \o (IF opens THEN <<Mute(1)>> ELSE <<>>)]

FormatToken(t) ==
    LET active == unmute = Null \/ t = unmute
        start == [off |-> off, items |-> IF t = unmute THEN <<Mute(-1)>> ELSE <<>>]
        s == FoldLeft(LAMBDA a, p : FormatPrefix(a, p, active), start, h.pfx[t])
        nx == TokenNext(h, t)
    IN  [s EXCEPT !.items = @ \o <<PrefixText(t)>>
                              \o (IF nx # Null /\ nx \in h.flag THEN <<Mute(1)>> ELSE <<>>)]

FormatConsume ==
    /\ pc = "unit"
    /\ ~Halts /\ h.kind[Upcoming] # "eof"
    /\ LET out == FormatToken(Upcoming)
       IN  docs' = [docs EXCEPT ![Len(docs)] = @ \o out.items] /\ off' = out.off
    /\ st' = Upcoming
    /\ unmute' = IF Upcoming = unmute THEN Null ELSE unmute
    /\ UNCHANGED <<vars, pc, stamps, cover, shared, branched, recovered, mark, forgot>>

\* Mutant: a region still open at the end of the file is not replayed.
FormatEofOpen ==
    /\ pc = "loop"
    /\ ~Halts /\ h.kind[Upcoming] = "eof"
    /\ docs' = IF h.pfx[Upcoming] = <<>> THEN docs ELSE Append(docs, FormatToken(Upcoming).items)
    /\ off' = Null
    /\ st' = Upcoming
    /\ unmute' = IF h.pfx[Upcoming] # <<>> /\ Upcoming = unmute THEN Null ELSE unmute
    /\ pc' = "done"
    /\ UNCHANGED <<vars, stamps, cover, shared, branched, recovered, mark, forgot>>

FormatEof ==
    /\ pc = "loop"
    /\ ~Halts /\ h.kind[Upcoming] = "eof"
    /\ LET out == IF h.pfx[Upcoming] = <<>> THEN [off |-> off, items |-> <<>>]
                  ELSE FormatToken(Upcoming)
       IN  docs' = docs \o <<out.items, VerbatimTo(out.off, tk - 1)>>
    /\ off' = Null
    /\ st' = Upcoming
    /\ unmute' = IF h.pfx[Upcoming] # <<>> /\ Upcoming = unmute THEN Null ELSE unmute
    /\ pc' = "done"
    /\ UNCHANGED <<vars, stamps, cover, shared, branched, recovered, mark, forgot>>

-----------------------------------------------------------------------------
(* parser_reset() behind clang_branch() and clang_recover().                 *)

\* lexer_peek(): what is to be traversed next.
Peeked(g, t) ==
    LET nx == IF t = Null THEN Head(g.toks) ELSE IF g.kind[t] = "eof" THEN t ELSE TokenNext(g, t)
    IN  IF nx \in g.flag THEN EndOfBranch(g, nx) ELSE nx

\* "Remove last clang-format off if about to be traversed again."
Again(g, t) == off # Null /\ Peeked(g, t) < off

Reset ==
    /\ off' = IF Again(h', st') THEN Null ELSE off
    /\ forgot' = (forgot \/ Again(h', st'))
    /\ UNCHANGED mark

RegionNext ==
    \/ ReadFile /\ UNCHANGED <<mark, off, forgot>>
    \/ ReadComment
    \/ StartParsing /\ UNCHANGED <<mark, off, forgot>>
    \/ EnterUnit /\ UNCHANGED <<mark, off, forgot>>
    \/ FormatConsume
    \/ FormatEof
    \/ Halt /\ UNCHANGED <<mark, off, forgot>>
    \/ Good /\ UNCHANGED <<mark, off, forgot>>
    \/ Branch /\ Reset
    \/ Recover /\ Reset
    \/ Fail /\ UNCHANGED <<mark, off, forgot>>

RegionSpec == RegionInit /\ [][RegionNext]_regionVars

-----------------------------------------------------------------------------
(* Properties.                                                               *)

\* The comment a region was opened by is one that opens regions: clang.c keeps
\* a pointer to its prefix, which may have been removed since.
OpenedByOff == off # Null => mark[off] \in {"off", "off inline"}

\* As OutputComplete: regions crossed by branches neither lose nor repeat
\* text unless one has been forgotten or source was invalid.
RegionComplete == ~shared /\ recovered = 0 /\ ~forgot => Complete

\* Positions of code between an "off" and the next "on" of the file.
Inside == {i \in 1..tk - 1 : \E o \in 1..i - 1 :
              mark[o] = "off" /\ \A p \in o..i : mark[p] # "on"}
\* As Exec, of the replayed text only.
ExecRaw(s, item) ==
    LET x == ExecItem(s, item)
    IN  IF Len(item) = 3 THEN x ELSE [x EXCEPT !.out = s.out]
Raw == FoldLeft(ExecRaw, [mute |-> 0, out |-> <<>>], FlattenSeq(docs)).out

\* What is inside a region, and nothing else, is emitted as it was.
RegionVerbatim ==
    pc = "done" /\ ~shared /\ recovered = 0 /\ ~forgot =>
        \A i \in 1..tk - 1 : i \in ToSet(Raw) <=> i \in Inside

\* Regions and branches crossing each other: the text is emitted once and in
\* order, that of a region as it was written.
RegionsKept == OpenedByOff /\ RegionComplete /\ RegionVerbatim

\* On valid source all of the file is emitted, whatever branches and regions
\* it has.
BranchedRegions == recovered = 0 /\ ~shared => Complete

\* Nothing of what is emitted before a recovery is emitted again afterwards.
RecoveredRegions == branched = 0 /\ recovered = 1 => Complete

\* The same of a file without any branches.
InlineRegions == branched = 0 /\ recovered = 0 => Complete
=============================================================================
