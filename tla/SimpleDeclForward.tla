------------------------- MODULE SimpleDeclForward -------------------------
(***************************************************************************)
(* Sorting of forward declarations (simple-decl-forward.c), as the walk of *)
(* parser-decl.c over the declarations of a file comes by them.            *)
(*                                                                         *)
(* A file is a sequence of things [k, key, cpp, blank, diff].  "fwd": a    *)
(* forward declaration of the struct key; "decl": any other declaration;   *)
(* "proto": a prototype or macro, which parser_decl2() hands to others;    *)
(* "func": what is not a declaration.  cpp: a directive is in front of it; *)
(* blank: a blank line behind it; diff: all of it is in a diff chunk.      *)
(* The first and the last token stand for those between them.              *)
(***************************************************************************)
EXTENDS Naturals, Sequences, FiniteSets, SequencesExt

CONSTANT Files

VARIABLES
    file,       \* the things as they were read
    toks,       \* tokens [d, semi, cpp, blank] of the thing d, in order
    at,         \* place among the tokens of parser_root(), which nothing ahead of it moves
    cur,        \* the thing parser_decl1() is at
    phase,      \* "root", "dry" with the pass enabled, "decl" without, "done"
    decls,      \* sd->decls: things
    after,      \* sd->after: the thing of that semicolon, or 0
    pass,       \* files are formatted twice
    once        \* the tokens when they had been formatted once
vars == <<file, toks, at, cur, phase, decls, after, pass, once>>

Pos(d, semi) == CHOOSE i \in DOMAIN toks : toks[i].d = d /\ toks[i].semi = semi
At(d) == Pos(d, FALSE)
ThingAt(i) == IF i > Len(toks) THEN 0 ELSE toks[i].d
K(d) == IF d = 0 THEN "func" ELSE file[d].k

TokensOf(f) ==
    [i \in 1..2 * Len(f) |->
        LET d == (i + 1) \div 2
        IN  [d |-> d, semi |-> i % 2 = 0, cpp |-> i % 2 = 1 /\ f[d].cpp, blank |-> i % 2 = 0 /\ f[d].blank]]

-----------------------------------------------------------------------------
(* Leaving the pass.                                                       *)

\* qsort() leaves the order of equal names open.
SortedDecls(ds) ==
    {s \in SetToSeqs(ToSet(ds)) : \A i, j \in DOMAIN s : i < j => file[s[i]].key <= file[s[j]].key}

\* The directives in front of the first declaration and the lines behind the
\* last one stay where they are.
MoveFix(ts, src, dst, semi) ==
    LET from == ts[Pos(src, semi)]
    IN  [i \in DOMAIN ts |->
            IF src = dst \/ ts[i].semi # semi THEN ts[i]
            ELSE IF ts[i].d = src THEN [ts[i] EXCEPT !.cpp = FALSE, !.blank = FALSE]
            ELSE IF ts[i].d = dst THEN [ts[i] EXCEPT !.cpp = @ \/ from.cpp, !.blank = @ \/ from.blank]
            ELSE ts[i]]
Fix(ts, src, dst, semi) == MoveFix(ts, src, dst, semi)

MoveAfter(ts, dst, d, semi) ==
    LET place(s, t) == CHOOSE i \in DOMAIN s : s[i].d = t[1] /\ s[i].semi = t[2]
        i == place(ts, dst)
        rest == RemoveAt(ts, place(ts, <<d, semi>>))
    IN  IF i < Len(ts) /\ ts[i + 1].d = d /\ ts[i + 1].semi = semi THEN ts
        ELSE InsertAt(rest, place(rest, dst) + 1, ts[place(ts, <<d, semi>>)])
RECURSIVE Placed(_, _, _)
Placed(ts, dst, ds) ==
    IF ds = <<>> THEN ts
    ELSE Placed(MoveAfter(MoveAfter(ts, dst, ds[1], FALSE), <<ds[1], FALSE>>, ds[1], TRUE), <<ds[1], TRUE>>, Tail(ds))

\* What leaving may make of the tokens.
Left(ds) ==
    IF Len(ds) < 2 THEN {toks}
    ELSE {Placed(Fix(Fix(toks, ds[1], s[1], FALSE), ds[Len(ds)], s[Len(ds)], TRUE), <<after, TRUE>>, s) : s \in SortedDecls(ds)}
Reset == decls' = <<>> /\ after' = 0

Leave == toks' \in Left(decls) /\ Reset

-----------------------------------------------------------------------------
(* parser_decl1() with the pass: nothing is consumed.                      *)

Init ==
    /\ file \in Files
    /\ toks = TokensOf(file)
    /\ at = 1 /\ cur = 0 /\ phase = "root"
    /\ decls = <<>> /\ after = 0
    /\ pass = 1 /\ once = <<>>

Ends(d) == LET i == Pos(d, TRUE) IN toks[i].blank \/ (i < Len(toks) /\ toks[i + 1].cpp)

\* parser_root() comes by declarations, or by something else that ends them.
Root ==
    /\ phase = "root" /\ at <= Len(toks)
    /\ IF K(ThingAt(at)) = "func"
       THEN at' = at + 2 /\ UNCHANGED <<cur, phase>>
       ELSE cur' = ThingAt(at) /\ phase' = "dry" /\ UNCHANGED at
    /\ UNCHANGED <<file, toks, decls, after, pass, once>>

\* simple_decl_forward() at the semicolon of a forward declaration.  One that
\* is not covered by the diff is not taken and does not end the group either.
Covered(d) == file[d].diff
\* Mutant: declarations are placed behind the last of the group.
AfterLast(d) == d
AfterOf(d) == IF after = 0 THEN d ELSE after
Forward ==
    /\ phase = "dry" /\ cur # 0 /\ K(cur) = "fwd"
    /\ IF Covered(cur)
       THEN decls' = Append(decls, cur) /\ after' = AfterOf(cur)
       ELSE UNCHANGED <<decls, after>>
    /\ UNCHANGED toks

\* Any other declaration ends the group, what has no semicolon of its own not.
Other ==
    /\ phase = "dry" /\ cur # 0
    /\ \/ K(cur) = "decl" /\ Leave
       \/ K(cur) = "proto" /\ UNCHANGED <<toks, decls, after>>

Walk ==
    /\ Forward \/ Other
    /\ cur' = IF Ends(cur) THEN 0 ELSE ThingAt(Pos(cur, TRUE) + 1)
    /\ UNCHANGED <<file, at, phase, pass, once>>

\* The end of the block, or something that is no declaration.  The block is
\* read once more from what is now its beginning.
LeaveDry ==
    /\ phase = "dry" /\ K(cur) = "func"
    /\ Leave
    /\ cur' = toks'[at].d
    /\ phase' = "decl"
    /\ UNCHANGED <<file, at, pass, once>>

Behind(d) == Pos(d, TRUE) + 1
Decl ==
    /\ phase = "decl"
    /\ IF K(cur) # "func" /\ ~Ends(cur)
       THEN cur' = ThingAt(Pos(cur, TRUE) + 1) /\ UNCHANGED <<at, phase>>
       ELSE /\ at' = IF cur = 0 THEN Len(toks) + 1 ELSE IF K(cur) = "func" THEN At(cur) ELSE Behind(cur)
            /\ phase' = "root" /\ cur' = 0
    /\ UNCHANGED <<file, toks, decls, after, pass, once>>

Format ==
    /\ phase = "root" /\ at > Len(toks)
    /\ IF pass = 1
       THEN pass' = 2 /\ once' = toks /\ at' = 1 /\ UNCHANGED phase
       ELSE phase' = "done" /\ UNCHANGED <<at, pass, once>>
    /\ UNCHANGED <<file, toks, cur, decls, after>>

Next == Root \/ Walk \/ LeaveDry \/ Decl \/ Format
Spec == Init /\ [][Next]_vars

-----------------------------------------------------------------------------
Things == DOMAIN file
Ahead(d, e) == At(d) < At(e)
Settled == phase = "root"

\* Types; what is remembered of a group are forward declarations.
TypeOK ==
    /\ toks \in Seq([d : Things, semi : BOOLEAN, cpp : BOOLEAN, blank : BOOLEAN])
    /\ at \in 1..Len(toks) + 1 /\ cur \in Things \cup {0} /\ after \in Things \cup {0}
    /\ phase \in {"root", "dry", "decl", "done"} /\ pass \in {1, 2}
    /\ \A i \in DOMAIN decls : K(decls[i]) = "fwd"

\* Every declaration is still there and its tokens are next to each other in
\* the order they were in, whatever was placed behind its semicolon.
Whole ==
    /\ Len(toks) = 2 * Len(file)
    /\ \A d \in Things : Pos(d, TRUE) = At(d) + 1

\* A forward declaration is in front of all it was in front of that is not a
\* forward declaration: what uses the struct still finds it declared.  Other
\* declarations keep their order.
DeclaredAhead ==
    \A d, e \in Things : d < e /\ K(e) # "fwd" => Ahead(d, e)

\* Only prototypes and the like are overtaken by forward declarations.
OnlyPrototypesCrossed ==
    \A d, e \in Things : d < e /\ K(d) # "fwd" /\ Ahead(e, d) => K(d) = "proto" /\ K(e) = "fwd"

\* Directives keep the declarations in front of them and behind them: a
\* conditional still contains what it did.
DirectivesStay ==
    /\ \A i \in DOMAIN toks : toks[i].cpp <=> ~toks[i].semi /\ file[(i + 1) \div 2].cpp
    /\ \A d, e \in Things : (\E c \in d + 1..e : file[c].cpp) => Ahead(d, e)

\* Blank lines do as well, unless prototypes were overtaken.
BlankLinesStay ==
    (\A d \in Things : K(d) # "proto") =>
        \A i \in DOMAIN toks : toks[i].blank <=> toks[i].semi /\ file[i \div 2].blank

\* Neighbours end up sorted, those of a block that are covered by the diff.
Neighbours ==
    Settled /\ at > Len(toks) =>
        \A i \in 1..Len(toks) - 1 :
            LET d == toks[i].d
                e == toks[i + 1].d
            IN  d # e /\ K(d) = "fwd" /\ K(e) = "fwd" /\ Covered(d) /\ Covered(e) /\ ~Ends(d)
                => file[d].key <= file[e].key

Keys(ts) == [i \in DOMAIN ts |-> [ts[i] EXCEPT !.d = <<file[@].k, file[@].key>>]]

\* Formatting again changes nothing, the order of equal names aside.
Stable == phase = "done" => Keys(toks) = Keys(once)

\* Only changed lines are formatted: declarations not covered by the diff
\* keep their place among the lines.
UncoveredStay == \A d \in Things : ~Covered(d) => At(d) = 2 * d - 1
=============================================================================
