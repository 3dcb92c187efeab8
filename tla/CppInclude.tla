----------------------------- MODULE CppInclude -----------------------------
(***************************************************************************)
(* cpp-include.c: includes in front of a token are sorted, a block at a    *)
(* time, as the prefixes of the token are read.  A block ends at any other *)
(* prefix and, unless blocks are regrouped, at a blank line.               *)
(*                                                                         *)
(* A prefix is [id, k, rank, delim, slash, main, group, sort, line, diff]. *)
(* k: "include", "other" or "line" for an emitted blank line.  rank: place *)
(* in the order of token_strcmp().  delim: of the path, "none" if the path *)
(* is a macro.  main: the header named like the file.  group, sort: from   *)
(* the first category that matches.  line: a blank line ends the prefix.   *)
(***************************************************************************)
EXTENDS Integers, Sequences, FiniteSets, TLC

CONSTANTS
    Sources,        \* sequences of prefixes
    Priorities      \* style_include_priorities(), ascending

VARIABLES
    todo,       \* what is left to read
    prefixes,   \* ci->prefixes
    includes,   \* ci->includes, identities
    groups,     \* ci->groups: the includes of each priority
    after,      \* ci->after, or 0
    ignore,     \* ci->ignore
    refs,       \* references to prefixes: that of the list and one of includes
    regroup,    \* ci->regroup
    diffparse,  \* options.diffparse
    source,     \* what there was to read
    pass        \* files are formatted twice
vars == <<todo, prefixes, includes, groups, after, ignore, refs, regroup, diffparse, source, pass>>

NoGroups == [i \in DOMAIN Priorities |-> <<>>]
Tok(id) == LET i == CHOOSE j \in DOMAIN source : source[j].id = id IN source[i]
Place(list, id) == CHOOSE i \in DOMAIN list : list[i].id = id

-----------------------------------------------------------------------------
(* cpp_include_exec()                                                      *)

\* The priority of an include: that of the header of the file comes first.
Group(t) == IF regroup /\ ~t.main THEN t.group ELSE 0
Sort(t, first) ==
    CASE regroup -> IF t.main THEN 0 ELSE t.sort
      [] ~regroup /\ first /\ t.main -> -1
      [] OTHER -> 0

\* Where grouping gives up: at a macro and, if blocks are left as they are,
\* where brackets meet quotes or a path with a slash.
StopsAt(ids, i) ==
    LET seen == {Tok(ids[j]) : j \in 1..i}
    IN  \/ Tok(ids[i]).delim = "none"
        \/ ~regroup /\ (\E t \in seen : t.delim = "<") /\ (\E t \in seen : t.delim = "\"" \/ t.slash)

\* Each include is added to its group, up to where that stops.
Grouped(gs, ids) ==
    LET n == CHOOSE i \in 1..(Len(ids) + 1) :
                /\ i <= Len(ids) => StopsAt(ids, i)
                /\ \A j \in 1..(i - 1) : ~StopsAt(ids, j)
        in(p) == LET of(i) == Group(Tok(i)) = Priorities[p] IN SelectSeq(SubSeq(ids, 1, n - 1), of)
    IN  [p \in DOMAIN gs |-> gs[p] \o in(p)]
Stops(ids) == \E i \in DOMAIN ids : StopsAt(ids, i)

\* include_cmp()
IncludeLess(ids, a, b) ==
    LET s(id) == Sort(Tok(id), id = ids[1])
    IN  s(a) < s(b) \/ (s(a) = s(b) /\ Tok(a).rank < Tok(b).rank)
Sorted(ids, g) == SortSeq(g, LAMBDA a, b : IncludeLess(ids, a, b))

EndsInLine(ids, g) == regroup \/ Tok(g[Len(g)]).line

\* add_line()
Line(p) == [id |-> 100 + Len(Priorities) * Len(prefixes) + p, k |-> "line", line |-> FALSE]

\* The groups one after another, a blank line behind each that had one.
RECURSIVE Arranged(_, _, _)
Arranged(gs, ids, p) ==
    IF p > Len(gs) THEN <<>>
    ELSE (IF gs[p] = <<>> THEN <<>>
          ELSE [i \in DOMAIN gs[p] |-> [Tok(Sorted(ids, gs[p])[i]) EXCEPT !.line = FALSE]]
               \o (IF EndsInLine(ids, gs[p]) THEN <<Line(p)>> ELSE <<>>))
         \o Arranged(gs, ids, p + 1)

Without(list, ids) == LET other(t) == t.id \notin ids IN SelectSeq(list, other)
Exec(list, gs, ids, first) ==
    LET rest == Without(list, {ids[i] : i \in DOMAIN ids})
        n == IF first = 0 THEN 0 ELSE Place(rest, first)
    IN  SubSeq(rest, 1, n) \o Arranged(gs, ids, 1) \o SubSeq(rest, n + 1, Len(rest))

Dropped(rs, ids) == [id \in DOMAIN rs |-> rs[id] - Cardinality({i \in DOMAIN ids : ids[i] = id})]

\* cpp_include_exec() and cpp_include_reset()
ExecAndReset(list, ids, first, ign, rs) ==
    LET gs == Grouped(groups, ids)
        skip == ign \/ Len(ids) < 2
    IN  /\ prefixes' = IF skip \/ Stops(ids) THEN list ELSE Exec(list, gs, ids, first)
        /\ groups' = NoGroups
        /\ includes' = <<>> /\ after' = 0 /\ ignore' = FALSE
        /\ refs' = Dropped(rs, ids)

-----------------------------------------------------------------------------
Init ==
    /\ source \in Sources
    /\ regroup \in BOOLEAN /\ diffparse \in BOOLEAN
    /\ todo = source /\ prefixes = <<>> /\ includes = <<>> /\ groups = NoGroups
    /\ after = 0 /\ ignore = FALSE /\ refs = <<>> /\ pass = 1

AfterFirst(t) ==
    IF includes # <<>> THEN after
    ELSE IF prefixes = <<>> THEN 0 ELSE prefixes[Len(prefixes)].id

\* Mutant: the first include decides.
IgnoredFirst(t) == ignore \/ (diffparse /\ ~t.diff /\ includes = <<>>)
Ignored(t) == ignore \/ (diffparse /\ ~t.diff)

\* clang_read_prefix() and cpp_include_add()
Add ==
    /\ todo # <<>>
    /\ todo' = Tail(todo)
    /\ LET t == Head(todo)
           list == Append(prefixes, t)
           ids == Append(includes, t.id)
           ign == Ignored(t)
       IN  CASE t.k # "include" -> ExecAndReset(list, includes, after, ignore, refs @@ (t.id :> 1))
             [] t.k = "include" /\ (regroup \/ ~t.line) ->
                    /\ prefixes' = list /\ includes' = ids /\ ignore' = ign
                    /\ after' = AfterFirst(t) /\ refs' = refs @@ (t.id :> 2)
                    /\ UNCHANGED groups
             [] OTHER -> ExecAndReset(list, ids, AfterFirst(t), ign, refs @@ (t.id :> 2))
    /\ UNCHANGED <<regroup, diffparse, source, pass>>

\* cpp_include_leave(), in front of a token that is no prefix; the prefixes
\* are those of the next one then
Leave ==
    /\ todo = <<>> /\ includes # <<>>
    /\ ExecAndReset(prefixes, includes, after, ignore, refs)
    /\ UNCHANGED <<todo, regroup, diffparse, source, pass>>

\* The file is formatted again: lines belong to what is in front of them.
Relexed(list) ==
    LET line(i) == i < Len(list) /\ list[i + 1].k = "line"
        all == [i \in DOMAIN list |-> IF list[i].k # "line" /\ line(i) THEN [list[i] EXCEPT !.line = TRUE] ELSE list[i]]
        token(t) == t.k # "line"
    IN  SelectSeq(all, token)
Again ==
    /\ todo = <<>> /\ includes = <<>> /\ pass = 1
    /\ source' = Relexed(prefixes) /\ todo' = source'
    /\ prefixes' = <<>> /\ refs' = <<>> /\ pass' = 2
    /\ UNCHANGED <<includes, groups, after, ignore, regroup, diffparse>>

Next == Add \/ Leave \/ Again
Spec == Init /\ [][Next]_vars

-----------------------------------------------------------------------------
(* Correctness.                                                            *)

Present == {prefixes[i].id : i \in {j \in DOMAIN prefixes : prefixes[j].k # "line"}}
\* No prefix is in the list twice, and what the group remembers is in the list.
TypeOK ==
    /\ Cardinality({prefixes[i].id : i \in DOMAIN prefixes}) = Len(prefixes)
    /\ \A i \in DOMAIN includes : includes[i] \in Present
    /\ after \in Present \cup {0} \cup {prefixes[i].id : i \in DOMAIN prefixes}

\* Every prefix that has been read is there.
Complete == Present = {source[i].id : i \in 1..(Len(source) - Len(todo))}
\* A prefix is referenced as often as it is known: it is neither leaked nor
\* freed while in use.
RefsExact ==
    \A id \in DOMAIN refs :
        refs[id] = Cardinality({i \in DOMAIN prefixes : prefixes[i].id = id})
                 + Cardinality({i \in DOMAIN includes : includes[i] = id})

Before(list, a, b) == \E i, j \in DOMAIN list : i < j /\ list[i].id = a /\ list[j].id = b

\* An include stays between the same other prefixes.
Barriers ==
    \A a, b \in Present :
        Tok(a).k # Tok(b).k \/ Tok(a).k = "other" => (Before(source, a, b) <=> Before(prefixes, a, b))

LinesBefore(list, id) ==
    Cardinality({i \in 1..(Place(list, id) - 1) : list[i].k = "line" \/ list[i].line})

\* Blocks that are not regrouped stay apart: an include is behind the same
\* number of blank lines.
LinesKept == ~regroup => \A id \in Present : LinesBefore(source, id) = LinesBefore(prefixes, id)

Done == todo = <<>> /\ includes = <<>>
Apart(t) == t.k # "include" \/ t.main
Plain == \A i \in DOMAIN source : source[i].k = "include" =>
            source[i].delim = "\"" \/ (regroup /\ source[i].delim = "<")

\* In the end includes without a blank line in between are in order, but for
\* the header of the file.
BlocksSorted ==
    Done /\ ~diffparse /\ Plain =>
        \A i \in 1..(Len(prefixes) - 1) :
            LET a == prefixes[i]
                b == prefixes[i + 1]
            IN  a.k = "line" \/ b.k = "line" \/ Apart(a) \/ Apart(b) \/ a.line
                \/ (a.rank < b.rank /\ (regroup => a.sort = b.sort))
                \/ (regroup /\ a.sort < b.sort)

\* What a diff does not cover is not moved, nor what is next to it.
UncoveredStay ==
    diffparse =>
        \A a, b \in Present : ~Tok(a).diff => (Before(source, a, b) <=> Before(prefixes, a, b))

\* Sorting again changes nothing.
Stable == Done /\ pass = 2 => Relexed(prefixes) = source
=============================================================================
