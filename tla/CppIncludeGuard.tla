-------------------------- MODULE CppIncludeGuard --------------------------
(***************************************************************************)
(* cpp-include-guard.c: the include guards of a header are added, or       *)
(* replaced if they have another name.                                     *)
(*                                                                         *)
(* The file is a list of prefixes and, as "tok", tokens.  A prefix is      *)
(* [k, g, line]: "ifndef", "define" or "endif" naming the guard g, "else", *)
(* "comment", "other" or "line" for a blank line; line: one ends it.       *)
(***************************************************************************)
EXTENDS Naturals, Sequences, FiniteSets

CONSTANTS
    Files,      \* files whose conditionals are balanced
    Guard       \* path_to_guard()

VARIABLES
    file,       \* the tokens
    source,     \* those of the file as written
    pass        \* how often it has been formatted
vars == <<file, source, pass>>

IsMin(n, S) == n \in S /\ \A m \in S : n <= m
Toks == {i \in DOMAIN file : file[i].k = "tok"}
End == Len(file) + 1
\* Prefixes of the first token and those of the last one, the end of file
\* being one
FirstParent == CHOOSE n \in Toks \cup {End} : IsMin(n, Toks \cup {End})
LastParent == CHOOSE n \in Toks \cup {0} : \A m \in Toks : m <= n

-----------------------------------------------------------------------------
(* sense_include_guards()                                                  *)

\* Where conditionals opened at i are closed or continued.
Depth(ts, i, j) == Cardinality({n \in i..j : ts[n].k = "ifndef"}) - Cardinality({n \in i..j : ts[n].k = "endif"})
Continues(ts, i, j) ==
    (ts[j].k = "endif" /\ Depth(ts, i, j) = 0) \/ (ts[j].k = "else" /\ Depth(ts, i, j) = 1)
BranchNext(ts, i) ==
    CHOOSE j \in (i + 1)..Len(ts) : IsMin(j, {n \in (i + 1)..Len(ts) : Continues(ts, i, n)})

\* Mutant: the prefixes are searched from the end.
LastOf(k) == {i \in 1..(FirstParent - 1) : file[i].k = k /\ \A n \in (i + 1)..(FirstParent - 1) : file[n].k # k}
FirstOf(k) == {i \in 1..(FirstParent - 1) : IsMin(i, {n \in 1..(FirstParent - 1) : file[n].k = k})}

SenseEndif(i) == file[BranchNext(file, i)].k = "endif" /\ BranchNext(file, i) > LastParent

\* The places of the guards there are, if any; a define of a value is none.
Sensed ==
    {<<i, i + 1, BranchNext(file, i)>> : i \in
        {n \in FirstOf("ifndef") : n + 1 \in FirstOf("define") /\ file[n + 1].g # "value" /\ SenseEndif(n)}}
\* Mutant: the names of the others are not compared.
RightIfndef == \E s \in Sensed : file[s[1]].g = Guard
Right == \E s \in Sensed : \A n \in 1..3 : file[s[n]].g = Guard

-----------------------------------------------------------------------------
(* cpp_include_guard()                                                     *)

Item(k) == [k |-> k, g |-> Guard, line |-> k = "define"]

\* is_comment(): a comment above the first token is about that.
IsComment(i) == file[i].k = "comment" /\ (i + 1 = FirstParent /\ FirstParent # End => file[i].line)

Slice(S) ==
    [n \in 1..Cardinality(S) |-> file[CHOOSE i \in S : Cardinality({j \in S : j < i}) = n - 1]]

\* Comments in front of the guards
Leading(ifndef) ==
    LET prefixes == (1..(FirstParent - 1)) \ ifndef
    IN  {i \in prefixes : \A j \in prefixes : j <= i => IsComment(j)}

\* emit_ifndef(): a blank line behind the comments
Opened(lead) ==
    Slice(lead)
    \o (IF \E i \in lead : ~file[i].line /\ \A j \in lead : j <= i THEN <<Item("line")>> ELSE <<>>)
    \o <<Item("ifndef"), Item("define")>>

\* ensure_line(), when there was no endif to replace; the line behind the
\* last token is replaced
EnsureLine ==
    IF LastParent = Len(file) \/ ~file[Len(file)].line THEN <<Item("line")>> ELSE <<>>

\* The new file
Guarded(s) ==
    LET lead == Leading({t[1] : t \in s})
        gone == UNION {{t[1], t[2], t[3]} : t \in s}
    IN  Opened(lead) \o Slice((DOMAIN file \ lead) \ gone) \o (IF s = {} THEN EnsureLine ELSE <<>>) \o <<Item("endif")>>

Init == file \in Files /\ source = file /\ pass = 0

\* The file is read again: a blank line belongs to what is in front of it.
Relexed(ts) ==
    LET behind(i) == i < Len(ts) /\ ts[i + 1].k = "line"
        all == [i \in DOMAIN ts |-> IF behind(i) THEN [ts[i] EXCEPT !.line = TRUE] ELSE ts[i]]
        token(t) == t.k # "line"
    IN  SelectSeq(all, token)
Format ==
    /\ pass < 2
    /\ pass' = pass + 1
    /\ file' = IF Right THEN file ELSE Relexed(Guarded(Sensed))
    /\ UNCHANGED source
Next == Format
Spec == Init /\ [][Next]_vars

-----------------------------------------------------------------------------
(* Correctness.                                                            *)

FirstGuard == CHOOSE i \in DOMAIN file : IsMin(i, {n \in DOMAIN file : file[n].k = "ifndef" /\ file[n].g = Guard})

\* The guards are around all but comments.
Closed ==
    pass > 0 =>
        /\ \E i \in DOMAIN file : file[i].k = "ifndef" /\ file[i].g = Guard
        /\ \A i \in 1..(FirstGuard - 1) : file[i].k # "tok"
        /\ FirstGuard < Len(file) /\ file[FirstGuard + 1].k = "define" /\ file[FirstGuard + 1].g = Guard
        /\ BranchNext(file, FirstGuard) > LastParent /\ file[BranchNext(file, FirstGuard)].g = Guard

Conditionals(ts) == Cardinality({i \in DOMAIN ts : ts[i].k = "ifndef"}) - Cardinality({i \in DOMAIN ts : ts[i].k = "endif"})
Rest(ts) ==
    LET other(t) == t.k \in {"tok", "comment", "other", "else"} \/ t.g = "value"
        rest == SelectSeq(ts, other)
    IN  [i \in DOMAIN rest |-> rest[i].k]

\* Conditionals stay balanced, and only those of the guards are replaced.
RestKept == Conditionals(file) = 0 /\ Rest(file) = Rest(source)

\* A comment above the guards is not moved into them, and one above the
\* first token stays within.
CommentsOutside ==
    pass > 0 => \A i \in DOMAIN source : source[i].k = "comment" /\ (\A j \in 1..i : source[j].k = "comment") =>
                    (file[i].k = "comment" /\ \A j \in 1..(i - 1) : file[j].k = "comment")
                    \/ (i < Len(source) /\ source[i + 1].k = "tok" /\ ~source[i].line)

\* Formatting again changes nothing.
Settles == pass = 1 => file' = file
=============================================================================
