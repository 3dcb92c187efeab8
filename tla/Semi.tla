-------------------------------- MODULE Semi --------------------------------
(***************************************************************************)
(* Excessive semicolons behind statements (parser_semi()) and declarations *)
(* (parser_decl()) are left out; comments hang off them as prefixes and    *)
(* suffixes and are to be kept.                                            *)
(***************************************************************************)
EXTENDS Integers, FiniteSets, SequencesExt

CONSTANTS Files  \* sequences of tokens [semi, line, pre, post]

VARIABLES
    toks,    \* the tokens, comments being numbered in the order of the file
    ctx,     \* what the first semicolon ends: "stmt" or "decl"
    pos,     \* tokens consumed so far
    out,     \* what is emitted: comments, ";" and other tokens
    file     \* the tokens at first (history)
vars == <<toks, ctx, pos, out, file>>

Init ==
    /\ toks \in Files /\ ctx \in {"stmt", "decl"}
    /\ pos = 0 /\ out = <<>>
    /\ file = toks

\* lexer_remove(): prefixes go to the next token, suffixes to the previous one.
\* Mutant: suffixes go with the token.
LexerRemoveSuffixes(ts, i) ==
    RemoveAt([ts EXCEPT ![i + 1].pre = ts[i].pre \o @], i)
LexerRemove(ts, i) ==
    RemoveAt([ts EXCEPT ![i + 1].pre = ts[i].pre \o @, ![i - 1].post = @ \o ts[i].post], i)
RemoveAll(ts, lo, hi) ==
    LET f[n \in lo - 1..hi] == IF n < lo THEN ts ELSE LexerRemove(f[n - 1], lo)
    IN  f[hi]

Semicolon == <<";", 0>>
Other == <<"token", 0>>
Emitted(t) == t.pre \o <<IF t.semi THEN Semicolon ELSE Other>> \o t.post

\* How many semicolons follow the one at i, on its line if so wanted.
Following(i, sameline) ==
    LET ends == {j \in i + 1..Len(toks) : ~toks[j].semi \/ (sameline /\ toks[j].line # toks[i].line)}
    IN  (CHOOSE j \in ends : \A k \in ends : j <= k) - i - 1

NextSemi == pos < Len(toks) /\ toks[pos + 1].semi

\* parser_semi(): all but the last one are taken, the first not being removed.
Statement ==
    /\ NextSemi
    /\ ctx = "stmt" \/ pos > 0
    /\ LET i == pos + 1
           n == Following(i, TRUE)
           ts == IF n = 0 THEN toks ELSE RemoveAll(toks, i + 1, i + n - 1)
       IN  /\ toks' = ts
           /\ pos' = IF n = 0 THEN i ELSE i + 1
           /\ out' = out \o Emitted(ts[pos'])
    /\ UNCHANGED <<ctx, file>>

\* The end of parser_decl().
Declaration ==
    /\ NextSemi
    /\ ctx = "decl" /\ pos = 0
    /\ LET ts == RemoveAll(toks, 2, 1 + Following(1, FALSE))
       IN  toks' = ts /\ out' = out \o Emitted(ts[1])
    /\ pos' = 1
    /\ UNCHANGED <<ctx, file>>

Token ==
    /\ pos < Len(toks) /\ ~NextSemi
    /\ pos' = pos + 1
    /\ out' = out \o Emitted(toks[pos'])
    /\ UNCHANGED <<toks, ctx, file>>

Next == Statement \/ Declaration \/ Token
Spec == Init /\ [][Next]_vars

-----------------------------------------------------------------------------
Done == pos = Len(toks)
Emits(c) == Len(SelectSeq(out, LAMBDA x : x = c))

\* One semicolon is left of those ending a declaration, one on each line of
\* those behind a statement.
OnePerLine ==
    Done => Emits(Semicolon) =
        IF ctx = "decl" THEN 1 ELSE Cardinality({t.line : t \in {u \in Range(file) : u.semi}})

Dropped(i) == ctx = "stmt" /\ file[i].semi /\ file[i + 1].semi /\ file[i + 1].line = file[i].line

\* Comments are emitted once each, unless they hang off a semicolon of a
\* statement that is followed by another one on its line.
CommentsKept ==
    Done => \A i \in DOMAIN file :
        \A c \in Range(file[i].pre \o file[i].post) : Emits(c) = 1 \/ (Dropped(i) /\ Emits(c) = 0)

\* Nothing but semicolons is left out.
OnlySemicolons ==
    Done => \A i \in DOMAIN file : \A c \in Range(file[i].pre \o file[i].post) : Emits(c) = 1
=============================================================================
