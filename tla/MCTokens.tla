------------------------------ MODULE MCTokens ------------------------------
(* Small inputs of the passes that need no operator of theirs.             *)
EXTENDS Integers, Sequences

(* Up to four semicolons on up to three lines and the token behind them.   *)
Comment(i, kind, some) == IF some THEN <<<<kind, i>>>> ELSE <<>>
Tok(i, semi, line, pre, post) ==
    [semi |-> semi, line |-> line, pre |-> Comment(i, "pre", pre), post |-> Comment(i, "post", post)]
\* Comments in front of a token that is not the first one of its line are
\* suffixes of the previous one.
LinesOf(n) == {l \in [1..n -> 1..3] : l[1] = 1 /\ \A i \in 2..n : l[i] \in {l[i - 1], l[i - 1] + 1}}
File(n, l, pre, post) ==
    [i \in 1..n + 1 |-> IF i > n THEN Tok(i, FALSE, 4, pre[i], FALSE)
                        ELSE Tok(i, TRUE, l[i], i > 1 /\ l[i] # l[i - 1] /\ pre[i], post[i])]
MCSemicolons == UNION {{File(n, l, pre, post) : l \in LinesOf(n), pre \in [1..n + 1 -> BOOLEAN],
                                                post \in [1..n -> BOOLEAN]} : n \in 1..4}

(* Small lists of prefixes for CppInclude.                                 *)
Inc(rank, delim, slash, main, group, sort) ==
    [k |-> "include", rank |-> rank, delim |-> delim, slash |-> slash, main |-> main, group |-> group, sort |-> sort,
     id |-> 0, line |-> FALSE, diff |-> TRUE]
\* "file.h", "a.h", "d/b.h", <c.h>, MACRO and a comment
Kinds == {Inc(2, "\"", FALSE, TRUE, 2, 2), Inc(1, "\"", FALSE, FALSE, 2, 2), Inc(3, "\"", TRUE, FALSE, 1, 1),
          Inc(4, "<", FALSE, FALSE, 1, 0), Inc(5, "none", FALSE, FALSE, 2, 2),
          [Inc(6, "none", FALSE, FALSE, 2, 2) EXCEPT !.k = "other"]}
Lines == [1..4 -> {FALSE}] \cup {[i \in 1..4 |-> i = n] : n \in 1..3}
Diffs == {[i \in 1..4 |-> TRUE], [i \in 1..4 |-> i # 2], [i \in 1..4 |-> FALSE]}

MCIncludes ==
    {[i \in DOMAIN ks |-> [ks[i] EXCEPT !.id = i, !.line = ls[i], !.diff = ds[i]]] :
        ks \in {f \in UNION {[1..n -> Kinds] : n \in 2..4} :
                    \A i, j \in DOMAIN f : i # j /\ f[i].k = "include" => f[i].rank # f[j].rank},
        ls \in Lines, ds \in Diffs}

(* Small blocks for SimpleDecl.                                            *)
T(k, v, c) == [id |-> 0, k |-> k, v |-> v, c |-> c]
\* Declarators of the variable v, using u or not
Plain1(v) == {<<T("ident", v, FALSE)>>, <<T("*", 0, FALSE), T("ident", v, FALSE)>>}
Fixed(v, u) == {<<T("ident", v, FALSE), T("=", u, FALSE)>>, <<T("ident", v, FALSE), T("[]", 0, FALSE)>>,
                <<T("*", 0, FALSE), T("ident", v, FALSE), T("=", 0, FALSE)>>, <<T("ident", v, TRUE)>>}
Any(v, u) == Plain1(v) \cup Fixed(v, u)
Decl1(t, c, S) == {<<T("type", t, c)>> \o d \o <<T(";", 0, FALSE)>> : d \in S}
Decl2(t, S1, S2) == {<<T("type", t, FALSE)>> \o d \o <<T(",", 0, FALSE)>> \o e \o <<T(";", 0, FALSE)>> : d \in S1, e \in S2}
Decl3(t, S1, S2, S3) ==
    {<<T("type", t, FALSE)>> \o d \o <<T(",", 0, c)>> \o e \o <<T(",", 0, FALSE)>> \o f \o <<T(";", 0, s)>> :
        d \in S1, e \in S2, f \in S3, c \in BOOLEAN, s \in BOOLEAN}
Concat(S1, S2) == {s \o t : s \in S1, t \in S2}

\* Variables are numbered in the order of their names; 2 comes first.
Pairs == Concat(Decl2(1, Any(2, 0), Any(4, 2)), UNION {Decl2(t, Any(1, 2), Any(3, 1)) : t \in {1, 2}})
Triples == Concat(Decl1(1, FALSE, Any(3, 0)), Concat(UNION {Decl1(t, FALSE, Any(2, 3)) : t \in {1, 2}},
    UNION {Decl1(t, c, Any(1, 3) \cup {<<>>}) : t \in {1, 2}, c \in BOOLEAN}))
Lists == Concat(Decl3(1, Any(2, 0), Any(4, 0), Any(1, 2)), {<<>>} \cup Decl1(1, FALSE, Plain1(3)) \cup {<<T(";", 0, FALSE)>>})

MCBlocks == Pairs \cup Triples \cup Lists

(* Small prototypes for Prototype.                                         *)
P(k) == [k |-> k, id |-> 0, use |-> ""]
U(k, use) == [k |-> k, id |-> 0, use |-> use]
Ts(ks) == [i \in DOMAIN ks |-> P(ks[i])]
Join2(S1, S2) == {s \o t : s \in S1, t \in S2}

Types == {Ts(ks) : ks \in {<<"type">>, <<"ident">>, <<"qual", "ident">>, <<"struct", "ident">>, <<"ident", "qual">>,
    <<"ident", "*">>, <<"ident", "qual", "qual">>, <<"type", "*", "qual">>}}
SimpleTypes == {Ts(<<"type">>), Ts(<<"ident">>), Ts(<<"ident", "*">>)}
Names(use) == {<<>>, <<U("ident", use)>>}
Dims == {<<>>, <<P("["), P("lit"), P("]")>>, <<P("["), U("ident", "ref"), P("]")>>, <<P("attr")>>,
         <<P("["), P("ident"), P("("), P("lit"), P(","), P("lit"), P(")"), P("]")>>}
Named1 == {<<U("ident", "name")>>}
Ellipses == {<<U("type", "...")>>}

Plain == Join2(Join2(Types, Names("name")), {<<>>}) \cup Join2(Join2(SimpleTypes, Named1), Dims)
    \cup Join2({<<P("attr")>>}, Join2(SimpleTypes, Named1)) \cup {Ts(<<"type", "[", "lit", "]">>)}
\* Pointers to arrays and to functions
Inner == Join2(SimpleTypes, Names("inner"))
Pointers(S) == {Ts(<<"type", "(", "*">>) \o n \o Ts(<<")", "(">>) \o i \o Ts(<<")">>) : n \in Names("name"), i \in S}
Arrays == {Ts(<<"type", "(", "*">>) \o n \o Ts(<<")", "[", "lit", "]">>) : n \in Names("name")}

Args1(S) == {Ts(<<"(">>) \o a \o Ts(<<")">>) : a \in S}
Args2(S1, S2) == {Ts(<<"(">>) \o a \o Ts(<<",">>) \o b \o Ts(<<")">>) : a \in S1, b \in S2}
Args3(S1, S2, S3) == {Ts(<<"(">>) \o a \o Ts(<<",">>) \o b \o Ts(<<",">>) \o c \o Ts(<<")">>) : a \in S1, b \in S2, c \in S3}
\* Functions returning a pointer to a function
Returning(L1, L2) == {Ts(<<"(", "*", "ident">>) \o l \o Ts(<<")">>) \o m : l \in L1, m \in L2}

Few == Join2(SimpleTypes, Names("name"))
MCPlain == Args1(Plain) \cup Args2(Plain, Plain) \cup Args3(Few, Plain, Few) \cup Args2(Plain, Arrays)
    \cup Args2(Plain, Ellipses)
MCNested == Args2(Pointers(Inner), Plain) \cup Args2(Few, Pointers(Join2(Inner, {<<P(",")>> \o i : i \in Inner})))
    \cup Returning(Args2(Few, Few), Args1(Inner)) \cup Returning(Args1(Pointers(Inner)), Args1(Inner))
MCPrototypes == MCPlain \cup MCNested
=============================================================================
