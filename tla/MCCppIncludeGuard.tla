------------------------- MODULE MCCppIncludeGuard -------------------------
(* Small headers for CppIncludeGuard.                                      *)
EXTENDS CppIncludeGuard

I(k, g, line) == [k |-> k, g |-> g, line |-> line]
Head1 == {I("comment", "", TRUE), I("comment", "", FALSE), I("ifndef", "G", FALSE), I("ifndef", "O", FALSE),
          I("define", "G", TRUE), I("define", "O", FALSE), I("define", "value", FALSE), I("other", "", FALSE)}
Tail1 == {I("endif", "G", FALSE), I("endif", "O", FALSE), I("else", "", FALSE), I("comment", "", TRUE), I("comment", "", FALSE)}
Seqs(S, n) == UNION {[1..m -> S] : m \in 0..n}
Tok == <<I("tok", "", FALSE)>>
All == {h \o Tok \o t : h \in Seqs(Head1, 3), t \in Seqs(Tail1, 2)}
    \cup {h \o Tok \o <<I("endif", "O", FALSE)>> \o Tok \o t : h \in Seqs(Head1, 3), t \in Seqs(Tail1, 1)}
    \cup {h \o t : h \in Seqs(Head1, 3), t \in Seqs(Tail1, 1)}
D(f, i) == Depth(f, 1, i)
MCFiles == {f \in All : (f # <<>> => D(f, Len(f)) = 0)
                        /\ \A i \in DOMAIN f : D(f, i) >= (IF f[i].k = "else" THEN 1 ELSE 0)
                        /\ Cardinality({n \in DOMAIN f : f[n].k = "else"}) < 2}
=============================================================================
