------------------------------- MODULE MCStmt -------------------------------
(* Small functions for Stmt.                                               *)
EXTENDS Stmt

Leaf == {<<"e", ";">>, <<"E", ";">>, <<";">>}
Braced(S) == {<<"{">> \o s \o <<"}">> : s \in S}
Bodies1 == Leaf \cup Braced(Leaf \cup {<<>>, <<"int", ";">>, <<"e", ";", "e", ";">>, <<"e", ";", ";">>})

If(S, T) == {<<"if">> \o s \o <<"else">> \o t : s \in S, t \in T}
Chain(S, T, U) == {<<"if">> \o s \o <<"elif">> \o t \o <<"else">> \o u : s \in S, t \in T, u \in U}
Loop(S) == {<<k>> \o s : k \in Loops \cup {"if"}, s \in S} \cup {<<"do">> \o s \o <<"while", ";">> : s \in S}
Few == {<<"e", ";">>, <<"{", "e", ";", "}">>, <<"{", "E", ";", "}">>, <<"{", "e", ";", "}", ";">>}
Switches == {<<"switch", "{", "default">> \o s \o <<"}">> : s \in
        {<<";">>, <<"e", ";">>, <<";", "case", "e", ";">>, <<"{", "e", ";", "}">>, <<"while", ";">>}}
    \cup {<<"switch", "{", "case", "e", ";", "default">> \o s \o <<"}">> : s \in {<<";">>, <<";", "e", ";">>}}
Labels == {<<"label">> \o s : s \in Leaf \cup Braced(Leaf)}
Special == {<<"if", a, "e", ";", b, "else">> \o s : a \in Lbraces, b \in Rbraces, s \in Few}
    \cup {<<"while", a, ";", b>> : a \in Lbraces, b \in Rbraces}

One == Loop(Bodies1) \cup If(Bodies1, Bodies1) \cup Chain(Few, Bodies1, Bodies1) \cup Switches \cup Labels \cup Special

Inner == Loop(Few) \cup If(Few, Few) \cup Switches \cup Labels
Two == Loop(Inner \cup Braced(Inner) \cup {<<"{">> \o s \o <<"e", ";", "}">> : s \in Inner})
    \cup If(Few, Inner \cup Braced(Inner))
    \cup If(Braced(Inner), Few) \cup If(Inner, Few)

\* An empty statement in front of else ends the if, and one in front of
\* while the do.
IsC(s) == \A i \in 2..Len(s) : s[i] \in {"elif", "else", "while"} => ~(s[i - 1] = ";" /\ s[i - 2] = "}")
MCSources == {s \in One \cup Two : IsC(s)}
Nested == Loop(Loop({<<";">>}))
=============================================================================
